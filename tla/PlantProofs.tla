---------------------------- MODULE PlantProofs -----------------------------
(***************************************************************************)
(* Proofs about what the operator presses and sees and what the Raspi      *)
(* drives: the buttons (module Panel), their LEDs (Leds), a writable       *)
(* output (Outputs) and the camera's ready line (SeaReady); and what the   *)
(* machine's parts promise in the specification TLC runs (MCMachine).      *)
(***************************************************************************)
EXTENDS MCMachine, InboxProofs, MotionProofs, DeviceProofs

-----------------------------------------------------------------------------
(* The buttons.                                                            *)

\* A change in the queue.
PnEvents == [now : SUBSET PanelButtons, was : SUBSET PanelButtons]

\* A press that no read has seen yet, and one an event reports.
PnUnseen == IF "none" \notin pnKnown /\ pnDown \ pnKnown # {} THEN 1 ELSE 0
PnNews(event) == IF Fresh(event) # {} THEN 1 ELSE 0

\* r counts presses along the queue: those behind the commands so far, and one at
\* least for each event that reports some; what is unseen comes on top.
PnRanks(r, queue, commands, unseen, pressed) ==
  /\ r \in [0 .. Len(queue) -> Nat]
  /\ commands <= r[0]
  /\ \A i \in 0 .. Len(queue), j \in 1 .. Len(queue) : i < j => r[i] + PnNews(queue[j]) <= r[j]
  /\ r[Len(queue)] + unseen <= pressed

PnCounted(queue, commands, unseen, pressed) == \E r : PnRanks(r, queue, commands, unseen, pressed)

PnTyped == PanelTypeOK /\ pnQueue \in Seq(PnEvents)

PanelIInv == PnTyped /\ PnCounted(pnQueue, pnCommands, PnUnseen, pnPressed)

\* Sums with what is at most one.
LEMMA PnSums ==
  \A a \in Nat, b \in Nat, x \in 0 .. 1, y \in 0 .. 1 :
    /\ x <= y => a + x <= a + y
    /\ a + x <= (a + 1) + y /\ a + 1 \in Nat
    /\ a + x <= b => a <= b
OBVIOUS

LEMMA PnSmall == PnUnseen \in 0 .. 1 /\ \A e : PnNews(e) \in 0 .. 1
BY DEF PnUnseen, PnNews

\* An event that reports what was unseen joins the queue.
LEMMA PnAppends ==
  ASSUME NEW q \in Seq(PnEvents), NEW e \in PnEvents, NEW c \in Nat, NEW u \in 0 .. 1, NEW p \in Nat,
         PnCounted(q, c, u, p), PnNews(e) <= u
  PROVE  PnCounted(Append(q, e), c, 0, p)
<1> DEFINE n == Len(q)
           x == PnNews(e)
           q2 == Append(q, e)
<1>1. PICK r : PnRanks(r, q, c, u, p)
  BY DEF PnCounted
<1>2. n \in Nat /\ x \in 0 .. 1 /\ Len(q2) = n + 1 /\ q2[n + 1] = e /\ \A j \in 1 .. n : q2[j] = q[j]
  BY PnSmall
<1>3. /\ r \in [0 .. n -> Nat] /\ c <= r[0] /\ r[n] + u <= p
      /\ \A i \in 0 .. n, j \in 1 .. n : i < j => r[i] + PnNews(q[j]) <= r[j]
  BY <1>1 DEF PnRanks
<1>4. \A j \in 1 .. n : PnNews(q[j]) \in 0 .. 1
  BY PnSmall
<1> DEFINE r2 == [i \in 0 .. n + 1 |-> IF i = n + 1 THEN r[n] + x ELSE r[i]]
<1> HIDE DEF x, q2, n
<1>5. r2 \in [0 .. n + 1 -> Nat] /\ c <= r2[0] /\ r2[n + 1] + 0 <= p
  BY <1>2, <1>3 DEF x
<1>6. ASSUME NEW i \in 0 .. n + 1, NEW j \in 1 .. n + 1, i < j PROVE r2[i] + PnNews(q2[j]) <= r2[j]
  <2>1. CASE j = n + 1
    <3>1. r2[i] = r[i] /\ r2[j] = r[n] + x /\ PnNews(q2[j]) = x /\ i \in 0 .. n
      BY <1>2, <1>6, <2>1 DEF x
    <3>2. r[i] <= r[n]
      <4>1. CASE i = n
        BY <1>2, <1>3, <4>1
      <4>2. CASE i < n
        <5>1. r[i] + PnNews(q[n]) <= r[n] /\ n \in 1 .. n
          BY <1>2, <1>3, <3>1, <4>2
        <5>2. r[i] \in Nat /\ r[n] \in Nat /\ PnNews(q[n]) \in 0 .. 1
          BY <1>2, <1>3, <1>4, <3>1, <5>1
        <5> QED
          BY <5>1, <5>2, PnSums
      <4> QED
        BY <1>2, <3>1, <4>1, <4>2
    <3> QED
      BY <1>2, <1>3, <3>1, <3>2
  <2>2. CASE j # n + 1
    <3>1. j \in 1 .. n /\ i \in 0 .. n /\ r2[i] = r[i] /\ r2[j] = r[j] /\ q2[j] = q[j]
      BY <1>2, <1>6, <2>2
    <3> QED
      BY <1>3, <1>6, <3>1
  <2> QED
    BY <2>1, <2>2
<1> HIDE DEF r2
<1>7. PnRanks(r2, q2, c, 0, p)
  BY <1>2, <1>5, <1>6 DEF PnRanks
<1> QED
  BY <1>7 DEF PnCounted, q2

\* The oldest event leaves the queue, for one command at most if it reports a press.
LEMMA PnTails ==
  ASSUME NEW q \in Seq(PnEvents), q # <<>>, NEW c \in Nat, NEW d \in Nat, NEW u \in 0 .. 1, NEW p \in Nat,
         PnCounted(q, c, u, p), d <= c + PnNews(Head(q))
  PROVE  PnCounted(Tail(q), d, u, p)
<1> DEFINE n == Len(q)
           q2 == Tail(q)
           r2(r) == [i \in 0 .. n - 1 |-> r[i + 1]]
<1>1. PICK r : PnRanks(r, q, c, u, p)
  BY DEF PnCounted
<1>2. n \in Nat \ {0} /\ Len(q2) = n - 1 /\ \A j \in 1 .. n - 1 : q2[j] = q[j + 1]
  BY HeadTailProperties
<1>3. /\ r \in [0 .. n -> Nat] /\ c <= r[0] /\ r[n] + u <= p
      /\ \A i \in 0 .. n, j \in 1 .. n : i < j => r[i] + PnNews(q[j]) <= r[j]
  BY <1>1 DEF PnRanks
<1>4. Head(q) = q[1] /\ PnNews(q[1]) \in 0 .. 1
  BY PnSmall
<1> HIDE DEF n, q2
<1>5. d <= r[1] /\ 1 \in 0 .. n
  <2>1. r[0] + PnNews(q[1]) <= r[1] /\ 1 \in 0 .. n /\ 0 \in 0 .. n
    BY <1>2, <1>3
  <2>2. r[0] \in Nat /\ r[1] \in Nat
    BY <1>3, <2>1
  <2> QED
    BY <1>3, <1>4, <2>1, <2>2
<1>6. r2(r) \in [0 .. n - 1 -> Nat] /\ d <= r2(r)[0] /\ r2(r)[n - 1] + u <= p
  BY <1>2, <1>3, <1>5
<1>7. ASSUME NEW i \in 0 .. n - 1, NEW j \in 1 .. n - 1, i < j PROVE r2(r)[i] + PnNews(q2[j]) <= r2(r)[j]
  <2>1. r2(r)[i] = r[i + 1] /\ r2(r)[j] = r[j + 1] /\ q2[j] = q[j + 1] /\ i + 1 \in 0 .. n /\ j + 1 \in 1 .. n /\ i + 1 < j + 1
    BY <1>2, <1>7
  <2> QED
    BY <1>3, <2>1
<1> DEFINE s == r2(r)
<1> HIDE DEF s
<1>8. PnRanks(s, q2, d, u, p)
  BY <1>2, <1>6, <1>7 DEF PnRanks, s
<1> QED
  BY <1>8 DEF PnCounted, q2

\* More presses, or less that is unseen.
LEMMA PnLess ==
  ASSUME NEW q \in Seq(PnEvents), NEW c \in Nat, NEW u \in 0 .. 1, NEW p \in Nat, NEW v \in 0 .. 1, NEW o \in Nat,
         PnCounted(q, c, u, p), p + v <= o + u
  PROVE  PnCounted(q, c, v, o)
<1>1. PICK r : PnRanks(r, q, c, u, p)
  BY DEF PnCounted
<1>2. r[Len(q)] \in Nat /\ r[Len(q)] + u <= p
  BY <1>1 DEF PnRanks
<1>3. r[Len(q)] + v <= o
  BY <1>2
<1>4. PnRanks(r, q, c, v, o)
  BY <1>1, <1>3 DEF PnRanks
<1> QED
  BY <1>4 DEF PnCounted

\* No more commands than presses.
LEMMA PnBound ==
  ASSUME NEW q \in Seq(PnEvents), NEW c \in Nat, NEW u \in 0 .. 1, NEW p \in Nat, PnCounted(q, c, u, p)
  PROVE  c + u <= p
<1> DEFINE n == Len(q)
<1>1. PICK r : PnRanks(r, q, c, u, p)
  BY DEF PnCounted
<1>2. /\ r \in [0 .. n -> Nat] /\ c <= r[0] /\ r[n] + u <= p /\ n \in Nat
      /\ \A i \in 0 .. n, j \in 1 .. n : i < j => r[i] + PnNews(q[j]) <= r[j]
  BY <1>1 DEF PnRanks
<1>3. PnNews(q[n]) \in 0 .. 1
  BY PnSmall
<1> HIDE DEF n
<1>4. r[0] \in Nat /\ r[n] \in Nat /\ r[0] <= r[n]
  <2>1. r[0] \in Nat /\ r[n] \in Nat
    BY <1>2
  <2>2. CASE n = 0
    BY <2>1, <2>2
  <2>3. CASE n # 0
    <3>1. r[0] + PnNews(q[n]) <= r[n]
      BY <1>2, <2>3
    <3> QED
      BY <1>3, <2>1, <3>1
  <2> QED
    BY <2>1, <2>2, <2>3
<1> QED
  BY <1>2, <1>4

LEMMA PanelStarts == PanelInit => PanelIInv
<1> SUFFICES ASSUME PanelInit PROVE PanelIInv
  OBVIOUS
<1>1. PnTyped
  <2>1. /\ 0 \in 0 .. MaxTouches /\ 0 \in 0 .. MaxPanelErrors /\ <<>> \in Seq(PnEvents)
        /\ Len(<<>>) <= PanelQueueMax /\ \A i \in DOMAIN <<>> : FALSE
    BY PanelAssumption
  <2> QED
    BY <2>1 DEF PanelInit, PnTyped, PanelTypeOK
<1>2. PnUnseen = 0
  BY DEF PanelInit, PnUnseen
<1>3. PnRanks([i \in 0 .. 0 |-> 0], <<>>, 0, 0, 0)
  BY DEF PnRanks
<1>4. PnCounted(pnQueue, pnCommands, PnUnseen, pnPressed)
  BY <1>2, <1>3 DEF PanelInit, PnCounted
<1> QED
  BY <1>1, <1>4 DEF PanelIInv

LEMMA PnTypes ==
  ASSUME PanelIInv
  PROVE  /\ PnTyped /\ pnQueue \in Seq(PnEvents) /\ pnCommands \in Nat /\ pnPressed \in Nat /\ pnPressed <= MaxTouches
         /\ PnUnseen \in 0 .. 1 /\ Len(pnQueue) <= PanelQueueMax /\ PanelQueueMax \in Nat \ {0}
         /\ pnDown \subseteq PanelButtons /\ pnSeen \subseteq PanelButtons /\ MaxTouches \in Nat
         /\ PnCounted(pnQueue, pnCommands, PnUnseen, pnPressed)
BY PnSmall, PanelAssumption DEF PanelIInv, PnTyped, PanelTypeOK

\* What a step must show; the bound on the commands follows.
LEMMA PnSteps ==
  ASSUME PanelIInv, pnDown' \subseteq PanelButtons, pnKnown' = {"none"} \/ pnKnown' \subseteq PanelButtons,
         pnQueue' \in Seq(PnEvents), Len(pnQueue') <= PanelQueueMax, pnState' \in {"free", "safety"},
         pnPressed' \in 0 .. MaxTouches, pnCommands' \in Nat, pnSeen' \subseteq PanelButtons,
         pnDone' \in PanelButtons \cup {"none"}, pnBroke' \in BOOLEAN, pnErrors' \in 0 .. MaxPanelErrors,
         NEW u \in 0 .. 1, u = PnUnseen', PnCounted(pnQueue', pnCommands', u, pnPressed')
  PROVE  PanelIInv'
<1>1. pnPressed' \in Nat /\ pnPressed' <= MaxTouches /\ MaxTouches \in Nat
  BY PanelAssumption
<1>2. pnCommands' + u <= pnPressed'
  BY <1>1, PnBound
<1>a. pnCommands' <= pnPressed'
  BY <1>1, <1>2, PnSums
<1>3. pnCommands' \in 0 .. MaxTouches
  BY <1>1, <1>a
<1>4. \A i \in DOMAIN pnQueue' : pnQueue'[i].now \subseteq PanelButtons /\ pnQueue'[i].was \subseteq PanelButtons
  <2>1. \A i \in DOMAIN pnQueue' : pnQueue'[i] \in PnEvents
    OBVIOUS
  <2> QED
    BY <2>1 DEF PnEvents
<1>5. PnTyped'
  BY <1>3, <1>4 DEF PnTyped, PanelTypeOK
<1> QED
  BY <1>5 DEF PanelIInv

LEMMA PanelSteps == PanelIInv /\ [PanelNext]_pnVars => PanelIInv'
<1> SUFFICES ASSUME PanelIInv, [PanelNext]_pnVars PROVE PanelIInv'
  OBVIOUS
<1>0. /\ pnQueue \in Seq(PnEvents) /\ pnCommands \in Nat /\ pnPressed \in Nat /\ PnUnseen \in 0 .. 1
      /\ Len(pnQueue) <= PanelQueueMax /\ PanelQueueMax \in Nat \ {0} /\ pnDown \subseteq PanelButtons
      /\ pnPressed \in 0 .. MaxTouches /\ pnSeen \subseteq PanelButtons
      /\ PnCounted(pnQueue, pnCommands, PnUnseen, pnPressed)
      /\ pnState \in {"free", "safety"} /\ pnDone \in PanelButtons \cup {"none"} /\ pnBroke \in BOOLEAN
      /\ pnErrors \in 0 .. MaxPanelErrors /\ (pnKnown = {"none"} \/ pnKnown \subseteq PanelButtons)
  BY PnTypes DEF PnTyped, PanelTypeOK
<1> DEFINE u == PnUnseen'
<1>u. u \in 0 .. 1
  BY DEF PnUnseen
<1> HIDE DEF u
<1>e. ASSUME PanelError PROVE pnErrors' \in 0 .. MaxPanelErrors
  BY <1>0, <1>e, PanelAssumption DEF PanelError
<1>1. CASE UNCHANGED pnVars
  <2>1. u = PnUnseen
    BY <1>1 DEF pnVars, PnUnseen, u
  <2> QED
    BY <1>0, <1>1, <1>u, <2>1, PnSteps DEF pnVars, u
<1>2. CASE \E b \in PanelButtons : Touch(b)
  <2>1. PICK b \in PanelButtons : Touch(b)
    BY <1>2
  <2>2. /\ pnDown' \subseteq PanelButtons /\ pnPressed' = pnPressed + 1 /\ pnPressed' \in 0 .. MaxTouches
        /\ UNCHANGED <<pnKnown, pnQueue, pnState, pnCommands, pnSeen, pnDone, pnBroke, pnErrors>>
    BY <1>0, <2>1, PanelAssumption DEF Touch
  <2>3. pnPressed + u <= pnPressed' + PnUnseen /\ pnPressed' \in Nat
    BY <1>0, <1>u, <2>2, PnSums
  <2>4. PnCounted(pnQueue, pnCommands, u, pnPressed')
    BY <1>0, <1>u, <2>3, PnLess
  <2> QED
    BY <1>0, <1>u, <2>2, <2>4, PnSteps DEF u
<1>3. CASE \E b \in PanelButtons : LetGo(b)
  <2>1. PICK b \in PanelButtons : LetGo(b)
    BY <1>3
  <2>2. /\ pnDown' \subseteq pnDown
        /\ UNCHANGED <<pnKnown, pnQueue, pnState, pnPressed, pnCommands, pnSeen, pnDone, pnBroke, pnErrors>>
    BY <2>1 DEF LetGo
  <2>3. u <= PnUnseen
    BY <2>2 DEF PnUnseen, u
  <2>5. pnPressed + u <= pnPressed + PnUnseen
    BY <1>0, <1>u, <2>3, PnSums
  <2>4. PnCounted(pnQueue, pnCommands, u, pnPressed)
    BY <1>0, <1>u, <2>5, PnLess
  <2>6. pnDown' \subseteq PanelButtons
    BY <1>0, <2>2
  <2> QED
    BY <1>0, <1>u, <2>2, <2>4, <2>6, PnSteps DEF u
<1>4. CASE SampleReads
  <2> DEFINE e == [now |-> pnDown, was |-> Before(pnKnown, pnDown)]
  <2>1. /\ pnKnown' = pnDown /\ pnQueue' = Queued(pnQueue, e) /\ (pnSeen' = pnSeen \/ pnSeen' = Fresh(e))
        /\ UNCHANGED <<pnDown, pnState, pnPressed, pnCommands, pnDone, pnBroke, pnErrors>>
    BY <1>4 DEF SampleReads
  <2>2. e \in PnEvents /\ Fresh(e) \subseteq PanelButtons
    BY <1>0 DEF PnEvents, Before, Fresh
  <2>3. PnNews(e) <= PnUnseen
    BY DEF PnNews, PnUnseen, Fresh, Before
  <2> HIDE DEF e
  <2>4. u = 0
    BY <2>1 DEF PnUnseen, u
  <2>5. CASE Len(pnQueue) < PanelQueueMax
    <3>1. pnQueue' = Append(pnQueue, e)
      BY <2>1, <2>5 DEF Queued
    <3>2. pnQueue' \in Seq(PnEvents) /\ Len(pnQueue') <= PanelQueueMax
      BY <1>0, <2>2, <2>5, <3>1
    <3>3. PnCounted(pnQueue', pnCommands, 0, pnPressed)
      BY <1>0, <2>2, <2>3, <3>1, PnAppends
    <3> QED
      BY <1>0, <2>1, <2>2, <2>4, <3>2, <3>3, PnSteps DEF u
  <2>6. CASE ~(Len(pnQueue) < PanelQueueMax)
    <3> DEFINE q == Tail(pnQueue)
    <3>1. pnQueue' = Append(q, e)
      BY <2>1, <2>6 DEF Queued
    <3>2. pnQueue # <<>>
      BY <1>0, <2>6
    <3>3. q \in Seq(PnEvents) /\ Len(q) = Len(pnQueue) - 1
      BY <1>0, <3>2, HeadTailProperties
    <3>4. pnCommands <= pnCommands + PnNews(Head(pnQueue))
      BY <1>0, PnSmall
    <3>5. PnCounted(q, pnCommands, PnUnseen, pnPressed)
      BY <1>0, <3>2, <3>4, PnTails
    <3> HIDE DEF q
    <3>6. pnQueue' \in Seq(PnEvents) /\ Len(pnQueue') <= PanelQueueMax
      BY <1>0, <2>2, <3>1, <3>3
    <3>7. PnCounted(pnQueue', pnCommands, 0, pnPressed)
      BY <1>0, <2>2, <2>3, <3>1, <3>3, <3>5, PnAppends
    <3> QED
      BY <1>0, <2>1, <2>2, <2>4, <3>6, <3>7, PnSteps DEF u
  <2> QED
    BY <2>5, <2>6
<1>5. CASE SampleFails
  <2>1. /\ PanelError /\ pnKnown' = {"none"}
        /\ UNCHANGED <<pnDown, pnQueue, pnState, pnPressed, pnCommands, pnSeen, pnDone, pnBroke>>
    BY <1>5 DEF SampleFails
  <2>2. u = 0
    BY <2>1 DEF PnUnseen, u
  <2>3. pnPressed + 0 <= pnPressed + PnUnseen
    BY <1>0
  <2>4. PnCounted(pnQueue, pnCommands, 0, pnPressed)
    BY <1>0, <2>3, PnLess
  <2> QED
    BY <1>0, <1>e, <2>1, <2>2, <2>4, PnSteps DEF u
<1>6. CASE HandleEvent \/ HandleFails
  <2> DEFINE q == Tail(pnQueue)
             head == Head(pnQueue)
  <2>1. /\ pnQueue # <<>> /\ pnQueue' = q /\ UNCHANGED <<pnDown, pnKnown, pnState, pnPressed, pnSeen>>
        /\ (pnErrors' = pnErrors \/ PanelError)
    BY <1>6 DEF HandleEvent, HandleFails
  <2>2. q \in Seq(PnEvents) /\ Len(q) <= PanelQueueMax /\ head \in PnEvents
    BY <1>0, <2>1, HeadTailProperties
  <2>3. Fresh(head) \subseteq PanelButtons
    BY <2>2 DEF PnEvents, Fresh
  <2>4. /\ pnCommands' \in {pnCommands, pnCommands + 1} /\ pnDone' \in PanelButtons \cup {"none"}
        /\ pnCommands' = pnCommands + 1 => Fresh(head) # {} \/ pnCommands' = pnCommands
    BY <1>0, <1>6, <2>3 DEF HandleEvent, HandleFails
  <2>5. pnBroke' \in BOOLEAN
    BY <1>0, <1>6 DEF HandleEvent, HandleFails
  <2>6. pnCommands' \in Nat /\ pnCommands' <= pnCommands + PnNews(head)
    BY <1>0, <2>4 DEF PnNews
  <2>7. PnCounted(q, pnCommands', PnUnseen, pnPressed)
    BY <1>0, <2>1, <2>6, PnTails
  <2>8. u = PnUnseen
    BY <2>1 DEF PnUnseen, u
  <2>9. pnErrors' \in 0 .. MaxPanelErrors
    BY <1>0, <1>e, <2>1
  <2> HIDE DEF q, head
  <2> QED
    BY <1>0, <2>1, <2>2, <2>4, <2>5, <2>6, <2>7, <2>8, <2>9, PnSteps DEF u
<1>7. CASE SafetyChanges
  <2>1. /\ pnState' \in {"free", "safety"}
        /\ UNCHANGED <<pnDown, pnKnown, pnQueue, pnPressed, pnCommands, pnSeen, pnDone, pnBroke, pnErrors>>
    BY <1>7 DEF SafetyChanges
  <2>2. u = PnUnseen
    BY <2>1 DEF PnUnseen, u
  <2> QED
    BY <1>0, <2>1, <2>2, PnSteps DEF u
<1> QED
  BY <1>1, <1>2, <1>3, <1>4, <1>5, <1>6, <1>7 DEF PanelNext

\* However many changes pile up or are dropped while the refresh lock is held, and when a
\* failed read makes the sampler start over (service.py:579), a press gives one command at
\* most (machine_runtime.py:2089).
THEOREM PanelCorrect == PanelSpec => []PanelInv
<1>1. PanelIInv => PanelInv
  <2> SUFFICES ASSUME PanelIInv PROVE PanelInv
    OBVIOUS
  <2>1. pnCommands + PnUnseen <= pnPressed
    BY PnTypes, PnBound
  <2>2. pnCommands <= pnPressed
    BY <2>1, PnTypes
  <2> QED
    BY <2>2 DEF PanelIInv, PnTyped, PanelInv, OneCommandPerPress
<1> QED
  BY PanelStarts, PanelSteps, <1>1, PTL DEF PanelSpec

-----------------------------------------------------------------------------
(* The button LEDs.                                                        *)

LdTicks == [busy : BOOLEAN, aim : Plans, off : SUBSET Colours, on : SUBSET Colours, all : BOOLEAN,
            bad : BOOLEAN, was : SUBSET Colours]

LdTyped == LedsTypeOK /\ ldTick \in LdTicks

\* What a tick has still to switch off was lit when it began, and nothing has come on.
LdOffFirst == ldTick.busy /\ ldTick.off # {} => ldReal \subseteq ldTick.was

\* What is lit is what the tick shows or has still to switch off: in a tick that writes every
\* colour and none in vain, and as long as the remembered plan is not an older one.
LdHeaded ==
  ldTick.busy /\ ((ldTick.all /\ ~ldTick.bad) \/ ~ldStuck) => ldReal \subseteq ldTick.aim \cup ldTick.off

\* A write that has failed without harm was the last one of its tick.
LdHarmless == ldTick.bad /\ ~ldStuck => ldTick.off = {} /\ ldTick.on = {} /\ ldTick.aim # Colours

\* Until a colour goes on, what is lit is what the remembered plan shows.
LdOpen == ~ldTick.busy \/ ldTick.bad \/ (ldTick.aim # Colours /\ ldTick.on # {})
LdKnown == ~ldStuck /\ ldPlan # {"none"} /\ LdOpen => ldReal \subseteq ldPlan

LdClean == LdOffFirst /\ LdHeaded /\ LdHarmless /\ LdKnown

LedsIInv == LdTyped /\ LdClean

\* Plans are sets of colours; one that is not both colours lights one at most.
LEMMA LdPlans ==
  /\ Plans \subseteq SUBSET Colours /\ {} \in Plans
  /\ \A p \in Plans : p # Colours => \A o \in SUBSET p : \A c \in o : o \ {c} = {}
BY DEF Plans, Colours

LEMMA LedsStarts == LedsInit => LedsIInv
<1> SUFFICES ASSUME LedsInit PROVE LdTyped /\ LdClean
  BY DEF LedsIInv
<1>1. 0 \in 0 .. MaxLedErrors
  BY LedsAssumption
<1>2. ldReal \subseteq Colours
  BY LdPlans DEF LedsInit
<1>3. TickIdle \in LdTicks
  BY LdPlans DEF TickIdle, LdTicks
<1>4. /\ TickIdle.aim = {} /\ TickIdle.on = {} /\ TickIdle.off = {} /\ TickIdle.was = {}
      /\ TickIdle.busy = FALSE /\ TickIdle.bad = FALSE
  BY DEF TickIdle
<1>5. LdTyped
  BY <1>1, <1>2, <1>3, <1>4, LdPlans DEF LedsInit, LdTyped, LedsTypeOK
<1> QED
  BY <1>2, <1>4, <1>5 DEF LedsInit, LdClean, LdOffFirst, LdHeaded, LdHarmless, LdKnown

\* A colour is written, well or not.
LEMMA LedWriteKeeps ==
  ASSUME LedsIInv, NEW c \in Colours, LedWrites(c) \/ LedFails(c)
  PROVE  LedsIInv'
<1>0. ldTick \in LdTicks /\ LedsTypeOK /\ LdClean /\ MaxLedErrors \in Nat
  BY LedsAssumption DEF LedsIInv, LdTyped
<1>1. /\ MayWrite(c) /\ UNCHANGED <<ldWant, ldPlan>>
      /\ ldTick'.busy = ldTick.busy /\ ldTick'.aim = ldTick.aim /\ ldTick'.was = ldTick.was
      /\ ldTick'.all = ldTick.all /\ ldTick'.off = ldTick.off \ {c} /\ ldTick'.on = ldTick.on \ {c}
      /\ ldTick' \in LdTicks
  BY <1>0 DEF LedWrites, LedFails, LdTicks
<1>2. ldTick.busy /\ ldTick.aim \in Plans /\ ldTick.on \subseteq ldTick.aim /\ ldTick.off \cap ldTick.aim = {}
  BY <1>0, <1>1 DEF MayWrite, LedsTypeOK, TickIdle
<1>3. /\ c \in ldTick.off => c \notin ldTick.on /\ ldTick'.on = ldTick.on
      /\ c \notin ldTick.off => c \in ldTick.on /\ ldTick.off = {} /\ ldTick'.off = {} /\ c \in ldTick.aim
  BY <1>1, <1>2 DEF MayWrite
<1>4. ldTick.aim # Colours /\ c \in ldTick.on => ldTick'.on = {}
  BY <1>1, <1>2, LdPlans
<1>5. LdTyped'
  <2>1. ldReal' \subseteq Colours
    BY <1>0 DEF LedWrites, LedFails, LedsTypeOK
  <2>2. ldStuck' \in BOOLEAN
    BY <1>0 DEF LedWrites, LedFails, LedsTypeOK
  <2>3. ldErrors' = ldErrors \/ (ldErrors < MaxLedErrors /\ ldErrors' = ldErrors + 1)
    BY DEF LedWrites, LedFails
  <2>4. ldErrors' \in 0 .. MaxLedErrors
    BY <1>0, <2>3 DEF LedsTypeOK
  <2> QED
    BY <1>0, <1>1, <1>2, <2>1, <2>2, <2>4 DEF LdTyped, LedsTypeOK
<1>6. CASE LedWrites(c)
  <2>1. /\ ldReal' = IF c \in ldTick.off THEN ldReal \ {c} ELSE ldReal \cup {c}
        /\ ldStuck' = ldStuck
    BY <1>6 DEF LedWrites
  <2>2. ldTick'.bad = ldTick.bad
    BY <1>0, <1>6 DEF LedWrites, LdTicks
  <2>3. LdOffFirst'
    BY <1>0, <1>1, <1>2, <1>3, <2>1 DEF LdClean, LdOffFirst
  <2>4. LdHeaded'
    <3>1. CASE c \in ldTick.off
      BY <1>0, <1>1, <2>1, <2>2, <3>1 DEF LdClean, LdHeaded
    <3>2. CASE c \notin ldTick.off
      BY <1>0, <1>1, <1>3, <2>1, <2>2, <3>2 DEF LdClean, LdHeaded
    <3> QED
      BY <3>1, <3>2
  <2>5. LdHarmless'
    BY <1>0, <1>1, <2>1, <2>2 DEF LdClean, LdHarmless
  <2>6. LdKnown'
    <3> SUFFICES ASSUME ~ldStuck, ldPlan # {"none"}, LdOpen' PROVE ldReal' \subseteq ldPlan
      BY <1>1, <2>1 DEF LdKnown
    <3>1. ~ldTick.bad
      BY <1>0, <1>1 DEF LdClean, LdHarmless, MayWrite
    <3>2. ldTick.aim # Colours /\ ldTick'.on # {}
      BY <1>1, <1>2, <2>2, <3>1 DEF LdOpen
    <3>3. c \in ldTick.off /\ ldTick.on # {}
      BY <1>3, <1>4, <3>2
    <3>4. ldReal \subseteq ldPlan
      BY <1>0, <3>2, <3>3 DEF LdClean, LdKnown, LdOpen
    <3> QED
      BY <2>1, <3>3, <3>4
  <2> QED
    BY <1>5, <2>3, <2>4, <2>5, <2>6 DEF LedsIInv, LdClean
<1>7. CASE LedFails(c)
  <2>1. /\ ldReal' = ldReal
        /\ ldStuck' = (ldStuck \/ c \in ldTick.off \/ ldTick.aim = Colours)
    BY <1>7 DEF LedFails
  <2>2. ldTick'.bad = TRUE
    BY <1>0, <1>7 DEF LedFails, LdTicks
  <2>3. LdOffFirst'
    BY <1>0, <1>1, <1>2, <1>3, <2>1 DEF LdClean, LdOffFirst
  <2>4. ASSUME ~ldStuck' PROVE ~ldStuck /\ c \in ldTick.on /\ ldTick.off = {} /\ ldTick.aim # Colours
    BY <1>3, <2>1, <2>4
  <2>5. LdHeaded'
    BY <1>0, <1>1, <1>2, <1>3, <2>1, <2>2, <2>4 DEF LdClean, LdHeaded
  <2>6. LdHarmless'
    BY <1>1, <1>3, <1>4, <2>4 DEF LdHarmless
  <2>7. LdKnown'
    BY <1>0, <1>1, <2>1, <2>4 DEF LdClean, LdKnown, LdOpen
  <2> QED
    BY <1>5, <2>3, <2>5, <2>6, <2>7 DEF LedsIInv, LdClean
<1> QED
  BY <1>6, <1>7

LEMMA LedsSteps == LedsIInv /\ [LedsNext]_ldVars => LedsIInv'
<1> SUFFICES ASSUME LedsIInv, [LedsNext]_ldVars PROVE LedsIInv'
  OBVIOUS
<1> USE DEF LedsIInv
<1>0. ldTick \in LdTicks /\ LedsTypeOK /\ LdClean /\ MaxLedErrors \in Nat
  BY LedsAssumption DEF LdTyped
<1>1. CASE UNCHANGED ldVars
  BY <1>1 DEF ldVars, LdTyped, LdClean, LdOffFirst, LdHeaded, LdHarmless, LdKnown, LdOpen, LedsTypeOK
<1>2. CASE WantOther
  <2>1. ldWant' \in Plans /\ UNCHANGED <<ldReal, ldPlan, ldTick, ldStuck, ldErrors>>
    BY <1>2 DEF WantOther
  <2> QED
    BY <2>1, <1>0 DEF LdTyped, LdClean, LdOffFirst, LdHeaded, LdHarmless, LdKnown, LdOpen, LedsTypeOK
<1>3. CASE NewRuntime
  <2>1. ldPlan' = {"none"} /\ UNCHANGED <<ldWant, ldReal, ldTick, ldStuck, ldErrors>>
    BY <1>3 DEF NewRuntime
  <2> QED
    BY <2>1, <1>0 DEF LdTyped, LdClean, LdOffFirst, LdHeaded, LdHarmless, LdKnown, LedsTypeOK
<1>4. CASE \E force \in BOOLEAN : LedTick(force)
  <2>1. PICK force \in BOOLEAN : LedTick(force)
    BY <1>4
  <2> DEFINE w == ToWrite(force, ldPlan)
             all == ToWrite(force, ldPlan) = Colours
  <2>2. w \subseteq Colours /\ ldWant \in Plans /\ ldWant \subseteq Colours /\ ldReal \subseteq Colours
    BY <1>0, LdPlans DEF ToWrite, LedsTypeOK
  <2>3. /\ ldTick' = [busy |-> TRUE, aim |-> ldWant, off |-> w \ ldWant, on |-> w \cap ldWant,
                      all |-> all, bad |-> FALSE, was |-> ldReal]
        /\ UNCHANGED <<ldWant, ldReal, ldPlan, ldStuck, ldErrors>> /\ ~ldTick.busy
    BY <2>1 DEF LedTick
  <2>4. ldPlan = {"none"} \/ ldPlan \subseteq Colours
    BY <1>0, LdPlans DEF LedsTypeOK
  <2>5. ~ldStuck => ldReal \subseteq ldWant \cup (w \ ldWant)
    <3>1. CASE ldPlan = {"none"}
      BY <2>2, <3>1 DEF ToWrite
    <3>2. CASE ldPlan # {"none"}
      BY <1>0, <2>2, <2>3, <2>4, <3>2 DEF ToWrite, LdClean, LdKnown, LdOpen
    <3> QED
      BY <3>1, <3>2
  <2>6. all => ldReal \subseteq ldWant \cup (w \ ldWant)
    BY <2>2
  <2>a. all \in BOOLEAN
    OBVIOUS
  <2> HIDE DEF w, all
  <2>7. /\ ldTick'.busy = TRUE /\ ldTick'.aim = ldWant /\ ldTick'.off = w \ ldWant
        /\ ldTick'.on = w \cap ldWant /\ ldTick'.bad = FALSE /\ ldTick'.was = ldReal
        /\ ldTick'.all = all
    BY <2>3
  <2>8. LdTyped'
    <3>1. ldTick' \in LdTicks
      BY <2>2, <2>3, <2>a DEF LdTicks
    <3> QED
      BY <1>0, <2>2, <2>3, <2>7, <3>1 DEF LdTyped, LedsTypeOK
  <2>9. LdHeaded'
    BY <2>3, <2>5, <2>6, <2>7 DEF LdHeaded
  <2>10. LdOffFirst' /\ LdHarmless'
    BY <2>3, <2>7 DEF LdOffFirst, LdHarmless
  <2>11. LdKnown'
    BY <1>0, <2>3 DEF LdClean, LdKnown, LdOpen
  <2> QED
    BY <2>8, <2>9, <2>10, <2>11 DEF LdClean
<1>5. CASE \E c \in Colours : LedWrites(c) \/ LedFails(c)
  BY <1>5, LedWriteKeeps
<1>6. CASE LedEnds
  <2>1. /\ ldTick' = TickIdle /\ ldTick.off = {} /\ ldTick.on = {} /\ ldTick.busy
        /\ ldPlan' = (IF ldTick.bad THEN ldPlan ELSE ldTick.aim)
        /\ ldStuck' = (ldStuck /\ (ldTick.bad \/ ~ldTick.all))
        /\ UNCHANGED <<ldWant, ldReal, ldErrors>>
    BY <1>6 DEF LedEnds
  <2>2. TickIdle \in LdTicks /\ ~TickIdle.busy /\ ~TickIdle.bad /\ TickIdle.aim = {} /\ TickIdle.was = {}
        /\ TickIdle.on = {} /\ TickIdle.off = {}
    BY LdPlans DEF TickIdle, LdTicks
  <2>3. LdTyped'
    <3>1. ldStuck' \in BOOLEAN
      BY <1>0, <2>1 DEF LedsTypeOK, LdTicks
    <3>2. ldPlan' \in Plans \cup {{"none"}}
      BY <1>0, <2>1 DEF LedsTypeOK
    <3>3. ldTick' \in LdTicks /\ ldTick'.aim \in Plans /\ ldTick'.on \subseteq ldTick'.aim
          /\ ldTick'.off \cap ldTick'.aim = {} /\ ldTick'.was \subseteq Colours
      BY <2>1, <2>2, LdPlans
    <3>4. ldWant' \in Plans /\ ldReal' \subseteq Colours /\ ldErrors' \in 0 .. MaxLedErrors
      BY <1>0, <2>1 DEF LedsTypeOK
    <3> QED
      BY <2>1, <3>1, <3>2, <3>3, <3>4 DEF LdTyped, LedsTypeOK
  <2>4. LdOffFirst' /\ LdHeaded' /\ LdHarmless'
    BY <2>1, <2>2 DEF LdOffFirst, LdHeaded, LdHarmless
  <2>5. LdKnown'
    <3> SUFFICES ASSUME ~ldStuck', ldPlan' # {"none"} PROVE ldReal \subseteq ldPlan'
      BY <2>1 DEF LdKnown
    <3>1. CASE ldTick.bad
      BY <1>0, <2>1, <3>1 DEF LdClean, LdKnown, LdOpen
    <3>2. CASE ~ldTick.bad
      BY <1>0, <2>1, <3>2 DEF LdClean, LdHeaded
    <3> QED
      BY <3>1, <3>2
  <2> QED
    BY <2>3, <2>4, <2>5 DEF LdClean
<1> QED
  BY <1>1, <1>2, <1>3, <1>4, <1>5, <1>6 DEF LedsNext, LedStep

\* A tick shows part of what was lit when it began or part of its own plan, never a mixture:
\* both colours of the button come on only where the plan asks for both, unless a colour
\* could not be switched off, or a plan of both was shown by half, since every colour was
\* written for the last time (machine_runtime.py:12638, _apply_button_led_plan).
THEOREM LedsCorrect == LedsSpec => []LedsInv
<1>1. LedsIInv => LedsInv
  <2> SUFFICES ASSUME LedsIInv, ldTick.busy, ~ldStuck, ldTick.off = {} PROVE ldReal \subseteq ldTick.aim
    BY DEF LedsIInv, LdTyped, LdClean, LdOffFirst, LedsInv, NeverMixed
  <2> QED
    BY DEF LedsIInv, LdClean, LdHeaded
<1> QED
  BY LedsStarts, LedsSteps, <1>1, PTL DEF LedsSpec

-----------------------------------------------------------------------------
(* A writable output and its row.                                          *)

\* What a row can say of its value.
Qualities == {"live", "offline", "override"}

\* A row that holds a forced level shows it.
Marked(row) == row.forced # "none" => row.val = row.forced /\ row.qual = "override"

LampCalls == [pc : {"idle", "write", "send", "store"}, aim : Levels, own : BOOLEAN, seen : Rows]
PageCalls == [pc : {"idle", "set", "send", "store", "verify", "undo"}, op : {"none", "force", "shot"},
              aim : Levels, was : Rows, tries : 0 .. VerifyTries - 1]
PollCalls == [pc : {"idle", "ask", "enforce", "store"}, seen : Rows, got : Levels]

\* A call that repeats somebody's forced level has seen one.
SeenForced ==
  /\ ~ioLamp.own => ioLamp.seen.forced # "none"
  /\ ioPoll.pc = "enforce" => ioPoll.seen.forced # "none"

OutputsIInv == OutputsTypeOK /\ Marked(ioRow) /\ SeenForced

\* What is stored in a row that somebody forces shows the forced level.
LEMMA RowsStay ==
  ASSUME NEW row \in Rows, NEW val \in Levels, NEW qual \in Qualities
  PROVE  /\ Stored(row, val, qual) \in Rows /\ Marked(Stored(row, val, qual))
         /\ Freed(row) \in Rows /\ Freed(row).forced = "none" /\ Marked(Freed(row))
         /\ Forced(row, val) \in Rows /\ Marked(Forced(row, val))
<1>1. row.forced = "none" \/ row.forced \in Levels
  BY DEF Rows
<1>2. CASE row.forced = "none"
  BY <1>2 DEF Rows, Stored, Freed, Forced, Marked, Qualities
<1>3. CASE row.forced \in Levels
  BY <1>3 DEF Rows, Stored, Freed, Forced, Marked, Qualities, Levels
<1> QED
  BY <1>1, <1>2, <1>3

LEMMA RowParts ==
  ASSUME NEW row \in Rows
  PROVE  row.val \in Levels /\ row.qual \in Qualities /\ (row.forced # "none" => row.forced \in Levels)
BY DEF Rows, Qualities

LEMMA LowRows == LowRow \in Rows /\ Marked(LowRow) /\ "low" \in Levels /\ "high" \in Levels /\ LowRow.forced = "none"
BY DEF LowRow, Rows, Marked, Levels

LEMMA IdleCalls ==
  /\ LampIdle \in LampCalls /\ LampIdle.own = TRUE
  /\ PageIdle \in PageCalls
  /\ PollIdle \in PollCalls /\ PollIdle.pc = "idle"
<1>1. 0 \in 0 .. VerifyTries - 1
  BY OutputsAssumption
<1> QED
  BY <1>1, LowRows DEF LampIdle, LampCalls, PageIdle, PageCalls, PollIdle, PollCalls

LEMMA OutputsStart == IoInit => OutputsIInv
<1> SUFFICES ASSUME IoInit PROVE OutputsIInv
  OBVIOUS
<1>1. 0 \in 0 .. MaxIoEvents /\ 0 \in 0 .. OfflineAfter
  BY OutputsAssumption
<1> QED
  BY <1>1, LowRows, IdleCalls
  DEF IoInit, OutputsIInv, OutputsTypeOK, SeenForced, LampCalls, PageCalls, PollCalls

\* What a step must show.
LEMMA OutputsFrame ==
  ASSUME OutputsIInv,
         ioReal' \in Levels, ioUp' \in BOOLEAN, ioCool' \in BOOLEAN,
         ioRow' \in Rows, Marked(ioRow'),
         ioFails' \in 0 .. OfflineAfter, ioWant' \in Levels, ioPlan' \in Levels \cup {"none"},
         ioLamp' \in LampCalls, ~ioLamp'.own => ioLamp'.seen.forced # "none",
         ioPage' \in PageCalls, ioPoll' \in PollCalls,
         ioPoll'.pc = "enforce" => ioPoll'.seen.forced # "none",
         ioEvents' \in 0 .. MaxIoEvents
  PROVE  OutputsIInv'
BY DEF OutputsIInv, OutputsTypeOK, SeenForced, LampCalls, PageCalls, PollCalls, Marked

LEMMA OutputsTypes ==
  ASSUME OutputsIInv
  PROVE  /\ ioReal \in Levels /\ ioUp \in BOOLEAN /\ ioCool \in BOOLEAN /\ ioRow \in Rows /\ Marked(ioRow)
         /\ ioFails \in 0 .. OfflineAfter /\ ioWant \in Levels /\ ioPlan \in Levels \cup {"none"}
         /\ ioLamp \in LampCalls /\ (~ioLamp.own => ioLamp.seen.forced # "none")
         /\ ioPage \in PageCalls /\ ioPoll \in PollCalls
         /\ (ioPoll.pc = "enforce" => ioPoll.seen.forced # "none")
         /\ ioEvents \in 0 .. MaxIoEvents
BY DEF OutputsIInv, OutputsTypeOK, SeenForced, LampCalls, PageCalls, PollCalls

LEMMA OutputsSteps == OutputsIInv /\ [IoNext]_ioVars => OutputsIInv'
<1> SUFFICES ASSUME OutputsIInv, [IoNext]_ioVars PROVE OutputsIInv'
  OBVIOUS
<1>0. /\ ioReal \in Levels /\ ioUp \in BOOLEAN /\ ioCool \in BOOLEAN /\ ioRow \in Rows /\ Marked(ioRow)
      /\ ioFails \in 0 .. OfflineAfter /\ ioWant \in Levels /\ ioPlan \in Levels \cup {"none"}
      /\ ioLamp \in LampCalls /\ (~ioLamp.own => ioLamp.seen.forced # "none")
      /\ ioPage \in PageCalls /\ ioPoll \in PollCalls
      /\ (ioPoll.pc = "enforce" => ioPoll.seen.forced # "none")
      /\ ioEvents \in 0 .. MaxIoEvents
  BY OutputsTypes
<1>s. ioLamp.aim \in Levels /\ ioLamp.seen \in Rows /\ ioPage.aim \in Levels /\ ioPage.was \in Rows
      /\ ioPoll.seen \in Rows /\ ioPoll.got \in Levels
  BY <1>0 DEF LampCalls, PageCalls, PollCalls
<1>p. /\ ioLamp.seen.forced # "none" => ioLamp.seen.forced \in Levels
      /\ ioLamp.seen.val \in Levels
      /\ ioPoll.seen.forced # "none" => ioPoll.seen.forced \in Levels
      /\ ioPoll.seen.val \in Levels
      /\ ioPage.was.forced # "none" => ioPage.was.forced \in Levels
      /\ ioPage.was.val \in Levels /\ ioPage.was.qual \in Qualities
  BY <1>s, RowParts
<1>l. LampLevel \in Levels
  BY <1>0, <1>s, <1>p DEF LampLevel
<1>r. \A val \in Levels, qual \in Qualities :
        /\ Stored(ioRow, val, qual) \in Rows /\ Marked(Stored(ioRow, val, qual))
        /\ Freed(ioRow) \in Rows /\ Marked(Freed(ioRow))
        /\ Forced(ioRow, val) \in Rows /\ Marked(Forced(ioRow, val))
  BY <1>0, RowsStay
<1>q. "live" \in Qualities /\ "offline" \in Qualities /\ "override" \in Qualities
  BY DEF Qualities
<1>c. /\ Reached => ioCool' \in BOOLEAN
      /\ \A level \in Levels : Failed(level) => ioCool' \in BOOLEAN /\ ioReal' \in Levels
  BY <1>0 DEF Reached, Failed
<1>e. IoEvent => ioEvents' \in 0 .. MaxIoEvents
  BY <1>0, OutputsAssumption DEF IoEvent
<1>1. CASE UNCHANGED ioVars
  BY <1>0, <1>1, OutputsFrame DEF ioVars
<1>2. CASE LampTick
  <2>1. ioLamp' \in LampCalls /\ ioLamp'.own = TRUE
    BY <1>0, <1>2 DEF LampTick, LampCalls
  <2> QED
    BY <1>0, <1>2, <2>1, OutputsFrame DEF LampTick
<1>3. CASE LampDecide
  <2>1. ioLamp' \in LampCalls /\ (~ioLamp'.own => ioLamp'.seen.forced # "none")
    <3>1. CASE ioLamp' = LampIdle
      BY <3>1, IdleCalls
    <3>2. CASE ioLamp' = [ioLamp EXCEPT !.pc = "send"]
      BY <1>0, <3>2 DEF LampCalls
    <3>3. CASE ioLamp.seen.forced # "none" /\ ioLamp' = [ioLamp EXCEPT !.own = FALSE, !.pc = "send"]
      BY <1>0, <3>3 DEF LampCalls
    <3> QED
      BY <1>3, <3>1, <3>2, <3>3 DEF LampDecide
  <2>2. ioRow' \in Rows /\ Marked(ioRow') /\ ioPlan' \in Levels \cup {"none"}
    BY <1>0, <1>3, <1>s, <1>p, <1>r, <1>q DEF LampDecide
  <2>3. UNCHANGED <<ioReal, ioUp, ioCool, ioFails, ioWant, ioPage, ioPoll, ioEvents>>
    BY <1>3 DEF LampDecide
  <2> QED
    BY <1>0, <2>1, <2>2, <2>3, OutputsFrame
<1>4. CASE LampSend \/ LampStore
  <2>1. ioLamp' = LampIdle \/ ioLamp' = [ioLamp EXCEPT !.pc = "store"]
    BY <1>4 DEF LampSend, LampStore
  <2>2. ioLamp' \in LampCalls /\ (~ioLamp'.own => ioLamp'.seen.forced # "none")
    BY <1>0, <2>1, IdleCalls DEF LampCalls
  <2>3. ioReal' \in Levels /\ ioCool' \in BOOLEAN
    BY <1>0, <1>4, <1>l, <1>c DEF LampSend, LampStore
  <2>4. ioRow' \in Rows /\ Marked(ioRow')
    BY <1>0, <1>4, <1>l, <1>p, <1>r, <1>q DEF LampSend, LampStore
  <2>5. ioPlan' \in Levels \cup {"none"}
    BY <1>0, <1>4, <1>s DEF LampSend, LampStore, LampPlan
  <2>6. UNCHANGED <<ioUp, ioFails, ioWant, ioPage, ioPoll, ioEvents>>
    BY <1>4 DEF LampSend, LampStore
  <2> QED
    BY <1>0, <2>2, <2>3, <2>4, <2>5, <2>6, OutputsFrame
<1>5. CASE LampRenew
  BY <1>0, <1>5, OutputsFrame DEF LampRenew, Renewed
<1>6. CASE \E op \in {"force", "shot", "release"} : PageCall(op)
  <2>1. PICK op \in {"force", "shot", "release"} : PageCall(op)
    BY <1>6
  <2>2. 0 \in 0 .. VerifyTries - 1
    BY OutputsAssumption
  <2>3. ioPage' \in PageCalls
    <3>1. CASE ioPage' = ioPage
      BY <1>0, <3>1
    <3>2. CASE op # "release" /\ \E level \in Levels :
               ioPage' = [pc |-> "set", op |-> op, aim |-> level, was |-> ioRow, tries |-> 0]
      BY <1>0, <2>2, <3>2 DEF PageCalls
    <3> QED
      BY <2>1, <3>1, <3>2, LowRows DEF PageCall
  <2>4. ioRow' \in Rows /\ Marked(ioRow')
    BY <1>0, <1>r, <1>q, <2>1, LowRows DEF PageCall
  <2>5. UNCHANGED <<ioReal, ioUp, ioCool, ioFails, ioWant, ioPlan, ioLamp, ioPoll>> /\ IoEvent
    BY <2>1 DEF PageCall
  <2> QED
    BY <1>0, <1>e, <2>3, <2>4, <2>5, OutputsFrame
<1>7. CASE PageStep
  <2>1. ioPage' \in PageCalls
    <3>1. CASE ioPage' = PageIdle
      BY <3>1, IdleCalls
    <3>2. CASE \E pc \in {"send", "store", "verify", "undo"} : ioPage' = [ioPage EXCEPT !.pc = pc]
      BY <1>0, <3>2 DEF PageCalls
    <3>3. CASE ioPage' = [ioPage EXCEPT !.pc = "set", !.aim = "low", !.tries = 0]
      <4>1. 0 \in 0 .. VerifyTries - 1
        BY OutputsAssumption
      <4> QED
        BY <1>0, <3>3, <4>1, LowRows DEF PageCalls
    <3>4. CASE TryAgain(ioPage.tries) /\ ioPage' = [ioPage EXCEPT !.pc = "send", !.tries = @ + 1]
      <4>1. ioPage.tries + 1 \in 0 .. VerifyTries - 1
        BY <1>0, <3>4, OutputsAssumption DEF PageCalls, TryAgain
      <4> QED
        BY <1>0, <3>4, <4>1 DEF PageCalls
    <3> QED
      BY <1>7, <3>1, <3>2, <3>3, <3>4 DEF PageStep, PageSet, PageSend, PageStore, PageVerify, PageVerified, PageUndo
  <2>2. ioRow' \in Rows /\ Marked(ioRow')
    <3>1. CASE PageSet \/ PageSend \/ PageStore
      BY <1>0, <1>s, <1>r, <1>q, <3>1 DEF PageSet, PageSend, PageStore
    <3>2. CASE PageVerify
      <4>1. Stored(Freed(ioRow), "low", "live") \in Rows /\ Marked(Stored(Freed(ioRow), "low", "live"))
        BY <1>0, <1>r, <1>q, LowRows, RowsStay
      <4> QED
        BY <1>0, <3>2, <4>1 DEF PageVerify, PageVerified
    <3>3. CASE PageUndo
      <4>1. /\ Stored(Freed(ioRow), ioPage.was.val, ioPage.was.qual) \in Rows
            /\ Marked(Stored(Freed(ioRow), ioPage.was.val, ioPage.was.qual))
        BY <1>0, <1>p, <1>r, <1>q, LowRows, RowsStay
      <4> QED
        BY <1>0, <1>p, <1>r, <1>q, <3>3, <4>1, LowRows DEF PageUndo, Restored
    <3> QED
      BY <1>7, <3>1, <3>2, <3>3 DEF PageStep
  <2>3. ioReal' \in Levels /\ ioCool' \in BOOLEAN
    <3>1. CASE PageSet \/ PageStore \/ PageUndo
      BY <1>0, <3>1 DEF PageSet, PageStore, PageUndo
    <3>2. CASE PageSend
      BY <1>0, <1>s, <1>c, <3>2 DEF PageSend
    <3>3. CASE PageVerify
      BY <1>0, <1>c, <3>3 DEF PageVerify
    <3> QED
      BY <1>7, <3>1, <3>2, <3>3 DEF PageStep
  <2>4. UNCHANGED <<ioUp, ioFails, ioWant, ioPlan, ioLamp, ioPoll, ioEvents>>
    BY <1>7 DEF PageStep, PageSet, PageSend, PageStore, PageVerify, PageUndo
  <2> QED
    BY <1>0, <2>1, <2>2, <2>3, <2>4, OutputsFrame
<1>8. CASE PollRead
  <2>1. ioPoll' \in PollCalls /\ ioPoll'.pc = "ask"
    BY <1>0, <1>8 DEF PollRead, PollCalls
  <2>2. UNCHANGED <<ioReal, ioUp, ioCool, ioRow, ioFails, ioWant, ioPlan, ioLamp, ioPage>> /\ IoEvent
    BY <1>8 DEF PollRead
  <2> QED
    BY <1>0, <1>e, <2>1, <2>2, OutputsFrame
<1>9. CASE PollAsk
  <2>1. ioPoll' \in PollCalls /\ (ioPoll'.pc = "enforce" => ioPoll'.seen.forced # "none")
    <3>1. CASE ioPoll' = PollIdle
      BY <3>1, IdleCalls
    <3>2. CASE ioPoll' = [ioPoll EXCEPT !.got = ioReal, !.pc = "store"]
      BY <1>0, <3>2 DEF PollCalls
    <3>3. CASE ioPoll.seen.forced # "none" /\ ioPoll' = [ioPoll EXCEPT !.got = ioReal, !.pc = "enforce"]
      BY <1>0, <3>3 DEF PollCalls
    <3> QED
      BY <1>9, <3>1, <3>2, <3>3 DEF PollAsk
  <2>2. ioRow' \in Rows /\ Marked(ioRow')
    BY <1>0, <1>p, <1>r, <1>q, <1>9 DEF PollAsk, Polled
  <2>3. ioCool' \in BOOLEAN
    BY <1>0, <1>c, <1>9 DEF PollAsk
  <2>4. ioFails' \in 0 .. OfflineAfter
    <3>1. ioFails' = ioFails \/ (ioFails < OfflineAfter /\ ioFails' = ioFails + 1)
      BY <1>9 DEF PollAsk
    <3> QED
      BY <1>0, <3>1, OutputsAssumption
  <2>5. UNCHANGED <<ioReal, ioUp, ioWant, ioPlan, ioLamp, ioPage, ioEvents>>
    BY <1>9 DEF PollAsk
  <2> QED
    BY <1>0, <2>1, <2>2, <2>3, <2>4, <2>5, OutputsFrame
<1>10. CASE PollEnforce
  <2>1. ioPoll' \in PollCalls /\ ioPoll'.pc = "store"
    BY <1>0, <1>10 DEF PollEnforce, PollCalls
  <2>2. ioPoll.seen.forced \in Levels
    BY <1>0, <1>p, <1>10 DEF PollEnforce
  <2>3. ioRow' \in Rows /\ Marked(ioRow')
    BY <1>p, <1>r, <1>q, <1>10, <2>2 DEF PollEnforce
  <2>4. ioReal' \in Levels /\ ioCool' \in BOOLEAN
    BY <1>c, <1>10, <2>2 DEF PollEnforce
  <2>5. UNCHANGED <<ioUp, ioFails, ioWant, ioPlan, ioLamp, ioPage, ioEvents>>
    BY <1>10 DEF PollEnforce
  <2> QED
    BY <1>0, <2>1, <2>3, <2>4, <2>5, OutputsFrame
<1>11. CASE PollStore
  <2>1. ioRow' \in Rows /\ Marked(ioRow')
    BY <1>s, <1>p, <1>r, <1>q, <1>11 DEF PollStore, Polled
  <2>2. ioFails' = 0 /\ 0 \in 0 .. OfflineAfter
    BY <1>11, OutputsAssumption DEF PollStore
  <2>3. ioPoll' = PollIdle /\ UNCHANGED <<ioReal, ioUp, ioCool, ioWant, ioPlan, ioLamp, ioPage, ioEvents>>
    BY <1>11 DEF PollStore
  <2> QED
    BY <1>0, <2>1, <2>2, <2>3, IdleCalls, OutputsFrame
<1>12. CASE WantChanges
  <2>1. ioWant' \in Levels
    BY <1>12 DEF WantChanges
  <2>2. IoEvent /\ UNCHANGED <<ioReal, ioUp, ioCool, ioRow, ioFails, ioPlan, ioLamp, ioPage, ioPoll>>
    BY <1>12 DEF WantChanges
  <2> QED
    BY <1>0, <1>e, <2>1, <2>2, OutputsFrame
<1>13. CASE Network
  <2>1. ioUp' \in BOOLEAN
    BY <1>0, <1>13 DEF Network
  <2>2. (IoEvent \/ UNCHANGED ioEvents) /\ UNCHANGED <<ioReal, ioCool, ioRow, ioFails, ioWant, ioPlan, ioLamp, ioPage, ioPoll>>
    BY <1>13 DEF Network
  <2> QED
    BY <1>0, <1>e, <2>1, <2>2, OutputsFrame
<1>14. CASE CoolEnds
  BY <1>0, <1>14, OutputsFrame DEF CoolEnds
<1> QED
  BY <1>1, <1>2, <1>3, <1>4, <1>5, <1>6, <1>7, <1>8, <1>9, <1>10, <1>11, <1>12, <1>13, <1>14
  DEF IoNext, LampStep, PollStep

\* The row of an output with a forced level shows that level and the quality "override",
\* whatever a poll, the machine loop or the page stores from a row they read before
\* (io_master.py:342, upsert_values).
THEOREM OutputsCorrect == OutputsSpec => []OutputsInv
<1>1. OutputsIInv => OutputsInv
  BY DEF OutputsIInv, Marked, OutputsInv, OverrideMarked
<1> QED
  BY OutputsStart, OutputsSteps, <1>1, PTL DEF OutputsSpec

-----------------------------------------------------------------------------
(* The ready line.                                                         *)

\* The shapes, apart by kind.
SeaFlags == srUp \in BOOLEAN /\ srError \in BOOLEAN /\ srRetry \in BOOLEAN /\ srForce \in BOOLEAN

SeaLevels ==
  /\ srState \in {"ready", "quiet", "stopped"} /\ srReal \in {"low", "high"}
  /\ srVal \in {"low", "high"} /\ srQual \in {"live", "offline", "override"}
  /\ srLast \in {"none", "low", "high"} /\ (srError => srLast # "none")
  /\ srCall \in {"none", "low", "high"} /\ srPoll \in {"none", "low", "high"}

SeaCounted == srEvents \in 0 .. MaxSeaEvents

LEMMA SeaStarts == SeaReadyInit => SeaReadyTypeOK
<1>1. 0 \in 0 .. MaxSeaEvents
  BY SeaReadyAssumption
<1> QED
  BY <1>1 DEF SeaReadyInit, SeaReadyTypeOK

LEMMA SeaSteps == SeaReadyTypeOK /\ [SeaReadyNext]_srVars => SeaReadyTypeOK'
<1> SUFFICES ASSUME SeaFlags, SeaLevels, SeaCounted, [SeaReadyNext]_srVars
             PROVE  SeaFlags' /\ SeaLevels' /\ SeaCounted'
  BY DEF SeaReadyTypeOK, SeaFlags, SeaLevels, SeaCounted
<1>1. CASE UNCHANGED srVars
  BY <1>1 DEF srVars, SeaFlags, SeaLevels, SeaCounted
<1>2. CASE RefreshLooks \/ WriteWorks \/ WriteFails \/ RenewedRuntime \/ TimesPass \/ PollStores
  <2>1. SeaFlags'
    <3>1. CASE RefreshLooks
      BY <3>1 DEF SeaFlags, RefreshLooks, srTries
    <3>2. CASE WriteWorks \/ WriteFails \/ PollStores
      BY <3>2 DEF SeaFlags, WriteWorks, WriteFails, PollStores, srTries
    <3>3. CASE RenewedRuntime
      BY <3>3 DEF SeaFlags, RenewedRuntime, Forgotten
    <3>4. CASE TimesPass
      BY <3>4 DEF SeaFlags, TimesPass
    <3> QED
      BY <1>2, <3>1, <3>2, <3>3, <3>4
  <2>2. SeaLevels'
    <3>1. CASE RefreshLooks
      BY <3>1 DEF RefreshLooks, Desired, srRow, srTries, SeaLevels
    <3>2. CASE WriteWorks
      BY <3>2 DEF WriteWorks, srRow, SeaLevels
    <3>3. CASE WriteFails
      BY <3>3 DEF WriteFails, srRow, SeaLevels
    <3>4. CASE RenewedRuntime
      BY <3>4 DEF RenewedRuntime, Forgotten, srRow, SeaLevels
    <3>5. CASE TimesPass
      BY <3>5 DEF TimesPass, srRow, SeaLevels
    <3>6. CASE PollStores
      BY <3>6 DEF PollStores, srRow, srTries, SeaLevels
    <3> QED
      BY <1>2, <3>1, <3>2, <3>3, <3>4, <3>5, <3>6
  <2>3. UNCHANGED srEvents
    BY <1>2 DEF RefreshLooks, WriteWorks, WriteFails, RenewedRuntime, TimesPass, PollStores
  <2> QED
    BY <2>1, <2>2, <2>3 DEF SeaCounted
<1>3. CASE \/ RewindForcesLow \/ SeaStateChanges \/ LinkChanges \/ EspRestarts
           \/ PollReads \/ PollFindsNone \/ PageForces
  <2>1. SeaFlags'
    <3>1. UNCHANGED <<srError, srRetry, srForce>> /\ (srUp' = srUp \/ srUp' = ~srUp)
      BY <1>3 DEF RewindForcesLow, SeaStateChanges, LinkChanges, EspRestarts, PollReads, PollFindsNone, PageForces, srTries
    <3> QED
      BY <3>1 DEF SeaFlags
  <2>2. SeaLevels'
    <3>1. CASE RewindForcesLow \/ SeaStateChanges
      BY <3>1 DEF RewindForcesLow, SeaStateChanges, srRow, srTries, SeaLevels
    <3>2. CASE EspRestarts \/ PollReads
      BY <3>2 DEF EspRestarts, PollReads, srRow, srTries, SeaLevels
    <3>3. CASE PollFindsNone \/ PageForces
      BY <3>3 DEF PollFindsNone, PageForces, srRow, srTries, SeaLevels
    <3>4. CASE LinkChanges
      BY <3>4 DEF LinkChanges, srRow, srTries, SeaLevels
    <3> QED
      BY <1>3, <3>1, <3>2, <3>3, <3>4
  <2>3. SeaEvent
    BY <1>3 DEF RewindForcesLow, SeaStateChanges, LinkChanges, EspRestarts, PollReads, PollFindsNone, PageForces
  <2>4. SeaCounted'
    BY <2>3, SeaReadyAssumption DEF SeaEvent, SeaCounted
  <2> QED
    BY <2>1, <2>2, <2>4
<1> QED
  BY <1>1, <1>2, <1>3 DEF SeaReadyNext, RefreshDrives

\* The ready line's row and what was tried keep their shapes; an error belongs to a level
\* that was tried (machine_runtime.py:12791, _apply_sea_vision_ready_output).
THEOREM ReadyLineTypeCorrect == SeaReadySpec => []SeaReadyTypeOK
BY SeaStarts, SeaSteps, PTL DEF SeaReadySpec

-----------------------------------------------------------------------------
(* The instance of TLC: each behaviour runs one of the parts (MCMachine).   *)

\* Each part behaves as its own specification says (the inbox without the fairness
\* of its own specification).
LEMMA PartsBehave ==
  PartsSpec =>
    /\ StartSpec /\ SetupSpec /\ RecoverySpec /\ CurtainSpec /\ PanelSpec /\ LedsSpec
    /\ OutputsSpec /\ SeaReadySpec /\ BrokerSpec /\ FaultsSpec /\ Init /\ [][Next]_vars /\ SettingsSpec
<1>1. PartsInit =>
        /\ StartInit /\ SetupInit /\ RecoveryInit /\ CurtainInit /\ PanelInit /\ LedsInit
        /\ IoInit /\ SeaReadyInit /\ BrokerInit /\ FaultsInit /\ Init /\ SettingsInit
  BY DEF PartsInit
<1>2. [PartsNext]_partsVars =>
        /\ [StartNext]_stVars /\ [SetupNext]_suVars /\ [RecoveryNext]_rcVars /\ [CurtainNext]_cuVars
        /\ [PanelNext]_pnVars /\ [LedsNext]_ldVars /\ [IoNext]_ioVars /\ [SeaReadyNext]_srVars
        /\ [BrokerNext]_brVars /\ [FaultsNext]_ftVars /\ [Next]_vars /\ [SettingsNext]_seVars
  <2>1. UNCHANGED partsVars =>
          UNCHANGED <<stVars, suVars, rcVars, cuVars, pnVars, ldVars, ioVars, srVars, brVars, ftVars, vars, seVars>>
    BY DEF partsVars
  <2>2. PartsNext =>
          /\ StartNext \/ UNCHANGED stVars
          /\ SetupNext \/ UNCHANGED suVars
          /\ RecoveryNext \/ UNCHANGED rcVars
          /\ CurtainNext \/ UNCHANGED cuVars
          /\ PanelNext \/ UNCHANGED pnVars
          /\ LedsNext \/ UNCHANGED ldVars
          /\ IoNext \/ UNCHANGED ioVars
          /\ SeaReadyNext \/ UNCHANGED srVars
          /\ BrokerNext \/ UNCHANGED brVars
          /\ FaultsNext \/ UNCHANGED ftVars
          /\ Next \/ UNCHANGED vars
          /\ SettingsNext \/ UNCHANGED seVars
    BY DEF PartsNext, Others
  <2> QED
    BY <2>1, <2>2
<1> QED
  BY <1>1, <1>2, PTL DEF PartsSpec, StartSpec, SetupSpec, RecoverySpec, CurtainSpec, PanelSpec, LedsSpec,
     OutputsSpec, SeaReadySpec, BrokerSpec, FaultsSpec, SettingsSpec

\* Buttons, button LEDs, outputs, ready line and fault reports: a press gives one command
\* at most, the two colours are never lit together after every switching off worked, a row
\* with a forced level shows it, and the row of a fault is what the device reported.
THEOREM MachineCorrect == PartsSpec => []MachineInv
<1>1. PanelInv /\ LedsInv /\ OutputsInv /\ SeaReadyTypeOK /\ FaultsInv => MachineInv
  BY DEF MachineInv
<1> QED
  BY <1>1, PartsBehave, PanelCorrect, LedsCorrect, OutputsCorrect, ReadyLineTypeCorrect, FaultsCorrect, PTL

\* Whichever part runs, the invariants of all of them hold, with no bound on its constants:
\* what the run of MCMachine checks. The parts share no variable; what they do to each
\* other is not in this statement.
THEOREM PartsCorrect ==
  PartsSpec => [](StartInv /\ SetupInv /\ RecoveryInv /\ CurtainInv /\ BrokerInv /\ InboxInv /\ SettingsInv /\ MachineInv)
<1>1. IInv => InboxInv
  BY DEF IInv, InboxInv
<1> QED
  BY <1>1, PartsBehave, StartCorrect, SetupCorrect, RecoveryCorrect, CurtainCorrect, BrokerCorrect, Inductive,
     SettingsCorrect, MachineCorrect, PTL
=============================================================================
