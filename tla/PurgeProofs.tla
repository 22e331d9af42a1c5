---------------------------- MODULE PurgeProofs -----------------------------
(***************************************************************************)
(* Proofs about module Purge, for every number of commands, inputs, stops, *)
(* LED ticks and restarts: the types, and what holds of MAS0028 whatever   *)
(* the order of the refresh, the router, the LED thread and the sender.    *)
(***************************************************************************)
EXTENDS Purge, TLAPS

-----------------------------------------------------------------------------
(* Types of the three threads, and of what they carry                      *)

\* The points of a refresh at which its snapshot is what it will write back.
SnapPcs == {"inputs", "release", "latch", "reset", "resetstore", "pulse", "marker",
            "clear", "finish", "report", "settle"}
OutPcs == {"resetstore", "merge", "store"}
AskPcs == {"ask", "enqueue"}
RefreshPcs == SnapPcs \cup OutPcs \cup AskPcs \cup {"idle"}

Refreshes ==
  [pc : RefreshPcs, snap : Rows, view : Views, forced : {"none", "purge", "stop"},
   ok : BOOLEAN, blocked : BOOLEAN, keep : BOOLEAN, out : Rows, then : {"settle", "merge"}]

RouterPcs == {"idle", "read", "param", "write", "delete", "exec", "ack"}
Commands == [pc : RouterPcs, val : BOOLEAN, copy : Rows]
Ticks == [pc : {"idle", "merge", "store"}, copy : Rows]
Histories ==
  [owed : BOOLEAN, external : BOOLEAN, overlap : BOOLEAN, raced : BOOLEAN, raised : BOOLEAN,
   mark : 0 .. MaxCommands]

Typed ==
  /\ TypeOK
  /\ ref \in Refreshes
  /\ rt \in Commands
  /\ led \in Ticks
  /\ hist \in Histories
  /\ used \in [inputs : Nat, leds : Nat, crashes : Nat]

\* The router's program as a table: what follows a step of a command.
Follows(v, pc) ==
  IF pc = "read" THEN "param"
  ELSE IF pc = "param" THEN "write"
  ELSE IF pc = "write" THEN "delete"
  ELSE IF pc = "delete" THEN IF v THEN "exec" ELSE "ack"
  ELSE IF v THEN "ack" ELSE "read"

\* RouterNext walks RouterOrder: each program counter stands in it once.
LEMMA RouterSteps ==
  ASSUME NEW r \in Commands, r.pc # "idle"
  PROVE  /\ r.pc = "ack" => RouterNext(r) = RouterIdle
         /\ r.pc # "ack" => RouterNext(r) = [r EXCEPT !.pc = Follows(r.val, r.pc)]
<1>1. CASE r.pc = "ack"
  BY <1>1 DEF RouterNext
<1>2. CASE r.pc # "ack" /\ r.val
  <2> DEFINE order == RouterOrder[r.val]
             c == CHOOSE i \in 1 .. 5 : order[i] = r.pc
  <2>1. order = <<"read", "param", "write", "delete", "exec", "ack">>
    BY <1>2 DEF RouterOrder
  <2>2. /\ order[1] = "read" /\ order[2] = "param" /\ order[3] = "write"
        /\ order[4] = "delete" /\ order[5] = "exec" /\ order[6] = "ack"
    BY <2>1
  <2>3. r.pc \in {"read", "param", "write", "delete", "exec"}
    BY <1>2 DEF Commands, RouterPcs
  <2> HIDE DEF order
  <2>4. \E i \in 1 .. 5 : order[i] = r.pc
    BY <2>2, <2>3
  <2>5. c \in 1 .. 5 /\ order[c] = r.pc
    BY <2>4
  <2> HIDE DEF c
  <2>6. c = 1 \/ c = 2 \/ c = 3 \/ c = 4 \/ c = 5
    BY <2>5
  <2>7. order[1 + c] = Follows(r.val, r.pc)
    BY <2>2, <2>5, <2>6, <1>2 DEF Follows
  <2>8. RouterNext(r) = [r EXCEPT !.pc = order[1 + c]]
    BY <1>2 DEF RouterNext, order, c
  <2> QED
    BY <2>7, <2>8, <1>2
<1>3. CASE r.pc # "ack" /\ ~r.val
  <2> DEFINE order == RouterOrder[r.val]
             c == CHOOSE i \in 1 .. 5 : order[i] = r.pc
  <2>1. order = <<"exec", "read", "param", "write", "delete", "ack">>
    BY <1>3 DEF RouterOrder, Commands
  <2>2. /\ order[1] = "exec" /\ order[2] = "read" /\ order[3] = "param"
        /\ order[4] = "write" /\ order[5] = "delete" /\ order[6] = "ack"
    BY <2>1
  <2>3. r.pc \in {"read", "param", "write", "delete", "exec"}
    BY <1>3 DEF Commands, RouterPcs
  <2> HIDE DEF order
  <2>4. \E i \in 1 .. 5 : order[i] = r.pc
    BY <2>2, <2>3
  <2>5. c \in 1 .. 5 /\ order[c] = r.pc
    BY <2>4
  <2> HIDE DEF c
  <2>6. c = 1 \/ c = 2 \/ c = 3 \/ c = 4 \/ c = 5
    BY <2>5
  <2>7. order[1 + c] = Follows(r.val, r.pc)
    BY <2>2, <2>5, <2>6, <1>3 DEF Follows
  <2>8. RouterNext(r) = [r EXCEPT !.pc = order[1 + c]]
    BY <1>3 DEF RouterNext, order, c
  <2> QED
    BY <2>7, <2>8, <1>3
<1> QED
  BY <1>1, <1>2, <1>3

\* MAS0028=1 is marked before it is executed, MAS0028=0 after.
LEMMA RouterStarts ==
  ASSUME NEW v \in BOOLEAN
  PROVE  RouterOrder[v][1] = IF v THEN "read" ELSE "exec"
<1>1. CASE v
  <2>1. RouterOrder[v] = <<"read", "param", "write", "delete", "exec", "ack">>
    BY <1>1 DEF RouterOrder
  <2> QED
    BY <1>1, <2>1
<1>2. CASE ~v
  <2>1. RouterOrder[v] = <<"exec", "read", "param", "write", "delete", "ack">>
    BY <1>2 DEF RouterOrder
  <2> QED
    BY <1>2, <2>1
<1> QED
  BY <1>1, <1>2

\* A step of the router leaves its value alone.
LEMMA RouterStays ==
  ASSUME NEW r \in Commands, r.pc # "idle"
  PROVE  /\ RouterNext(r) \in Commands
         /\ r.pc # "ack" => /\ RouterNext(r).pc = Follows(r.val, r.pc)
                            /\ RouterNext(r).val = r.val
                            /\ RouterNext(r).copy = r.copy
<1>1. Follows(r.val, r.pc) \in RouterPcs
  BY DEF Follows, RouterPcs
<1>2. RouterIdle \in Commands
  BY PurgeAssumption DEF RouterIdle, Commands, RouterPcs, QuietRow, QuietSafety, Rows, Safety, States, Phases, Markers
<1>3. CASE r.pc = "ack"
  BY <1>2, <1>3, RouterSteps
<1>4. CASE r.pc # "ack"
  BY <1>1, <1>4, RouterSteps DEF Commands
<1> QED
  BY <1>3, <1>4

-----------------------------------------------------------------------------
(* The typing invariant                                                    *)

LEMMA QuietTyped ==
  /\ QuietRow \in Rows
  /\ Idle \in Refreshes
  /\ RouterIdle \in Commands
  /\ LedIdle \in Ticks
<1>1. QuietRow \in Rows
  BY PurgeAssumption DEF QuietRow, QuietSafety, Rows, Safety, States, Phases, Markers
<1>2. QuietView \in Views
  BY PurgeAssumption DEF QuietView, Views
<1>3. Idle \in Refreshes
  BY <1>1, <1>2 DEF Idle, Refreshes, RefreshPcs
<1>4. RouterIdle \in Commands /\ LedIdle \in Ticks
  BY <1>1 DEF RouterIdle, LedIdle, Commands, Ticks, RouterPcs
<1> QED
  BY <1>1, <1>3, <1>4

LEMMA MergeTyped ==
  ASSUME NEW a \in Rows, NEW b \in Rows
  PROVE  MergeMarker(a, b) \in Rows
<1>1. b.mk \in Markers /\ b.mts \in 0 .. MaxCommands
  BY DEF Rows
<1>2. [a EXCEPT !.mk = b.mk, !.mts = b.mts] \in Rows
  BY <1>1 DEF Rows
<1> QED
  BY <1>2 DEF MergeMarker

LEMMA InitTyped == Init => Typed
<1> SUFFICES ASSUME Init PROVE Typed
  OBVIOUS
<1>1. row \in Rows
  <2>1. PICK s \in StartStates : row = [QuietRow EXCEPT !.st = s]
    BY DEF Init
  <2>2. s \in States
    BY PurgeAssumption DEF States
  <2> QED
    BY <2>1, <2>2, QuietTyped DEF Rows
<1>2. ref \in Refreshes /\ rt \in Commands /\ led \in Ticks
  BY QuietTyped DEF Init
<1>3. hist \in Histories /\ used \in [inputs : Nat, leds : Nat, crashes : Nat]
  BY PurgeAssumption DEF Init, Histories
<1>4. ref.snap \in Rows /\ ref.out \in Rows /\ ref.view \in Views /\ rt.copy \in Rows /\ led.copy \in Rows
  BY <1>2 DEF Refreshes, Commands, Ticks
<1>5. /\ purge28 \in BOOLEAN /\ mae \in BOOLEAN /\ estop \in BOOLEAN /\ light \in BOOLEAN
      /\ stopCmd \in BOOLEAN /\ remembered \in BOOLEAN
  BY DEF Init
<1>6. stopNo \in 0 .. MaxStops /\ clock \in 0 .. MaxCommands
  BY PurgeAssumption DEF Init
<1>7. pending \subseteq Messages /\ inflight \in Messages \cup {NoMessage}
  BY DEF Init
<1>8. heard \in [purge : BOOLEAN, ack : 0 .. MaxCommands]
  BY PurgeAssumption DEF Init
<1> QED
  BY <1>1, <1>2, <1>3, <1>4, <1>5, <1>6, <1>7, <1>8 DEF Typed, TypeOK

\* A step of the refresh keeps the types when the three variables it computes do.
LEMMA RefreshFrame ==
  ASSUME Typed, UNCHANGED <<estop, light, stopNo, clock, rt, led, used, inflight, heard>>,
         row' \in Rows, ref' \in Refreshes, hist' \in Histories, pending' \subseteq Messages,
         purge28' \in BOOLEAN, mae' \in BOOLEAN, stopCmd' \in BOOLEAN, remembered' \in BOOLEAN
  PROVE  Typed'
<1>1. ref'.snap \in Rows /\ ref'.out \in Rows /\ ref'.view \in Views
  BY DEF Refreshes
<1> QED
  BY <1>1 DEF Typed, TypeOK, Views, Rows, Safety

\* The latch decides the view, the latch, and whether a reset follows; a stale light
\* latch ends MAS0028.
LEMMA LatchResult ==
  ASSUME Typed, Latch
  PROVE  /\ ref' \in Refreshes /\ ref'.pc \in {"reset", "report"} /\ ref'.out = ref.out
         /\ ref'.snap.mk = ref.snap.mk /\ ref'.snap.mts = ref.snap.mts
         /\ purge28' = (purge28 /\ ~StaleLightLatch(ref.snap, ref.view))
         /\ stopCmd' \in BOOLEAN
<1>0. purge28 \in BOOLEAN /\ stopCmd \in BOOLEAN /\ stopNo \in 0 .. MaxStops /\ ref \in Refreshes
  BY DEF Typed, TypeOK
<1>f. ref.snap \in Rows /\ ref.view \in Views
  BY DEF Typed, TypeOK
<1> DEFINE
  snap == ref.snap
  staleLight == StaleLightLatch(snap, ref.view)
  stale == staleLight \/ StaleEstopLatch(snap, ref.view)
  view == [ref.view EXCEPT !.p28 = @ /\ ~staleLight]
  saf == IF stale
         THEN [snap.saf EXCEPT !.latched = FALSE, !.phase = "ready", !.last = {}]
         ELSE snap.saf
  latched == saf.latched \/ "notaus" \in view.reasons
  needed == latched \/ Critical(view) \/ view.p28 \/ snap.st = "purge"
  consumed == view.cmd /\ ~needed /\ snap.st = "stop"
  rising == view.cmd /\ view.no > snap.saf.seen
  seen == IF consumed \/ ~view.cmd THEN 0 ELSE IF latched THEN snap.saf.seen ELSE view.no
  kept == saf.phase = "ready" \/ (saf.phase = "failed" /\ snap.st = "purge")
  newView == [view EXCEPT !.cmd = @ /\ ~consumed]
  newPc == IF needed /\ rising THEN "reset" ELSE "report"
  newSaf == IF needed /\ rising THEN saf
            ELSE IF latched
                 THEN [saf EXCEPT !.latched = TRUE, !.phase = "latched", !.seen = seen,
                            !.last = IF view.reasons # {} THEN view.reasons ELSE saf.last]
                 ELSE [(IF kept THEN saf ELSE QuietSafety) EXCEPT !.seen = seen]
  newForced == IF latched THEN "purge" ELSE IF stale /\ snap.st = "purge" THEN "stop" ELSE "none"
<1>1. /\ purge28' = (purge28 /\ ~staleLight)
      /\ stopCmd' = (stopCmd /\ ~consumed)
      /\ ref' = [ref EXCEPT !.view = newView, !.pc = newPc, !.snap.saf = newSaf, !.forced = newForced]
  BY DEF Latch
<1>2. snap \in Rows /\ snap.saf \in Safety
  BY <1>f DEF Rows
<1>3. staleLight \in BOOLEAN
  BY DEF StaleLightLatch
<1>4. view \in Views
  BY <1>f, <1>3 DEF Views
<1>5. saf \in Safety
  BY <1>2 DEF Safety, Phases
<1>6. consumed \in BOOLEAN
  OBVIOUS
<1>7. seen \in 0 .. MaxStops
  <2>1. view.no \in 0 .. MaxStops /\ snap.saf.seen \in 0 .. MaxStops /\ 0 \in 0 .. MaxStops
    BY <1>2, <1>4, PurgeAssumption DEF Views, Safety
  <2> HIDE DEF view, snap, saf, consumed, latched
  <2> QED
    BY <2>1
<1>8. newForced \in {"none", "purge", "stop"} /\ newPc \in RefreshPcs
  BY DEF RefreshPcs, SnapPcs
<1>9. QuietSafety \in Safety
  BY PurgeAssumption DEF QuietSafety, Safety, Phases
<1>10. newView \in Views
  <2> HIDE DEF view, consumed
  <2> QED
    BY <1>4, <1>6 DEF Views
<1>11. newSaf \in Safety
  <2>1. view.reasons \in SUBSET Reasons /\ saf.last \in SUBSET Reasons
    BY <1>4, <1>5 DEF Views, Safety
  <2> DEFINE last == IF view.reasons # {} THEN view.reasons ELSE saf.last
             old == IF kept THEN saf ELSE QuietSafety
  <2>2. last \in SUBSET Reasons /\ old \in Safety
    BY <2>1, <1>5, <1>9
  <2> HIDE DEF last, old, saf, seen, latched, needed, rising, kept
  <2>3. /\ [saf EXCEPT !.latched = TRUE, !.phase = "latched", !.seen = seen, !.last = last] \in Safety
        /\ [old EXCEPT !.seen = seen] \in Safety
    BY <2>2, <1>5, <1>7 DEF Safety, Phases
  <2> QED
    BY <2>3, <1>5 DEF last, old
<1>12. stopCmd' \in BOOLEAN
  BY <1>0, <1>1
<1>13. newPc \in {"reset", "report"}
  OBVIOUS
<1> HIDE DEF newView, newPc, newSaf, newForced, staleLight, consumed
<1> DEFINE now == [ref.snap EXCEPT !.saf = newSaf]
<1>14. now \in Rows /\ now.mk = ref.snap.mk /\ now.mts = ref.snap.mts
  BY <1>f, <1>11 DEF Rows
<1>15. ref' = [ref EXCEPT !.view = newView, !.pc = newPc, !.snap = now, !.forced = newForced]
  BY <1>0, <1>1 DEF Refreshes
<1> HIDE DEF now
<1>16. /\ ref' \in Refreshes /\ ref'.pc \in {"reset", "report"} /\ ref'.out = ref.out
       /\ ref'.snap.mk = ref.snap.mk /\ ref'.snap.mts = ref.snap.mts
  BY <1>0, <1>8, <1>10, <1>13, <1>14, <1>15 DEF Refreshes
<1> QED
  BY <1>1, <1>12, <1>16 DEF staleLight

\* A reset ends with a new view and a new latch.
LEMMA FinishResult ==
  ASSUME Typed, FinishReset
  PROVE  /\ ref' \in Refreshes /\ ref'.pc = "report" /\ ref'.out = ref.out
         /\ ref'.snap.mk = ref.snap.mk /\ ref'.snap.mts = ref.snap.mts
<1>0. /\ purge28 \in BOOLEAN /\ mae \in BOOLEAN /\ stopNo \in 0 .. MaxStops
      /\ ref \in Refreshes
  BY DEF Typed, TypeOK
<1>f. ref.snap \in Rows /\ ref.view \in Views
  BY DEF Typed, TypeOK
<1> DEFINE
  view == [reasons |-> LiveReasons, p28 |-> purge28, mae |-> mae, cmd |-> FALSE, no |-> stopNo]
  held == Critical(view) \/ view.p28
  blocked == ref.blocked \/ "notaus" \in view.reasons
  ready == ref.ok /\ ~held
  forced == IF ready THEN "stop" ELSE "purge"
  saf == [latched |-> held \/ (~ref.ok /\ blocked),
          phase |-> IF ready THEN "ready"
                    ELSE IF ref.ok \/ blocked THEN "latched" ELSE "failed",
          last |-> view.reasons, rok |-> ref.ok, rinit |-> ref.view.reasons,
          seen |-> ref.view.no]
<1>1. ref' = [ref EXCEPT !.pc = "report", !.view = view, !.forced = forced, !.snap.saf = saf]
  BY DEF FinishReset
<1>2. LiveReasons \in SUBSET Reasons
  BY DEF LiveReasons, Reasons
<1>3. view \in Views
  BY <1>0, <1>2 DEF Views
<1>4. saf \in Safety
  <2>1. ref.ok \in BOOLEAN /\ ref.view.reasons \in SUBSET Reasons /\ ref.view.no \in 0 .. MaxStops
    BY <1>0, <1>f DEF Refreshes, Views
  <2>2. view.reasons \in SUBSET Reasons
    BY <1>2
  <2>3. (held \/ (~ref.ok /\ blocked)) \in BOOLEAN
    OBVIOUS
  <2> HIDE DEF view, held, blocked, ready
  <2> QED
    BY <2>1, <2>2, <2>3 DEF Safety, Phases
<1>5. forced \in {"none", "purge", "stop"}
  OBVIOUS
<1> HIDE DEF view, forced, saf
<1> HIDE DEF view, forced, saf
<1> DEFINE now == [ref.snap EXCEPT !.saf = saf]
<1>6. now \in Rows /\ now.mk = ref.snap.mk /\ now.mts = ref.snap.mts
  BY <1>f, <1>4 DEF Rows
<1>7. ref' = [ref EXCEPT !.pc = "report", !.view = view, !.forced = forced, !.snap = now]
  BY <1>0, <1>1 DEF Refreshes
<1> HIDE DEF now
<1> QED
  BY <1>0, <1>3, <1>5, <1>6, <1>7 DEF Refreshes, RefreshPcs, SnapPcs

LEMMA RefreshTyped == ASSUME Typed, RefreshStep PROVE Typed'
<1> USE DEF RefreshAt, Goto, shared, callbacks, others, plant
<1>0. /\ row \in Rows /\ ref \in Refreshes /\ hist \in Histories /\ pending \subseteq Messages
      /\ purge28 \in BOOLEAN /\ mae \in BOOLEAN /\ stopCmd \in BOOLEAN /\ remembered \in BOOLEAN
      /\ estop \in BOOLEAN /\ light \in BOOLEAN /\ stopNo \in 0 .. MaxStops
      /\ clock \in 0 .. MaxCommands
  BY DEF Typed, TypeOK
<1>f. ref.snap \in Rows /\ ref.out \in Rows /\ ref.view \in Views
  BY <1>0 DEF Refreshes
<1>1. CASE ReadRow
  <2>1. ref' \in Refreshes
    BY <1>0, <1>1, QuietTyped DEF ReadRow, Refreshes, RefreshPcs, SnapPcs
  <2> QED
    BY <1>0, <1>1, <2>1, RefreshFrame DEF ReadRow
<1>2. CASE ReadInputs
  <2>1. LiveReasons \in SUBSET Reasons /\ {"lichtgitter"} \in SUBSET Reasons
    BY DEF LiveReasons, Reasons
  <2> DEFINE reasons == IF MaskEstop(ref.snap) THEN {"lichtgitter"} ELSE LiveReasons
             view == [reasons |-> reasons, p28 |-> purge28, mae |-> mae, cmd |-> stopCmd, no |-> stopNo]
  <2>2. view \in Views
    BY <1>0, <2>1 DEF Views
  <2>3. ref' = [ref EXCEPT !.pc = "release", !.view = view]
    BY <1>2 DEF ReadInputs
  <2> HIDE DEF view, reasons
  <2>4. ref' \in Refreshes
    BY <1>0, <2>2, <2>3 DEF Refreshes, RefreshPcs, SnapPcs
  <2> QED
    BY <1>0, <1>2, <2>4, RefreshFrame DEF ReadInputs
<1>3. CASE ReleaseFaults
  <2>1. mae' \in BOOLEAN
    BY <1>0, <1>3 DEF ReleaseFaults
  <2>2. ref' \in Refreshes
    <3>1. CASE ref' = [ref EXCEPT !.pc = "latch", !.view.p28 = purge28, !.view.mae = FALSE,
                              !.view.cmd = stopCmd, !.view.no = stopNo]
      <4> DEFINE view == [ref.view EXCEPT !.p28 = purge28, !.mae = FALSE, !.cmd = stopCmd, !.no = stopNo]
      <4>1. view \in Views
        BY <1>0, <1>f DEF Views
      <4>2. ref' = [ref EXCEPT !.pc = "latch", !.view = view]
        BY <3>1, <1>0 DEF Refreshes
      <4> HIDE DEF view
      <4> QED
        BY <1>0, <4>1, <4>2 DEF Refreshes, RefreshPcs, SnapPcs
    <3>2. CASE ref' = [ref EXCEPT !.pc = "latch"]
      BY <1>0, <3>2 DEF Refreshes, RefreshPcs, SnapPcs
    <3> QED
      BY <1>3, <3>1, <3>2 DEF ReleaseFaults
  <2> QED
    BY <1>0, <1>3, <2>1, <2>2, RefreshFrame DEF ReleaseFaults
<1>4. CASE Latch
  <2>1. ref' \in Refreshes /\ purge28' \in BOOLEAN /\ stopCmd' \in BOOLEAN
    BY <1>0, <1>4, LatchResult
  <2> QED
    BY <1>0, <1>4, <2>1, RefreshFrame DEF Latch
<1>5. CASE BeginReset
  <2>1. ASSUME NEW b \in BOOLEAN, ResetFails(b) PROVE ref' \in Refreshes
    BY <1>0, <2>1 DEF ResetFails, Refreshes, RefreshPcs, SnapPcs
  <2> DEFINE saf == [row.saf EXCEPT !.latched = TRUE, !.phase = "resetting",
                        !.last = ref.view.reasons, !.rok = FALSE, !.rinit = {}]
             out == [row EXCEPT !.st = "resetting", !.purge = TRUE, !.saf = saf]
  <2>2. saf \in Safety
    <3>1. row.saf \in Safety /\ ref.view.reasons \in SUBSET Reasons
      BY <1>0, <1>f DEF Rows, Views
    <3> QED
      BY <3>1 DEF Safety, Phases
  <2> HIDE DEF saf
  <2>3. out \in Rows
    BY <1>0, <2>2 DEF Rows, States
  <2> HIDE DEF out
  <2>4. ASSUME ref' = [ref EXCEPT !.pc = "resetstore", !.out = out] PROVE ref' \in Refreshes
    BY <1>0, <2>3, <2>4 DEF Refreshes, RefreshPcs, SnapPcs
  <2>5. ref' \in Refreshes
    BY <1>5, <2>1, <2>4 DEF BeginReset, out, saf
  <2> QED
    BY <1>0, <1>5, <2>5, RefreshFrame DEF BeginReset
<1>6. CASE ResetStore
  <2>1. ref' \in Refreshes
    BY <1>0, <1>6 DEF ResetStore, Refreshes, RefreshPcs, SnapPcs
  <2> QED
    BY <1>0, <1>f, <1>6, <2>1, RefreshFrame DEF ResetStore
<1>7. CASE PulseReset
  <2>1. ref' \in Refreshes
    BY <1>0, <1>7 DEF PulseReset, ResetFails, Refreshes, RefreshPcs, SnapPcs
  <2> QED
    BY <1>0, <1>7, <2>1, RefreshFrame DEF PulseReset
<1>8. CASE ReadMarker
  <2>1. KeepPurge(row) \in BOOLEAN
    BY DEF KeepPurge, ExternalPurge
  <2>2. ref' \in Refreshes
    BY <1>0, <1>8, <2>1 DEF ReadMarker, Refreshes, RefreshPcs, SnapPcs
  <2> QED
    BY <1>0, <1>8, <2>2, RefreshFrame DEF ReadMarker
<1>9. CASE ResetClear
  <2>1. ref' \in Refreshes
    BY <1>0, <1>9 DEF ResetClear, Refreshes, RefreshPcs, SnapPcs
  <2>2. hist' \in Histories
    BY <1>0, <1>9 DEF ResetClear, Histories
  <2>3. ref.keep \in BOOLEAN
    BY <1>0 DEF Refreshes
  <2>4. purge28' \in BOOLEAN /\ mae' \in BOOLEAN
    BY <1>0, <1>9, <2>3 DEF ResetClear
  <2> QED
    BY <1>0, <1>9, <2>1, <2>2, <2>4, RefreshFrame DEF ResetClear
<1>10. CASE FinishReset
  <2>2. ref' \in Refreshes
    BY <1>10, FinishResult
  <2>3. stopCmd' \in BOOLEAN
    BY <1>10 DEF FinishReset
  <2> QED
    BY <1>0, <1>10, <2>2, <2>3, RefreshFrame DEF FinishReset
<1>11. CASE SetPurge
  <2>1. ref' \in Refreshes
    BY <1>0, <1>11 DEF SetPurge, Refreshes, RefreshPcs, SnapPcs, AskPcs
  <2>2. hist' \in Histories
    BY <1>0, <1>11 DEF SetPurge, Histories
  <2>3. purge28' \in BOOLEAN
    BY <1>0, <1>11 DEF SetPurge
  <2> QED
    BY <1>0, <1>11, <2>1, <2>2, <2>3, RefreshFrame DEF SetPurge
<1>12. CASE AskDedupe
  <2>1. ref.then \in {"settle", "merge"}
    BY <1>0 DEF Refreshes
  <2>2. ref' \in Refreshes
    BY <1>0, <1>12, <2>1 DEF AskDedupe, Refreshes, RefreshPcs, SnapPcs, AskPcs, OutPcs
  <2> QED
    BY <1>0, <1>12, <2>2, RefreshFrame DEF AskDedupe
<1>13. CASE EnqueuePurge
  <2>1. ref.then \in {"settle", "merge"}
    BY <1>0 DEF Refreshes
  <2>2. ref' \in Refreshes
    BY <1>0, <1>13, <2>1 DEF EnqueuePurge, Refreshes, RefreshPcs, SnapPcs, OutPcs
  <2>3. [kind |-> "purge", val |-> TRUE, gen |-> clock] \in Messages
    BY <1>0 DEF Messages
  <2>4. pending' \subseteq Messages
    BY <1>0, <1>13, <2>3 DEF EnqueuePurge
  <2> QED
    BY <1>0, <1>13, <2>2, <2>4, RefreshFrame DEF EnqueuePurge
<1>14. CASE Settle
  <2> DEFINE purge == Critical(ref.view) \/ ref.view.p28
             targets == IF ref.forced # "none" THEN {ref.forced} ELSE SettledStates(ref.snap.st, ref.view)
  <2>1. ref.forced \in {"none", "purge", "stop"} /\ ref.snap.st \in States
    BY <1>0, <1>f DEF Refreshes, Rows
  <2>2. targets \subseteq States
    BY <2>1 DEF SettledStates, OperatorMoves, States
  <2>3. purge \in BOOLEAN
    BY <1>f DEF Views, Critical
  <2> HIDE DEF purge, targets
  <2>4. ASSUME NEW s \in States, NEW p \in BOOLEAN
        PROVE  NewRow(s, p) \in Rows
    BY <1>f DEF NewRow, Rows
  <2>5. PICK s \in targets :
          \/ /\ ref' = [Idle EXCEPT !.pc = "merge", !.out = NewRow(s, purge)]
             /\ UNCHANGED purge28
          \/ /\ purge28' = TRUE
             /\ ref' = [Idle EXCEPT !.pc = "ask", !.then = "merge", !.out = NewRow("purge", TRUE)]
    BY <1>14 DEF Settle, purge, targets
  <2>6. NewRow(s, purge) \in Rows /\ NewRow("purge", TRUE) \in Rows
    BY <2>2, <2>3, <2>4 DEF States
  <2>7. ref' \in Refreshes /\ purge28' \in BOOLEAN
    BY <1>0, <2>5, <2>6, QuietTyped DEF Refreshes, RefreshPcs, OutPcs, AskPcs
  <2> QED
    BY <1>0, <1>14, <2>7, RefreshFrame DEF Settle
<1>15. CASE MergeRow
  <2>1. MergeMarker(ref.out, row) \in Rows
    BY <1>0, <1>f, MergeTyped
  <2>2. ref' \in Refreshes
    BY <1>0, <1>15, <2>1, QuietTyped DEF MergeRow, Refreshes, RefreshPcs, OutPcs
  <2> QED
    BY <1>0, <1>15, <2>2, RefreshFrame DEF MergeRow
<1>16. CASE StoreRow
  BY <1>0, <1>f, <1>16, QuietTyped, RefreshFrame DEF StoreRow
<1> QED
  BY <1>1, <1>2, <1>3, <1>4, <1>5, <1>6, <1>7, <1>8, <1>9, <1>10, <1>11, <1>12, <1>13,
     <1>14, <1>15, <1>16 DEF RefreshStep

LEMMA RouterTyped == ASSUME Typed, RouterStep PROVE Typed'
<1> USE DEF RouterAt, shared, callbacks, plant
<1>0. /\ row \in Rows /\ rt \in Commands /\ hist \in Histories /\ pending \subseteq Messages
      /\ purge28 \in BOOLEAN /\ clock \in 0 .. MaxCommands
  BY DEF Typed, TypeOK
<1>1. rt.pc # "idle" /\ rt.val \in BOOLEAN /\ rt.copy \in Rows
  BY <1>0 DEF RouterStep, RouterReadRow, RouterParam, RouterWriteRow, RouterDelete,
              RouterExecute, RouterAck, Commands
<1>2. RouterNext(rt) \in Commands
  BY <1>0, <1>1, RouterStays
<1>3. row' \in Rows
  <2>1. CASE RouterWriteRow
    <3> DEFINE released == ~rt.val /\ (rt.copy.saf.latched \/ rt.copy.saf.phase \in {"latched", "failed"})
               saf == IF released THEN [rt.copy.saf EXCEPT !.latched = FALSE, !.phase = "ready"]
                                  ELSE rt.copy.saf
               marker == IF rt.val THEN "active" ELSE "clear"
    <3>1. row' = [rt.copy EXCEPT !.purge = rt.val, !.mk = marker, !.mts = clock, !.saf = saf]
      BY <1>1, <2>1 DEF RouterWriteRow, Marked, Rows
    <3>2. rt.copy.saf \in Safety
      BY <1>1 DEF Rows
    <3>3. saf \in Safety /\ marker \in Markers
      BY <3>2 DEF Safety, Phases, Markers
    <3> HIDE DEF saf, marker
    <3> QED
      BY <1>0, <1>1, <3>1, <3>3 DEF Rows
  <2>2. CASE ~RouterWriteRow
    BY <1>0, <2>2 DEF RouterStep, RouterReadRow, RouterParam, RouterDelete, RouterExecute, RouterAck
  <2> QED
    BY <2>1, <2>2
<1>4. rt' \in Commands
  BY <1>0, <1>2, QuietTyped
     DEF RouterStep, RouterReadRow, RouterParam, RouterWriteRow, RouterDelete, RouterExecute, RouterAck, Commands
<1>5. hist' \in Histories
  <2>1. CASE RouterWriteRow
    <3> DEFINE gap == ref.pc \in {"store", "resetstore"} \/ led.pc = "store"
               raced == hist.raced \/ gap
               external == hist.external /\ ~hist.overlap
               overlap == gap \/ ref.pc # "idle"
    <3>1. hist' = [hist EXCEPT !.mark = clock, !.raced = raced, !.external = external, !.overlap = overlap]
      BY <2>1 DEF RouterWriteRow
    <3>2. raced \in BOOLEAN /\ external \in BOOLEAN /\ overlap \in BOOLEAN
      BY <1>0 DEF Histories
    <3> HIDE DEF raced, external, overlap
    <3> QED
      BY <1>0, <3>1, <3>2 DEF Histories
  <2>2. CASE RouterExecute
    <3>1. (hist.owed /\ rt.val) \in BOOLEAN
      OBVIOUS
    <3> QED
      BY <1>0, <1>1, <2>2, <3>1 DEF RouterExecute, Histories
  <2>3. CASE ~RouterWriteRow /\ ~RouterExecute
    BY <1>0, <2>3 DEF RouterStep, RouterReadRow, RouterParam, RouterDelete, RouterAck
  <2> QED
    BY <2>1, <2>2, <2>3
<1>6. purge28' \in BOOLEAN
  BY <1>0, <1>1
     DEF RouterStep, RouterReadRow, RouterParam, RouterWriteRow, RouterDelete, RouterExecute, RouterAck
<1>7. pending' \subseteq Messages
  <2>1. [kind |-> "ack", val |-> rt.val, gen |-> clock] \in Messages
    BY <1>0, <1>1 DEF Messages
  <2> QED
    BY <1>0, <2>1
       DEF RouterStep, RouterReadRow, RouterParam, RouterWriteRow, RouterDelete, RouterExecute, RouterAck
<1>8. UNCHANGED <<mae, estop, light, stopCmd, stopNo, remembered, inflight, heard, clock, ref, led, used>>
  BY DEF RouterStep, RouterReadRow, RouterParam, RouterWriteRow, RouterDelete, RouterExecute, RouterAck
<1>9. rt'.copy \in Rows
  BY <1>4 DEF Commands
<1> QED
  BY <1>3, <1>4, <1>5, <1>6, <1>7, <1>8, <1>9 DEF Typed, TypeOK, Rows, Safety, Messages

\* What InputChange, PurgeCommand, the LED thread, the sender and a restart leave alone.
LEMMA RestTyped ==
  ASSUME Typed,
         \/ InputChange \/ StopCommand \/ PurgeCommand \/ LedCopy \/ LedStep
         \/ SenderTake \/ SenderDeliver \/ SenderFail \/ Restart
  PROVE  Typed'
<1> USE DEF shared, callbacks, plant
<1>0. /\ row \in Rows /\ rt \in Commands /\ hist \in Histories /\ pending \subseteq Messages
      /\ clock \in 0 .. MaxCommands /\ led \in Ticks /\ ref \in Refreshes
      /\ estop \in BOOLEAN /\ light \in BOOLEAN /\ mae \in BOOLEAN /\ stopNo \in 0 .. MaxStops
      /\ used \in [inputs : Nat, leds : Nat, crashes : Nat]
      /\ heard \in [purge : BOOLEAN, ack : 0 .. MaxCommands]
      /\ inflight \in Messages \cup {NoMessage}
  BY DEF Typed, TypeOK
<1>1. CASE InputChange
  <2>1. used' \in [inputs : Nat, leds : Nat, crashes : Nat]
    BY <1>0, <1>1 DEF InputChange
  <2>2. estop' \in BOOLEAN /\ light' \in BOOLEAN /\ mae' \in BOOLEAN
    BY <1>0, <1>1 DEF InputChange
  <2> QED
    BY <1>1, <2>1, <2>2 DEF InputChange, Typed, TypeOK, Rows, Safety, Messages
<1>2. CASE StopCommand
  <2>1. stopNo' \in 0 .. MaxStops /\ stopCmd' \in BOOLEAN
    BY <1>0, <1>2, PurgeAssumption DEF StopCommand
  <2> QED
    BY <1>2, <2>1 DEF StopCommand, Typed, TypeOK, Rows, Safety, Messages
<1>3. CASE PurgeCommand
  <2>1. clock' \in 0 .. MaxCommands
    <3>1. clock < MaxCommands /\ clock' = clock + 1
      BY <1>3 DEF PurgeCommand
    <3> QED
      BY <1>0, <3>1, PurgeAssumption
  <2>2. PICK v \in BOOLEAN : rt' = [rt EXCEPT !.pc = RouterOrder[v][1], !.val = v]
    BY <1>3 DEF PurgeCommand
  <2>3. RouterOrder[v][1] \in RouterPcs
    BY <2>2, RouterStarts DEF RouterPcs
  <2>4. rt' \in Commands
    BY <1>0, <2>2, <2>3 DEF Commands
  <2>5. hist' \in Histories
    BY <1>0, <1>3 DEF PurgeCommand, Histories
  <2>6. rt'.copy \in Rows
    BY <2>4 DEF Commands
  <2>7. UNCHANGED <<shared, callbacks, ref, led, used>>
    BY <1>3 DEF PurgeCommand
  <2> QED
    BY <2>1, <2>4, <2>5, <2>6, <2>7 DEF Typed, TypeOK, Rows, Safety, Messages
<1>4. CASE LedCopy \/ LedStep
  <2>1. led.copy \in Rows
    BY <1>0 DEF Ticks
  <2>2. MergeMarker(led.copy, row) \in Rows
    BY <1>0, <2>1, MergeTyped
  <2>3. led' \in Ticks
    BY <1>0, <1>4, <2>2, QuietTyped DEF LedCopy, LedStep, LedMerge, LedStore, Ticks
  <2>4. led'.copy \in Rows
    BY <2>3 DEF Ticks
  <2>5. row' \in Rows
    BY <1>0, <1>4, <2>1 DEF LedCopy, LedStep, LedMerge, LedStore
  <2>6. used' \in [inputs : Nat, leds : Nat, crashes : Nat]
    BY <1>0, <1>4 DEF LedCopy, LedStep, LedMerge, LedStore
  <2>7. UNCHANGED <<purge28, mae, estop, light, stopCmd, stopNo, remembered, callbacks, clock, ref, rt, hist>>
    BY <1>4 DEF LedCopy, LedStep, LedMerge, LedStore
  <2> QED
    BY <2>3, <2>4, <2>5, <2>6, <2>7 DEF Typed, TypeOK, Rows, Safety, Messages
<1>5. CASE SenderTake \/ SenderDeliver \/ SenderFail
  <2>1. inflight' \in Messages \cup {NoMessage} /\ pending' \subseteq Messages
    BY <1>0, <1>5 DEF SenderTake, SenderDeliver, SenderFail
  <2>2. heard' \in [purge : BOOLEAN, ack : 0 .. MaxCommands]
    <3>1. CASE SenderDeliver
      <4>1. inflight.val \in BOOLEAN /\ inflight.gen \in 0 .. MaxCommands
        BY <1>0, <3>1 DEF SenderDeliver, Messages
      <4> QED
        BY <1>0, <3>1, <4>1 DEF SenderDeliver
    <3> QED
      BY <1>0, <1>5, <3>1 DEF SenderTake, SenderFail
  <2>3. UNCHANGED <<shared, clock, ref, rt, led, used, hist>>
    BY <1>5 DEF SenderTake, SenderDeliver, SenderFail
  <2> QED
    BY <2>1, <2>2, <2>3 DEF Typed, TypeOK, Rows, Safety, Messages
<1>6. CASE Restart
  <2>1. ref' \in Refreshes /\ rt' \in Commands /\ led' \in Ticks
    BY <1>6, QuietTyped DEF Restart
  <2>2. /\ ref'.snap \in Rows /\ ref'.out \in Rows /\ ref'.view \in Views
        /\ rt'.copy \in Rows /\ led'.copy \in Rows
    BY <2>1 DEF Refreshes, Commands, Ticks
  <2>3. used' \in [inputs : Nat, leds : Nat, crashes : Nat]
    BY <1>0, <1>6 DEF Restart
  <2> QED
    BY <1>6, <2>1, <2>2, <2>3 DEF Restart, Typed, TypeOK, Rows, Safety, Messages
<1> QED
  BY <1>1, <1>2, <1>3, <1>4, <1>5, <1>6

\* A step that changes nothing.
LEMMA StutterTyped == ASSUME Typed, UNCHANGED vars PROVE Typed'
  BY DEF Typed, TypeOK, vars, shared, callbacks, Rows, Safety, Messages

LEMMA TypedStep == ASSUME Typed, [Next]_vars PROVE Typed'
  BY RefreshTyped, RouterTyped, RestTyped, StutterTyped DEF Next

\* Type correctness of the purge life cycle: the row, every copy of it that a refresh,
\* a command or an LED tick carries, and every message (machine_runtime.py, router.py).
THEOREM TypesHold == Spec => []TypeOK
<1>1. Init => Typed
  BY InitTyped
<1>2. Typed /\ [Next]_vars => Typed'
  BY TypedStep
<1>3. Typed => TypeOK
  BY DEF Typed
<1> QED
  BY <1>1, <1>2, <1>3, PTL DEF Spec

-----------------------------------------------------------------------------
(* What the peer hears                                                     *)

\* A command has taken MAS0028's callbacks out of the outbox and has not yet queued
\* its ACK, or queues it next.
Cleaned == rt.pc = "ack" \/ (rt.pc = "exec" /\ rt.val)

\* The number a message carries is the clock it was queued at: none is ahead of it.
NumbersKnown ==
  /\ heard.ack <= clock
  /\ \A m \in pending : m.gen <= clock
  /\ inflight # NoMessage => inflight.gen <= clock

\* A callback that is still queued is as new as every ACK, queued, on its way or heard.
CallbacksFresh ==
  \A p \in pending : p.kind = "purge" =>
    /\ Cleaned => p.gen >= clock
    /\ \A a \in pending : a.kind = "ack" => p.gen >= a.gen
    /\ (inflight # NoMessage /\ inflight.kind = "ack") => p.gen >= inflight.gen
    /\ p.gen >= heard.ack

AckInv == NumbersKnown /\ CallbacksFresh /\ NoStaleAfterAck

LEMMA AckInit == ASSUME Init PROVE AckInv
  BY DEF Init, AckInv, NumbersKnown, CallbacksFresh, NoStaleAfterAck

\* The numbers that AckInv compares.
LEMMA Numbers ==
  ASSUME Typed
  PROVE  /\ clock \in Nat /\ heard.ack \in Nat
         /\ \A m \in pending : m.gen \in Nat
         /\ inflight # NoMessage => inflight.gen \in Nat
  BY PurgeAssumption DEF Typed, TypeOK, Messages

\* What a step of the refresh does to the outbox.
LEMMA RefreshQueues ==
  ASSUME RefreshStep
  PROVE  /\ UNCHANGED <<inflight, heard, clock, rt>>
         /\ \/ UNCHANGED pending
            \/ pending' = pending \cup {[kind |-> "purge", val |-> TRUE, gen |-> clock]}
<1> USE DEF shared, callbacks, others, plant
<1>1. UNCHANGED <<inflight, heard, clock, rt>>
  BY DEF RefreshStep, ReadRow, ReadInputs, ReleaseFaults, Latch, BeginReset, ResetStore, PulseReset,
         ReadMarker, ResetClear, FinishReset, SetPurge, AskDedupe, EnqueuePurge, Settle, MergeRow, StoreRow
<1>2. CASE EnqueuePurge
  BY <1>1, <1>2 DEF EnqueuePurge
<1>3. CASE ~EnqueuePurge
  BY <1>1, <1>3
     DEF RefreshStep, ReadRow, ReadInputs, ReleaseFaults, Latch, BeginReset, ResetStore, PulseReset,
         ReadMarker, ResetClear, FinishReset, SetPurge, AskDedupe, Settle, MergeRow, StoreRow
<1> QED
  BY <1>2, <1>3

LEMMA AckStep == ASSUME Typed, AckInv, [Next]_vars PROVE AckInv'
<1> USE DEF shared, callbacks
<1>0. /\ clock \in Nat /\ heard.ack \in Nat
      /\ \A m \in pending : m.gen \in Nat
      /\ inflight # NoMessage => inflight.gen \in Nat
  BY Numbers
<1>r. rt \in Commands
  BY DEF Typed
<1>1. CASE RefreshStep
  <2> DEFINE new == [kind |-> "purge", val |-> TRUE, gen |-> clock]
  <2>1. /\ UNCHANGED <<inflight, heard, clock, rt>>
        /\ \/ UNCHANGED pending
           \/ pending' = pending \cup {new}
    BY <1>1, RefreshQueues
  <2>2. new.kind = "purge" /\ new.gen = clock
    OBVIOUS
  <2> HIDE DEF new
  <2>3. NumbersKnown' /\ NoStaleAfterAck'
    BY <1>0, <2>1, <2>2 DEF AckInv, NumbersKnown, NoStaleAfterAck
  <2>4. CallbacksFresh'
    BY <1>0, <2>1, <2>2 DEF AckInv, NumbersKnown, CallbacksFresh, Cleaned
  <2> QED
    BY <2>3, <2>4 DEF AckInv
<1>2. CASE RouterStep
  <2>1. rt.pc # "idle" /\ UNCHANGED <<inflight, heard, clock>>
    BY <1>2 DEF RouterStep, RouterReadRow, RouterParam, RouterWriteRow, RouterDelete,
                RouterExecute, RouterAck, RouterAt
  <2>2. /\ RouterNext(rt) \in Commands
        /\ rt.pc # "ack" => /\ RouterNext(rt).pc = Follows(rt.val, rt.pc)
                            /\ RouterNext(rt).val = rt.val
        /\ rt.pc = "ack" => RouterNext(rt) = RouterIdle
    BY <1>r, <2>1, RouterStays, RouterSteps
  <2>3. CASE RouterDelete
    <3>1. pending' = {m \in pending : m.kind # "purge"}
      BY <2>3 DEF RouterDelete, DroppedByDelete
    <3> QED
      BY <2>1, <3>1 DEF AckInv, NumbersKnown, CallbacksFresh, NoStaleAfterAck
  <2>4. CASE RouterAck
    <3> DEFINE ack == [kind |-> "ack", val |-> rt.val, gen |-> clock]
    <3>1. pending' = pending \cup {ack} /\ rt.pc = "ack" /\ rt' = RouterIdle
      BY <2>2, <2>4 DEF RouterAck, RouterAt
    <3>2. ack.kind = "ack" /\ ack.gen = clock /\ rt'.pc = "idle"
      BY <3>1 DEF RouterIdle
    <3> HIDE DEF ack
    <3>3. NumbersKnown' /\ NoStaleAfterAck'
      BY <1>0, <2>1, <3>1, <3>2 DEF AckInv, NumbersKnown, NoStaleAfterAck
    <3>4. CallbacksFresh'
      BY <1>0, <2>1, <3>1, <3>2 DEF AckInv, NumbersKnown, CallbacksFresh, Cleaned
    <3> QED
      BY <3>3, <3>4 DEF AckInv
  <2>5. CASE ~RouterDelete /\ ~RouterAck
    <3>1. UNCHANGED pending /\ rt.pc \notin {"delete", "ack"}
      BY <1>2, <1>r, <2>1, <2>5 DEF RouterStep, RouterReadRow, RouterParam, RouterWriteRow, RouterExecute, RouterAt
    <3>2. rt'.pc = Follows(rt.val, rt.pc) /\ rt'.val = rt.val
      <4>1. \/ rt' = [RouterNext(rt) EXCEPT !.copy = row]
            \/ rt' = RouterNext(rt)
            \/ rt' = [RouterNext(rt) EXCEPT !.copy = QuietRow]
        BY <1>2, <2>5 DEF RouterStep, RouterReadRow, RouterParam, RouterWriteRow, RouterExecute
      <4> QED
        BY <2>2, <3>1, <4>1 DEF Commands
    <3>3. Cleaned' => Cleaned
      BY <2>1, <3>1, <3>2, <1>r DEF Cleaned, Follows, Commands, RouterPcs
    <3> QED
      BY <2>1, <3>1, <3>3 DEF AckInv, NumbersKnown, CallbacksFresh, NoStaleAfterAck
  <2> QED
    BY <2>3, <2>4, <2>5
<1>3. CASE PurgeCommand
  <2>1. clock' = clock + 1 /\ UNCHANGED callbacks
    BY <1>3 DEF PurgeCommand
  <2>2. PICK v \in BOOLEAN : rt' = [rt EXCEPT !.pc = RouterOrder[v][1], !.val = v]
    BY <1>3 DEF PurgeCommand
  <2>3. ~Cleaned'
    BY <1>r, <2>2, RouterStarts DEF Cleaned, Commands
  <2> QED
    BY <1>0, <2>1, <2>3 DEF AckInv, NumbersKnown, CallbacksFresh, NoStaleAfterAck
<1>4. CASE SenderTake
  BY <1>4 DEF SenderTake, AckInv, NumbersKnown, CallbacksFresh, NoStaleAfterAck, Cleaned
<1>5. CASE SenderDeliver
  <2>1. /\ pending' \subseteq pending /\ inflight' = NoMessage /\ inflight # NoMessage
        /\ heard'.ack = IF inflight.kind = "ack" /\ inflight.gen > heard.ack
                        THEN inflight.gen ELSE heard.ack
        /\ UNCHANGED <<clock, rt>>
    BY <1>5 DEF SenderDeliver
  <2> QED
    BY <1>0, <2>1 DEF AckInv, NumbersKnown, CallbacksFresh, NoStaleAfterAck, Cleaned
<1>6. CASE SenderFail
  BY <1>6 DEF SenderFail, AckInv, NumbersKnown, CallbacksFresh, NoStaleAfterAck, Cleaned
<1>7. CASE Restart
  BY <1>7 DEF Restart, RouterIdle, AckInv, NumbersKnown, CallbacksFresh, NoStaleAfterAck, Cleaned
<1>8. CASE InputChange \/ StopCommand \/ LedCopy \/ LedStep \/ UNCHANGED vars
  <2>1. UNCHANGED <<pending, inflight, heard, clock, rt>>
    BY <1>8 DEF InputChange, StopCommand, LedCopy, LedStep, LedMerge, LedStore, vars
  <2> QED
    BY <2>1 DEF AckInv, NumbersKnown, CallbacksFresh, NoStaleAfterAck, Cleaned
<1> QED
  BY <1>1, <1>2, <1>3, <1>4, <1>5, <1>6, <1>7, <1>8 DEF Next

\* Microtom never hears a MAS0028=1 that was queued before the command it last got an ACK
\* for, however often a send fails and is repeated and wherever the process restarts
\* (router.py:274-276, 283-291; outbox.py delete_status_updates).
THEOREM NoStaleCallbackHeard == Spec => []NoStaleAfterAck
<1>1. Init => Typed /\ AckInv
  BY InitTyped, AckInit
<1>2. Typed /\ AckInv /\ [Next]_vars => Typed' /\ AckInv'
  BY TypedStep, AckStep
<1>3. AckInv => NoStaleAfterAck
  BY DEF AckInv
<1> QED
  BY <1>1, <1>2, <1>3, PTL DEF Spec

-----------------------------------------------------------------------------
(* The marker of Microtom's last command                                   *)

\* A command in progress has not yet written its marker.
Unwritten == rt.pc \in {"read", "param", "write"} \/ (rt.pc = "exec" /\ ~rt.val)

\* No copy of the row carries a marker younger than the last one written.
MarkersKnown ==
  /\ hist.mark <= clock
  /\ Unwritten => hist.mark < clock
  /\ row.mts <= hist.mark /\ ref.snap.mts <= hist.mark /\ ref.out.mts <= hist.mark
  /\ rt.copy.mts <= hist.mark /\ led.copy.mts <= hist.mark

\* Unless a command landed between a merge and its write, what is about to be written
\* carries the last marker.
MarkersMerged ==
  ~hist.raced =>
    /\ ref.pc \in {"store", "resetstore"} => ref.out.mts = hist.mark
    /\ led.pc = "store" => led.copy.mts = hist.mark

MarkInv == MarkersKnown /\ MarkersMerged /\ MarkerKept

\* The numbers that MarkInv compares.
LEMMA Marks ==
  ASSUME Typed
  PROVE  /\ clock \in Nat /\ hist.mark \in Nat /\ row.mts \in Nat /\ ref.snap.mts \in Nat
         /\ ref.out.mts \in Nat /\ rt.copy.mts \in Nat /\ led.copy.mts \in Nat
<1>1. \A r \in Rows : r.mts \in Nat
  BY PurgeAssumption DEF Rows
<1>2. clock \in Nat /\ hist.mark \in Nat
  BY PurgeAssumption DEF Typed, TypeOK, Histories
<1> QED
  BY <1>1, <1>2 DEF Typed, TypeOK

\* What a merge leaves: the younger of the two markers.
LEMMA MergeTakes ==
  ASSUME NEW a \in Rows, NEW b \in Rows
  PROVE  /\ b.mts > a.mts => /\ MergeMarker(a, b).mts = b.mts
                             /\ MergeMarker(a, b).mk = b.mk
         /\ ~(b.mts > a.mts) => MergeMarker(a, b) = a
  BY DEF MergeMarker, Rows

\* What a step of the router does to the command, and to the markers.
LEMMA RouterMoves ==
  ASSUME Typed, RouterStep
  PROVE  /\ rt.pc # "idle" /\ UNCHANGED <<clock, ref, led>>
         /\ rt.pc = "ack" => rt' = RouterIdle
         /\ rt.pc # "ack" => rt'.pc = Follows(rt.val, rt.pc) /\ rt'.val = rt.val
         /\ rt'.copy.mts = 0 \/ rt'.copy = rt.copy \/ rt'.copy = row
         /\ rt.pc = "write" <=> RouterWriteRow
         /\ rt.pc = "exec" <=> RouterExecute
         /\ rt.pc = "param" <=> RouterParam
<1>r. rt \in Commands
  BY DEF Typed
<1>1. rt.pc # "idle" /\ UNCHANGED <<clock, ref, led>>
  BY DEF RouterStep, RouterReadRow, RouterParam, RouterWriteRow, RouterDelete, RouterExecute, RouterAck, RouterAt
<1>2. /\ RouterNext(rt) \in Commands
      /\ rt.pc # "ack" => /\ RouterNext(rt).pc = Follows(rt.val, rt.pc)
                          /\ RouterNext(rt).val = rt.val
                          /\ RouterNext(rt).copy = rt.copy
      /\ rt.pc = "ack" => RouterNext(rt) = RouterIdle
  BY <1>r, <1>1, RouterStays, RouterSteps
<1>3. /\ rt.pc = "write" <=> RouterWriteRow
      /\ rt.pc = "exec" <=> RouterExecute
      /\ rt.pc = "param" <=> RouterParam
      /\ rt.pc = "read" <=> RouterReadRow
  BY DEF RouterStep, RouterReadRow, RouterParam, RouterWriteRow, RouterDelete, RouterExecute, RouterAck, RouterAt
<1>4. \/ rt' = [RouterNext(rt) EXCEPT !.copy = row] /\ rt.pc = "read"
      \/ rt' = RouterNext(rt)
      \/ rt' = [RouterNext(rt) EXCEPT !.copy = QuietRow] /\ rt.pc = "write"
  BY <1>3 DEF RouterStep, RouterReadRow, RouterParam, RouterWriteRow, RouterDelete, RouterExecute, RouterAck
<1>5. rt.pc = "ack" => rt' = RouterIdle
  BY <1>2, <1>4
<1>6. rt.pc # "ack" => rt'.pc = Follows(rt.val, rt.pc) /\ rt'.val = rt.val
  BY <1>2, <1>4 DEF Commands
<1>7. rt'.copy.mts = 0 \/ rt'.copy = rt.copy \/ rt'.copy = row
  BY <1>2, <1>4, <1>5 DEF Commands, RouterIdle, QuietRow
<1> QED
  BY <1>1, <1>3, <1>5, <1>6, <1>7

\* Where a reset goes: it fails, or prepares to rewrite the row as it is now.
LEMMA BeginForm ==
  ASSUME Typed, BeginReset
  PROVE  /\ ref'.snap = ref.snap
         /\ \/ ref'.pc = "finish" /\ ref'.out = ref.out
            \/ /\ ref'.pc = "resetstore"
               /\ ref'.out.mk = row.mk /\ ref'.out.mts = row.mts
<1>1. ref \in Refreshes /\ row \in Rows
  BY DEF Typed, TypeOK
<1>2. CASE ResetFails(FALSE)
  BY <1>1, <1>2 DEF ResetFails, Refreshes
<1>3. CASE ~ResetFails(FALSE)
  <2> DEFINE saf == [row.saf EXCEPT !.latched = TRUE, !.phase = "resetting",
                        !.last = ref.view.reasons, !.rok = FALSE, !.rinit = {}]
             out == [row EXCEPT !.st = "resetting", !.purge = TRUE, !.saf = saf]
  <2>1. ref' = [ref EXCEPT !.pc = "resetstore", !.out = out]
    BY <1>3 DEF BeginReset
  <2> HIDE DEF saf
  <2>2. out.mk = row.mk /\ out.mts = row.mts
    BY <1>1 DEF Rows
  <2> HIDE DEF out
  <2> QED
    BY <1>1, <2>1, <2>2 DEF Refreshes
<1> QED
  BY <1>2, <1>3

LEMMA MarkInit == ASSUME Init PROVE MarkInv
<1>1. row.mts = 0
  <2>1. PICK s \in StartStates : row = [QuietRow EXCEPT !.st = s]
    BY DEF Init
  <2> QED
    BY <2>1 DEF QuietRow
<1> QED
  BY <1>1 DEF Init, Idle, RouterIdle, LedIdle, QuietRow, MarkInv, MarkersKnown, MarkersMerged, MarkerKept, Unwritten

\* What a step of the refresh does to the markers.
LEMMA RefreshMarks ==
  ASSUME Typed, MarkInv, RefreshStep
  PROVE  MarkInv'
<1> USE DEF RefreshAt, Goto, shared, callbacks, others, plant
<1>0. /\ clock \in Nat /\ hist.mark \in Nat /\ row.mts \in Nat /\ ref.snap.mts \in Nat
      /\ ref.out.mts \in Nat /\ rt.copy.mts \in Nat /\ led.copy.mts \in Nat
  BY Marks
<1>t. row \in Rows /\ ref \in Refreshes /\ ref.snap \in Rows /\ ref.out \in Rows /\ hist \in Histories
  BY DEF Typed, TypeOK
<1>q. QuietRow.mts = 0
  BY DEF QuietRow
<1>u. UNCHANGED <<clock, rt, led>>
  BY RefreshQueues
     DEF RefreshStep, ReadRow, ReadInputs, ReleaseFaults, Latch, BeginReset, ResetStore, PulseReset,
         ReadMarker, ResetClear, FinishReset, SetPurge, AskDedupe, EnqueuePurge, Settle, MergeRow, StoreRow
\* Steps that neither write the row nor prepare to.
<1>1. ASSUME UNCHANGED row, hist'.mark = hist.mark, hist'.raced = hist.raced,
             ref'.snap.mts \in {0, ref.snap.mts, row.mts},
             ref'.out.mts \in {0, ref.out.mts, ref.snap.mts},
             ref'.pc \notin {"store", "resetstore"}
      PROVE  MarkInv'
  BY <1>0, <1>u, <1>1 DEF MarkInv, MarkersKnown, MarkersMerged, MarkerKept, Unwritten
<1>2. CASE ReadRow
  BY <1>1, <1>2, <1>q, <1>t DEF ReadRow, Idle, Refreshes
<1>3. CASE ReadInputs \/ ReleaseFaults \/ PulseReset \/ ReadMarker
  <2>1. ref'.snap = ref.snap /\ ref'.out = ref.out /\ ref'.pc \notin {"store", "resetstore"}
    BY <1>3, <1>t DEF ReadInputs, ReleaseFaults, PulseReset, ReadMarker, ResetFails, Refreshes
  <2> QED
    BY <1>1, <1>3, <2>1 DEF ReadInputs, ReleaseFaults, PulseReset, ReadMarker
<1>4. CASE Latch \/ FinishReset
  <2>1. ref'.snap.mts = ref.snap.mts /\ ref'.out = ref.out /\ ref'.pc \in {"reset", "report"}
    BY <1>4, LatchResult, FinishResult
  <2> QED
    BY <1>1, <1>4, <2>1 DEF Latch, FinishReset
<1>5. CASE BeginReset
  <2>1. CASE ref'.pc = "finish"
    <3>1. ref'.snap = ref.snap /\ ref'.out = ref.out
      BY <1>5, <2>1, <1>t DEF BeginReset, ResetFails, Refreshes
    <3> QED
      BY <1>1, <1>5, <2>1, <3>1 DEF BeginReset
  <2>2. CASE ref'.pc # "finish"
    <3>1. ref'.snap = ref.snap /\ ref'.out.mts = row.mts
      BY <1>5, <2>2, BeginForm
    <3>2. UNCHANGED <<row, hist>>
      BY <1>5 DEF BeginReset
    <3> QED
      BY <1>0, <1>u, <3>1, <3>2 DEF MarkInv, MarkersKnown, MarkersMerged, MarkerKept, Unwritten
  <2> QED
    BY <2>1, <2>2
<1>6. CASE ResetStore \/ StoreRow
  <2>1. /\ ref.pc \in {"store", "resetstore"} /\ row' = ref.out /\ UNCHANGED hist
        /\ ref'.pc \notin {"store", "resetstore"}
        /\ ref'.snap.mts \in {0, ref.snap.mts} /\ ref'.out.mts \in {0, ref.out.mts}
    BY <1>6, <1>q, <1>t DEF ResetStore, StoreRow, Idle, Refreshes
  <2> QED
    BY <1>0, <1>u, <2>1 DEF MarkInv, MarkersKnown, MarkersMerged, MarkerKept, Unwritten
<1>7. CASE ResetClear \/ SetPurge
  <2>1. ref'.snap = ref.snap /\ ref'.out = ref.out /\ ref'.pc \notin {"store", "resetstore"}
    BY <1>7, <1>t DEF ResetClear, SetPurge, Refreshes
  <2>2. hist'.mark = hist.mark /\ hist'.raced = hist.raced
    BY <1>7, <1>t DEF ResetClear, SetPurge, Histories
  <2> QED
    BY <1>1, <1>7, <2>1, <2>2 DEF ResetClear, SetPurge
<1>8. CASE AskDedupe \/ EnqueuePurge
  <2>1. ref.then \in {"settle", "merge"}
    BY <1>t DEF Refreshes
  <2>2. ref'.snap = ref.snap /\ ref'.out = ref.out /\ ref'.pc \notin {"store", "resetstore"}
    BY <1>8, <1>t, <2>1 DEF AskDedupe, EnqueuePurge, Refreshes
  <2> QED
    BY <1>1, <1>8, <2>2 DEF AskDedupe, EnqueuePurge
<1>9. CASE Settle
  <2>1. ref'.snap = QuietRow /\ ref'.out.mts = ref.snap.mts /\ ref'.pc \in {"merge", "ask"}
    <3>1. \A s, p : NewRow(s, p).mts = ref.snap.mts
      BY <1>t DEF NewRow, Rows
    <3>2. PICK s, p : \/ ref' = [Idle EXCEPT !.pc = "merge", !.out = NewRow(s, p)]
                     \/ ref' = [Idle EXCEPT !.pc = "ask", !.then = "merge", !.out = NewRow(s, p)]
      BY <1>9 DEF Settle
    <3>3. ref'.snap = QuietRow /\ ref'.out = NewRow(s, p) /\ ref'.pc \in {"merge", "ask"}
      BY <3>2 DEF Idle
    <3> QED
      BY <3>1, <3>3
  <2> QED
    BY <1>1, <1>9, <1>q, <2>1 DEF Settle
<1>10. CASE MergeRow
  <2>1. CASE ref' = Idle
    BY <1>1, <1>10, <1>q, <2>1 DEF MergeRow, Idle
  <2>2. CASE ref' = [ref EXCEPT !.pc = "store", !.out = MergeMarker(ref.out, row)]
    <3>1. ref'.snap = ref.snap /\ ref'.out = MergeMarker(ref.out, row)
      BY <2>2, <1>t DEF Refreshes
    <3>2. ref'.out.mts = IF row.mts > ref.out.mts THEN row.mts ELSE ref.out.mts
      BY <3>1, <1>t, MergeTakes
    <3>3. UNCHANGED <<row, hist>>
      BY <1>10 DEF MergeRow
    <3> QED
      BY <1>0, <1>u, <3>1, <3>2, <3>3 DEF MarkInv, MarkersKnown, MarkersMerged, MarkerKept, Unwritten
  <2> QED
    BY <1>10, <2>1, <2>2 DEF MergeRow
<1> QED
  BY <1>2, <1>3, <1>4, <1>5, <1>6, <1>7, <1>8, <1>9, <1>10 DEF RefreshStep

LEMMA MarkStep == ASSUME Typed, MarkInv, [Next]_vars PROVE MarkInv'
<1> USE DEF shared, callbacks
<1>0. /\ clock \in Nat /\ hist.mark \in Nat /\ row.mts \in Nat /\ ref.snap.mts \in Nat
      /\ ref.out.mts \in Nat /\ rt.copy.mts \in Nat /\ led.copy.mts \in Nat
  BY Marks
<1>t. rt \in Commands /\ hist \in Histories /\ row \in Rows /\ led.copy \in Rows /\ rt.copy \in Rows
  BY DEF Typed, TypeOK
<1>q. QuietRow.mts = 0
  BY DEF QuietRow
<1>1. CASE RefreshStep
  BY <1>1, RefreshMarks
<1>2. CASE RouterStep
  <2>1. /\ rt.pc # "idle" /\ UNCHANGED <<clock, ref, led>>
        /\ rt.pc = "ack" => rt' = RouterIdle
        /\ rt.pc # "ack" => rt'.pc = Follows(rt.val, rt.pc) /\ rt'.val = rt.val
        /\ rt'.copy.mts = 0 \/ rt'.copy = rt.copy \/ rt'.copy = row
        /\ rt.pc = "write" <=> RouterWriteRow
    BY <1>2, RouterMoves
  <2>2. rt.pc # "write" => (Unwritten' => Unwritten)
    BY <1>t, <2>1 DEF Unwritten, Follows, RouterIdle, Commands, RouterPcs
  <2>3. rt.pc = "write" => Unwritten /\ ~Unwritten'
    BY <2>1 DEF Unwritten, Follows
  <2>4. CASE RouterWriteRow
    <3>1. row'.mts = clock
      BY <1>t, <2>4 DEF RouterWriteRow, Marked, Rows
    <3>2. hist'.mark = clock
      BY <1>t, <2>4 DEF RouterWriteRow, Histories
    <3>3. hist'.raced = (hist.raced \/ ref.pc \in {"store", "resetstore"} \/ led.pc = "store")
      BY <1>t, <2>4 DEF RouterWriteRow, Histories
    <3>4. rt'.copy.mts <= hist.mark
      BY <1>0, <2>1 DEF MarkInv, MarkersKnown
    <3>5. hist.mark < clock /\ ~Unwritten'
      BY <2>1, <2>3, <2>4 DEF MarkInv, MarkersKnown
    <3>6. MarkersKnown'
      BY <1>0, <2>1, <3>1, <3>2, <3>4, <3>5 DEF MarkInv, MarkersKnown
    <3>7. MarkersMerged' /\ MarkerKept'
      BY <2>1, <3>1, <3>2, <3>3 DEF MarkersMerged, MarkerKept
    <3> QED
      BY <3>6, <3>7 DEF MarkInv
  <2>5. CASE ~RouterWriteRow
    <3>1. UNCHANGED row
      BY <1>2, <2>5 DEF RouterStep, RouterReadRow, RouterParam, RouterDelete, RouterExecute, RouterAck
    <3>2. hist'.mark = hist.mark /\ hist'.raced = hist.raced
      BY <1>t, <1>2, <2>5 DEF RouterStep, RouterReadRow, RouterParam, RouterDelete, RouterExecute, RouterAck, Histories
    <3> QED
      BY <1>0, <2>1, <2>2, <2>5, <3>1, <3>2 DEF MarkInv, MarkersKnown, MarkersMerged, MarkerKept
  <2> QED
    BY <2>4, <2>5
<1>3. CASE PurgeCommand
  <2>1. clock' = clock + 1 /\ UNCHANGED <<shared, ref, led>>
    BY <1>3 DEF PurgeCommand
  <2>2. rt'.copy = rt.copy
    BY <1>3, <1>t DEF PurgeCommand, Commands
  <2>3. hist'.mark = hist.mark /\ hist'.raced = hist.raced
    BY <1>3, <1>t DEF PurgeCommand, Histories
  <2> QED
    BY <1>0, <2>1, <2>2, <2>3 DEF MarkInv, MarkersKnown, MarkersMerged, MarkerKept
<1>4. CASE LedCopy
  <2>1. led'.copy = row /\ led'.pc = "merge" /\ UNCHANGED <<shared, clock, ref, rt, hist>>
    BY <1>4 DEF LedCopy
  <2> QED
    BY <1>0, <2>1 DEF MarkInv, MarkersKnown, MarkersMerged, MarkerKept, Unwritten
<1>5. CASE LedMerge
  <2>1. led'.copy = MergeMarker(led.copy, row) /\ UNCHANGED <<shared, clock, ref, rt, hist>>
    BY <1>5 DEF LedMerge
  <2>2. led'.copy.mts = IF row.mts > led.copy.mts THEN row.mts ELSE led.copy.mts
    BY <1>t, <2>1, MergeTakes
  <2> QED
    BY <1>0, <2>1, <2>2 DEF MarkInv, MarkersKnown, MarkersMerged, MarkerKept, Unwritten
<1>6. CASE LedStore
  <2>1. row' = led.copy /\ led.pc = "store" /\ led'.pc = "idle" /\ led'.copy.mts = 0 /\ UNCHANGED <<clock, ref, rt, hist>>
    BY <1>6, <1>q DEF LedStore, LedIdle
  <2> QED
    BY <1>0, <2>1 DEF MarkInv, MarkersKnown, MarkersMerged, MarkerKept, Unwritten
<1>7. CASE Restart
  <2>1. UNCHANGED <<row, clock, hist>>
    BY <1>7 DEF Restart
  <2> QED
    BY <1>0, <1>7, <1>q, <2>1
       DEF Restart, Idle, RouterIdle, LedIdle, MarkInv, MarkersKnown, MarkersMerged, MarkerKept, Unwritten
<1>8. CASE InputChange \/ StopCommand \/ SenderTake \/ SenderDeliver \/ SenderFail \/ UNCHANGED vars
  <2>1. UNCHANGED <<row, clock, ref, rt, led, hist>>
    BY <1>8 DEF InputChange, StopCommand, SenderTake, SenderDeliver, SenderFail, vars
  <2> QED
    BY <2>1 DEF MarkInv, MarkersKnown, MarkersMerged, MarkerKept, Unwritten
<1> QED
  BY <1>1, <1>2, <1>3, <1>4, <1>5, <1>6, <1>7, <1>8 DEF Next, LedStep

\* Whoever rewrites the row from an older copy, the marker of Microtom's last command
\* stays in it, unless that command landed between a merge and its write
\* (machine_runtime.py:4307-4309).
THEOREM LastMarkerKept == Spec => []MarkerKept
<1>1. Init => Typed /\ MarkInv
  BY InitTyped, MarkInit
<1>2. Typed /\ MarkInv /\ [Next]_vars => Typed' /\ MarkInv'
  BY TypedStep, MarkStep
<1>3. MarkInv => MarkerKept
  BY DEF MarkInv
<1> QED
  BY <1>1, <1>2, <1>3, PTL DEF Spec

-----------------------------------------------------------------------------
(* A purge that Microtom started                                           *)

\* A row with the marker of Microtom's last command, which was MAS0028=1.
Active(r) == r.mk = "active" /\ r.mts = hist.mark

\* The purge is Microtom's: its command is executed, or has its marker written and
\* goes on to execute; no refresh was under way when the marker was written.
Held == ~hist.overlap /\ (hist.external \/ (rt.val /\ rt.pc \in {"delete", "exec"}))

\* What the refresh will write back: its snapshot, or the row it has composed.
OnSnap == ref.pc \in SnapPcs \/ (ref.pc \in AskPcs /\ ref.then = "settle")
OnOut == ref.pc \in OutPcs \/ (ref.pc \in AskPcs /\ ref.then = "merge")

\* A refresh that has not yet settled goes on to settle.
SettlesLast == ref.pc \in SnapPcs => ref.then = "settle"

\* MAS0028=0 ends Microtom's purge before it marks the row.
ClearEnds == hist.external => rt.val \/ rt.pc \in {"idle", "exec"}

\* The row and every copy that may replace it carry the marker, and a reset that has
\* looked for the marker has seen it.
CopiesActive ==
  Held => /\ Active(row)
          /\ OnSnap => Active(ref.snap)
          /\ OnOut => Active(ref.out)
          /\ ref.pc = "clear" => ref.keep
          /\ led.pc = "store" => Active(led.copy)
          /\ led.pc = "merge" => Active(led.copy) \/ led.copy.mts < hist.mark

HeldInv == SettlesLast /\ ClearEnds /\ CopiesActive /\ ExternalPurgeHeld

LEMMA HeldInit == ASSUME Init PROVE HeldInv
  BY DEF Init, HeldInv, SettlesLast, ClearEnds, CopiesActive, ExternalPurgeHeld, Held, Idle, RouterIdle, SnapPcs

LEMMA RefreshHeld ==
  ASSUME Typed, MarkInv, HeldInv, RefreshStep
  PROVE  HeldInv'
<1> USE DEF RefreshAt, Goto, shared, callbacks, others, plant
<1>t. /\ row \in Rows /\ ref \in Refreshes /\ ref.snap \in Rows /\ ref.out \in Rows
      /\ hist \in Histories /\ purge28 \in BOOLEAN
  BY DEF Typed, TypeOK
<1>u. UNCHANGED <<rt, led>>
  BY RefreshQueues
     DEF RefreshStep, ReadRow, ReadInputs, ReleaseFaults, Latch, BeginReset, ResetStore, PulseReset,
         ReadMarker, ResetClear, FinishReset, SetPurge, AskDedupe, EnqueuePurge, Settle, MergeRow, StoreRow
<1>h. /\ hist'.external = hist.external /\ hist'.overlap = hist.overlap /\ hist'.mark = hist.mark
  BY <1>t
     DEF RefreshStep, ReadRow, ReadInputs, ReleaseFaults, Latch, BeginReset, ResetStore, PulseReset,
         ReadMarker, ResetClear, FinishReset, SetPurge, AskDedupe, EnqueuePurge, Settle, MergeRow, StoreRow,
         Histories
<1>i. Held' = Held /\ ClearEnds'
  BY <1>u, <1>h DEF Held, HeldInv, ClearEnds
\* It suffices to look at the row, at what the refresh carries, and at MAS0028.
<1>0. ASSUME SettlesLast',
             Held => /\ Active(row)'
                     /\ OnSnap' => Active(ref.snap)'
                     /\ OnOut' => Active(ref.out)'
                     /\ ref'.pc = "clear" => ref'.keep,
             Held /\ purge28 => purge28'
      PROVE  HeldInv'
  <2>1. CopiesActive'
    BY <1>u, <1>h, <1>i, <1>0 DEF HeldInv, CopiesActive, Active
  <2>2. ExternalPurgeHeld'
    BY <1>h, <1>0 DEF HeldInv, ExternalPurgeHeld, Held
  <2> QED
    BY <1>i, <1>0, <2>1, <2>2 DEF HeldInv
<1>1. CASE ReadRow
  <2>1. ref'.pc = "inputs" /\ ref'.snap = row /\ ref'.then = "settle" /\ UNCHANGED <<row, purge28>>
    BY <1>1 DEF ReadRow, Idle
  <2> QED
    BY <1>0, <1>h, <2>1 DEF HeldInv, SettlesLast, CopiesActive, Active, OnSnap, OnOut, OutPcs, AskPcs
<1>2. CASE ReadInputs \/ ReleaseFaults \/ PulseReset
  <2>1. /\ ref.pc \in SnapPcs /\ ref'.pc \in SnapPcs \ {"resetstore", "clear"}
        /\ ref'.snap = ref.snap /\ ref'.then = ref.then /\ UNCHANGED <<row, purge28>>
    BY <1>2, <1>t DEF ReadInputs, ReleaseFaults, PulseReset, ResetFails, Refreshes, SnapPcs
  <2> QED
    BY <1>0, <1>h, <2>1 DEF HeldInv, SettlesLast, CopiesActive, Active, OnSnap, OnOut, OutPcs, AskPcs, SnapPcs
<1>3. CASE Latch
  <2>1. /\ ref.pc \in SnapPcs /\ ref'.pc \in {"reset", "report"}
        /\ ref'.snap.mk = ref.snap.mk /\ ref'.snap.mts = ref.snap.mts /\ UNCHANGED row
        /\ purge28' = (purge28 /\ ~StaleLightLatch(ref.snap, ref.view))
    BY <1>3, LatchResult DEF Latch, SnapPcs
  <2>2. ref'.then = ref.then
    BY <1>3, <1>t DEF Latch, Refreshes
  <2>3. Held => ~StaleLightLatch(ref.snap, ref.view)
    BY <2>1 DEF HeldInv, CopiesActive, OnSnap, Active, StaleLightLatch, ExternalPurge
  <2> QED
    BY <1>0, <1>h, <2>1, <2>2, <2>3
       DEF HeldInv, SettlesLast, CopiesActive, Active, OnSnap, OnOut, OutPcs, AskPcs, SnapPcs
<1>4. CASE BeginReset
  <2>1. /\ ref.pc = "reset" /\ ref'.snap = ref.snap /\ UNCHANGED <<row, purge28>>
        /\ \/ ref'.pc = "finish"
           \/ ref'.pc = "resetstore" /\ ref'.out.mk = row.mk /\ ref'.out.mts = row.mts
    BY <1>4, BeginForm DEF BeginReset
  <2>2. ref'.then = ref.then
    BY <1>4, <1>t DEF BeginReset, ResetFails, Refreshes
  <2> QED
    BY <1>0, <1>h, <2>1, <2>2
       DEF HeldInv, SettlesLast, CopiesActive, Active, OnSnap, OnOut, OutPcs, AskPcs, SnapPcs
<1>5. CASE ResetStore
  <2>1. /\ ref.pc = "resetstore" /\ ref'.pc = "pulse" /\ ref'.snap = ref.snap /\ ref'.then = ref.then
        /\ row' = ref.out /\ UNCHANGED purge28
    BY <1>5, <1>t DEF ResetStore, Refreshes
  <2> QED
    BY <1>0, <1>h, <2>1
       DEF HeldInv, SettlesLast, CopiesActive, Active, OnSnap, OnOut, OutPcs, AskPcs, SnapPcs
<1>6. CASE ReadMarker
  <2>1. /\ ref.pc = "marker" /\ ref'.pc = "clear" /\ ref'.snap = ref.snap /\ ref'.then = ref.then
        /\ ref'.keep = KeepPurge(row) /\ UNCHANGED <<row, purge28>>
    BY <1>6, <1>t DEF ReadMarker, Refreshes
  <2>2. Held => KeepPurge(row)
    BY DEF HeldInv, CopiesActive, Active, KeepPurge, ExternalPurge
  <2> QED
    BY <1>0, <1>h, <2>1, <2>2
       DEF HeldInv, SettlesLast, CopiesActive, Active, OnSnap, OnOut, OutPcs, AskPcs, SnapPcs
<1>7. CASE ResetClear
  <2>1. /\ ref.pc = "clear" /\ ref'.pc = "finish" /\ ref'.snap = ref.snap /\ ref'.then = ref.then
        /\ purge28' = (purge28 /\ ref.keep) /\ UNCHANGED row
    BY <1>7, <1>t DEF ResetClear, Refreshes
  <2> QED
    BY <1>0, <1>h, <2>1
       DEF HeldInv, SettlesLast, CopiesActive, Active, OnSnap, OnOut, OutPcs, AskPcs, SnapPcs
<1>8. CASE FinishReset
  <2>1. /\ ref.pc = "finish" /\ ref'.pc = "report"
        /\ ref'.snap.mk = ref.snap.mk /\ ref'.snap.mts = ref.snap.mts /\ UNCHANGED <<row, purge28>>
    BY <1>8, FinishResult DEF FinishReset
  <2>2. ref'.then = ref.then
    BY <1>8, <1>t DEF FinishReset, Refreshes
  <2> QED
    BY <1>0, <1>h, <2>1, <2>2
       DEF HeldInv, SettlesLast, CopiesActive, Active, OnSnap, OnOut, OutPcs, AskPcs, SnapPcs
<1>9. CASE SetPurge
  <2>1. /\ ref.pc = "report" /\ ref'.pc \in {"ask", "settle"} /\ ref'.snap = ref.snap
        /\ ref'.then = ref.then /\ purge28' \in {TRUE, purge28} /\ UNCHANGED row
    BY <1>9, <1>t DEF SetPurge, Refreshes
  <2>2. OnSnap /\ ref.then = "settle"
    BY <2>1 DEF HeldInv, SettlesLast, OnSnap, SnapPcs
  <2>3. ~OnOut' /\ SettlesLast' /\ ref'.pc # "clear"
    BY <2>1, <2>2 DEF OnOut, SettlesLast, OutPcs, AskPcs
  <2>4. purge28 => purge28'
    BY <2>1
  <2> QED
    BY <1>0, <1>h, <2>1, <2>2, <2>3, <2>4 DEF HeldInv, CopiesActive, Active
<1>10. CASE AskDedupe \/ EnqueuePurge
  <2>1. /\ ref.pc \in AskPcs /\ ref.then \in {"settle", "merge"} /\ ref'.pc \in {"enqueue", ref.then}
        /\ ref'.snap = ref.snap /\ ref'.out = ref.out /\ ref'.then = ref.then
        /\ UNCHANGED <<row, purge28>>
    BY <1>10, <1>t DEF AskDedupe, EnqueuePurge, Refreshes, AskPcs
  <2>2. (OnSnap' => OnSnap) /\ (OnOut' => OnOut) /\ SettlesLast' /\ ref'.pc # "clear"
    BY <2>1 DEF OnSnap, OnOut, SettlesLast, OutPcs, AskPcs, SnapPcs
  <2> QED
    BY <1>0, <1>h, <2>1, <2>2 DEF HeldInv, CopiesActive, Active
<1>11. CASE Settle
  <2>1. \A s, p : NewRow(s, p).mts = ref.snap.mts /\ NewRow(s, p).mk = ref.snap.mk
    BY <1>t DEF NewRow, Rows
  <2>2. PICK s, p : \/ ref' = [Idle EXCEPT !.pc = "merge", !.out = NewRow(s, p)]
                   \/ ref' = [Idle EXCEPT !.pc = "ask", !.then = "merge", !.out = NewRow(s, p)]
    BY <1>11 DEF Settle
  <2>3. /\ ref'.out = NewRow(s, p)
        /\ ref'.pc = "merge" \/ (ref'.pc = "ask" /\ ref'.then = "merge")
    BY <2>2 DEF Idle
  <2>4. ref.pc = "settle" /\ UNCHANGED row /\ purge28' \in {TRUE, purge28}
    BY <1>11 DEF Settle
  <2>5. ~OnSnap' /\ SettlesLast' /\ ref'.pc # "clear" /\ OnSnap
    BY <2>3, <2>4 DEF OnSnap, SettlesLast, AskPcs, SnapPcs
  <2> QED
    BY <1>0, <1>h, <1>t, <2>1, <2>3, <2>4, <2>5 DEF HeldInv, CopiesActive, Active
<1>12. CASE MergeRow
  <2>1. CASE ref' = Idle
    <3>1. ref'.pc = "idle" /\ UNCHANGED <<row, purge28>>
      BY <1>12, <2>1 DEF MergeRow, Idle
    <3> QED
      BY <1>0, <1>h, <3>1 DEF HeldInv, SettlesLast, CopiesActive, Active, OnSnap, OnOut, OutPcs, AskPcs, SnapPcs
  <2>2. CASE ref' = [ref EXCEPT !.pc = "store", !.out = MergeMarker(ref.out, row)]
    <3>1. /\ ref.pc = "merge" /\ ref'.pc = "store" /\ ref'.out = MergeMarker(ref.out, row)
          /\ UNCHANGED <<row, purge28>>
      BY <1>12, <2>2, <1>t DEF MergeRow, Refreshes
    <3>2. \/ ref'.out = ref.out
          \/ ref'.out.mk = row.mk /\ ref'.out.mts = row.mts
      BY <3>1, <1>t, MergeTakes
    <3> QED
      BY <1>0, <1>h, <3>1, <3>2
         DEF HeldInv, SettlesLast, CopiesActive, Active, OnSnap, OnOut, OutPcs, AskPcs, SnapPcs
  <2> QED
    BY <1>12, <2>1, <2>2 DEF MergeRow
<1>13. CASE StoreRow
  <2>1. ref.pc = "store" /\ ref'.pc = "idle" /\ row' = ref.out /\ UNCHANGED purge28
    BY <1>13 DEF StoreRow, Idle
  <2> QED
    BY <1>0, <1>h, <2>1 DEF HeldInv, SettlesLast, CopiesActive, Active, OnSnap, OnOut, OutPcs, AskPcs, SnapPcs
<1> QED
  BY <1>1, <1>2, <1>3, <1>4, <1>5, <1>6, <1>7, <1>8, <1>9, <1>10, <1>11, <1>12, <1>13 DEF RefreshStep

LEMMA RouterHeld ==
  ASSUME Typed, MarkInv, HeldInv, RouterStep
  PROVE  HeldInv'
<1> USE DEF shared, callbacks, plant
<1>t. rt \in Commands /\ rt.copy \in Rows /\ hist \in Histories /\ purge28 \in BOOLEAN
  BY DEF Typed, TypeOK
<1>0. /\ clock \in Nat /\ hist.mark \in Nat /\ led.copy.mts \in Nat
  BY Marks
<1>1. /\ rt.pc # "idle" /\ UNCHANGED <<clock, ref, led>>
      /\ rt.pc = "ack" => rt' = RouterIdle
      /\ rt.pc # "ack" => rt'.pc = Follows(rt.val, rt.pc) /\ rt'.val = rt.val
      /\ rt.pc = "write" <=> RouterWriteRow
      /\ rt.pc = "exec" <=> RouterExecute
      /\ rt.pc = "param" <=> RouterParam
  BY RouterMoves
<1>2. SettlesLast'
  BY <1>1 DEF HeldInv, SettlesLast
<1>3. CASE RouterWriteRow
  <2>1. /\ row'.mts = clock /\ row'.mk = IF rt.val THEN "active" ELSE "clear"
        /\ UNCHANGED purge28
    BY <1>t, <1>3 DEF RouterWriteRow, Marked, Rows
  <2>2. /\ hist'.mark = clock
        /\ hist'.external = (hist.external /\ ~hist.overlap)
        /\ hist'.overlap = (ref.pc \in {"store", "resetstore"} \/ led.pc = "store" \/ ref.pc # "idle")
    BY <1>t, <1>3 DEF RouterWriteRow, Histories
  <2>3. rt.pc = "write" /\ rt'.pc = "delete" /\ rt'.val = rt.val
    BY <1>1, <1>3 DEF Follows
  <2>4. ClearEnds' /\ ExternalPurgeHeld'
    BY <1>1, <2>1, <2>2, <2>3 DEF HeldInv, ClearEnds, ExternalPurgeHeld
  <2>5. led.copy.mts < hist'.mark
    BY <1>0, <2>2, <2>3 DEF MarkInv, MarkersKnown, Unwritten
  <2>6. Held' => rt.val
    BY <1>1, <2>2, <2>3 DEF Held, HeldInv, ClearEnds
  <2>7. CopiesActive'
    BY <1>1, <2>1, <2>2, <2>3, <2>5, <2>6
       DEF CopiesActive, Held, Active, OnSnap, OnOut, SnapPcs, OutPcs, AskPcs
  <2> QED
    BY <1>2, <2>4, <2>7 DEF HeldInv
<1>4. CASE RouterExecute
  <2>1. /\ purge28' = rt.val /\ UNCHANGED row /\ hist'.external = rt.val
        /\ hist'.overlap = hist.overlap /\ hist'.mark = hist.mark
    BY <1>t, <1>4 DEF RouterExecute, Histories
  <2>2. rt.pc = "exec" /\ rt'.pc = (IF rt.val THEN "ack" ELSE "read") /\ rt'.val = rt.val
    BY <1>1, <1>4 DEF Follows
  <2>3. Held' => Held
    BY <1>t, <2>1, <2>2 DEF Held
  <2>4. CopiesActive'
    BY <1>1, <2>1, <2>3 DEF HeldInv, CopiesActive, Active, OnSnap, OnOut
  <2>5. ClearEnds' /\ ExternalPurgeHeld'
    BY <2>1, <2>2 DEF ClearEnds, ExternalPurgeHeld
  <2> QED
    BY <1>2, <2>4, <2>5 DEF HeldInv
<1>5. CASE ~RouterWriteRow /\ ~RouterExecute
  <2>1. UNCHANGED <<row, hist>> /\ (rt.pc # "param" => UNCHANGED purge28)
    BY <1>1, <1>5 DEF RouterStep, RouterReadRow, RouterParam, RouterDelete, RouterAck
  <2>2. rt.pc = "param" => purge28' = rt.val
    BY <1>1 DEF RouterParam
  <2>3. /\ rt.pc \in {"read", "param", "delete", "ack"}
        /\ rt.pc # "ack" => rt'.val = rt.val
        /\ rt.pc = "delete" => rt'.pc = IF rt.val THEN "exec" ELSE "ack"
        /\ rt.pc = "read" => rt'.pc = "param"
        /\ rt.pc = "param" => rt'.pc = "write"
        /\ rt.pc = "ack" => rt'.pc = "idle"
    BY <1>1, <1>5, <1>t DEF Follows, Commands, RouterPcs, RouterIdle
  <2>4. ClearEnds'
    BY <2>1, <2>3 DEF HeldInv, ClearEnds
  <2>5. Held' => Held
    BY <1>t, <2>1, <2>3 DEF Held
  <2>6. CopiesActive'
    BY <1>1, <2>1, <2>5 DEF HeldInv, CopiesActive, Active, OnSnap, OnOut
  <2>7. ExternalPurgeHeld'
    BY <1>t, <2>1, <2>2, <2>3 DEF HeldInv, ClearEnds, ExternalPurgeHeld
  <2> QED
    BY <1>2, <2>4, <2>6, <2>7 DEF HeldInv
<1> QED
  BY <1>3, <1>4, <1>5

LEMMA HeldStep == ASSUME Typed, MarkInv, HeldInv, [Next]_vars PROVE HeldInv'
<1> USE DEF shared, callbacks
<1>t. rt \in Commands /\ hist \in Histories /\ row \in Rows /\ led.copy \in Rows
  BY DEF Typed, TypeOK
<1>0. row.mts \in Nat /\ led.copy.mts \in Nat /\ hist.mark \in Nat
  BY Marks
<1>1. CASE RefreshStep
  BY <1>1, RefreshHeld
<1>2. CASE RouterStep
  BY <1>2, RouterHeld
<1>3. CASE PurgeCommand
  <2>1. /\ hist'.external = hist.external /\ hist'.overlap = hist.overlap /\ hist'.mark = hist.mark
        /\ UNCHANGED <<row, purge28, ref, led>> /\ rt.pc = "idle"
    BY <1>3, <1>t DEF PurgeCommand, Histories, RouterAt
  <2>2. PICK v \in BOOLEAN : rt' = [rt EXCEPT !.pc = RouterOrder[v][1], !.val = v]
    BY <1>3 DEF PurgeCommand
  <2>3. rt'.val = v /\ rt'.pc = IF v THEN "read" ELSE "exec"
    BY <1>t, <2>2, RouterStarts DEF Commands
  <2>4. ClearEnds' /\ (Held' => Held)
    BY <2>1, <2>3 DEF ClearEnds, Held
  <2> QED
    BY <2>1, <2>4 DEF HeldInv, SettlesLast, CopiesActive, ExternalPurgeHeld, Active, OnSnap, OnOut
<1>4. CASE LedCopy
  <2>1. led'.copy = row /\ led'.pc = "merge" /\ UNCHANGED <<row, purge28, ref, rt, hist>>
    BY <1>4 DEF LedCopy
  <2> QED
    BY <2>1 DEF HeldInv, SettlesLast, ClearEnds, CopiesActive, ExternalPurgeHeld, Held, Active, OnSnap, OnOut
<1>5. CASE LedMerge
  <2>1. /\ led.pc = "merge" /\ led'.pc = "store" /\ led'.copy = MergeMarker(led.copy, row)
        /\ UNCHANGED <<row, purge28, ref, rt, hist>>
    BY <1>5 DEF LedMerge
  <2>2. /\ row.mts > led.copy.mts => led'.copy.mts = row.mts /\ led'.copy.mk = row.mk
        /\ ~(row.mts > led.copy.mts) => led'.copy = led.copy
    BY <1>t, <2>1, MergeTakes
  <2>3. Held => Active(led.copy)'
    BY <1>0, <2>1, <2>2 DEF HeldInv, CopiesActive, Active
  <2> QED
    BY <2>1, <2>3 DEF HeldInv, SettlesLast, ClearEnds, CopiesActive, ExternalPurgeHeld, Held, Active, OnSnap, OnOut
<1>6. CASE LedStore
  <2>1. row' = led.copy /\ led.pc = "store" /\ led'.pc = "idle" /\ UNCHANGED <<purge28, ref, rt, hist>>
    BY <1>6 DEF LedStore, LedIdle
  <2> QED
    BY <2>1 DEF HeldInv, SettlesLast, ClearEnds, CopiesActive, ExternalPurgeHeld, Held, Active, OnSnap, OnOut
<1>7. CASE Restart
  <2>1. /\ ref'.pc = "idle" /\ rt'.pc = "idle" /\ led'.pc = "idle"
        /\ UNCHANGED <<row, purge28, hist>>
    BY <1>7 DEF Restart, Idle, RouterIdle, LedIdle
  <2> QED
    BY <2>1 DEF HeldInv, SettlesLast, ClearEnds, CopiesActive, ExternalPurgeHeld, Held, Active, OnSnap, OnOut,
                SnapPcs, OutPcs, AskPcs
<1>8. CASE InputChange \/ StopCommand \/ SenderTake \/ SenderDeliver \/ SenderFail \/ UNCHANGED vars
  <2>1. UNCHANGED <<row, purge28, ref, rt, led, hist>>
    BY <1>8 DEF InputChange, StopCommand, SenderTake, SenderDeliver, SenderFail, vars
  <2> QED
    BY <2>1 DEF HeldInv, SettlesLast, ClearEnds, CopiesActive, ExternalPurgeHeld, Held, Active, OnSnap, OnOut
<1> QED
  BY <1>1, <1>2, <1>3, <1>4, <1>5, <1>6, <1>7, <1>8 DEF Next, LedStep

\* A purge Microtom started stays until Microtom ends it, resets, stale-latch rules, LED
\* ticks and restarts notwithstanding, unless a refresh was running when the marker was
\* set (machine_runtime.py:10838, 10864, 11717).
THEOREM ExternalPurgeStays == Spec => []PurgeInv
<1>1. Init => Typed /\ MarkInv /\ HeldInv
  BY InitTyped, MarkInit, HeldInit
<1>2. Typed /\ MarkInv /\ HeldInv /\ [Next]_vars => Typed' /\ MarkInv' /\ HeldInv'
  BY TypedStep, MarkStep, HeldStep
<1>3. Typed /\ HeldInv => PurgeInv
  BY DEF Typed, HeldInv, PurgeInv
<1> QED
  BY <1>1, <1>2, <1>3, PTL DEF Spec

=============================================================================
