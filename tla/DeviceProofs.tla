---------------------------- MODULE DeviceProofs ----------------------------
(***************************************************************************)
(* Proofs about what the Raspi does with its devices: the start of a       *)
(* production on the ESP (module Start), the one connection to the ESP     *)
(* that all calls share (Broker), a setting on its way from the page or    *)
(* Microtom to a device and back (Settings), and a fault bit on its way    *)
(* from a device to Microtom (Faults).                                     *)
(***************************************************************************)
EXTENDS Start, Broker, Settings, Faults, SequenceTheorems, TLAPS

-----------------------------------------------------------------------------
(* Sequences.                                                              *)

\* A sequence without one of its elements: one shorter, and nothing new in it.
LEMMA RemoveAtKeeps ==
  ASSUME NEW S, NEW q \in Seq(S), NEW i \in 1 .. Len(q)
  PROVE  /\ RemoveAt(q, i) \in Seq(S) /\ Len(RemoveAt(q, i)) = Len(q) - 1
         /\ \A j \in 1 .. Len(q) - 1 : RemoveAt(q, i)[j] = q[IF j < i THEN j ELSE j + 1]
         /\ \A j \in DOMAIN RemoveAt(q, i) : \E k \in DOMAIN q : RemoveAt(q, i)[j] = q[k]
<1> DEFINE s == SubSeq(q, 1, i - 1)
           t == SubSeq(q, i + 1, Len(q))
<1>1. Len(q) \in Nat /\ DOMAIN q = 1 .. Len(q)
  OBVIOUS
<1>2. /\ s \in Seq(S) /\ Len(s) = i - 1
      /\ \A j \in 1 .. i - 1 : s[j] = q[j]
  <2>1. 1 \in Int /\ i - 1 \in Int /\ \A j \in 1 .. i - 1 : q[j] \in S
    BY <1>1
  <2>2. /\ s \in Seq(S) /\ Len(s) = IF 1 <= i - 1 THEN i - 1 - 1 + 1 ELSE 0
        /\ \A j \in 1 .. i - 1 - 1 + 1 : s[j] = q[1 + j - 1]
    BY <2>1, SubSeqProperties
  <2> HIDE DEF s
  <2> QED
    BY <1>1, <2>2
<1>3. /\ t \in Seq(S) /\ Len(t) = Len(q) - i
      /\ \A j \in 1 .. Len(q) - i : t[j] = q[i + j]
  <2>1. i + 1 \in Int /\ Len(q) \in Int /\ \A j \in i + 1 .. Len(q) : q[j] \in S
    BY <1>1
  <2>2. /\ t \in Seq(S) /\ Len(t) = IF i + 1 <= Len(q) THEN Len(q) - (i + 1) + 1 ELSE 0
        /\ \A j \in 1 .. Len(q) - (i + 1) + 1 : t[j] = q[(i + 1) + j - 1]
    BY <2>1, SubSeqProperties
  <2> HIDE DEF t
  <2>5. \A n \in Nat : \A k \in 1 .. n : n - (k + 1) + 1 = n - k /\ (~(k + 1 <= n) => n - k = 0)
    OBVIOUS
  <2>6. Len(q) - (i + 1) + 1 = Len(q) - i /\ (~(i + 1 <= Len(q)) => Len(q) - i = 0)
    BY <1>1, <2>5
  <2>3. Len(t) = Len(q) - i /\ Len(q) - (i + 1) + 1 = Len(q) - i
    BY <2>2, <2>6
  <2>4. ASSUME NEW j \in 1 .. Len(q) - i PROVE t[j] = q[i + j]
    <3>1. t[j] = q[(i + 1) + j - 1]
      BY <2>2, <2>3
    <3>2. (i + 1) + j - 1 = i + j
      BY <1>1
    <3> QED
      BY <3>1, <3>2
  <2> QED
    BY <2>2, <2>3, <2>4
<1>5. RemoveAt(q, i) = s \o t
  BY DEF RemoveAt
<1> HIDE DEF s, t
<1> DEFINE r == s \o t
<1>6. /\ r \in Seq(S) /\ Len(r) = Len(q) - 1
      /\ \A j \in 1 .. Len(q) - 1 : r[j] = IF j <= i - 1 THEN s[j] ELSE t[j - (i - 1)]
  <2>1. /\ r \in Seq(S) /\ Len(r) = Len(s) + Len(t)
        /\ \A j \in 1 .. Len(s) + Len(t) : r[j] = IF j <= Len(s) THEN s[j] ELSE t[j - Len(s)]
    BY <1>2, <1>3, ConcatProperties
  <2> HIDE DEF r
  <2>2. Len(s) + Len(t) = Len(q) - 1
    BY <1>1, <1>2, <1>3
  <2> QED
    BY <1>2, <2>1, <2>2
<1> HIDE DEF r
<1>7. DOMAIN r = 1 .. Len(q) - 1
  BY <1>1, <1>6
<1>8. ASSUME NEW j \in 1 .. Len(q) - 1
      PROVE  LET k == IF j < i THEN j ELSE j + 1 IN r[j] = q[k] /\ k \in DOMAIN q
  <2>0. \A n \in Nat : \A a \in 1 .. n : \A b \in 1 .. n - 1 :
          /\ b <= a - 1 => b \in 1 .. n /\ b < a /\ b \in 1 .. a - 1
          /\ b > a - 1 => /\ b - (a - 1) \in 1 .. n - a /\ a + (b - (a - 1)) = b + 1
                          /\ b + 1 \in 1 .. n /\ ~(b < a)
    OBVIOUS
  <2>1. CASE j <= i - 1
    <3>1. j \in DOMAIN q /\ j < i /\ j \in 1 .. i - 1
      BY <1>1, <2>0, <2>1
    <3>2. r[j] = q[j]
      BY <1>2, <1>6, <2>1, <3>1
    <3> QED
      BY <3>1, <3>2
  <2>2. CASE j > i - 1
    <3>1. r[j] = t[j - (i - 1)] /\ j - (i - 1) \in 1 .. Len(q) - i
      BY <1>1, <1>6, <2>0, <2>2
    <3>2. t[j - (i - 1)] = q[i + (j - (i - 1))]
      BY <1>3, <3>1
    <3>3. i + (j - (i - 1)) = j + 1 /\ j + 1 \in DOMAIN q /\ ~(j < i)
      BY <1>1, <2>0, <2>2
    <3> QED
      BY <3>1, <3>2, <3>3
  <2> QED
    BY <1>1, <2>1, <2>2
<1>9. \A j \in 1 .. Len(q) - 1 : \E k \in DOMAIN q : r[j] = q[k]
  BY <1>8
<1> QED
  BY <1>5, <1>6, <1>7, <1>8, <1>9 DEF r

-----------------------------------------------------------------------------
(* The start and the stop of a production.                                 *)

StEsps == [run : Runners, state : StModes \cup {0}, map : 0 .. MaxEdits]
StPasts == [blind : BOOLEAN, shaken : BOOLEAN]
StTyped == StartTypeOK /\ stPast \in StPasts

\* In a start the row is still that of a pause; the monitors look after a production.
RowWhile ==
  /\ StAt("idle") => stRef.now = stRow
  /\ stRef.pc \in {"ping", "sync5", "params", "clear", "wicklers", "go", "status", "ready", "verify"}
       => stRow.mode = 7 /\ stRef.now.mode = 7
  /\ stRef.pc \in {"ask", "wait", "monitor", "watch"} => stRef.now.mode = 5

\* Only a production that ends in a fault has missed three answers.
MissesKnown ==
  /\ stRow.miss = 3 => stRow.mode = 21
  /\ stRef.now.miss = 3 =>
       stRef.now.mode = 21 \/ (stRef.pc \in {"stop", "check", "tell"} /\ stRef.why = "fault")
  /\ stRef.pc \in {"stop", "check", "tell"} /\ stRef.why # "fault" => stRef.now.miss # 3

Runs2 == stEsp.run \in {"on", "ending"}

\* No runner runs where the refresh has said so, or is about to.
StoppedFor ==
  /\ stRef.pc \in {"check", "tell"} /\ stRef.crit => ~Runs2
  /\ ~stPast.blind /\ stRef.pc = "ping" => ~Runs2
  /\ ~stPast.blind /\ stRef.pc = "idle" /\ stRow.mode = 7 => ~Runs2
  /\ ~stPast.blind /\ stRef.pc = "write" /\ stRef.now.mode = 7 => ~Runs2

\* From the parameters on, the ESP has what the start read.
Planned ==
  stRef.how = "fresh" /\ ~stPast.shaken /\ stRef.pc \in {"clear", "wicklers", "go", "status", "verify"}
    => stEsp.map = stRef.plan

StartIInv == StTyped /\ RowWhile /\ MissesKnown /\ StoppedFor /\ Planned

LEMMA StTypes ==
  ASSUME StTyped
  PROVE  /\ stEsp \in StEsps /\ stRow \in StRows /\ stRef \in StRefs /\ stPast \in StPasts
         /\ stRef.now \in StRows /\ stRef.pc \in StPcs /\ stRef.crit \in BOOLEAN /\ stRef.told \in BOOLEAN
         /\ stRow.mode \in StModes /\ stRow.paused \in BOOLEAN
         /\ stMap \in 0 .. MaxEdits /\ stSaid \in 0 .. MaxEdits /\ stCmd \in {0, 1, 7}
BY DEF StTyped, StartTypeOK, StEsps, StRefs, StRows

\* The ways a step leaves the refresh at another place.
LEMMA StForms ==
  ASSUME StTyped
  PROVE  /\ \A pc \in StPcs :
              LET r == StGo(pc) IN
              /\ r \in StRefs /\ r.pc = pc /\ r.now = stRef.now /\ r.why = stRef.why /\ r.crit = stRef.crit
              /\ r.how = stRef.how /\ r.plan = stRef.plan
         /\ StGiveUp \in StRefs /\ StGiveUp.pc = "stop" /\ StGiveUp.now = stRef.now /\ StGiveUp.why = "start"
         /\ StFault \in StRefs /\ StFault.pc = "stop" /\ StFault.now = stRef.now /\ StFault.why = "fault"
<1>1. stRef \in StRefs
  BY StTypes
<1>2. "stop" \in StPcs
  BY DEF StPcs
<1> QED
  BY <1>1, <1>2 DEF StGo, StGiveUp, StFault, StRefs

LEMMA StFrame ==
  ASSUME StTyped, stEsp' \in StEsps, stRow' \in StRows, stRef' \in StRefs, stPast' \in StPasts,
         stMap' \in 0 .. MaxEdits, stSaid' \in 0 .. MaxEdits, stCmd' \in {0, 1, 7},
         stLine' \in {"up", "mute", "dead"}, stBad' \in BOOLEAN
  PROVE  StTyped'
BY DEF StTyped, StartTypeOK, StEsps, StPasts, StRefs, StRows, StPcs, StModes, Misses, Runners

\* What a command leaves of the ESP.
LEMMA StSent ==
  ASSUME NEW esp \in StEsps, stEsp \in StEsps
  PROVE  Sent(esp) \in StEsps /\ Sent(esp) \in {esp, stEsp} /\ (Heard => Sent(esp) = esp)
BY DEF Sent, Heard

LEMMA StartStarts == StartInit => StartIInv
<1> SUFFICES ASSUME StartInit PROVE StartIInv
  OBVIOUS
<1>1. StRow0 \in StRows /\ StRow0.mode = 7 /\ StRow0.miss = 0
  BY DEF StRow0, StRows, StModes, Misses
<1>2. stEsp \in StEsps /\ stEsp.run = "off"
  BY StartAssumption DEF StartInit, StEsps, Runners, StModes
<1>3. StRest(StRow0) \in StRefs /\ StRest(StRow0).pc = "idle" /\ StRest(StRow0).now = StRow0
  BY <1>1, StartAssumption DEF StRest, StRefs, StPcs
<1>4. stPast \in StPasts
  BY DEF StartInit, StPasts
<1>5. StTyped
  BY <1>1, <1>2, <1>3, <1>4, StartAssumption DEF StartInit, StTyped, StartTypeOK, StEsps
<1> QED
  BY <1>1, <1>2, <1>3, <1>5
     DEF StartInit, StartIInv, RowWhile, MissesKnown, StoppedFor, Planned, Runs2, StAt

\* Around the refresh the plant changes by itself; no runner starts by itself.
LEMMA StAround ==
  ASSUME StartIInv, NEW c \in {1, 7}, NEW to \in {"up", "mute", "dead"},
         Want(c) \/ LineChanges(to) \/ EditMap \/ EspBoots \/ RunnerFaults \/ RunnerEnds \/ WicklerSlips
  PROVE  StartIInv'
<1>1. /\ stEsp \in StEsps /\ stRow \in StRows /\ stRef \in StRefs /\ stPast \in StPasts /\ StTyped
      /\ stMap \in 0 .. MaxEdits /\ stSaid \in 0 .. MaxEdits /\ stCmd \in {0, 1, 7}
  BY StTypes DEF StartIInv
<1>2. UNCHANGED <<stRow, stRef>> /\ stLine' \in {"up", "mute", "dead"} /\ stBad' \in BOOLEAN
      /\ stCmd' \in {0, 1, 7} /\ stMap' \in 0 .. MaxEdits /\ stSaid' = stSaid
  <2>1. stLine \in {"up", "mute", "dead"} /\ stBad \in BOOLEAN
    BY <1>1 DEF StTyped, StartTypeOK
  <2>2. stMap' \in 0 .. MaxEdits
    BY <1>1, StartAssumption DEF Want, LineChanges, EditMap, EspBoots, RunnerFaults, RunnerEnds, WicklerSlips
  <2> QED
    BY <1>1, <2>1, <2>2 DEF Want, LineChanges, EditMap, EspBoots, RunnerFaults, RunnerEnds, WicklerSlips
<1>3. /\ stEsp' \in StEsps /\ stPast' \in StPasts /\ stPast'.blind = stPast.blind
      /\ Runs2' => Runs2
      /\ stRef.pc # "idle" => (stPast'.shaken \/ (stPast'.shaken = stPast.shaken /\ stEsp'.map = stEsp.map))
  <2>1. CASE EspBoots
    <3> DEFINE shaken == stRef.pc # "idle"
    <3>1. stPast' = [stPast EXCEPT !.shaken = shaken] /\ stEsp' = [run |-> "off", state |-> 0, map |-> 0]
      BY <2>1 DEF EspBoots
    <3>2. shaken \in BOOLEAN
      OBVIOUS
    <3>3. stEsp' \in StEsps /\ ~Runs2'
      BY <3>1, StartAssumption DEF StEsps, Runners, Runs2
    <3>4. stRef.pc # "idle" => shaken
      OBVIOUS
    <3> HIDE DEF shaken
    <3> QED
      BY <1>1, <3>1, <3>2, <3>3, <3>4 DEF StPasts
  <2>2. CASE RunnerFaults \/ RunnerEnds
    <3>1. PICK run \in {"fault", "paused"} : stEsp' = [stEsp EXCEPT !.run = run] /\ stPast' = stPast
      BY <2>2 DEF RunnerFaults, RunnerEnds
    <3> QED
      BY <1>1, <3>1 DEF StEsps, Runners, Runs2
  <2>3. CASE UNCHANGED <<stEsp, stPast>>
    BY <1>1, <2>3 DEF Runs2
  <2> QED
    BY <2>1, <2>2, <2>3 DEF Want, LineChanges, EditMap, WicklerSlips
<1>4. StTyped'
  BY <1>1, <1>2, <1>3, StFrame
<1> QED
  BY <1>2, <1>3, <1>4 DEF StartIInv, RowWhile, MissesKnown, StoppedFor, Planned, StAt

\* A refresh begins with the row as it is.
LEMMA StBegins == ASSUME StartIInv, NEW due \in BOOLEAN, StBegin(due) PROVE StartIInv'
<1>1. /\ stEsp \in StEsps /\ stRow \in StRows /\ stRef \in StRefs /\ stPast \in StPasts /\ StTyped
      /\ stMap \in 0 .. MaxEdits /\ stSaid \in 0 .. MaxEdits /\ stRow.mode \in StModes
  BY StTypes DEF StartIInv
<1>2. UNCHANGED <<stEsp, stLine, stBad, stMap, stSaid, stRow, stPast>> /\ stCmd' = 0 /\ stRef.pc = "idle"
  BY DEF StBegin, StAt
<1>3. StRest(stRow) \in StRefs /\ StRest(stRow).now = stRow /\ StRest(stRow).crit = FALSE
  BY <1>1, StartAssumption DEF StRest, StRefs, StPcs
<1> DEFINE rest == StRest(stRow)
<1> HIDE DEF rest
<1>4. /\ stRef' \in StRefs /\ stRef'.now = stRow /\ stRef'.crit = FALSE
      /\ stRef'.pc \in {"ping", "sync5", "ask", "monitor", "write", "idle"}
      /\ stRef'.pc \in {"ping", "sync5"} => stRow.mode = 7
      /\ stRef'.pc \in {"ask", "monitor"} => stRow.mode = 5
  <2>0. rest \in StRefs /\ rest.now = stRow /\ rest.crit = FALSE
    BY <1>3 DEF rest
  <2>1. PICK pc \in {"ping", "sync5", "ask", "monitor", "write", "idle"}, how \in {"fresh", "resume"} :
          /\ \/ stRef' = [rest EXCEPT !.pc = pc, !.how = how, !.plan = stMap]
             \/ stRef' = [rest EXCEPT !.pc = pc]
          /\ pc \in {"ping", "sync5"} => stRow.mode = 7
          /\ pc \in {"ask", "monitor"} => stRow.mode = 5
    BY DEF StBegin, rest
  <2> QED
    BY <1>1, <2>0, <2>1 DEF StRefs, StPcs
<1>5. StTyped'
  <2>1. stLine \in {"up", "mute", "dead"} /\ stBad \in BOOLEAN
    BY <1>1 DEF StTyped, StartTypeOK
  <2> QED
    BY <1>1, <1>2, <1>4, <2>1, StFrame
<1>6. RowWhile' /\ MissesKnown'
  BY <1>2, <1>4 DEF StartIInv, RowWhile, MissesKnown, StAt
<1>7. StoppedFor' /\ Planned'
  BY <1>2, <1>4 DEF StartIInv, StoppedFor, Planned, Runs2
<1> QED
  BY <1>5, <1>6, <1>7 DEF StartIInv

\* A step of the refresh that writes no row: what it must show.
LEMMA StSteps ==
  ASSUME StartIInv, UNCHANGED <<stLine, stBad, stMap, stCmd, stRow>>, stRef.pc # "idle",
         stEsp' \in StEsps, stRef' \in StRefs, stPast' \in StPasts, stSaid' \in 0 .. MaxEdits,
         stRef'.pc # "idle",
         stRef'.pc \in {"ping", "sync5", "params", "clear", "wicklers", "go", "status", "ready", "verify"}
           => stRow.mode = 7 /\ stRef'.now.mode = 7,
         stRef'.pc \in {"ask", "wait", "monitor", "watch"} => stRef'.now.mode = 5,
         stRef'.now.miss = 3 =>
           stRef'.now.mode = 21 \/ (stRef'.pc \in {"stop", "check", "tell"} /\ stRef'.why = "fault"),
         stRef'.pc \in {"stop", "check", "tell"} /\ stRef'.why # "fault" => stRef'.now.miss # 3,
         StoppedFor', Planned'
  PROVE  StartIInv'
<1>1. stLine \in {"up", "mute", "dead"} /\ stBad \in BOOLEAN /\ StTyped
  BY DEF StartIInv, StTyped, StartTypeOK
<1>2. stRow \in StRows /\ stMap \in 0 .. MaxEdits /\ stCmd \in {0, 1, 7}
  BY <1>1, StTypes
<1>3. StTyped'
  BY <1>1, <1>2, StFrame
<1> QED
  BY <1>3 DEF StartIInv, RowWhile, MissesKnown, StAt

\* The start's own commands.
LEMMA StStarts ==
  ASSUME StartIInv, Ping \/ Sync5 \/ Params \/ ClearEsp \/ Wicklers \/ Go \/ Status \/ Verify
  PROVE  StartIInv'
<1>1. /\ stEsp \in StEsps /\ stRow \in StRows /\ stRef \in StRefs /\ stPast \in StPasts /\ StTyped
      /\ stMap \in 0 .. MaxEdits /\ stSaid \in 0 .. MaxEdits /\ stRef.now \in StRows
      /\ stRef.pc \in StPcs
  BY StTypes DEF StartIInv
<1>2. /\ UNCHANGED <<stLine, stBad, stMap, stCmd, stRow, stPast>>
      /\ stRef.pc \in {"ping", "sync5", "params", "clear", "wicklers", "go", "status", "verify"}
  BY DEF Ping, Sync5, Params, ClearEsp, Wicklers, Go, Status, Verify, StQuiet, StAt
<1>3. stRow.mode = 7 /\ stRef.now.mode = 7 /\ stRef.now.miss # 3
  BY <1>2 DEF StartIInv, RowWhile, MissesKnown
<1>4. ASSUME stRef' = StGiveUp \/ stRef' = [StGiveUp EXCEPT !.why = "verify"], stEsp' \in StEsps, stSaid' \in 0 .. MaxEdits
      PROVE  StartIInv'
  <2>1. stRef' \in StRefs /\ stRef'.pc = "stop" /\ stRef'.now = stRef.now
    BY <1>1, <1>4, StForms DEF StRefs
  <2>2. StoppedFor' /\ Planned'
    BY <2>1 DEF StoppedFor, Planned
  <2> QED
    BY <1>1, <1>2, <1>3, <1>4, <2>1, <2>2, StSteps
<1>5. ASSUME NEW pc \in {"sync5", "params", "clear", "wicklers", "go", "status", "ready", "verify"},
             stRef' \in StRefs, stRef'.pc = pc, stRef'.now = stRef.now, stEsp' \in StEsps, stSaid' \in 0 .. MaxEdits,
             Planned'
      PROVE  StartIInv'
  <2>1. StoppedFor'
    BY <1>5 DEF StoppedFor
  <2> QED
    BY <1>1, <1>2, <1>3, <1>5, <2>1, StSteps
<1>6. CASE Ping
  <2>1. CASE stRef' = StGo("sync5")
    <3>1. "sync5" \in StPcs
      BY DEF StPcs
    <3>2. Planned'
      BY <1>1, <2>1, <3>1, StForms DEF Planned
    <3> QED
      BY <1>1, <1>5, <1>6, <2>1, <3>1, <3>2, StForms DEF Ping, StQuiet
  <2>2. CASE stRef' = [stRef EXCEPT !.pc = "write", !.now.active = FALSE, !.now.paused = FALSE]
    <3> DEFINE now == [stRef.now EXCEPT !.active = FALSE, !.paused = FALSE]
    <3>1. now \in StRows /\ now.mode = stRef.now.mode /\ now.miss = stRef.now.miss
      BY <1>1 DEF StRows
    <3>2. stRef' = [stRef EXCEPT !.pc = "write", !.now = now]
      BY <1>1, <2>2 DEF StRefs
    <3> HIDE DEF now
    <3>3. stRef' \in StRefs /\ stRef'.pc = "write" /\ stRef'.now = now
      BY <1>1, <3>1, <3>2 DEF StRefs, StPcs
    <3>4. stRef.pc = "ping" /\ stEsp' = stEsp /\ stSaid' = stSaid
      BY <1>6 DEF Ping, StQuiet, StAt
    <3>5. StoppedFor' /\ Planned'
      BY <1>2, <3>3, <3>4 DEF StartIInv, StoppedFor, Planned, Runs2
    <3> QED
      BY <1>1, <1>2, <1>3, <3>1, <3>3, <3>4, <3>5, StSteps
  <2> QED
    BY <1>6, <2>1, <2>2 DEF Ping
<1>7. CASE Sync5
  <2> DEFINE esp == [stEsp EXCEPT !.state = 5]
  <2>1. esp \in StEsps /\ stEsp' = Sent(esp) /\ stSaid' = stSaid
    BY <1>1, <1>7 DEF Sync5, StQuiet, StEsps, StModes
  <2> HIDE DEF esp
  <2>2. stEsp' \in StEsps
    BY <1>1, <2>1, StSent
  <2>3. CASE stRef' = StGiveUp
    BY <1>1, <1>4, <2>1, <2>2, <2>3
  <2>4. CASE stRef' = [stRef EXCEPT !.told = stRef.how = "fresh",
                               !.pc = IF stRef.how = "fresh" THEN "params" ELSE "clear"]
    <3> DEFINE told == stRef.how = "fresh"
    <3>1. told \in BOOLEAN
      OBVIOUS
    <3>2. stRef' = [stRef EXCEPT !.told = told, !.pc = IF stRef.how = "fresh" THEN "params" ELSE "clear"]
      BY <2>4
    <3> HIDE DEF told
    <3>3. /\ stRef' \in StRefs /\ stRef'.now = stRef.now /\ stRef'.how = stRef.how
          /\ stRef'.pc = IF stRef.how = "fresh" THEN "params" ELSE "clear"
      BY <1>1, <3>1, <3>2 DEF StRefs, StPcs
    <3>4. Planned'
      BY <3>3 DEF Planned
    <3>5. stRef'.pc \in {"params", "clear"}
      BY <3>3
    <3> QED
      BY <1>1, <1>5, <2>1, <2>2, <3>3, <3>4, <3>5
  <2> QED
    BY <1>7, <2>3, <2>4 DEF Sync5
<1>8. CASE Params
  <2> DEFINE esp == [stEsp EXCEPT !.map = stRef.plan]
  <2>1. esp \in StEsps /\ esp.map = stRef.plan /\ stEsp' = Sent(esp) /\ stSaid' \in 0 .. MaxEdits
    BY <1>1, <1>8 DEF Params, ParamsForced, StEsps, StRefs
  <2> HIDE DEF esp
  <2>2. stEsp' \in StEsps /\ (Heard => stEsp'.map = stRef.plan)
    BY <1>1, <2>1, StSent
  <2>3. CASE stRef' = StGiveUp
    BY <1>1, <1>4, <2>1, <2>2, <2>3
  <2>4. CASE stRef' = StGo("clear") /\ Heard
    <3>1. "clear" \in StPcs
      BY DEF StPcs
    <3>2. stRef' \in StRefs /\ stRef'.pc = "clear" /\ stRef'.now = stRef.now /\ stRef'.plan = stRef.plan
      BY <1>1, <2>4, <3>1, StForms
    <3>3. Planned'
      BY <2>2, <2>4, <3>2 DEF Planned
    <3> QED
      BY <1>1, <1>5, <2>1, <2>2, <3>2, <3>3
  <2> QED
    BY <1>8, <2>3, <2>4 DEF Params
\* From here on the parameter stays, and so does the place among the start's commands.
<1>9. ASSUME NEW pc \in {"wicklers", "go", "status", "ready", "verify"},
             stRef.pc \in {"clear", "wicklers", "go", "status", "verify"}, stRef' = StGo(pc),
             stEsp' \in StEsps, stEsp'.map = stEsp.map, stSaid' = stSaid
      PROVE  StartIInv'
  <2>1. pc \in StPcs
    BY DEF StPcs
  <2>2. /\ stRef' \in StRefs /\ stRef'.pc = pc /\ stRef'.now = stRef.now /\ stRef'.plan = stRef.plan
        /\ stRef'.how = stRef.how
    BY <1>1, <1>9, <2>1, StForms
  <2>3. Planned'
    BY <1>2, <1>9, <2>2 DEF StartIInv, Planned
  <2> QED
    BY <1>1, <1>5, <1>9, <2>2, <2>3
<1>10. CASE ClearEsp
  <2> DEFINE esp == [stEsp EXCEPT !.run = "off"]
  <2>1. /\ esp \in StEsps /\ esp.map = stEsp.map /\ stEsp' \in {Sent(esp), stEsp} /\ stSaid' = stSaid
        /\ stRef.pc = "clear"
    BY <1>1, <1>10 DEF ClearEsp, StEsps, Runners, StQuiet, StAt
  <2> HIDE DEF esp
  <2>2. stEsp' \in StEsps /\ stEsp'.map = stEsp.map
    BY <1>1, <2>1, StSent
  <2> QED
    BY <1>1, <1>4, <1>9, <1>10, <2>1, <2>2 DEF ClearEsp
<1>11. CASE Wicklers
  BY <1>1, <1>4, <1>9, <1>11 DEF Wicklers, StQuiet, StAt
<1>12. CASE Go
  <2> DEFINE esp == Runs(stEsp)
  <2>1. esp \in StEsps /\ esp.map = stEsp.map
    BY <1>1 DEF Runs, StEsps, Runners
  <2>2. stEsp' = Sent(esp) /\ stSaid' = stSaid /\ stRef.pc = "go"
    BY <1>12 DEF Go, StQuiet, StAt
  <2> HIDE DEF esp
  <2>3. stEsp' \in StEsps /\ stEsp'.map = stEsp.map
    BY <1>1, <2>1, <2>2, StSent
  <2>4. stRef' \in {StGo("verify"), StGo("ready"), StGo("status"), StGiveUp}
    BY <1>12 DEF Go
  <2> QED
    BY <1>1, <1>4, <1>9, <2>2, <2>3, <2>4
<1>13. CASE Status
  BY <1>1, <1>4, <1>9, <1>13 DEF Status, StQuiet, StAt
<1>14. CASE Verify
  <2>1. CASE stRef' = [StGiveUp EXCEPT !.why = "verify"]
    BY <1>1, <1>4, <1>14, <2>1 DEF Verify, StQuiet
  <2>2. CASE stRef' = [stRef EXCEPT !.pc = "write", !.now = Running(stRef.now)]
    <3>1. Running(stRef.now) \in StRows /\ Running(stRef.now).mode = 5 /\ Running(stRef.now).miss = stRef.now.miss
      BY <1>1 DEF Running, StRows, StModes
    <3>2. stRef' \in StRefs /\ stRef'.pc = "write" /\ stRef'.now = Running(stRef.now)
      BY <1>1, <2>2, <3>1 DEF StRefs, StPcs
    <3>3. stEsp' = stEsp /\ stSaid' = stSaid
      BY <1>14 DEF Verify, StQuiet
    <3>4. StoppedFor' /\ Planned'
      BY <3>1, <3>2 DEF StoppedFor, Planned
    <3> QED
      BY <1>1, <1>2, <1>3, <3>1, <3>2, <3>3, <3>4, StSteps
  <2> QED
    BY <1>14, <2>1, <2>2 DEF Verify
<1> QED
  BY <1>6, <1>7, <1>8, <1>10, <1>11, <1>12, <1>13, <1>14

\* The stop, and what comes before it in a production: its result is heard or not.
LEMMA StStops ==
  ASSUME StartIInv, Stop \/ CheckStop \/ Tell
  PROVE  StartIInv'
<1>1. /\ stEsp \in StEsps /\ stRow \in StRows /\ stRef \in StRefs /\ stPast \in StPasts /\ StTyped
      /\ stSaid \in 0 .. MaxEdits /\ stRef.now \in StRows /\ stRef.pc \in StPcs /\ stRef.crit \in BOOLEAN
  BY StTypes DEF StartIInv
<1>2. /\ UNCHANGED <<stLine, stBad, stMap, stCmd, stRow, stSaid>> /\ stRef.pc \in {"stop", "check", "tell"}
      /\ stRef.now.miss = 3 => stRef.now.mode = 21 \/ stRef.why = "fault"
      /\ stRef.why # "fault" => stRef.now.miss # 3
  BY DEF Stop, CheckStop, Tell, StQuiet, StAt, StartIInv, MissesKnown
<1>3. Stopped(stEsp) \in StEsps /\ Stopped(stEsp).run = "off"
  BY <1>1 DEF Stopped, StEsps, Runners
<1>4. CASE Stop \/ CheckStop
  <2> DEFINE heard == Heard
             crit == IF StAt("stop") THEN heard ELSE stRef.crit /\ heard
             pc == IF StAt("stop") THEN "check" ELSE "tell"
  <2>1. stEsp' = Sent(Stopped(stEsp)) /\ UNCHANGED stPast /\ stRef' = [stRef EXCEPT !.pc = pc, !.crit = crit]
    BY <1>1, <1>4 DEF Stop, CheckStop, StAt
  <2>2. crit \in BOOLEAN /\ (crit => Heard) /\ pc \in {"check", "tell"} /\ pc \in StPcs
    BY <1>1 DEF Heard, StPcs
  <2> HIDE DEF crit, pc
  <2>3. stRef' \in StRefs /\ stRef'.pc = pc /\ stRef'.crit = crit /\ stRef'.now = stRef.now /\ stRef'.why = stRef.why
    BY <1>1, <2>1, <2>2 DEF StRefs
  <2>4. stEsp' \in StEsps /\ (crit => stEsp'.run = "off")
    BY <1>1, <1>3, <2>1, <2>2, StSent
  <2>5. StoppedFor' /\ Planned'
    BY <2>2, <2>3, <2>4 DEF StoppedFor, Planned, Runs2
  <2> QED
    BY <1>1, <1>2, <2>1, <2>2, <2>3, <2>4, <2>5, StSteps
<1>5. CASE Tell
  <2> DEFINE esp == [stEsp EXCEPT !.state = StopTarget]
             blind == IF stRef.why = "start" THEN ~stRef.crit ELSE stPast.blind
             now == [stRef.now EXCEPT !.mode = StopTarget, !.active = FALSE]
  <2>1. StopTarget \in {7, 21} /\ (StopTarget = 21 <=> stRef.why = "fault")
    BY DEF StopTarget
  <2>2. esp \in StEsps /\ esp.run = stEsp.run
    BY <1>1, <2>1 DEF StEsps, StModes
  <2>3. blind \in BOOLEAN /\ (stRef.why = "start" /\ ~blind => stRef.crit)
    BY <1>1 DEF StPasts
  <2>4. now \in StRows /\ now.mode = StopTarget /\ now.miss = stRef.now.miss
    BY <1>1, <2>1 DEF StRows, StModes
  <2>5. stEsp' = Sent(esp) /\ stPast' = [stPast EXCEPT !.blind = blind] /\ stRef.pc = "tell"
    BY <1>1, <1>5 DEF Tell, StAt, StPasts
  <2>6. IF stRef.why = "verify" THEN stRef' = StGiveUp ELSE stRef' = [stRef EXCEPT !.pc = "write", !.now = now]
    BY <1>1, <1>5 DEF Tell, StRefs
  <2> HIDE DEF esp, blind, now
  <2>7. stEsp' \in StEsps /\ stEsp'.run = stEsp.run
    BY <1>1, <2>2, <2>5, StSent
  <2>8. stPast' \in StPasts /\ stPast'.blind = blind
    BY <1>1, <2>3, <2>5 DEF StPasts
  <2>9. CASE stRef.why = "verify"
    <3>1. stRef' \in StRefs /\ stRef'.pc = "stop" /\ stRef'.now = stRef.now /\ stRef'.why = "start"
      BY <1>1, <2>6, <2>9, StForms
    <3>2. StoppedFor' /\ Planned'
      BY <3>1 DEF StoppedFor, Planned
    <3> QED
      BY <1>1, <1>2, <2>7, <2>8, <2>9, <3>1, <3>2, StSteps
  <2>10. CASE stRef.why # "verify"
    <3>1. stRef' \in StRefs /\ stRef'.pc = "write" /\ stRef'.now = now
      BY <1>1, <2>4, <2>6, <2>10 DEF StRefs, StPcs
    <3>2. now.mode = 7 => stRef.why = "start"
      BY <1>1, <2>1, <2>4, <2>10 DEF StRefs
    <3>3. StoppedFor' /\ Planned'
      BY <2>3, <2>5, <2>7, <2>8, <3>1, <3>2 DEF StartIInv, StoppedFor, Planned, Runs2
    <3>4. now.miss = 3 => now.mode = 21
      BY <1>2, <2>1, <2>4
    <3> QED
      BY <1>1, <1>2, <2>7, <2>8, <3>1, <3>3, <3>4, StSteps
  <2> QED
    BY <2>9, <2>10
<1> QED
  BY <1>4, <1>5

\* The pause after a print and the monitors of a production.
LEMMA StWatches ==
  ASSUME StartIInv, AskPause \/ Accepted \/ PauseTimeout \/ Monitor \/ Watch
  PROVE  StartIInv'
<1>1. /\ stEsp \in StEsps /\ stRow \in StRows /\ stRef \in StRefs /\ stPast \in StPasts /\ StTyped
      /\ stSaid \in 0 .. MaxEdits /\ stRef.now \in StRows /\ stRef.pc \in StPcs
  BY StTypes DEF StartIInv
<1>2. /\ UNCHANGED <<stLine, stBad, stMap, stCmd, stRow, stSaid, stPast>>
      /\ stRef.pc \in {"ask", "wait", "monitor", "watch"} /\ stRef.now.mode = 5
      /\ stRef.now.miss # 3
  BY DEF AskPause, Accepted, PauseTimeout, Monitor, Watch, StQuiet, StAt, StartIInv, MissesKnown, RowWhile
<1>3. ASSUME stRef' = StFault, stEsp' \in StEsps PROVE StartIInv'
  <2>1. stRef' \in StRefs /\ stRef'.pc = "stop" /\ stRef'.now = stRef.now /\ stRef'.why = "fault"
    BY <1>1, <1>3, StForms
  <2>2. StoppedFor' /\ Planned'
    BY <2>1 DEF StoppedFor, Planned
  <2> QED
    BY <1>1, <1>2, <1>3, <2>1, <2>2, StSteps
<1>4. CASE AskPause
  <2> DEFINE esp == [stEsp EXCEPT !.run = "ending"]
  <2>1. esp \in StEsps /\ stEsp' \in {stEsp, Sent(esp)}
    BY <1>1, <1>4 DEF AskPause, StEsps, Runners
  <2> HIDE DEF esp
  <2>2. stEsp' \in StEsps
    BY <1>1, <2>1, StSent
  <2>3. CASE stRef' = StGo("wait")
    <3>1. stRef' \in StRefs /\ stRef'.pc = "wait" /\ stRef'.now = stRef.now
      BY <1>1, <2>3, StForms DEF StPcs
    <3>2. StoppedFor' /\ Planned'
      BY <3>1 DEF StoppedFor, Planned
    <3> QED
      BY <1>1, <1>2, <2>2, <3>1, <3>2, StSteps
  <2> QED
    BY <1>3, <1>4, <2>2, <2>3 DEF AskPause
<1>5. CASE Accepted
  <2> DEFINE now == [stRef.now EXCEPT !.mode = 7, !.active = FALSE, !.paused = TRUE]
  <2>1. now \in StRows /\ now.mode = 7 /\ now.miss = stRef.now.miss
    BY <1>1 DEF StRows, StModes
  <2>2. stRef' = [stRef EXCEPT !.pc = "write", !.now = now] /\ stEsp' = [stEsp EXCEPT !.state = 7]
        /\ stEsp.run \in {"off", "paused"} /\ stRef.pc = "wait"
    BY <1>1, <1>5 DEF Accepted, StRefs, QuietRunner, StAt
  <2> HIDE DEF now
  <2>3. stRef' \in StRefs /\ stRef'.pc = "write" /\ stRef'.now = now
    BY <1>1, <2>1, <2>2 DEF StRefs, StPcs
  <2>4. stEsp' \in StEsps /\ stEsp'.run = stEsp.run
    BY <1>1, <2>2 DEF StEsps, StModes
  <2>5. StoppedFor' /\ Planned'
    BY <2>2, <2>3, <2>4 DEF StoppedFor, Planned, Runs2
  <2> QED
    BY <1>1, <1>2, <2>1, <2>3, <2>4, <2>5, StSteps
<1>6. CASE PauseTimeout
  BY <1>1, <1>3, <1>6 DEF PauseTimeout
<1>7. CASE Monitor
  <2>1. stRef.pc = "monitor" /\ stEsp' = stEsp /\ stRef.now.mode = 5 /\ stLine \in {"up", "mute", "dead"}
    BY <1>1, <1>2, <1>7 DEF Monitor, StAt, StQuiet, StTyped, StartTypeOK
  <2>0. 0 \in Misses /\ 0 # 3 /\ 1 \in Misses /\ stRef.now.miss + 1 \in Misses
    <3>1. stRef.now.miss \in 0 .. 3 /\ stRef.now.miss # 3
      BY <1>1, <1>2 DEF StRows, Misses
    <3> HIDE DEF Misses
    <3>2. \A m \in 0 .. 3 : m # 3 => m + 1 \in 0 .. 3
      OBVIOUS
    <3> QED
      BY <3>1, <3>2 DEF Misses
  <2> DEFINE now == Counted(stRef.now)
             quiet == [stRef.now EXCEPT !.miss = 0, !.text = "up"]
  <2>2. now \in StRows /\ now.mode = 5
    BY <1>1, <1>2, <2>0, <2>1 DEF Counted, StRows
  <2>3. quiet \in StRows /\ quiet.mode = 5 /\ quiet.miss = 0
    BY <1>1, <1>2, <2>0, <2>1 DEF StRows
  <2>4. \/ stRef' = StFault
        \/ stRef' = [stRef EXCEPT !.pc = "watch", !.now = quiet]
        \/ stRef' = [StFault EXCEPT !.now = now]
        \/ stRef' = [stRef EXCEPT !.pc = "watch", !.now = now] /\ ~TooMany(now)
    <3>1. [StFault EXCEPT !.now = Counted(@)] = [StFault EXCEPT !.now = now]
      BY <1>1 DEF StFault, StRefs
    <3>2. [stRef EXCEPT !.pc = "watch", !.now.miss = 0, !.now.text = "up"] = [stRef EXCEPT !.pc = "watch", !.now = quiet]
      BY <1>1 DEF StRefs
    <3>3. [stRef EXCEPT !.pc = "watch", !.now = Counted(@)] = [stRef EXCEPT !.pc = "watch", !.now = now]
      BY <1>1 DEF StRefs
    <3> QED
      BY <1>7, <3>1, <3>2, <3>3 DEF Monitor
  <2>5. ~TooMany(now) => now.miss # 3
    BY DEF TooMany
  <2> HIDE DEF now, quiet
  <2>6. ASSUME NEW row \in {now, quiet}, stRef' = [stRef EXCEPT !.pc = "watch", !.now = row], row.miss # 3
        PROVE  StartIInv'
    <3>1. row \in StRows /\ row.mode = 5
      BY <2>2, <2>3
    <3>2. stRef' \in StRefs /\ stRef'.pc = "watch" /\ stRef'.now = row
      BY <1>1, <2>6, <3>1 DEF StRefs, StPcs
    <3>3. StoppedFor' /\ Planned'
      BY <3>2 DEF StoppedFor, Planned
    <3> QED
      BY <1>1, <1>2, <2>1, <2>6, <3>1, <3>2, <3>3, StSteps
  <2>7. CASE stRef' = [StFault EXCEPT !.now = now]
    <3>1. stRef' \in StRefs /\ stRef'.pc = "stop" /\ stRef'.now = now /\ stRef'.why = "fault"
      BY <1>1, <2>2, <2>7, StForms DEF StRefs
    <3>2. StoppedFor' /\ Planned'
      BY <3>1 DEF StoppedFor, Planned
    <3> QED
      BY <1>1, <1>2, <2>1, <3>1, <3>2, StSteps
  <2> QED
    BY <1>1, <1>3, <2>1, <2>3, <2>4, <2>5, <2>6, <2>7
<1>8. CASE Watch
  <2>1. stEsp' = stEsp /\ stRef.pc = "watch" /\ stRef.now.mode = 5
    BY <1>8 DEF Watch, StQuiet, StAt, StartIInv, RowWhile
  <2>2. CASE stRef' = StGo("write")
    <3>1. stRef' \in StRefs /\ stRef'.pc = "write" /\ stRef'.now = stRef.now
      BY <1>1, <2>2, StForms DEF StPcs
    <3>2. StoppedFor' /\ Planned'
      BY <2>1, <3>1 DEF StoppedFor, Planned
    <3> QED
      BY <1>1, <1>2, <2>1, <3>1, <3>2, StSteps
  <2> QED
    BY <1>1, <1>3, <1>8, <2>1, <2>2 DEF Watch
<1> QED
  BY <1>4, <1>5, <1>6, <1>7, <1>8

\* The two writers of the row: the fast commit of a resume, and the refresh's end.
LEMMA StRowWritten ==
  ASSUME StartIInv, Ready \/ StWrite
  PROVE  StartIInv'
<1>1. /\ stEsp \in StEsps /\ stRow \in StRows /\ stRef \in StRefs /\ stPast \in StPasts /\ StTyped
      /\ stMap \in 0 .. MaxEdits /\ stSaid \in 0 .. MaxEdits /\ stCmd \in {0, 1, 7}
      /\ stRef.now \in StRows /\ stRef.pc \in StPcs
  BY StTypes DEF StartIInv
<1>2. stLine \in {"up", "mute", "dead"} /\ stBad \in BOOLEAN
  BY <1>1 DEF StTyped, StartTypeOK
<1>3. UNCHANGED <<stLine, stBad, stMap, stSaid, stCmd>>
  BY DEF Ready, StWrite
<1>4. \A row \in StRows : Running(row) \in StRows /\ Running(row).mode = 5 /\ Running(row).miss = row.miss
  BY DEF Running, StRows, StModes
<1>5. CASE Ready
  <2>1. /\ stRef.pc = "ready" /\ UNCHANGED <<stEsp, stPast>>
        /\ stRow.mode = 7 /\ stRef.now.mode = 7 /\ stRow.miss # 3 /\ stRef.now.miss # 3
    BY <1>5 DEF Ready, StAt, StartIInv, RowWhile, MissesKnown
  <2>2. CASE stRow' = stRow /\ stRef' = StGiveUp
    <3>1. stRef' \in StRefs /\ stRef'.pc = "stop" /\ stRef'.now = stRef.now
      BY <1>1, <2>2, StForms
    <3>2. StoppedFor' /\ Planned'
      BY <3>1 DEF StoppedFor, Planned
    <3> QED
      BY <1>1, <1>3, <2>1, <2>2, <3>1, <3>2, StSteps
  <2>3. CASE /\ stRow' = Running(stRow)
             /\ stRef' = [stRef EXCEPT !.pc = "write", !.now = Running(stRef.now), !.told = TRUE]
    <3>1. stRef' \in StRefs /\ stRef'.pc = "write" /\ stRef'.now = Running(stRef.now)
      BY <1>1, <1>4, <2>3 DEF StRefs, StPcs
    <3>2. StTyped'
      BY <1>1, <1>2, <1>3, <1>4, <2>1, <2>3, <3>1, StFrame
    <3>3. RowWhile' /\ MissesKnown' /\ StoppedFor' /\ Planned'
      BY <1>1, <1>4, <2>1, <2>3, <3>1 DEF RowWhile, MissesKnown, StoppedFor, Planned, StAt
    <3> QED
      BY <3>2, <3>3 DEF StartIInv
  <2> QED
    BY <1>5, <2>2, <2>3 DEF Ready
<1>6. CASE StWrite
  <2> DEFINE now == stRef.now
             say == ~stRef.told /\ SyncNeeded(now)
             known == stRef.told \/ (say /\ Heard)
             esp == [stEsp EXCEPT !.state = now.mode]
             row == [now EXCEPT !.sync = IF known THEN now.mode ELSE @]
  <2>1. /\ stEsp' \in {stEsp, Sent(esp)} /\ stRow' = row /\ stRef' = StRest(row)
        /\ stPast' = [stPast EXCEPT !.shaken = FALSE] /\ stRef.pc = "write"
    BY <1>6 DEF StWrite, StAt
  <2>2. esp \in StEsps /\ esp.run = stEsp.run
    BY <1>1 DEF StEsps, StRows
  <2>3. row \in StRows /\ row.mode = now.mode /\ row.miss = now.miss
    BY <1>1 DEF StRows
  <2> HIDE DEF esp, row
  <2>4. stEsp' \in StEsps /\ stEsp'.run = stEsp.run
    BY <1>1, <2>1, <2>2, StSent
  <2>5. stRef' \in StRefs /\ stRef'.pc = "idle" /\ stRef'.now = row
    BY <2>1, <2>3, StartAssumption DEF StRest, StRefs, StPcs
  <2>6. stPast' \in StPasts /\ stPast'.blind = stPast.blind
    BY <1>1, <2>1 DEF StPasts
  <2>7. StTyped'
    BY <1>1, <1>2, <1>3, <2>1, <2>3, <2>4, <2>5, <2>6, StFrame
  <2>8. StoppedFor' /\ Planned'
    BY <2>1, <2>3, <2>4, <2>5, <2>6 DEF StartIInv, StoppedFor, Planned, Runs2
  <2>9. RowWhile' /\ MissesKnown'
    BY <2>1, <2>3, <2>5 DEF StartIInv, RowWhile, MissesKnown, StAt
  <2> QED
    BY <2>7, <2>8, <2>9 DEF StartIInv
<1> QED
  BY <1>5, <1>6

\* Whatever answers get lost on the line, a machine that pauses between two refreshes has no
\* running runner unless a failed start's stop went unconfirmed (machine_runtime.py:1772), a
\* fresh start runs with the parameters it read (machine_runtime.py:5816), and a production
\* counts to three missed answers and no further.
THEOREM StartCorrect == StartSpec => []StartInv
<1>1. StartIInv /\ [StartNext]_stVars => StartIInv'
  <2> SUFFICES ASSUME StartIInv, [StartNext]_stVars PROVE StartIInv'
    OBVIOUS
  <2>1. CASE UNCHANGED stVars
    BY <2>1 DEF stVars, StartIInv, StTyped, StartTypeOK, StPasts, StRefs, StRows, StPcs, StModes, Misses, Runners,
                RowWhile, MissesKnown, StoppedFor, Planned, Runs2, StAt
  <2>2. CASE StartNext
    <3>1. \A due \in BOOLEAN : RefreshStep(due) => StartIInv'
      BY StBegins, StStarts, StStops, StWatches, StRowWritten DEF RefreshStep
    <3>2. (\E c \in {1, 7} : Want(c)) \/ (\E to \in {"up", "mute", "dead"} : LineChanges(to))
          \/ EditMap \/ EspBoots \/ RunnerFaults \/ RunnerEnds \/ WicklerSlips => StartIInv'
      BY StAround
    <3> QED
      BY <2>2, <3>1, <3>2, StWatches DEF StartNext
  <2> QED
    BY <2>1, <2>2
<1>2. StartIInv => StartInv
  <2> SUFFICES ASSUME StartIInv PROVE StartInv
    OBVIOUS
  <2>1. StartTypeOK
    BY DEF StartIInv, StTyped
  <2>2. NoSecretRun
    BY DEF StartIInv, StoppedFor, NoSecretRun, Runs2, StAt
  <2>3. RunsAsPlanned
    BY DEF StartIInv, Planned, RunsAsPlanned
  <2> QED
    BY <2>1, <2>2, <2>3 DEF StartInv
<1> QED
  BY StartStarts, <1>1, <1>2, PTL DEF StartSpec

-----------------------------------------------------------------------------
(* The connection to the ESP.                                              *)

BrCalls == {"new", "wait", "answered", "failed", "checking", "closing", "gone"}
BrPlaces == {"idle", "taken", "try", "socket", "connect", "send", "read"}

\* A line that is on its way answers the request in the broker's hands.
OneLine == brLines = IF brAt = "read" /\ brSock THEN <<brCurrent>> ELSE <<>>

\* An attempt has begun that was still allowed.
TryAllowed == brAt \in {"socket", "connect", "send", "read"} => brTries < MaxTries

\* A request in the queue has been submitted; the broker's own is waited for until its
\* deadline, unless it has been taken and thrown away.
CallsKnown ==
  /\ \A i \in DOMAIN brQueue : brCall[brQueue[i]] # "new"
  /\ brAt # "idle" =>
       brCurrent \in BrokerCalls /\ (brCurrent \notin brExpired => brCall[brCurrent] = "wait")

BrokerIInv == BrokerInv /\ OneLine /\ TryAllowed /\ CallsKnown

\* The callers' and the queue's part of the invariant, and the connection's.
BrCallsOK ==
  /\ brCall \in [BrokerCalls -> BrCalls] /\ brAnswer \in [BrokerCalls -> BrokerCalls \cup {NoCall}]
  /\ brExpired \subseteq BrokerCalls
  /\ brQueue \in Seq(BrokerCalls) /\ Len(brQueue) <= BrokerQueue
  /\ AnswerIsOwn /\ CallsKnown

BrLinkOK ==
  /\ brAt \in BrPlaces /\ brCurrent \in BrokerCalls \cup {NoCall} /\ brActive \in BOOLEAN
  /\ brTries \in 0 .. MaxTries /\ brSock \in BOOLEAN /\ brPersistent \in BOOLEAN /\ brBare \in BOOLEAN
  /\ brLock \in {"free", "broker", "other"}
  /\ OneLine /\ TryAllowed /\ SocketUnderLock

LEMMA BrParts == BrokerIInv <=> BrCallsOK /\ BrLinkOK
<1>1. ASSUME BrLinkOK PROVE brLines \in Seq(BrokerCalls) \/ ~CallsKnown
  <2>1. CASE brAt = "read" /\ brSock
    BY <1>1, <2>1 DEF BrLinkOK, OneLine, CallsKnown
  <2>2. CASE ~(brAt = "read" /\ brSock)
    BY <1>1, <2>2 DEF BrLinkOK, OneLine
  <2> QED
    BY <2>1, <2>2
<1> QED
  BY <1>1 DEF BrokerIInv, BrokerInv, BrokerTypeOK, BrCallsOK, BrLinkOK, BrCalls, BrPlaces

LEMMA BrNumbers == MaxTries \in Nat /\ 0 < MaxTries /\ 0 \in 0 .. MaxTries
<1>1. MaxTries \in Nat \ {0}
  BY BrokerAssumption
<1> QED
  BY <1>1

LEMMA BrokerStarts == BrokerInit => BrokerIInv
<1> SUFFICES ASSUME BrokerInit PROVE BrCallsOK /\ BrLinkOK
  BY BrParts
<1>1. BrCallsOK
  BY BrokerAssumption DEF BrokerInit, BrCallsOK, BrCalls, AnswerIsOwn, CallsKnown
<1>2. BrLinkOK
  BY BrNumbers DEF BrokerInit, BrLinkOK, BrPlaces, OneLine, TryAllowed, SocketUnderLock
<1> QED
  BY <1>1, <1>2

\* Callers: one of them goes on by itself.
LEMMA BrCallMoves ==
  ASSUME BrCallsOK, NEW c \in BrokerCalls, NEW to \in BrCalls \ {"new"},
         brCall[c] # "wait" \/ c \in brExpired,
         brCall' = [brCall EXCEPT ![c] = to], UNCHANGED <<brAnswer, brExpired, brQueue, brAt, brCurrent>>
  PROVE  BrCallsOK'
BY DEF BrCallsOK, AnswerIsOwn, CallsKnown

\* The connection is closed, the lock given back.
LEMMA BrCloses ==
  ASSUME BrLinkOK, CloseSocket, UNCHANGED brPersistent,
         brAt' \in BrPlaces, brCurrent' \in BrokerCalls \cup {NoCall}, brActive' \in BOOLEAN,
         brTries' \in 0 .. MaxTries, TryAllowed'
  PROVE  BrLinkOK'
BY DEF BrLinkOK, CloseSocket, ClosedSocket, OneLine, SocketUnderLock

\* The connection stays as it is, while the broker is not at reading.
LEMMA BrLinkStays ==
  ASSUME BrLinkOK, UNCHANGED <<brLink, brPersistent>>, brAt # "read", brAt' # "read",
         brAt' \in BrPlaces, brCurrent' \in BrokerCalls \cup {NoCall}, brActive' \in BOOLEAN,
         brTries' \in 0 .. MaxTries, TryAllowed'
  PROVE  BrLinkOK'
BY DEF BrLinkOK, brLink, OneLine, SocketUnderLock

LEMMA BrThreadStays ==
  ASSUME BrLinkOK, UNCHANGED <<brThread, brLink, brPersistent>>
  PROVE  BrLinkOK'
BY DEF BrLinkOK, brThread, brLink, OneLine, TryAllowed, SocketUnderLock

LEMMA BrCallers ==
  ASSUME BrCallsOK, BrLinkOK, NEW c \in BrokerCalls, SubmitCall(c) \/ PassDeadline(c) \/ CallerStep(c)
  PROVE  BrCallsOK' /\ BrLinkOK'
<1>1. CASE SubmitCall(c)
  <2>1. BrLinkOK'
    BY <1>1, BrThreadStays DEF SubmitCall
  <2>2. brCall[c] = "new" /\ UNCHANGED <<brAnswer, brExpired, brAt, brCurrent>>
    BY <1>1 DEF SubmitCall, brThread
  <2>3. CASE brCall' = [brCall EXCEPT ![c] = "gone"] /\ brQueue' = brQueue
    BY <2>1, <2>2, <2>3, BrCallMoves DEF BrCalls
  <2>4. CASE brCall' = [brCall EXCEPT ![c] = "wait"] /\ brQueue' = Append(brQueue, c) /\ QueueTakes
    <3>1. brQueue' \in Seq(BrokerCalls) /\ Len(brQueue') <= BrokerQueue
      BY <2>4, BrokerAssumption DEF BrCallsOK, QueueTakes
    <3>2. \A i \in DOMAIN brQueue' : brQueue'[i] = c \/ (i \in DOMAIN brQueue /\ brQueue'[i] = brQueue[i])
      BY <2>4 DEF BrCallsOK
    <3>3. \A d \in BrokerCalls : brCall'[d] = IF d = c THEN "wait" ELSE brCall[d]
      BY <2>4 DEF BrCallsOK
    <3>4. \A i \in DOMAIN brQueue : brQueue[i] \in BrokerCalls
      BY DEF BrCallsOK
    <3>5. CallsKnown'
      BY <2>2, <3>2, <3>3, <3>4 DEF BrCallsOK, CallsKnown
    <3> QED
      BY <2>1, <2>2, <2>4, <3>1, <3>5 DEF BrCallsOK, BrCalls, AnswerIsOwn
  <2> QED
    BY <1>1, <2>3, <2>4 DEF SubmitCall
<1>2. CASE PassDeadline(c)
  BY <1>2, BrThreadStays DEF PassDeadline, BrCallsOK, CallsKnown, AnswerIsOwn, brThread
<1>3. CASE GiveUp(c) \/ CheckActive(c) \/ ReturnCall(c)
  <2>1. PICK to \in {"checking", "closing", "gone"} : brCall' = [brCall EXCEPT ![c] = to]
    BY <1>3 DEF GiveUp, CheckActive, ReturnCall
  <2>2. UNCHANGED <<brAnswer, brExpired, brQueue, brThread, brLink, brPersistent>>
    BY <1>3 DEF GiveUp, CheckActive, ReturnCall
  <2>3. brCall[c] # "wait" \/ c \in brExpired
    BY <1>3 DEF GiveUp, CheckActive, ReturnCall
  <2>4. to \in BrCalls \ {"new"}
    BY DEF BrCalls
  <2>5. UNCHANGED <<brAnswer, brExpired, brQueue, brAt, brCurrent>>
    BY <2>2 DEF brThread
  <2> QED
    BY <2>1, <2>2, <2>3, <2>4, <2>5, BrCallMoves, BrThreadStays
<1>4. CASE CallerCloses(c)
  <2>1. /\ brCall[c] = "closing" /\ brCall' = [brCall EXCEPT ![c] = "gone"] /\ CloseSocket
        /\ UNCHANGED <<brAnswer, brExpired, brQueue, brAt, brCurrent, brActive, brTries, brPersistent>>
    BY <1>4 DEF CallerCloses, brThread
  <2>2. "gone" \in BrCalls \ {"new"}
    BY DEF BrCalls
  <2>3. TryAllowed'
    BY <2>1 DEF BrLinkOK, TryAllowed
  <2> QED
    BY <2>1, <2>2, <2>3, BrCallMoves, BrCloses DEF BrLinkOK
<1> QED
  BY <1>1, <1>2, <1>3, <1>4 DEF CallerStep

\* A call that ends, and the broker that turns to the next one.
LEMMA BrFree ==
  ASSUME BrLinkOK, BrokerFree
  PROVE  /\ brAt' = "idle" /\ brAt' \in BrPlaces /\ brCurrent' \in BrokerCalls \cup {NoCall}
         /\ brActive' \in BOOLEAN /\ brTries' \in 0 .. MaxTries /\ TryAllowed'
BY BrNumbers DEF BrokerFree, BrPlaces, TryAllowed

LEMMA BrCallEnds ==
  ASSUME BrCallsOK, brAt # "idle", NEW to \in {"answered", "failed"},
         brCall' \in {brCall, [brCall EXCEPT ![brCurrent] = to]}, BrokerFree,
         UNCHANGED <<brExpired, brQueue>>,
         brAnswer' \in {brAnswer, [brAnswer EXCEPT ![brCurrent] = brCurrent]}
  PROVE  BrCallsOK'
<1>1. brCurrent \in BrokerCalls /\ brAt' = "idle" /\ to \in BrCalls /\ to # "new"
  BY DEF BrCallsOK, CallsKnown, BrokerFree, BrCalls
<1>2. \A i \in DOMAIN brQueue : brQueue[i] \in BrokerCalls
  BY DEF BrCallsOK
<1>3. brCall' \in [BrokerCalls -> BrCalls] /\ \A d \in BrokerCalls : brCall[d] # "new" => brCall'[d] # "new"
  BY <1>1 DEF BrCallsOK
<1>4. brAnswer' \in [BrokerCalls -> BrokerCalls \cup {NoCall}] /\ AnswerIsOwn'
  BY <1>1 DEF BrCallsOK, AnswerIsOwn
<1> QED
  BY <1>1, <1>2, <1>3, <1>4 DEF BrCallsOK, CallsKnown

\* The broker goes to another place with the same request.
LEMMA BrCallStays ==
  ASSUME BrCallsOK, UNCHANGED <<brCallers, brQueue, brCurrent>>, brAt # "idle"
  PROVE  BrCallsOK'
BY DEF BrCallsOK, brCallers, CallsKnown, AnswerIsOwn

LEMMA BrTakes == ASSUME BrCallsOK, BrLinkOK, TakeCall PROVE BrCallsOK' /\ BrLinkOK'
<1>1. PICK i \in DOMAIN brQueue :
        /\ brQueue' = RemoveAt(brQueue, i)
        /\ IF StillWanted(brQueue[i])
           THEN brAt' = "taken" /\ brCurrent' = brQueue[i] /\ UNCHANGED <<brActive, brTries>>
           ELSE UNCHANGED brThread
  BY DEF TakeCall
<1>2. brAt = "idle" /\ UNCHANGED <<brCall, brAnswer, brExpired, brLink, brPersistent>>
  BY DEF TakeCall, brCallers
<1>3. /\ brQueue' \in Seq(BrokerCalls) /\ Len(brQueue') <= BrokerQueue
      /\ \A j \in DOMAIN brQueue' : \E k \in DOMAIN brQueue : brQueue'[j] = brQueue[k]
  <2>1. /\ brQueue \in Seq(BrokerCalls) /\ i \in 1 .. Len(brQueue)
        /\ Len(brQueue) \in Nat /\ Len(brQueue) <= BrokerQueue /\ BrokerQueue \in Nat
    BY BrokerAssumption DEF BrCallsOK
  <2>2. /\ brQueue' \in Seq(BrokerCalls) /\ Len(brQueue') = Len(brQueue) - 1
        /\ \A j \in DOMAIN brQueue' : \E k \in DOMAIN brQueue : brQueue'[j] = brQueue[k]
    BY <1>1, <2>1, RemoveAtKeeps
  <2> QED
    BY <2>1, <2>2
<1>4. brQueue[i] \in BrokerCalls /\ brCall[brQueue[i]] \in BrCalls /\ brCall[brQueue[i]] # "new"
  BY DEF BrCallsOK, CallsKnown
<1>5. StillWanted(brQueue[i]) => brCall[brQueue[i]] = "wait"
  BY <1>4 DEF StillWanted, EventSet, BrCalls
<1>6. /\ brAt' \in {"taken", "idle"} /\ brCurrent' \in BrokerCalls \cup {NoCall} /\ UNCHANGED <<brActive, brTries>>
      /\ brAt' = "taken" => brCurrent' \in BrokerCalls /\ brCall[brCurrent'] = "wait"
  BY <1>1, <1>2, <1>4, <1>5 DEF brThread, BrLinkOK
<1>7. BrCallsOK'
  BY <1>2, <1>3, <1>6 DEF BrCallsOK, CallsKnown, AnswerIsOwn
<1>8. BrLinkOK'
  <2>1. TryAllowed' /\ brAt' \in BrPlaces /\ brTries' \in 0 .. MaxTries /\ brActive' \in BOOLEAN
    BY <1>6 DEF TryAllowed, BrPlaces, BrLinkOK
  <2> QED
    BY <1>2, <1>6, <2>1, BrLinkStays
<1> QED
  BY <1>7, <1>8

LEMMA BrThread ==
  ASSUME BrCallsOK, BrLinkOK, BrokerStep \/ KeepAliveFails \/ OtherTakes \/ OtherGives
  PROVE  BrCallsOK' /\ BrLinkOK'
<1>1. CASE TakeCall
  BY <1>1, BrTakes
\* The broker gives a request back, failed.
<1>2. ASSUME CallFailed(brCurrent), BrokerFree, brAt \in {"taken", "try"},
             UNCHANGED <<brAnswer, brExpired, brQueue, brLink, brPersistent>>
      PROVE  BrCallsOK' /\ BrLinkOK'
  <2>1. brCall' \in {brCall, [brCall EXCEPT ![brCurrent] = "failed"]}
    BY <1>2 DEF CallFailed
  <2> QED
    BY <1>2, <2>1, BrFree, BrCallEnds, BrLinkStays
\* It goes to another place without a line under way.
<1>3. ASSUME NEW at \in BrPlaces \ {"read"}, brAt' = at, brAt \notin {"idle", "read"},
             UNCHANGED <<brCallers, brQueue, brCurrent, brTries, brLink, brPersistent>>,
             brActive' \in BOOLEAN, at \notin {"taken", "try"} => brTries < MaxTries
      PROVE  BrCallsOK' /\ BrLinkOK'
  <2>1. TryAllowed' /\ brTries' \in 0 .. MaxTries /\ brCurrent' \in BrokerCalls \cup {NoCall}
    BY <1>3 DEF TryAllowed, BrLinkOK
  <2> QED
    BY <1>3, <2>1, BrCallStays, BrLinkStays
<1>4. CASE ArmCall
  BY <1>2, <1>3, <1>4 DEF ArmCall, brCallers, BrPlaces
<1>5. CASE BeginTry
  <2>1. CASE TimeLeft /\ brTries < MaxTries
    <3>1. PICK at \in {"send", "socket"} : brAt' = at
      BY <1>5, <2>1 DEF BeginTry
    <3>2. at \in BrPlaces \ {"read"}
      BY DEF BrPlaces
    <3> QED
      BY <1>3, <1>5, <2>1, <3>1, <3>2 DEF BeginTry, brCallers, BrLinkOK
  <2>2. CASE ~(TimeLeft /\ brTries < MaxTries)
    BY <1>2, <1>5, <2>2 DEF BeginTry
  <2> QED
    BY <2>1, <2>2
<1>6. CASE TakeLock
  <2>1. BrCallsOK'
    BY <1>6, BrCallStays DEF TakeLock
  <2>2. BrLinkOK'
    BY <1>6 DEF TakeLock, BrLinkOK, BrPlaces, OneLine, TryAllowed, SocketUnderLock
  <2> QED
    BY <2>1, <2>2
<1>7. CASE Connect
  <2>1. BrCallsOK'
    BY <1>7, BrCallStays DEF Connect
  <2> DEFINE bare == brLock # "broker"
  <2>2. bare \in BOOLEAN /\ brBare' = bare
    BY <1>7 DEF Connect
  <2>3. SocketUnderLock'
    BY <1>7, <2>2 DEF Connect, SocketUnderLock
  <2> HIDE DEF bare
  <2>4. BrLinkOK'
    BY <1>7, <2>2, <2>3 DEF Connect, BrLinkOK, BrPlaces, OneLine, TryAllowed
  <2> QED
    BY <2>1, <2>4
<1>8. CASE SendLine
  <2>1. BrCallsOK'
    BY <1>8, BrCallStays DEF SendLine
  <2>2. brLines' = <<brCurrent>>
    BY <1>8 DEF SendLine, BrLinkOK, OneLine
  <2>3. BrLinkOK'
    BY <1>8, <2>2 DEF SendLine, BrLinkOK, BrPlaces, OneLine, TryAllowed, SocketUnderLock
  <2> QED
    BY <2>1, <2>3
<1>9. CASE ReadLine
  <2>1. brAt = "read" /\ brSock /\ brLines = <<brCurrent>> /\ BrokerFree /\ UNCHANGED <<brExpired, brQueue, brPersistent>>
    BY <1>9 DEF ReadLine, BrLinkOK, OneLine
  <2>2. Head(brLines) = brCurrent /\ Tail(brLines) = <<>>
    BY <2>1
  <2>3. /\ brCall' \in {brCall, [brCall EXCEPT ![brCurrent] = "answered"]}
        /\ brAnswer' \in {brAnswer, [brAnswer EXCEPT ![brCurrent] = brCurrent]}
    BY <1>9, <2>2 DEF ReadLine
  <2>4. BrCallsOK'
    BY <2>1, <2>3, BrCallEnds
  <2>7. /\ brAt' = "idle" /\ brAt' \in BrPlaces /\ brCurrent' \in BrokerCalls \cup {NoCall}
        /\ brActive' \in BOOLEAN /\ brTries' \in 0 .. MaxTries /\ TryAllowed'
    BY <2>1, BrFree
  <2>5. CASE brLines' = Tail(brLines) /\ UNCHANGED <<brSock, brLock, brBare>>
    <3>1. OneLine' /\ SocketUnderLock'
      BY <2>2, <2>5, <2>7 DEF BrLinkOK, OneLine, SocketUnderLock
    <3> QED
      BY <2>1, <2>4, <2>5, <2>7, <3>1 DEF BrLinkOK
  <2>6. CASE CloseSocket
    BY <2>1, <2>4, <2>6, <2>7, BrCloses
  <2> QED
    BY <1>9, <2>4, <2>5, <2>6 DEF ReadLine
\* A failure: the next try, if one is left.
<1>10. ASSUME brAt \in {"socket", "connect", "send", "read"}, brAt' = "try", brTries' \in {brTries, brTries + 1},
              CloseSocket, UNCHANGED <<brCallers, brQueue, brCurrent, brActive, brPersistent>>
       PROVE  BrCallsOK' /\ BrLinkOK'
  <2>1. brTries' \in 0 .. MaxTries
    BY <1>10, BrokerAssumption DEF BrLinkOK, TryAllowed
  <2>2. TryAllowed' /\ brAt' \in BrPlaces /\ brActive' \in BOOLEAN /\ brCurrent' \in BrokerCalls \cup {NoCall}
    BY <1>10 DEF TryAllowed, BrPlaces, BrLinkOK
  <2> QED
    BY <1>10, <2>1, <2>2, BrCloses, BrCallStays
<1>11. CASE ExchangeFails
  BY <1>10, <1>11 DEF ExchangeFails, AfterFailure
<1>12. CASE \E refused \in BOOLEAN : ConnectFails(refused)
  BY <1>10, <1>12 DEF ConnectFails, AfterFailure
<1>13. CASE KeepAliveFails
  <2>1. /\ brAt = "idle" /\ CloseSocket /\ UNCHANGED <<brCallers, brQueue, brAt, brCurrent, brActive, brTries, brPersistent>>
    BY <1>13 DEF KeepAliveFails, brThread
  <2>2. TryAllowed'
    BY <2>1 DEF TryAllowed
  <2> QED
    BY <2>1, <2>2, BrCloses DEF BrLinkOK, BrCallsOK, CallsKnown, AnswerIsOwn, brCallers
<1>14. CASE OtherTakes \/ OtherGives
  <2>1. BrCallsOK'
    BY <1>14 DEF OtherTakes, OtherGives, BrCallsOK, CallsKnown, AnswerIsOwn, brCallers, brThread
  <2>2. BrLinkOK'
    BY <1>14 DEF OtherTakes, OtherGives, BrLinkOK, OneLine, TryAllowed, SocketUnderLock, brThread
  <2> QED
    BY <2>1, <2>2
<1> QED
  BY <1>1, <1>4, <1>5, <1>6, <1>7, <1>8, <1>9, <1>11, <1>12, <1>13, <1>14 DEF BrokerStep

LEMMA BrokerSteps == BrokerIInv /\ [BrokerNext]_brVars => BrokerIInv'
<1> SUFFICES ASSUME BrokerIInv, [BrokerNext]_brVars PROVE BrCallsOK' /\ BrLinkOK'
  <2>1. BrokerIInv' <=> BrCallsOK' /\ BrLinkOK'
    BY BrParts, PTL
  <2> QED
    BY <2>1
<1>1. BrCallsOK /\ BrLinkOK
  BY BrParts
<1>2. CASE UNCHANGED brVars
  BY <1>1, <1>2 DEF brVars, BrCallsOK, CallsKnown, AnswerIsOwn, BrLinkOK, OneLine, TryAllowed, SocketUnderLock
<1>3. CASE BrokerNext
  BY <1>1, <1>3, BrCallers, BrThread DEF BrokerNext
<1> QED
  BY <1>2, <1>3

\* Whatever attempts fail, whoever closes and however late the ESP answers
\* (device_clients.py:473, _execute_with_retries), a caller never gets a line that answers
\* another command, and an open connection is the holder's of the file lock, unless a
\* caller gave up while the broker was connecting.
THEOREM BrokerCorrect == BrokerSpec => []BrokerInv
<1>1. BrokerIInv => BrokerInv
  BY DEF BrokerIInv
<1> QED
  BY BrokerStarts, BrokerSteps, <1>1, PTL DEF BrokerSpec

\* However many calls came before it and whenever its caller ran out of time, an attempt
\* begins only for a call that is still waited for (device_clients.py:446 and :478).
THEOREM OnlyWantedAttempts == BrokerSpec => AttemptsWanted
<1>1. ASSUME BrokerIInv, [BrokerNext]_brVars
      PROVE  [brAt = "try" /\ brAt' # "try" /\ brAt' # "idle" => brCall[brCurrent] = "wait"]_brVars
  <2> SUFFICES ASSUME brAt = "try", brAt' # "try", brAt' # "idle" PROVE brCall[brCurrent] = "wait"
    OBVIOUS
  <2>1. BeginTry \/ brAt' = brAt
    BY <1>1 DEF BrokerNext, BrokerStep, TakeCall, ArmCall, TakeLock, Connect, SendLine, ReadLine, ExchangeFails,
       ConnectFails, KeepAliveFails, OtherTakes, OtherGives, SubmitCall, PassDeadline, CallerStep, GiveUp,
       CheckActive, CallerCloses, ReturnCall, brThread, brVars
  <2>2. TimeLeft
    BY <2>1 DEF BeginTry, BrokerFree
  <2> QED
    BY <1>1, <2>2 DEF TimeLeft, BrokerIInv, CallsKnown
<1> QED
  BY BrokerStarts, BrokerSteps, <1>1, PTL DEF BrokerSpec, AttemptsWanted

-----------------------------------------------------------------------------
(* A setting.                                                              *)

SePcs == {"rest", "device", "verify", "store", "mirror", "send", "memory"}
SeWorks == [pc : SePcs, val : 0 .. 1, tries : 0 .. 2, op : {"write", "read"}]
SeOk == ~(seLost \/ seMoved \/ seCrossed)
SePending(t) == seAt[t].pc \in {"verify", "store"}

SeTyped ==
  /\ SettingsTypeOK /\ seAt \in [Writers -> SeWorks] /\ seRoute \in {"esp", "printer", "laser", "raspi"}
  /\ seBehind \in BOOLEAN /\ seLost \in BOOLEAN /\ seMoved \in BOOLEAN /\ seCrossed \in BOOLEAN
  /\ seRoute = "raspi" => \A t \in Writers : seAt[t].pc \notin {"device", "verify"}

\* A call that has stored its value has the one of the row.
SeStored == SeOk => \A t \in Writers : seAt[t].pc \in {"mirror", "send", "memory"} => seAt[t].val = seRow

\* What the device has and the row has not is in the hands of a call that will store it,
\* and so it is with every other value that waits to be stored.
SeDirect ==
  SeOk /\ seRoute # "raspi" =>
    /\ seRow = seDev \/ \E t \in Writers : SePending(t) /\ seAt[t].val = seDev
    /\ \A t \in Writers : seAt[t].pc = "store" =>
         seAt[t].val = seDev \/ \E o \in Writers : SePending(o) /\ seAt[o].val = seDev

\* The memory is true or about to be set, and a row that the ESP has not is on its way.
SeMirrored ==
  SeOk /\ seRoute = "raspi" =>
    /\ \A t \in Writers : seAt[t].pc = "memory" => seAt[t].val = seDev
    /\ seMir \in {2, seDev} \/ \E t \in Writers : seAt[t].pc = "memory"
    /\ seBehind \/ seRow = seDev \/ \E t \in Writers : seAt[t].pc \in {"mirror", "send"}

SettingsIInv == SeTyped /\ SeStored /\ SeDirect /\ SeMirrored

LEMMA SeTypes ==
  ASSUME SeTyped, NEW t \in Writers
  PROVE  /\ seAt[t] \in SeWorks /\ seAt[t].pc \in SePcs /\ seAt[t].val \in 0 .. 1
         /\ seWish \in 0 .. 1 /\ seDev \in 0 .. 1 /\ seRow \in 0 .. 1 /\ seMir \in 0 .. 2
         /\ seAt[t].pc # "rest" => seAt[t].tries \in 1 .. 2
BY DEF SeTyped, SettingsTypeOK, SeWorks, SePcs

\* What the thread t does leaves the other one alone.
SeMoves(t, w) ==
  /\ w \in SeWorks /\ (w.pc # "rest" => w.tries \in 1 .. 2)
  /\ seAt' = [seAt EXCEPT ![t] = w]

LEMMA SeMoved1 ==
  ASSUME SeTyped, NEW t \in Writers, NEW w, SeMoves(t, w)
  PROVE  /\ seAt' \in [Writers -> SeWorks] /\ seAt'[t] = w
         /\ \A o \in Writers : o # t => seAt'[o] = seAt[o]
BY DEF SeMoves, SeTyped

LEMMA SeQuits ==
  ASSUME NEW t \in Writers, Quits(t)
  PROVE  SeMoves(t, NoWork) /\ NoWork.pc = "rest"
<1>1. NoWork \in SeWorks /\ NoWork.pc = "rest"
  BY DEF NoWork, SeWorks, SePcs
<1> QED
  BY <1>1 DEF SeMoves, Quits

LEMMA SeGoes ==
  ASSUME SeTyped, NEW t \in Writers, seAt[t].pc # "rest", NEW pc \in SePcs, GoOn(t, pc)
  PROVE  \E w : SeMoves(t, w) /\ w.pc = pc /\ w.val = seAt[t].val
<1> DEFINE old == seAt[t]
           w == [old EXCEPT !.pc = pc]
<1>1. old \in SeWorks /\ old.tries \in 1 .. 2 /\ seAt \in [Writers -> SeWorks]
  BY SeTypes DEF SeTyped
<1>2. seAt' = [seAt EXCEPT ![t] = w]
  BY <1>1 DEF GoOn
<1>3. w \in SeWorks /\ w.pc = pc /\ w.val = old.val /\ w.tries = old.tries
  BY <1>1 DEF SeWorks
<1> HIDE DEF w
<1> QED
  BY <1>1, <1>2, <1>3 DEF SeMoves

LEMMA SeReads ==
  ASSUME SeTyped, NEW t \in Writers, seAt[t].pc # "rest",
         seAt' = [seAt EXCEPT ![t].pc = "store", ![t].val = seDev]
  PROVE  \E w : SeMoves(t, w) /\ w.pc = "store" /\ w.val = seDev
<1> DEFINE old == seAt[t]
           w == [old EXCEPT !.pc = "store", !.val = seDev]
<1>1. old \in SeWorks /\ old.tries \in 1 .. 2 /\ seAt \in [Writers -> SeWorks] /\ seDev \in 0 .. 1
  BY SeTypes DEF SeTyped
<1>2. seAt' = [seAt EXCEPT ![t] = w]
  BY <1>1
<1>3. w \in SeWorks /\ w.pc = "store" /\ w.val = seDev /\ w.tries = old.tries
  BY <1>1 DEF SeWorks, SePcs
<1> HIDE DEF w
<1> QED
  BY <1>1, <1>2, <1>3 DEF SeMoves

LEMMA SeFailsOnce ==
  ASSUME SeTyped, NEW t \in Writers, seAt[t].pc # "rest", FailsOnce(t)
  PROVE  \E w : SeMoves(t, w) /\ w.pc \in {"rest", "device"}
<1>1. CASE seAt[t].tries > 1
  <2> DEFINE old == seAt[t]
             tries == old.tries - 1
             w == [old EXCEPT !.tries = tries, !.pc = "device"]
  <2>1. old \in SeWorks /\ old.tries \in 1 .. 2 /\ seAt \in [Writers -> SeWorks]
    BY SeTypes DEF SeTyped
  <2>2. tries \in 1 .. 2 /\ tries \in 0 .. 2
    BY <1>1, <2>1
  <2>3. seAt' = [seAt EXCEPT ![t] = w]
    BY <1>1, <2>1 DEF FailsOnce
  <2> HIDE DEF tries
  <2>4. w \in SeWorks /\ w.pc = "device" /\ w.tries = tries
    BY <2>1, <2>2 DEF SeWorks, SePcs
  <2> HIDE DEF w
  <2> QED
    BY <2>2, <2>3, <2>4 DEF SeMoves
<1>2. CASE ~(seAt[t].tries > 1)
  BY <1>2, SeQuits DEF FailsOnce
<1> QED
  BY <1>1, <1>2

\* What a step of a thread must show.
LEMMA SeSteps ==
  ASSUME SettingsIInv, NEW t \in Writers, NEW w, SeMoves(t, w), UNCHANGED <<seRoute, seWish, seWishes>>,
         seRoute = "raspi" => w.pc \notin {"device", "verify"},
         seDev' \in 0 .. 1, seRow' \in 0 .. 1, seMir' \in 0 .. 2,
         seBehind' \in BOOLEAN, seLost' \in BOOLEAN, seMoved' \in BOOLEAN, seCrossed' \in BOOLEAN,
         sePages' \in 0 .. MaxPageWrites, seMishaps' \in 0 .. MaxMishaps,
         SeStored', SeDirect', SeMirrored'
  PROVE  SettingsIInv'
<1>1. SeTyped
  BY DEF SettingsIInv
<1>2. /\ seAt' \in [Writers -> SeWorks] /\ seAt'[t] = w
      /\ \A o \in Writers : o # t => seAt'[o] = seAt[o]
  BY <1>1, SeMoved1
<1>3. \A o \in Writers : seAt'[o] \in SeWorks /\ (seAt'[o].pc # "rest" => seAt'[o].tries \in 1 .. 2)
                         /\ (seRoute = "raspi" => seAt'[o].pc \notin {"device", "verify"})
  BY <1>1, <1>2 DEF SeMoves, SeTyped, SettingsTypeOK
<1>4. SettingsTypeOK'
  BY <1>1, <1>3 DEF SeTyped, SettingsTypeOK, SeWorks, SePcs
<1>5. SeTyped'
  BY <1>1, <1>2, <1>3, <1>4 DEF SeTyped
<1> QED
  BY <1>5 DEF SettingsIInv

LEMMA SettingsStart == SettingsInit => SettingsIInv
<1> SUFFICES ASSUME SettingsInit PROVE SettingsIInv
  OBVIOUS
<1>1. \A t \in Writers : seAt[t] = NoWork
  BY DEF SettingsInit
<1>2. NoWork \in SeWorks /\ NoWork.pc = "rest" /\ NoWork.val = 0 /\ NoWork.tries = 0
  BY DEF NoWork, SeWorks, SePcs
<1>3. SettingsTypeOK
  BY <1>1, <1>2, SettingsAssumption DEF SettingsInit, SettingsTypeOK
<1>4. seAt \in [Writers -> SeWorks] /\ seRoute \in {"esp", "printer", "laser", "raspi"}
  BY <1>2, SettingsAssumption DEF SettingsInit
<1> QED
  BY <1>1, <1>2, <1>3, <1>4 DEF SettingsInit, SettingsIInv, SeTyped, SeStored, SeDirect, SeMirrored

\* Calls begin; nothing else moves.
LEMMA SeCalls ==
  ASSUME SettingsIInv, NEW v \in 0 .. 1, WishChanges \/ MicrotomWrites \/ MicrotomReads \/ PageWrites(v) \/ DeviceMoves
  PROVE  SettingsIInv'
<1>0. SeTyped /\ SettingsTypeOK /\ "router" \in Writers /\ "page" \in Writers
  BY DEF SettingsIInv, SeTyped, Writers
<1>1. CASE WishChanges
  <2>1. seWish' \in 0 .. 1 /\ seWishes' \in 0 .. MaxWishes
    BY <1>0, <1>1, SettingsAssumption DEF WishChanges, SettingsTypeOK
  <2> QED
    BY <1>0, <1>1, <2>1 DEF WishChanges, seHistory, SettingsIInv, SeTyped, SettingsTypeOK, SeStored, SeDirect, SeMirrored,
       SeOk, SePending
<1>2. CASE DeviceMoves
  <2>1. seDev' \in 0 .. 1 /\ seMishaps' \in 0 .. MaxMishaps
    BY <1>0, <1>2, SettingsAssumption DEF DeviceMoves, Mishap, SettingsTypeOK
  <2>2. ~SeOk'
    BY <1>2 DEF DeviceMoves, SeOk
  <2>3. SeTyped'
    BY <1>0, <1>2, <2>1 DEF DeviceMoves, seBudgets, SeTyped, SettingsTypeOK
  <2> QED
    BY <2>2, <2>3 DEF SettingsIInv, SeStored, SeDirect, SeMirrored
<1>3. ASSUME NEW t \in Writers, NEW op \in {"write", "read"}, NEW val \in 0 .. 1, seAt[t] = NoWork,
             seAt' = [seAt EXCEPT ![t] = Work(op, val)],
             op = "read" => val = seRow,
             UNCHANGED <<seRoute, seWish, seDev, seRow, seMir, seHistory, seWishes, seMishaps>>,
             sePages' \in 0 .. MaxPageWrites
      PROVE  SettingsIInv'
  <2> DEFINE w == Work(op, val)
  <2>1. /\ w \in SeWorks /\ w.val = val /\ w.tries \in 1 .. 2
        /\ w.pc = IF seRoute # "raspi" THEN "device" ELSE IF op = "read" THEN "mirror" ELSE "store"
    BY <1>3 DEF Work, FirstStop, Tries, SeWorks, SePcs
  <2>2. seAt' = [seAt EXCEPT ![t] = w]
    BY <1>3
  <2> HIDE DEF w
  <2>3. SeMoves(t, w)
    BY <2>1, <2>2 DEF SeMoves
  <2>4. seAt'[t] = w /\ \A o \in Writers : o # t => seAt'[o] = seAt[o]
    BY <1>0, <2>3, SeMoved1
  <2>5. seAt[t].pc = "rest"
    BY <1>3, SeQuits DEF NoWork
  <2>6. SeStored'
    BY <1>3, <2>1, <2>4 DEF seHistory, SettingsIInv, SeStored, SeOk
  <2>7. SeDirect'
    BY <1>3, <2>1, <2>4, <2>5 DEF seHistory, SettingsIInv, SeDirect, SeOk, SePending
  <2>8. SeMirrored'
    BY <1>3, <2>1, <2>4, <2>5 DEF seHistory, SettingsIInv, SeMirrored, SeOk
  <2> QED
    BY <1>0, <1>3, <2>1, <2>3, <2>6, <2>7, <2>8, SeSteps DEF seHistory, SeTyped, SettingsTypeOK
<1>4. sePages \in 0 .. MaxPageWrites /\ seWish \in 0 .. 1 /\ seRow \in 0 .. 1
  BY <1>0 DEF SettingsTypeOK
<1>5. CASE MicrotomWrites
  BY <1>0, <1>3, <1>4, <1>5 DEF MicrotomWrites, seBudgets
<1>6. CASE MicrotomReads
  BY <1>0, <1>3, <1>4, <1>6 DEF MicrotomReads, seBudgets
<1>7. CASE PageWrites(v)
  <2>1. sePages' \in 0 .. MaxPageWrites
    BY <1>4, <1>7, SettingsAssumption DEF PageWrites
  <2> QED
    BY <1>0, <1>3, <1>7, <2>1 DEF PageWrites
<1> QED
  BY <1>1, <1>2, <1>5, <1>6, <1>7

\* DeviceBridge.execute.
LEMMA SeExecutes ==
  ASSUME SettingsIInv, NEW t \in Writers,
         DeviceAnswers(t) \/ Verifies(t) \/ StoresValue(t) \/ DeviceRefuses(t) \/ VerifyFails(t)
         \/ \E executed \in BOOLEAN : DeviceSilent(t, executed)
  PROVE  SettingsIInv'
<1>0. /\ SeTyped /\ seAt[t].pc \in {"device", "verify", "store"} /\ seAt[t].val \in 0 .. 1
      /\ seDev \in 0 .. 1 /\ seRow \in 0 .. 1 /\ seMir \in 0 .. 2
      /\ seBehind \in BOOLEAN /\ seLost \in BOOLEAN /\ seMoved \in BOOLEAN /\ seCrossed \in BOOLEAN
      /\ sePages \in 0 .. MaxPageWrites /\ seMishaps \in 0 .. MaxMishaps
  BY DEF SettingsIInv, SeTyped, SettingsTypeOK, DeviceAnswers, Verifies, StoresValue, DeviceRefuses, VerifyFails,
     DeviceSilent
<1>r. seAt[t].pc # "store" => seRoute # "raspi"
  BY <1>0 DEF SeTyped
<1>1. CASE DeviceAnswers(t)
  <2>1. /\ seAt[t].pc = "device"
        /\ UNCHANGED <<seRoute, seWish, seWishes, seRow, seMir, seBehind, seLost, seMoved, seCrossed, sePages, seMishaps>>
    BY <1>1 DEF DeviceAnswers, seHistory, seBudgets
  <2>2. PICK w : /\ SeMoves(t, w) /\ w.pc \in {"verify", "store"} /\ seDev' = w.val /\ w.val \in 0 .. 1
    <3>1. CASE seAt[t].op = "write"
      <4>1. AfterDevice \in SePcs /\ AfterDevice \in {"verify", "store"}
        BY DEF AfterDevice, SePcs
      <4>2. seDev' = seAt[t].val /\ GoOn(t, AfterDevice)
        BY <1>1, <3>1 DEF DeviceAnswers
      <4> QED
        BY <1>0, <2>1, <4>1, <4>2, SeGoes
    <3>2. CASE seAt[t].op # "write"
      <4>2. seDev' = seDev /\ seAt' = [seAt EXCEPT ![t].pc = "store", ![t].val = seDev]
        BY <1>1, <3>2 DEF DeviceAnswers
      <4> QED
        BY <1>0, <2>1, <4>2, SeReads
    <3> QED
      BY <3>1, <3>2
  <2>3. seAt'[t] = w /\ \A o \in Writers : o # t => seAt'[o] = seAt[o]
    BY <1>0, <2>2, SeMoved1
  <2>4. SeStored'
    BY <2>1, <2>2, <2>3 DEF SettingsIInv, SeStored, SeOk
  <2>5. SeDirect'
    BY <2>1, <2>2, <2>3 DEF SeDirect, SePending
  <2>6. SeMirrored'
    BY <1>r, <2>1 DEF SeMirrored
  <2> QED
    BY <1>0, <1>r, <2>1, <2>2, <2>4, <2>5, <2>6, SeSteps
<1>2. CASE Verifies(t)
  <2>1. /\ seAt[t].pc = "verify" /\ seAt' = [seAt EXCEPT ![t].pc = "store", ![t].val = seDev]
        /\ UNCHANGED <<seRoute, seWish, seWishes, seDev, seRow, seMir, seBehind, seLost, seMoved, seCrossed, sePages,
                       seMishaps>>
    BY <1>2 DEF Verifies, seHistory, seBudgets
  <2>2. PICK w : SeMoves(t, w) /\ w.pc = "store" /\ w.val = seDev
    BY <1>0, <2>1, SeReads
  <2>3. seAt'[t] = w /\ \A o \in Writers : o # t => seAt'[o] = seAt[o]
    BY <1>0, <2>2, SeMoved1
  <2>4. SeStored'
    BY <2>1, <2>2, <2>3 DEF SettingsIInv, SeStored, SeOk
  <2>5. SeDirect'
    BY <2>1, <2>2, <2>3 DEF SeDirect, SePending
  <2>6. SeMirrored'
    BY <1>r, <2>1 DEF SeMirrored
  <2> QED
    BY <1>0, <1>r, <2>1, <2>2, <2>4, <2>5, <2>6, SeSteps
<1>3. CASE StoresValue(t)
  <2>1. /\ seAt[t].pc = "store" /\ seRow' = seAt[t].val /\ GoOn(t, "mirror")
        /\ UNCHANGED <<seRoute, seWish, seWishes, seDev, seMir, seBehind, seLost, seMoved, sePages, seMishaps>>
    BY <1>3 DEF StoresValue, seBudgets
  <2> DEFINE crossed == seCrossed \/ Overlaps(t)
  <2>c. seCrossed' = crossed /\ crossed \in BOOLEAN
    BY <1>0, <1>3 DEF StoresValue, Overlaps
  <2>o. ~crossed => ~seCrossed /\ \A o \in Writers : o # t /\ seAt[o].pc \notin {"rest", "device"} => seAt[o].val = seAt[t].val
    BY DEF Overlaps
  <2> HIDE DEF crossed
  <2>2. PICK w : SeMoves(t, w) /\ w.pc = "mirror" /\ w.val = seAt[t].val
    <3>1. "mirror" \in SePcs
      BY DEF SePcs
    <3> QED
      BY <1>0, <2>1, <3>1, SeGoes
  <2>3. seAt'[t] = w /\ \A o \in Writers : o # t => seAt'[o] = seAt[o]
    BY <1>0, <2>2, SeMoved1
  <2>4. SeStored'
    BY <2>1, <2>c, <2>o, <2>2, <2>3 DEF SeStored, SeOk
  <2>5. SeDirect'
    <3> SUFFICES ASSUME SeOk', seRoute # "raspi"
                 PROVE  /\ seRow' = seDev' \/ \E o \in Writers : SePending(o)' /\ seAt'[o].val = seDev'
                        /\ \A o \in Writers : seAt'[o].pc = "store" =>
                             seAt'[o].val = seDev' \/ \E p \in Writers : SePending(p)' /\ seAt'[p].val = seDev'
      BY <2>1 DEF SeDirect
    <3>1. SeOk /\ ~crossed
      BY <2>1, <2>c, <2>o DEF SeOk
    <3>2. seAt[t].val = seDev
      BY <2>1, <2>o, <3>1 DEF SettingsIInv, SeDirect, SePending
    <3> QED
      BY <2>1, <2>2, <2>3, <2>o, <3>1, <3>2
  <2>6. SeMirrored'
    <3>1. SeOk' => SeOk
      BY <2>1, <2>c, <2>o DEF SeOk
    <3> QED
      BY <2>1, <2>2, <2>3, <3>1 DEF SettingsIInv, SeMirrored
  <2> QED
    BY <1>0, <1>r, <2>1, <2>c, <2>2, <2>4, <2>5, <2>6, SeSteps
\* A call that leaves the device without having been there, or a history that excuses it.
<1>4. ASSUME NEW w, SeMoves(t, w), w.pc \in {"rest", "device"}, seAt[t].pc \in {"device", "verify"},
             UNCHANGED <<seRoute, seWish, seWishes, seRow, seMir, seBehind, seMoved, seCrossed, sePages>>,
             seMishaps' \in 0 .. MaxMishaps, seDev' \in 0 .. 1, seLost' \in BOOLEAN,
             seLost' \/ (seLost' = seLost /\ seDev' = seDev /\ seAt[t].pc = "device")
      PROVE  SettingsIInv'
  <2>1. seAt'[t] = w /\ \A o \in Writers : o # t => seAt'[o] = seAt[o]
    BY <1>0, <1>4, SeMoved1
  <2>2. SeStored'
    BY <1>4, <2>1 DEF SettingsIInv, SeStored, SeOk
  <2>3. SeDirect'
    BY <1>4, <2>1 DEF SettingsIInv, SeDirect, SeOk, SePending
  <2>4. SeMirrored'
    BY <1>r, <1>4 DEF SeMirrored
  <2> QED
    BY <1>0, <1>r, <1>4, <2>2, <2>3, <2>4, SeSteps
<1>5. ASSUME Mishap PROVE seMishaps' \in 0 .. MaxMishaps
  BY <1>0, <1>5, SettingsAssumption DEF Mishap
<1>6. CASE DeviceRefuses(t)
  <2>1. Mishap /\ Quits(t) /\ seAt[t].pc = "device"
        /\ UNCHANGED <<seRoute, seWish, seWishes, seDev, seRow, seMir, seBehind, seLost, seMoved, seCrossed, sePages>>
    BY <1>6 DEF DeviceRefuses, Refused, seHistory, seBudgets
  <2> QED
    BY <1>0, <1>4, <1>5, <2>1, SeQuits
<1>7. CASE VerifyFails(t)
  <2>1. Mishap /\ FailsOnce(t) /\ seAt[t].pc = "verify" /\ seLost' = TRUE
        /\ UNCHANGED <<seRoute, seWish, seWishes, seDev, seRow, seMir, seBehind, seMoved, seCrossed, sePages>>
    BY <1>7 DEF VerifyFails, seBudgets
  <2>2. PICK w : SeMoves(t, w) /\ w.pc \in {"rest", "device"}
    BY <1>0, <2>1, SeFailsOnce
  <2> QED
    BY <1>0, <1>4, <1>5, <2>1, <2>2
<1>8. CASE \E executed \in BOOLEAN : DeviceSilent(t, executed)
  <2>1. PICK executed \in BOOLEAN :
          /\ Mishap /\ FailsOnce(t) /\ seAt[t].pc = "device"
          /\ seDev' = IF executed THEN seAt[t].val ELSE seDev
          /\ seLost' = (seLost \/ executed)
          /\ UNCHANGED <<seRoute, seWish, seWishes, seRow, seMir, seBehind, seMoved, seCrossed, sePages>>
    BY <1>8 DEF DeviceSilent, seBudgets
  <2>2. PICK w : SeMoves(t, w) /\ w.pc \in {"rest", "device"}
    BY <1>0, <2>1, SeFailsOnce
  <2> QED
    BY <1>0, <1>4, <1>5, <2>1, <2>2
<1> QED
  BY <1>1, <1>2, <1>3, <1>6, <1>7, <1>8

\* DeviceBridge.mirror_to_esp, and calls that die.
LEMMA SeMirrors ==
  ASSUME SettingsIInv, NEW t \in Writers,
         MirrorChecks(t) \/ MirrorSends(t) \/ MirrorRemembers(t) \/ CallDies(t)
         \/ \E executed \in BOOLEAN : MirrorFails(t, executed)
  PROVE  SettingsIInv'
<1>0. /\ SeTyped /\ seAt[t].val \in 0 .. 1 /\ seAt[t].pc \in SePcs
      /\ seDev \in 0 .. 1 /\ seRow \in 0 .. 1 /\ seMir \in 0 .. 2
      /\ seBehind \in BOOLEAN /\ seLost \in BOOLEAN /\ seMoved \in BOOLEAN /\ seCrossed \in BOOLEAN
      /\ sePages \in 0 .. MaxPageWrites /\ seMishaps \in 0 .. MaxMishaps
  BY DEF SettingsIInv, SeTyped, SettingsTypeOK, SePcs
<1>1. CASE MirrorChecks(t)
  <2>1. /\ seAt[t].pc = "mirror"
        /\ UNCHANGED <<seRoute, seWish, seWishes, seDev, seRow, seMir, seLost, seMoved, seCrossed, sePages, seMishaps>>
    BY <1>1 DEF MirrorChecks, seBudgets
  <2>2. CASE Mirrored /\ ~KnownAtEsp(seAt[t].val)
    <3>1. GoOn(t, "send") /\ seBehind' = seBehind
      BY <1>1, <2>2 DEF MirrorChecks
    <3>2. PICK w : SeMoves(t, w) /\ w.pc = "send" /\ w.val = seAt[t].val
      <4>1. "send" \in SePcs
        BY DEF SePcs
      <4> QED
        BY <1>0, <2>1, <3>1, <4>1, SeGoes
    <3>3. seAt'[t] = w /\ \A o \in Writers : o # t => seAt'[o] = seAt[o]
      BY <1>0, <3>2, SeMoved1
    <3>4. SeStored'
      BY <2>1, <3>2, <3>3 DEF SettingsIInv, SeStored, SeOk
    <3>5. SeDirect'
      BY <2>1, <3>2, <3>3 DEF SettingsIInv, SeDirect, SeOk, SePending
    <3>6. SeMirrored'
      BY <2>1, <3>1, <3>2, <3>3 DEF SettingsIInv, SeMirrored, SeOk
    <3> QED
      BY <1>0, <2>1, <3>1, <3>2, <3>4, <3>5, <3>6, SeSteps
  <2>3. CASE ~(Mirrored /\ ~KnownAtEsp(seAt[t].val))
    <3> DEFINE behind == seBehind /\ ~Mirrored
    <3>1. Quits(t) /\ seBehind' = behind
      BY <1>1, <2>3 DEF MirrorChecks
    <3>2. behind \in BOOLEAN
      BY <1>0 DEF Mirrored
    <3> HIDE DEF behind
    <3>3. SeMoves(t, NoWork) /\ NoWork.pc = "rest"
      BY <3>1, SeQuits
    <3>4. seAt'[t] = NoWork /\ \A o \in Writers : o # t => seAt'[o] = seAt[o]
      BY <1>0, <3>3, SeMoved1
    <3>5. SeStored'
      BY <2>1, <3>3, <3>4 DEF SettingsIInv, SeStored, SeOk
    <3>6. SeDirect'
      BY <2>1, <3>3, <3>4 DEF SettingsIInv, SeDirect, SeOk, SePending
    <3>7. SeMirrored'
      <4> SUFFICES ASSUME SeOk, seRoute = "raspi"
                   PROVE  /\ \A o \in Writers : seAt'[o].pc = "memory" => seAt'[o].val = seDev
                          /\ seMir \in {2, seDev} \/ \E o \in Writers : seAt'[o].pc = "memory"
                          /\ seRow = seDev
        BY <2>1 DEF SeMirrored, SeOk
      <4>1. seMir = seAt[t].val /\ seMir # 2
        BY <1>0, <2>3 DEF Mirrored, KnownAtEsp
      <4>2. seAt[t].val = seRow
        BY <2>1 DEF SettingsIInv, SeStored
      <4>3. \A o \in Writers : seAt[o].pc = "memory" => seAt[o].val = seDev /\ seAt[o].val = seRow
        BY DEF SettingsIInv, SeMirrored, SeStored
      <4>4. seMir \in {2, seDev} \/ \E o \in Writers : seAt[o].pc = "memory"
        BY DEF SettingsIInv, SeMirrored
      <4>5. seRow = seDev
        BY <4>1, <4>2, <4>3, <4>4
      <4> QED
        BY <2>1, <3>3, <3>4, <4>1, <4>2, <4>3, <4>5
    <3> QED
      BY <1>0, <2>1, <3>1, <3>2, <3>3, <3>5, <3>6, <3>7, SeSteps
  <2> QED
    BY <2>2, <2>3
<1>2. CASE MirrorSends(t)
  <2>1. /\ seAt[t].pc = "send" /\ seDev' = seAt[t].val /\ GoOn(t, "memory")
        /\ UNCHANGED <<seRoute, seWish, seWishes, seRow, seMir, seBehind, seLost, seMoved, sePages, seMishaps>>
    BY <1>2 DEF MirrorSends, seBudgets
  <2> DEFINE crossed == seCrossed \/ Overlaps(t)
  <2>c. seCrossed' = crossed /\ crossed \in BOOLEAN
    BY <1>0, <1>2 DEF MirrorSends, Overlaps
  <2>o. ~crossed => ~seCrossed /\ \A o \in Writers : o # t /\ seAt[o].pc \notin {"rest", "device"} => seAt[o].val = seAt[t].val
    BY DEF Overlaps
  <2> HIDE DEF crossed
  <2>2. PICK w : SeMoves(t, w) /\ w.pc = "memory" /\ w.val = seAt[t].val
    <3>1. "memory" \in SePcs
      BY DEF SePcs
    <3> QED
      BY <1>0, <2>1, <3>1, SeGoes
  <2>3. seAt'[t] = w /\ \A o \in Writers : o # t => seAt'[o] = seAt[o]
    BY <1>0, <2>2, SeMoved1
  <2>k. SeOk' => SeOk /\ ~crossed /\ seAt[t].val = seRow
    <3>1. SeOk' => SeOk /\ ~crossed
      BY <2>1, <2>c, <2>o DEF SeOk
    <3> QED
      BY <2>1, <3>1 DEF SettingsIInv, SeStored
  <2>4. SeStored'
    BY <2>1, <2>2, <2>3, <2>k DEF SettingsIInv, SeStored
  <2>5. SeDirect'
    BY <2>1, <2>2, <2>3, <2>k, <2>o DEF SeDirect
  <2>6. SeMirrored'
    BY <2>1, <2>2, <2>3, <2>k, <2>o DEF SeMirrored
  <2> QED
    BY <1>0, <2>1, <2>c, <2>2, <2>4, <2>5, <2>6, SeSteps
<1>3. CASE MirrorRemembers(t)
  <2>1. /\ seAt[t].pc = "memory" /\ seMir' = seAt[t].val /\ seBehind' = FALSE /\ Quits(t)
        /\ UNCHANGED <<seRoute, seWish, seWishes, seDev, seRow, seLost, seMoved, seCrossed, sePages, seMishaps>>
    BY <1>3 DEF MirrorRemembers, seBudgets
  <2>2. SeMoves(t, NoWork) /\ NoWork.pc = "rest"
    BY <2>1, SeQuits
  <2>3. seAt'[t] = NoWork /\ \A o \in Writers : o # t => seAt'[o] = seAt[o]
    BY <1>0, <2>2, SeMoved1
  <2>4. SeStored'
    BY <2>1, <2>2, <2>3 DEF SettingsIInv, SeStored, SeOk
  <2>5. SeDirect'
    BY <2>1, <2>2, <2>3 DEF SettingsIInv, SeDirect, SeOk, SePending
  <2>6. SeMirrored'
    <3>1. SeOk /\ seRoute = "raspi" => seAt[t].val = seRow /\ seAt[t].val = seDev
      BY <2>1 DEF SettingsIInv, SeStored, SeMirrored
    <3> QED
      BY <2>1, <2>2, <2>3, <3>1 DEF SettingsIInv, SeMirrored, SeOk
  <2>7. seMir' \in 0 .. 2 /\ seBehind' \in BOOLEAN
    <3>1. seMir' = seAt[t].val /\ seBehind' = FALSE
      BY <2>1
    <3>2. \A v \in 0 .. 1 : v \in 0 .. 2
      OBVIOUS
    <3>3. seMir' \in 0 .. 2
      BY <1>0, <3>1, <3>2
    <3> QED
      BY <3>1, <3>3
  <2> QED
    BY <1>0, <2>1, <2>2, <2>4, <2>5, <2>6, <2>7, SeSteps
\* A call ends early: excused, or behind with its mirror, or without having done anything.
<1>4. ASSUME Quits(t), Mishap, seDev' \in 0 .. 1, seLost' \in BOOLEAN, seBehind' \in BOOLEAN,
             UNCHANGED <<seRoute, seWish, seWishes, seRow, seMir, seMoved, seCrossed, sePages>>,
             seLost' \/ (/\ seLost' = seLost /\ seDev' = seDev /\ seAt[t].pc \in {"device", "mirror", "send"}
                         /\ IF seAt[t].pc = "device" THEN seBehind' = seBehind ELSE seBehind')
      PROVE  SettingsIInv'
  <2>1. SeMoves(t, NoWork) /\ NoWork.pc = "rest"
    BY <1>4, SeQuits
  <2>2. seAt'[t] = NoWork /\ \A o \in Writers : o # t => seAt'[o] = seAt[o]
    BY <1>0, <2>1, SeMoved1
  <2>3. seMishaps' \in 0 .. MaxMishaps
    BY <1>0, <1>4, SettingsAssumption DEF Mishap
  <2>4. SeStored'
    BY <1>4, <2>1, <2>2 DEF SettingsIInv, SeStored, SeOk
  <2>5. SeDirect'
    BY <1>4, <2>1, <2>2 DEF SettingsIInv, SeDirect, SeOk, SePending
  <2>6. SeMirrored'
    BY <1>4, <2>1, <2>2 DEF SettingsIInv, SeMirrored, SeOk
  <2> QED
    BY <1>0, <1>4, <2>1, <2>3, <2>4, <2>5, <2>6, SeSteps
<1>5. CASE \E executed \in BOOLEAN : MirrorFails(t, executed)
  <2>1. PICK executed \in BOOLEAN :
          /\ Mishap /\ Quits(t) /\ seAt[t].pc = "send" /\ seBehind' = TRUE
          /\ seDev' = IF executed THEN seAt[t].val ELSE seDev
          /\ seLost' = (seLost \/ executed)
          /\ UNCHANGED <<seRoute, seWish, seWishes, seRow, seMir, seMoved, seCrossed, sePages>>
    BY <1>5 DEF MirrorFails, MemoryAfterFailure, seBudgets
  <2> QED
    BY <1>0, <1>4, <2>1
<1>6. CASE CallDies(t)
  <2> DEFINE lost == seLost \/ seAt[t].pc \notin {"device", "mirror", "send"}
             behind == seBehind \/ seAt[t].pc \in {"mirror", "send"}
  <2>1. /\ Mishap /\ Quits(t) /\ seLost' = lost /\ seBehind' = behind
        /\ UNCHANGED <<seRoute, seWish, seWishes, seDev, seRow, seMir, seMoved, seCrossed, sePages>>
    BY <1>6 DEF CallDies, seBudgets
  <2>2. lost \in BOOLEAN /\ behind \in BOOLEAN
    BY <1>0
  <2>3. lost \/ (/\ lost = seLost /\ seAt[t].pc \in {"device", "mirror", "send"}
                 /\ IF seAt[t].pc = "device" THEN behind = seBehind ELSE behind)
    BY <1>0
  <2> HIDE DEF lost, behind
  <2> QED
    BY <1>0, <1>4, <2>1, <2>2, <2>3
<1> QED
  BY <1>1, <1>2, <1>3, <1>5, <1>6

LEMMA SettingsSteps == SettingsIInv /\ [SettingsNext]_seVars => SettingsIInv'
<1> SUFFICES ASSUME SettingsIInv, [SettingsNext]_seVars PROVE SettingsIInv'
  OBVIOUS
<1>1. CASE UNCHANGED seVars
  BY <1>1 DEF seVars, SettingsIInv, SeTyped, SettingsTypeOK, SeStored, SeDirect, SeMirrored, SeOk, SePending
<1>2. CASE SettingsNext
  <2>1. 0 \in 0 .. 1
    OBVIOUS
  <2> QED
    BY <1>2, <2>1, SeCalls, SeExecutes, SeMirrors DEF SettingsNext, SettingStep, SettingFault
<1> QED
  BY <1>1, <1>2

\* Whatever is refused, retried or verified (device_bridge.py:57, execute), between two
\* calls the row and the device hold the same value and the mirror's memory is true, but
\* for the exceptions named in RowAgrees and MirrorTrue.
THEOREM SettingsCorrect == SettingsSpec => []SettingsInv
<1>1. SettingsIInv => SettingsInv
  <2> SUFFICES ASSUME SettingsIInv PROVE SettingsTypeOK /\ RowAgrees /\ MirrorTrue
    BY DEF SettingsInv
  <2>1. Quiet => \A t \in Writers : seAt[t].pc = "rest"
    BY DEF Quiet, NoWork
  <2> QED
    BY <2>1 DEF SettingsIInv, SeTyped, SeDirect, SeMirrored, SeOk, SePending, RowAgrees, MirrorTrue
<1> QED
  BY SettingsStart, SettingsSteps, <1>1, PTL DEF SettingsSpec

-----------------------------------------------------------------------------
(* A reported fault.                                                       *)

\* Where a handler stands, and what waits in the queue.
FtPoints == {"rest", "check", "gate", "store", "ask", "remember", "queue"}
FtStands == [pc : FtPoints, val : 0 .. 1]
FtMessages == [val : 0 .. 1, prio : {10, 20, 100}, late : BOOLEAN]

FtTyped ==
  /\ FaultsTypeOK
  /\ ftAt \in [FaultSenders -> FtStands]
  /\ ftQueue \in Seq(FtMessages)
  /\ ftRowOff \in BOOLEAN

\* What the device waits for: while its bit has not changed since, the handler of the
\* connection it waits on has that bit, and the row holds it once the handler has stored it.
FtWaits ==
  /\ ftOwes = "no" => ftLine = "none"
  /\ ftOwes = "sent" /\ ftLine # "none" => ftAt[ftLine].val = ftBit

FtStored ==
  ~ftRowOff =>
    /\ ftOwes = "no" => ftRow = ftBit
    /\ (ftOwes = "sent" /\ ftLine # "none" /\ ftAt[ftLine].pc \in {"ask", "remember", "queue"}) => ftRow = ftBit

FaultsIInv == FtTyped /\ FtWaits /\ FtStored

LEMMA FtSenders ==
  /\ FaultSenders \subseteq {"a", "b", "runtime"} /\ "none" \notin FaultSenders
  /\ Conns \subseteq FaultSenders /\ "runtime" \notin Conns
  /\ \A pc \in FtPoints : pc # "none"
BY FaultsAssumption DEF Conns, FtPoints

LEMMA FtRests == Resting \in FtStands /\ Resting.pc = "rest" /\ Resting.val = 0 /\ 0 \in 0 .. 1 /\ 1 \in 0 .. 1
BY DEF Resting, FtStands, FtPoints

LEMMA FaultsStart == FaultsInit => FaultsIInv
<1> SUFFICES ASSUME FaultsInit PROVE FtTyped /\ FtWaits /\ FtStored
  BY DEF FaultsIInv
<1>1. 0 \in 0 .. MaxFlips /\ 0 \in 0 .. MaxFaultTrips
  BY FaultsAssumption
<1>2. ftAt \in [FaultSenders -> FtStands] /\ \A s \in FaultSenders : ftAt[s].val = 0
  BY FtRests DEF FaultsInit
<1>3. ftQueue \in Seq(FtMessages) /\ Waiting(ftQueue, 0) = {}
  BY DEF FaultsInit, Waiting
<1>4. FtTyped
  BY <1>1, <1>2, <1>3, FtRests DEF FaultsInit, FtTyped, FaultsTypeOK
<1> QED
  BY <1>4 DEF FaultsInit, FtWaits, FtStored

\* What stays of the shapes in every step, and what each step has to show.
LEMMA FtFrame ==
  ASSUME FaultsIInv,
         ftBit' \in 0 .. 1, ftRow' \in 0 .. 1, ftView' \in 0 .. 1,
         ftOwes' \in {"no", "new", "sent"}, ftProcess' \in BOOLEAN, ftLine' \in Conns \cup {"none"},
         ftTold' \in {"none", "0", "1"}, ftAt' \in [FaultSenders -> FtStands],
         ftQueue' \in Seq(FtMessages), \A i, j \in Waiting(ftQueue', 0) : i = j,
         ftFlips' \in 0 .. MaxFlips, ftTrips' \in 0 .. MaxFaultTrips, ftRowOff' \in BOOLEAN,
         FtWaits', FtStored'
  PROVE  FaultsIInv'
<1>1. \A s \in FaultSenders : ftAt'[s].val \in 0 .. 1
  BY DEF FtStands
<1>2. FtTyped'
  BY <1>1 DEF FtTyped, FaultsTypeOK
<1> QED
  BY <1>2 DEF FaultsIInv

LEMMA FtTypes ==
  ASSUME FaultsIInv
  PROVE  /\ ftBit \in 0 .. 1 /\ ftRow \in 0 .. 1 /\ ftView \in 0 .. 1
         /\ ftOwes \in {"no", "new", "sent"} /\ ftProcess \in BOOLEAN /\ ftLine \in Conns \cup {"none"}
         /\ ftTold \in {"none", "0", "1"} /\ ftAt \in [FaultSenders -> FtStands]
         /\ ftQueue \in Seq(FtMessages) /\ (\A i, j \in Waiting(ftQueue, 0) : i = j)
         /\ ftFlips \in 0 .. MaxFlips /\ ftTrips \in 0 .. MaxFaultTrips /\ ftRowOff \in BOOLEAN
         /\ FtWaits /\ FtStored
         /\ \A s \in FaultSenders : ftAt[s].val \in 0 .. 1
BY DEF FaultsIInv, FtTyped, FaultsTypeOK

\* A handler that gets a new place, or only goes on to another point.
LEMMA FtMoves ==
  ASSUME NEW at \in [FaultSenders -> FtStands], NEW s \in FaultSenders, NEW pc \in FtPoints, NEW stand \in FtStands
  PROVE  /\ [at EXCEPT ![s] = stand] \in [FaultSenders -> FtStands]
         /\ [at EXCEPT ![s] = stand][s] = stand
         /\ \A o \in FaultSenders : o # s => [at EXCEPT ![s] = stand][o] = at[o]
         /\ [at EXCEPT ![s].pc = pc] \in [FaultSenders -> FtStands]
         /\ [at EXCEPT ![s].pc = pc][s].val = at[s].val
         /\ [at EXCEPT ![s].pc = pc][s].pc = pc
         /\ \A o \in FaultSenders : o # s => [at EXCEPT ![s].pc = pc][o] = at[o]
<1> DEFINE now == [at[s] EXCEPT !.pc = pc]
<1>1. now \in FtStands /\ now.val = at[s].val /\ now.pc = pc
  BY DEF FtStands
<1>2. [at EXCEPT ![s].pc = pc] = [at EXCEPT ![s] = now]
  OBVIOUS
<1> HIDE DEF now
<1> QED
  BY <1>1, <1>2

OneClear(queue) == \A i, j \in Waiting(queue, 0) : i = j

\* A message that leaves the queue leaves at most one clear message behind, and none if
\* it was one.
LEMMA FtRemoves ==
  ASSUME NEW q \in Seq(FtMessages), OneClear(q), NEW i \in 1 .. Len(q)
  PROVE  /\ RemoveAt(q, i) \in Seq(FtMessages) /\ OneClear(RemoveAt(q, i))
         /\ q[i].val = 0 => Waiting(RemoveAt(q, i), 0) = {}
<1> DEFINE r == RemoveAt(q, i)
<1>a. /\ RemoveAt(q, i) \in Seq(FtMessages) /\ Len(RemoveAt(q, i)) = Len(q) - 1
      /\ \A j \in 1 .. Len(q) - 1 : RemoveAt(q, i)[j] = q[IF j < i THEN j ELSE j + 1]
  BY RemoveAtKeeps, Zenon
<1>b. Len(q) \in Nat
  OBVIOUS
<1>1. /\ r \in Seq(FtMessages) /\ Len(r) = Len(q) - 1 /\ Len(q) \in Nat
      /\ \A j \in 1 .. Len(q) - 1 : r[j] = q[IF j < i THEN j ELSE j + 1]
  BY <1>a, <1>b, Zenon
<1> HIDE DEF r
<1>2. DOMAIN r = 1 .. Len(q) - 1 /\ DOMAIN q = 1 .. Len(q)
  BY <1>1
<1>3. ASSUME NEW j \in Waiting(r, 0)
      PROVE  LET k == IF j < i THEN j ELSE j + 1 IN k \in Waiting(q, 0) /\ k # i /\ j \in 1 .. Len(q) - 1
  <2> DEFINE k == IF j < i THEN j ELSE j + 1
  <2>1. j \in 1 .. Len(q) - 1 /\ r[j].val = 0
    BY <1>2 DEF Waiting
  <2>2. k \in 1 .. Len(q) /\ k # i
    BY <1>1, <2>1
  <2>3. q[k].val = 0
    BY <1>1, <2>1
  <2> HIDE DEF k
  <2>4. k \in Waiting(q, 0)
    BY <1>2, <2>2, <2>3 DEF Waiting
  <2> QED
    BY <2>1, <2>2, <2>4 DEF k
<1>4. ASSUME NEW j \in Waiting(r, 0), NEW k \in Waiting(r, 0) PROVE j = k
  <2> DEFINE m == IF j < i THEN j ELSE j + 1
             n == IF k < i THEN k ELSE k + 1
  <2>1. m = n
    BY <1>3 DEF OneClear
  <2>2. j \in 1 .. Len(q) - 1 /\ k \in 1 .. Len(q) - 1 /\ i \in Int
    BY <1>1, <1>3
  <2> QED
    BY <1>1, <2>1, <2>2
<1>5. ASSUME q[i].val = 0, NEW j \in Waiting(r, 0) PROVE FALSE
  <2>1. i \in Waiting(q, 0)
    BY <1>2, <1>5 DEF Waiting
  <2> QED
    BY <1>3, <1>5, <2>1 DEF OneClear
<1> QED
  BY <1>1, <1>4, <1>5 DEF OneClear, r

\* A message at the end of the queue.
LEMMA FtAppends ==
  ASSUME NEW q \in Seq(FtMessages), NEW msg \in FtMessages, msg.val # 0 \/ Waiting(q, 0) = {}, OneClear(q)
  PROVE  Append(q, msg) \in Seq(FtMessages) /\ OneClear(Append(q, msg))
<1> DEFINE r == Append(q, msg)
<1>1. /\ r \in Seq(FtMessages) /\ Len(r) = Len(q) + 1 /\ Len(q) \in Nat
      /\ r[Len(q) + 1] = msg /\ \A j \in 1 .. Len(q) : r[j] = q[j]
  OBVIOUS
<1> HIDE DEF r
<1>2. DOMAIN r = 1 .. Len(q) + 1 /\ DOMAIN q = 1 .. Len(q)
  BY <1>1
<1>3. \A j \in Waiting(r, 0) : j \in Waiting(q, 0) \/ (j = Len(q) + 1 /\ msg.val = 0)
  BY <1>1, <1>2 DEF Waiting
<1>4. OneClear(r)
  BY <1>3 DEF OneClear
<1> QED
  BY <1>1, <1>4 DEF r

\* A message that joins the queue leaves at most one clear message waiting.
LEMMA FtQueues ==
  ASSUME NEW q \in Seq(FtMessages), NEW msg \in FtMessages, OneClear(q)
  PROVE  Enqueued(q, msg) \in Seq(FtMessages) /\ OneClear(Enqueued(q, msg))
<1>1. CASE msg.val # 0
  BY <1>1, FtAppends DEF Enqueued
<1>2. CASE msg.val = 0
  <2>1. Enqueued(q, msg) = Append(Replaced(q), msg)
    BY <1>2 DEF Enqueued
  <2>2. Replaced(q) \in Seq(FtMessages) /\ OneClear(Replaced(q)) /\ Waiting(Replaced(q), 0) = {}
    <3>1. CASE Waiting(q, 0) = {}
      BY <3>1 DEF Replaced
    <3>2. CASE Waiting(q, 0) # {}
      <4> DEFINE i == CHOOSE i \in Waiting(q, 0) : TRUE
      <4>1. i \in Waiting(q, 0)
        BY <3>2
      <4>2. Replaced(q) = RemoveAt(q, i)
        BY <3>2 DEF Replaced
      <4> HIDE DEF i
      <4>3. i \in 1 .. Len(q) /\ q[i].val = 0
        BY <4>1 DEF Waiting
      <4> QED
        BY <4>2, <4>3, FtRemoves
    <3> QED
      BY <3>1, <3>2
  <2> QED
    BY <2>1, <2>2, FtAppends
<1> QED
  BY <1>1, <1>2

\* A message whose send has failed stays where it is in the queue.
LEMMA FtFails ==
  ASSUME NEW q \in Seq(FtMessages), NEW i \in 1 .. Len(q), OneClear(q)
  PROVE  [q EXCEPT ![i].late = TRUE] \in Seq(FtMessages) /\ OneClear([q EXCEPT ![i].late = TRUE])
<1> DEFINE now == [q[i] EXCEPT !.late = TRUE]
           r == [q EXCEPT ![i] = now]
<1>0. q[i] \in FtMessages
  OBVIOUS
<1>1. now \in FtMessages /\ now.val = q[i].val
  BY <1>0 DEF FtMessages
<1>2. [q EXCEPT ![i].late = TRUE] = r
  OBVIOUS
<1> HIDE DEF now
<1>3. r \in Seq(FtMessages) /\ DOMAIN r = DOMAIN q
  BY <1>1
<1>4. \A j \in DOMAIN q : r[j].val = q[j].val
  BY <1>1
<1> HIDE DEF r
<1>5. Waiting(r, 0) = Waiting(q, 0)
  BY <1>3, <1>4 DEF Waiting
<1> QED
  BY <1>2, <1>3, <1>5 DEF OneClear

\* A handler that ends, and a handler that goes on.
LEMMA FtEnds ==
  ASSUME FaultsIInv, NEW s \in FaultSenders, Ends(s), ftBit' = ftBit, ftRowOff => ftRowOff',
         ~ftRowOff' => ftRow' = ftRow,
         ~ftRowOff' /\ s = ftLine /\ ftOwes = "sent" => ftRow = ftBit
  PROVE  /\ ftAt' \in [FaultSenders -> FtStands] /\ ftLine' \in Conns \cup {"none"}
         /\ ftOwes' \in {"no", "new", "sent"} /\ FtWaits' /\ FtStored'
<1>1. /\ ftAt \in [FaultSenders -> FtStands] /\ ftLine \in Conns \cup {"none"}
      /\ ftOwes \in {"no", "new", "sent"} /\ FtWaits /\ FtStored
  BY FtTypes
<1>2. /\ ftAt' = [ftAt EXCEPT ![s] = Resting]
      /\ ftLine' = (IF ftLine = s THEN "none" ELSE ftLine)
      /\ ftOwes' = (IF ftLine = s /\ ftOwes = "sent" THEN "no" ELSE ftOwes)
  BY <1>1, FtSenders DEF Ends, Answered
<1>3. ftAt' \in [FaultSenders -> FtStands] /\ \A o \in FaultSenders : o # s => ftAt'[o] = ftAt[o]
  BY <1>1, <1>2, FtMoves, FtRests
<1>4. ftLine' # "none" => ftLine' \in FaultSenders /\ ftLine' = ftLine /\ ftOwes' = ftOwes /\ ftLine # s /\ ftAt'[ftLine'] = ftAt[ftLine]
  BY <1>1, <1>2, <1>3, FtSenders
<1>5. FtWaits'
  BY <1>1, <1>2, <1>4 DEF FtWaits
<1>6. FtStored'
  BY <1>1, <1>2, <1>4 DEF FtWaits, FtStored
<1> QED
  BY <1>1, <1>2, <1>3, <1>5, <1>6

LEMMA FtGoes ==
  ASSUME FaultsIInv, NEW s \in FaultSenders, NEW pc \in FtPoints, GoesTo(s, pc), ftBit' = ftBit, ftRowOff => ftRowOff',
         ~ftRowOff' => ftRow' = ftRow \/ ftRow' = ftBit \/ ftOwes = "new",
         ~ftRowOff' /\ s = ftLine /\ ftOwes = "sent" /\ pc \in {"ask", "remember", "queue"} => ftRow' = ftBit
  PROVE  /\ ftAt' \in [FaultSenders -> FtStands] /\ ftLine' \in Conns \cup {"none"}
         /\ ftOwes' \in {"no", "new", "sent"} /\ FtWaits' /\ FtStored'
<1>1. /\ ftAt \in [FaultSenders -> FtStands] /\ ftLine \in Conns \cup {"none"}
      /\ ftOwes \in {"no", "new", "sent"} /\ FtWaits /\ FtStored
  BY FtTypes
<1>2. ftAt' = [ftAt EXCEPT ![s].pc = pc] /\ ftLine' = ftLine /\ ftOwes' = ftOwes
  BY DEF GoesTo
<1>3. /\ ftAt' \in [FaultSenders -> FtStands] /\ ftAt'[s].val = ftAt[s].val /\ ftAt'[s].pc = pc
      /\ \A o \in FaultSenders : o # s => ftAt'[o] = ftAt[o]
  BY <1>1, <1>2, FtMoves, FtRests
<1>4. ftLine # "none" => ftLine \in FaultSenders
  BY <1>1, FtSenders
<1>5. FtWaits'
  BY <1>1, <1>2, <1>3, <1>4 DEF FtWaits
<1>6. FtStored'
  BY <1>1, <1>2, <1>3, <1>4 DEF FtWaits, FtStored
<1> QED
  BY <1>1, <1>2, <1>3, <1>5, <1>6

LEMMA FaultsSteps == FaultsIInv /\ [FaultsNext]_ftVars => FaultsIInv'
<1> SUFFICES ASSUME FaultsIInv, [FaultsNext]_ftVars PROVE FaultsIInv'
  OBVIOUS
<1>0. /\ ftBit \in 0 .. 1 /\ ftRow \in 0 .. 1 /\ ftView \in 0 .. 1
      /\ ftOwes \in {"no", "new", "sent"} /\ ftProcess \in BOOLEAN /\ ftLine \in Conns \cup {"none"}
      /\ ftTold \in {"none", "0", "1"} /\ ftAt \in [FaultSenders -> FtStands]
      /\ ftQueue \in Seq(FtMessages) /\ (\A i, j \in Waiting(ftQueue, 0) : i = j)
      /\ ftFlips \in 0 .. MaxFlips /\ ftTrips \in 0 .. MaxFaultTrips /\ ftRowOff \in BOOLEAN
      /\ FtWaits /\ FtStored
      /\ \A s \in FaultSenders : ftAt[s].val \in 0 .. 1
  BY FtTypes
<1>t. Trip => ftTrips' \in 0 .. MaxFaultTrips
  BY <1>0, FaultsAssumption DEF Trip
<1>1. CASE UNCHANGED ftVars
  <2>1. FtWaits' /\ FtStored'
    BY <1>0, <1>1 DEF ftVars, FtWaits, FtStored
  <2> QED
    BY <1>0, <1>1, <2>1, FtFrame DEF ftVars
<1>2. CASE FaultFlips
  <2>1. /\ ftBit' = 1 - ftBit /\ ftOwes' = "new" /\ ftFlips < MaxFlips /\ ftFlips' = ftFlips + 1
        /\ UNCHANGED <<ftKind, ftLine, ftAt, ftRow, ftTold, ftQueue, ftView, ftProcess, ftRowOff, ftViewOff, ftTrips>>
    BY <1>2 DEF FaultFlips
  <2>2. ftBit' \in 0 .. 1 /\ ftFlips' \in 0 .. MaxFlips
    BY <1>0, <2>1, FaultsAssumption
  <2>3. FtWaits' /\ FtStored'
    BY <2>1 DEF FtWaits, FtStored
  <2> QED
    BY <1>0, <2>1, <2>2, <2>3, FtFrame
<1>3. CASE \E c \in Conns : DeviceReports(c)
  <2>1. PICK c \in Conns : DeviceReports(c)
    BY <1>3
  <2> DEFINE stand == [pc |-> "check", val |-> ftBit]
  <2>2. stand \in FtStands /\ stand.val = ftBit /\ stand.pc = "check" /\ c \in FaultSenders
    BY <1>0, FtSenders DEF FtStands, FtPoints
  <2>3. /\ ftLine' = c /\ ftOwes' = "sent" /\ ftOwes # "no" /\ ftAt' = [ftAt EXCEPT ![c] = stand]
        /\ UNCHANGED <<ftKind, ftBit, ftRow, ftTold, ftQueue, ftView, ftProcess, ftRowOff, ftViewOff, ftFlips, ftTrips>>
    BY <2>1 DEF DeviceReports
  <2> HIDE DEF stand
  <2>4. ftAt' \in [FaultSenders -> FtStands] /\ ftAt'[c] = stand
    BY <1>0, <2>2, <2>3, FtMoves
  <2>5. FtWaits' /\ FtStored'
    BY <2>2, <2>3, <2>4 DEF FtWaits, FtStored
  <2> QED
    BY <1>0, <2>3, <2>4, <2>5, FtFrame
<1>4. CASE DeviceGivesUp
  <2>1. /\ ftLine # "none" /\ ftLine' = "none" /\ Trip
        /\ UNCHANGED <<ftKind, ftBit, ftOwes, ftAt, ftRow, ftTold, ftQueue, ftView, ftProcess, ftRowOff, ftViewOff, ftFlips>>
    BY <1>4 DEF DeviceGivesUp
  <2>2. FtWaits' /\ FtStored'
    BY <1>0, <2>1 DEF FtWaits, FtStored
  <2> QED
    BY <1>0, <1>t, <2>1, <2>2, FtFrame
<1>5. CASE \E c \in Conns : CheckStored(c)
  <2>1. PICK c \in Conns : CheckStored(c)
    BY <1>5
  <2>2. c \in FaultSenders /\ c # "runtime" /\ "gate" \in FtPoints
    BY FtSenders DEF FtPoints
  <2>3. UNCHANGED <<ftKind, ftBit, ftRow, ftTold, ftQueue, ftView, ftProcess, ftRowOff, ftViewOff, ftFlips, ftTrips>>
    BY <2>1 DEF CheckStored
  <2>4. /\ ftAt' \in [FaultSenders -> FtStands] /\ ftLine' \in Conns \cup {"none"}
        /\ ftOwes' \in {"no", "new", "sent"} /\ FtWaits' /\ FtStored'
    <3>1. CASE StoredAlready(ftAt[c].val) /\ Answered(c)
      <4>1. Ends(c)
        BY <2>2, <3>1 DEF Ends
      <4>2. c = ftLine /\ ftOwes = "sent" => ftRow = ftBit
        BY <1>0, <2>2, <3>1, FtSenders DEF FtWaits, StoredAlready
      <4> QED
        BY <2>2, <2>3, <4>1, <4>2, FtEnds
    <3>2. CASE GoesTo(c, "gate")
      BY <2>2, <2>3, <3>2, FtGoes
    <3> QED
      BY <2>1, <3>1, <3>2 DEF CheckStored
  <2> QED
    BY <1>0, <2>3, <2>4, FtFrame
<1>6. CASE \E c \in Conns : Gate(c)
  <2>1. PICK c \in Conns : Gate(c)
    BY <1>6
  <2>2. c \in FaultSenders /\ c # "runtime" /\ "store" \in FtPoints
    BY FtSenders DEF FtPoints
  <2>3. UNCHANGED <<ftKind, ftBit, ftTold, ftQueue, ftView, ftProcess, ftFlips, ftTrips>>
    BY <2>1 DEF Gate
  <2>4. ftRow' \in 0 .. 1 /\ ftRowOff' \in BOOLEAN /\ (ftRowOff => ftRowOff') /\ (~ftRowOff' => ftRow' = ftRow)
    <3>1. ftRow' = ftRow \/ (ftRow' = 0 /\ ftRowOff' = TRUE)
      BY <2>1 DEF Gate
    <3>2. ftRowOff' = TRUE \/ ftRowOff' = (ftRowOff \/ (IgnoredClear(ftAt[c].val) /\ ftRow = 1))
      BY <2>1 DEF Gate
    <3>3. ftRow' \in 0 .. 1 /\ (~ftRowOff' => ftRow' = ftRow)
      BY <1>0, <3>1
    <3>4. ftRowOff' \in BOOLEAN /\ (ftRowOff => ftRowOff')
      BY <1>0, <3>2, Zenon
    <3> QED
      BY <3>3, <3>4
  <2>5. /\ ftAt' \in [FaultSenders -> FtStands] /\ ftLine' \in Conns \cup {"none"}
        /\ ftOwes' \in {"no", "new", "sent"} /\ FtWaits' /\ FtStored'
    <3>1. CASE OutOfProcess(ftAt[c].val)
      <4>1. Ends(c) /\ ftRowOff'
        BY <2>1, <2>2, <3>1 DEF Gate, Ends
      <4> QED
        BY <2>2, <2>3, <2>4, <4>1, FtEnds
    <3>2. CASE ~OutOfProcess(ftAt[c].val) /\ IgnoredClear(ftAt[c].val)
      <4>1. Ends(c) /\ ftRow' = ftRow /\ ftRowOff' = (ftRowOff \/ ftRow = 1)
        BY <2>1, <2>2, <3>2 DEF Gate, Ends
      <4>3. ~ftRowOff' => ftRow = 0
        <5>1. ~ftRowOff' => ftRow # 1
          BY <4>1, Zenon
        <5>2. ftRow \in 0 .. 1
          BY <1>0
        <5> QED
          BY <5>1, <5>2
      <4>4. c = ftLine /\ ftOwes = "sent" => ftBit = 0
        BY <1>0, <2>2, <3>2, FtSenders DEF FtWaits, IgnoredClear
      <4>2. ~ftRowOff' /\ c = ftLine /\ ftOwes = "sent" => ftRow = ftBit
        BY <4>3, <4>4
      <4> QED
        BY <2>2, <2>3, <2>4, <4>1, <4>2, FtEnds
    <3>3. CASE ~OutOfProcess(ftAt[c].val) /\ ~IgnoredClear(ftAt[c].val)
      <4>1. GoesTo(c, "store") /\ ftRow' = ftRow
        BY <2>1, <3>3 DEF Gate
      <4> QED
        BY <2>2, <2>3, <2>4, <4>1, FtGoes
    <3> QED
      BY <3>1, <3>2, <3>3
  <2>6. UNCHANGED <<ftBit, ftTold, ftQueue, ftView, ftProcess, ftFlips, ftTrips>>
    BY <2>3
  <2> QED
    BY <1>0, <2>4, <2>5, <2>6, FtFrame
<1>7. CASE \E s \in FaultSenders : Store(s)
  <2>1. PICK s \in FaultSenders : Store(s)
    BY <1>7
  <2>2. /\ ftRow' = ftAt[s].val /\ ftRowOff' = (ftRowOff \/ (s # ftLine /\ ftAt[s].val # ftBit)) /\ GoesTo(s, "ask")
        /\ UNCHANGED <<ftKind, ftBit, ftTold, ftQueue, ftView, ftProcess, ftFlips, ftTrips>>
    BY <2>1 DEF Store
  <2>3. ftRowOff' \in BOOLEAN /\ (ftRowOff => ftRowOff') /\ "ask" \in FtPoints /\ ftRow' \in 0 .. 1
    BY <1>0, <2>2 DEF FtPoints
  <2>4. s = ftLine => s # "none" /\ ftOwes # "no"
    BY <1>0, FtSenders DEF FtWaits
  <2>5. ~ftRowOff' => ftRow' = ftBit \/ ftOwes = "new"
    BY <1>0, <2>2, <2>4 DEF FtWaits
  <2>6. ~ftRowOff' /\ s = ftLine /\ ftOwes = "sent" => ftRow' = ftBit
    BY <2>5
  <2>7. /\ ftAt' \in [FaultSenders -> FtStands] /\ ftLine' \in Conns \cup {"none"}
        /\ ftOwes' \in {"no", "new", "sent"} /\ FtWaits' /\ FtStored'
    BY <2>2, <2>3, <2>5, <2>6, FtGoes
  <2> QED
    BY <1>0, <2>2, <2>3, <2>7, FtFrame
<1>8. CASE \E s \in FaultSenders : AskTold(s) \/ Remember(s) \/ Enqueue(s)
  <2>1. PICK s \in FaultSenders : AskTold(s) \/ Remember(s) \/ Enqueue(s)
    BY <1>8
  <2>2. /\ UNCHANGED <<ftKind, ftBit, ftRow, ftView, ftProcess, ftRowOff, ftFlips, ftTrips>>
        /\ ftAt[s].pc \in {"ask", "remember", "queue"}
        /\ (Ends(s) \/ GoesTo(s, "remember") \/ GoesTo(s, "queue"))
    BY <2>1 DEF AskTold, Remember, Enqueue
  <2>3. s = ftLine /\ ftOwes = "sent" /\ ~ftRowOff => ftRow = ftBit
    BY <1>0, <2>2, FtSenders DEF FtStored
  <2>4. /\ ftAt' \in [FaultSenders -> FtStands] /\ ftLine' \in Conns \cup {"none"}
        /\ ftOwes' \in {"no", "new", "sent"} /\ FtWaits' /\ FtStored'
    <3>1. CASE Ends(s)
      BY <2>2, <2>3, <3>1, FtEnds
    <3>2. CASE GoesTo(s, "remember")
      BY <2>2, <2>3, <3>2, FtGoes DEF FtPoints
    <3>3. CASE GoesTo(s, "queue")
      BY <2>2, <2>3, <3>3, FtGoes DEF FtPoints
    <3> QED
      BY <2>2, <3>1, <3>2, <3>3
  <2>5. ftTold' \in {"none", "0", "1"}
    BY <1>0, <2>1 DEF AskTold, Remember, Enqueue, Remembered, Text
  <2>6. ftQueue' \in Seq(FtMessages) /\ OneClear(ftQueue')
    <3>1. CASE ftQueue' = ftQueue
      BY <1>0, <3>1 DEF OneClear
    <3>2. CASE ftQueue' = Enqueued(ftQueue, Message(s))
      <4>1. Message(s) \in FtMessages
        BY <1>0 DEF Message, PrioOf, FtMessages
      <4> QED
        BY <1>0, <3>2, <4>1, FtQueues DEF OneClear
    <3> QED
      BY <2>1, <3>1, <3>2 DEF AskTold, Remember, Enqueue
  <2> QED
    BY <1>0, <2>2, <2>4, <2>5, <2>6, FtFrame DEF OneClear
<1>9. CASE \E s \in FaultSenders : HandlerDies(s)
  <2>1. PICK s \in FaultSenders : HandlerDies(s)
    BY <1>9
  <2>2. /\ ftAt' = [ftAt EXCEPT ![s] = Resting] /\ Trip
        /\ ftLine' = (IF ftLine = s THEN "none" ELSE ftLine)
        /\ ftOwes' = (IF ftLine = s /\ ftKind = "dancer" /\ ftOwes = "sent" THEN "no" ELSE ftOwes)
        /\ ftRowOff' = (ftRowOff \/ ftKind = "dancer")
        /\ UNCHANGED <<ftKind, ftBit, ftRow, ftTold, ftQueue, ftView, ftProcess, ftFlips>>
    BY <2>1 DEF HandlerDies
  <2>3. ftAt' \in [FaultSenders -> FtStands] /\ \A o \in FaultSenders : o # s => ftAt'[o] = ftAt[o]
    BY <1>0, <2>2, FtMoves, FtRests
  <2>4. ftLine' # "none" => ftLine' \in FaultSenders /\ ftLine' = ftLine /\ ftOwes' = ftOwes /\ ftAt'[ftLine'] = ftAt[ftLine]
    BY <1>0, <2>2, <2>3, FtSenders
  <2>5. FtWaits'
    BY <1>0, <2>2, <2>4 DEF FtWaits
  <2>6. FtStored'
    BY <1>0, <2>2, <2>4 DEF FtStored
  <2>7. ftLine' \in Conns \cup {"none"} /\ ftOwes' \in {"no", "new", "sent"}
    BY <1>0, <2>2
  <2>8. ftRowOff' \in BOOLEAN
    BY <1>0, <2>2
  <2> QED
    BY <1>0, <1>t, <2>2, <2>3, <2>5, <2>6, <2>7, <2>8, FtFrame
<1>10. CASE RuntimeClears
  <2> DEFINE stand == [pc |-> "store", val |-> 0]
  <2>1. stand \in FtStands
    BY FtRests DEF FtStands, FtPoints
  <2>2. /\ "runtime" \in FaultSenders /\ Trip /\ ftAt' = [ftAt EXCEPT !["runtime"] = stand]
        /\ UNCHANGED <<ftKind, ftBit, ftOwes, ftLine, ftRow, ftTold, ftQueue, ftView, ftProcess, ftRowOff, ftViewOff, ftFlips>>
    BY <1>10 DEF RuntimeClears
  <2> HIDE DEF stand
  <2>3. ftAt' \in [FaultSenders -> FtStands] /\ \A o \in FaultSenders : o # "runtime" => ftAt'[o] = ftAt[o]
    BY <1>0, <2>1, <2>2, FtMoves
  <2>4. ftLine # "none" => ftAt'[ftLine] = ftAt[ftLine]
    BY <1>0, <2>3, FtSenders
  <2>5. FtWaits' /\ FtStored'
    BY <1>0, <2>2, <2>4 DEF FtWaits, FtStored
  <2> QED
    BY <1>0, <1>t, <2>2, <2>3, <2>5, FtFrame
<1>11. CASE StateChanges
  <2>1. /\ Trip /\ ftProcess' = ~ftProcess
        /\ UNCHANGED <<ftKind, ftBit, ftOwes, ftLine, ftAt, ftRow, ftTold, ftQueue, ftView, ftRowOff, ftViewOff, ftFlips>>
    BY <1>11 DEF StateChanges
  <2>2. FtWaits' /\ FtStored'
    BY <1>0, <2>1 DEF FtWaits, FtStored
  <2>3. ftProcess' \in BOOLEAN
    BY <2>1
  <2> QED
    BY <1>0, <1>t, <2>1, <2>2, <2>3, FtFrame
<1>12. CASE MicrotomReceives
  <2>1. PICK i \in DOMAIN ftQueue :
          /\ ftView' = ftQueue[i].val /\ ftQueue' = RemoveAt(ftQueue, i)
          /\ UNCHANGED <<ftKind, ftBit, ftOwes, ftLine, ftAt, ftRow, ftTold, ftProcess, ftRowOff, ftViewOff, ftFlips, ftTrips>>
    BY <1>12 DEF MicrotomReceives
  <2>2. i \in 1 .. Len(ftQueue) /\ ftQueue[i] \in FtMessages
    BY <1>0
  <2>3. ftView' \in 0 .. 1
    BY <2>1, <2>2 DEF FtMessages
  <2>4. ftQueue' \in Seq(FtMessages) /\ OneClear(ftQueue')
    BY <1>0, <2>1, <2>2, FtRemoves DEF OneClear
  <2>5. FtWaits' /\ FtStored'
    BY <1>0, <2>1 DEF FtWaits, FtStored
  <2> QED
    BY <1>0, <2>1, <2>3, <2>4, <2>5, FtFrame DEF OneClear
<1>13. CASE \E i \in DOMAIN ftQueue, arrived \in BOOLEAN : SendFails(i, arrived)
  <2>1. PICK i \in DOMAIN ftQueue, arrived \in BOOLEAN : SendFails(i, arrived)
    BY <1>13
  <2>2. /\ ftView' = (IF arrived THEN ftQueue[i].val ELSE ftView) /\ Trip
        /\ ftQueue' = [ftQueue EXCEPT ![i].late = TRUE]
        /\ UNCHANGED <<ftKind, ftBit, ftOwes, ftLine, ftAt, ftRow, ftTold, ftProcess, ftRowOff, ftFlips>>
    BY <2>1 DEF SendFails
  <2>3. i \in 1 .. Len(ftQueue) /\ ftQueue[i] \in FtMessages
    BY <1>0
  <2>4. ftView' \in 0 .. 1
    BY <1>0, <2>2, <2>3 DEF FtMessages
  <2>5. ftQueue' \in Seq(FtMessages) /\ OneClear(ftQueue')
    BY <1>0, <2>2, <2>3, FtFails DEF OneClear
  <2>6. FtWaits' /\ FtStored'
    BY <1>0, <2>2 DEF FtWaits, FtStored
  <2> QED
    BY <1>0, <1>t, <2>2, <2>4, <2>5, <2>6, FtFrame DEF OneClear
<1> QED
  BY <1>1, <1>2, <1>3, <1>4, <1>5, <1>6, <1>7, <1>8, <1>9, <1>10, <1>11, <1>12, <1>13 DEF FaultsNext, HandlerStep

\* A fault's row is what the device reported as soon as the device has its answer, through
\* repetitions on new connections, late handlers of old ones and resets of the runtime
\* (router.py:306, handle_device_line), unless the Raspi overrode it; and at most one
\* clear message waits in the outbox (outbox.py:60).
THEOREM FaultsCorrect == FaultsSpec => []FaultsInv
<1>1. FaultsIInv => FaultsInv
  BY DEF FaultsIInv, FtTyped, FtStored, FaultsInv, RowIsReported
<1> QED
  BY FaultsStart, FaultsSteps, <1>1, PTL DEF FaultsSpec
=============================================================================
