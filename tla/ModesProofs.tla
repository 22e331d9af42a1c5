----------------------------- MODULE ModesProofs ------------------------------
(* Theorems about Modes, for any starting states and any number of commands,  *)
(* presses, label pauses, changes of inputs and restarts.                     *)
EXTENDS Modes, TLAPS

-----------------------------------------------------------------------------
(* The inductive invariant                                                   *)

Shown == StartStates \cup (2 .. 9) \cup {12, 13, 21}
Before == {"gate", "setup", "decide", "act"}    \* the drives have not been touched
After == {"watch", "check", "store"}
Refs == [pc : {"idle"} \cup Before \cup After, snap : Rows, now : Rows, cmd : Commands,
         light : BOOLEAN, err : BOOLEAN, held : BOOLEAN, forced : {0, 9, 21}, over : {0, 7, 9},
         direct : BOOLEAN, new : States, req : States, newer : BOOLEAN, moved : BOOLEAN]
Handlers == [pc : {"idle", "stop", "enter", "entered", "fault"}, copy : Rows, stale : BOOLEAN]
Hists == [stop : BOOLEAN, late : BOOLEAN, raced : BOOLEAN, lost : BOOLEAN]

Producing(r) == r.cur = 5 /\ r.active

\* Types, and the states a refresh has read and decided on.
Typed ==
  /\ TypeOK
  /\ ref \in Refs /\ ev \in Handlers /\ hist \in Hists
  /\ ref.snap.cur \in Shown
  /\ ref.pc \in {"act"} \cup After => ref.new \in Shown

\* What a refresh read stands in the row until somebody else writes it, and nobody else
\* writes state 5.
SnapStands ==
  ref.pc # "idle" => IF ref.newer THEN row.cur # 5 ELSE row = ref.snap

\* A pending start is one of the transition 4; a refresh that starts began in 4 or a pause.
StartFromPause ==
  /\ row.pend => row.cur = 4
  /\ ref.snap.pend => ref.snap.cur = 4
  /\ ref.now.pend \/ ref.moved => ref.snap.cur \in {4, 7, 13}
  /\ ref.moved => ref.pc \in After
  /\ ref.pc \in Before => ref.now.active = ref.snap.active
  /\ ref.pc \in After /\ ref.now.pend => ref.new = 4

\* A runner that runs has a row in production: the one the next refresh reads, the one a
\* refresh has read and is about to take over, or the one it is about to write.
RunnerKnown ==
  runner = "run" /\ ~hist.lost /\ ~hist.raced =>
    /\ ref.pc = "idle" => Producing(row)
    /\ ref.pc # "idle" /\ ~ref.moved => Producing(ref.snap) /\ ~ref.newer
    /\ ref.pc \in After => ref.new = 5 /\ ref.now.active

\* A handler that is about to write the pause from a copy that is not stale has seen the
\* runner stopped: only a refresh that has just started it can have it running.
PauseStopped ==
  runner = "run" /\ ~hist.lost /\ ~hist.raced /\ ~ev.stale
    /\ ev.pc \in {"enter", "entered", "fault"} => ref.moved

\* A refresh past its second look leaves a pause only if it had read one.
LastLook ==
  ref.pc = "store" /\ ref.new \in {4, 5, 6} /\ row.removal /\ row.cur \in {12, 13} /\ ~hist.raced
    => ref.snap.removal

IInv == Typed /\ SnapStands /\ StartFromPause /\ RunnerKnown /\ PauseStopped /\ LastLook

-----------------------------------------------------------------------------
(* Rows, targets and settled states                                          *)

\* The fields a refresh leaves alone when its working copy of the row changes.
LEMMA RefChanges ==
  ASSUME NEW r \in Refs, NEW n \in Rows, NEW c \in Commands, NEW o \in {0, 7, 9}
  PROVE  /\ [r EXCEPT !.pc = "decide", !.now = n] \in Refs
         /\ [r EXCEPT !.pc = "decide", !.cmd = c, !.over = o, !.direct = TRUE, !.now = n] \in Refs
         /\ [r EXCEPT !.pc = "decide", !.cmd = c, !.over = o, !.now = n] \in Refs
BY DEF Refs, Before

LEMMA Quiet == QuietRow(9) \in Rows /\ Idle \in Refs /\ NoEvent \in Handlers
BY DEF QuietRow, Rows, States, Idle, Refs, Commands, Before, After, NoEvent, Handlers

LEMMA Targets == \A c \in Commands \ {0} : Target[c] \in {3, 5, 7, 9, 13}
BY DEF Commands, Target

LEMMA ShownStates == Shown \subseteq States
BY ModesAssumption DEF Shown, States

\* A settled state is the one that was wanted, its transition, or the pause.
LEMMA SettledShown ==
  ASSUME NEW w \in Shown, NEW s \in States, NEW curtain \in BOOLEAN
  PROVE  Settled(w, s, curtain) \in Shown
<1>1. CASE w \in Finals /\ s \notin {w, w - 1}
  <2>1. w \in {3, 5, 7, 9, 13}
    BY <1>1, ModesAssumption DEF Shown, Finals, Final, Transitions
  <2> QED BY <2>1 DEF Shown, Settled
<1>2. CASE ~(w \in Finals /\ s \notin {w, w - 1})
  BY <1>2 DEF Settled, Shown
<1> QED BY <1>1, <1>2

\* What a refresh wants is a state the machine may show.
LEMMA WantedShown ==
  ASSUME Typed, NEW over \in Recoveries
  PROVE  Wanted(over) \in Shown
<1>1. over \in {0, 7, 9}
  BY DEF Recoveries, Typed, Refs
<1>2. CASE over # 0
  BY <1>1, <1>2 DEF Wanted, Shown
<1>3. CASE over = 0 /\ ref.cmd # 0
  <2>1. Target[ref.cmd] \in {3, 5, 7, 9, 13}
    BY <1>3, Targets DEF Typed, Refs
  <2> QED BY <1>3, <2>1 DEF Wanted, Shown
<1>4. CASE over = 0 /\ ref.cmd = 0
  <2>1. CASE ref.snap.cur \in Transitions /\ ref.snap.req = Final(ref.snap.cur)
    <3>1. ref.snap.req \in {3, 5, 7, 9, 13}
      BY <2>1, ModesAssumption DEF Typed, Shown, Transitions, Final
    <3> QED BY <1>4, <2>1, <3>1 DEF Wanted, Shown
  <2>2. CASE ~(ref.snap.cur \in Transitions /\ ref.snap.req = Final(ref.snap.cur))
    BY <1>4, <2>2 DEF Wanted, Typed
  <2> QED BY <2>1, <2>2
<1> QED BY <1>1, <1>2, <1>3, <1>4

-----------------------------------------------------------------------------
(* The invariant holds                                                       *)

LEMMA InitInv == Init => IInv
<1> SUFFICES ASSUME Init PROVE IInv
  OBVIOUS
<1>1. PICK s \in StartStates : row = QuietRow(s) /\ runner = IF s = 5 THEN "run" ELSE "off"
  BY DEF Init
<1>2. s \in {1, 5, 7, 9} /\ s \in Shown
  BY ModesAssumption DEF Shown
<1>3. row \in Rows /\ row.cur = s /\ ~row.pend /\ row.active = (s = 5)
  BY <1>1, <1>2 DEF QuietRow, Rows, States
<1>4. Typed
  <2>1. ref \in Refs /\ ev \in Handlers /\ hist \in Hists
    BY Quiet DEF Init, Hists
  <2>2. ref.pc = "idle" /\ ref.snap.cur \in Shown
    BY DEF Init, Idle, QuietRow, Shown
  <2>3. TypeOK
    BY <1>1, <1>2, <1>3, <2>1 DEF Init, TypeOK, Shown, Refs, Handlers, Commands
  <2> QED BY <2>1, <2>2, <2>3 DEF Typed, After
<1>5. SnapStands /\ StartFromPause /\ RunnerKnown /\ PauseStopped /\ LastLook
  BY <1>1, <1>2, <1>3 DEF Init, Idle, NoEvent, QuietRow, SnapStands, StartFromPause, RunnerKnown,
     PauseStopped, LastLook, Before, After, Producing
<1> QED BY <1>4, <1>5 DEF IInv

LEMMA PlantKeepsInv ==
  ASSUME IInv, InputChange \/ RunnerPauses \/ Command
  PROVE  IInv'
<1> USE DEF IInv, world
<1>1. CASE InputChange
  <2>1. light' \in BOOLEAN /\ pauseErr' \in BOOLEAN /\ held' \in BOOLEAN
    <3>1. light \in BOOLEAN /\ pauseErr \in BOOLEAN /\ held \in BOOLEAN
      BY DEF Typed, TypeOK
    <3> QED BY <1>1, <3>1, Zenon DEF InputChange
  <2>2. UNCHANGED <<row, cmd, runner, event, ref, ev, hist>>
    BY <1>1 DEF InputChange
  <2>3. Typed'
    BY <2>1, <2>2 DEF Typed, TypeOK
  <2> QED BY <2>2, <2>3 DEF SnapStands, StartFromPause, RunnerKnown, PauseStopped, LastLook
<1>2. CASE RunnerPauses
  <2>1. Typed'
    BY <1>2 DEF RunnerPauses, Typed, TypeOK
  <2> QED BY <1>2, <2>1 DEF RunnerPauses, SnapStands, StartFromPause, RunnerKnown, PauseStopped, LastLook
<1>3. CASE Command
  <2>1. hist' \in Hists /\ hist'.lost = hist.lost /\ hist'.raced = hist.raced /\ cmd' \in Commands
    BY <1>3 DEF Command, Noted, Typed, Hists
  <2>2. Typed'
    BY <1>3, <2>1 DEF Command, Typed, TypeOK
  <2> QED BY <1>3, <2>1, <2>2 DEF Command, SnapStands, StartFromPause, RunnerKnown, PauseStopped, LastLook
<1> QED BY <1>1, <1>2, <1>3

\* A write of the row by others leaves the handler alone but for its stale copy.
LEMMA HandlerWaits ==
  ASSUME ev \in Handlers, RowChanged
  PROVE  /\ ev' \in Handlers /\ ev'.pc = ev.pc /\ ev'.copy = ev.copy
         /\ ev.pc # "idle" /\ ~ev'.stale => ~ev.stale /\ row' = row
         /\ ev.pc = "idle" => ev' = ev
BY DEF RowChanged, EventAt, Handlers

LEMMA PressKeepsInv ==
  ASSUME IInv, Press
  PROVE  IInv'
<1> USE DEF IInv, world
<1>1. PICK c \in Commands \ {0}, queued \in BOOLEAN :
        /\ IF held \/ row.cur = 21 THEN c = 2 ELSE Allowed(c, row.cur) /\ ~Blocked(c, light)
        /\ cmd' = c /\ Noted(c, FALSE)
        /\ row' = IF c = 3 /\ queued THEN [row EXCEPT !.cur = 2, !.req = 3, !.hmi = TRUE]
                  ELSE [row EXCEPT !.req = Target[c]]
  BY DEF Press
<1>2. hist' \in Hists /\ hist'.lost = hist.lost /\ hist'.raced = hist.raced /\ cmd' \in Commands
  BY <1>1 DEF Noted, Typed, Hists
<1>3. /\ row' \in Rows /\ row'.active = row.active /\ row'.pend = row.pend
      /\ row'.removal = row.removal
      /\ row'.cur = row.cur \/ (row'.cur = 2 /\ row.cur = 9)
  <2>1. Target[c] \in States /\ row \in Rows
    BY Targets DEF States, Typed, TypeOK
  <2>2. CASE c = 3 /\ queued
    <3>1. row.cur = 9 \/ c = 2
      BY <1>1, <2>2 DEF Allowed
    <3>2. row' = [row EXCEPT !.cur = 2, !.req = 3, !.hmi = TRUE]
      BY <1>1, <2>2
    <3>3. row' \in Rows
      <4>1. 2 \in States /\ 3 \in States
        BY DEF States
      <4> QED BY <2>1, <3>2, <4>1 DEF Rows
    <3>4. row'.active = row.active /\ row'.pend = row.pend /\ row'.removal = row.removal
          /\ row'.cur = 2
      BY <2>1, <3>2 DEF Rows
    <3> QED BY <2>2, <3>1, <3>3, <3>4
  <2>3. CASE ~(c = 3 /\ queued)
    <3>1. row' = [row EXCEPT !.req = Target[c]]
      BY <1>1, <2>3
    <3> QED BY <2>1, <3>1 DEF Rows
  <2> QED BY <2>2, <2>3
<1>4. row'.cur \in Shown
  BY <1>3 DEF Typed, TypeOK, Shown
<1>5. ev' \in Handlers /\ ev'.pc = ev.pc /\ (ev.pc # "idle" /\ ~ev'.stale => ~ev.stale)
  BY HandlerWaits DEF Press, Typed
<1>6. ref.pc = "idle" /\ ref' = ref /\ runner' = runner
  BY DEF Press, RefreshAt
<1>7. Typed'
  BY <1>2, <1>3, <1>4, <1>5 DEF Press, Typed, TypeOK, Shown, Handlers
<1> QED BY <1>2, <1>3, <1>5, <1>6, <1>7
        DEF SnapStands, StartFromPause, RunnerKnown, PauseStopped, LastLook, Producing, After, Before

\* The gate and the setup change neither the runner (they only stop it), nor what a
\* refresh knows of it.
LEMMA GateKeepsInv ==
  ASSUME IInv,
         Begin \/ Reset \/ HeldGate \/ RejectCommand \/ StartCommand \/ PassCommand \/ SetupBegin \/ SetupEnd
  PROVE  IInv'
<1> USE DEF IInv, world
<1>1. CASE Begin
  <2>1. ref' \in Refs /\ ref'.pc = "gate" /\ ref'.snap = row /\ ref'.now = row
        /\ ~ref'.newer /\ ~ref'.moved /\ ref.pc = "idle"
    <3>1. ref' = [pc |-> "gate", snap |-> row, now |-> row, cmd |-> cmd, light |-> light,
                  err |-> pauseErr, held |-> held, forced |-> 0, over |-> 0, direct |-> FALSE,
                  new |-> 0, req |-> 0, newer |-> FALSE, moved |-> FALSE]
      BY <1>1 DEF Begin, Idle
    <3>2. row \in Rows /\ cmd \in Commands /\ light \in BOOLEAN /\ pauseErr \in BOOLEAN
          /\ held \in BOOLEAN /\ 0 \in States
      BY DEF Typed, TypeOK, States
    <3>3. ref' \in Refs
      BY <3>1, <3>2 DEF Refs, Before
    <3>4. ref.pc = "idle"
      BY <1>1 DEF Begin, RefreshAt
    <3> QED BY <3>1, <3>3, <3>4
  <2>2. Typed'
    <3>1. row.cur \in Shown /\ UNCHANGED <<row, cmd, light, pauseErr, held, event, runner, ev, hist>>
      BY <1>1 DEF Begin, Typed, TypeOK, Shown
    <3>2. ref'.cmd \in Commands /\ ref'.new \in States /\ ref'.req \in States
          /\ ref'.forced \in {0, 9, 21} /\ ref'.over \in {0, 7, 9} /\ ref'.snap \in Rows
          /\ ref'.now \in Rows
      BY <2>1 DEF Refs
    <3> QED BY <2>1, <3>1, <3>2 DEF Typed, TypeOK, After
  <2> QED BY <1>1, <2>1, <2>2
          DEF Begin, SnapStands, StartFromPause, RunnerKnown, PauseStopped, LastLook, Before, After
<1>2. CASE Reset \/ HeldGate \/ RejectCommand \/ StartCommand \/ PassCommand
  <2>1. /\ ref' \in Refs /\ ref.pc = "gate" /\ ref'.pc = "decide" /\ ref'.snap = ref.snap
        /\ ref'.newer = ref.newer /\ ref'.moved = ref.moved /\ ref'.now.active = ref.now.active
        /\ ref'.now.pend => ref.now.pend \/ ref.snap.cur \in {7, 13}
    <3> USE DEF RefreshAt, Typed, Refs, Before, After
    <3>1. CASE Reset
      BY <1>2, <3>1 DEF Reset, Commands
    <3>2. CASE HeldGate
      <4>1. ref' \in {[ref EXCEPT !.pc = "decide", !.cmd = 0, !.forced = 21],
                      [ref EXCEPT !.pc = "decide", !.forced = 21]} /\ ref.pc = "gate"
        BY <3>2 DEF HeldGate
      <4> QED BY <4>1 DEF Commands
    <3>3. CASE RejectCommand
      BY <1>2, <3>3 DEF RejectCommand, AtGate, Commands
    <3>4. CASE StartCommand
      <4>1. ref.snap.cur \in {7, 13}
        BY <3>4 DEF StartCommand, Consumed, Allowed
      <4> DEFINE with(b) == [ref.now EXCEPT !.pend = b]
      <4>2. /\ with(TRUE) \in Rows /\ with(TRUE).active = ref.now.active
            /\ with(FALSE) \in Rows /\ with(FALSE).active = ref.now.active /\ ~with(FALSE).pend
        <5>1. ref.now \in Rows
          OBVIOUS
        <5> QED BY <5>1 DEF Rows
      <4>3. ref.pc = "gate" /\ 0 \in Commands
        BY <3>4 DEF StartCommand, AtGate, Commands
      <4>4. CASE ref' = [ref EXCEPT !.pc = "decide", !.cmd = 0, !.now = with(FALSE)]
        <5> HIDE DEF with
        <5> QED BY <4>2, <4>3, <4>4
      <4>5. CASE ref' = [ref EXCEPT !.pc = "decide", !.err = FALSE, !.now = with(TRUE)]
        <5> HIDE DEF with
        <5> QED BY <4>1, <4>2, <4>3, <4>5
      <4> QED BY <3>4, <4>4, <4>5 DEF StartCommand
    <3>5. CASE PassCommand
      <4>1. ref' = [ref EXCEPT !.pc = "decide", !.now.pend = @ /\ ref.cmd # 7] /\ ref.pc = "gate"
        BY <3>5 DEF PassCommand, AtGate
      <4>2. (ref.now.pend /\ ref.cmd # 7) \in BOOLEAN
        OBVIOUS
      <4> QED BY <4>1, <4>2 DEF Rows
    <3> QED BY <1>2, <3>1, <3>2, <3>3, <3>4, <3>5
  <2>2. /\ cmd' \in Commands /\ runner' \in {runner, "off"} /\ hist' \in Hists
        /\ held' \in BOOLEAN /\ pauseErr' \in BOOLEAN /\ light' = light /\ event' = event
        /\ hist'.lost = hist.lost /\ hist'.raced = hist.raced /\ row' = row /\ ev' = ev
    BY <1>2 DEF Reset, HeldGate, RejectCommand, StartCommand, PassCommand, HardStop, Typed, TypeOK,
       Commands, Hists
  <2>3. Typed'
    BY <2>1, <2>2 DEF Typed, TypeOK, Refs, After
  <2> QED BY <2>1, <2>2, <2>3
          DEF SnapStands, StartFromPause, RunnerKnown, PauseStopped, LastLook, Before, After
<1>3. CASE SetupBegin
  <2>1. ref.snap.cur \in {2, 9} /\ ref.pc = "gate"
    BY <1>3 DEF SetupBegin, Consumed, Allowed, AtGate, RefreshAt
  <2>2. /\ ref' \in Refs /\ ref'.pc = "setup" /\ ref'.snap = ref.snap /\ ref'.newer
        /\ ref'.moved = ref.moved /\ ref'.now.active = ref.now.active /\ ref'.now.pend = ref.now.pend
        /\ row' \in Rows /\ row'.cur = 2 /\ row'.pend = ref.now.pend
    <3> DEFINE started == [ref.now EXCEPT !.removal = FALSE, !.setup = "running"]
    <3>1. ref' = [ref EXCEPT !.pc = "setup", !.now = started, !.newer = TRUE]
          /\ row' = [started EXCEPT !.cur = 2, !.req = 3]
      BY <1>3 DEF SetupBegin
    <3>2. ref \in Refs /\ ref.now \in Rows
      BY DEF Typed, Refs
    <3>3. started \in Rows /\ started.pend = ref.now.pend /\ started.active = ref.now.active
      BY <3>2 DEF Rows
    <3>4. row' \in Rows
      <4>1. 2 \in States /\ 3 \in States
        BY DEF States
      <4> HIDE DEF started
      <4> QED BY <3>1, <3>3, <4>1 DEF Rows
    <3>5. row'.cur = 2 /\ row'.pend = ref.now.pend
      BY <3>1, <3>3 DEF Rows
    <3> HIDE DEF started
    <3> QED BY <3>1, <3>2, <3>3, <3>4, <3>5 DEF Refs, Before
  <2>3. ev' \in Handlers /\ ev'.pc = ev.pc /\ (ev.pc # "idle" /\ ~ev'.stale => ~ev.stale)
    BY <1>3, HandlerWaits DEF SetupBegin, Typed
  <2>4. Typed'
    <3>1. UNCHANGED <<light, pauseErr, held, runner, event, hist>> /\ cmd' = 0
      BY <1>3 DEF SetupBegin
    <3>2. ref'.cmd \in Commands /\ ref'.new \in States /\ ref'.req \in States
          /\ ref'.forced \in {0, 9, 21} /\ ref'.over \in {0, 7, 9} /\ ref'.snap \in Rows
          /\ ref'.now \in Rows
      BY <2>2 DEF Refs
    <3>3. ev'.pc \in {"idle", "stop", "enter", "entered", "fault"} /\ ev'.copy \in Rows
      BY <2>3 DEF Handlers
    <3> QED BY <2>2, <2>3, <3>1, <3>2, <3>3 DEF Typed, TypeOK, Commands, After
  <2>5. ~ref.now.pend /\ ~ref.moved
    BY <2>1 DEF StartFromPause
  <2>6. runner = "run" => hist.lost \/ hist.raced
    BY <2>1, <2>5 DEF RunnerKnown, Producing
  <2> QED BY <1>3, <2>1, <2>2, <2>3, <2>4, <2>5, <2>6
          DEF SetupBegin, SnapStands, StartFromPause, RunnerKnown, PauseStopped, LastLook, Before, After
<1>4. CASE SetupEnd
  <2>1. /\ ref' \in Refs /\ ref.pc = "setup" /\ ref'.pc = "decide" /\ ref'.snap = ref.snap
        /\ ref'.newer = ref.newer /\ ref'.moved = ref.moved /\ ref'.now.active = ref.now.active
        /\ ref'.now.pend = ref.now.pend /\ cmd' \in Commands
    <3> DEFINE with(x) == [ref.now EXCEPT !.setup = x]
    <3>1. ref.pc = "setup" /\ ref \in Refs /\ {0, 2} \subseteq Commands /\ cmd \in Commands
      BY <1>4 DEF SetupEnd, RefreshAt, Typed, TypeOK, Commands
    <3>2. ASSUME NEW x \in {"done", "failed", "partial"}
          PROVE  with(x) \in Rows /\ with(x).active = ref.now.active /\ with(x).pend = ref.now.pend
      <4>1. ref.now \in Rows
        BY <3>1 DEF Refs
      <4> QED BY <4>1 DEF Rows
    <3>3. CASE /\ cmd' = 0
               /\ ref' = [ref EXCEPT !.pc = "decide", !.cmd = 0, !.over = 7, !.direct = TRUE,
                                     !.now = with("done")]
      <4> HIDE DEF with
      <4>1. ref' \in Refs
        BY <3>1, <3>2, <3>3, RefChanges DEF Before
      <4> QED BY <3>1, <3>2, <3>3, <4>1 DEF Refs
    <3>4. CASE /\ cmd' = 2
               /\ ref' = [ref EXCEPT !.pc = "decide", !.cmd = 2, !.over = 9, !.now = with("failed")]
      <4> HIDE DEF with
      <4>1. ref' \in Refs
        BY <3>1, <3>2, <3>4, RefChanges DEF Before
      <4> QED BY <3>1, <3>2, <3>4, <4>1 DEF Refs
    <3>5. CASE cmd' = cmd /\ ref' = [ref EXCEPT !.pc = "decide", !.now = with("partial")]
      <4> HIDE DEF with
      <4>1. ref' \in Refs
        BY <3>1, <3>2, <3>5, RefChanges DEF Before
      <4> QED BY <3>1, <3>2, <3>5, <4>1 DEF Refs
    <3> QED BY <1>4, <3>3, <3>4, <3>5 DEF SetupEnd
  <2>2. Typed'
    BY <1>4, <2>1 DEF SetupEnd, Typed, TypeOK, Refs, After
  <2> QED BY <1>4, <2>1, <2>2
          DEF SetupEnd, SnapStands, StartFromPause, RunnerKnown, PauseStopped, LastLook, Before, After
<1> QED BY <1>1, <1>2, <1>3, <1>4

\* A refresh that has given up knows of no runner but the one the row shows.
LEMMA GaveUp ==
  ASSUME Typed, SnapStands, RunnerKnown, ref.pc # "idle", ~ref.moved, runner = "run", ~hist.lost,
         ~hist.raced
  PROVE  Producing(row) /\ row = ref.snap /\ ~ref.newer
BY DEF SnapStands, RunnerKnown

LEMMA DecideKeepsInv ==
  ASSUME IInv, Decide
  PROVE  IInv'
<1> USE DEF IInv
<1>1. PICK over \in Recoveries :
        LET wanted == IF PauseForced THEN 7 ELSE Wanted(over)
        IN ref' =
             IF ref.forced # 0 THEN Decided(ref.forced, ref.forced)
             ELSE IF ref.direct THEN Decided(7, 7)
             ELSE Decided(Settled(wanted, ref.snap.cur, ref.light), IF LightPause THEN 7 ELSE wanted)
  BY DEF Decide
<1>2. ref \in Refs /\ ref.forced \in {0, 9, 21} /\ ref.snap.cur \in States /\ ref.light \in BOOLEAN
  BY ShownStates DEF Typed, Refs
<1>3. {7, 9, 21} \subseteq Shown
  BY DEF Shown
<1>4. \E new \in Shown, req \in States : ref' = Decided(new, req)
  <2> DEFINE wanted == IF PauseForced THEN 7 ELSE Wanted(over)
  <2>1. wanted \in Shown
    BY <1>3, WantedShown
  <2>2. Settled(wanted, ref.snap.cur, ref.light) \in Shown
    <3> HIDE DEF wanted
    <3> QED BY <1>2, <2>1, SettledShown
  <2>3. (IF LightPause THEN 7 ELSE wanted) \in States
    BY <1>3, <2>1, ShownStates
  <2>4. CASE ref.forced # 0
    <3>1. ref.forced \in Shown /\ ref.forced \in States
      BY <1>2, <1>3, <2>4, ShownStates
    <3> QED BY <1>1, <2>4, <3>1
  <2>5. CASE ref.forced = 0 /\ ref.direct
    <3>1. 7 \in Shown /\ 7 \in States
      BY <1>3, ShownStates
    <3>2. ref' = Decided(7, 7)
      BY <1>1, <2>5
    <3> QED BY <3>1, <3>2
  <2>6. CASE ref.forced = 0 /\ ~ref.direct
    <3>1. ref' = Decided(Settled(wanted, ref.snap.cur, ref.light), IF LightPause THEN 7 ELSE wanted)
      BY <1>1, <2>6
    <3> QED BY <2>2, <2>3, <3>1
  <2> QED BY <2>4, <2>5, <2>6
<1>5. PICK new \in Shown, req \in States : ref' = Decided(new, req)
  BY <1>4
<1>6. /\ UNCHANGED <<row, cmd, light, pauseErr, held, runner, event, ev, hist>>
      /\ ref.pc = "decide" /\ ~ref.moved
  BY DEF Decide, world, RefreshAt, StartFromPause, After
<1>7. CASE ref' = Idle
  <2>1. Typed'
    BY <1>6, <1>7, Quiet DEF Typed, TypeOK, Idle, Refs, QuietRow, Shown, After
  <2>2. RunnerKnown'
    BY <1>6, <1>7, GaveUp DEF RunnerKnown, Idle, After
  <2> QED BY <1>6, <1>7, <2>1, <2>2
          DEF Idle, QuietRow, SnapStands, StartFromPause, PauseStopped, LastLook, Before, After
<1>8. CASE ref' = [ref EXCEPT !.pc = "act", !.new = new, !.req = req]
  <2>1. ref' \in Refs
    BY <1>2, <1>5, <1>8, ShownStates DEF Refs, Before
  <2>2. /\ ref'.pc = "act" /\ ref'.new = new /\ ref'.snap = ref.snap /\ ref'.now = ref.now
        /\ ref'.newer = ref.newer /\ ref'.moved = ref.moved
    BY <1>2, <1>8 DEF Refs
  <2>3. Typed'
    <3>1. ref'.cmd \in Commands /\ ref'.new \in States /\ ref'.req \in States
          /\ ref'.forced \in {0, 9, 21} /\ ref'.over \in {0, 7, 9} /\ ref'.snap \in Rows
          /\ ref'.now \in Rows
      BY <2>1 DEF Refs
    <3> QED BY <1>5, <1>6, <2>1, <2>2, <3>1 DEF Typed, TypeOK, After
  <2> QED BY <1>6, <2>2, <2>3
          DEF SnapStands, StartFromPause, RunnerKnown, PauseStopped, LastLook, Before, After
<1> QED BY <1>5, <1>7, <1>8 DEF Decided

\* What the drives leave in the refresh when they are started ...
LEMMA StartedRefs ==
  ASSUME ref \in Refs, Acted("watch", 5, 5, TRUE, FALSE, FALSE)
  PROVE  /\ ref' \in Refs /\ ref'.pc = "watch" /\ ref'.new = 5 /\ ref'.snap = ref.snap
         /\ ref'.now.active /\ ~ref'.now.pend /\ ref'.newer = ref.newer /\ ref'.moved
<1> DEFINE now == [ref.now EXCEPT !.active = TRUE, !.pend = FALSE, !.removal = FALSE]
<1>1. ref' = [ref EXCEPT !.pc = "watch", !.new = 5, !.req = 5, !.now = now, !.moved = TRUE]
  BY DEF Acted
<1>2. now \in Rows /\ now.active /\ ~now.pend
  <2>1. ref.now \in Rows
    BY DEF Refs
  <2> QED BY <2>1 DEF Rows
<1>3. 5 \in States /\ "watch" \in After
  BY DEF After, States
<1> HIDE DEF now
<1> QED BY <1>1, <1>2, <1>3 DEF Refs

\* ... when they are stopped, or not started.
LEMMA StoppedRefs ==
  ASSUME ref \in Refs, NEW new \in Shown, NEW req \in States,
         Acted("check", new, req, FALSE, FALSE, ref.now.removal)
  PROVE  /\ ref' \in Refs /\ ref'.pc = "check" /\ ref'.new = new /\ ref'.snap = ref.snap
         /\ ~ref'.now.active /\ ~ref'.now.pend /\ ref'.newer = ref.newer /\ ~ref'.moved
<1> DEFINE now == [ref.now EXCEPT !.active = FALSE, !.pend = FALSE, !.removal = ref.now.removal]
<1>1. ref' = [ref EXCEPT !.pc = "check", !.new = new, !.req = req, !.now = now, !.moved = FALSE]
  BY DEF Acted
<1>2. now \in Rows /\ ~now.active /\ ~now.pend
  <2>1. ref.now \in Rows
    BY DEF Refs
  <2> QED BY <2>1 DEF Rows
<1>3. new \in States /\ "check" \in After
  BY ShownStates DEF After
<1> HIDE DEF now
<1> QED BY <1>1, <1>2, <1>3 DEF Refs

\* Types of a state in which only the refresh, the runner and flags have changed.
LEMMA StepTyped ==
  ASSUME Typed, ref' \in Refs, ref'.snap.cur \in Shown, ref'.pc \in {"act"} \cup After => ref'.new \in Shown,
         UNCHANGED <<row, light, pauseErr, event, ev>>, cmd' \in Commands, held' \in BOOLEAN,
         runner' \in {"off", "run", "paused"}, hist' \in Hists
  PROVE  Typed'
<1>1. ref'.cmd \in Commands /\ ref'.new \in States /\ ref'.req \in States
      /\ ref'.forced \in {0, 9, 21} /\ ref'.over \in {0, 7, 9} /\ ref'.snap \in Rows
      /\ ref'.now \in Rows
  BY DEF Refs
<1> QED BY <1>1 DEF Typed, TypeOK, After

\* What a Lost step does to the history.
LEMMA LostNoted ==
  ASSUME hist \in Hists, NEW was \in BOOLEAN, Lost(was)
  PROVE  hist' \in Hists /\ hist'.raced = hist.raced /\ (~hist'.lost => ~hist.lost /\ ~was)
BY DEF Lost, Hists

\* A refresh that stops or has stopped the drives, and is not the mover any more.
LEMMA StoppedKeepsInv ==
  ASSUME IInv, Typed', RowChanged,
         UNCHANGED row, ref.pc # "idle", ref'.pc = "check", ref'.snap = ref.snap, ref'.newer = ref.newer,
         ~ref'.moved, ~ref'.now.pend, ~ref'.now.active,
         runner' # "run" \/ hist'.lost \/ hist'.raced
  PROVE  IInv'
BY HandlerWaits DEF IInv, SnapStands, StartFromPause, RunnerKnown, PauseStopped, LastLook, Before, After

LEMMA DrivesKeepInv ==
  ASSUME IInv, StopDrives \/ StartDrives \/ NoDrives
  PROVE  IInv'
<1> USE DEF IInv
<1>1. /\ ref.pc = "act" /\ ~ref.moved /\ ref \in Refs /\ ref.new \in Shown /\ ref.req \in States
      /\ ref.snap.cur \in Shown /\ ref.now.removal \in BOOLEAN /\ hist \in Hists
      /\ UNCHANGED <<row, light, pauseErr, event, ev>>
  BY DEF StopDrives, StartDrives, NoDrives, RefreshAt, StartFromPause, After, Typed, Refs, Rows, world
<1>2. /\ cmd \in Commands /\ 0 \in Commands /\ held \in BOOLEAN
      /\ runner \in {"off", "run", "paused"} /\ {5, 7, 13, 21} \subseteq Shown
      /\ {5, 7, 13, 21} \subseteq States /\ {"watch", "check"} \subseteq After
  BY DEF Typed, TypeOK, Commands, Shown, States, After
<1>3. RowChanged
  BY <1>1 DEF RowChanged, Typed, Handlers
<1>4. CASE StopDrives
  <2>1. CASE /\ Acted("check", ref.new, ref.req, FALSE, FALSE, ref.now.removal)
             /\ runner' = "off"
             /\ cmd' = IF ref.cmd = 7 /\ ref.req = 7 THEN 0 ELSE cmd
             /\ UNCHANGED <<held, hist>>
    <3>1. /\ ref' \in Refs /\ ref'.pc = "check" /\ ref'.new = ref.new /\ ref'.snap = ref.snap
          /\ ~ref'.now.active /\ ~ref'.now.pend /\ ref'.newer = ref.newer /\ ~ref'.moved
      BY <1>1, <1>2, <2>1, StoppedRefs
    <3>2. Typed'
      BY <1>1, <1>2, <2>1, <3>1, StepTyped
    <3> QED BY <1>1, <1>3, <2>1, <3>1, <3>2, StoppedKeepsInv
  <2>2. CASE /\ Acted("check", 21, 21, FALSE, FALSE, ref.now.removal)
             /\ runner' \in {runner, "off"}
             /\ held' = TRUE
             /\ Lost(runner' = "run")
             /\ UNCHANGED cmd
    <3>1. /\ ref' \in Refs /\ ref'.pc = "check" /\ ref'.new = 21 /\ ref'.snap = ref.snap
          /\ ~ref'.now.active /\ ~ref'.now.pend /\ ref'.newer = ref.newer /\ ~ref'.moved
      BY <1>1, <1>2, <2>2, StoppedRefs
    <3>2. hist' \in Hists /\ (~hist'.lost => runner' # "run")
      BY <1>1, <2>2, LostNoted
    <3>3. Typed'
      BY <1>1, <1>2, <2>2, <3>1, <3>2, StepTyped
    <3> QED BY <1>1, <1>3, <3>1, <3>2, <3>3, StoppedKeepsInv
  <2> QED BY <1>4, <2>1, <2>2 DEF StopDrives
<1>5. CASE StartDrives
  <2>1. ref.snap.cur \in {4, 7, 13} /\ (runner = "run" => hist.lost \/ hist.raced)
    BY <1>1, <1>5 DEF StartDrives, Starting, StartFromPause, RunnerKnown, Producing
  <2>2. CASE /\ Acted("watch", 5, 5, TRUE, FALSE, FALSE)
             /\ runner' = "run"
             /\ UNCHANGED <<cmd, hist>>
    <3>1. /\ ref' \in Refs /\ ref'.pc = "watch" /\ ref'.new = 5 /\ ref'.snap = ref.snap
          /\ ref'.now.active /\ ~ref'.now.pend /\ ref'.newer = ref.newer /\ ref'.moved
      BY <1>1, <1>2, <2>2, StartedRefs
    <3>2. held' = held
      BY <1>5 DEF StartDrives
    <3>3. Typed'
      BY <1>1, <1>2, <2>2, <3>1, <3>2, StepTyped
    <3> QED BY <1>1, <2>1, <3>1, <3>3
            DEF SnapStands, StartFromPause, RunnerKnown, PauseStopped, LastLook, Before, After
  <2>3. CASE /\ LET s == IF ref.now.removal THEN 13 ELSE 7
                IN Acted("check", s, s, FALSE, FALSE, ref.now.removal)
             /\ cmd' = 0
             /\ UNCHANGED <<runner, hist>>
    <3>1. /\ ref' \in Refs /\ ref'.pc = "check" /\ ref'.new \in Shown /\ ref'.snap = ref.snap
          /\ ~ref'.now.active /\ ~ref'.now.pend /\ ref'.newer = ref.newer /\ ~ref'.moved
      <4>1. CASE ref.now.removal
        <5>1. Acted("check", 13, 13, FALSE, FALSE, ref.now.removal)
          BY <2>3, <4>1
        <5> QED BY <1>1, <1>2, <5>1, StoppedRefs
      <4>2. CASE ~ref.now.removal
        <5>1. Acted("check", 7, 7, FALSE, FALSE, ref.now.removal)
          BY <2>3, <4>2
        <5> QED BY <1>1, <1>2, <5>1, StoppedRefs
      <4> QED BY <4>1, <4>2
    <3>2. held' = held
      BY <1>5 DEF StartDrives
    <3>3. Typed'
      BY <1>1, <1>2, <2>3, <3>1, <3>2, StepTyped
    <3> QED BY <1>1, <1>3, <2>1, <2>3, <3>1, <3>3, StoppedKeepsInv
  <2>4. CASE /\ Acted("check", 7, 7, FALSE, FALSE, ref.now.removal)
             /\ runner' \in {"off", "run"}
             /\ Lost(runner' = "run")
             /\ UNCHANGED cmd
    <3>1. /\ ref' \in Refs /\ ref'.pc = "check" /\ ref'.new = 7 /\ ref'.snap = ref.snap
          /\ ~ref'.now.active /\ ~ref'.now.pend /\ ref'.newer = ref.newer /\ ~ref'.moved
      BY <1>1, <1>2, <2>4, StoppedRefs
    <3>2. hist' \in Hists /\ (~hist'.lost => runner' # "run") /\ held' = held
      BY <1>1, <1>5, <2>4, LostNoted DEF StartDrives
    <3>3. Typed'
      BY <1>1, <1>2, <2>4, <3>1, <3>2, StepTyped
    <3> QED BY <1>1, <1>3, <3>1, <3>2, <3>3, StoppedKeepsInv
  <2> QED BY <1>5, <2>2, <2>3, <2>4 DEF StartDrives
<1>6. CASE NoDrives
  <2> DEFINE now == [ref.now EXCEPT !.pend = @ /\ ref.new \in {4, 5}]
  <2>1. now \in Rows /\ now.active = ref.now.active /\ (now.pend => ref.now.pend /\ ref.new \in {4, 5})
    <3>1. ref.now \in Rows /\ (ref.now.pend /\ ref.new \in {4, 5}) \in BOOLEAN
      BY <1>1 DEF Refs
    <3> QED BY <3>1 DEF Rows
  <2>2. PICK pc \in {"watch", "check"} : ref' = [ref EXCEPT !.pc = pc, !.now = now]
    BY <1>6 DEF NoDrives
  <2>3. /\ ref' \in Refs /\ ref'.pc \in After /\ ref'.pc # "store" /\ ref'.new = ref.new
        /\ ref'.snap = ref.snap /\ ref'.now.active = ref.now.active
        /\ (ref'.now.pend => ref.now.pend /\ ref.new \in {4, 5})
        /\ ref'.newer = ref.newer /\ ref'.moved = ref.moved
    <3> HIDE DEF now
    <3> QED BY <1>1, <1>2, <2>1, <2>2 DEF Refs, After
  <2>4. UNCHANGED <<cmd, held, runner, hist>>
    BY <1>6 DEF NoDrives, world
  <2>5. Typed'
    BY <1>1, <1>2, <2>3, <2>4, StepTyped
  <2>6. ref'.now.pend => ref'.new = 4
    BY <1>6, <2>3 DEF NoDrives, Starting
  <2>7. Producing(ref.snap) => ref.new = 5 /\ ref.now.active
    BY <1>1, <1>6 DEF NoDrives, StopDue, Producing, StartFromPause, Before
  <2> QED BY <1>1, <2>3, <2>4, <2>5, <2>6, <2>7
          DEF SnapStands, StartFromPause, RunnerKnown, PauseStopped, LastLook, Before, After
<1> QED BY <1>4, <1>5, <1>6

LEMMA MonitorKeepsInv ==
  ASSUME IInv, Monitor
  PROVE  IInv'
<1> USE DEF IInv
<1>1. /\ ref.pc = "watch" /\ ref \in Refs /\ ref.new \in Shown /\ ref.snap.cur \in Shown /\ hist \in Hists
      /\ ev \in Handlers /\ RowChanged /\ UNCHANGED <<cmd, light, pauseErr, event>>
  BY DEF Monitor, RefreshAt, Typed, After
<1>2. /\ cmd \in Commands /\ held \in BOOLEAN /\ runner \in {"off", "run", "paused"}
      /\ 21 \in Shown /\ 21 \in States /\ 13 \in States /\ 13 \in Shown /\ "check" \in After
  BY DEF Typed, TypeOK, Shown, States, After
<1>3. CASE ref' = [ref EXCEPT !.pc = "check"] /\ UNCHANGED <<row, runner, held, hist>>
  <2>1. /\ ref' \in Refs /\ ref'.pc = "check" /\ ref'.new = ref.new /\ ref'.snap = ref.snap
        /\ ref'.now = ref.now /\ ref'.newer = ref.newer /\ ref'.moved = ref.moved
    BY <1>1, <1>2, <1>3 DEF Refs
  <2>2. ev' = ev
    BY <1>1, <1>3 DEF RowChanged, Handlers
  <2>3. Typed'
    BY <1>1, <1>2, <1>3, <2>1, <2>2, StepTyped
  <2> QED BY <1>1, <1>3, <2>1, <2>2, <2>3
          DEF SnapStands, StartFromPause, RunnerKnown, PauseStopped, LastLook, Before, After
<1>4. CASE /\ Acted("check", 21, 21, FALSE, FALSE, ref.now.removal)
           /\ runner' \in {runner, "off"}
           /\ held' = TRUE
           /\ Lost(runner' = "run")
           /\ UNCHANGED row
  <2>1. /\ ref' \in Refs /\ ref'.pc = "check" /\ ref'.new = 21 /\ ref'.snap = ref.snap
        /\ ~ref'.now.active /\ ~ref'.now.pend /\ ref'.newer = ref.newer /\ ~ref'.moved
    BY <1>1, <1>2, <1>4, StoppedRefs
  <2>2. hist' \in Hists /\ (~hist'.lost => runner' # "run")
    BY <1>1, <1>4, LostNoted
  <2>3. ev' = ev
    BY <1>1, <1>4 DEF RowChanged, Handlers
  <2>4. Typed'
    BY <1>1, <1>2, <1>4, <2>1, <2>2, <2>3, StepTyped
  <2> QED BY <1>1, <1>4, <2>1, <2>2, <2>4, StoppedKeepsInv
<1>5. CASE /\ runner = "paused"
           /\ row' = [ref.now EXCEPT !.cur = 13, !.req = 13, !.active = FALSE, !.pend = FALSE,
                                     !.removal = TRUE]
           /\ ref' = Idle
           /\ UNCHANGED <<runner, held, hist>>
  <2>1. row' \in Rows /\ row'.cur = 13 /\ ~row'.pend
    <3>1. ref.now \in Rows
      BY <1>1 DEF Refs
    <3> QED BY <1>2, <1>5, <3>1 DEF Rows
  <2>2. ev' \in Handlers
    BY <1>1, HandlerWaits
  <2>3. Typed'
    BY <1>1, <1>2, <1>5, <2>1, <2>2, Quiet
       DEF Typed, TypeOK, Idle, Refs, Handlers, QuietRow, Shown, After
  <2> QED BY <1>5, <2>1, <2>3
          DEF SnapStands, StartFromPause, RunnerKnown, PauseStopped, LastLook, Idle, QuietRow, Before, After
<1> QED BY <1>3, <1>4, <1>5 DEF Monitor

LEMMA LookKeepsInv ==
  ASSUME IInv, Check \/ Store
  PROVE  IInv'
<1> USE DEF IInv
<1>1. CASE Check /\ Superseded(ref.new)
  <2>1. /\ ref.pc = "check" /\ ref' = Idle /\ UNCHANGED <<row, cmd, light, pauseErr, held, runner, event, ev>>
        /\ Lost(ref.moved) /\ ref.newer
    <3>1. Lost(Superseded(ref.new) /\ ref.moved)
      BY <1>1 DEF Check
    <3>2. Lost(ref.moved)
      BY <1>1, <3>1 DEF Lost
    <3> QED BY <1>1, <3>2 DEF Check, RefreshAt, world, Superseded
  <2>2. hist' \in Hists /\ hist'.raced = hist.raced /\ (~hist'.lost => ~hist.lost /\ ~ref.moved)
    <3>1. ref.moved \in BOOLEAN /\ hist \in Hists
      BY DEF Typed, Refs
    <3> QED BY <2>1, <3>1, LostNoted
  <2>3. Typed'
    BY <2>1, <2>2, Quiet DEF Typed, TypeOK, Idle, Refs, QuietRow, Shown, After
  <2> QED BY <2>1, <2>2, <2>3
          DEF SnapStands, StartFromPause, RunnerKnown, PauseStopped, LastLook, Idle, QuietRow, Before, After
<1>2. CASE Check /\ ~Superseded(ref.new)
  <2>1. /\ ref.pc = "check" /\ ref' = [ref EXCEPT !.pc = "store"] /\ ref \in Refs
        /\ UNCHANGED <<row, cmd, light, pauseErr, held, runner, event, ev, hist>>
    <3>1. Lost(Superseded(ref.new) /\ ref.moved) /\ hist \in Hists
      BY <1>2 DEF Check, Typed
    <3>2. hist' = hist
      BY <1>2, <3>1 DEF Lost, Hists
    <3> QED BY <1>2, <3>2 DEF Check, RefreshAt, world, Typed
  <2>2. /\ ref' \in Refs /\ ref'.pc = "store" /\ ref'.new = ref.new /\ ref'.snap = ref.snap
        /\ ref'.now = ref.now /\ ref'.newer = ref.newer /\ ref'.moved = ref.moved
    BY <2>1 DEF Refs, After
  <2>3. ref.new \in Shown /\ ref.snap.cur \in Shown
    BY <2>1 DEF Typed, After
  <2>4. Typed'
    BY <2>1, <2>2, <2>3, StepTyped DEF Typed, TypeOK
  <2>5. LastLook'
    BY <1>2, <2>1, <2>2 DEF LastLook, Superseded, SnapStands
  <2> QED BY <2>1, <2>2, <2>4, <2>5
          DEF SnapStands, StartFromPause, RunnerKnown, PauseStopped, Before, After
<1>3. CASE Store
  <2>1. /\ ref.pc = "store" /\ ref' = Idle /\ RowChanged
        /\ UNCHANGED <<cmd, light, pauseErr, held, runner, event>>
        /\ ref.new \in Shown /\ ref.new \in States /\ ref.req \in States /\ ref.now \in Rows
        /\ ref.now.hmi \in BOOLEAN /\ ev \in Handlers
    BY <1>3, ShownStates DEF Store, RefreshAt, world, Typed, Refs, Rows, After
  <2>2. /\ row' \in Rows /\ row'.cur = ref.new /\ row'.active = ref.now.active /\ row'.pend = ref.now.pend
    <3>1. row' = [ref.now EXCEPT !.cur = ref.new, !.req = ref.req, !.hmi = @ /\ ref.new = 2]
      BY <1>3 DEF Store
    <3>2. (ref.now.hmi /\ ref.new = 2) \in BOOLEAN
      OBVIOUS
    <3> QED BY <2>1, <3>1, <3>2 DEF Rows
  <2>3. hist' \in Hists /\ hist'.lost = hist.lost /\ hist'.raced = hist.raced
    BY <1>3 DEF Store, Typed, Hists
  <2>4. /\ ev' \in Handlers /\ ev'.pc = ev.pc
        /\ ev.pc # "idle" /\ ~ev'.stale => ~ev.stale /\ row' = row
    BY <2>1, HandlerWaits
  <2>5. Typed'
    BY <2>1, <2>2, <2>3, <2>4, Quiet
       DEF Typed, TypeOK, Idle, Refs, Handlers, QuietRow, Shown, After
  <2>6. RunnerKnown'
    BY <2>1, <2>2, <2>3 DEF RunnerKnown, Producing, Idle, After
  <2>7. PauseStopped'
    <3> SUFFICES ASSUME runner' = "run", ~hist'.lost, ~hist'.raced, ~ev'.stale,
                        ev'.pc \in {"enter", "entered", "fault"}
                 PROVE  FALSE
      BY DEF PauseStopped
    <3>1. row' = row /\ ref.moved
      BY <2>1, <2>3, <2>4 DEF PauseStopped
    <3>2. row.cur = 5 /\ ref.snap.cur # 5
      BY <2>1, <2>2, <2>3, <3>1 DEF RunnerKnown, StartFromPause, After
    <3> QED BY <2>1, <3>2 DEF SnapStands
  <2>8. StartFromPause'
    BY <2>1, <2>2 DEF StartFromPause, Idle, QuietRow, Before, After
  <2> QED BY <2>1, <2>5, <2>6, <2>7, <2>8 DEF SnapStands, LastLook, Idle
<1> QED BY <1>1, <1>2, <1>3

LEMMA ListenerKeepsInv ==
  ASSUME IInv, EventBegin \/ EventStop
  PROVE  IInv'
<1> USE DEF IInv
<1>1. CASE EventBegin
  <2>1. \/ ev' = NoEvent
        \/ ev' = [pc |-> "stop", copy |-> row, stale |-> FALSE]
        \/ ev' = [pc |-> "enter", copy |-> row, stale |-> FALSE] /\ row.cur \in {7, 13}
    <3>1. CASE \/ row.cur \in {4, 5} /\ row.active
               \/ row.cur = 4 /\ row.req = 5 /\ row.pend
      BY <1>1, <3>1 DEF EventBegin
    <3>2. CASE /\ ~(row.cur \in {4, 5} /\ row.active)
               /\ ~(row.cur = 4 /\ row.req = 5 /\ row.pend)
               /\ row.cur \in {7, 13} /\ row.removal
      BY <1>1, <3>2 DEF EventBegin
    <3>3. CASE /\ ~(row.cur \in {4, 5} /\ row.active)
               /\ ~(row.cur = 4 /\ row.req = 5 /\ row.pend)
               /\ ~(row.cur \in {7, 13} /\ row.removal)
      BY <1>1, <3>3 DEF EventBegin, NoEvent
    <3> QED BY <3>1, <3>2, <3>3
  <2>2. event' = FALSE /\ UNCHANGED <<row, cmd, light, pauseErr, held, runner, ref, hist>>
    BY <1>1 DEF EventBegin
  <2>3. ev' \in Handlers
    <3>1. row \in Rows
      BY DEF Typed, TypeOK
    <3>2. CASE ev' = [pc |-> "stop", copy |-> row, stale |-> FALSE]
      BY <3>1, <3>2 DEF Handlers
    <3>3. CASE ev' = [pc |-> "enter", copy |-> row, stale |-> FALSE]
      BY <3>1, <3>3 DEF Handlers
    <3> QED BY <2>1, <3>2, <3>3, Quiet
  <2>4. Typed'
    <3>1. ev'.pc \in {"idle", "stop", "enter", "entered", "fault"} /\ ev'.copy \in Rows
      BY <2>3 DEF Handlers
    <3>2. event' \in BOOLEAN
      BY <2>2
    <3>3. TypeOK'
      BY <2>2, <3>1, <3>2 DEF Typed, TypeOK
    <3> QED BY <2>2, <2>3, <3>3 DEF Typed, After
  <2>5. PauseStopped'
    <3> SUFFICES ASSUME runner = "run", ~hist.lost, ~hist.raced, ev'.pc = "enter", ~ref.moved
                 PROVE  FALSE
      BY <2>1, <2>2 DEF PauseStopped, NoEvent
    <3>1. Producing(row)
      BY GaveUp DEF RunnerKnown
    <3> QED BY <2>1, <3>1 DEF Producing, NoEvent
  <2> QED BY <2>2, <2>4, <2>5 DEF SnapStands, StartFromPause, RunnerKnown, LastLook
<1>2. CASE EventStop
  <2>1. /\ ev \in Handlers /\ hist \in Hists /\ ev.pc = "stop"
        /\ UNCHANGED <<row, cmd, light, pauseErr, event, ref>>
    BY <1>2 DEF EventStop, EventAt, Typed
  <2>2. PICK pc \in {"enter", "fault"} : ev' = [ev EXCEPT !.pc = pc]
    BY <1>2 DEF EventStop
  <2>3. /\ runner' \in {"off", "run", "paused"} /\ held' \in BOOLEAN /\ hist' \in Hists
        /\ (runner' = "run" => hist'.lost) /\ hist'.raced = hist.raced
    <3>1. CASE /\ runner' = IF runner = "run" THEN "paused" ELSE runner
               /\ UNCHANGED <<held, hist>>
      BY <2>1, <3>1 DEF Typed, TypeOK
    <3>2. CASE runner' \in {runner, "off"} /\ held' = TRUE /\ Lost(runner' = "run")
      <4>1. hist' \in Hists /\ (~hist'.lost => runner' # "run") /\ hist'.raced = hist.raced
        BY <2>1, <3>2, LostNoted
      <4> QED BY <3>2, <4>1 DEF Typed, TypeOK
    <3> QED BY <1>2, <3>1, <3>2 DEF EventStop
  <2>4. ev' \in Handlers
    BY <2>1, <2>2 DEF Handlers
  <2>5. Typed'
    <3>1. ev'.pc \in {"idle", "stop", "enter", "entered", "fault"} /\ ev'.copy \in Rows
      BY <2>4 DEF Handlers
    <3> QED BY <2>1, <2>3, <2>4, <3>1 DEF Typed, TypeOK
  <2> QED BY <2>1, <2>3, <2>5
          DEF SnapStands, StartFromPause, RunnerKnown, PauseStopped, LastLook, Before, After
<1> QED BY <1>1, <1>2

LEMMA EventRowKeepsInv ==
  ASSUME IInv, NEW cur \in {12, 13, 21}, NEW req \in {13, 21}, NEW pc \in {"idle", "entered"},
         ev.pc \in {"enter", "entered", "fault"}, EventRow(cur, req, pc)
  PROVE  IInv' /\ row'.cur = cur
<1> USE DEF IInv
<1>1. /\ row' = [ev.copy EXCEPT !.cur = cur, !.req = req, !.active = FALSE, !.pend = FALSE, !.removal = TRUE]
      /\ UNCHANGED <<cmd, light, pauseErr, held, runner, event>>
      /\ hist' = [hist EXCEPT !.raced = @ \/ RefreshAt("store") \/ ev.stale]
      /\ ev' \in {NoEvent, [ev EXCEPT !.pc = pc]}
      /\ ref' = IF RefreshAt("idle") THEN ref ELSE [ref EXCEPT !.newer = TRUE]
  BY DEF EventRow, world
<1>2. ev \in Handlers /\ hist \in Hists /\ ref \in Refs
  BY DEF Typed
<1>3. row' \in Rows /\ row'.cur = cur /\ ~row'.pend
  <2>1. ev.copy \in Rows /\ cur \in States /\ req \in States
    BY <1>2 DEF Handlers, States
  <2> QED BY <1>1, <2>1 DEF Rows
<1>4. /\ hist' \in Hists /\ hist'.lost = hist.lost
      /\ ~hist'.raced => ~hist.raced /\ ref.pc # "store" /\ ~ev.stale
  BY <1>1, <1>2 DEF Hists, RefreshAt, Handlers
<1>5. ev' \in Handlers /\ (ev'.pc = "idle" \/ ev'.stale = ev.stale)
  BY <1>1, <1>2, Quiet DEF Handlers, NoEvent
<1>6. /\ ref' \in Refs /\ ref'.pc = ref.pc /\ ref'.snap = ref.snap /\ ref'.now = ref.now
      /\ ref'.new = ref.new /\ ref'.moved = ref.moved /\ (ref.pc # "idle" => ref'.newer)
  BY <1>1, <1>2 DEF Refs, RefreshAt
<1>7. Typed'
  <2>1. ref'.cmd \in Commands /\ ref'.new \in States /\ ref'.req \in States
        /\ ref'.forced \in {0, 9, 21} /\ ref'.over \in {0, 7, 9} /\ ref'.snap \in Rows
        /\ ref'.now \in Rows
    BY <1>6 DEF Refs
  <2> QED BY <1>1, <1>3, <1>4, <1>5, <1>6, <2>1 DEF Typed, TypeOK, Handlers, Shown, After
<1>8. runner' = "run" /\ ~hist'.lost /\ ~hist'.raced => ref.moved /\ ref.pc \in After /\ ref.pc # "store"
  BY <1>1, <1>4 DEF PauseStopped, StartFromPause
<1> QED BY <1>1, <1>3, <1>4, <1>5, <1>6, <1>7, <1>8
        DEF SnapStands, StartFromPause, RunnerKnown, PauseStopped, LastLook, After

LEMMA RestartKeepsInv ==
  ASSUME IInv, Restart
  PROVE  IInv'
<1> USE DEF IInv
<1>1. /\ ref' = Idle /\ ev' = NoEvent /\ Lost(ref.moved)
      /\ UNCHANGED <<row, cmd, light, pauseErr, held, runner, event>>
  BY DEF Restart, world
<1>2. hist' \in Hists /\ hist'.raced = hist.raced /\ (~hist'.lost => ~hist.lost /\ ~ref.moved)
  <2>1. ref.moved \in BOOLEAN /\ hist \in Hists
    BY DEF Typed, Refs
  <2> QED BY <1>1, <2>1, LostNoted
<1>3. Typed'
  BY <1>1, <1>2, Quiet DEF Typed, TypeOK, Idle, Refs, NoEvent, Handlers, QuietRow, Shown, After
<1>4. RunnerKnown'
  BY <1>1, <1>2, GaveUp DEF RunnerKnown, Idle, After
<1> QED BY <1>1, <1>2, <1>3, <1>4
        DEF SnapStands, StartFromPause, PauseStopped, LastLook, Idle, NoEvent, QuietRow, Before, After

LEMMA NextKeepsInv ==
  ASSUME IInv, [Next]_vars
  PROVE  IInv'
<1>1. CASE InputChange \/ RunnerPauses \/ Command
  BY <1>1, PlantKeepsInv
<1>2. CASE Press
  BY <1>2, PressKeepsInv
<1>3. CASE RefreshStep
  BY <1>3, GateKeepsInv, DecideKeepsInv, DrivesKeepInv, MonitorKeepsInv, LookKeepsInv DEF RefreshStep
<1>4. CASE EventStep
  <2>1. CASE EventBegin \/ EventStop
    BY <2>1, ListenerKeepsInv
  <2>2. CASE EventEnter \/ EventEntered \/ EventFault
    BY <2>2, EventRowKeepsInv DEF EventEnter, EventEntered, EventFault, EventAt
  <2> QED BY <1>4, <2>1, <2>2 DEF EventStep
<1>5. CASE Restart
  BY <1>5, RestartKeepsInv
<1>6. CASE UNCHANGED vars
  <2>1. UNCHANGED <<row, cmd, light, pauseErr, held, runner, event, ref, ev, hist>>
    BY <1>6 DEF vars, world
  <2> QED BY <2>1 DEF IInv, Typed, TypeOK, SnapStands, StartFromPause, RunnerKnown, PauseStopped, LastLook,
          Producing
<1> QED BY <1>1, <1>2, <1>3, <1>4, <1>5, <1>6 DEF Next

-----------------------------------------------------------------------------
(* Theorems                                                                  *)

LEMMA InvAlways == Spec => []IInv
BY InitInv, NextKeepsInv, PTL DEF Spec

\* The state row, the refresh and the handler keep their types, and the row shows only
\* the states commands and faults lead to.
THEOREM TypeCorrect == Spec => []TypeOK
<1>1. IInv => TypeOK
  BY DEF IInv, Typed
<1> QED BY <1>1, InvAlways, PTL

\* Between refreshes and events a runner that runs has a row that says so: whatever ends
\* a production (command, light curtain, pause error, fault, label pause) has stopped the
\* runner before the row shows it.
THEOREM ModesCorrect == Spec => []ModesInv
<1>1. IInv => ModesInv
  BY DEF IInv, Typed, RunnerKnown, Producing, RefreshAt, ModesInv, RunnerHasRow
<1> QED BY <1>1, InvAlways, PTL

\* A step that takes the row out of a label-removal pause into production is a refresh
\* that had read the pause.
LEMMA LeavesKnowing ==
  ASSUME IInv, [Next]_vars, row.removal, row.cur \in {12, 13}, row'.cur \in {4, 5, 6}, ~hist.raced
  PROVE  ref.snap.removal
<1>1. CASE UNCHANGED row
  BY <1>1
<1>2. CASE Press
  BY <1>2 DEF Press, IInv, Typed, TypeOK, Rows
<1>3. CASE SetupBegin
  <2>1. ref.now \in Rows
    BY DEF IInv, Typed, Refs
  <2> QED BY <1>3, <2>1 DEF SetupBegin, Rows
<1>4. CASE Monitor
  <2>1. ref.now \in Rows
    BY DEF IInv, Typed, Refs
  <2>2. row' # row => row' = [ref.now EXCEPT !.cur = 13, !.req = 13, !.active = FALSE, !.pend = FALSE,
                                            !.removal = TRUE]
    BY <1>4 DEF Monitor
  <2>3. row' # row => row'.cur = 13
    BY <2>1, <2>2 DEF Rows
  <2> QED BY <1>1, <2>3
<1>5. CASE Store
  <2>1. ref.now \in Rows
    BY DEF IInv, Typed, Refs
  <2>2. row'.cur = ref.new /\ ref.pc = "store"
    BY <1>5, <2>1 DEF Store, RefreshAt, Rows
  <2> QED BY <2>2 DEF IInv, LastLook
<1>6. CASE EventEnter \/ EventEntered \/ EventFault
  <2>1. row'.cur \in {12, 13, 21}
    BY <1>6, EventRowKeepsInv DEF EventEnter, EventEntered, EventFault, EventAt
  <2> QED BY <2>1
<1>7. Next /\ ~(Press \/ SetupBegin \/ Monitor \/ Store \/ EventEnter \/ EventEntered \/ EventFault)
        => UNCHANGED row
  BY DEF Next, RefreshStep, EventStep, InputChange, RunnerPauses, Command, Begin, Reset, HeldGate,
     RejectCommand, StartCommand, PassCommand, SetupEnd, Decide, StopDrives, StartDrives, NoDrives,
     Check, EventBegin, EventStop, Restart
<1> QED BY <1>1, <1>2, <1>3, <1>4, <1>5, <1>6, <1>7 DEF vars

\* A label-removal pause the ESP listener entered is left for production only by a
\* refresh that had read it, whatever the interleaving of refreshes and events.
THEOREM RemovalStays == Spec => RemovalKept
<1>1. ASSUME IInv, [Next]_vars
      PROVE  [row.removal /\ row.cur \in {12, 13} /\ row'.cur \in {4, 5, 6} /\ ~hist.raced
                => ref.snap.removal]_vars
  BY <1>1, LeavesKnowing
<1> QED BY <1>1, InvAlways, PTL DEF Spec, RemovalKept
===============================================================================
