-------------------------------- MODULE Modes --------------------------------
(***************************************************************************)
(* The operating modes of the machine: commands (parameter MAS0002), the   *)
(* numbered states of machine_semantics.py, and the production runner on   *)
(* the ESP that the modes start and stop.                                  *)
(*                                                                         *)
(* The machine-runtime thread performs one refresh after the other         *)
(* (machine_runtime.py _refresh_unlocked, under _MACHINE_REFRESH_LOCK);    *)
(* buttons take the same lock.  The router writes MAS0002 and the ESP      *)
(* listener's thread enters the label-removal state without it, and the    *)
(* row of table machine_state is read at the start of a refresh and        *)
(* written, as a whole, at its end, after device traffic that takes        *)
(* seconds.                                                                *)
(*                                                                         *)
(* Whatever makes a refresh force state 21 (an input, a latch, MAS0028) is *)
(* one flag here, held; module Purge models it.                            *)
(***************************************************************************)
EXTENDS Naturals, FiniteSets

CONSTANTS
  StartStates,   \* states the row may start in
  MaxCommands,   \* bound: writes of MAS0002 by Microtom
  MaxPresses,    \* bound: button presses
  MaxRemovals,   \* bound: labels the runner pauses for
  MaxInputs,     \* bound: changes of light curtain, pause errors and held
  MaxCrashes,    \* bound: restarts of the process
  MaxEvents      \* bound: all of these together

ASSUME ModesAssumption ==
  /\ StartStates \subseteq {1, 5, 7, 9}
  /\ MaxCommands \in Nat /\ MaxPresses \in Nat /\ MaxRemovals \in Nat
  /\ MaxInputs \in Nat /\ MaxCrashes \in Nat /\ MaxEvents \in Nat

VARIABLES
  row,       \* machine_state, singleton row
  cmd,       \* parameter MAS0002
  light,     \* the light curtain is interrupted
  pauseErr,  \* one of MAE0025, MAE0026, MAE0048 is set
  held,      \* a cause for state 21 stands
  runner,    \* the ESP's production runner: off, run, or paused for a label
  event,     \* the ESP's label_removal_required event is on its way
  ref,       \* the refresh in progress
  ev,        \* the event handler in progress
  used,      \* spent budgets
  hist       \* history, read by properties only

world == <<light, pauseErr, held, runner, event>>
vars == <<row, cmd, world, ref, ev, used, hist>>

-----------------------------------------------------------------------------
(* machine_semantics.py                                                    *)

States == 0 .. 21
Transitions == {2, 4, 6, 8, 10, 12, 14, 16, 18}
Final(t) == t + 1
Finals == {Final(t) : t \in Transitions}
Commands == {0, 1, 2, 3, 5, 7}
\* COMMAND_TARGETS; 0 keeps the state.
Target == [c \in Commands \ {0} |-> CASE c = 1 -> 5 [] c = 2 -> 9 [] c = 3 -> 3
                                      [] c = 5 -> 13 [] c = 7 -> 7]

\* state_actions of the command's action.
Allowed(c, s) ==
  CASE c = 1 -> s \in {7, 13}
    [] c = 2 -> s \in {2, 3, 5, 7, 13}
    [] c = 3 -> s = 9
    [] c = 5 -> s = 5
    [] c = 7 -> s \in {5, 6}

\* settle_machine_state for a machine that is not held.
Settled(wanted, s, curtain) ==
  IF curtain /\ s \in {5, 10, 11} THEN 7
  ELSE IF wanted \in Finals /\ s \notin {wanted, wanted - 1} THEN wanted - 1 ELSE wanted

-----------------------------------------------------------------------------
\* What the row's info holds of production (active, pending_start, a label-removal
\* pause), of the last setup, and of a setup button (pending_hmi_command).
Rows == [cur : States, req : States, active : BOOLEAN, pend : BOOLEAN, removal : BOOLEAN,
         setup : {"none", "running", "done", "partial", "failed"}, hmi : BOOLEAN]
QuietRow(s) == [cur |-> s, req |-> s, active |-> s = 5, pend |-> FALSE, removal |-> FALSE,
                setup |-> "none", hmi |-> FALSE]

\* A refresh: the row (snap) and the inputs it read, its working copy of the row (now),
\* its copy of the command, an override of the requested state (0: none), the new
\* state; newer: the row was written since; moved: it has started the runner.
Idle == [pc |-> "idle", snap |-> QuietRow(9), now |-> QuietRow(9), cmd |-> 0, light |-> FALSE, err |-> FALSE,
         held |-> FALSE, forced |-> 0, over |-> 0, direct |-> FALSE, new |-> 0, req |-> 0,
         newer |-> FALSE, moved |-> FALSE]
\* The event handler's copy of the row; stale: the row was changed since it was taken.
NoEvent == [pc |-> "idle", copy |-> QuietRow(9), stale |-> FALSE]

Init ==
  /\ \E s \in StartStates : row = QuietRow(s) /\ runner = IF s = 5 THEN "run" ELSE "off"
  /\ cmd = 0
  /\ light = FALSE /\ pauseErr = FALSE /\ held = FALSE
  /\ event = FALSE
  /\ ref = Idle
  /\ ev = NoEvent
  /\ used = [commands |-> 0, presses |-> 0, removals |-> 0, inputs |-> 0, crashes |-> 0]
  /\ hist = [stop |-> FALSE, late |-> FALSE, raced |-> FALSE, lost |-> FALSE]

RefreshAt(pc) == ref.pc = pc
EventAt(pc) == ev.pc = pc
\* A write of the row makes the event handler's copy stale.
RowChanged ==
  ev' = IF EventAt("idle") THEN ev ELSE [ev EXCEPT !.stale = @ \/ row' # row]

MoreEvents ==
  used.commands + used.presses + used.removals + used.inputs + used.crashes < MaxEvents

-----------------------------------------------------------------------------
(* The plant                                                               *)

InputChange ==
  /\ used.inputs < MaxInputs /\ MoreEvents
  /\ used' = [used EXCEPT !.inputs = @ + 1]
  /\ \/ light' = ~light /\ UNCHANGED <<pauseErr, held>>
     \/ pauseErr' = ~pauseErr /\ UNCHANGED <<light, held>>
     \/ held' = ~held /\ UNCHANGED <<light, pauseErr>>
  /\ UNCHANGED <<row, cmd, runner, event, ref, ev, hist>>

\* The runner finds a label to take out, pauses itself and tells the Raspberry.
RunnerPauses ==
  /\ runner = "run" /\ ~event
  /\ used.removals < MaxRemovals /\ MoreEvents
  /\ used' = [used EXCEPT !.removals = @ + 1]
  /\ runner' = "paused"
  /\ event' = TRUE
  /\ UNCHANGED <<row, cmd, light, pauseErr, held, ref, ev, hist>>

-----------------------------------------------------------------------------
(* Commands                                                                *)

\* A stop stands from the command on until state 9 or 21, another command, or a refresh
\* that finds the machine held and takes it as a reset; late:
\* it came while a refresh could still consume its own, older copy of MAS0002.
Noted(c, late) ==
  hist' = [hist EXCEPT !.stop = c = 2 /\ row.cur \notin {9, 21}, !.late = late]

\* Microtom's MAS0002=c (router thread, ParamStore.set_value).
Command ==
  /\ used.commands < MaxCommands /\ MoreEvents
  /\ used' = [used EXCEPT !.commands = @ + 1]
  /\ \E c \in Commands \ {0} : cmd' = c /\ Noted(c, ~RefreshAt("idle"))
  /\ UNCHANGED <<row, world, ref, ev>>

\* Motion actions a button or a command may not start under an open light curtain.
Blocked(c, curtain) == curtain /\ c \in {1, 3, 5}

\* A virtual or physical button: under the refresh lock.  In the safety context the
\* start button resets.  queued: the virtual setup button shows state 2 at once.
Press ==
  /\ RefreshAt("idle")
  /\ used.presses < MaxPresses /\ MoreEvents
  /\ used' = [used EXCEPT !.presses = @ + 1]
  /\ \E c \in Commands \ {0}, queued \in BOOLEAN :
       /\ IF held \/ row.cur = 21 THEN c = 2 ELSE Allowed(c, row.cur) /\ ~Blocked(c, light)
       /\ cmd' = c
       /\ Noted(c, FALSE)
       /\ row' = IF c = 3 /\ queued THEN [row EXCEPT !.cur = 2, !.req = 3, !.hmi = TRUE]
                 ELSE [row EXCEPT !.req = Target[c]]
  /\ RowChanged
  /\ UNCHANGED <<world, ref>>

-----------------------------------------------------------------------------
(* The refresh: reading, the command gate, setup                           *)

Begin ==
  /\ RefreshAt("idle")
  /\ ref' = [Idle EXCEPT !.pc = "gate", !.snap = row, !.now = row, !.cmd = cmd, 
                         !.light = light, !.err = pauseErr, !.held = held]
  /\ UNCHANGED <<row, cmd, world, ev, used, hist>>

\* A 2 that meets a cause for state 21, or that state, is a reset if it is a new one; the 2
\* of a stop that is on its way to state 9 stands, but was seen (mas0002_reset_seen_ts).
\* The times are left out: whether a 2 is new is a free choice of Reset and its alternatives.
ToReset == ref.cmd = 2 /\ (ref.held \/ ref.snap.cur = 21)

\* _force_stop_process_motion_on_fault: once per cause, and it may fail.
HardStop == runner' \in {runner, "off"}

\* The safety reset ends with MAS0002=0 in state 9, or in state 21.
Reset ==
  /\ RefreshAt("gate")
  /\ ToReset
  /\ cmd' = 0
  /\ \E ok \in BOOLEAN :
       /\ held' = (held /\ ~ok)
       /\ ref' = [ref EXCEPT !.pc = "decide", !.cmd = 0, !.forced = IF ok THEN 9 ELSE 21]
  /\ hist' = [hist EXCEPT !.stop = @ /\ hist.late]
  /\ HardStop
  /\ UNCHANGED <<row, light, pauseErr, event, ev, used>>

\* Held: a latch leaves the commands alone, MAS0028 alone lets the gate consume all but 2.
HeldGate ==
  /\ RefreshAt("gate")
  /\ ref.held
  /\ \/ /\ ref.cmd \notin {0, 2} /\ cmd' = 0
        /\ ref' = [ref EXCEPT !.pc = "decide", !.cmd = 0, !.forced = 21]
     \/ /\ ref' = [ref EXCEPT !.pc = "decide", !.forced = 21]
        /\ UNCHANGED cmd
  /\ HardStop
  /\ UNCHANGED <<row, light, pauseErr, held, event, ev, used, hist>>

\* Definitions whose name ends in Bug are seeded faults (see module Outbox).
ConsumedBug(c, r, curtain) ==
  \/ c = 2 /\ r.cur \in {8, 9}
  \/ c \notin {0, 2} /\ Blocked(c, curtain)
\* Taken back with MAS0002:=0: a stop in state 9, and what the state or the light
\* curtain does not allow (a setup button's command is allowed in state 2).
Consumed(c, r, curtain) ==
  \/ c = 2 /\ r.cur = 9
  \/ /\ c \notin {0, 2}
     /\ Blocked(c, curtain) \/ (~Allowed(c, r.cur) /\ ~(c = 3 /\ r.cur = 2 /\ r.hmi))

AtGate == RefreshAt("gate") /\ ~ref.held

RejectCommand ==
  /\ AtGate
  /\ Consumed(ref.cmd, ref.snap, ref.light)
  /\ cmd' = 0
  /\ ref' = [ref EXCEPT !.pc = "decide", !.cmd = 0]
  /\ UNCHANGED <<row, world, ev, used, hist>>

\* MAS0002=1: refused while production logs wait (production_logs.py), else
\* consumed at once, with the pause errors cleared and the start pending.
StartCommand ==
  /\ AtGate
  /\ ref.cmd = 1 /\ ~Consumed(1, ref.snap, ref.light)
  /\ cmd' = 0
  /\ \/ /\ ref' = [ref EXCEPT !.pc = "decide", !.cmd = 0, !.now.pend = FALSE]
        /\ UNCHANGED pauseErr
     \/ /\ ref' = [ref EXCEPT !.pc = "decide", !.err = FALSE, !.now.pend = TRUE]
        /\ pauseErr' = FALSE
  /\ UNCHANGED <<row, light, held, runner, event, ev, used, hist>>

PassCommand ==
  /\ AtGate
  /\ ref.cmd \notin {1, 3} /\ ~Consumed(ref.cmd, ref.snap, ref.light)
  /\ ref' = [ref EXCEPT !.pc = "decide", !.now.pend = @ /\ ref.cmd # 7]
  /\ UNCHANGED <<row, cmd, world, ev, used, hist>>

\* MAS0002=3 is consumed before the workflow, and the row shows state 2.
SetupBegin ==
  /\ AtGate
  /\ ref.cmd = 3 /\ ~Consumed(3, ref.snap, ref.light)
  /\ cmd' = 0
  /\ LET started == [ref.now EXCEPT !.removal = FALSE, !.setup = "running"]
     IN /\ ref' = [ref EXCEPT !.pc = "setup", !.now = started, !.newer = TRUE]
        /\ row' = [started EXCEPT !.cur = 2, !.req = 3]
  /\ RowChanged
  /\ UNCHANGED <<world, used, hist>>

\* The workflow succeeds with or without the format's parameters, fails, or is skipped.
SetupEnd ==
  /\ RefreshAt("setup")
  /\ \/ /\ cmd' = 0
        /\ ref' = [ref EXCEPT !.pc = "decide", !.cmd = 0, !.over = 7, !.direct = TRUE,
                              !.now.setup = "done"]
     \/ /\ cmd' = 2
        /\ ref' = [ref EXCEPT !.pc = "decide", !.cmd = 2, !.over = 9, !.now.setup = "failed"]
     \/ /\ ref' = [ref EXCEPT !.pc = "decide", !.now.setup = "partial"]
        /\ UNCHANGED cmd
  /\ UNCHANGED <<row, world, ev, used, hist>>

-----------------------------------------------------------------------------
(* The new state                                                           *)

\* A setup that failed, or was done less than two hours ago, moves the machine on
\* from states 2, 3 (and 6) without a command.
Recoveries ==
  IF ref.over # 0 THEN {ref.over}
  ELSE {0} \cup
    (IF ref.cmd # 0 THEN {}
     ELSE IF ref.now.setup = "failed" /\ ref.snap.cur \in {2, 3} THEN {9}
     ELSE IF ref.now.setup = "done" /\ ref.snap.cur \in {2, 3, 6} THEN {7} ELSE {})

WantedBug(over) ==
  IF over # 0 THEN over ELSE IF ref.cmd # 0 THEN Target[ref.cmd] ELSE ref.snap.cur
\* requested_state: the override, the command's target, or where the transition goes.
Wanted(over) ==
  IF over # 0 THEN over
  ELSE IF ref.cmd # 0 THEN Target[ref.cmd]
  ELSE IF ref.snap.cur \in Transitions /\ ref.snap.req = Final(ref.snap.cur)
       THEN ref.snap.req ELSE ref.snap.cur

PauseForced == ref.err /\ ref.snap.cur \in {4, 5, 6} /\ ~(ref.now.pend /\ ref.snap.cur = 4)
LightPause == ref.light /\ ref.snap.cur \in {5, 10, 11}

SupersededBug(new) == FALSE
\* _label_removal_state_superseded_snapshot
Superseded(new) ==
  /\ ref.newer /\ row.removal
  /\ ~(ref.snap.cur \in {7, 13} /\ ref.snap.removal /\ new \in {4, 5})
  /\ new \in {4, 5, 6} \/ ref.snap.active

Decided(new, req) ==
  IF Superseded(new) THEN Idle
  ELSE [ref EXCEPT !.pc = "act", !.new = new, !.req = req]

Decide ==
  /\ RefreshAt("decide")
  /\ \E over \in Recoveries :
       LET wanted == IF PauseForced THEN 7 ELSE Wanted(over)
       IN ref' =
            IF ref.forced # 0 THEN Decided(ref.forced, ref.forced)
            ELSE IF ref.direct THEN Decided(7, 7)
            ELSE Decided(Settled(wanted, ref.snap.cur, ref.light),
                         IF LightPause THEN 7 ELSE wanted)
  /\ UNCHANGED <<row, cmd, world, ev, used, hist>>

-----------------------------------------------------------------------------
(* Stopping and starting the drives                                        *)

Starting == ref.now.pend /\ ref.new = 5
StopDueBug == ref.snap.active /\ ref.new \in Finals \cup {21}
StopDue ==
  \/ ref.snap.cur = 5 /\ ref.new # 5
  \/ ref.now.active /\ ref.new \notin {4, 5}
  \/ LightPause /\ ref.new = 7

Acted(pc, new, req, active, pend, removal) ==
  ref' = [ref EXCEPT !.pc = pc, !.new = new, !.req = req, !.now.active = active,
                     !.now.pend = pend, !.now.removal = removal, !.moved = pc = "watch"]

\* From here on nothing that reads the row knows that the runner runs.
Lost(was) == hist' = [hist EXCEPT !.lost = @ \/ was]

\* An unconfirmed stop leaves the runner as it was or stopped, and ends in state 21.
StopDrives ==
  /\ RefreshAt("act")
  /\ StopDue
  /\ \/ /\ Acted("check", ref.new, ref.req, FALSE, FALSE, ref.now.removal)
        /\ runner' = "off"
        /\ cmd' = IF ref.cmd = 7 /\ ref.req = 7 THEN 0 ELSE cmd
        /\ UNCHANGED <<held, hist>>
     \/ /\ Acted("check", 21, 21, FALSE, FALSE, ref.now.removal)
        /\ runner' \in {runner, "off"}
        /\ held' = TRUE
        /\ Lost(runner' = "run")
        /\ UNCHANGED cmd
  /\ UNCHANGED <<row, light, pauseErr, event, ev, used>>

\* A start succeeds; is refused before anything moved; or fails and is stopped, a
\* stop whose result nobody looks at.
StartDrives ==
  /\ RefreshAt("act")
  /\ ~StopDue /\ Starting
  /\ \/ /\ Acted("watch", 5, 5, TRUE, FALSE, FALSE)
        /\ runner' = "run"
        /\ UNCHANGED <<cmd, hist>>
     \/ /\ LET s == IF ref.now.removal THEN 13 ELSE 7
           IN Acted("check", s, s, FALSE, FALSE, ref.now.removal)
        /\ cmd' = 0
        /\ UNCHANGED <<runner, hist>>
     \/ /\ Acted("check", 7, 7, FALSE, FALSE, ref.now.removal)
        /\ runner' \in {"off", "run"}
        /\ Lost(runner' = "run")
        /\ UNCHANGED cmd
  /\ UNCHANGED <<row, light, pauseErr, held, event, ev, used>>

NoDrives ==
  /\ RefreshAt("act")
  /\ ~StopDue /\ ~Starting
  /\ ref' = [ref EXCEPT !.pc = IF ref.now.active /\ ref.new = 5 THEN "watch" ELSE "check",
                        !.now.pend = @ /\ ref.new \in {4, 5}]
  /\ UNCHANGED <<row, cmd, world, ev, used, hist>>

\* _monitor_active_production_esp and _wicklers: a fault stops the runner; a label
\* pause is entered, with both rows written, and the refresh ends.
Monitor ==
  /\ RefreshAt("watch")
  /\ \/ /\ ref' = [ref EXCEPT !.pc = "check"]
        /\ UNCHANGED <<row, runner, held, hist>>
     \/ /\ Acted("check", 21, 21, FALSE, FALSE, ref.now.removal)
        /\ runner' \in {runner, "off"}
        /\ held' = TRUE
        /\ Lost(runner' = "run")
        /\ UNCHANGED row
     \/ /\ runner = "paused"
        /\ row' = [ref.now EXCEPT !.cur = 13, !.req = 13, !.active = FALSE, !.pend = FALSE,
                                  !.removal = TRUE]
        /\ ref' = Idle
        /\ UNCHANGED <<runner, held, hist>>
  /\ RowChanged
  /\ UNCHANGED <<cmd, light, pauseErr, event, used>>

\* The second look at the row, before MAS0001 and the ESP are told ...
Check ==
  /\ RefreshAt("check")
  /\ ref' = IF Superseded(ref.new) THEN Idle ELSE [ref EXCEPT !.pc = "store"]
  /\ Lost(Superseded(ref.new) /\ ref.moved)
  /\ UNCHANGED <<row, cmd, world, ev, used>>

\* ... and _write_state.
Store ==
  /\ RefreshAt("store")
  /\ row' = [ref.now EXCEPT !.cur = ref.new, !.req = ref.req,
                             !.hmi = @ /\ ref.new = 2]
  /\ hist' = [hist EXCEPT !.stop = @ /\ ref.new \notin {9, 21}]
  /\ ref' = Idle
  /\ RowChanged
  /\ UNCHANGED <<cmd, world, used>>

RefreshStep ==
  \/ Begin \/ Reset \/ HeldGate \/ RejectCommand \/ StartCommand \/ PassCommand
  \/ SetupBegin \/ SetupEnd \/ Decide \/ StopDrives \/ StartDrives \/ NoDrives \/ Monitor
  \/ Check \/ Store

-----------------------------------------------------------------------------
(* The ESP listener: label_removal_required                                *)

\* _stale_production_event_result: while producing, or in the transition to it, the
\* machine is paused; in a removal pause the label is added; else it is ignored.
EventBegin ==
  /\ EventAt("idle")
  /\ event
  /\ event' = FALSE
  /\ ev' = CASE row.cur \in {4, 5} /\ row.active -> [pc |-> "stop", copy |-> row, stale |-> FALSE]
             [] row.cur = 4 /\ row.req = 5 /\ row.pend -> [pc |-> "stop", copy |-> row, stale |-> FALSE]
             [] row.cur \in {7, 13} /\ row.removal -> [pc |-> "enter", copy |-> row, stale |-> FALSE]
             [] OTHER -> NoEvent
  /\ UNCHANGED <<row, cmd, light, pauseErr, held, runner, ref, used, hist>>

\* _pause_for_label_removal: the runner's pause is confirmed, or is not.
EventStop ==
  /\ EventAt("stop")
  /\ \/ /\ runner' = IF runner = "run" THEN "paused" ELSE runner
        /\ ev' = [ev EXCEPT !.pc = "enter"]
        /\ UNCHANGED <<held, hist>>
     \/ /\ runner' \in {runner, "off"}
        /\ held' = TRUE
        /\ ev' = [ev EXCEPT !.pc = "fault"]
        /\ Lost(runner' = "run")
  /\ UNCHANGED <<row, cmd, light, pauseErr, event, ref, used>>

\* A write of the whole row from the handler's copy.  raced: the copy is stale, or a refresh past its last look will overwrite it.
EventRow(cur, req, pc) ==
  LET new == [ev.copy EXCEPT !.cur = cur, !.req = req, !.active = FALSE, !.pend = FALSE,
                             !.removal = TRUE]
  IN /\ row' = new
     /\ ev' = IF pc = "idle" THEN NoEvent ELSE [ev EXCEPT !.pc = pc]
     /\ ref' = IF RefreshAt("idle") THEN ref ELSE [ref EXCEPT !.newer = TRUE]
     /\ hist' = [hist EXCEPT !.raced = @ \/ RefreshAt("store") \/ ev.stale]
     /\ UNCHANGED <<cmd, world, used>>

EventEnter == EventAt("enter") /\ EventRow(12, 13, "entered")
EventEntered == EventAt("entered") /\ EventRow(13, 13, "idle")
EventFault == EventAt("fault") /\ EventRow(21, 21, "idle")

EventStep == EventBegin \/ EventStop \/ EventEnter \/ EventEntered \/ EventFault

Restart ==
  /\ used.crashes < MaxCrashes /\ MoreEvents
  /\ used' = [used EXCEPT !.crashes = @ + 1]
  /\ ref' = Idle
  /\ ev' = NoEvent
  /\ Lost(ref.moved)
  /\ UNCHANGED <<row, cmd, world>>

Next ==
  \/ InputChange \/ RunnerPauses \/ Command \/ Press
  \/ RefreshStep \/ EventStep \/ Restart

Spec == Init /\ [][Next]_vars

\* The refresh loop never ends; the listener goes on with what it has begun.
FairSpec == Spec /\ WF_vars(RefreshStep) /\ WF_vars(EventStep)

-----------------------------------------------------------------------------
(* Properties                                                              *)

\* Types; and the row shows only the states commands and faults lead to: the targets,
\* their transitions, the label-removal pause and 21 (synchronising, rewinding and
\* emptying have no command that is allowed here).
TypeOK ==
  /\ row \in Rows /\ row.cur \in StartStates \cup (2 .. 9) \cup {12, 13, 21}
  /\ cmd \in Commands
  /\ light \in BOOLEAN /\ pauseErr \in BOOLEAN /\ held \in BOOLEAN /\ event \in BOOLEAN
  /\ runner \in {"off", "run", "paused"}
  /\ ref.snap \in Rows /\ ref.now \in Rows /\ ref.cmd \in Commands
  /\ ref.new \in States /\ ref.req \in States
  /\ ref.forced \in {0, 9, 21} /\ ref.over \in {0, 7, 9}
  /\ ev.pc \in {"idle", "stop", "enter", "entered", "fault"} /\ ev.copy \in Rows

\* While neither a refresh nor the event handler is at work, a runner that runs has a
\* row that says so (state 5, production active): every way out of production, by
\* command, light curtain, pause error, fault, label pause or a superseded refresh, has
\* stopped it.  Not after a step the code itself leaves open: a stop the ESP did not
\* confirm (state 21 then stands for it), a failed start whose stop failed as well, a
\* start thrown away by a label pause or a restart (lost), or a whole-row write from a
\* stale copy (raced).
RunnerHasRow ==
  runner = "run" /\ RefreshAt("idle") /\ EventAt("idle") /\ ~hist.lost /\ ~hist.raced =>
    row.cur = 5 /\ row.active

\* A label-removal pause (12, 13) the ESP listener entered is not undone by a refresh
\* that read the row before: only one that had read the pause leaves it for 4, 5 or 6
\* (_label_removal_state_superseded_snapshot), but for the gap after its second look.
RemovalKept ==
  [][row.removal /\ row.cur \in {12, 13} /\ row'.cur \in {4, 5, 6} /\ ~hist.raced =>
       ref.snap.removal]_vars

\* A stop command that does not come while a refresh is at work ends in state 9 or 21,
\* unless another command replaces it or it is taken as a reset, whatever the runner,
\* the light curtain and the label pauses do meanwhile.
StopEnds == (hist.stop /\ ~hist.late) ~> ~(hist.stop /\ ~hist.late)

\* The machine does not stay in a transition state, not even when a restart cuts the
\* transition short: the refresh goes on to the final state the row asks for.  (One
\* restart leaves it there: after a reset pressed while the machine enters a pause, with
\* the command consumed and the new state not yet stored.)
TransitionsEnd ==
  (row.cur \in Transitions) ~>
    \/ row.cur \notin Transitions \/ hist.raced
    \/ used.presses > 0 /\ used.crashes > 0

\* An interrupted light curtain in the end stops the runner and keeps it stopped.
LightPauses == <>[]light => <>[](runner # "run" \/ hist.lost \/ hist.raced)

\* What Microtom is promised: a stop it got an ACK for stands until it is carried out
\* (docs/Microtom_Interface.md).
StopObeyed == hist.stop => cmd = 2 \/ ref.cmd = 2

\* What holds of the operating modes in every state.
ModesInv == TypeOK /\ RunnerHasRow

\* What asks a production to end ends it: a stop, an interrupted light curtain.
ProductionEnds == StopEnds /\ LightPauses
=============================================================================
