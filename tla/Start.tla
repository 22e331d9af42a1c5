-------------------------------- MODULE Start --------------------------------
(***************************************************************************)
(* Starting, resuming, pausing and watching the ESP's production runner    *)
(* (machine_runtime.py _start_production_motion and what the refresh does  *)
(* around it).  The refresh is one thread: it copies the machine_state     *)
(* row, exchanges one command after the other with the ESP over a line     *)
(* that may lose commands or only their answers, and writes the row.       *)
(*                                                                         *)
(* Modes has the states and the races of the row; here it is the line, the *)
(* order of the commands and what the Raspberry may conclude from answers. *)
(***************************************************************************)
EXTENDS Naturals

CONSTANTS
  MaxWants,    \* bound: the operator's starts and pauses
  MaxEdits,    \* bound: changes of a production parameter
  MaxCuts,     \* bound: changes of the line
  MaxBoots,    \* bound: restarts of the ESP
  MaxFaults,   \* bound: faults of the runner
  MaxTroubles  \* bound: edits, cuts, restarts and faults, taken together

ASSUME StartAssumption == MaxWants \in Nat /\ MaxEdits \in Nat /\ MaxCuts \in Nat
                          /\ MaxBoots \in Nat /\ MaxFaults \in Nat /\ MaxTroubles \in Nat

VARIABLES
  stEsp,    \* the ESP: its runner, its MAS0001, its copy of the parameter
  stLine,   \* up; mute: answers are lost; dead: commands are lost
  stBad,    \* a wickler is out of its window
  stMap,    \* the parameter (one that is forced and read back)
  stSaid,   \* its value in value_dedupe_state, channel esp-production-sync
  stCmd,    \* MAS0002: 0, start (1), pause (7)
  stRow,    \* the row
  stRef,    \* the refresh
  stUsed,   \* spent budgets
  stPast    \* history: a failed start's stop was not confirmed; the ESP restarted during
            \* this refresh

stVars == <<stEsp, stLine, stBad, stMap, stSaid, stCmd, stRow, stRef, stUsed, stPast>>

StModes == {5, 7, 21}
Misses == 0 .. 3
\* A runner that is paused has completed, with the reason of the pause as last_error.
Runners == {"off", "on", "ending", "paused", "fault"}
\* sync: info.esp_machine_state_sync; miss and text: esp_monitor_pending_fault.
StRows == [mode : StModes, active : BOOLEAN, paused : BOOLEAN, sync : StModes \cup {0},
           miss : Misses, text : {"up", "mute", "dead"}]
StPcs == {"idle", "ping", "sync5", "params", "clear", "wicklers", "go", "status", "ready",
          "verify", "stop", "check", "tell", "ask", "wait", "monitor", "watch", "write"}
\* how: a fresh start or a resume; plan: the parameter as read with the start; now: the
\* new row; told: MAS0001=5 was acknowledged; crit: the stop was acknowledged; why:
\* what comes after a stop.
StRefs == [pc : StPcs, how : {"fresh", "resume"}, plan : 0 .. MaxEdits, now : StRows,
           told : BOOLEAN, crit : BOOLEAN, why : {"verify", "start", "fault"}]
StRest(r) == [pc |-> "idle", how |-> "fresh", plan |-> 0, now |-> r, told |-> FALSE,
              crit |-> FALSE, why |-> "start"]
StRow0 == [mode |-> 7, active |-> FALSE, paused |-> FALSE, sync |-> 7, miss |-> 0, text |-> "up"]

\* The ESP may have been restarted since a parameter was last sent to it.
StartInit ==
  /\ stEsp = [run |-> "off", state |-> 7, map |-> 0]
  /\ stMap \in 0 .. MaxEdits /\ stSaid \in {0, stMap}
  /\ stLine = "up" /\ stBad = FALSE /\ stCmd = 0
  /\ stRow = StRow0 /\ stRef = StRest(StRow0)
  /\ stUsed = [wants |-> 0, cuts |-> 0, boots |-> 0, faults |-> 0]
  /\ stPast = [blind |-> FALSE, shaken |-> FALSE]

-----------------------------------------------------------------------------
(* Operator and plant.                                                     *)

MoreTroubles == stMap + stUsed.cuts + stUsed.boots + stUsed.faults < MaxTroubles

Want(c) ==
  /\ stUsed.wants < MaxWants /\ stCmd = 0
  /\ stCmd' = c /\ stUsed' = [stUsed EXCEPT !.wants = @ + 1]
  /\ UNCHANGED <<stEsp, stLine, stBad, stMap, stSaid, stRow, stRef, stPast>>

EditMap ==
  /\ stMap < MaxEdits /\ MoreTroubles /\ stMap' = stMap + 1
  /\ UNCHANGED <<stEsp, stLine, stBad, stSaid, stCmd, stRow, stRef, stUsed, stPast>>

LineChanges(to) ==
  /\ stUsed.cuts < MaxCuts /\ MoreTroubles /\ to # stLine
  /\ stLine' = to /\ stUsed' = [stUsed EXCEPT !.cuts = @ + 1]
  /\ UNCHANGED <<stEsp, stBad, stMap, stSaid, stCmd, stRow, stRef, stPast>>

\* After a restart the ESP has its default parameters, no state and no runner.
EspBoots ==
  /\ stUsed.boots < MaxBoots /\ MoreTroubles /\ stUsed' = [stUsed EXCEPT !.boots = @ + 1]
  /\ stEsp' = [run |-> "off", state |-> 0, map |-> 0]
  /\ stPast' = [stPast EXCEPT !.shaken = stRef.pc # "idle"]
  /\ UNCHANGED <<stLine, stBad, stMap, stSaid, stCmd, stRow, stRef>>

RunnerFaults ==
  /\ stUsed.faults < MaxFaults /\ MoreTroubles /\ stEsp.run \in {"on", "ending"}
  /\ stUsed' = [stUsed EXCEPT !.faults = @ + 1]
  /\ stEsp' = [stEsp EXCEPT !.run = "fault"]
  /\ UNCHANGED <<stLine, stBad, stMap, stSaid, stCmd, stRow, stRef, stPast>>

RunnerEnds ==
  /\ stEsp.run = "ending" /\ stEsp' = [stEsp EXCEPT !.run = "paused"]
  /\ UNCHANGED <<stLine, stBad, stMap, stSaid, stCmd, stRow, stRef, stUsed, stPast>>

WicklerSlips ==
  /\ stUsed.faults < MaxFaults /\ MoreTroubles /\ ~stBad
  /\ stBad' = TRUE /\ stUsed' = [stUsed EXCEPT !.faults = @ + 1]
  /\ UNCHANGED <<stEsp, stLine, stMap, stSaid, stCmd, stRow, stRef, stPast>>

-----------------------------------------------------------------------------
(* A command and its answer.                                               *)

Heard == stLine = "up"
Sent(esp) == IF stLine = "dead" THEN stEsp ELSE esp
StAt(pc) == stRef.pc = pc
StGo(pc) == [stRef EXCEPT !.pc = pc]
\* The start is given up: stop (target 7) before the failure is recorded.
StGiveUp == [stRef EXCEPT !.pc = "stop", !.why = "start"]
StQuiet == UNCHANGED <<stLine, stBad, stMap, stSaid, stCmd, stRow, stUsed>>

-----------------------------------------------------------------------------
(* The refresh begins with the command, the monitor or the missing sync.    *)

SyncDue(row) == row.mode # 5 /\ row.sync # row.mode

StBegin(due) ==
  /\ StAt("idle")
  /\ \/ /\ stCmd = 1 /\ stRow.mode = 7
        /\ stRef' = [StRest(stRow) EXCEPT !.pc = IF stRow.paused THEN "sync5" ELSE "ping",
                       !.how = IF stRow.paused THEN "resume" ELSE "fresh", !.plan = stMap]
     \/ /\ stCmd = 7 /\ stRow.mode = 5
        /\ stRef' = [StRest(stRow) EXCEPT !.pc = "ask"]
     \/ /\ stCmd # 7 /\ stRow.mode = 5
        /\ stRef' = [StRest(stRow) EXCEPT !.pc = "monitor"]
     \/ /\ stRow.mode # 5 /\ ~(stCmd = 1 /\ stRow.mode = 7)
        /\ stCmd # 0 \/ (due /\ SyncDue(stRow))
        /\ stRef' = [StRest(stRow) EXCEPT !.pc = IF due /\ SyncDue(stRow) THEN "write" ELSE "idle"]
  /\ stCmd' = 0
  /\ UNCHANGED <<stEsp, stLine, stBad, stMap, stSaid, stRow, stUsed, stPast>>

-----------------------------------------------------------------------------
(* Start and resume.                                                       *)

\* No answer to PING: nothing was started, nothing is stopped.
Ping ==
  /\ StAt("ping")
  /\ stRef' = IF Heard THEN StGo("sync5")
              ELSE [stRef EXCEPT !.pc = "write", !.now.active = FALSE, !.now.paused = FALSE]
  /\ StQuiet /\ UNCHANGED <<stEsp, stPast>>

Sync5 ==
  /\ StAt("sync5")
  /\ stEsp' = Sent([stEsp EXCEPT !.state = 5])
  /\ stRef' = IF Heard THEN [stRef EXCEPT !.told = stRef.how = "fresh",
                               !.pc = IF stRef.how = "fresh" THEN "params" ELSE "clear"]
              ELSE StGiveUp
  /\ StQuiet /\ UNCHANGED stPast

\* Parameters in the start's read-back set are written whatever the dedupe store remembers.
ParamsForced == TRUE

\* SYNC, and read back; a resume keeps what the ESP has.
Params ==
  /\ StAt("params")
  /\ stEsp' = IF ParamsForced THEN Sent([stEsp EXCEPT !.map = stRef.plan]) ELSE stEsp
  /\ stSaid' = IF Heard THEN stRef.plan ELSE stSaid
  /\ stRef' = IF Heard THEN StGo("clear") ELSE StGiveUp
  /\ UNCHANGED <<stLine, stBad, stMap, stCmd, stRow, stUsed, stPast>>

\* A fresh start cancels wickler, profile and indexed runs, stops and resets the
\* production, discards the ESP's queued events and zeroes motor 3; a resume cancels
\* and sets motor 3.
ClearEsp ==
  /\ StAt("clear")
  /\ stEsp' = IF stRef.how = "fresh" THEN Sent([stEsp EXCEPT !.run = "off"]) ELSE stEsp
  /\ stRef' = IF Heard THEN StGo("wicklers") ELSE StGiveUp
  /\ StQuiet /\ UNCHANGED stPast

\* continuous for a start, the next stroke for a resume
Wicklers ==
  /\ StAt("wicklers")
  /\ stRef' = IF stBad THEN StGiveUp ELSE StGo("go")
  /\ StQuiet /\ UNCHANGED <<stEsp, stPast>>

\* START runs an idle runner; RESUME one that is paused.
Runs(esp) == IF esp.run = (IF stRef.how = "fresh" THEN "off" ELSE "paused")
             THEN [esp EXCEPT !.run = "on"] ELSE esp

Accepts(esp) == Runs(esp) # esp

\* START that is not answered, or refused, is looked up; RESUME is not.
Go ==
  /\ StAt("go")
  /\ stEsp' = Sent(Runs(stEsp))
  /\ stRef' = IF Heard /\ Accepts(stEsp) THEN StGo(IF stRef.how = "fresh" THEN "verify" ELSE "ready")
              ELSE IF stRef.how = "fresh" THEN StGo("status") ELSE StGiveUp
  /\ StQuiet /\ UNCHANGED stPast

\* _production_status_after_start_error
Status ==
  /\ StAt("status")
  /\ stRef' = IF Heard /\ stEsp.run = "on" THEN StGo("verify") ELSE StGiveUp
  /\ StQuiet /\ UNCHANGED <<stEsp, stPast>>

\* The row of a running production.
Running(row) == [row EXCEPT !.mode = 5, !.active = TRUE, !.paused = FALSE, !.sync = 5]

\* WICKLER_READY for the next label, and the fast commit of the row.
Ready ==
  /\ StAt("ready")
  /\ IF Heard
     THEN /\ stRow' = Running(stRow)
          /\ stRef' = [stRef EXCEPT !.pc = "write", !.now = Running(stRef.now), !.told = TRUE]
     ELSE stRow' = stRow /\ stRef' = StGiveUp
  /\ UNCHANGED <<stEsp, stLine, stBad, stMap, stSaid, stCmd, stUsed, stPast>>

Verify ==
  /\ StAt("verify")
  /\ stRef' = IF stBad THEN [StGiveUp EXCEPT !.why = "verify"]
              ELSE [stRef EXCEPT !.pc = "write", !.now = Running(stRef.now)]
  /\ StQuiet /\ UNCHANGED <<stEsp, stPast>>

-----------------------------------------------------------------------------
(* _stop_production_motion                                                 *)

Stopped(esp) == [esp EXCEPT !.run = "off"]

\* PROCESS PRODUCTION STOP and speed 0 for motor 3.
Stop ==
  /\ StAt("stop")
  /\ stEsp' = Sent(Stopped(stEsp))
  /\ stRef' = [stRef EXCEPT !.pc = "check", !.crit = Heard]
  /\ StQuiet /\ UNCHANGED stPast

\* Monitor or motor 3 must show no motion; every look without one repeats the stop.
CheckStop ==
  /\ StAt("check")
  /\ stEsp' = Sent(Stopped(stEsp))
  /\ stRef' = [stRef EXCEPT !.pc = "tell", !.crit = @ /\ Heard]
  /\ StQuiet /\ UNCHANGED stPast

StopTarget == IF stRef.why = "fault" THEN 21 ELSE 7

\* Wicklers idle, MAS0001=target not required.  After the stop inside the start comes
\* the one of the failed start, whose result nobody reads; MAS0028 latches a fault.
Tell ==
  /\ StAt("tell")
  /\ stEsp' = Sent([stEsp EXCEPT !.state = StopTarget])
  /\ stRef' = IF stRef.why = "verify" THEN StGiveUp
              ELSE [stRef EXCEPT !.pc = "write", !.now.mode = StopTarget, !.now.active = FALSE]
  /\ stPast' = [stPast EXCEPT !.blind = IF stRef.why = "start" THEN ~stRef.crit ELSE @]
  /\ StQuiet

-----------------------------------------------------------------------------
(* _pause_production_motion_after_print and the monitors                   *)

StFault == [stRef EXCEPT !.pc = "stop", !.why = "fault"]

AskPause ==
  /\ StAt("ask")
  /\ stEsp' = IF stEsp.run = "on" THEN Sent([stEsp EXCEPT !.run = "ending"]) ELSE stEsp
  /\ stRef' = IF Heard THEN StGo("wait") ELSE StFault
  /\ StQuiet /\ UNCHANGED stPast

QuietRunnerBug == stEsp.run # "on"

\* _controlled_pause_monitor_acceptance
QuietRunner == stEsp.run \in {"off", "paused"}

Accepted ==
  /\ StAt("wait") /\ Heard /\ QuietRunner
  /\ stEsp' = [stEsp EXCEPT !.state = 7]
  /\ stRef' = [stRef EXCEPT !.pc = "write", !.now.mode = 7, !.now.active = FALSE, !.now.paused = TRUE]
  /\ StQuiet /\ UNCHANGED stPast

\* 120 s
PauseTimeout ==
  /\ StAt("wait") /\ stRef' = StFault
  /\ StQuiet /\ UNCHANGED <<stEsp, stPast>>

CountedBug(row) == [row EXCEPT !.miss = 1, !.text = stLine]

\* The same error text again counts on, another one starts anew.
Counted(row) == [row EXCEPT !.miss = IF row.text = stLine THEN row.miss + 1 ELSE 1, !.text = stLine]

\* PRODUCTION_ESP_MONITOR_COMM_MAX_MISSES
TooMany(row) == row.miss >= 3

\* A last_error with an active runner; a restarted ESP says active = 0 and nothing follows.
Broken == stEsp.run = "fault"

Monitor ==
  /\ StAt("monitor")
  /\ stRef' = IF Heard
              THEN IF Broken THEN StFault
                   ELSE [stRef EXCEPT !.pc = "watch", !.now.miss = 0, !.now.text = "up"]
              ELSE IF TooMany(Counted(stRef.now)) THEN [StFault EXCEPT !.now = Counted(@)]
                   ELSE [stRef EXCEPT !.pc = "watch", !.now = Counted(@)]
  /\ StQuiet /\ UNCHANGED <<stEsp, stPast>>

\* _monitor_active_production_wicklers
Watch ==
  /\ StAt("watch")
  /\ stRef' = IF stBad THEN StFault ELSE StGo("write")
  /\ StQuiet /\ UNCHANGED <<stEsp, stPast>>

-----------------------------------------------------------------------------
(* The end of the refresh: MAS0001 to the ESP, unless a start said 5, and  *)
(* the row.  A start that was acknowledged and then failed counts as said. *)

SyncNeeded(now) == now.mode # stRow.mode \/ SyncDue(now)

StWrite ==
  /\ StAt("write")
  /\ LET now == stRef.now
         say == ~stRef.told /\ SyncNeeded(now)
         known == stRef.told \/ (say /\ Heard)
     IN /\ stEsp' = IF say THEN Sent([stEsp EXCEPT !.state = now.mode]) ELSE stEsp
        /\ stRow' = [now EXCEPT !.sync = IF known THEN now.mode ELSE @]
        /\ stRef' = StRest(stRow')
        /\ stPast' = [stPast EXCEPT !.shaken = FALSE]
  /\ UNCHANGED <<stLine, stBad, stMap, stSaid, stCmd, stUsed>>

RefreshStep(due) ==
  \/ StBegin(due)
  \/ Ping \/ Sync5 \/ Params \/ ClearEsp \/ Wicklers \/ Go \/ Status \/ Ready \/ Verify
  \/ Stop \/ CheckStop \/ Tell \/ AskPause \/ Accepted \/ Monitor \/ Watch \/ StWrite

StartNext ==
  \/ \E c \in {1, 7} : Want(c)
  \/ \E to \in {"up", "mute", "dead"} : LineChanges(to)
  \/ EditMap \/ EspBoots \/ RunnerFaults \/ RunnerEnds \/ WicklerSlips
  \/ \E due \in BOOLEAN : RefreshStep(due)
  \/ PauseTimeout

StartSpec == StartInit /\ [][StartNext]_stVars
\* The refresh loop goes on, the wait has its deadline.
StartFair == StartSpec /\ WF_stVars(RefreshStep(TRUE)) /\ WF_stVars(PauseTimeout)

-----------------------------------------------------------------------------
(* Properties                                                              *)

\* Every field has its type: misses are counted to 3 and no further.
StartTypeOK ==
  /\ stEsp \in [run : Runners, state : StModes \cup {0}, map : 0 .. MaxEdits]
  /\ stLine \in {"up", "mute", "dead"} /\ stBad \in BOOLEAN
  /\ stMap \in 0 .. MaxEdits /\ stSaid \in 0 .. MaxEdits /\ stCmd \in {0, 1, 7}
  /\ stRow \in StRows /\ stRef \in StRefs

\* Between refreshes a machine in state 7 has no running runner, whatever answers were
\* lost on the way: except after a failed start whose stop was not confirmed, the one
\* stop whose result the refresh does not look at (machine_runtime.py:1772).
NoSecretRun ==
  (StAt("idle") /\ stRow.mode = 7 /\ ~stPast.blind) => stEsp.run \notin {"on", "ending"}

\* A fresh start, once its runner runs, runs with the parameter the start read, though
\* the ESP was restarted before or an answer was lost (comment at machine_runtime.py:5816).
\* A restart between the parameters and START goes unnoticed.
RunsAsPlanned ==
  (stEsp.run = "on" /\ stRef.how = "fresh" /\ stRef.pc \in {"verify", "status"} /\ ~stPast.shaken)
    => stEsp.map = stRef.plan

\* A faulted runner ends the production, and so does a line that stays broken in the
\* same way: three looks, no more (PRODUCTION_ESP_MONITOR_COMM_MAX_MISSES).
FaultEnds == (stRow.mode = 5 /\ stEsp.run = "fault") ~> (stRow.mode # 5 \/ stEsp.run # "fault")
SilenceEnds ==
  \A l \in {"mute", "dead"} : (stRow.mode = 5 /\ stLine = l) ~> (stRow.mode # 5 \/ stLine # l)

\* What holds of the line and the start in every state.
StartInv == StartTypeOK /\ NoSecretRun /\ RunsAsPlanned

\* A production ends that should: with a faulted runner, and with a dead line.
StartEnds == FaultEnds /\ SilenceEnds
=============================================================================
