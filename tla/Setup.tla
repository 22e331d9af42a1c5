--------------------------------- MODULE Setup ---------------------------------
(***************************************************************************)
(* Einrichten (setup_wickler_orchestrator.py): one long procedure inside a *)
(* refresh (machine_runtime.py _perform_setup_wickler_calibration) that    *)
(* calibrates both wicklers, starts the ESP's measuring run, learns the    *)
(* roll diameters and prepares the production, while a second thread       *)
(* positions the format axes.  Every command may fail, or be carried out   *)
(* with its answer lost; a faulted wickler, a timeout and a broken run are *)
(* failures too.  A stop of the operator (MAS0002) or a latched MAS0028 is *)
(* noticed where the procedure looks; what it has set going is taken back  *)
(* in its finally and except clauses, whose own failures are               *)
(* logged and ignored.  The module Recovery has what surrounds it.         *)
(***************************************************************************)
EXTENDS Naturals

CONSTANTS
  SuWicklers,  \* the two wicklers
  MaxSetups,   \* bound: setups
  MaxAborts    \* bound: stops by the operator, and MAS0028 latched by an ESP push

ASSUME SetupAssumption == MaxSetups \in Nat \ {0} /\ MaxAborts \in Nat

VARIABLES
  suPc,     \* where the procedure is
  suErr,    \* an exception is under way
  suAxes,   \* the format axes' thread
  suCmd,    \* MAS0002, MAS0001: setup, or something else
  suP28,    \* MAS0028
  suPlant,  \* what ESP and wicklers are doing
  suPast,   \* history of this setup
  suUsed    \* spent budgets

suAsked == <<suCmd, suP28>>
suVars == <<suPc, suErr, suAxes, suAsked, suPlant, suPast, suUsed>>

SuPcs == {"idle", "sync", "master", "reset", "calibrate", "axes", "zero", "learn", "teach", "lead", "start",
          "poll", "unlead", "sea", "cancel", "apply", "base", "clear", "final", "after",
          "stop", "join"}
SuAxesPcs == {"none", "check", "move", "ok", "failed"}
\* lead: wicklers with a leader speed; learn: those learning; free: those released for
\* motion; teach: the infeed sensor's teach output.
SuPlants == [measure : {"no", "runs", "done"}, lead : SUBSET SuWicklers,
             learn : SUBSET SuWicklers, free : SUBSET SuWicklers, teach : BOOLEAN]
SuAtRest == [measure |-> "no", lead |-> {}, learn |-> {}, free |-> {}, teach |-> FALSE]
\* missed: what could not be ended, the command did not get through; applied: diameters
\* set; stopped, latched: before the last look; wiped: the baseline cleared a MAS0028 it
\* had not seen.
SuPasts == [missed : SUBSET {"measure", "lead", "teach", "wicklers"}, applied : SUBSET SuWicklers,
            stopped : BOOLEAN, latched : BOOLEAN, wiped : BOOLEAN,
            result : {"none", "ok", "failed", "after"}]
SuFresh(missed) == [missed |-> missed, applied |-> {}, stopped |-> FALSE, latched |-> FALSE,
                    wiped |-> FALSE, result |-> "none"]

SetupInit ==
  /\ suPc = "idle" /\ suErr = FALSE /\ suAxes = "none" /\ suCmd = "other" /\ suP28 = FALSE
  /\ suPlant = SuAtRest /\ suPast = SuFresh({})
  /\ suUsed = [setups |-> 0, aborts |-> 0]

\* _setup_abort_reason is empty.
SetupActive == suCmd = "setup" /\ ~suP28

-----------------------------------------------------------------------------
(* Surroundings.                                                           *)

BeginSetup ==
  /\ suPc = "idle" /\ ~suP28 /\ suUsed.setups < MaxSetups
  /\ suUsed' = [suUsed EXCEPT !.setups = @ + 1]
  /\ suPc' = "sync" /\ suAxes' = "check" /\ suCmd' = "setup" /\ suErr' = FALSE
  /\ suPast' = SuFresh(suPast.missed)
  /\ UNCHANGED <<suP28, suPlant>>

\* Nobody looks any more.
SuLate == suPc \in {"after", "join"}

\* Another command in MAS0002.
StopSetup ==
  /\ suPc # "idle" /\ suCmd = "setup" /\ suUsed.aborts < MaxAborts
  /\ suCmd' = "other" /\ suUsed' = [suUsed EXCEPT !.aborts = @ + 1]
  /\ suPast' = [suPast EXCEPT !.stopped = @ \/ ~SuLate]
  /\ UNCHANGED <<suPc, suErr, suAxes, suP28, suPlant>>

LatchPurge ==
  /\ suPc # "idle" /\ ~suP28 /\ suUsed.aborts < MaxAborts
  /\ suP28' = TRUE /\ suUsed' = [suUsed EXCEPT !.aborts = @ + 1]
  /\ suPast' = [suPast EXCEPT !.latched = @ \/ ~SuLate]
  /\ UNCHANGED <<suPc, suErr, suAxes, suCmd, suPlant>>

\* Reset by the operator, module Purge.
ResetPurge ==
  /\ suPc = "idle" /\ suP28 /\ suP28' = FALSE
  /\ UNCHANGED <<suPc, suErr, suAxes, suCmd, suPlant, suPast, suUsed>>

\* The ESP's run is complete.
MeasureEnds ==
  /\ suPlant.measure = "runs" /\ suPlant' = [suPlant EXCEPT !.measure = "done"]
  /\ UNCHANGED <<suPc, suErr, suAxes, suAsked, suPast, suUsed>>

-----------------------------------------------------------------------------
(* The format axes: their master settings, limits and alarms are checked,  *)
(* then one set of moves is sent and verified.  The thread never asks      *)
(* whether the setup goes on.                                              *)

AxesStep(ok) ==
  /\ suAxes \in {"check", "move"}
  /\ suAxes' = IF ~ok THEN "failed" ELSE IF suAxes = "check" THEN "move" ELSE "ok"
  /\ UNCHANGED <<suPc, suErr, suAsked, suPlant, suPast, suUsed>>

AxesEnded == suAxes \in {"ok", "failed"}

-----------------------------------------------------------------------------
(* The procedure.                                                          *)

HandlerBug(pc) ==
  IF pc \in {"teach", "lead", "start", "poll", "sea"} THEN "cancel" ELSE "stop"

\* Where an exception raised at pc is handled first.
Handler(pc) ==
  IF pc \in {"teach", "lead", "start", "poll"} THEN "unlead"
  ELSE IF pc = "sea" THEN "cancel" ELSE "stop"

Leave(pc, next, ok) ==
  /\ suPc = pc
  /\ suPc' = IF ok THEN next ELSE Handler(pc)
  /\ suErr' = (suErr \/ ~ok)

Missed(tried, now) == [suPast EXCEPT !.missed = (@ \ tried) \cup now]
NothingElse == UNCHANGED <<suAxes, suAsked, suUsed>>

\* Parameters that have changed go to the ESP, motor polling off, motor 3's speed.
SyncEsp(ok) ==
  /\ Leave("sync", "master", ok) /\ (ok => SetupActive)
  /\ UNCHANGED <<suPlant, suPast>> /\ NothingElse

\* The wicklers' master values, read back and compared.
SyncMaster(ok) ==
  /\ Leave("master", "reset", ok)
  /\ UNCHANGED <<suPlant, suPast>> /\ NothingElse

\* stop, resetAlarm, etoRecovery, each to both wicklers in parallel.
ResetWicklers(ok, done) ==
  /\ Leave("reset", "calibrate", ok) /\ (ok => SetupActive /\ done = SuWicklers)
  /\ suPlant' = [suPlant EXCEPT !.free = @ \ done]
  /\ suPast' = suPast /\ NothingElse

\* Both calibrate together, are awaited, released for motion and awaited again.
Calibrate(ok, done) ==
  /\ Leave("calibrate", "axes", ok) /\ (ok => SetupActive /\ done = SuWicklers)
  /\ suPlant' = [suPlant EXCEPT !.free = @ \cup done]
  /\ suPast' = suPast /\ NothingElse

\* The result of the axes is awaited, its exception goes on here.
AwaitAxes ==
  /\ AxesEnded
  /\ Leave("axes", "zero", suAxes # "failed")
  /\ UNCHANGED <<suPlant, suPast>> /\ NothingElse

\* Motor 3 ready and at zero.
Zero(ok) ==
  /\ Leave("zero", "learn", ok) /\ (ok => SetupActive)
  /\ UNCHANGED <<suPlant, suPast>> /\ NothingElse

StartLearning(ok, done) ==
  /\ Leave("learn", "teach", ok) /\ (ok => SetupActive /\ done = SuWicklers)
  /\ suPlant' = [suPlant EXCEPT !.learn = @ \cup done]
  /\ suPast' = suPast /\ NothingElse

\* The teach output is set for 3.5 s; if taking it back fails it stays set.
Teach(ok, on) ==
  /\ Leave("teach", "lead", ok) /\ (ok => SetupActive /\ ~on)
  /\ suPlant' = [suPlant EXCEPT !.teach = on]
  /\ suPast' = suPast /\ NothingElse

\* Motor 3 ready, the last look before the run, then the wicklers' leader speed.
Lead(ok, done) ==
  /\ Leave("lead", "start", ok) /\ (ok => SetupActive /\ done = SuWicklers)
  /\ suPlant' = [suPlant EXCEPT !.lead = @ \cup done]
  /\ suPast' = suPast /\ NothingElse

StartMeasure(ok, done) ==
  /\ Leave("start", "poll", ok) /\ (ok => done)
  /\ suPlant' = IF done THEN [suPlant EXCEPT !.measure = "runs"] ELSE suPlant
  /\ suPast' = suPast /\ NothingElse

\* _wait_setup_measurement_complete: until the run is complete; it ends early when the
\* setup is stopped, a wickler faults, the run breaks, the line or the time is over.
Poll(ok) ==
  /\ Leave("poll", "unlead", ok)
  /\ ok => SetupActive /\ suPlant.measure = "done"
  /\ UNCHANGED <<suPlant, suPast>> /\ NothingElse

\* finally: leader speed zero and teach output off; failures are ignored.
Unlead(told, off) ==
  /\ suPc = "unlead" /\ suPc' = (IF suErr THEN "cancel" ELSE "sea") /\ suErr' = suErr
  /\ suPlant' = [suPlant EXCEPT !.lead = @ \ told, !.teach = @ /\ ~off]
  /\ suPast' = Missed({"lead", "teach"}, (IF told = SuWicklers THEN {} ELSE {"lead"})
                                         \cup (IF off THEN {} ELSE {"teach"}))
  /\ NothingElse

\* SEA Vision ready, and its machine-run input when a camera is in use.
Sea(ok) ==
  /\ Leave("sea", "apply", ok)
  /\ UNCHANGED <<suPlant, suPast>> /\ NothingElse

\* except: both wicklers cancel their learning.
CancelLearning(told) ==
  /\ suPc = "cancel" /\ suPc' = "stop" /\ suErr' = suErr
  /\ suPlant' = [suPlant EXCEPT !.learn = @ \ told]
  /\ suPast' = suPast /\ NothingElse

\* Each wickler ends its learning and stores its diameter, both in parallel: one may
\* have a new diameter when the other failed.
ApplyDiameters(ok, done) ==
  /\ Leave("apply", "base", ok) /\ (ok => SetupActive /\ done = SuWicklers)
  /\ suPlant' = [suPlant EXCEPT !.learn = @ \ done]
  /\ suPast' = [suPast EXCEPT !.applied = @ \cup done]
  /\ NothingElse

\* PRODUCTION_RESET and motor 3 zero between two looks.
Baseline(ok) ==
  /\ Leave("base", "clear", ok) /\ (ok => SetupActive)
  /\ UNCHANGED <<suPlant, suPast>> /\ NothingElse

\* MAE0024-27, MAE0048 and MAS0028 are cleared.
ClearLatches ==
  /\ Leave("clear", "final", TRUE)
  /\ suP28' = FALSE /\ suPast' = [suPast EXCEPT !.wiped = @ \/ suP28]
  /\ UNCHANGED <<suAxes, suCmd, suPlant, suUsed>>

FinalRelease(ok, done) ==
  /\ Leave("final", "join", ok)
  /\ ok => SetupActive /\ done = SuWicklers
  /\ suPlant' = [suPlant EXCEPT !.free = @ \cup done]
  /\ suPast' = suPast /\ NothingElse

\* except: stop_all_motion; then MAS0028.
StopAll(esp, told) ==
  /\ suPc = "stop" /\ suPc' = "join" /\ suErr' = suErr /\ suP28' = TRUE
  /\ suPlant' = [suPlant EXCEPT !.measure = IF esp THEN "no" ELSE @, !.learn = @ \ told,
                   !.free = @ \ told]
  /\ suPast' = Missed({"measure", "wicklers"},
                      (IF esp THEN {} ELSE {"measure"})
                      \cup (IF told = SuWicklers THEN {} ELSE {"wicklers"}))
  /\ UNCHANGED <<suAxes, suCmd, suUsed>>

\* The executor waits for the axes in any case.
Joined ==
  /\ suPc = "join" /\ AxesEnded
  /\ suPc' = (IF suErr THEN "idle" ELSE "after") /\ suErr' = suErr
  /\ suPast' = [suPast EXCEPT !.result = IF suErr THEN "failed" ELSE @]
  /\ UNCHANGED <<suAxes, suAsked, suPlant, suUsed>>

\* The laser's reset and portal Z in its production position; MAS0002 becomes 0 for the
\* pause, or 2 when one of them failed.
AfterSetup(ok) ==
  /\ suPc = "after" /\ suPc' = "idle" /\ suErr' = ~ok /\ suCmd' = "other"
  /\ suPast' = [suPast EXCEPT !.result = IF ok THEN "ok" ELSE "after"]
  /\ UNCHANGED <<suAxes, suP28, suPlant, suUsed>>

-----------------------------------------------------------------------------

Procedure ==
  \/ \E ok \in BOOLEAN : SyncEsp(ok) \/ SyncMaster(ok) \/ Zero(ok) \/ Poll(ok) \/ Sea(ok) \/ Baseline(ok)
                         \/ AfterSetup(ok)
  \/ \E ok \in BOOLEAN, done \in SUBSET SuWicklers :
       \/ ResetWicklers(ok, done) \/ Calibrate(ok, done) \/ StartLearning(ok, done) \/ Lead(ok, done)
       \/ ApplyDiameters(ok, done) \/ FinalRelease(ok, done)
       \/ Unlead(done, ok) \/ StopAll(ok, done)
  \/ \E ok, on \in BOOLEAN : Teach(ok, on) \/ StartMeasure(ok, on)
  \/ \E told \in SUBSET SuWicklers : CancelLearning(told)
  \/ AwaitAxes \/ ClearLatches \/ Joined

AxesThread == \E ok \in BOOLEAN : AxesStep(ok)

SetupNext ==
  \/ BeginSetup \/ StopSetup \/ LatchPurge \/ ResetPurge \/ MeasureEnds
  \/ Procedure \/ AxesThread

SetupSpec == SetupInit /\ [][SetupNext]_suVars

\* Every wait of the procedure and of the axes' thread has a timeout.
SetupFair == SetupSpec /\ WF_suVars(Procedure) /\ WF_suVars(AxesThread)

-----------------------------------------------------------------------------
(* Properties                                                              *)

\* Every field has its type, and only an exception leads to the clauses that handle one.
SetupTypeOK ==
  /\ suPc \in SuPcs /\ suErr \in BOOLEAN /\ suAxes \in SuAxesPcs
  /\ suCmd \in {"setup", "other"} /\ suP28 \in BOOLEAN
  /\ suPlant \in SuPlants /\ suPast \in SuPasts
  /\ suPc \in {"cancel", "stop"} => suErr

\* A measuring run begins only with the format axes in place, both wicklers released and
\* learning (SUPPORT_CHANGELOG.md:180-183): no other order of the two threads' steps.
MeasuresInPlace ==
  suPc = "poll" => suAxes = "ok" /\ suPlant.free = SuWicklers /\ suPlant.learn = SuWicklers

\* Wherever a setup fails, it leaves nothing going: no measuring run, leader speed, teach
\* output, learning or released wickler, except what the ignored failure of the very
\* command that ends it has left (SUPPORT_CHANGELOG.md:190).
LeavesNothing ==
  suPc = "idle" =>
    /\ suPlant.measure = "runs" => "measure" \in suPast.missed
    /\ suPlant.lead # {} => "lead" \in suPast.missed
    /\ suPlant.teach => "teach" \in suPast.missed
    /\ suPlant.learn # {} => "wicklers" \in suPast.missed
    /\ suPast.result = "failed" /\ suPlant.free # {} => "wicklers" \in suPast.missed

\* A setup ends well only if both diameters are stored, the axes in place and the
\* wicklers ready, and nobody stopped it or latched MAS0028 on the way; but a MAS0028
\* that comes just before the baseline clears it is lost (setup_wickler_orchestrator.py:593).
OkMeansDone ==
  suPast.result = "ok" =>
    /\ suPast.applied = SuWicklers /\ suAxes = "ok" /\ suPlant.free = SuWicklers
    /\ ~suPast.stopped /\ (suPast.latched => suPast.wiped)

\* A setup comes to its end, for the refresh that runs it holds the lock of all others.
SetupEnds == suPc # "idle" ~> suPc = "idle"

\* What holds of the setup in every state.
SetupInv == SetupTypeOK /\ MeasuresInPlace /\ LeavesNothing /\ OkMeansDone
===============================================================================
