------------------------------ MODULE SeaReady ------------------------------
(***************************************************************************)
(* The ready line to the SEA Vision camera is an output of the ESP.  Every  *)
(* refresh of the machine compares the level its state asks for with the   *)
(* row of the output and with what its MachineRuntime last tried, and      *)
(* decides whether to drive the line (_apply_sea_vision_ready_output).     *)
(* The rewind of a removed label drives it low besides.  The row also      *)
(* changes by the poll of the ESP, which is put off in most states, and by  *)
(* a level forced on the commissioning page.                               *)
(***************************************************************************)
EXTENDS Naturals

CONSTANT MaxSeaEvents  \* bound on everything that is not a refresh, taken together

ASSUME SeaReadyAssumption == MaxSeaEvents \in Nat

VARIABLES
  srState,  \* "ready" (4 to 7), "quiet", "stopped" (8 to 11, 20 and 21)
  srReal,   \* the line
  srUp,     \* the ESP answers
  srVal,    \* the row's value
  srQual,   \* the row's quality: "live", "offline" or "override"
  srLast,   \* _sea_vision_ready_last_value
  srError,  \* _sea_vision_ready_last_error is set
  srRetry,  \* _sea_vision_ready_retry_due_ts is over
  srForce,  \* _sea_vision_ready_force_due_ts is over
  srCall,   \* the write that is under way: a level, or "none"
  srPoll,   \* the level a poll has read and not stored, or "none"
  srEvents

srVars == <<srState, srReal, srUp, srVal, srQual, srLast, srError, srRetry, srForce,
            srCall, srPoll, srEvents>>

srRow == <<srVal, srQual>>
srTries == <<srLast, srError, srRetry, srForce>>

SeaReadyInit ==
  /\ srState = "quiet" /\ srReal = "low" /\ srUp = TRUE
  /\ srVal = "low" /\ srQual = "live"
  /\ srLast = "none" /\ srError = FALSE /\ srRetry = TRUE /\ srForce = TRUE
  /\ srCall = "none" /\ srPoll = "none" /\ srEvents = 0

SeaEvent == srEvents < MaxSeaEvents /\ srEvents' = srEvents + 1

-----------------------------------------------------------------------------
(* The refresh.                                                            *)

Desired == IF srState = "ready" THEN "high" ELSE "low"

\* The row says that the line is as it should be.
Matches == srQual = "live" /\ srVal = Desired

\* Tried already, failed, and its time to try again has not come
BacksOff == srLast = Desired /\ srError /\ ~srRetry

\* Worth a write: a new level, a live row that disagrees, or, where the line
\* must be low, the time to say so again
Worth == srLast # Desired \/ srQual = "live" \/ (srState = "stopped" /\ srForce)

RefreshLooks ==
  /\ srCall = "none" /\ srQual # "override"
  /\ IF Matches
     THEN /\ srLast' = Desired /\ srError' = FALSE /\ srRetry' = TRUE
          /\ UNCHANGED <<srForce, srCall>>
     ELSE /\ ~BacksOff /\ Worth
          /\ srCall' = Desired
          /\ UNCHANGED srTries
  /\ UNCHANGED <<srState, srReal, srUp, srRow, srPoll, srEvents>>

\* The ESP drives the line and answers; the row is stored.
WriteWorks ==
  /\ srCall # "none" /\ srUp
  /\ srReal' = srCall
  /\ IF srQual = "override" THEN UNCHANGED srRow ELSE srVal' = srCall /\ srQual' = "live"
  /\ srLast' = srCall /\ srError' = FALSE /\ srRetry' = TRUE /\ srForce' = FALSE
  /\ srCall' = "none"
  /\ UNCHANGED <<srState, srUp, srPoll, srEvents>>

\* The write fails; the ESP may have executed it.
WriteFails ==
  /\ srCall # "none" /\ ~srUp
  /\ srReal' \in {srReal, srCall}
  /\ srLast' = srCall /\ srError' = TRUE /\ srRetry' = FALSE
  /\ srCall' = "none"
  /\ UNCHANGED <<srState, srUp, srRow, srForce, srPoll, srEvents>>

\* machine_runtime_loop builds a new MachineRuntime every five seconds: what was
\* tried is forgotten, and a wait for a retry with it.
Forgotten == FALSE

RenewedRuntime ==
  /\ srCall = "none"
  /\ srLast' = "none" /\ srError' = Forgotten /\ srRetry' = TRUE /\ srForce' = TRUE
  /\ UNCHANGED <<srState, srReal, srUp, srRow, srCall, srPoll, srEvents>>

TimesPass ==
  /\ srRetry' \in {srRetry, TRUE} /\ srForce' \in {srForce, TRUE}
  /\ UNCHANGED <<srState, srReal, srUp, srRow, srLast, srError, srCall, srPoll, srEvents>>

\* _force_sea_vision_ready_low: without a look at what was tried
RewindForcesLow ==
  /\ SeaEvent
  /\ srState = "ready" /\ srCall = "none" /\ srQual # "override"
  /\ srCall' = "low"
  /\ UNCHANGED <<srState, srReal, srUp, srRow, srTries, srPoll>>

-----------------------------------------------------------------------------
(* The machine, the ESP and the page.                                      *)

SeaStateChanges ==
  /\ SeaEvent
  /\ srState' \in {"ready", "quiet", "stopped"} \ {srState}
  /\ UNCHANGED <<srReal, srUp, srRow, srTries, srCall, srPoll>>

LinkChanges ==
  /\ SeaEvent /\ srUp' = ~srUp
  /\ UNCHANGED <<srState, srReal, srRow, srTries, srCall, srPoll>>

EspRestarts ==
  /\ SeaEvent /\ srReal' = "low"
  /\ UNCHANGED <<srState, srUp, srRow, srTries, srCall, srPoll>>

PollReads ==
  /\ SeaEvent /\ srUp /\ srPoll = "none" /\ srPoll' = srReal
  /\ UNCHANGED <<srState, srReal, srUp, srRow, srTries, srCall>>

PollStores ==
  /\ srPoll # "none" /\ srPoll' = "none"
  /\ IF srQual = "override" THEN UNCHANGED srRow ELSE srVal' = srPoll /\ srQual' = "live"
  /\ UNCHANGED <<srState, srReal, srUp, srTries, srCall, srEvents>>

\* Polls have failed for longer than the grace time.
PollFindsNone ==
  /\ SeaEvent /\ ~srUp /\ srQual = "live" /\ srQual' = "offline"
  /\ UNCHANGED <<srState, srReal, srUp, srVal, srTries, srCall, srPoll>>

PageForces ==
  /\ SeaEvent /\ srUp
  /\ IF srQual = "override"
     THEN srQual' \in {"live", "offline"} /\ UNCHANGED <<srVal, srReal>>
     ELSE srQual' = "override" /\ srVal' \in {"low", "high"} /\ srReal' = srVal'
  /\ UNCHANGED <<srState, srUp, srTries, srCall, srPoll>>

-----------------------------------------------------------------------------
RefreshDrives == RefreshLooks \/ WriteWorks \/ WriteFails

SeaReadyNext ==
  \/ RefreshDrives \/ RewindForcesLow \/ RenewedRuntime \/ TimesPass
  \/ SeaStateChanges \/ LinkChanges \/ EspRestarts
  \/ PollReads \/ PollStores \/ PollFindsNone \/ PageForces

SeaReadySpec == SeaReadyInit /\ [][SeaReadyNext]_srVars

\* The machine loop goes on, a poll that has read stores; nothing else must
\* happen (the time of a retry need not come while a runtime lives).
SeaReadyFair ==
  /\ SeaReadySpec
  /\ WF_srVars(RefreshDrives) /\ SF_srVars(RenewedRuntime) /\ WF_srVars(PollStores)

-----------------------------------------------------------------------------
(* Properties                                                              *)

\* Every variable keeps its shape; an error belongs to a level that was tried.
SeaReadyTypeOK ==
  /\ srState \in {"ready", "quiet", "stopped"}
  /\ srReal \in {"low", "high"} /\ srUp \in BOOLEAN
  /\ srVal \in {"low", "high"} /\ srQual \in {"live", "offline", "override"}
  /\ srLast \in {"none", "low", "high"} /\ srError \in BOOLEAN
  /\ srError => srLast # "none"
  /\ srRetry \in BOOLEAN /\ srForce \in BOOLEAN
  /\ srCall \in {"none", "low", "high"} /\ srPoll \in {"none", "low", "high"}
  /\ srEvents \in 0 .. MaxSeaEvents

\* The line comes to the level of the machine's state and stays there, after
\* failed writes, outages and a rewind's low, as long as the ESP answers and a
\* row that calls itself live is right.
SeaFollows ==
  \A level \in {"low", "high"} :
    <>[](/\ Desired = level /\ srUp /\ srQual # "override"
         /\ srQual = "live" => srVal = srReal)
      => <>[](srReal = level)

=============================================================================
