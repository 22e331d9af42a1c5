--------------------------------- MODULE Gate ---------------------------------
(***************************************************************************)
(* The release of a label by WICKLER_READY (machine_runtime.py).  The      *)
(* ESP's runner stands at the first print position, and again before every *)
(* following label, until the Raspberry has prepared the stroke of both    *)
(* wicklers and says so.  It asks by an event, which the push listener's   *)
(* thread handles; an event may be lost or come twice.  The refresh reads  *)
(* the runner's diagnosis and, when the runner still waits, does the same  *)
(* as a fallback.  What has been done already stands in the machine_state  *)
(* row, in time-stamped marks; both threads write the whole row.           *)
(***************************************************************************)
EXTENDS Naturals

CONSTANTS
  GtLabels,    \* bound: labels 1 .. GtLabels; 1 is the first of the run
  MaxExtras    \* bound: events delivered again and faults latched by others

ASSUME GateAssumption == GtLabels \in Nat \ {0} /\ MaxExtras \in Nat

VARIABLES
  gtWait,    \* the label the runner waits for; 0: it moves, has finished or was stopped
  gtNext,    \* the label it waits for next
  gtMail,    \* labels whose event is on its way
  gtFault,   \* MAS0028 or a cause of state 21 stands
  gtRow,     \* the row
  gtYoung,   \* labels whose mark is younger than 20 s
  gtGrace,   \* labels whose 1.5 s for the event, since the fallback first saw them, are over
  gtPush,    \* the listener's handler
  gtRef,     \* the refresh, with its copy of the row
  gtUsed,    \* spent budgets
  gtPast     \* history

gtTime == <<gtYoung, gtGrace>>
gtVars == <<gtWait, gtNext, gtMail, gtFault, gtRow, gtTime, gtPush, gtRef, gtUsed, gtPast>>

GtLabelNos == 1 .. GtLabels
GtSome == 0 .. GtLabels
\* attempt: first_print_wickler_ready_attempt; marks: wickler_gate_events; seen:
\* esp_next_wickler_ready_fallback of a label that was given its grace.
GtRows == [mode : {5, 21}, active : BOOLEAN, attempt : GtSome, marks : SUBSET GtLabelNos,
           seen : GtSome]
GtRow0 == [mode |-> 5, active |-> TRUE, attempt |-> 0, marks |-> {}, seen |-> 0]
GtIdle == [pc |-> "idle", label |-> 0]
GtRest == [pc |-> "idle", label |-> 0, copy |-> GtRow0]

GateInit ==
  /\ gtWait = 0 /\ gtNext = 1 /\ gtMail = {} /\ gtFault = FALSE
  /\ gtRow = GtRow0 /\ gtYoung = {} /\ gtGrace = {}
  /\ gtPush = GtIdle /\ gtRef = GtRest
  /\ gtUsed = [again |-> 0, outer |-> 0]
  /\ gtPast = [gave |-> {}, twice |-> FALSE, lost |-> FALSE]

-----------------------------------------------------------------------------
(* Runner, events, time, faults.                                           *)

RunnerWaits ==
  /\ gtWait = 0 /\ gtNext \in GtLabelNos /\ gtRow.active
  /\ gtWait' = gtNext /\ gtNext' = gtNext + 1 /\ gtMail' = gtMail \cup {gtNext}
  /\ UNCHANGED <<gtFault, gtRow, gtTime, gtPush, gtRef, gtUsed, gtPast>>

LoseGateEvent(l) ==
  /\ l \in gtMail /\ gtMail' = gtMail \ {l}
  /\ UNCHANGED <<gtWait, gtNext, gtFault, gtRow, gtTime, gtPush, gtRef, gtUsed, gtPast>>

MarkAges(l) ==
  /\ l \in gtYoung /\ gtYoung' = gtYoung \ {l}
  /\ UNCHANGED <<gtWait, gtNext, gtMail, gtFault, gtRow, gtGrace, gtPush, gtRef, gtUsed, gtPast>>

GraceOver(l) ==
  /\ gtRow.seen = l /\ l \notin gtGrace /\ gtGrace' = gtGrace \cup {l}
  /\ UNCHANGED <<gtWait, gtNext, gtMail, gtFault, gtRow, gtYoung, gtPush, gtRef, gtUsed, gtPast>>

MoreExtras == gtUsed.again + gtUsed.outer < MaxExtras

OuterFault ==
  /\ MoreExtras /\ ~gtFault
  /\ gtFault' = TRUE /\ gtUsed' = [gtUsed EXCEPT !.outer = @ + 1]
  /\ UNCHANGED <<gtWait, gtNext, gtMail, gtRow, gtTime, gtPush, gtRef, gtPast>>

\* The runner is stopped: it waits for nothing any more.
StopRunner == gtWait' = 0 /\ gtNext' = GtLabels + 1
KeepRunner == UNCHANGED <<gtWait, gtNext>>

FaultRow(row) == [row EXCEPT !.mode = 21, !.active = FALSE]

-----------------------------------------------------------------------------
(* The handler of production_first_print_position_reached and              *)
(* production_wickler_prepare_required.                                    *)

TakeEvent(l, again) ==
  /\ gtPush.pc = "idle" /\ l \in gtMail
  /\ again => MoreExtras
  /\ gtMail' = IF again THEN gtMail ELSE gtMail \ {l}
  /\ gtUsed' = [gtUsed EXCEPT !.again = IF again THEN @ + 1 ELSE @]
  /\ gtPush' = [pc |-> "look", label |-> l]
  /\ UNCHANGED <<gtWait, gtNext, gtFault, gtRow, gtTime, gtRef, gtPast>>

AlreadyTriedBug(l) == FALSE

\* _first_print_wickler_ready_already_sent; a prepare_required has no signature, its
\* repetition is not recognised.
AlreadyTried(l) == l = 1 /\ gtRow.attempt = 1

\* Stale events are dropped; the first label is marked before anything is done.
LookAtEvent ==
  /\ gtPush.pc = "look"
  /\ LET l == gtPush.label
         dropped == ~(gtRow.active /\ gtRow.mode = 5) \/ AlreadyTried(l)
     IN /\ gtPush' = IF dropped THEN GtIdle
                     ELSE [gtPush EXCEPT !.pc = IF l = 1 THEN "tto" ELSE "prepare"]
        /\ IF dropped \/ l # 1 THEN UNCHANGED <<gtRow, gtYoung>>
           ELSE /\ gtRow' = [gtRow EXCEPT !.attempt = 1, !.marks = @ \cup {1}]
                /\ gtYoung' = gtYoung \cup {1}
  /\ UNCHANGED <<gtWait, gtNext, gtMail, gtFault, gtGrace, gtRef, gtUsed, gtPast>>

\* _verify_first_print_tto_queue_data waits up to 60 s for the printer's data;
\* _latch_first_print_tto_queue_fault stops the runner and latches MAS0028.
TtoLatches ==
  /\ StopRunner /\ gtFault' = TRUE /\ gtRow' = FaultRow(gtRow)

PushTto(ok) ==
  /\ gtPush.pc = "tto"
  /\ IF ok THEN KeepRunner /\ UNCHANGED <<gtFault, gtRow>> /\ gtPush' = [gtPush EXCEPT !.pc = "prepare"]
           ELSE TtoLatches /\ gtPush' = GtIdle
  /\ UNCHANGED <<gtMail, gtTime, gtRef, gtUsed, gtPast>>

\* _prepare_next_production_wickler_takt; in another state than 5 nothing is prepared and
\* the result is ok.  twice: the stroke of label 1 is prepared by a handler that has
\* already released it.
PushPrepare(ok) ==
  /\ gtPush.pc = "prepare"
  /\ gtPush' = IF ok \/ gtRow.mode # 5 THEN [gtPush EXCEPT !.pc = "gate"] ELSE GtIdle
  /\ gtPast' = [gtPast EXCEPT !.twice = @ \/ (gtPush.label = 1 /\ 1 \in gtPast.gave)]
  /\ UNCHANGED <<gtWait, gtNext, gtMail, gtFault, gtRow, gtTime, gtRef, gtUsed>>

\* _production_gate_fault_blocker
Blocks == gtFault \/ gtRow.mode = 21

PushGate ==
  /\ gtPush.pc = "gate"
  /\ IF Blocks THEN StopRunner /\ gtRow' = FaultRow(gtRow) /\ gtPush' = GtIdle
               ELSE KeepRunner /\ gtRow' = gtRow /\ gtPush' = [gtPush EXCEPT !.pc = "ready"]
  /\ UNCHANGED <<gtMail, gtFault, gtTime, gtRef, gtUsed, gtPast>>

\* WICKLER_READY LABEL_NO=l: a runner that waits for l goes on.
WicklerReady(l, ok) == gtWait' = IF ok /\ gtWait = l THEN 0 ELSE gtWait

PushReady(ok) ==
  /\ gtPush.pc = "ready"
  /\ WicklerReady(gtPush.label, ok)
  /\ gtPush' = GtIdle
  /\ gtPast' = [gtPast EXCEPT !.gave = IF ok THEN @ \cup {gtPush.label} ELSE @]
  /\ UNCHANGED <<gtNext, gtMail, gtFault, gtRow, gtTime, gtRef, gtUsed>>

-----------------------------------------------------------------------------
(* The refresh.                                                            *)

FaultSeen == gtFault

RefCopy ==
  /\ gtRef.pc = "idle"
  /\ IF FaultSeen
     THEN /\ gtRow # FaultRow(gtRow)
          /\ StopRunner /\ gtRow' = FaultRow(gtRow) /\ gtRef' = gtRef
     ELSE /\ gtRow.mode = 5 /\ gtRow.active /\ gtWait # 0
          /\ KeepRunner /\ gtRow' = gtRow
          /\ gtRef' = [pc |-> "diag", label |-> 0, copy |-> gtRow]
  /\ UNCHANGED <<gtMail, gtFault, gtTime, gtPush, gtUsed, gtPast>>

InFlightBug(l) == l \in gtRow.marks

\* _production_wickler_start_already_in_flight
InFlight(l) == l \in gtRow.marks \cap gtYoung

\* The runner waits: cooldown, a start in flight, the grace of a following label, or the
\* fallback begins.  For the first label it leaves the handler's mark first.
RefDiag(cool) ==
  /\ gtRef.pc = "diag"
  /\ LET l == gtWait
         wait == l = 0 \/ cool \/ InFlight(l) \/ (l # 1 /\ l \notin gtGrace)
     IN /\ gtRef' = [gtRef EXCEPT !.pc = IF wait THEN "write" ELSE IF l = 1 THEN "tto" ELSE "prepare",
                       !.label = IF wait THEN 0 ELSE l,
                       !.copy.seen = IF wait /\ l # 1 THEN l ELSE @]
        /\ gtRow' = IF wait \/ l # 1 THEN gtRow ELSE [gtRow EXCEPT !.attempt = 1]
        /\ gtGrace' = IF wait THEN gtGrace ELSE gtGrace \ {l}
  /\ UNCHANGED <<gtWait, gtNext, gtMail, gtFault, gtYoung, gtPush, gtUsed, gtPast>>

RefTto(ok) ==
  /\ gtRef.pc = "tto"
  /\ IF ok THEN KeepRunner /\ UNCHANGED <<gtFault, gtRow>> /\ gtRef' = [gtRef EXCEPT !.pc = "prepare"]
           ELSE TtoLatches /\ gtRef' = [gtRef EXCEPT !.pc = "write"]
  /\ UNCHANGED <<gtMail, gtTime, gtPush, gtUsed, gtPast>>

RefPrepare(ok) ==
  /\ gtRef.pc = "prepare"
  /\ gtRef' = [gtRef EXCEPT !.pc = IF ok \/ gtRow.mode # 5 THEN "ready" ELSE "write"]
  /\ UNCHANGED <<gtWait, gtNext, gtMail, gtFault, gtRow, gtTime, gtPush, gtUsed, gtPast>>

\* Without a look at faults.
RefReady(ok) ==
  /\ gtRef.pc = "ready"
  /\ WicklerReady(gtRef.label, ok)
  /\ gtRef' = [gtRef EXCEPT !.pc = "write"]
  /\ UNCHANGED <<gtNext, gtMail, gtFault, gtRow, gtTime, gtPush, gtUsed, gtPast>>

\* The end of the refresh: its copy of the row, in state 5, with the first label's attempt.
RefWrite ==
  /\ gtRef.pc = "write"
  /\ LET now == IF gtRef.label = 1 THEN [gtRef.copy EXCEPT !.attempt = 1] ELSE gtRef.copy
     IN /\ gtRow' = now
        /\ gtPast' = [gtPast EXCEPT !.lost = @ \/ now.attempt # gtRow.attempt]
  /\ gtRef' = GtRest
  /\ UNCHANGED <<gtWait, gtNext, gtMail, gtFault, gtTime, gtPush, gtUsed>>

-----------------------------------------------------------------------------

PushStep(ok) == LookAtEvent \/ PushTto(ok) \/ PushPrepare(ok) \/ PushGate \/ PushReady(ok)
RefStep(ok) ==
  RefCopy \/ RefDiag(~ok) \/ RefTto(ok) \/ RefPrepare(ok) \/ RefReady(ok) \/ RefWrite

GateNext ==
  \/ RunnerWaits \/ OuterFault
  \/ \E l \in GtLabelNos : LoseGateEvent(l) \/ MarkAges(l) \/ GraceOver(l)
  \/ \E l \in GtLabelNos, again \in BOOLEAN : TakeEvent(l, again)
  \/ \E ok \in BOOLEAN : PushStep(ok) \/ RefStep(ok)

GateSpec == GateInit /\ [][GateNext]_gtVars

\* Both threads go on, time passes, and wicklers and ESP do not fail for ever.
GateFair ==
  /\ GateSpec
  /\ WF_gtVars(PushStep(TRUE) \/ PushStep(FALSE)) /\ WF_gtVars(RefStep(TRUE) \/ RefStep(FALSE))
  /\ \A l \in GtLabelNos : WF_gtVars(MarkAges(l)) /\ WF_gtVars(GraceOver(l))
  /\ SF_gtVars(RefDiag(FALSE)) /\ SF_gtVars(RefPrepare(TRUE)) /\ SF_gtVars(RefReady(TRUE))

-----------------------------------------------------------------------------
(* Properties                                                              *)

\* Every field has its type: marks exist only for the first label, the one whose
\* handler leaves a mark before it works, and grace for the others.
GateTypeOK ==
  /\ gtWait \in GtSome /\ gtNext \in 1 .. GtLabels + 1 /\ gtMail \subseteq GtLabelNos
  /\ gtFault \in BOOLEAN /\ gtRow \in GtRows
  /\ gtYoung \subseteq {1} /\ gtGrace \subseteq GtLabelNos \ {1}
  /\ gtPush \in [pc : {"idle", "look", "tto", "prepare", "gate", "ready"}, label : GtSome]
  /\ gtRef \in [pc : {"idle", "diag", "tto", "prepare", "ready", "write"}, label : GtSome,
                copy : GtRows]

\* The runner never waits for good, though its event was lost, a wickler was not ready or
\* an answer failed: it is released, or stopped by a fault.
ReadyArrives == \A l \in GtLabelNos : (gtWait = l) ~> (gtWait # l)

\* The listener's handler does not prepare the first label's stroke again after it has
\* released it, however often the event comes: unless a refresh's older copy of the row
\* took the attempt away (machine_runtime.py:1976).
FirstOnce == gtPast.twice => gtPast.lost

\* A latched fault ends in state 21 for good, though a refresh that has not seen it
\* writes state 5 over the handler's 21.
FaultWins == gtFault ~> [](gtRow.mode = 21)

\* What holds at the gate in every state.
GateInv == GateTypeOK /\ FirstOnce

\* A runner that waits is released, and a fault closes the gate for good.
GateSettles == ReadyArrives /\ FaultWins
=============================================================================
