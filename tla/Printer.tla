------------------------------- MODULE Printer -------------------------------
(***************************************************************************)
(* The TTO printer is taken online for a production and offline after it.   *)
(* A start does it inside its own call and needs it to succeed             *)
(* (_sync_selected_printer_for_machine_state, required); a stop and the    *)
(* change of state after it each start a worker thread that does it when   *)
(* it comes to run (_queue_tto_printer_state_sync).  Nothing polls the      *)
(* printer: whether there is anything to do is decided on the stored        *)
(* TTS0001, before the lock of the printer is taken.                        *)
(***************************************************************************)
EXTENDS Naturals

CONSTANTS
  Workers,          \* the worker threads that may be under way at one time
  MaxPrints,        \* bound on starts
  MaxPrinterFaults  \* bound on failed exchanges and changes at the printer

ASSUME PrinterAssumption ==
  /\ Workers # {} /\ "start" \notin Workers
  /\ MaxPrints \in Nat /\ MaxPrinterFaults \in Nat

VARIABLES
  ptState,   \* the machine: "rest", "run", "hold" (pause for a label's removal),
             \* "stopping" (motion stopped, state not yet changed)
  ptRow,     \* the stored TTS0001
  ptReal,    \* the printer
  ptAt,      \* thread -> where its call stands
  ptMixed,   \* history: the last start met a worker that was under way
  ptLost,    \* history: the printer changed and the row does not know it
  ptFailed,  \* history: the last worker that wrote failed
  ptPrints, ptFaults

ptVars == <<ptState, ptRow, ptReal, ptAt, ptMixed, ptLost, ptFailed, ptPrints, ptFaults>>

Syncers == Workers \cup {"start"}
Target(t) == IF t = "start" THEN "online" ELSE "offline"
UnderWay == {w \in Workers : ptAt[w] # "none"}

PrinterInit ==
  /\ ptState = "rest" /\ ptRow = "offline" /\ ptReal = "offline"
  /\ ptAt = [t \in Syncers |-> "none"]
  /\ ptMixed = FALSE /\ ptLost = FALSE /\ ptFailed = FALSE
  /\ ptPrints = 0 /\ ptFaults = 0

PrinterFault == ptFaults < MaxPrinterFaults /\ ptFaults' = ptFaults + 1

-----------------------------------------------------------------------------
(* The machine.  The refresh lock covers a start from its first step to its *)
(* last, so the state changes only when no start is under way.              *)

StartPrints ==
  /\ ptState = "rest" /\ ptAt["start"] = "none"
  /\ ptPrints < MaxPrints /\ ptPrints' = ptPrints + 1
  /\ ptAt' = [ptAt EXCEPT !["start"] = "plan"]
  /\ UNCHANGED <<ptState, ptRow, ptReal, ptMixed, ptLost, ptFailed, ptFaults>>

\* The rest of the start succeeds, or fails and stops the motion.
StartRuns ==
  /\ ptAt["start"] = "done"
  /\ ptAt' = [ptAt EXCEPT !["start"] = "none"]
  /\ ptState' \in {"run", "stopping"}
  /\ UNCHANGED <<ptRow, ptReal, ptMixed, ptLost, ptFailed, ptPrints, ptFaults>>

\* A stop or a change of state starts a worker if the row says there is a need.
Queue(w) ==
  IF ptRow = "offline" THEN UNCHANGED ptAt
  ELSE ptAt[w] = "none" /\ ptAt' = [ptAt EXCEPT ![w] = "plan"]

MotionStops(w) ==
  /\ ptState = "run" /\ ptAt["start"] = "none"
  /\ ptState' = "stopping"
  /\ Queue(w)
  /\ UNCHANGED <<ptRow, ptReal, ptMixed, ptLost, ptFailed, ptPrints, ptFaults>>

\* _keep_tto_online_for_pause_reason: a pause for a removal leaves the printer
\* alone, and the resume from it does not ask the printer either.
HoldsForRemoval ==
  /\ ptState = "run" /\ ptState' = "hold"
  /\ UNCHANGED <<ptRow, ptReal, ptAt, ptMixed, ptLost, ptFailed, ptPrints, ptFaults>>

ResumesRemoval ==
  /\ ptState = "hold" /\ ptState' = "run"
  /\ UNCHANGED <<ptRow, ptReal, ptAt, ptMixed, ptLost, ptFailed, ptPrints, ptFaults>>

RestsBug(w) == UNCHANGED ptAt

Rests(w) == Queue(w)

StateRests(w) ==
  /\ ptState \in {"run", "hold", "stopping"}
  /\ ptState' = "rest"
  /\ Rests(w)
  /\ UNCHANGED <<ptRow, ptReal, ptMixed, ptLost, ptFailed, ptPrints, ptFaults>>

-----------------------------------------------------------------------------
(* _sync_tto_printer_for_machine_state, in the start and in a worker.      *)

EndOf(t) == IF t = "start" THEN "done" ELSE "none"
Moves(t, pc) == ptAt' = [ptAt EXCEPT ![t] = pc]

\* _tto_printer_state_sync_plan: "already_online", "already_offline"
PlansSync(t) ==
  /\ ptAt[t] = "plan"
  /\ Moves(t, IF ptRow = Target(t) THEN EndOf(t) ELSE "lock")
  /\ ptMixed' = IF t = "start" THEN UnderWay # {} ELSE ptMixed
  /\ UNCHANGED <<ptState, ptRow, ptReal, ptLost, ptFailed, ptPrints, ptFaults>>

Writing == {t \in Syncers : ptAt[t] \in {"write", "store"}}

\* A start waits for the lock; a worker that finds it taken gives up for good.
LockTaken == Writing

TakesLock(t) ==
  /\ ptAt[t] = "lock"
  /\ IF LockTaken = {} THEN Moves(t, "write") ELSE t # "start" /\ Moves(t, "none")
  /\ UNCHANGED <<ptState, ptRow, ptReal, ptMixed, ptLost, ptFailed, ptPrints, ptFaults>>

PrinterObeys(t) ==
  /\ ptAt[t] = "write"
  /\ ptReal' = Target(t)
  /\ Moves(t, "store")
  /\ UNCHANGED <<ptState, ptRow, ptMixed, ptLost, ptFailed, ptPrints, ptFaults>>

\* The verified value is stored and the lock released.
SyncDone(t) ==
  /\ ptAt[t] = "store"
  /\ ptRow' = Target(t)
  /\ ptLost' = (ptReal # Target(t))
  /\ ptFailed' = IF t = "start" THEN ptFailed ELSE FALSE
  /\ Moves(t, EndOf(t))
  /\ UNCHANGED <<ptState, ptReal, ptMixed, ptPrints, ptFaults>>

\* A failure ends the start, and is only written down by a worker.
AfterFailedSyncBug(t) == EndOf(t)

AfterFailedSync(t) == "none"

\* The write, or the reading back after it, got no answer.
SyncFails(t, executed) ==
  /\ ptAt[t] = "write" /\ PrinterFault
  /\ ptReal' = IF executed THEN Target(t) ELSE ptReal
  /\ ptLost' = (ptLost \/ (executed /\ ptReal # Target(t)))
  /\ ptFailed' = (ptFailed \/ t # "start")
  /\ Moves(t, AfterFailedSync(t))
  /\ UNCHANGED <<ptState, ptRow, ptMixed, ptPrints>>

\* The printer changes by itself, or is operated at its own panel.
PrinterMoves ==
  /\ PrinterFault
  /\ ptReal' \in {"online", "offline"} \ {ptReal} /\ ptLost' = TRUE
  /\ UNCHANGED <<ptState, ptRow, ptAt, ptMixed, ptFailed, ptPrints>>

-----------------------------------------------------------------------------
SyncStep(t) == PlansSync(t) \/ TakesLock(t) \/ PrinterObeys(t) \/ SyncDone(t)

PrinterNext ==
  \/ StartPrints \/ StartRuns \/ HoldsForRemoval \/ ResumesRemoval
  \/ \E w \in Workers : MotionStops(w) \/ StateRests(w)
  \/ \E t \in Syncers : SyncStep(t) \/ \E executed \in BOOLEAN : SyncFails(t, executed)
  \/ PrinterMoves

PrinterSpec == PrinterInit /\ [][PrinterNext]_ptVars

\* Every thread runs on, a start comes to its end, a stopped machine rests.
PrinterFair ==
  /\ PrinterSpec
  /\ \A t \in Syncers : WF_ptVars(SyncStep(t))
  /\ WF_ptVars(StartRuns)
  /\ WF_ptVars(ptState = "stopping" /\ \E w \in Workers : StateRests(w))

-----------------------------------------------------------------------------
(* Properties                                                              *)

\* Every variable keeps its shape, and one thread at most is at the printer.
PrinterTypeOK ==
  /\ ptState \in {"rest", "run", "hold", "stopping"}
  /\ ptRow \in {"online", "offline"} /\ ptReal \in {"online", "offline"}
  /\ ptAt \in [Syncers -> {"none", "plan", "lock", "write", "store", "done"}]
  /\ ptMixed \in BOOLEAN /\ ptLost \in BOOLEAN /\ ptFailed \in BOOLEAN
  /\ \A t, u \in Writing : t = u
  /\ ptPrints \in 0 .. MaxPrints /\ ptFaults \in 0 .. MaxPrinterFaults

\* A production, and a pause for a removal in it, has the printer online, unless
\* the start met a worker of an earlier stop that was still under way (the plan
\* then believes a row that the worker is about to change), or the printer
\* changed without the row.
RunsOnline ==
  (ptState \in {"run", "hold"} /\ ~ptMixed /\ ~ptLost) => ptReal = "online"

\* After a stop the printer goes offline although a worker that finds the
\* printer busy gives up, unless a worker's write failed (nothing repeats it) or
\* the row is wrong.
OffAfterStop ==
  <>[](ptState = "rest" /\ ~ptFailed /\ ~ptLost) => <>[](ptReal = "offline")

\* What holds of the printer in every state.
PrinterInv == PrinterTypeOK /\ RunsOnline
=============================================================================
