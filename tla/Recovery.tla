------------------------------ MODULE Recovery ------------------------------
(***************************************************************************)
(* The drives after a safety reset.  The reset (machine_runtime.py         *)
(* _perform_safety_reset, inside a refresh) leaves the recovery of motors  *)
(* and wicklers to a thread of its own; the machine is back in state 9     *)
(* before that thread is done.  Meanwhile the refreshes go on: they park   *)
(* the format axes in state 9, take an Einrichten command (MAS0002=3) or   *)
(* let it wait for the recovery, and reset again.                          *)
(*                                                                         *)
(* The latch ends without a reset as well: Microtom writes MAS0028=0 (the  *)
(* router's thread), or a refresh takes it for a stale one.  All three     *)
(* threads write the whole row of machine_state from a copy; the module    *)
(* Purge has the life cycle of MAS0028 itself, and which inputs a latch    *)
(* was taken for.                                                          *)
(***************************************************************************)
EXTENDS Naturals, FiniteSets

CONSTANTS
  RcSetups,   \* numbers of the Einrichten commands (their updated_ts), 1 .. n
  MaxEstops,  \* bound: times the e-stop is pressed
  MaxResets,  \* bound: reset commands
  MaxClears,  \* bound: writes of MAS0028=0 by Microtom
  MaxOps,     \* bound: all of these and the Einrichten commands together
  MaxParks    \* STOP_MODE_POSITION_MAX_ATTEMPTS

ASSUME RecoveryAssumption ==
  /\ IsFiniteSet(RcSetups) /\ RcSetups = 1 .. Cardinality(RcSetups)
  /\ MaxEstops \in Nat /\ MaxResets \in Nat /\ MaxClears \in Nat /\ MaxOps \in Nat
  /\ MaxParks \in Nat \ {0}

VARIABLES
  rcRow,    \* the row of machine_state
  rcCmd,    \* MAS0002: idle, the number of an Einrichten command, or 2 (stop and reset)
  rcP28,    \* MAS0028
  rcEstop,  \* live input
  rcDrive,  \* motors and wicklers: ready, or tripped by the e-stop
  rcLock,   \* _RESET_MOTION_RECOVERY_LOCK
  rcWork,   \* the recovery thread
  rcRef,    \* the refresh
  rcClear,  \* the router in mark_external_purge_clear
  rcEnded,  \* recoveries that have ended so far, the time of this module
  rcGood,   \* the last successful one among them (its machine event)
  rcFate,   \* history: Einrichten command -> none, asked, waiting, run, refused, stale
  rcOwed,   \* history: a refresh saw the e-stop, and nothing has ended that since
  rcLost,   \* history: thread or router wrote an older row over a waiting command
  rcAged,   \* the 20 s of the waiting command are over
  rcUsed    \* spent budgets

rcVars == <<rcRow, rcCmd, rcP28, rcEstop, rcDrive, rcLock, rcWork, rcRef, rcClear,
            rcEnded, rcGood, rcFate, rcOwed, rcLost, rcAged, rcUsed>>
rcPlant == <<rcCmd, rcEstop, rcUsed>>
rcNotes == <<rcEnded, rcGood>>
rcSetup == <<rcLost, rcAged>>

\* Times are counted in recoveries that have ended.
RcTimes == Nat
RcStates == {"stop", "setup", "pause", "purge", "resetting"}

\* pend, since: motion_recovery_pending with its times; seen: mas0002_setup_seen_ts;
\* rec: safety.last_motion_recovery; park: stop_positions (checked: it has a verification).
RcParks == {p \in [checked : BOOLEAN, ok : BOOLEAN, tries : 0 .. MaxParks] :
              p.checked \/ p.tries = 0}
RcRows == [st : RcStates, latched : BOOLEAN, pend : RcSetups \cup {0}, since : RcTimes,
           seen : RcSetups \cup {0}, rec : RcTimes, park : RcParks]
Unparked == [checked |-> FALSE, ok |-> FALSE, tries |-> 0]
RcStart == [st |-> "stop", latched |-> FALSE, pend |-> 0, since |-> 0, seen |-> 0, rec |-> 0,
            park |-> Unparked]

RcIdle == [pc |-> "idle", snap |-> RcStart, new |-> "stop", cmd |-> 0, estop |-> FALSE,
           p28 |-> FALSE, forced |-> FALSE]
RcNoClear == [pc |-> "idle", copy |-> RcStart]
RcResting == [pc |-> "idle", ok |-> FALSE, copy |-> RcStart, crit |-> FALSE]

RecoveryInit ==
  /\ rcRow = RcStart /\ rcCmd = 0 /\ rcP28 = FALSE /\ rcEstop = FALSE /\ rcDrive = "ready"
  /\ rcLock = FALSE /\ rcWork = RcResting /\ rcRef = RcIdle /\ rcClear = RcNoClear /\ rcEnded = 0 /\ rcGood = 0
  /\ rcFate = [n \in RcSetups |-> "none"] /\ rcOwed = FALSE /\ rcLost = FALSE /\ rcAged = FALSE
  /\ rcUsed = [estops |-> 0, resets |-> 0, clears |-> 0]

\* MAS0002 = 2, from button or Microtom, and from the runtime itself when a setup fails.
ResetCommand == Cardinality(RcSetups) + 1
OwnStop == ResetCommand + 1

-----------------------------------------------------------------------------
(* Operator and plant.                                                     *)

\* One more of them is within the bounds.
OneMore ==
  rcUsed.estops + rcUsed.resets + rcUsed.clears + Cardinality({n \in RcSetups : rcFate[n] # "none"})
    < MaxOps

PressEstop ==
  /\ ~rcEstop /\ rcUsed.estops < MaxEstops /\ OneMore
  /\ rcEstop' = TRUE /\ rcDrive' = "tripped"
  /\ rcUsed' = [rcUsed EXCEPT !.estops = @ + 1]
  /\ UNCHANGED <<rcRow, rcCmd, rcP28, rcLock, rcWork, rcRef, rcClear, rcNotes, rcFate, rcOwed, rcSetup>>

ReleaseEstop ==
  /\ rcEstop /\ rcEstop' = FALSE
  /\ UNCHANGED <<rcRow, rcCmd, rcP28, rcDrive, rcLock, rcWork, rcRef, rcClear, rcNotes, rcFate, rcOwed,
                 rcSetup, rcUsed>>

AskReset ==
  /\ rcCmd # ResetCommand /\ rcUsed.resets < MaxResets /\ OneMore
  /\ rcCmd' = ResetCommand /\ rcUsed' = [rcUsed EXCEPT !.resets = @ + 1]
  /\ UNCHANGED <<rcRow, rcP28, rcEstop, rcDrive, rcLock, rcWork, rcRef, rcClear, rcNotes, rcFate, rcOwed,
                 rcSetup>>

AskSetup(n) ==
  /\ OneMore /\ rcCmd = 0 /\ rcFate[n] = "none" /\ \A m \in RcSetups : m < n => rcFate[m] # "none"
  /\ rcCmd' = n /\ rcFate' = [rcFate EXCEPT ![n] = "asked"]
  /\ UNCHANGED <<rcRow, rcP28, rcEstop, rcDrive, rcLock, rcWork, rcRef, rcClear, rcNotes, rcOwed, rcSetup,
                 rcUsed>>

-----------------------------------------------------------------------------
(* The refresh.                                                            *)

RcAt(pc) == rcRef.pc = pc
RcGo(pc) == rcRef' = [rcRef EXCEPT !.pc = pc]

RcRead ==
  /\ RcAt("idle")
  /\ rcRef' = [RcIdle EXCEPT !.pc = "safety", !.snap = rcRow, !.new = rcRow.st,
                 !.cmd = rcCmd, !.estop = rcEstop, !.p28 = rcP28]
  /\ UNCHANGED <<rcRow, rcPlant, rcP28, rcDrive, rcLock, rcWork, rcClear, rcNotes, rcFate, rcOwed, rcSetup>>

\* _stale_light_curtain_only_latch and _stale_blocking_safety_latch_after_successful_reset.
\* The module has no light curtain and no history of a latch: that it was taken for the
\* curtain alone, or that the last reset had succeeded, is free.
Stale(rule) ==
  CASE rule = "none" -> TRUE
    [] rule = "curtain" -> ~rcRef.estop /\ (rcRef.snap.latched \/ rcRef.p28)
    [] rule = "reset" -> ~rcRef.estop /\ ~rcRef.p28 /\ rcRef.snap.latched
Rules == {"none", "curtain", "reset"}

\* safety_latched, mas0028_active and reset_needed behind the rules.
LatchBy(rule) == rcRef.estop \/ (rcRef.snap.latched /\ rule = "none")
PurgeBy(rule) == rcRef.p28 /\ rule # "curtain"
NeedsReset(rule) == LatchBy(rule) \/ PurgeBy(rule) \/ rcRef.snap.st = "purge"
ForcedStop(rule) == rule # "none" /\ rcRef.snap.st = "purge"

\* The latch, or a reset; with nothing to reset the command is a stop and is consumed.
RcSafety(rule) ==
  /\ RcAt("safety") /\ Stale(rule)
  /\ LET two == rcRef.cmd \in {ResetCommand, OwnStop}
         stops == two /\ ~NeedsReset(rule)
     IN /\ rcRef' = [rcRef EXCEPT
             !.pc = IF NeedsReset(rule) /\ two THEN "reset" ELSE "gate",
             !.snap.latched = LatchBy(rule), !.p28 = PurgeBy(rule),
             !.forced = LatchBy(rule) \/ ForcedStop(rule),
             !.new = CASE LatchBy(rule) \/ PurgeBy(rule) -> "purge"
                       [] ~LatchBy(rule) /\ ~PurgeBy(rule) /\ (ForcedStop(rule) \/ stops) -> "stop"
                       [] ~two /\ ~NeedsReset(rule) /\ @ = "resetting" -> "stop"
                       [] OTHER -> @,
             !.cmd = IF stops THEN 0 ELSE @]
        /\ rcCmd' = IF stops THEN 0 ELSE rcCmd
  /\ rcP28' = (rcRef.estop \/ (rcP28 /\ rule # "curtain"))
  /\ rcOwed' = (rcRef.estop \/ (rcOwed /\ rule # "curtain"))
  /\ UNCHANGED <<rcRow, rcEstop, rcDrive, rcUsed, rcLock, rcWork, rcClear, rcNotes, rcFate, rcSetup>>

\* _perform_safety_reset writes state 8 before it pulses.
RcResetBegin ==
  /\ RcAt("reset")
  /\ rcRow' = [rcRow EXCEPT !.st = "resetting", !.latched = TRUE]
  /\ RcGo("pulse")
  /\ UNCHANGED <<rcPlant, rcP28, rcDrive, rcLock, rcWork, rcClear, rcNotes, rcFate, rcOwed, rcSetup>>

\* Pulse, endpoint, safety inputs, laser and ESP process: each of them may fail; the e-stop
\* is read again behind them.
RcResetFails ==
  /\ RcAt("pulse")
  /\ rcCmd' = 0
  /\ rcP28' = (rcP28 \/ rcEstop)
  /\ rcRef' = [rcRef EXCEPT !.pc = "gate", !.cmd = 0, !.new = "purge", !.forced = TRUE,
                 !.p28 = rcP28', !.estop = rcEstop, !.snap.latched = rcP28 \/ rcEstop]
  /\ UNCHANGED <<rcRow, rcEstop, rcUsed, rcDrive, rcLock, rcWork, rcClear, rcNotes, rcFate, rcOwed, rcSetup>>

\* _clear_resettable_safety_errors and _start_reset_motion_recovery_background, which starts
\* nothing while an earlier recovery is under way.
RcResetDone ==
  /\ RcAt("pulse") /\ ~rcEstop
  /\ rcP28' = FALSE /\ rcCmd' = 0 /\ rcOwed' = FALSE
  /\ IF rcLock THEN UNCHANGED <<rcLock, rcWork>>
     ELSE rcLock' = TRUE /\ rcWork' = [RcResting EXCEPT !.pc = "devices"]
  /\ rcRef' = [rcRef EXCEPT !.pc = "gate", !.cmd = 0, !.new = "stop", !.forced = TRUE,
                 !.p28 = FALSE, !.estop = FALSE, !.snap.latched = FALSE]
  /\ UNCHANGED <<rcRow, rcEstop, rcUsed, rcDrive, rcClear, rcNotes, rcFate, rcSetup>>

RecoveryRunsBug == FALSE
\* _RESET_MOTION_RECOVERY_LOCK.locked()
RecoveryRuns == rcLock

\* Einrichten with a time later than mas0002_setup_seen_ts.
NewSetup == rcRef.cmd \in RcSetups /\ rcRef.cmd > rcRef.snap.seen

\* setup_pending_motion_recovery_ready
PendingReady ==
  /\ rcRef.snap.pend # 0 /\ ~RecoveryRuns /\ ~rcAged
  /\ rcRef.snap.rec > rcRef.snap.since \/ rcGood > rcRef.snap.since

SafeToMove == ~rcRef.forced /\ ~rcRef.snap.latched /\ ~rcRef.p28

PendingStaleBug == FALSE
\* setup_pending_motion_recovery_stale
PendingStale == rcRef.snap.pend # 0 /\ ~RecoveryRuns /\ ~PendingReady /\ rcAged

FateOf(n, fate) == rcFate' = [rcFate EXCEPT ![n] = fate]

\* Einrichten during a recovery is taken off the command byte and remembered in the row.
RcSetupWaits ==
  /\ RcAt("gate") /\ NewSetup /\ RecoveryRuns
  /\ rcRef' = [rcRef EXCEPT !.pc = "park", !.cmd = 0, !.snap.pend = rcRef.cmd,
                 !.snap.since = rcEnded, !.snap.seen = rcRef.cmd]
  /\ FateOf(rcRef.cmd, "waiting")
  /\ rcAged' = FALSE
  /\ rcCmd' = 0
  /\ UNCHANGED <<rcRow, rcEstop, rcUsed, rcP28, rcDrive, rcLock, rcWork, rcClear, rcNotes, rcOwed, rcLost>>

PendingAges ==
  /\ rcRow.pend # 0 /\ ~rcAged /\ rcAged' = TRUE
  /\ UNCHANGED <<rcRow, rcPlant, rcP28, rcDrive, rcLock, rcWork, rcRef, rcClear, rcNotes, rcFate, rcOwed,
                 rcLost>>

\* Einrichten now, or refused because of the latch or a purge.  A waiting command that is
\* ready goes first; one that is not gives way.
RcSetupStarts ==
  /\ RcAt("gate") /\ ~RecoveryRuns /\ (NewSetup \/ PendingReady)
  /\ LET n == IF PendingReady THEN rcRef.snap.pend ELSE rcRef.cmd IN
     /\ rcRef' = [rcRef EXCEPT !.pc = IF SafeToMove THEN "setup" ELSE "park",
                    !.cmd = IF SafeToMove THEN 0 ELSE @,
                    !.snap.pend = 0, !.snap.seen = n]
     /\ FateOf(n, IF SafeToMove THEN "run" ELSE "refused")
     /\ IF SafeToMove
        THEN rcRow' = [rcRef.snap EXCEPT !.st = "setup", !.pend = 0, !.seen = n] /\ rcCmd' = 0
        ELSE UNCHANGED <<rcRow, rcCmd>>
  /\ UNCHANGED <<rcEstop, rcUsed, rcP28, rcDrive, rcLock, rcWork, rcClear, rcNotes, rcOwed, rcSetup>>

\* Calibration, laser and portal: then pause; after a failure stop, with MAS0002 := 2.
RcSetupEnds(ok) ==
  /\ RcAt("setup") /\ (ok => rcDrive = "ready")
  /\ rcRef' = [rcRef EXCEPT !.pc = "park", !.new = IF ok THEN "pause" ELSE "stop"]
  /\ rcCmd' = IF ok THEN 0 ELSE OwnStop
  /\ UNCHANGED <<rcRow, rcEstop, rcUsed, rcP28, rcDrive, rcLock, rcWork, rcClear, rcNotes, rcFate, rcOwed,
                 rcSetup>>

\* No setup in this refresh; the command waits on, or has waited for too long.
RcNoSetup ==
  /\ RcAt("gate") /\ ~NewSetup /\ ~PendingReady
  /\ IF PendingStale
     THEN /\ rcRef' = [rcRef EXCEPT !.pc = "park", !.snap.pend = 0]
          /\ FateOf(rcRef.snap.pend, "stale")
     ELSE RcGo("park") /\ UNCHANGED rcFate
  /\ UNCHANGED <<rcRow, rcPlant, rcP28, rcDrive, rcLock, rcWork, rcClear, rcNotes, rcOwed, rcSetup>>

\* _apply_stop_mode_axis_targets
ParkDue ==
  LET park == rcRef.snap.park IN
  rcRef.new # rcRef.snap.st \/ ~park.checked \/ (~park.ok /\ park.tries < MaxParks)

RcPark ==
  /\ RcAt("park")
  /\ LET tries == IF rcRef.new # rcRef.snap.st THEN 0 ELSE rcRef.snap.park.tries IN
     rcRef' = CASE rcRef.new # "stop" -> [rcRef EXCEPT !.pc = "write"]
                [] rcRef.new = "stop" /\ RecoveryRuns ->
                     [rcRef EXCEPT !.pc = "write", !.snap.park.ok = FALSE]
                [] rcRef.new = "stop" /\ ~RecoveryRuns /\ ~ParkDue -> [rcRef EXCEPT !.pc = "write"]
                [] OTHER -> [rcRef EXCEPT !.pc = "parking",
                               !.snap.park = [checked |-> TRUE, ok |-> FALSE,
                                              tries |-> tries + 1]]
  /\ UNCHANGED <<rcRow, rcPlant, rcP28, rcDrive, rcLock, rcWork, rcClear, rcNotes, rcFate, rcOwed, rcSetup>>

\* The axes are sent off one by one and then verified.
RcParked(ok) ==
  /\ RcAt("parking") /\ (ok => rcDrive = "ready")
  /\ rcRef' = [rcRef EXCEPT !.pc = "write", !.snap.park.ok = ok]
  /\ UNCHANGED <<rcRow, rcPlant, rcP28, rcDrive, rcLock, rcWork, rcClear, rcNotes, rcFate, rcOwed, rcSetup>>

\* The end of the refresh: the whole row from its copy.
RcWrite ==
  /\ RcAt("write")
  /\ rcRow' = [rcRef.snap EXCEPT !.st = rcRef.new]
  /\ rcRef' = RcIdle
  /\ UNCHANGED <<rcPlant, rcP28, rcDrive, rcLock, rcWork, rcClear, rcNotes, rcFate, rcOwed, rcSetup>>

-----------------------------------------------------------------------------
(* The thread.                                                             *)

WorkAt(pc) == rcWork.pc = pc

\* _reset_motion_devices: alarms, ETO, modes of axes and wicklers; then the machine event.
RcDevices(ok) ==
  /\ WorkAt("devices") /\ (ok => ~rcEstop)
  /\ rcDrive' = IF ok THEN "ready" ELSE rcDrive
  /\ rcEnded' = rcEnded + 1 /\ rcGood' = IF ok THEN rcEnded' ELSE rcGood
  /\ rcWork' = [rcWork EXCEPT !.pc = "copy", !.ok = ok]
  /\ UNCHANGED <<rcRow, rcPlant, rcP28, rcLock, rcRef, rcClear, rcFate, rcOwed, rcSetup>>

RcCopy ==
  /\ WorkAt("copy")
  /\ rcWork' = [rcWork EXCEPT !.pc = IF rcWork.ok THEN "live" ELSE "store", !.copy = rcRow]
  /\ UNCHANGED <<rcRow, rcPlant, rcP28, rcDrive, rcLock, rcRef, rcClear, rcNotes, rcFate, rcOwed, rcSetup>>

\* Fresh ESP inputs and MAS0028.
RcLive ==
  /\ WorkAt("live")
  /\ rcWork' = [rcWork EXCEPT !.pc = "store", !.crit = rcEstop \/ rcP28]
  /\ UNCHANGED <<rcRow, rcPlant, rcP28, rcDrive, rcLock, rcRef, rcClear, rcNotes, rcFate, rcOwed, rcSetup>>

\* The row after a recovery, made from the copy.
Recovered ==
  LET c == [rcWork.copy EXCEPT !.rec = rcEnded] IN
  CASE ~rcWork.ok -> c
    [] rcWork.ok /\ rcWork.crit -> [c EXCEPT !.latched = TRUE, !.park = Unparked]
    [] OTHER -> [c EXCEPT !.latched = FALSE, !.park = Unparked,
                   !.st = IF @ \in {"resetting", "purge"} THEN "stop" ELSE @]

RcStore ==
  /\ WorkAt("store")
  /\ rcRow' = Recovered
  /\ rcLost' = (rcLost \/ (rcRow.pend # 0 /\ rcWork.copy.pend = 0))
  /\ rcLock' = FALSE /\ rcWork' = RcResting
  /\ UNCHANGED <<rcPlant, rcP28, rcDrive, rcRef, rcClear, rcNotes, rcFate, rcOwed, rcAged>>

\* Row or database refuses: the update is skipped and logged, the lock goes all the same.
RcSkips ==
  /\ rcWork.pc \in {"copy", "store"}
  /\ rcLock' = FALSE /\ rcWork' = RcResting
  /\ UNCHANGED <<rcRow, rcPlant, rcP28, rcDrive, rcRef, rcClear, rcNotes, rcFate, rcOwed, rcSetup>>

-----------------------------------------------------------------------------
(* Microtom's MAS0028=0: the router writes the parameter, then             *)
(* mark_external_purge_clear reads the row, writes the parameter again and *)
(* writes the row back, with the latch released.                           *)

ClearAt(pc) == rcClear.pc = pc

\* Microtom ends a purge it was told of: MAS0028 = 1 stands.
MicrotomClears ==
  /\ ClearAt("idle") /\ rcP28 /\ rcUsed.clears < MaxClears /\ OneMore
  /\ rcUsed' = [rcUsed EXCEPT !.clears = @ + 1]
  /\ rcP28' = FALSE /\ rcOwed' = FALSE
  /\ rcClear' = [rcClear EXCEPT !.pc = "read"]
  /\ UNCHANGED <<rcRow, rcCmd, rcEstop, rcDrive, rcLock, rcWork, rcRef, rcNotes, rcFate, rcSetup>>

ClearReads ==
  /\ ClearAt("read")
  /\ rcClear' = [pc |-> "param", copy |-> rcRow]
  /\ UNCHANGED <<rcRow, rcPlant, rcP28, rcDrive, rcLock, rcWork, rcRef, rcNotes, rcFate, rcOwed,
                 rcSetup>>

ClearParam ==
  /\ ClearAt("param")
  /\ rcP28' = FALSE /\ rcOwed' = FALSE
  /\ rcClear' = [rcClear EXCEPT !.pc = "write"]
  /\ UNCHANGED <<rcRow, rcPlant, rcDrive, rcLock, rcWork, rcRef, rcNotes, rcFate, rcSetup>>

ClearStores ==
  /\ ClearAt("write")
  /\ rcRow' = [rcClear.copy EXCEPT !.latched = FALSE]
  /\ rcLost' = (rcLost \/ (rcRow.pend # 0 /\ rcClear.copy.pend = 0))
  /\ rcClear' = RcNoClear
  /\ UNCHANGED <<rcPlant, rcP28, rcDrive, rcLock, rcWork, rcRef, rcNotes, rcFate, rcOwed, rcAged>>

RouterClears == MicrotomClears \/ ClearReads \/ ClearParam \/ ClearStores

-----------------------------------------------------------------------------
RefreshWorks ==
  \/ RcRead \/ RcResetBegin \/ RcResetFails \/ RcResetDone
  \/ RcSetupWaits \/ RcSetupStarts \/ RcNoSetup \/ RcPark \/ RcWrite
  \/ \E rule \in Rules : RcSafety(rule)
  \/ \E ok \in BOOLEAN : RcSetupEnds(ok) \/ RcParked(ok)

ThreadWorks == RcCopy \/ RcLive \/ RcStore \/ \E ok \in BOOLEAN : RcDevices(ok)

RecoveryNext ==
  \/ PressEstop \/ ReleaseEstop \/ AskReset \/ PendingAges
  \/ \E n \in RcSetups : AskSetup(n)
  \/ RefreshWorks \/ ThreadWorks \/ RcSkips \/ RouterClears

RecoverySpec == RecoveryInit /\ [][RecoveryNext]_rcVars

\* Refresh and thread go on, every wait of theirs has an end, and time passes.
RecoveryFair ==
  RecoverySpec /\ WF_rcVars(RefreshWorks) /\ WF_rcVars(ThreadWorks) /\ WF_rcVars(PendingAges)

-----------------------------------------------------------------------------
\* Every variable has its type.
RecoveryTypeOK ==
  /\ rcRow \in RcRows
  /\ rcCmd \in 0 .. OwnStop
  /\ rcP28 \in BOOLEAN /\ rcEstop \in BOOLEAN /\ rcDrive \in {"ready", "tripped"}
  /\ rcLock \in BOOLEAN
  /\ rcWork \in [pc : {"idle", "devices", "copy", "live", "store"}, ok : BOOLEAN,
                copy : RcRows, crit : BOOLEAN]
  /\ rcRef \in [pc : {"idle", "safety", "reset", "pulse", "gate", "setup", "park", "parking",
                     "write"},
               snap : RcRows, new : RcStates, cmd : 0 .. OwnStop,
               estop : BOOLEAN, p28 : BOOLEAN, forced : BOOLEAN]
  /\ rcClear \in [pc : {"idle", "read", "param", "write"}, copy : RcRows]
  /\ rcEnded \in RcTimes /\ rcGood \in 0 .. rcEnded
  /\ rcFate \in [RcSetups -> {"none", "asked", "waiting", "run", "refused", "stale"}]
  /\ rcOwed \in BOOLEAN /\ rcLost \in BOOLEAN /\ rcAged \in BOOLEAN
  /\ rcUsed \in [estops : 0 .. MaxEstops, resets : 0 .. MaxResets, clears : 0 .. MaxClears]

\* Nobody drives the axes while the recovery thread resets them: neither the setup nor the
\* parking in state 9, however resets, commands and refreshes follow each other.
OneMover == rcRef.pc \in {"setup", "parking"} => ~WorkAt("devices")

\* Once a refresh has seen the e-stop, no setup and no parking moves an axis before a
\* safety reset has succeeded, Microtom has written MAS0028=0 or a refresh has taken the
\* purge for a stale one of the light curtain, whatever old row the three threads write
\* over each other: the row may lose the latch, MAS0028 stands behind it.  The second
\* stale rule, after a reset, never ends the debt by itself.
NoMotionBeforeReset == rcOwed => rcRef.pc \notin {"setup", "parking"}

\* An Einrichten command that waits for the recovery is carried out, refused or dropped as
\* too old in the end, unless thread or router has written an older row over it (rcLost).
SetupAnswered ==
  \A n \in RcSetups : (rcFate[n] = "waiting") ~> (rcFate[n] # "waiting" \/ rcLost)

\* What holds of refreshes and recovery thread in every state.
RecoveryInv == RecoveryTypeOK /\ OneMover /\ NoMotionBeforeReset
=============================================================================
