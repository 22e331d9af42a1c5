------------------------------- MODULE Curtain -------------------------------
(***************************************************************************)
(* The light curtain (machine_runtime.py).  A broken curtain pauses a      *)
(* production and takes the torque from the wicklers; every refresh that   *)
(* sees it broken pulses the ESP's reset output, at most every 5 s.  When  *)
(* the curtain is free again in the pause, a thread brings the wicklers    *)
(* back.  What was tried and done stands in safety_info, a part of the     *)
(* machine_state row, which refresh and thread both write whole.  The row  *)
(* outlives the process, the lock does not; and the thread's own write of  *)
(* the row may be skipped.                                                 *)
(***************************************************************************)
EXTENDS Naturals

CONSTANTS
  MaxBreaks,  \* bound: times the curtain is broken
  MaxPulses,  \* bound: automatic resets
  MaxLosses   \* bound: writes of the thread that are skipped, and restarts of the process

ASSUME CurtainAssumption == MaxBreaks \in Nat /\ MaxPulses \in Nat /\ MaxLosses \in Nat

VARIABLES
  cuBroken,  \* ESP I0.8 is low
  cuWick,    \* wicklers: stopped without torque, ready, or indexed by a start
  cuRow,     \* the row
  cuRef,     \* the refresh: how far it is, and its copy of the row
  cuLock,    \* _LIGHT_CURTAIN_WICKLER_RECOVERY_LOCK
  cuWork,    \* the recovery thread
  cuSoon,    \* 5 s since the last automatic reset, the last attempt, are not over
  cuOver,    \* no automatic reset within the last 120 s
  cuDone,    \* history: recoveries that succeeded, for each automatic reset, counted to 2
  cuLost,    \* history: refresh or thread writes an older row over a newer one
  cuGone,    \* history: a thread ended without its write of the row
  cuUsed     \* spent budgets

cuVars == <<cuBroken, cuWick, cuRow, cuRef, cuLock, cuWork, cuSoon, cuOver, cuDone, cuLost,
            cuGone, cuUsed>>
cuTime == <<cuSoon, cuOver>>
cuPast == <<cuGone, cuUsed>>

Pulses == 0 .. MaxPulses
\* auto: the last automatic reset (0: none), good: its pulse went out; done:
\* light_curtain_wickler_recovery_last_auto_reset_ts; tried: .._last_attempt_ts.
CuRows == [mode : {"run", "pause"}, phase : {"idle", "ready"}, auto : Pulses, good : BOOLEAN,
           running : BOOLEAN, tried : BOOLEAN, done : Pulses]
CuStart(phase) == [mode |-> "run", phase |-> phase, auto |-> 0, good |-> FALSE,
                   running |-> FALSE, tried |-> FALSE, done |-> 0]
CuIdle == [pc |-> "idle", live |-> FALSE, copy |-> CuStart("idle")]
CuResting == [pc |-> "idle", for |-> 0, ok |-> FALSE, copy |-> CuStart("idle")]

\* The phase is idle from the start of the service and ready after a safety reset.
CurtainInit ==
  /\ cuBroken = FALSE /\ cuWick = "indexed"
  /\ cuRow \in {CuStart(phase) : phase \in {"idle", "ready"}}
  /\ cuRef = CuIdle /\ cuLock = FALSE /\ cuWork = CuResting
  /\ cuSoon = {} /\ cuOver = TRUE
  /\ cuDone = [n \in Pulses |-> 0] /\ cuLost = FALSE
  /\ cuGone = FALSE /\ cuUsed = [breaks |-> 0, losses |-> 0]

-----------------------------------------------------------------------------
(* Curtain and time.                                                       *)

BreakCurtain ==
  /\ ~cuBroken /\ cuUsed.breaks < MaxBreaks
  /\ cuBroken' = TRUE /\ cuWick' = "stopped" /\ cuUsed' = [cuUsed EXCEPT !.breaks = @ + 1]
  /\ UNCHANGED <<cuRow, cuRef, cuLock, cuWork, cuTime, cuDone, cuLost, cuGone>>

FreeCurtain ==
  /\ cuBroken /\ cuBroken' = FALSE
  /\ UNCHANGED <<cuWick, cuRow, cuRef, cuLock, cuWork, cuTime, cuDone, cuLost, cuPast>>

FiveSeconds(what) ==
  /\ what \in cuSoon /\ cuSoon' = cuSoon \ {what}
  /\ UNCHANGED <<cuBroken, cuWick, cuRow, cuRef, cuLock, cuWork, cuOver, cuDone, cuLost, cuPast>>

WindowEnds ==
  /\ ~cuOver /\ cuOver' = TRUE
  /\ UNCHANGED <<cuBroken, cuWick, cuRow, cuRef, cuLock, cuWork, cuSoon, cuDone, cuLost, cuPast>>

-----------------------------------------------------------------------------
(* The refresh.                                                            *)

\* _light_curtain_auto_reset_due
PulseDue(row) == cuBroken /\ "auto" \notin cuSoon /\ row.auto < MaxPulses

\* While the phase is not ready, only the keys light_curtain_auto_reset.. and
\* last_auto_reset survive a refresh.
Kept(row) ==
  IF row.phase = "ready" THEN row ELSE [row EXCEPT !.running = FALSE, !.tried = FALSE, !.done = 0]

\* Snapshot, inputs, automatic reset, safety_info, and settle_machine_state.
CuRead(ok) ==
  /\ cuRef.pc = "idle"
  /\ LET due == PulseDue(cuRow)
         row == IF due THEN [cuRow EXCEPT !.auto = @ + 1, !.good = ok] ELSE cuRow
     IN /\ ok \/ due
        /\ cuRef' = [pc |-> "recover", live |-> cuBroken,
                     copy |-> [Kept(row) EXCEPT !.mode = IF cuBroken THEN "pause" ELSE @]]
        /\ cuSoon' = IF due THEN cuSoon \cup {"auto"} ELSE cuSoon
        /\ cuOver' = (cuOver /\ ~due)
  /\ UNCHANGED <<cuBroken, cuWick, cuRow, cuLock, cuWork, cuDone, cuLost, cuPast>>

AlreadyDoneBug(row) == FALSE

AlreadyDone(row) == row.done >= row.auto

\* last_auto_reset is there and ok
PulsedWell(row) == row.auto > 0 /\ row.good

\* _light_curtain_wickler_recovery_due
RecoveryDue(row) ==
  /\ ~cuRef.live /\ row.mode = "pause" /\ ~row.running
  /\ PulsedWell(row) /\ ~cuOver
  /\ ~AlreadyDone(row)
  /\ ~(row.tried /\ "retry" \in cuSoon)

\* _start_light_curtain_wickler_recovery_background, unless its lock is taken.
CuRecover ==
  /\ cuRef.pc = "recover" /\ RecoveryDue(cuRef.copy)
  /\ cuRef' = [cuRef EXCEPT !.pc = "write", !.copy.running = TRUE, !.copy.tried = TRUE]
  /\ cuSoon' = cuSoon \cup {"retry"}
  /\ IF cuLock THEN UNCHANGED <<cuLock, cuWork>>
     ELSE cuLock' = TRUE /\ cuWork' = [CuResting EXCEPT !.pc = "wicklers", !.for = cuRef.copy.auto]
  /\ UNCHANGED <<cuBroken, cuWick, cuRow, cuOver, cuDone, cuLost, cuPast>>

\* In the pause with a free curtain the operator may start again.
CuGoOn(start) ==
  /\ cuRef.pc = "recover" /\ ~RecoveryDue(cuRef.copy)
  /\ start => cuRef.copy.mode = "pause" /\ ~cuRef.live
  /\ cuRef' = [cuRef EXCEPT !.pc = "write", !.copy.mode = IF start THEN "run" ELSE @]
  /\ cuWick' = IF start /\ ~cuBroken THEN "indexed" ELSE cuWick
  /\ UNCHANGED <<cuBroken, cuRow, cuLock, cuWork, cuTime, cuDone, cuLost, cuPast>>

CuWrite ==
  /\ cuRef.pc = "write"
  /\ cuLost' = (cuLost \/ cuWork.pc = "store")
  /\ cuRow' = cuRef.copy /\ cuRef' = CuIdle
  /\ UNCHANGED <<cuBroken, cuWick, cuLock, cuWork, cuTime, cuDone, cuPast>>

-----------------------------------------------------------------------------
(* The thread.                                                             *)

\* _set_production_wicklers_idle: disable indexed mode, alarm, ETO, release, verify.  No
\* torque while the curtain is broken.
CuWicklers(ok) ==
  /\ cuWork.pc = "wicklers" /\ (ok => ~cuBroken)
  /\ cuWick' = IF ok THEN "ready" ELSE cuWick
  /\ cuWork' = [cuWork EXCEPT !.pc = "copy", !.ok = ok]
  /\ cuDone' = IF ok THEN [cuDone EXCEPT ![cuWork.for] = IF @ < 2 THEN @ + 1 ELSE @] ELSE cuDone
  /\ UNCHANGED <<cuBroken, cuRow, cuRef, cuLock, cuTime, cuLost, cuPast>>

CuCopy ==
  /\ cuWork.pc = "copy"
  /\ cuWork' = [cuWork EXCEPT !.pc = "store", !.copy = cuRow]
  /\ UNCHANGED <<cuBroken, cuWick, cuRow, cuRef, cuLock, cuTime, cuDone, cuLost, cuPast>>

AfterThreadBug(row) ==
  [row EXCEPT !.tried = TRUE, !.done = IF cuWork.ok THEN cuWork.for ELSE @]

AfterThread(row) ==
  [row EXCEPT !.running = FALSE, !.tried = TRUE, !.done = IF cuWork.ok THEN cuWork.for ELSE @]

\* finally: the lock goes with the thread, whatever came of it.
Released == cuLock' = FALSE

CuStore ==
  /\ cuWork.pc = "store"
  /\ cuLost' = (cuLost \/ cuRef.pc # "idle")
  /\ cuRow' = AfterThread(cuWork.copy)
  /\ cuSoon' = cuSoon \cup {"retry"}
  /\ Released /\ cuWork' = CuResting
  /\ UNCHANGED <<cuBroken, cuWick, cuRef, cuOver, cuDone, cuPast>>

\* What the process and its threads may lose, a bounded number of times.
Loses == cuUsed.losses < MaxLosses /\ cuUsed' = [cuUsed EXCEPT !.losses = @ + 1]

\* Row or database refuses, the write is skipped and logged; the lock goes all the same.
CuSkips ==
  /\ cuWork.pc \in {"copy", "store"} /\ Loses
  /\ cuGone' = TRUE
  /\ Released /\ cuWork' = CuResting
  /\ UNCHANGED <<cuBroken, cuWick, cuRow, cuRef, cuTime, cuDone, cuLost>>

\* The process ends and starts again: refresh, thread and lock are gone, the row stays.
CuRestart ==
  /\ <<cuRef.pc, cuWork.pc>> # <<"idle", "idle">> /\ Loses
  /\ cuGone' = (cuGone \/ cuWork.pc # "idle")
  /\ cuRef' = CuIdle /\ Released /\ cuWork' = CuResting
  /\ UNCHANGED <<cuBroken, cuWick, cuRow, cuTime, cuDone, cuLost>>

-----------------------------------------------------------------------------
CuRefresh == CuRecover \/ CuWrite \/ CuGoOn(FALSE) \/ \E ok \in BOOLEAN : CuRead(ok)
CuThread == CuCopy \/ CuStore \/ \E ok \in BOOLEAN : CuWicklers(ok)

CurtainNext ==
  \/ BreakCurtain \/ FreeCurtain \/ WindowEnds \/ CuGoOn(TRUE)
  \/ \E what \in {"auto", "retry"} : FiveSeconds(what)
  \/ CuRefresh \/ CuThread \/ CuSkips \/ CuRestart

CurtainSpec == CurtainInit /\ [][CurtainNext]_cuVars

\* Refresh and thread go on, 5 s pass, and wicklers that are tried again and again come back.
CurtainFair ==
  /\ CurtainSpec
  /\ WF_cuVars(CuRefresh) /\ WF_cuVars(CuThread) /\ WF_cuVars(FiveSeconds("retry"))
  /\ SF_cuVars(CuWicklers(TRUE))

-----------------------------------------------------------------------------
\* Every variable has its type.
CurtainTypeOK ==
  /\ cuBroken \in BOOLEAN /\ cuLock \in BOOLEAN /\ cuOver \in BOOLEAN
  /\ cuLost \in BOOLEAN /\ cuGone \in BOOLEAN
  /\ cuWick \in {"stopped", "ready", "indexed"}
  /\ cuRow \in CuRows
  /\ cuRef \in [pc : {"idle", "recover", "write"}, live : BOOLEAN, copy : CuRows]
  /\ cuWork \in [pc : {"idle", "wicklers", "copy", "store"}, for : Pulses, ok : BOOLEAN,
                 copy : CuRows]
  /\ cuSoon \subseteq {"auto", "retry"}
  /\ cuDone \in [Pulses -> 0 .. 2]
  /\ cuUsed \in [breaks : 0 .. MaxBreaks, losses : 0 .. MaxLosses]
  /\ cuLock <=> cuWork.pc # "idle"

\* The wicklers are brought back once for an automatic reset and not again, in the phase
\* ready, as long as no older row was written over a newer one and every thread wrote what
\* it had done.
RecoveredOnce ==
  cuRow.phase = "ready" /\ ~cuLost /\ ~cuGone => \A n \in Pulses : cuDone[n] <= 1

\* light_curtain_wickler_recovery_running is true of a thread that runs: a flag left over
\* bars every later recovery.  The code leaves one in three ways, and in no other: an older
\* row is written over a newer one (cuLost), the thread's own write is skipped, or the
\* process ends under the thread (cuGone).  Nothing takes the flag back in the phase ready.
RunningIsTrue == cuRow.running /\ cuRef.pc = "idle" => cuLock \/ cuLost \/ cuGone

\* In a pause with a free curtain the wicklers come back in the end, within the 120 s and
\* unless a flag may be left over as above, the curtain breaks again, or the last pulse
\* failed (a broken curtain is pulsed again, a free one is not).  A curtain broken and
\* freed again within 5 s of the pulse gets no second recovery.
WicklersBack ==
  (cuRow.mode = "pause" /\ cuRow.auto > 0 /\ cuRow.good /\ cuRow.phase = "ready"
     /\ cuDone[cuRow.auto] = 0 /\ ~cuBroken)
    ~> (cuWick # "stopped" \/ cuBroken \/ cuOver \/ cuLost \/ cuGone \/ cuRow.mode = "run"
         \/ ~cuRow.good)

\* What holds of the curtain's marks in every state.
CurtainInv == CurtainTypeOK /\ RecoveredOnce /\ RunningIsTrue
=============================================================================
