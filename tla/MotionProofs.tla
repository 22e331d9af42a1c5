------------------------------ MODULE MotionProofs --------------------------
(* Theorems about what moves the machine besides production: Curtain,         *)
(* Recovery and Setup, for any numbers of breaks, resets, wicklers and stops. *)
EXTENDS Curtain, Recovery, Setup, FiniteSetTheorems, TLAPS

-----------------------------------------------------------------------------
(* The light-curtain recovery (module Curtain)                             *)

CuRefs == [pc : {"idle", "recover", "write"}, live : BOOLEAN, copy : CuRows]
CuWorks == [pc : {"idle", "wicklers", "copy", "store"}, for : Pulses, ok : BOOLEAN, copy : CuRows]

\* The phase never changes while the service runs.
SamePhase ==
  /\ cuRef.pc # "idle" => cuRef.copy.phase = cuRow.phase
  /\ cuWork.pc = "store" => cuWork.copy.phase = cuRow.phase

\* As long as no older row is written over a newer one, whoever holds a copy of the row
\* knows what was recovered last.  A write that is skipped or a restart harms no copy.
CopiesKnow ==
  (cuRow.phase = "ready" /\ ~cuLost) =>
    /\ cuRef.pc # "idle" => cuRef.copy.done = cuRow.done
    /\ cuWork.pc = "store" => cuWork.copy.done = cuRow.done

\* The thread works for a later automatic reset than any that was recovered, and what was
\* recovered stands in the row or in the hands of the thread, unless a thread has ended
\* without its write.
OnceEach ==
  (cuRow.phase = "ready" /\ ~cuLost /\ ~cuGone) =>
    /\ cuWork.pc # "idle" => cuWork.for > cuRow.done
    /\ \A n \in Pulses : cuDone[n] <= 1
    /\ \A n \in Pulses : cuDone[n] = 0 \/ n <= cuRow.done
                          \/ (cuWork.pc \in {"copy", "store"} /\ cuWork.ok /\ n = cuWork.for)

\* running, in the row or in the refresh's copy, is true of a thread that has the lock,
\* unless one has ended without its write.
RunningHasThread ==
  /\ cuRow.running => cuLock \/ cuLost \/ cuGone
  /\ cuRef.copy.running => cuLock \/ cuLost \/ cuGone
  /\ cuRef.pc = "idle" => ~cuRef.copy.running

CurtainIInv == CurtainTypeOK /\ SamePhase /\ CopiesKnow /\ OnceEach /\ RunningHasThread

\* What refresh and thread make of a row is a row.
LEMMA CurtainRows ==
  ASSUME NEW row \in CuRows
  PROVE  /\ Kept(row) \in CuRows
         /\ \A m \in {"run", "pause"} : [row EXCEPT !.mode = m] \in CuRows
         /\ [row EXCEPT !.running = TRUE, !.tried = TRUE] \in CuRows
         /\ (row.auto < MaxPulses =>
               \A ok \in BOOLEAN : [row EXCEPT !.auto = @ + 1, !.good = ok] \in CuRows)
         /\ (cuWork \in CuWorks => AfterThread(row) \in CuRows)
<1>1. [row EXCEPT !.running = FALSE, !.tried = FALSE, !.done = 0] \in CuRows
  <2>1. 0 \in Pulses
    BY CurtainAssumption DEF Pulses
  <2> QED BY <2>1 DEF CuRows
<1>2. Kept(row) \in CuRows
  BY <1>1 DEF Kept
<1>3. /\ \A m \in {"run", "pause"} : [row EXCEPT !.mode = m] \in CuRows
      /\ [row EXCEPT !.running = TRUE, !.tried = TRUE] \in CuRows
  BY DEF CuRows
<1>4. \A ok \in BOOLEAN : row.auto < MaxPulses
        => [row EXCEPT !.auto = @ + 1, !.good = ok] \in CuRows
  <2>1. row.auto < MaxPulses => row.auto + 1 \in Pulses
    BY CurtainAssumption DEF CuRows, Pulses
  <2> QED BY <2>1 DEF CuRows
<1>5. ASSUME cuWork \in CuWorks PROVE AfterThread(row) \in CuRows
  <2>1. \A n \in Pulses : [row EXCEPT !.running = FALSE, !.tried = TRUE, !.done = n] \in CuRows
    BY DEF CuRows
  <2>2. row.done \in Pulses /\ cuWork.for \in Pulses
    BY <1>5 DEF CuRows, CuWorks
  <2> QED BY <2>1, <2>2 DEF AfterThread
<1> QED BY <1>2, <1>3, <1>4, <1>5

LEMMA CurtainStartRows == CuStart("idle") \in CuRows /\ CuStart("ready") \in CuRows
BY CurtainAssumption DEF CuStart, CuRows, Pulses

LEMMA CurtainStarts == CurtainInit => CurtainIInv
<1> SUFFICES ASSUME CurtainInit PROVE CurtainIInv
  OBVIOUS
<1>1. cuRow \in CuRows /\ ~cuRow.running
  <2> PICK phase \in {"idle", "ready"} : cuRow = CuStart(phase)
    BY DEF CurtainInit
  <2>1. CuStart(phase) \in CuRows
    BY CurtainStartRows
  <2> QED BY <2>1 DEF CuStart
<1>2. CurtainTypeOK
  <2>1. cuRef \in CuRefs /\ cuWork \in CuWorks
    BY CurtainStartRows, CurtainAssumption DEF CurtainInit, CuIdle, CuResting, CuRefs, CuWorks, Pulses
  <2>2. cuDone \in [Pulses -> 0 .. 2] /\ cuUsed \in [breaks : 0 .. MaxBreaks, losses : 0 .. MaxLosses]
    BY CurtainAssumption DEF CurtainInit
  <2>3. cuLock <=> cuWork.pc # "idle"
    BY DEF CurtainInit, CuResting
  <2> QED BY <1>1, <2>1, <2>2, <2>3 DEF CurtainInit, CurtainTypeOK, CuRefs, CuWorks
<1>3. SamePhase /\ CopiesKnow /\ OnceEach /\ RunningHasThread
  BY <1>1 DEF CurtainInit, CuIdle, CuResting, CuStart, SamePhase, CopiesKnow, OnceEach,
              RunningHasThread, Pulses
<1> QED BY <1>2, <1>3 DEF CurtainIInv

\* Curtain, time and thread.
LEMMA ThreadKeepsInv ==
  ASSUME CurtainIInv, BreakCurtain \/ FreeCurtain \/ WindowEnds \/ CuThread \/ CuSkips \/ CuRestart
               \/ \E what \in {"auto", "retry"} : FiveSeconds(what)
  PROVE  CurtainIInv'
<1> USE CurtainAssumption DEF CurtainIInv, cuTime, cuPast
<1>1. CASE BreakCurtain
  BY <1>1 DEF BreakCurtain, CurtainTypeOK, SamePhase, CopiesKnow, OnceEach, RunningHasThread
<1>2. CASE FreeCurtain \/ WindowEnds \/ \E what \in {"auto", "retry"} : FiveSeconds(what)
  <2>1. CurtainTypeOK'
    <3>1. CASE FreeCurtain
      BY <3>1 DEF FreeCurtain, CurtainTypeOK
    <3>2. CASE WindowEnds
      BY <3>2 DEF WindowEnds, CurtainTypeOK
    <3>3. CASE \E what \in {"auto", "retry"} : FiveSeconds(what)
      BY <3>3 DEF FiveSeconds, CurtainTypeOK
    <3> QED BY <1>2, <3>1, <3>2, <3>3
  <2>2. UNCHANGED <<cuRow, cuRef, cuLock, cuWork, cuDone, cuLost>>
    BY <1>2 DEF FreeCurtain, WindowEnds, FiveSeconds
  <2>3. UNCHANGED cuPast
    BY <1>2 DEF FreeCurtain, WindowEnds, FiveSeconds
  <2> QED BY <2>1, <2>2, <2>3 DEF SamePhase, CopiesKnow, OnceEach, RunningHasThread
<1>3. ASSUME NEW ok \in BOOLEAN, CuWicklers(ok) PROVE CurtainIInv'
  <2>1. CurtainTypeOK'
    <3>1. cuDone' \in [Pulses -> 0 .. 2]
      BY <1>3 DEF CuWicklers, CurtainTypeOK
    <3>2. cuWork \in CuWorks /\ cuWork' = [cuWork EXCEPT !.pc = "copy", !.ok = ok]
      BY <1>3 DEF CuWicklers, CurtainTypeOK, CuWorks
    <3>3. cuWork' \in CuWorks /\ cuWork'.pc # "idle"
      BY <3>2 DEF CuWorks
    <3>4. cuWick' \in {"stopped", "ready", "indexed"}
      BY <1>3 DEF CuWicklers, CurtainTypeOK
    <3> QED BY <1>3, <3>1, <3>3, <3>4 DEF CuWicklers, CurtainTypeOK, CuWorks
  <2>2. SamePhase' /\ CopiesKnow' /\ RunningHasThread'
    BY <1>3 DEF CuWicklers, CurtainTypeOK, SamePhase, CopiesKnow, RunningHasThread
  <2>3. OnceEach'
    BY <1>3 DEF CuWicklers, CurtainTypeOK, OnceEach, CuRows, Pulses
  <2> QED BY <2>1, <2>2, <2>3
<1>4. CASE CuCopy
  <2>1. CurtainTypeOK'
    BY <1>4 DEF CuCopy, CurtainTypeOK
  <2>2. SamePhase' /\ CopiesKnow' /\ OnceEach' /\ RunningHasThread'
    BY <1>4 DEF CuCopy, CurtainTypeOK, SamePhase, CopiesKnow, OnceEach, RunningHasThread
  <2> QED BY <2>1, <2>2
<1>5. CASE CuStore
  <2>1. cuWork \in CuWorks /\ cuRow' = AfterThread(cuWork.copy) /\ cuWork.copy \in CuRows
    BY <1>5 DEF CuStore, CurtainTypeOK, CuWorks
  <2>2. CurtainTypeOK'
    <3>1. AfterThread(cuWork.copy) \in CuRows
      BY <2>1, CurtainRows
    <3>2. cuWork' \in CuWorks /\ cuWork'.pc = "idle" /\ cuLock' = FALSE
      BY <1>5, CurtainStartRows DEF CuStore, Released, CuResting, CuWorks, Pulses
    <3> QED BY <1>5, <2>1, <3>1, <3>2 DEF CuStore, CurtainTypeOK, CuWorks
  <2>3. /\ cuRow'.phase = cuWork.copy.phase /\ ~cuRow'.running
        /\ cuRow'.done = IF cuWork.ok THEN cuWork.for ELSE cuWork.copy.done
    BY <2>1 DEF AfterThread, CuRows
  <2>4. cuWork'.pc = "idle" /\ (~cuLost' => ~cuLost /\ cuRef.pc = "idle")
    BY <1>5 DEF CuStore, CuResting
  <2>5. SamePhase' /\ CopiesKnow' /\ RunningHasThread'
    BY <1>5, <2>3, <2>4 DEF CuStore, SamePhase, CopiesKnow, RunningHasThread
  <2>6. OnceEach'
    BY <1>5, <2>1, <2>3, <2>4 DEF CuStore, CurtainTypeOK, SamePhase, CopiesKnow, OnceEach, CuRows, Pulses, CuWorks
  <2> QED BY <2>2, <2>5, <2>6
<1>6. CASE CuSkips \/ CuRestart
  <2>1. /\ cuUsed' = [cuUsed EXCEPT !.losses = @ + 1] /\ cuUsed.losses < MaxLosses
        /\ cuWork' = CuResting /\ cuLock' = FALSE
        /\ cuRef' = cuRef \/ cuRef' = CuIdle
        /\ UNCHANGED <<cuBroken, cuWick, cuRow, cuTime, cuDone, cuLost>>
    BY <1>6 DEF CuSkips, CuRestart, Loses, Released
  <2>2. cuGone' = TRUE \/ (cuWork.pc = "idle" /\ cuGone' = cuGone)
    BY <1>6 DEF CuSkips, CuRestart, CurtainTypeOK
  <2>3. CurtainTypeOK'
    <3>1. cuUsed' \in [breaks : 0 .. MaxBreaks, losses : 0 .. MaxLosses]
      BY <2>1 DEF CurtainTypeOK
    <3>2. cuWork' \in CuWorks /\ cuWork'.pc = "idle"
      BY <2>1, CurtainStartRows DEF CuResting, CuWorks, Pulses
    <3>3. cuRef' \in CuRefs
      <4>1. CuIdle \in CuRefs /\ cuRef \in CuRefs
        BY CurtainStartRows DEF CurtainTypeOK, CuIdle, CuRefs
      <4> QED BY <2>1, <4>1
    <3>4. cuGone' \in BOOLEAN
      BY <2>2 DEF CurtainTypeOK
    <3> QED BY <2>1, <3>1, <3>2, <3>3, <3>4 DEF CurtainTypeOK, CuRefs, CuWorks
  <2>4. cuWork'.pc = "idle" /\ (cuRef' = cuRef \/ (cuRef'.pc = "idle" /\ ~cuRef'.copy.running))
    BY <2>1 DEF CuResting, CuIdle, CuStart
  <2>5. SamePhase' /\ CopiesKnow'
    BY <2>1, <2>4 DEF SamePhase, CopiesKnow
  <2>6. OnceEach' /\ RunningHasThread'
    <3>1. CASE cuGone' = TRUE
      BY <2>1, <2>4, <3>1 DEF OnceEach, RunningHasThread
    <3>2. CASE cuWork.pc = "idle" /\ cuGone' = cuGone
      BY <2>1, <2>4, <3>2 DEF OnceEach, RunningHasThread, CurtainTypeOK
    <3> QED BY <2>2, <3>1, <3>2
  <2> QED BY <2>3, <2>5, <2>6
<1> QED BY <1>1, <1>2, <1>3, <1>4, <1>5, <1>6 DEF CuThread

\* The refresh.
LEMMA RefreshKeepsInv ==
  ASSUME CurtainIInv, CuRefresh \/ CuGoOn(TRUE)
  PROVE  CurtainIInv'
<1> USE CurtainAssumption DEF CurtainIInv, cuTime, cuPast
<1>0. cuRef \in CuRefs /\ cuWork \in CuWorks /\ cuRow \in CuRows
  BY DEF CurtainTypeOK, CuRefs, CuWorks
<1>1. ASSUME NEW ok \in BOOLEAN, CuRead(ok) PROVE CurtainIInv'
  <2> DEFINE due == PulseDue(cuRow)
             row == IF due THEN [cuRow EXCEPT !.auto = @ + 1, !.good = ok] ELSE cuRow
             copy == [Kept(row) EXCEPT !.mode = IF cuBroken THEN "pause" ELSE @]
  <2>1. cuRef.pc = "idle" /\ cuRef' = [pc |-> "recover", live |-> cuBroken, copy |-> copy]
    BY <1>1 DEF CuRead
  <2>2. row \in CuRows /\ row.phase = cuRow.phase /\ row.done = cuRow.done
        /\ row.running = cuRow.running
    BY <1>0, CurtainRows DEF PulseDue, CuRows
  <2> HIDE DEF row
  <2>3. Kept(row) \in CuRows /\ Kept(row).mode \in {"run", "pause"}
    BY <2>2, CurtainRows DEF CuRows
  <2>4. copy \in CuRows
    BY <2>3, CurtainRows
  <2>5. /\ copy.phase = cuRow.phase /\ (copy.running => cuRow.running)
        /\ cuRow.phase = "ready" => copy.done = cuRow.done
    BY <2>2, <2>3 DEF Kept, CuRows
  <2> HIDE DEF copy
  <2>6. CurtainTypeOK'
    BY <1>1, <2>1, <2>4 DEF CuRead, CurtainTypeOK
  <2>7. SamePhase' /\ CopiesKnow' /\ OnceEach' /\ RunningHasThread'
    BY <1>1, <2>1, <2>5 DEF CuRead, SamePhase, CopiesKnow, OnceEach, RunningHasThread
  <2> QED BY <2>6, <2>7
<1>2. CASE CuRecover
  <2> DEFINE copy == [cuRef.copy EXCEPT !.running = TRUE, !.tried = TRUE]
  <2>1. /\ cuRef.pc = "recover" /\ RecoveryDue(cuRef.copy)
        /\ cuRef' = [cuRef EXCEPT !.pc = "write", !.copy = copy]
    BY <1>2, <1>0 DEF CuRecover, CuRefs
  <2>2. copy \in CuRows /\ cuRef.copy \in CuRows /\ cuRef.copy.auto \in Pulses
        /\ copy.phase = cuRef.copy.phase /\ copy.done = cuRef.copy.done
    BY <1>0, CurtainRows DEF CuRefs, CuRows
  <2> HIDE DEF copy
  <2>3. cuRef' \in CuRefs /\ cuRef'.pc = "write" /\ cuRef'.copy = copy
    BY <1>0, <2>1, <2>2 DEF CuRefs
  <2>4. \/ cuLock /\ UNCHANGED <<cuLock, cuWork>>
        \/ /\ ~cuLock /\ cuLock' = TRUE
           /\ cuWork' = [CuResting EXCEPT !.pc = "wicklers", !.for = cuRef.copy.auto]
    BY <1>2 DEF CuRecover, CurtainTypeOK
  <2>5. ~cuLock => cuWork' \in CuWorks /\ cuWork'.pc = "wicklers" /\ cuWork'.for = cuRef.copy.auto
    BY <2>2, <2>4, CurtainStartRows DEF CuResting, CuWorks
  <2>6. cuLock' = TRUE /\ cuWork' \in CuWorks /\ cuWork'.pc # "idle"
    BY <1>0, <2>4, <2>5 DEF CurtainTypeOK
  <2>7. CurtainTypeOK'
    BY <1>2, <2>3, <2>6 DEF CuRecover, CurtainTypeOK, CuRefs, CuWorks
  <2>8. SamePhase' /\ CopiesKnow' /\ RunningHasThread'
    BY <1>2, <2>1, <2>2, <2>3, <2>4, <2>5, <2>6
       DEF CuRecover, CurtainTypeOK, SamePhase, CopiesKnow, RunningHasThread
  <2>9. OnceEach'
    <3>1. CASE cuLock
      BY <1>2, <2>4, <3>1 DEF CuRecover, OnceEach
    <3>2. CASE ~cuLock
      <4>1. cuWork.pc = "idle"
        BY <3>2 DEF CurtainTypeOK
      <4>2. cuRow' = cuRow /\ cuDone' = cuDone /\ cuLost' = cuLost
        BY <1>2 DEF CuRecover
      <4>3. ~(cuRef.copy.done >= cuRef.copy.auto)
        BY <2>1 DEF RecoveryDue, AlreadyDone
      <4>4. cuRow.phase = "ready" /\ ~cuLost => cuRef.copy.auto > cuRow.done
        BY <2>1, <2>2, <4>3 DEF CopiesKnow, CuRows, Pulses
      <4>5. cuGone' = cuGone
        BY <1>2 DEF CuRecover
      <4> QED BY <2>5, <3>2, <4>1, <4>2, <4>4, <4>5 DEF OnceEach
    <3> QED BY <3>1, <3>2
  <2> QED BY <2>7, <2>8, <2>9
<1>3. ASSUME NEW start \in BOOLEAN, CuGoOn(start) PROVE CurtainIInv'
  <2> DEFINE copy == [cuRef.copy EXCEPT !.mode = IF start THEN "run" ELSE @]
  <2>1. cuRef.pc = "recover" /\ cuRef' = [cuRef EXCEPT !.pc = "write", !.copy = copy]
    BY <1>0, <1>3 DEF CuGoOn, CuRefs
  <2>2. /\ copy \in CuRows /\ copy.phase = cuRef.copy.phase /\ copy.done = cuRef.copy.done
        /\ copy.running = cuRef.copy.running
    BY <1>0 DEF CuRefs, CuRows
  <2> HIDE DEF copy
  <2>3. cuRef' \in CuRefs /\ cuRef'.pc = "write" /\ cuRef'.copy = copy
    BY <1>0, <2>1, <2>2 DEF CuRefs
  <2>4. CurtainTypeOK'
    BY <1>3, <2>3 DEF CuGoOn, CurtainTypeOK, CuRefs
  <2>5. SamePhase' /\ CopiesKnow' /\ OnceEach' /\ RunningHasThread'
    BY <1>3, <2>1, <2>2, <2>3 DEF CuGoOn, SamePhase, CopiesKnow, OnceEach, RunningHasThread
  <2> QED BY <2>4, <2>5
<1>4. CASE CuWrite
  <2>1. CurtainTypeOK'
    BY <1>0, <1>4, CurtainStartRows DEF CuWrite, CurtainTypeOK, CuIdle, CuRefs
  <2>2. SamePhase' /\ CopiesKnow' /\ OnceEach' /\ RunningHasThread'
    BY <1>0, <1>4 DEF CuWrite, CuIdle, CuStart, SamePhase, CopiesKnow, OnceEach, RunningHasThread
  <2> QED BY <2>1, <2>2
<1> QED BY <1>1, <1>2, <1>3, <1>4 DEF CuRefresh

\* Curtain: the marks of the recovery are true, and each automatic reset brings the wicklers
\* back once at most, unless an older row was written over a newer one or a thread has ended
\* without its write of the row, by a refused statement or a restart of the process.
THEOREM CurtainCorrect == CurtainSpec => []CurtainInv
<1>1. CurtainIInv /\ [CurtainNext]_cuVars => CurtainIInv'
  <2> SUFFICES ASSUME CurtainIInv, [CurtainNext]_cuVars PROVE CurtainIInv'
    OBVIOUS
  <2>1. CASE UNCHANGED cuVars
    BY <2>1 DEF cuVars, cuTime, cuPast, CurtainIInv, CurtainTypeOK, SamePhase, CopiesKnow, OnceEach,
                RunningHasThread
  <2> QED BY <2>1, ThreadKeepsInv, RefreshKeepsInv DEF CurtainNext
<1>2. CurtainIInv => CurtainInv
  BY DEF CurtainIInv, OnceEach, RunningHasThread, CurtainInv, RecoveredOnce, RunningIsTrue
<1> QED BY CurtainStarts, <1>1, <1>2, PTL DEF CurtainSpec

-----------------------------------------------------------------------------
(* The safety recovery (module Recovery)                                   *)

\* The numbers of commands: 0 is none, then the Einrichten commands, then the two stops.
LEMMA RcCommands ==
  /\ Cardinality(RcSetups) \in Nat /\ RcSetups = 1 .. Cardinality(RcSetups)
  /\ RcSetups \subseteq 0 .. OwnStop /\ 0 \in 0 .. OwnStop
  /\ ResetCommand \in 0 .. OwnStop /\ OwnStop \in 0 .. OwnStop
<1>1. Cardinality(RcSetups) \in Nat
  BY RecoveryAssumption, FS_CardinalityType
<1> QED BY <1>1, RecoveryAssumption DEF ResetCommand, OwnStop

RcRefPcs == {"idle", "safety", "reset", "pulse", "gate", "setup", "park", "parking", "write"}
RcRefs == [pc : RcRefPcs, snap : RcRows, new : RcStates, cmd : 0 .. OwnStop,
         estop : BOOLEAN, p28 : BOOLEAN, forced : BOOLEAN]
RcWorks == [pc : {"idle", "devices", "copy", "live", "store"}, ok : BOOLEAN,
          copy : RcRows, crit : BOOLEAN]
RcClears == [pc : {"idle", "read", "param", "write"}, copy : RcRows]
Fates == {"none", "asked", "waiting", "run", "refused", "stale"}

\* RecoveryTypeOK over the sets above.
LEMMA RecoveryTyped ==
  RecoveryTypeOK <=>
    /\ rcRow \in RcRows /\ rcCmd \in 0 .. OwnStop
    /\ rcP28 \in BOOLEAN /\ rcEstop \in BOOLEAN /\ rcDrive \in {"ready", "tripped"}
    /\ rcLock \in BOOLEAN /\ rcWork \in RcWorks /\ rcRef \in RcRefs
    /\ rcEnded \in Nat /\ rcGood \in 0 .. rcEnded
    /\ rcFate \in [RcSetups -> Fates]
    /\ rcOwed \in BOOLEAN /\ rcLost \in BOOLEAN /\ rcAged \in BOOLEAN
    /\ rcUsed \in [estops : 0 .. MaxEstops, resets : 0 .. MaxResets, clears : 0 .. MaxClears]
    /\ rcClear \in RcClears
BY DEF RecoveryTypeOK, RcRefs, RcRefPcs, RcWorks, RcClears, RcTimes, Fates

\* The rows the constants and the thread make.
LEMMA RcStartRow == RcStart \in RcRows /\ Unparked \in RcParks
<1>1. Unparked \in RcParks
  BY RecoveryAssumption DEF Unparked, RcParks
<1> QED BY <1>1 DEF RcStart, RcRows, RcStates, RcTimes

LEMMA RecoveredRow ==
  ASSUME rcWork \in RcWorks, rcEnded \in Nat
  PROVE  Recovered \in RcRows
<1>1. rcWork.copy \in RcRows /\ rcWork.ok \in BOOLEAN /\ rcWork.crit \in BOOLEAN
  BY DEF RcWorks
<1>2. [rcWork.copy EXCEPT !.rec = rcEnded] \in RcRows
  BY <1>1 DEF RcRows, RcTimes
<1> DEFINE c == [rcWork.copy EXCEPT !.rec = rcEnded]
<1>3. c.st \in RcStates
  BY <1>2 DEF RcRows
<1>4. \A b \in BOOLEAN, s \in RcStates :
        [c EXCEPT !.latched = b, !.park = Unparked] \in RcRows
        /\ [c EXCEPT !.latched = b, !.park = Unparked, !.st = s] \in RcRows
  <2> HIDE DEF c
  <2> QED BY <1>2, RcStartRow DEF c, RcRows
<1>5. "stop" \in RcStates
  BY DEF RcStates
<1>6. CASE ~rcWork.ok
  BY <1>2, <1>6 DEF Recovered
<1>7. CASE rcWork.ok /\ rcWork.crit
  BY <1>4, <1>3, <1>7 DEF Recovered
<1>8. CASE rcWork.ok /\ ~rcWork.crit
  BY <1>4, <1>3, <1>5, <1>8 DEF Recovered
<1> QED BY <1>1, <1>6, <1>7, <1>8

\* What the refresh does to its copy of the row.
LEMMA CopyChanges ==
  ASSUME NEW r \in RcRows
  PROVE  /\ \A s \in RcStates : [r EXCEPT !.st = s] \in RcRows
         /\ \A b \in BOOLEAN : [r EXCEPT !.latched = b] \in RcRows
         /\ \A p \in RcParks : [r EXCEPT !.park = p] \in RcRows
         /\ \A n \in RcSetups \cup {0}, t \in Nat, m \in RcSetups \cup {0} :
              [r EXCEPT !.pend = n, !.since = t, !.seen = m] \in RcRows
BY DEF RcRows, RcTimes

\* Recovery: refresh and thread keep their types.
THEOREM RecoveryTypeCorrect == RecoverySpec => []RecoveryTypeOK
<1> USE RcCommands, RecoveryAssumption
<1>1. RecoveryInit => RecoveryTypeOK
  <2> SUFFICES ASSUME RecoveryInit PROVE RecoveryTypeOK
    OBVIOUS
  <2>1. rcRef \in RcRefs
    BY RcStartRow DEF RecoveryInit, RcIdle, RcRefs, RcRefPcs, RcStates
  <2>2. rcWork \in RcWorks
    BY RcStartRow DEF RecoveryInit, RcResting, RcWorks
  <2>3. rcFate \in [RcSetups -> Fates] /\ rcGood \in 0 .. rcEnded /\ rcEnded \in Nat
    BY DEF RecoveryInit, Fates
  <2>4. /\ rcUsed \in [estops : 0 .. MaxEstops, resets : 0 .. MaxResets, clears : 0 .. MaxClears]
        /\ rcClear \in RcClears
    BY RcStartRow DEF RecoveryInit, RcNoClear, RcClears
  <2>5. /\ rcRow \in RcRows /\ rcCmd \in 0 .. OwnStop
        /\ rcP28 \in BOOLEAN /\ rcEstop \in BOOLEAN /\ rcDrive \in {"ready", "tripped"}
        /\ rcLock \in BOOLEAN /\ rcOwed \in BOOLEAN /\ rcLost \in BOOLEAN /\ rcAged \in BOOLEAN
    BY RcStartRow DEF RecoveryInit
  <2> QED BY <2>1, <2>2, <2>3, <2>4, <2>5, RecoveryTyped
<1>2. RecoveryTypeOK /\ [RecoveryNext]_rcVars => RecoveryTypeOK'
  <2> SUFFICES ASSUME RecoveryTypeOK, [RecoveryNext]_rcVars PROVE RecoveryTypeOK'
    OBVIOUS
  <2>0. RecoveryTypeOK' <=>
    /\ rcRow' \in RcRows /\ rcCmd' \in 0 .. OwnStop
    /\ rcP28' \in BOOLEAN /\ rcEstop' \in BOOLEAN /\ rcDrive' \in {"ready", "tripped"}
    /\ rcLock' \in BOOLEAN /\ rcWork' \in RcWorks /\ rcRef' \in RcRefs
    /\ rcEnded' \in Nat /\ rcGood' \in 0 .. rcEnded'
    /\ rcFate' \in [RcSetups -> Fates]
    /\ rcOwed' \in BOOLEAN /\ rcLost' \in BOOLEAN /\ rcAged' \in BOOLEAN
    /\ rcUsed' \in [estops : 0 .. MaxEstops, resets : 0 .. MaxResets, clears : 0 .. MaxClears]
    /\ rcClear' \in RcClears
    BY DEF RecoveryTypeOK, RcRefs, RcRefPcs, RcWorks, RcClears, RcTimes, Fates
  <2> USE RecoveryTyped, <2>0 DEF rcPlant, rcNotes, rcSetup, RcAt, RcGo, WorkAt, FateOf
  <2>1. CASE PressEstop
    <3>1. rcUsed' \in [estops : 0 .. MaxEstops, resets : 0 .. MaxResets, clears : 0 .. MaxClears]
      <4>1. rcUsed.estops + 1 \in 0 .. MaxEstops /\ rcUsed' = [rcUsed EXCEPT !.estops = @ + 1]
        BY <2>1 DEF PressEstop
      <4> QED BY <4>1
    <3> QED BY <2>1, <3>1 DEF PressEstop
  <2>2. CASE ReleaseEstop
    BY <2>2 DEF ReleaseEstop
  <2>3. CASE AskReset
    <3>1. rcUsed' \in [estops : 0 .. MaxEstops, resets : 0 .. MaxResets, clears : 0 .. MaxClears]
      <4>1. rcUsed.resets + 1 \in 0 .. MaxResets /\ rcUsed' = [rcUsed EXCEPT !.resets = @ + 1]
        BY <2>3 DEF AskReset
      <4> QED BY <4>1
    <3> QED BY <2>3, <3>1 DEF AskReset
  <2>4. CASE PendingAges
    BY <2>4 DEF PendingAges
  <2>5. CASE \E n \in RcSetups : AskSetup(n)
    BY <2>5 DEF AskSetup, Fates
  <2>6. CASE RcRead
    BY <2>6, RcStartRow DEF RcRead, RcIdle, RcRefs, RcRefPcs, RcRows
  <2>7. CASE \E rule \in Rules : RcSafety(rule)
    <3> PICK rule \in Rules : RcSafety(rule)
      BY <2>7
    <3> DEFINE two == rcRef.cmd \in {ResetCommand, OwnStop}
               stops == two /\ ~NeedsReset(rule)
               next == CASE LatchBy(rule) \/ PurgeBy(rule) -> "purge"
                         [] ~LatchBy(rule) /\ ~PurgeBy(rule) /\ (ForcedStop(rule) \/ stops) -> "stop"
                         [] ~two /\ ~NeedsReset(rule) /\ rcRef.new = "resetting" -> "stop"
                         [] OTHER -> rcRef.new
               go == IF NeedsReset(rule) /\ two THEN "reset" ELSE "gate"
    <3>1. LatchBy(rule) \in BOOLEAN /\ PurgeBy(rule) \in BOOLEAN
          /\ (LatchBy(rule) \/ ForcedStop(rule)) \in BOOLEAN
      BY DEF LatchBy, PurgeBy, ForcedStop, RcRefs, RcRows
    <3>2. next \in RcStates /\ go \in RcRefPcs
      BY DEF RcRefs, RcRefPcs, RcStates
    <3>3. [rcRef.snap EXCEPT !.latched = LatchBy(rule)] \in RcRows
      BY <3>1, CopyChanges DEF RcRefs
    <3>4. rcRef' = [rcRef EXCEPT !.pc = go, !.snap = [@ EXCEPT !.latched = LatchBy(rule)],
                     !.p28 = PurgeBy(rule), !.forced = LatchBy(rule) \/ ForcedStop(rule),
                     !.new = next, !.cmd = IF stops THEN 0 ELSE @]
      BY DEF RcSafety
    <3>5. rcCmd' = (IF stops THEN 0 ELSE rcCmd) /\ rcP28' \in BOOLEAN /\ rcOwed' \in BOOLEAN
          /\ UNCHANGED <<rcRow, rcEstop, rcDrive, rcUsed, rcLock, rcWork, rcClear, rcEnded, rcGood,
                         rcFate, rcLost, rcAged>>
      BY DEF RcSafety
    <3> HIDE DEF next, go, stops
    <3>6. rcRef' \in RcRefs
      BY <3>1, <3>2, <3>3, <3>4 DEF RcRefs
    <3> QED BY <3>5, <3>6
  <2>8. CASE RcResetBegin
    BY <2>8 DEF RcResetBegin, RcRefs, RcRefPcs, RcRows, RcStates
  <2>9. CASE RcResetFails
    <3>1. /\ "purge" \in RcStates /\ "gate" \in RcRefPcs /\ (rcP28 \/ rcEstop) \in BOOLEAN
      BY DEF RcStates, RcRefPcs
    <3>2. [rcRef.snap EXCEPT !.latched = rcP28 \/ rcEstop] \in RcRows
      BY <3>1, CopyChanges DEF RcRefs
    <3>3. rcRef' = [rcRef EXCEPT !.pc = "gate", !.cmd = 0, !.new = "purge", !.forced = TRUE,
                     !.p28 = rcP28', !.estop = rcEstop,
                     !.snap = [@ EXCEPT !.latched = rcP28 \/ rcEstop]]
      BY <2>9 DEF RcResetFails
    <3>4. rcP28' \in BOOLEAN
      BY <2>9 DEF RcResetFails
    <3>5. rcRef' \in RcRefs
      <4> HIDE DEF RcAt
      <4> QED BY <3>1, <3>2, <3>3, <3>4 DEF RcRefs
    <3> QED BY <2>9, <3>4, <3>5 DEF RcResetFails
  <2>10. CASE RcResetDone
    <3>1. rcRef' \in RcRefs
      BY <2>10, CopyChanges DEF RcResetDone, RcRefs, RcRefPcs, RcStates
    <3>2. rcWork' \in RcWorks /\ rcLock' \in BOOLEAN
      BY <2>10, RcStartRow DEF RcResetDone, RcResting, RcWorks
    <3> QED BY <2>10, <3>1, <3>2 DEF RcResetDone
  <2>11. CASE RcSetupWaits
    BY <2>11 DEF RcSetupWaits, NewSetup, RcRefs, RcRefPcs, RcRows, RcTimes, Fates
  <2>12. CASE RcSetupStarts
    <3> DEFINE n == IF PendingReady THEN rcRef.snap.pend ELSE rcRef.cmd
    <3>1. rcRef.snap \in RcRows /\ rcRef.snap.pend \in RcSetups \cup {0}
      BY DEF RcRefs, RcRows
    <3>2. n \in RcSetups
      BY <2>12, <3>1 DEF RcSetupStarts, NewSetup, PendingReady
    <3>3. [rcRef.snap EXCEPT !.pend = 0, !.seen = n] \in RcRows
      BY <3>1, <3>2 DEF RcRows
    <3>4. [rcRef.snap EXCEPT !.st = "setup", !.pend = 0, !.seen = n] \in RcRows
      BY <3>1, <3>2 DEF RcRows, RcStates
    <3>5. /\ rcRef' = [rcRef EXCEPT !.pc = IF SafeToMove THEN "setup" ELSE "park",
                          !.cmd = IF SafeToMove THEN 0 ELSE @,
                          !.snap = [@ EXCEPT !.pend = 0, !.seen = n]]
          /\ rcFate' = [rcFate EXCEPT ![n] = IF SafeToMove THEN "run" ELSE "refused"]
          /\ IF SafeToMove
             THEN rcRow' = [rcRef.snap EXCEPT !.st = "setup", !.pend = 0, !.seen = n]
                  /\ rcCmd' = 0
             ELSE UNCHANGED <<rcRow, rcCmd>>
          /\ UNCHANGED <<rcEstop, rcUsed, rcP28, rcDrive, rcLock, rcWork, rcClear, rcEnded, rcGood,
                         rcOwed, rcLost, rcAged>>
      BY <2>12 DEF RcSetupStarts
    <3> HIDE DEF n
    <3>6. rcRef' \in RcRefs
      BY <3>3, <3>5 DEF RcRefs, RcRefPcs
    <3>7. rcFate' \in [RcSetups -> Fates]
      BY <3>2, <3>5 DEF Fates
    <3> QED BY <3>4, <3>5, <3>6, <3>7
  <2>13. CASE RcNoSetup
    <3>1. rcRef.snap \in RcRows /\ rcRef.snap.pend \in RcSetups \cup {0}
      BY DEF RcRefs, RcRows
    <3>2. [rcRef.snap EXCEPT !.pend = 0] \in RcRows
      BY <3>1 DEF RcRows
    <3>3. rcRef' = [rcRef EXCEPT !.pc = "park", !.snap = [@ EXCEPT !.pend = 0]]
          \/ rcRef' = [rcRef EXCEPT !.pc = "park"]
      BY <2>13 DEF RcNoSetup
    <3>4. rcRef' \in RcRefs
      BY <3>2, <3>3 DEF RcRefs, RcRefPcs
    <3>5. rcFate' \in [RcSetups -> Fates]
      BY <2>13, <3>1 DEF RcNoSetup, PendingStale, Fates
    <3> QED BY <2>13, <3>4, <3>5 DEF RcNoSetup
  <2>14. CASE RcPark
    <3> DEFINE park == rcRef.snap.park
               tries == IF rcRef.new # rcRef.snap.st THEN 0 ELSE park.tries
    <3>1. rcRef.snap \in RcRows /\ park \in RcParks
      BY DEF RcRefs, RcRows
    <3>2. [park EXCEPT !.ok = FALSE] \in RcParks
      BY <3>1 DEF RcParks
    <3> DEFINE undone == [park EXCEPT !.ok = FALSE]
               again == [checked |-> TRUE, ok |-> FALSE, tries |-> tries + 1]
    <3>3. ParkDue => again \in RcParks
      <4>1. park.tries \in 0 .. MaxParks /\ (park.checked \/ park.tries = 0)
        BY <3>1 DEF RcParks
      <4>2. ParkDue => tries = 0 \/ (tries = park.tries /\ park.tries < MaxParks)
        BY <4>1 DEF ParkDue
      <4>3. ParkDue => tries \in 0 .. (MaxParks - 1)
        <5> HIDE DEF tries, park
        <5> QED BY <4>1, <4>2
      <4> HIDE DEF tries
      <4> QED BY <4>3 DEF RcParks
    <3>4. \/ rcRef' = [rcRef EXCEPT !.pc = "write"]
          \/ rcRef' = [rcRef EXCEPT !.pc = "write", !.snap.park.ok = FALSE]
          \/ ParkDue /\ rcRef' = [rcRef EXCEPT !.pc = "parking", !.snap.park = again]
      <4>1. CASE rcRef.new # "stop"
        BY <2>14, <4>1 DEF RcPark
      <4>2. CASE rcRef.new = "stop" /\ RecoveryRuns
        BY <2>14, <4>2 DEF RcPark
      <4>3. CASE rcRef.new = "stop" /\ ~RecoveryRuns /\ ~ParkDue
        BY <2>14, <4>3 DEF RcPark
      <4>4. CASE rcRef.new = "stop" /\ ~RecoveryRuns /\ ParkDue
        BY <2>14, <4>4 DEF RcPark
      <4> QED BY <4>1, <4>2, <4>3, <4>4
    <3>5. /\ [rcRef.snap EXCEPT !.park = undone] \in RcRows
          /\ ParkDue => [rcRef.snap EXCEPT !.park = again] \in RcRows
      BY <3>1, <3>2, <3>3, CopyChanges
    <3>6. rcRef' \in RcRefs
      <4> HIDE DEF tries
      <4>1. \A r \in RcRows : [rcRef EXCEPT !.pc = "write", !.snap = r] \in RcRefs
                             /\ [rcRef EXCEPT !.pc = "parking", !.snap = r] \in RcRefs
                             /\ [rcRef EXCEPT !.pc = "write"] \in RcRefs
        BY DEF RcRefs, RcRefPcs
      <4>2. /\ [rcRef EXCEPT !.pc = "write", !.snap.park.ok = FALSE]
               = [rcRef EXCEPT !.pc = "write", !.snap = [rcRef.snap EXCEPT !.park = undone]]
            /\ [rcRef EXCEPT !.pc = "parking", !.snap.park = again]
               = [rcRef EXCEPT !.pc = "parking", !.snap = [rcRef.snap EXCEPT !.park = again]]
        BY DEF RcRefs
      <4> HIDE DEF undone, again
      <4>3. \/ rcRef' = [rcRef EXCEPT !.pc = "write"]
            \/ rcRef' = [rcRef EXCEPT !.pc = "write", !.snap = [rcRef.snap EXCEPT !.park = undone]]
            \/ ParkDue /\ rcRef' = [rcRef EXCEPT !.pc = "parking",
                                     !.snap = [rcRef.snap EXCEPT !.park = again]]
        BY <3>4, <4>2, Zenon
      <4> QED BY <3>1, <3>5, <4>1, <4>3
    <3> QED BY <2>14, <3>6 DEF RcPark
  <2>15. CASE RcWrite
    BY <2>15, RcStartRow DEF RcWrite, RcIdle, RcRefs, RcRefPcs, RcRows, RcStates
  <2>16. CASE \E ok \in BOOLEAN : RcSetupEnds(ok)
    BY <2>16 DEF RcSetupEnds, RcRefs, RcRefPcs, RcStates
  <2>17. CASE \E ok \in BOOLEAN : RcParked(ok)
    <3> PICK ok \in BOOLEAN : RcParked(ok)
      BY <2>17
    <3>1. rcRef.snap \in RcRows /\ rcRef.snap.park \in RcParks
      BY DEF RcRefs, RcRows
    <3>2. [rcRef.snap.park EXCEPT !.ok = ok] \in RcParks
      BY <3>1 DEF RcParks
    <3>3. [rcRef.snap EXCEPT !.park = [rcRef.snap.park EXCEPT !.ok = ok]] \in RcRows
      BY <3>1, <3>2, CopyChanges
    <3>4. \A r \in RcRows : [rcRef EXCEPT !.pc = "write", !.snap = r] \in RcRefs
      BY DEF RcRefs, RcRefPcs
    <3>5. rcRef' = [rcRef EXCEPT !.pc = "write",
                     !.snap = [rcRef.snap EXCEPT !.park = [rcRef.snap.park EXCEPT !.ok = ok]]]
      BY DEF RcParked, RcRefs
    <3>6. rcRef' \in RcRefs
      BY <3>3, <3>4, <3>5
    <3> QED BY <3>6 DEF RcParked
  <2>18. CASE RcCopy
    BY <2>18 DEF RcCopy, RcWorks
  <2>19. CASE RcLive
    BY <2>19 DEF RcLive, RcWorks
  <2>20. CASE RcStore
    BY <2>20, RecoveredRow, RcStartRow DEF RcStore, RcResting, RcWorks
  <2>21. CASE \E ok \in BOOLEAN : RcDevices(ok)
    <3> PICK ok \in BOOLEAN : RcDevices(ok)
      BY <2>21
    <3>1. rcWork' \in RcWorks
      BY DEF RcDevices, RcWorks
    <3>2. rcEnded' \in Nat /\ rcGood' \in 0 .. rcEnded' /\ rcDrive' \in {"ready", "tripped"}
      BY DEF RcDevices
    <3> QED BY <3>1, <3>2 DEF RcDevices
  <2>22. CASE RcSkips
    BY <2>22, RcStartRow DEF RcSkips, RcResting, RcWorks
  <2>23. CASE MicrotomClears
    <3>1. rcClear' \in RcClears
      BY <2>23 DEF MicrotomClears, RcClears
    <3>2. rcUsed' \in [estops : 0 .. MaxEstops, resets : 0 .. MaxResets, clears : 0 .. MaxClears]
      <4>1. rcUsed.clears + 1 \in 0 .. MaxClears /\ rcUsed' = [rcUsed EXCEPT !.clears = @ + 1]
        BY <2>23 DEF MicrotomClears
      <4> QED BY <4>1
    <3> QED BY <2>23, <3>1, <3>2 DEF MicrotomClears
  <2>24. CASE ClearReads
    BY <2>24 DEF ClearReads, RcClears
  <2>25. CASE ClearParam
    BY <2>25 DEF ClearParam, RcClears
  <2>26. CASE ClearStores
    <3>1. rcRow' \in RcRows
      BY <2>26, CopyChanges DEF ClearStores, RcClears
    <3>2. rcClear' \in RcClears
      BY <2>26, RcStartRow DEF ClearStores, RcNoClear, RcClears
    <3> QED BY <2>26, <3>1, <3>2 DEF ClearStores
  <2>27. CASE UNCHANGED rcVars
    BY <2>27 DEF rcVars
  <2> QED BY <2>1, <2>2, <2>3, <2>4, <2>5, <2>6, <2>7, <2>8, <2>9, <2>10, <2>11, <2>12, <2>13,
             <2>14, <2>15, <2>16, <2>17, <2>18, <2>19, <2>20, <2>21, <2>22, <2>23, <2>24,
             <2>25, <2>26, <2>27
          DEF RecoveryNext, RefreshWorks, ThreadWorks, RouterClears
<1> QED BY <1>1, <1>2, PTL DEF RecoverySpec

-----------------------------------------------------------------------------
(* Who holds the lock, and what a refresh knows of an e-stop that is still   *)
(* owed a reset: MAS0028 stands, the copy of it or of the input says so, and *)
(* the state the refresh has decided on is 21.                               *)

LockHeld == rcLock <=> rcWork.pc # "idle"
MoverAlone == rcRef.pc \in {"setup", "parking"} => rcWork.pc = "idle"
OwedSeen ==
  rcOwed => /\ rcP28
            /\ rcRef.pc = "safety" => rcRef.p28 \/ rcRef.estop
            /\ rcRef.pc = "gate" => ~SafeToMove
            /\ rcRef.pc \in {"gate", "park"} => rcRef.new = "purge"
            /\ rcRef.pc \notin {"setup", "parking"}
RecoveryIInv == RecoveryTypeOK /\ LockHeld /\ MoverAlone /\ OwedSeen

\* The refresh keeps the lock with its owner and never moves while one is owed.
LEMMA RefreshKeeps ==
  ASSUME RecoveryIInv, RefreshWorks
  PROVE  LockHeld' /\ MoverAlone' /\ OwedSeen'
<1> USE DEF RecoveryIInv, LockHeld, MoverAlone, OwedSeen, SafeToMove, rcPlant, rcNotes, rcSetup,
            RcAt, RcGo
<1>0. rcRef \in RcRefs /\ rcWork \in RcWorks
  BY RecoveryTyped
<1>1. CASE RcRead
  BY <1>0, <1>1 DEF RcRead, RcIdle, RcRefs
<1>2. CASE \E rule \in Rules : RcSafety(rule)
  <2> PICK rule \in Rules : RcSafety(rule)
    BY <1>2
  <2>1. rcRef.pc = "safety" /\ Stale(rule) /\ UNCHANGED <<rcLock, rcWork>>
    BY DEF RcSafety
  <2> DEFINE latch == LatchBy(rule)
             purge == PurgeBy(rule)
             forced == LatchBy(rule) \/ ForcedStop(rule)
             two == rcRef.cmd \in {ResetCommand, OwnStop}
             stops == two /\ ~NeedsReset(rule)
             next == CASE LatchBy(rule) \/ PurgeBy(rule) -> "purge"
                       [] ~LatchBy(rule) /\ ~PurgeBy(rule) /\ (ForcedStop(rule) \/ stops) -> "stop"
                       [] ~two /\ ~NeedsReset(rule) /\ rcRef.new = "resetting" -> "stop"
                       [] OTHER -> rcRef.new
             go == IF NeedsReset(rule) /\ two THEN "reset" ELSE "gate"
             word == IF stops THEN 0 ELSE rcRef.cmd
  <2>a. go \in {"reset", "gate"} /\ (latch \/ purge => next = "purge") /\ (latch => forced)
    <3>1. go \in {"reset", "gate"}
      OBVIOUS
    <3>2. latch \/ purge => next = "purge"
      <4> HIDE DEF stops
      <4> QED BY DEF LatchBy, PurgeBy, NeedsReset
    <3>3. latch => forced
      OBVIOUS
    <3> HIDE DEF latch, purge, forced, next, go
    <3> QED BY <3>1, <3>2, <3>3
  <2>b. rcRef' = [rcRef EXCEPT !.pc = go, !.snap = [@ EXCEPT !.latched = latch], !.p28 = purge,
                   !.forced = forced, !.new = next, !.cmd = word]
    BY DEF RcSafety
  <2> HIDE DEF latch, purge, forced, two, stops, next, go, word
  <2>c. rcRef'.pc = go /\ rcRef'.p28 = purge /\ rcRef'.forced = forced /\ rcRef'.new = next
    BY <1>0, <2>b DEF RcRefs
  <2>2. /\ rcRef'.pc \in {"reset", "gate"} /\ (latch \/ purge => rcRef'.new = "purge")
        /\ (latch \/ purge => rcRef'.forced \/ rcRef'.p28)
    BY <2>a, <2>c
  <2>3. rcP28' = (rcRef.estop \/ (rcP28 /\ rule # "curtain"))
        /\ rcOwed' = (rcRef.estop \/ (rcOwed /\ rule # "curtain"))
    BY DEF RcSafety
  <2>4. rcOwed' => rcRef.estop \/ (rcOwed /\ rcRef.p28 /\ rule # "curtain")
    BY <2>1, <2>3
  <2>5. rcOwed' => latch \/ purge
    BY <2>4 DEF LatchBy, PurgeBy, latch, purge
  <2> QED BY <2>1, <2>2, <2>3, <2>4, <2>5
<1>3. CASE RcResetBegin
  BY <1>0, <1>3 DEF RcResetBegin, RcRefs
<1>4. CASE RcResetFails
  BY <1>0, <1>4 DEF RcResetFails, RcRefs
<1>5. CASE RcResetDone
  BY <1>0, <1>5 DEF RcResetDone, RcResting, RcRefs, RcWorks
<1>6. CASE RcSetupWaits
  BY <1>0, <1>6 DEF RcSetupWaits, RcRefs
<1>7. CASE RcSetupStarts
  BY <1>0, <1>7 DEF RcSetupStarts, RecoveryRuns, RcRefs
<1>8. CASE RcNoSetup
  BY <1>0, <1>8 DEF RcNoSetup, RcRefs
<1>9. CASE RcPark
  <2>1. rcRef'.pc \in {"write", "parking"} /\ (rcRef'.pc = "parking" => rcRef.new = "stop" /\ ~rcLock)
    <3>1. CASE rcRef.new # "stop"
      BY <1>0, <1>9, <3>1 DEF RcPark, RcRefs
    <3>2. CASE rcRef.new = "stop" /\ RecoveryRuns
      <4>1. rcRef' = [rcRef EXCEPT !.pc = "write", !.snap.park.ok = FALSE]
        BY <1>9, <3>2 DEF RcPark
      <4> QED BY <1>0, <4>1 DEF RcRefs
    <3>3. CASE rcRef.new = "stop" /\ ~RecoveryRuns /\ ~ParkDue
      BY <1>0, <1>9, <3>3 DEF RcPark, RcRefs
    <3>4. CASE rcRef.new = "stop" /\ ~RecoveryRuns /\ ParkDue
      BY <1>0, <1>9, <3>4 DEF RcPark, RecoveryRuns, RcRefs
    <3> QED BY <3>1, <3>2, <3>3, <3>4
  <2>2. rcRef.pc = "park" /\ UNCHANGED <<rcLock, rcWork, rcOwed, rcP28>>
    BY <1>9 DEF RcPark
  <2> QED BY <2>1, <2>2
<1>10. CASE RcWrite
  BY <1>0, <1>10 DEF RcWrite, RcIdle, RcRefs
<1>11. CASE \E ok \in BOOLEAN : RcSetupEnds(ok)
  BY <1>0, <1>11 DEF RcSetupEnds, RcRefs
<1>12. CASE \E ok \in BOOLEAN : RcParked(ok)
  <2> PICK ok \in BOOLEAN : RcParked(ok)
    BY <1>12
  <2>1. rcRef' = [rcRef EXCEPT !.pc = "write", !.snap.park.ok = ok]
    BY DEF RcParked
  <2>2. rcRef'.pc = "write"
    BY <1>0, <2>1 DEF RcRefs
  <2> QED BY <2>2 DEF RcParked
<1> QED BY <1>1, <1>2, <1>3, <1>4, <1>5, <1>6, <1>7, <1>8, <1>9, <1>10, <1>11, <1>12
        DEF RefreshWorks

\* So do the operator, the plant and the thread, which touches neither command nor copy,
\* and the router, which ends the debt before it releases the latch.
LEMMA OthersKeep ==
  ASSUME RecoveryIInv, ThreadWorks \/ PressEstop \/ ReleaseEstop \/ AskReset \/ PendingAges
               \/ RcSkips \/ RouterClears
               \/ \E n \in RcSetups : AskSetup(n)
  PROVE  LockHeld' /\ MoverAlone' /\ OwedSeen'
<1> USE DEF RecoveryIInv, LockHeld, MoverAlone, OwedSeen, SafeToMove, rcPlant, rcNotes, rcSetup,
            WorkAt
<1>0. rcRef \in RcRefs /\ rcWork \in RcWorks
  BY RecoveryTyped
<1>1. CASE ThreadWorks
  <2>1. UNCHANGED <<rcRef, rcOwed, rcP28>>
    BY <1>1 DEF ThreadWorks, RcCopy, RcLive, RcStore, RcDevices
  <2>2. /\ rcWork.pc # "idle"
        /\ \/ rcWork'.pc # "idle" /\ rcLock' = rcLock
           \/ rcWork'.pc = "idle" /\ rcLock' = FALSE
    <3>1. CASE RcCopy
      BY <1>0, <3>1 DEF RcCopy, RcWorks
    <3>2. CASE RcLive
      BY <1>0, <3>2 DEF RcLive, RcWorks
    <3>3. CASE RcStore
      BY <1>0, <3>3 DEF RcStore, RcResting
    <3>4. CASE \E ok \in BOOLEAN : RcDevices(ok)
      BY <1>0, <3>4 DEF RcDevices, RcWorks
    <3> QED BY <1>1, <3>1, <3>2, <3>3, <3>4 DEF ThreadWorks
  <2> QED BY <2>1, <2>2
<1>2. CASE PressEstop \/ ReleaseEstop \/ AskReset \/ PendingAges
  BY <1>2 DEF PressEstop, ReleaseEstop, AskReset, PendingAges
<1>3. CASE \E n \in RcSetups : AskSetup(n)
  BY <1>3 DEF AskSetup
<1>4. CASE RcSkips
  BY <1>4 DEF RcSkips, RcResting
<1>5. CASE RouterClears
  <2>1. UNCHANGED <<rcRef, rcLock, rcWork>>
    BY <1>5 DEF RouterClears, MicrotomClears, ClearReads, ClearParam, ClearStores
  <2>2. rcOwed' = FALSE \/ UNCHANGED <<rcOwed, rcP28>>
    BY <1>5 DEF RouterClears, MicrotomClears, ClearReads, ClearParam, ClearStores
  <2> QED BY <2>1, <2>2
<1> QED BY <1>1, <1>2, <1>3, <1>4, <1>5

\* RecoveryInv: nobody drives an axis while the recovery thread does, nor between the refresh
\* that has seen an e-stop and what ends that: a reset that succeeds, Microtom's MAS0028=0 or
\* the stale rule of the light curtain.  The stale rule after a reset never ends it, and no
\* old row that one of the three threads writes does.
THEOREM RecoveryCorrect == RecoverySpec => []RecoveryInv
<1>1. RecoveryInit => LockHeld /\ MoverAlone /\ OwedSeen
  BY DEF RecoveryInit, RcResting, RcIdle, LockHeld, MoverAlone, OwedSeen
<1>2. RecoveryIInv /\ RecoveryTypeOK' /\ [RecoveryNext]_rcVars => (LockHeld /\ MoverAlone /\ OwedSeen)'
  <2> SUFFICES ASSUME RecoveryIInv, [RecoveryNext]_rcVars PROVE (LockHeld /\ MoverAlone /\ OwedSeen)'
    OBVIOUS
  <2>1. CASE RefreshWorks
    BY <2>1, RefreshKeeps
  <2>2. CASE UNCHANGED rcVars
    BY <2>2 DEF rcVars, RecoveryIInv, LockHeld, MoverAlone, OwedSeen, SafeToMove
  <2> QED BY <2>1, <2>2, OthersKeep DEF RecoveryNext
<1>3. RecoveryIInv => RecoveryInv
  BY DEF RecoveryIInv, RecoveryInv, MoverAlone, OwedSeen, OneMover, NoMotionBeforeReset, WorkAt
<1>4. RecoverySpec => []RecoveryTypeOK
  BY RecoveryTypeCorrect
<1> QED BY <1>1, <1>2, <1>3, <1>4, PTL DEF RecoverySpec, RecoveryIInv

-----------------------------------------------------------------------------
(* The setup procedure (module Setup)                                      *)

\* Without an exception: the calls in their order.
Straight == {"sync", "master", "reset", "calibrate", "axes", "zero", "learn", "teach", "lead",
             "start", "poll", "sea", "apply", "base", "clear", "final", "after"}
AxesDone == {"zero", "learn", "teach", "lead", "start", "poll", "sea", "apply", "base", "clear",
             "final"}
Ending == {"join", "after"}

\* How far the setup has come, as long as no exception is under way.
InOrder ==
  /\ suPc \in Straight => ~suErr
  /\ (suPc \in AxesDone \/ (suPc \in Ending \cup {"unlead"} /\ ~suErr))
       => suAxes = "ok" /\ suPlant.free = SuWicklers
  /\ suPc = "axes" => suPlant.free = SuWicklers
  /\ suPc \in {"teach", "lead", "start", "poll"} => suPlant.learn = SuWicklers
  /\ (suPc \in {"base", "clear", "final"} \/ (suPc \in Ending /\ ~suErr))
       => suPast.applied = SuWicklers

\* What is going on has somebody ahead of it who will end it, or was missed.
NothingLeft ==
  /\ suPc \notin {"poll", "cancel", "stop"} /\ ~(suPc = "unlead" /\ suErr)
       => (suPlant.measure = "runs" => "measure" \in suPast.missed)
  /\ suPc \notin {"start", "poll", "unlead"} => (suPlant.lead # {} => "lead" \in suPast.missed)
  /\ suPc # "unlead" => (suPlant.teach => "teach" \in suPast.missed)
  /\ suPc \notin {"teach", "lead", "start", "poll", "unlead", "sea", "apply", "cancel", "stop"}
       => (suPlant.learn # {} => "wicklers" \in suPast.missed)
  /\ suPc = "join" /\ suErr => (suPlant.free # {} => "wicklers" \in suPast.missed)
  /\ suPc = "idle" /\ suPast.result = "failed"
       => (suPlant.free # {} => "wicklers" \in suPast.missed)

\* A stop and a MAS0028 of this setup stand where the procedure looks, until it has looked
\* for the last time.
Noticed ==
  /\ suPast.result # "none" => suPc = "idle"
  /\ suPc # "idle" => (suPast.stopped => suCmd = "other")
  /\ suPc # "idle" => (suPast.latched => suP28 \/ suPast.wiped)
  /\ suPc \in Ending /\ ~suErr => ~suPast.stopped /\ (suPast.latched => suPast.wiped)

SetupIInv == SetupTypeOK /\ InOrder /\ NothingLeft /\ Noticed /\ OkMeansDone

LEMMA SetupStarts == SetupInit => SetupIInv
<1> SUFFICES ASSUME SetupInit PROVE SetupIInv
  OBVIOUS
<1> USE DEF SetupInit, SuAtRest, SuFresh
<1>1. suPlant \in SuPlants /\ suPast \in SuPasts
  BY DEF SuPlants, SuPasts
<1>2. SetupTypeOK
  BY <1>1 DEF SetupTypeOK, SuPcs, SuAxesPcs
<1>3. InOrder /\ NothingLeft
  BY DEF InOrder, NothingLeft, Straight, AxesDone, Ending
<1>4. Noticed /\ OkMeansDone
  BY DEF Noticed, OkMeansDone, Ending
<1> QED BY <1>2, <1>3, <1>4 DEF SetupIInv

LEMMA AroundKeepsInv ==
  ASSUME SetupIInv, BeginSetup \/ StopSetup \/ LatchPurge \/ ResetPurge \/ MeasureEnds \/ AxesThread
               \/ UNCHANGED suVars
  PROVE  SetupIInv'
<1> USE DEF SetupIInv, suAsked
<1>1. CASE BeginSetup
  <2>1. SetupTypeOK'
    BY <1>1 DEF BeginSetup, SuFresh, SetupTypeOK, SuPcs, SuAxesPcs, SuPlants, SuPasts
  <2>2. InOrder'
    BY <1>1 DEF BeginSetup, SuFresh, SetupTypeOK, SuPcs, SuAxesPcs, SuPlants, SuPasts,
                InOrder, Straight, AxesDone, Ending
  <2>3. NothingLeft'
    BY <1>1 DEF BeginSetup, SuFresh, SetupTypeOK, SuPcs, SuAxesPcs, SuPlants, SuPasts,
                NothingLeft, InOrder, Straight
  <2>4. Noticed' /\ OkMeansDone'
    BY <1>1 DEF BeginSetup, SuFresh, SetupTypeOK, SuPcs, SuAxesPcs, SuPlants, SuPasts,
                Noticed, OkMeansDone, InOrder, Straight, AxesDone, Ending
  <2> QED BY <2>1, <2>2, <2>3, <2>4
<1>2. CASE StopSetup
  <2>1. SetupTypeOK'
    BY <1>2 DEF StopSetup, SuLate, SetupTypeOK, SuPasts
  <2>2. InOrder'
    BY <1>2 DEF StopSetup, SuLate, SetupTypeOK, SuPcs, SuAxesPcs, SuPlants, SuPasts,
                InOrder, Straight, AxesDone, Ending
  <2>3. NothingLeft'
    BY <1>2 DEF StopSetup, SuLate, SetupTypeOK, SuPcs, SuAxesPcs, SuPlants, SuPasts,
                NothingLeft, InOrder, Straight
  <2>4. Noticed' /\ OkMeansDone'
    BY <1>2 DEF StopSetup, SuLate, SetupTypeOK, SuPcs, SuAxesPcs, SuPlants, SuPasts,
                Noticed, OkMeansDone, InOrder, Straight, AxesDone, Ending
  <2> QED BY <2>1, <2>2, <2>3, <2>4
<1>3. CASE LatchPurge
  <2>1. SetupTypeOK'
    BY <1>3 DEF LatchPurge, SuLate, SetupTypeOK, SuPasts
  <2>2. InOrder'
    BY <1>3 DEF LatchPurge, SuLate, SetupTypeOK, SuPcs, SuAxesPcs, SuPlants, SuPasts,
                InOrder, Straight, AxesDone, Ending
  <2>3. NothingLeft'
    BY <1>3 DEF LatchPurge, SuLate, SetupTypeOK, SuPcs, SuAxesPcs, SuPlants, SuPasts,
                NothingLeft, InOrder, Straight
  <2>4. Noticed' /\ OkMeansDone'
    BY <1>3 DEF LatchPurge, SuLate, SetupTypeOK, SuPcs, SuAxesPcs, SuPlants, SuPasts,
                Noticed, OkMeansDone, InOrder, Straight, AxesDone, Ending
  <2> QED BY <2>1, <2>2, <2>3, <2>4
<1>4. CASE ResetPurge
  <2>1. SetupTypeOK'
    BY <1>4 DEF ResetPurge, SetupTypeOK, SuPcs
  <2>2. InOrder'
    BY <1>4 DEF ResetPurge, SetupTypeOK, SuPcs, SuAxesPcs, SuPlants, SuPasts,
                InOrder, Straight, AxesDone, Ending
  <2>3. NothingLeft'
    BY <1>4 DEF ResetPurge, SetupTypeOK, SuPcs, SuAxesPcs, SuPlants, SuPasts,
                NothingLeft, InOrder, Straight
  <2>4. Noticed' /\ OkMeansDone'
    BY <1>4 DEF ResetPurge, SetupTypeOK, SuPcs, SuAxesPcs, SuPlants, SuPasts,
                Noticed, OkMeansDone, InOrder, Straight, AxesDone, Ending
  <2> QED BY <2>1, <2>2, <2>3, <2>4
<1>5. CASE MeasureEnds
  <2>1. SetupTypeOK'
    BY <1>5 DEF MeasureEnds, SetupTypeOK, SuPcs, SuAxesPcs, SuPlants, SuPasts
  <2>2. InOrder'
    BY <1>5 DEF MeasureEnds, SetupTypeOK, SuPcs, SuAxesPcs, SuPlants, SuPasts,
                InOrder, Straight, AxesDone, Ending
  <2>3. NothingLeft'
    BY <1>5 DEF MeasureEnds, SetupTypeOK, SuPcs, SuAxesPcs, SuPlants, SuPasts,
                NothingLeft, InOrder, Straight
  <2>4. Noticed' /\ OkMeansDone'
    BY <1>5 DEF MeasureEnds, SetupTypeOK, SuPcs, SuAxesPcs, SuPlants, SuPasts,
                Noticed, OkMeansDone, InOrder, Straight, AxesDone, Ending
  <2> QED BY <2>1, <2>2, <2>3, <2>4
<1>6. CASE AxesThread
  <2>1. SetupTypeOK'
    BY <1>6 DEF AxesThread, AxesStep, SetupTypeOK, SuPcs, SuAxesPcs, SuPlants, SuPasts
  <2>2. InOrder'
    BY <1>6 DEF AxesThread, AxesStep, SetupTypeOK, SuPcs, SuAxesPcs, SuPlants, SuPasts,
                InOrder, Straight, AxesDone, Ending
  <2>3. NothingLeft'
    BY <1>6 DEF AxesThread, AxesStep, SetupTypeOK, SuPcs, SuAxesPcs, SuPlants, SuPasts,
                NothingLeft, InOrder, Straight
  <2>4. Noticed' /\ OkMeansDone'
    BY <1>6 DEF AxesThread, AxesStep, SetupTypeOK, SuPcs, SuAxesPcs, SuPlants, SuPasts,
                Noticed, OkMeansDone, InOrder, Straight, AxesDone, Ending
  <2> QED BY <2>1, <2>2, <2>3, <2>4
<1>7. CASE UNCHANGED suVars
  <2>1. SetupTypeOK'
    BY <1>7 DEF suVars, SetupTypeOK, SuPcs, SuAxesPcs, SuPlants, SuPasts
  <2>2. InOrder'
    BY <1>7 DEF suVars, SetupTypeOK, SuPcs, SuAxesPcs, SuPlants, SuPasts,
                InOrder, Straight, AxesDone, Ending
  <2>3. NothingLeft'
    BY <1>7 DEF suVars, SetupTypeOK, SuPcs, SuAxesPcs, SuPlants, SuPasts,
                NothingLeft, InOrder, Straight
  <2>4. Noticed' /\ OkMeansDone'
    BY <1>7 DEF suVars, SetupTypeOK, SuPcs, SuAxesPcs, SuPlants, SuPasts,
                Noticed, OkMeansDone, InOrder, Straight, AxesDone, Ending
  <2> QED BY <2>1, <2>2, <2>3, <2>4
<1> QED BY <1>1, <1>2, <1>3, <1>4, <1>5, <1>6, <1>7

LEMMA ProcedureKeepsInv ==
  ASSUME SetupIInv, Procedure
  PROVE  SetupIInv'
<1> USE DEF SetupIInv, suAsked, Leave, Handler, NothingElse, SetupActive
<1>1. ASSUME NEW ok \in BOOLEAN, SyncEsp(ok) PROVE SetupIInv'
  <2>1. SetupTypeOK'
    BY <1>1 DEF SyncEsp, SetupTypeOK, SuPcs
  <2>2. InOrder'
    BY <1>1 DEF SyncEsp, SetupTypeOK, SuPcs, SuAxesPcs, SuPlants, SuPasts,
                InOrder, Straight, AxesDone, Ending
  <2>3. NothingLeft'
    BY <1>1 DEF SyncEsp, SetupTypeOK, SuPcs, SuAxesPcs, SuPlants, SuPasts,
                NothingLeft, InOrder, Straight
  <2>4. Noticed' /\ OkMeansDone'
    BY <1>1 DEF SyncEsp, SetupTypeOK, SuPcs, SuAxesPcs, SuPlants, SuPasts,
                Noticed, OkMeansDone, InOrder, Straight, AxesDone, Ending
  <2> QED BY <2>1, <2>2, <2>3, <2>4
<1>2. ASSUME NEW ok \in BOOLEAN, SyncMaster(ok) PROVE SetupIInv'
  <2>1. SetupTypeOK'
    BY <1>2 DEF SyncMaster, SetupTypeOK, SuPcs
  <2>2. InOrder'
    BY <1>2 DEF SyncMaster, SetupTypeOK, SuPcs, SuAxesPcs, SuPlants, SuPasts,
                InOrder, Straight, AxesDone, Ending
  <2>3. NothingLeft'
    BY <1>2 DEF SyncMaster, SetupTypeOK, SuPcs, SuAxesPcs, SuPlants, SuPasts,
                NothingLeft, InOrder, Straight
  <2>4. Noticed' /\ OkMeansDone'
    BY <1>2 DEF SyncMaster, SetupTypeOK, SuPcs, SuAxesPcs, SuPlants, SuPasts,
                Noticed, OkMeansDone, InOrder, Straight, AxesDone, Ending
  <2> QED BY <2>1, <2>2, <2>3, <2>4
<1>3. ASSUME NEW ok \in BOOLEAN, Zero(ok) PROVE SetupIInv'
  <2>1. SetupTypeOK'
    BY <1>3 DEF Zero, SetupTypeOK, SuPcs
  <2>2. InOrder'
    BY <1>3 DEF Zero, SetupTypeOK, SuPcs, SuAxesPcs, SuPlants, SuPasts,
                InOrder, Straight, AxesDone, Ending
  <2>3. NothingLeft'
    BY <1>3 DEF Zero, SetupTypeOK, SuPcs, SuAxesPcs, SuPlants, SuPasts,
                NothingLeft, InOrder, Straight
  <2>4. Noticed' /\ OkMeansDone'
    BY <1>3 DEF Zero, SetupTypeOK, SuPcs, SuAxesPcs, SuPlants, SuPasts,
                Noticed, OkMeansDone, InOrder, Straight, AxesDone, Ending
  <2> QED BY <2>1, <2>2, <2>3, <2>4
<1>4. ASSUME NEW ok \in BOOLEAN, Poll(ok) PROVE SetupIInv'
  <2>1. SetupTypeOK'
    BY <1>4 DEF Poll, SetupTypeOK, SuPcs, SuAxesPcs, SuPlants, SuPasts
  <2>2. InOrder'
    BY <1>4 DEF Poll, SetupTypeOK, SuPcs, SuAxesPcs, SuPlants, SuPasts,
                InOrder, Straight, AxesDone, Ending
  <2>3. NothingLeft'
    BY <1>4 DEF Poll, SetupTypeOK, SuPcs, SuAxesPcs, SuPlants, SuPasts,
                NothingLeft, InOrder, Straight
  <2>4. Noticed' /\ OkMeansDone'
    BY <1>4 DEF Poll, SetupTypeOK, SuPcs, SuAxesPcs, SuPlants, SuPasts,
                Noticed, OkMeansDone, InOrder, Straight, AxesDone, Ending
  <2> QED BY <2>1, <2>2, <2>3, <2>4
<1>5. ASSUME NEW ok \in BOOLEAN, Sea(ok) PROVE SetupIInv'
  <2>1. SetupTypeOK'
    BY <1>5 DEF Sea, SetupTypeOK, SuPcs
  <2>2. InOrder'
    BY <1>5 DEF Sea, SetupTypeOK, SuPcs, SuAxesPcs, SuPlants, SuPasts,
                InOrder, Straight, AxesDone, Ending
  <2>3. NothingLeft'
    BY <1>5 DEF Sea, SetupTypeOK, SuPcs, SuAxesPcs, SuPlants, SuPasts,
                NothingLeft, InOrder, Straight
  <2>4. Noticed' /\ OkMeansDone'
    BY <1>5 DEF Sea, SetupTypeOK, SuPcs, SuAxesPcs, SuPlants, SuPasts,
                Noticed, OkMeansDone, InOrder, Straight, AxesDone, Ending
  <2> QED BY <2>1, <2>2, <2>3, <2>4
<1>6. ASSUME NEW ok \in BOOLEAN, Baseline(ok) PROVE SetupIInv'
  <2>1. SetupTypeOK'
    BY <1>6 DEF Baseline, SetupTypeOK, SuPcs
  <2>2. InOrder'
    BY <1>6 DEF Baseline, SetupTypeOK, SuPcs, SuAxesPcs, SuPlants, SuPasts,
                InOrder, Straight, AxesDone, Ending
  <2>3. NothingLeft'
    BY <1>6 DEF Baseline, SetupTypeOK, SuPcs, SuAxesPcs, SuPlants, SuPasts,
                NothingLeft, InOrder, Straight
  <2>4. Noticed' /\ OkMeansDone'
    BY <1>6 DEF Baseline, SetupTypeOK, SuPcs, SuAxesPcs, SuPlants, SuPasts,
                Noticed, OkMeansDone, InOrder, Straight, AxesDone, Ending
  <2> QED BY <2>1, <2>2, <2>3, <2>4
<1>7. ASSUME NEW ok \in BOOLEAN, AfterSetup(ok) PROVE SetupIInv'
  <2>1. SetupTypeOK'
    BY <1>7 DEF AfterSetup, SetupTypeOK, SuPcs, SuAxesPcs, SuPlants, SuPasts
  <2>2. InOrder'
    BY <1>7 DEF AfterSetup, SetupTypeOK, SuPcs, SuAxesPcs, SuPlants, SuPasts,
                InOrder, Straight, AxesDone, Ending
  <2>3. NothingLeft'
    BY <1>7 DEF AfterSetup, SetupTypeOK, SuPcs, SuAxesPcs, SuPlants, SuPasts,
                NothingLeft, InOrder, Straight
  <2>4. Noticed' /\ OkMeansDone'
    BY <1>7 DEF AfterSetup, SetupTypeOK, SuPcs, SuAxesPcs, SuPlants, SuPasts,
                Noticed, OkMeansDone, InOrder, Straight, AxesDone, Ending
  <2> QED BY <2>1, <2>2, <2>3, <2>4
<1>8. ASSUME NEW ok \in BOOLEAN, NEW done \in SUBSET SuWicklers, ResetWicklers(ok, done)
      PROVE  SetupIInv'
  <2>1. SetupTypeOK'
    BY <1>8 DEF ResetWicklers, SetupTypeOK, SuPcs, SuAxesPcs, SuPlants, SuPasts
  <2>2. InOrder'
    BY <1>8 DEF ResetWicklers, SetupTypeOK, SuPcs, SuAxesPcs, SuPlants, SuPasts,
                InOrder, Straight, AxesDone, Ending
  <2>3. NothingLeft'
    BY <1>8 DEF ResetWicklers, SetupTypeOK, SuPcs, SuAxesPcs, SuPlants, SuPasts,
                NothingLeft, InOrder, Straight
  <2>4. Noticed' /\ OkMeansDone'
    BY <1>8 DEF ResetWicklers, SetupTypeOK, SuPcs, SuAxesPcs, SuPlants, SuPasts,
                Noticed, OkMeansDone, InOrder, Straight, AxesDone, Ending
  <2> QED BY <2>1, <2>2, <2>3, <2>4
<1>9. ASSUME NEW ok \in BOOLEAN, NEW done \in SUBSET SuWicklers, Calibrate(ok, done)
      PROVE  SetupIInv'
  <2>1. SetupTypeOK'
    BY <1>9 DEF Calibrate, SetupTypeOK, SuPcs, SuAxesPcs, SuPlants, SuPasts
  <2>2. InOrder'
    BY <1>9 DEF Calibrate, SetupTypeOK, SuPcs, SuAxesPcs, SuPlants, SuPasts,
                InOrder, Straight, AxesDone, Ending
  <2>3. NothingLeft'
    BY <1>9 DEF Calibrate, SetupTypeOK, SuPcs, SuAxesPcs, SuPlants, SuPasts,
                NothingLeft, InOrder, Straight
  <2>4. Noticed' /\ OkMeansDone'
    BY <1>9 DEF Calibrate, SetupTypeOK, SuPcs, SuAxesPcs, SuPlants, SuPasts,
                Noticed, OkMeansDone, InOrder, Straight, AxesDone, Ending
  <2> QED BY <2>1, <2>2, <2>3, <2>4
<1>10. ASSUME NEW ok \in BOOLEAN, NEW done \in SUBSET SuWicklers, StartLearning(ok, done)
       PROVE  SetupIInv'
  <2>1. SetupTypeOK'
    BY <1>10 DEF StartLearning, SetupTypeOK, SuPcs, SuAxesPcs, SuPlants, SuPasts
  <2>2. InOrder'
    BY <1>10 DEF StartLearning, SetupTypeOK, SuPcs, SuAxesPcs, SuPlants, SuPasts,
                InOrder, Straight, AxesDone, Ending
  <2>3. NothingLeft'
    BY <1>10 DEF StartLearning, SetupTypeOK, SuPcs, SuAxesPcs, SuPlants, SuPasts,
                NothingLeft, InOrder, Straight
  <2>4. Noticed' /\ OkMeansDone'
    BY <1>10 DEF StartLearning, SetupTypeOK, SuPcs, SuAxesPcs, SuPlants, SuPasts,
                Noticed, OkMeansDone, InOrder, Straight, AxesDone, Ending
  <2> QED BY <2>1, <2>2, <2>3, <2>4
<1>11. ASSUME NEW ok \in BOOLEAN, NEW done \in SUBSET SuWicklers, Lead(ok, done)
       PROVE  SetupIInv'
  <2>1. SetupTypeOK'
    BY <1>11 DEF Lead, SetupTypeOK, SuPcs, SuAxesPcs, SuPlants, SuPasts
  <2>2. InOrder'
    BY <1>11 DEF Lead, SetupTypeOK, SuPcs, SuAxesPcs, SuPlants, SuPasts,
                InOrder, Straight, AxesDone, Ending
  <2>3. NothingLeft'
    BY <1>11 DEF Lead, SetupTypeOK, SuPcs, SuAxesPcs, SuPlants, SuPasts,
                NothingLeft, InOrder, Straight
  <2>4. Noticed' /\ OkMeansDone'
    BY <1>11 DEF Lead, SetupTypeOK, SuPcs, SuAxesPcs, SuPlants, SuPasts,
                Noticed, OkMeansDone, InOrder, Straight, AxesDone, Ending
  <2> QED BY <2>1, <2>2, <2>3, <2>4
<1>12. ASSUME NEW ok \in BOOLEAN, NEW done \in SUBSET SuWicklers, ApplyDiameters(ok, done)
       PROVE  SetupIInv'
  <2>1. SetupTypeOK'
    BY <1>12 DEF ApplyDiameters, SetupTypeOK, SuPcs, SuAxesPcs, SuPlants, SuPasts
  <2>2. InOrder'
    BY <1>12 DEF ApplyDiameters, SetupTypeOK, SuPcs, SuAxesPcs, SuPlants, SuPasts,
                InOrder, Straight, AxesDone, Ending
  <2>3. NothingLeft'
    BY <1>12 DEF ApplyDiameters, SetupTypeOK, SuPcs, SuAxesPcs, SuPlants, SuPasts,
                NothingLeft, InOrder, Straight
  <2>4. Noticed' /\ OkMeansDone'
    BY <1>12 DEF ApplyDiameters, SetupTypeOK, SuPcs, SuAxesPcs, SuPlants, SuPasts,
                Noticed, OkMeansDone, InOrder, Straight, AxesDone, Ending
  <2> QED BY <2>1, <2>2, <2>3, <2>4
<1>13. ASSUME NEW ok \in BOOLEAN, NEW done \in SUBSET SuWicklers, FinalRelease(ok, done)
       PROVE  SetupIInv'
  <2>1. SetupTypeOK'
    BY <1>13 DEF FinalRelease, SetupTypeOK, SuPcs, SuAxesPcs, SuPlants, SuPasts
  <2>2. InOrder'
    BY <1>13 DEF FinalRelease, SetupTypeOK, SuPcs, SuAxesPcs, SuPlants, SuPasts,
                InOrder, Straight, AxesDone, Ending
  <2>3. NothingLeft'
    BY <1>13 DEF FinalRelease, SetupTypeOK, SuPcs, SuAxesPcs, SuPlants, SuPasts,
                NothingLeft, InOrder, Straight
  <2>4. Noticed' /\ OkMeansDone'
    BY <1>13 DEF FinalRelease, SetupTypeOK, SuPcs, SuAxesPcs, SuPlants, SuPasts,
                Noticed, OkMeansDone, InOrder, Straight, AxesDone, Ending
  <2> QED BY <2>1, <2>2, <2>3, <2>4
<1>14. ASSUME NEW ok \in BOOLEAN, NEW done \in SUBSET SuWicklers, Unlead(done, ok)
       PROVE  SetupIInv'
  <2>1. SetupTypeOK'
    BY <1>14 DEF Unlead, Missed, SetupTypeOK, SuPcs, SuAxesPcs, SuPlants, SuPasts
  <2>2. InOrder'
    BY <1>14 DEF Unlead, Missed, SetupTypeOK, SuPcs, SuAxesPcs, SuPlants, SuPasts,
                InOrder, Straight, AxesDone, Ending
  <2>3. NothingLeft'
    BY <1>14 DEF Unlead, Missed, SetupTypeOK, SuPcs, SuAxesPcs, SuPlants, SuPasts,
                NothingLeft, InOrder, Straight
  <2>4. Noticed' /\ OkMeansDone'
    BY <1>14 DEF Unlead, Missed, SetupTypeOK, SuPcs, SuAxesPcs, SuPlants, SuPasts,
                Noticed, OkMeansDone, InOrder, Straight, AxesDone, Ending
  <2> QED BY <2>1, <2>2, <2>3, <2>4
<1>15. ASSUME NEW ok \in BOOLEAN, NEW done \in SUBSET SuWicklers, StopAll(ok, done)
       PROVE  SetupIInv'
  <2>1. SetupTypeOK'
    BY <1>15 DEF StopAll, Missed, SetupTypeOK, SuPcs, SuAxesPcs, SuPlants, SuPasts
  <2>2. InOrder'
    BY <1>15 DEF StopAll, Missed, SetupTypeOK, SuPcs, SuAxesPcs, SuPlants, SuPasts,
                InOrder, Straight, AxesDone, Ending
  <2>3. NothingLeft'
    BY <1>15 DEF StopAll, Missed, SetupTypeOK, SuPcs, SuAxesPcs, SuPlants, SuPasts,
                NothingLeft, InOrder, Straight
  <2>4. Noticed' /\ OkMeansDone'
    BY <1>15 DEF StopAll, Missed, SetupTypeOK, SuPcs, SuAxesPcs, SuPlants, SuPasts,
                Noticed, OkMeansDone, InOrder, Straight, AxesDone, Ending
  <2> QED BY <2>1, <2>2, <2>3, <2>4
<1>16. ASSUME NEW ok \in BOOLEAN, NEW on \in BOOLEAN, Teach(ok, on) PROVE SetupIInv'
  <2>1. SetupTypeOK'
    BY <1>16 DEF Teach, SetupTypeOK, SuPcs, SuAxesPcs, SuPlants, SuPasts
  <2>2. InOrder'
    BY <1>16 DEF Teach, SetupTypeOK, SuPcs, SuAxesPcs, SuPlants, SuPasts,
                InOrder, Straight, AxesDone, Ending
  <2>3. NothingLeft'
    BY <1>16 DEF Teach, SetupTypeOK, SuPcs, SuAxesPcs, SuPlants, SuPasts,
                NothingLeft, InOrder, Straight
  <2>4. Noticed' /\ OkMeansDone'
    BY <1>16 DEF Teach, SetupTypeOK, SuPcs, SuAxesPcs, SuPlants, SuPasts,
                Noticed, OkMeansDone, InOrder, Straight, AxesDone, Ending
  <2> QED BY <2>1, <2>2, <2>3, <2>4
<1>17. ASSUME NEW ok \in BOOLEAN, NEW on \in BOOLEAN, StartMeasure(ok, on) PROVE SetupIInv'
  <2>1. SetupTypeOK'
    BY <1>17 DEF StartMeasure, SetupTypeOK, SuPcs, SuAxesPcs, SuPlants, SuPasts
  <2>2. InOrder'
    BY <1>17 DEF StartMeasure, SetupTypeOK, SuPcs, SuAxesPcs, SuPlants, SuPasts,
                InOrder, Straight, AxesDone, Ending
  <2>3. NothingLeft'
    BY <1>17 DEF StartMeasure, SetupTypeOK, SuPcs, SuAxesPcs, SuPlants, SuPasts,
                NothingLeft, InOrder, Straight
  <2>4. Noticed' /\ OkMeansDone'
    BY <1>17 DEF StartMeasure, SetupTypeOK, SuPcs, SuAxesPcs, SuPlants, SuPasts,
                Noticed, OkMeansDone, InOrder, Straight, AxesDone, Ending
  <2> QED BY <2>1, <2>2, <2>3, <2>4
<1>18. ASSUME NEW told \in SUBSET SuWicklers, CancelLearning(told) PROVE SetupIInv'
  <2>1. SetupTypeOK'
    BY <1>18 DEF CancelLearning, SetupTypeOK, SuPcs, SuAxesPcs, SuPlants, SuPasts
  <2>2. InOrder'
    BY <1>18 DEF CancelLearning, SetupTypeOK, SuPcs, SuAxesPcs, SuPlants, SuPasts,
                InOrder, Straight, AxesDone, Ending
  <2>3. NothingLeft'
    BY <1>18 DEF CancelLearning, SetupTypeOK, SuPcs, SuAxesPcs, SuPlants, SuPasts,
                NothingLeft, InOrder, Straight
  <2>4. Noticed' /\ OkMeansDone'
    BY <1>18 DEF CancelLearning, SetupTypeOK, SuPcs, SuAxesPcs, SuPlants, SuPasts,
                Noticed, OkMeansDone, InOrder, Straight, AxesDone, Ending
  <2> QED BY <2>1, <2>2, <2>3, <2>4
<1>19. CASE AwaitAxes
  <2>1. SetupTypeOK'
    BY <1>19 DEF AwaitAxes, AxesEnded, SetupTypeOK, SuPcs, SuAxesPcs, SuPlants, SuPasts
  <2>2. InOrder'
    BY <1>19 DEF AwaitAxes, AxesEnded, SetupTypeOK, SuPcs, SuAxesPcs, SuPlants, SuPasts,
                InOrder, Straight, AxesDone, Ending
  <2>3. NothingLeft'
    BY <1>19 DEF AwaitAxes, AxesEnded, SetupTypeOK, SuPcs, SuAxesPcs, SuPlants, SuPasts,
                NothingLeft, InOrder, Straight
  <2>4. Noticed' /\ OkMeansDone'
    BY <1>19 DEF AwaitAxes, AxesEnded, SetupTypeOK, SuPcs, SuAxesPcs, SuPlants, SuPasts,
                Noticed, OkMeansDone, InOrder, Straight, AxesDone, Ending
  <2> QED BY <2>1, <2>2, <2>3, <2>4
<1>20. CASE ClearLatches
  <2>1. SetupTypeOK'
    BY <1>20 DEF ClearLatches, SetupTypeOK, SuPcs, SuAxesPcs, SuPlants, SuPasts
  <2>2. InOrder'
    BY <1>20 DEF ClearLatches, SetupTypeOK, SuPcs, SuAxesPcs, SuPlants, SuPasts,
                InOrder, Straight, AxesDone, Ending
  <2>3. NothingLeft'
    BY <1>20 DEF ClearLatches, SetupTypeOK, SuPcs, SuAxesPcs, SuPlants, SuPasts,
                NothingLeft, InOrder, Straight
  <2>4. Noticed' /\ OkMeansDone'
    BY <1>20 DEF ClearLatches, SetupTypeOK, SuPcs, SuAxesPcs, SuPlants, SuPasts,
                Noticed, OkMeansDone, InOrder, Straight, AxesDone, Ending
  <2> QED BY <2>1, <2>2, <2>3, <2>4
<1>21. CASE Joined
  <2>1. SetupTypeOK'
    BY <1>21 DEF Joined, AxesEnded, SetupTypeOK, SuPcs, SuAxesPcs, SuPlants, SuPasts
  <2>2. InOrder'
    BY <1>21 DEF Joined, AxesEnded, SetupTypeOK, SuPcs, SuAxesPcs, SuPlants, SuPasts,
                InOrder, Straight, AxesDone, Ending
  <2>3. NothingLeft'
    BY <1>21 DEF Joined, AxesEnded, SetupTypeOK, SuPcs, SuAxesPcs, SuPlants, SuPasts,
                NothingLeft, InOrder, Straight
  <2>4. Noticed' /\ OkMeansDone'
    BY <1>21 DEF Joined, AxesEnded, SetupTypeOK, SuPcs, SuAxesPcs, SuPlants, SuPasts,
                Noticed, OkMeansDone, InOrder, Straight, AxesDone, Ending
  <2> QED BY <2>1, <2>2, <2>3, <2>4
<1> HIDE DEF SetupIInv
<1> QED BY <1>1, <1>2, <1>3, <1>4, <1>5, <1>6, <1>7, <1>8, <1>9, <1>10, <1>11, <1>12, <1>13,
           <1>14, <1>15, <1>16, <1>17, <1>18, <1>19, <1>20, <1>21 DEF Procedure

\* Setup: a measuring run begins with everything in place, a setup that ends leaves nothing
\* going that was not missed, and one that ends well has done all it should.
THEOREM SetupCorrect == SetupSpec => []SetupInv
<1>1. SetupIInv /\ [SetupNext]_suVars => SetupIInv'
  BY AroundKeepsInv, ProcedureKeepsInv DEF SetupNext
<1>2. SetupIInv => SetupInv
  BY DEF SetupIInv, InOrder, NothingLeft, AxesDone, SetupInv, MeasuresInPlace, LeavesNothing
<1> QED BY SetupStarts, <1>1, <1>2, PTL DEF SetupSpec

=============================================================================
