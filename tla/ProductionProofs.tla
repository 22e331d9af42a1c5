------------------------------ MODULE ProductionProofs ----------------------
(* Theorems about the parts of production that module MCProduction composes.  *)
EXTENDS MCProduction, SequenceTheorems, TLAPS

-----------------------------------------------------------------------------
(* The removal of a label (module Removal)                                 *)

RmHands == [at : {"idle", "copy", "paused", "stop", "plan", "rewind", "write"}, label : RmLabels,
          control : BOOLEAN, paused : BOOLEAN, copy : RmRows, rewound : BOOLEAN, ok : BOOLEAN]
RmResumes == [at : {"idle", "mark", "commit", "final"}, copy : RmRows]

\* A row without the pause has no labels but in a fault.
RunIsEmpty == rmRow.mode = "run" => rmRow = RunRow

\* A rewind is in the row, or in the hands of the thread that is about to write it.
RewindKnown ==
  ~rmStale => \A h \in RmThreads, l \in RmLabels :
    rmRewinds[h][l] = 0 \/ rmRow.labels[l] = "rewound"
      \/ (rmHandler[h].at = "write" /\ rmHandler[h].rewound /\ rmHandler[h].label = l)

\* A thread goes to the rewind only with a label it has not brought back.
RewindNew ==
  ~rmStale => \A h \in RmThreads :
    /\ rmHandler[h].at \in {"copy", "stop", "plan", "rewind"}
         => rmRewinds[h][rmHandler[h].label] = 0
    /\ rmHandler[h].at = "paused" =>
         rmRewinds[h][rmHandler[h].label] = 0
           \/ rmHandler[h].copy.labels[rmHandler[h].label] = "rewound"

\* What a thread is about to write tells of its own rewind.
WriteTells ==
  ~rmStale => \A h \in RmThreads :
    rmHandler[h].at = "write" =>
      rmRewinds[h][rmHandler[h].label] = 0 \/ rmHandler[h].rewound
        \/ rmHandler[h].copy.labels[rmHandler[h].label] = "rewound"

RemovalIInv == RemovalInv /\ RunIsEmpty /\ RewindKnown /\ RewindNew /\ WriteTells

LEMMA RemovalRows ==
  /\ RunRow \in RmRows /\ RmNone \in RmLabels
  /\ RunRow.mode = "run" /\ RunRow.labels = [l \in RmLabels |-> "none"]
  /\ \A row \in RmRows : NoRmWork(row) \in RmHands /\ NoRmWork(row).at = "idle"
BY RemovalAssumption DEF RunRow, NoLabels, RmRows, Asked, RmNone, NoRmWork, RmHands

LEMMA RemovalTyped ==
  RemovalTypeOK <=>
    /\ rmRow \in RmRows /\ rmEvents \in [RmLabels -> Nat]
    /\ rmHandler \in [RmThreads -> RmHands] /\ rmResume \in RmResumes
    /\ rmRunner \in BOOLEAN /\ rmStale \in BOOLEAN /\ rmResumes \in 0 .. MaxResumes
    /\ rmRewinds \in [RmThreads -> [RmLabels -> Nat]]
BY DEF RemovalTypeOK, RmHands, RmResumes

LEMMA RemovalStarts == RemovalInit => RemovalIInv
<1> SUFFICES ASSUME RemovalInit PROVE RemovalIInv
  OBVIOUS
<1>1. RemovalTypeOK
  <2>1. rmHandler \in [RmThreads -> RmHands] /\ rmResume \in RmResumes
    BY RemovalRows DEF RemovalInit, NoResume, RmResumes
  <2>2. rmEvents \in [RmLabels -> Nat] /\ rmRewinds \in [RmThreads -> [RmLabels -> Nat]]
    BY DEF RemovalInit, NoRewinds
  <2>3. rmRow \in RmRows /\ rmResumes \in 0 .. MaxResumes
    BY RemovalRows, RemovalAssumption DEF RemovalInit
  <2> QED BY <2>1, <2>2, <2>3, RemovalTyped DEF RemovalInit
<1>2. PauseCanEnd /\ RewoundOnce /\ RunIsEmpty
  BY RemovalRows DEF RemovalInit, PauseCanEnd, RewoundOnce, RunIsEmpty, NoResume, NoRewinds
<1>3. RewindKnown /\ RewindNew /\ WriteTells
  BY RemovalRows DEF RemovalInit, NoRewinds, RewindKnown, RewindNew, WriteTells
<1> QED BY <1>1, <1>2, <1>3 DEF RemovalIInv, RemovalInv

\* The steps of a handler that leave row and resume alone.
LEMMA HandlerKeepsInv ==
  ASSUME RemovalIInv, NEW h \in RmThreads,
         \/ \E l \in RmLabels, control \in BOOLEAN : TakeRemoval(h, l, control)
         \/ CopyRow(h) \/ LookPaused(h)
         \/ \E ok \in BOOLEAN : StopForRemoval(h, ok)
         \/ \E answer \in {"refused", "nothing", "planned"} : PlanRewind(h, answer)
  PROVE  RemovalIInv'
<1> USE DEF RemovalIInv, RemovalInv, RmAt, RmGo
<1>0. /\ rmRow \in RmRows /\ rmHandler \in [RmThreads -> RmHands]
      /\ rmRewinds \in [RmThreads -> [RmLabels -> Nat]]
  BY RemovalTyped
<1>1. ASSUME NEW w \in RmHands, rmHandler' = [rmHandler EXCEPT ![h] = w],
             UNCHANGED <<rmRow, rmRewinds, rmStale, rmResume, rmResumes>>,
             rmRunner' \in BOOLEAN, rmEvents' \in [RmLabels -> Nat],
             rmHandler[h].at # "write",
             ~rmStale => /\ w.at \in {"copy", "stop", "plan", "rewind"} => rmRewinds[h][w.label] = 0
                         /\ w.at \in {"paused", "write"} =>
                              rmRewinds[h][w.label] = 0 \/ w.copy.labels[w.label] = "rewound"
      PROVE  RemovalIInv'
  <2>1. rmHandler' \in [RmThreads -> RmHands] /\ rmHandler'[h] = w
        /\ \A k \in RmThreads : k # h => rmHandler'[k] = rmHandler[k]
    BY <1>0, <1>1
  <2>2. RemovalTypeOK'
    BY <1>0, <1>1, <2>1, RemovalTyped DEF RemovalTypeOK, RmHands
  <2>3. PauseCanEnd' /\ RewoundOnce' /\ RunIsEmpty'
    BY <1>1 DEF PauseCanEnd, RewoundOnce, RunIsEmpty, Requested
  <2>4. RewindKnown'
    BY <1>0, <1>1, <2>1 DEF RewindKnown
  <2>5. RewindNew' /\ WriteTells'
    BY <1>0, <1>1, <2>1 DEF RewindNew, WriteTells
  <2> QED BY <2>2, <2>3, <2>4, <2>5
<1>2. ASSUME NEW l \in RmLabels, NEW control \in BOOLEAN, TakeRemoval(h, l, control) PROVE RemovalIInv'
  <2> DEFINE w == [NoRmWork(rmRow) EXCEPT
                     !.at = IF rmRow.mode = "run" THEN "copy" ELSE "paused",
                     !.paused = rmRow.mode = "pause", !.label = l, !.control = control]
  <2>1. /\ w \in RmHands /\ w.label = l /\ w.copy = rmRow
        /\ w.at = IF rmRow.mode = "run" THEN "copy" ELSE "paused"
    BY <1>0, RemovalRows DEF NoRmWork, RmHands
  <2>2. rmHandler[h].at = "idle" /\ rmHandler' = [rmHandler EXCEPT ![h] = w]
    BY <1>2 DEF TakeRemoval
  <2>3. ~rmStale => rmRewinds[h][l] = 0 \/ rmRow.labels[l] = "rewound"
    BY <2>2 DEF RewindKnown
  <2>4. rmRow.mode = "run" => rmRow.labels[l] = "none"
    BY RemovalRows DEF RunIsEmpty
  <2>5. rmEvents' \in [RmLabels -> Nat]
    <3>1. rmEvents \in [RmLabels -> Nat] /\ rmEvents' = [rmEvents EXCEPT ![l] = @ + 1]
      BY <1>2, RemovalTyped DEF TakeRemoval
    <3> QED BY <3>1
  <2> HIDE DEF w
  <2> QED BY <1>1, <1>2, <2>1, <2>2, <2>3, <2>4, <2>5 DEF TakeRemoval, RemovalTypeOK
<1>3. CASE CopyRow(h)
  <2> DEFINE w == [rmHandler[h] EXCEPT !.at = "stop", !.copy = rmRow]
  <2>1. w \in RmHands /\ w.at = "stop" /\ w.label = rmHandler[h].label
    BY <1>0 DEF RmHands
  <2>2. rmHandler[h].at = "copy" /\ rmHandler' = [rmHandler EXCEPT ![h] = w]
    BY <1>0, <1>3 DEF CopyRow
  <2>3. ~rmStale => rmRewinds[h][w.label] = 0
    BY <2>1, <2>2 DEF RewindNew
  <2> HIDE DEF w
  <2> QED BY <1>1, <1>3, <2>1, <2>2, <2>3 DEF CopyRow, RemovalTypeOK
<1>4. CASE LookPaused(h)
  <2> DEFINE old == rmHandler[h]
             w == [old EXCEPT !.at = IF old.control /\ old.copy.labels[old.label] # "rewound"
                                     THEN "plan" ELSE "write"]
  <2>1. /\ w \in RmHands /\ w.label = old.label /\ w.copy = old.copy
        /\ w.at \in {"plan", "write"}
        /\ w.at = "plan" => old.copy.labels[old.label] # "rewound"
    BY <1>0 DEF RmHands
  <2>2. old.at = "paused" /\ rmHandler' = [rmHandler EXCEPT ![h] = w]
    BY <1>0, <1>4 DEF LookPaused
  <2>3. ~rmStale => rmRewinds[h][old.label] = 0 \/ old.copy.labels[old.label] = "rewound"
    BY <2>2 DEF RewindNew
  <2> HIDE DEF w
  <2> QED BY <1>1, <1>4, <2>1, <2>2, <2>3 DEF LookPaused, RemovalTypeOK
<1>5. ASSUME NEW ok \in BOOLEAN, StopForRemoval(h, ok) PROVE RemovalIInv'
  <2> DEFINE old == rmHandler[h]
             w == [old EXCEPT !.at = IF ok THEN AfterStop(old) ELSE "write", !.ok = ok]
  <2>1. w \in RmHands /\ w.label = old.label /\ w.at \in {"plan", "write"}
    BY <1>0 DEF RmHands, AfterStop
  <2>2. old.at = "stop" /\ rmHandler' = [rmHandler EXCEPT ![h] = w]
    BY <1>0, <1>5 DEF StopForRemoval
  <2>3. ~rmStale => rmRewinds[h][old.label] = 0
    BY <2>2 DEF RewindNew
  <2>4. rmRunner' \in BOOLEAN
    BY <1>5 DEF StopForRemoval, RemovalTypeOK
  <2> HIDE DEF w
  <2> QED BY <1>1, <1>5, <2>1, <2>2, <2>3, <2>4 DEF StopForRemoval, RemovalTypeOK
<1>6. ASSUME NEW answer \in {"refused", "nothing", "planned"}, PlanRewind(h, answer) PROVE RemovalIInv'
  <2> DEFINE old == rmHandler[h]
             w == [old EXCEPT !.at = IF answer = "planned" THEN "rewind" ELSE "write",
                              !.ok = answer # "refused"]
  <2>1. w \in RmHands /\ w.label = old.label /\ w.at \in {"rewind", "write"}
    BY <1>0 DEF RmHands
  <2>2. old.at = "plan" /\ rmHandler' = [rmHandler EXCEPT ![h] = w]
    BY <1>0, <1>6 DEF PlanRewind
  <2>3. ~rmStale => rmRewinds[h][old.label] = 0
    BY <2>2 DEF RewindNew
  <2> HIDE DEF w
  <2> QED BY <1>1, <1>6, <2>1, <2>2, <2>3 DEF PlanRewind, RemovalTypeOK
<1> HIDE DEF RemovalIInv
<1> QED BY <1>2, <1>3, <1>4, <1>5, <1>6

\* The rewind and the write of the row.
LEMMA RewindKeepsInv ==
  ASSUME RemovalIInv, NEW h \in RmThreads, NEW ok \in BOOLEAN, Rewind(h, ok)
  PROVE  RemovalIInv'
<1> USE DEF RemovalIInv, RemovalInv, RmAt
<1> DEFINE old == rmHandler[h]
           w == [old EXCEPT !.at = "write", !.ok = ok, !.rewound = TRUE]
<1>0. /\ rmHandler \in [RmThreads -> RmHands] /\ rmRewinds \in [RmThreads -> [RmLabels -> Nat]]
      /\ old \in RmHands /\ old.label \in RmLabels
  BY RemovalTyped DEF RmHands
<1>1. w \in RmHands /\ w.at = "write" /\ w.rewound /\ w.label = old.label
  BY <1>0 DEF RmHands
<1>2. /\ old.at = "rewind" /\ rmHandler' = [rmHandler EXCEPT ![h] = w]
      /\ rmRewinds' = [rmRewinds EXCEPT ![h][old.label] = @ + 1]
      /\ UNCHANGED <<rmRow, rmEvents, rmResume, rmRunner, rmStale, rmResumes>>
  BY <1>0 DEF Rewind
<1> HIDE DEF w
<1>3. /\ rmHandler' \in [RmThreads -> RmHands] /\ rmHandler'[h] = w
      /\ \A k \in RmThreads : k # h => rmHandler'[k] = rmHandler[k]
  BY <1>0, <1>1, <1>2
<1>4. /\ rmRewinds' \in [RmThreads -> [RmLabels -> Nat]]
      /\ rmRewinds'[h][old.label] = rmRewinds[h][old.label] + 1
      /\ \A k \in RmThreads, l \in RmLabels :
           k # h \/ l # old.label => rmRewinds'[k][l] = rmRewinds[k][l]
  BY <1>0, <1>2
<1>5. ~rmStale => rmRewinds[h][old.label] = 0
  BY <1>2 DEF RewindNew
<1>6. RemovalTypeOK'
  BY <1>2, <1>3, <1>4, RemovalTyped DEF RemovalTypeOK, RmHands
<1>7. PauseCanEnd' /\ RunIsEmpty'
  BY <1>2 DEF PauseCanEnd, RunIsEmpty, Requested
<1>8. RewoundOnce'
  BY <1>0, <1>2, <1>4, <1>5 DEF RewoundOnce
<1>9. RewindKnown' /\ RewindNew' /\ WriteTells'
  BY <1>0, <1>1, <1>2, <1>3, <1>4, <1>5 DEF RewindKnown, RewindNew, WriteTells, RmHands
<1> QED BY <1>6, <1>7, <1>8, <1>9

LEMMA WriteKeepsInv ==
  ASSUME RemovalIInv, NEW h \in RmThreads, WriteRequest(h)
  PROVE  RemovalIInv'
<1> USE DEF RemovalIInv, RemovalInv, RmAt
<1> DEFINE w == rmHandler[h]
           labels == [w.copy.labels EXCEPT ![w.label] = Merged(@, w.rewound)]
<1>0. /\ rmHandler \in [RmThreads -> RmHands] /\ rmRewinds \in [RmThreads -> [RmLabels -> Nat]]
      /\ w \in RmHands /\ w.label \in RmLabels /\ w.copy \in RmRows
      /\ w.copy.labels \in [RmLabels -> Asked] /\ rmRow \in RmRows
  BY RemovalTyped DEF RmHands, RmRows
<1>1. /\ w.at = "write" /\ rmRow' = [mode |-> IF w.ok \/ w.paused THEN "pause" ELSE "fault",
                                     labels |-> labels]
      /\ rmStale' = (rmStale \/ rmRow # w.copy \/ rmResume.at = "commit")
      /\ rmHandler' = [rmHandler EXCEPT ![h] = NoRmWork(RunRow)]
      /\ UNCHANGED <<rmEvents, rmResume, rmRunner, rmRewinds, rmResumes>>
  BY DEF WriteRequest
<1>2. /\ labels \in [RmLabels -> Asked] /\ labels[w.label] \in {"asked", "rewound"}
      /\ (w.rewound \/ w.copy.labels[w.label] = "rewound" => labels[w.label] = "rewound")
      /\ \A l \in RmLabels : l # w.label => labels[l] = w.copy.labels[l]
  BY <1>0 DEF Merged, Asked
<1> HIDE DEF labels
<1>3. /\ rmHandler' \in [RmThreads -> RmHands] /\ rmHandler'[h].at = "idle"
      /\ \A k \in RmThreads : k # h => rmHandler'[k] = rmHandler[k]
  BY <1>0, <1>1, RemovalRows
<1>4. rmRow' \in RmRows /\ rmRow'.mode # "run" /\ rmRow'.labels = labels
  BY <1>1, <1>2 DEF RmRows
<1>5. RemovalTypeOK'
  BY <1>1, <1>3, <1>4, RemovalTyped DEF RemovalTypeOK, RmHands
<1>6. PauseCanEnd' /\ RewoundOnce' /\ RunIsEmpty'
  BY <1>0, <1>1, <1>2, <1>4 DEF PauseCanEnd, RewoundOnce, RunIsEmpty, Requested
<1>7. ~rmStale' => ~rmStale /\ w.copy = rmRow
  BY <1>0, <1>1 DEF RemovalTypeOK
<1>8. RewindKnown'
  BY <1>0, <1>1, <1>2, <1>3, <1>4, <1>7 DEF RewindKnown, WriteTells
<1>9. RewindNew' /\ WriteTells'
  BY <1>0, <1>1, <1>3, <1>7 DEF RewindNew, WriteTells
<1> QED BY <1>5, <1>6, <1>8, <1>9

\* The resume.
LEMMA ResumeKeepsInv ==
  ASSUME RemovalIInv, ResumeBegin \/ ResumeFails \/ ResumeRun \/ FinalWrite
               \/ \E blocked \in BOOLEAN : ResumeCommit(blocked)
  PROVE  RemovalIInv'
<1> USE DEF RemovalIInv, RemovalInv, RmAt
<1>0. /\ rmRow \in RmRows /\ rmRow.labels \in [RmLabels -> Asked] /\ rmResume \in RmResumes
      /\ rmRewinds \in [RmThreads -> [RmLabels -> Nat]]
      /\ rmResume.copy \in RmRows /\ rmResume.copy.labels \in [RmLabels -> Asked]
      /\ NoResume \in RmResumes /\ NoResume.at = "idle"
      /\ NoRewinds \in [RmThreads -> [RmLabels -> Nat]]
      /\ \A h \in RmThreads, l \in RmLabels : NoRewinds[h][l] = 0
  BY RemovalTyped, RemovalRows DEF RmRows, RmResumes, NoResume, NoRewinds
<1>1. ASSUME UNCHANGED <<rmRow, rmHandler, rmRewinds, rmStale, rmEvents>>,
             rmResume' \in RmResumes, rmRunner' \in BOOLEAN, rmResumes' \in 0 .. MaxResumes,
             rmResume'.at # "idle" => Requested(rmResume'.copy) # {}
      PROVE  RemovalIInv'
  <2>1. RemovalTypeOK'
    BY <1>1 DEF RemovalTypeOK, RmResumes
  <2>2. PauseCanEnd' /\ RewoundOnce' /\ RunIsEmpty'
    BY <1>1 DEF PauseCanEnd, RewoundOnce, RunIsEmpty, Requested
  <2>3. RewindKnown' /\ RewindNew' /\ WriteTells'
    BY <1>1 DEF RewindKnown, RewindNew, WriteTells
  <2> QED BY <2>1, <2>2, <2>3
<1>2. CASE ResumeBegin
  <2>1. rmResume' \in RmResumes /\ rmResume'.copy = rmRow
    BY <1>0, <1>2 DEF ResumeBegin, RmResumes
  <2> QED BY <1>1, <1>2, <2>1, RemovalAssumption DEF ResumeBegin, RemovalTypeOK, PauseCanEnd
<1>3. CASE ResumeRun
  <2>1. rmResume' \in RmResumes /\ rmResume'.copy = rmResume.copy
    BY <1>0, <1>3 DEF ResumeRun, RmResumes
  <2> QED BY <1>1, <1>3, <2>1 DEF ResumeRun, RemovalTypeOK, PauseCanEnd
\* A step that writes the row, forgets the rewinds or keeps the labels.
<1>4. ASSUME NEW row \in RmRows, rmRow' = row, row.mode = "run" => row = RunRow,
             row.mode = "pause" => Requested(row) # {},
             UNCHANGED <<rmEvents, rmHandler, rmResumes>>,
             rmRewinds' = NoRewinds \/ (rmRewinds' = rmRewinds /\ (~rmStale' => row.labels = rmRow.labels)),
             rmResume' \in RmResumes, rmRunner' \in BOOLEAN, rmStale' \in BOOLEAN,
             ~rmStale' => ~rmStale,
             rmResume'.at # "idle" => Requested(rmResume'.copy) # {}
      PROVE  RemovalIInv'
  <2>1. RemovalTypeOK'
    BY <1>0, <1>4 DEF RemovalTypeOK, RmResumes
  <2>2. PauseCanEnd' /\ RunIsEmpty'
    BY <1>4 DEF PauseCanEnd, RunIsEmpty, Requested
  <2>3. RewoundOnce'
    BY <1>0, <1>4 DEF RewoundOnce
  <2>4. RewindKnown'
    BY <1>0, <1>4 DEF RewindKnown
  <2>5. RewindNew' /\ WriteTells'
    BY <1>0, <1>4, RemovalTyped DEF RewindNew, WriteTells, RmHands
  <2> QED BY <2>1, <2>2, <2>3, <2>4, <2>5
<1>5. CASE ResumeFails
  <2> DEFINE row == [rmResume.copy EXCEPT
                       !.mode = IF rmRow.mode = "fault" THEN "fault" ELSE "pause"]
  <2>1. row \in RmRows /\ row.mode # "run" /\ row.labels = rmResume.copy.labels
    BY <1>0 DEF RmRows
  <2>2. Requested(row) # {}
    BY <1>5, <2>1 DEF ResumeFails, PauseCanEnd, Requested
  <2>3. ~rmStale' => ~rmStale /\ rmRow = rmResume.copy
    BY <1>5 DEF ResumeFails, RemovalTypeOK
  <2>4. rmRow' = row
    BY <1>5 DEF ResumeFails
  <2> HIDE DEF row
  <2> QED BY <1>0, <1>4, <1>5, <2>1, <2>2, <2>3, <2>4 DEF ResumeFails, RemovalTypeOK
<1>6. ASSUME NEW blocked \in BOOLEAN, ResumeCommit(blocked) PROVE RemovalIInv'
  <2>1. rmResume' \in RmResumes /\ (rmResume'.at # "idle" => Requested(rmResume'.copy) # {})
    BY <1>0, <1>6 DEF ResumeCommit, RmResumes, PauseCanEnd
  <2>2. /\ rmRow' \in RmRows /\ rmRow'.mode # "pause"
        /\ (rmRow'.mode = "run" => rmRow' = RunRow)
    BY <1>0, <1>6, RemovalRows DEF ResumeCommit, Committed, RmRows
  <2> QED BY <1>4, <1>6, <2>1, <2>2 DEF ResumeCommit, RemovalTypeOK
<1>7. CASE FinalWrite
  <2>1. /\ rmRow' \in RmRows /\ rmRow'.mode # "pause" /\ rmRow'.labels = RunRow.labels
        /\ (rmRow'.mode = "run" => rmRow' = RunRow)
    BY <1>0, <1>7, RemovalRows DEF FinalWrite, RmRows, RunRow
  <2>2. ~rmStale' => ~rmStale /\ rmRow = RunRow
    BY <1>7 DEF FinalWrite, RemovalTypeOK
  <2> QED BY <1>0, <1>4, <1>7, <2>1, <2>2 DEF FinalWrite, RemovalTypeOK
<1> HIDE DEF RemovalIInv
<1> QED BY <1>2, <1>3, <1>5, <1>6, <1>7

\* Removal: a pause always names a label, so that it can be left, and a label is brought back
\* once at most in a pause.
THEOREM RemovalCorrect == RemovalSpec => []RemovalInv
<1>1. RemovalIInv /\ [RemovalNext]_rmVars => RemovalIInv'
  <2> SUFFICES ASSUME RemovalIInv, [RemovalNext]_rmVars PROVE RemovalIInv'
    OBVIOUS
  <2>1. CASE UNCHANGED rmVars
    BY <2>1 DEF rmVars, RemovalIInv, RemovalInv, RemovalTypeOK, PauseCanEnd, RewoundOnce, RunIsEmpty,
                RewindKnown, RewindNew, WriteTells, Requested
  <2>2. CASE \E h \in RmThreads, l \in RmLabels, control \in BOOLEAN : TakeRemoval(h, l, control)
    BY <2>2, HandlerKeepsInv
  <2>3. CASE \E h \in RmThreads : RemovalStep(h)
    BY <2>3, HandlerKeepsInv, RewindKeepsInv, WriteKeepsInv DEF RemovalStep
  <2> QED BY <2>1, <2>2, <2>3, ResumeKeepsInv DEF RemovalNext
<1>2. RemovalIInv => RemovalInv
  BY DEF RemovalIInv
<1> QED BY RemovalStarts, <1>1, <1>2, PTL DEF RemovalSpec

-----------------------------------------------------------------------------
(* The printer's state (module Printer)                                    *)

\* The start and the workers are different threads.
LEMMA PrinterThreads == "start" \in Syncers /\ Workers \subseteq Syncers /\ "start" \notin Workers
  BY PrinterAssumption DEF Syncers

\* Printer: every variable keeps its shape, and the lock keeps all but one
\* thread away from the printer, however many workers the stops have started.
THEOREM PrinterTypeCorrect == PrinterSpec => []PrinterTypeOK
<1>1. PrinterInit => PrinterTypeOK
  <2> SUFFICES ASSUME PrinterInit PROVE PrinterTypeOK
    OBVIOUS
  <2>1. \A t, u \in Writing : t = u
    BY DEF PrinterInit, Writing
  <2>2. ptAt \in [Syncers -> {"none", "plan", "lock", "write", "store", "done"}]
    BY DEF PrinterInit
  <2>3. ptPrints \in 0 .. MaxPrints /\ ptFaults \in 0 .. MaxPrinterFaults
    BY PrinterAssumption DEF PrinterInit
  <2> QED BY <2>1, <2>2, <2>3 DEF PrinterInit, PrinterTypeOK
<1>2. PrinterTypeOK /\ [PrinterNext]_ptVars => PrinterTypeOK'
  <2> SUFFICES ASSUME PrinterTypeOK, [PrinterNext]_ptVars PROVE PrinterTypeOK'
    OBVIOUS
  <2> USE PrinterAssumption, PrinterThreads DEF PrinterTypeOK
  <2>1. CASE StartPrints
    <3>1. Writing' = Writing BY <2>1 DEF StartPrints, Writing
    <3> QED BY <2>1, <3>1 DEF StartPrints
  <2>2. CASE StartRuns
    <3>1. Writing' = Writing BY <2>2 DEF StartRuns, Writing
    <3> QED BY <2>2, <3>1 DEF StartRuns
  <2>3. CASE HoldsForRemoval \/ ResumesRemoval
    BY <2>3 DEF HoldsForRemoval, ResumesRemoval, Writing
  <2>4. ASSUME NEW w \in Workers, MotionStops(w) \/ StateRests(w)
        PROVE  PrinterTypeOK'
    <3>1. Writing' = Writing
      BY <2>4 DEF MotionStops, StateRests, Rests, Queue, Writing
    <3> QED BY <2>4, <3>1 DEF MotionStops, StateRests, Rests, Queue
  <2>5. ASSUME NEW t \in Syncers, PlansSync(t) PROVE PrinterTypeOK'
    <3>1. Writing' = Writing
      BY <2>5 DEF PlansSync, Moves, EndOf, Writing
    <3> QED BY <2>5, <3>1 DEF PlansSync, Moves, EndOf
  <2>6. ASSUME NEW t \in Syncers, TakesLock(t) PROVE PrinterTypeOK'
    <3>1. CASE LockTaken = {}
      <4>1. Writing' = {t}
        BY <2>6, <3>1 DEF TakesLock, Moves, LockTaken, Writing
      <4> QED BY <2>6, <3>1, <4>1 DEF TakesLock, Moves
    <3>2. CASE LockTaken # {}
      <4>1. Writing' = Writing
        BY <2>6, <3>2 DEF TakesLock, Moves, Writing
      <4> QED BY <2>6, <3>2, <4>1 DEF TakesLock, Moves
    <3> QED BY <3>1, <3>2
  <2>7. ASSUME NEW t \in Syncers, PrinterObeys(t) PROVE PrinterTypeOK'
    <3>1. Writing' = Writing
      BY <2>7 DEF PrinterObeys, Moves, Writing
    <3> QED BY <2>7, <3>1 DEF PrinterObeys, Moves, Target
  <2>8. ASSUME NEW t \in Syncers, SyncDone(t) PROVE PrinterTypeOK'
    <3>1. Writing' \subseteq Writing
      BY <2>8 DEF SyncDone, Moves, EndOf, Writing
    <3> QED BY <2>8, <3>1 DEF SyncDone, Moves, EndOf, Target
  <2>9. ASSUME NEW t \in Syncers, NEW executed \in BOOLEAN, SyncFails(t, executed)
        PROVE  PrinterTypeOK'
    <3>1. Writing' \subseteq Writing
      BY <2>9 DEF SyncFails, AfterFailedSync, Moves, Writing
    <3>2. ptFaults' \in 0 .. MaxPrinterFaults
      BY <2>9 DEF SyncFails, PrinterFault
    <3>3. ptLost' \in BOOLEAN /\ ptFailed' \in BOOLEAN
      BY <2>9 DEF SyncFails
    <3> QED BY <2>9, <3>1, <3>2, <3>3 DEF SyncFails, AfterFailedSync, Moves, Target
  <2>10. CASE PrinterMoves
    BY <2>10 DEF PrinterMoves, PrinterFault, Writing
  <2>11. CASE UNCHANGED ptVars
    BY <2>11 DEF ptVars, Writing
  <2> QED
    BY <2>1, <2>2, <2>3, <2>4, <2>5, <2>6, <2>7, <2>8, <2>9, <2>10, <2>11
       DEF PrinterNext, SyncStep
<1> QED BY <1>1, <1>2, PTL DEF PrinterSpec

-----------------------------------------------------------------------------
Producing == ptState \in {"run", "hold"}

\* The state changes only when no start is under way (the refresh lock).
StartAlone == ptAt["start"] # "none" => ptState = "rest"

\* Row and printer agree, but for a printer that changed by itself and for the
\* moment between the two writes of a thread.
RowTells == (~ptLost /\ \A t \in Syncers : ptAt[t] # "store") => ptRow = ptReal

\* A start that met no worker when it planned meets none until it is over, and
\* none is queued while its production runs.
NoWorker ==
  (~ptMixed /\ (ptAt["start"] \in {"lock", "write", "store", "done"} \/ Producing))
    => UnderWay = {}

\* What the start found or wrote still stands.
StillOnline ==
  (~ptMixed /\ ~ptLost /\ (ptAt["start"] = "done" \/ Producing))
    => ptRow = "online" /\ ptReal = "online"

PrinterIInv == StartAlone /\ RowTells /\ NoWorker /\ StillOnline

\* A step of the start or of a worker keeps the four parts.
LEMMA SyncKeepsInv ==
  ASSUME PrinterTypeOK, PrinterIInv, NEW t \in Syncers,
         SyncStep(t) \/ \E executed \in BOOLEAN : SyncFails(t, executed)
  PROVE  PrinterIInv'
<1> USE PrinterThreads DEF PrinterTypeOK, PrinterIInv, Producing, EndOf, Moves, Target
<1>0. UnderWay = {} /\ t # "start" => ptAt[t] = "none"
  BY DEF UnderWay, Syncers
<1>1. CASE PlansSync(t)
  <2>1. StartAlone' BY <1>1 DEF PlansSync, StartAlone
  <2>2. RowTells'
    <3>1. (\A u \in Syncers : ptAt'[u] # "store") => \A u \in Syncers : ptAt[u] # "store"
      BY <1>1 DEF PlansSync
    <3> QED BY <1>1, <3>1 DEF PlansSync, RowTells
  <2>3. NoWorker'
    <3>1. t = "start" => UnderWay' = UnderWay
      BY <1>1 DEF PlansSync, UnderWay
    <3>2. t # "start" => UnderWay' \subseteq UnderWay /\ ptAt'["start"] = ptAt["start"]
      BY <1>1 DEF PlansSync, UnderWay
    <3> QED BY <1>1, <3>1, <3>2 DEF PlansSync, NoWorker
  <2>4. StillOnline'
    <3>1. CASE t # "start"
      BY <1>1, <3>1 DEF PlansSync, StillOnline
    <3>2. CASE t = "start"
      <4>1. ~Producing' BY <1>1, <3>2 DEF PlansSync, StartAlone
      <4>2. SUFFICES ASSUME ~ptMixed', ~ptLost', ptAt'["start"] = "done"
                     PROVE  ptRow = "online" /\ ptReal = "online"
        BY <1>1, <4>1 DEF PlansSync, StillOnline
      <4>3. ptRow = "online" /\ UnderWay = {} /\ ~ptLost
        BY <1>1, <3>2, <4>2 DEF PlansSync
      <4>4. \A u \in Syncers : ptAt[u] # "store"
        BY <1>1, <3>2, <4>3 DEF PlansSync, UnderWay, Syncers
      <4> QED BY <4>3, <4>4 DEF RowTells
    <3> QED BY <3>1, <3>2
  <2> QED BY <2>1, <2>2, <2>3, <2>4
<1>2. CASE TakesLock(t)
  <2>1. StartAlone' BY <1>2 DEF TakesLock, StartAlone
  <2>2. RowTells'
    <3>1. (\A u \in Syncers : ptAt'[u] # "store") => \A u \in Syncers : ptAt[u] # "store"
      BY <1>2 DEF TakesLock
    <3> QED BY <1>2, <3>1 DEF TakesLock, RowTells
  <2>3. NoWorker'
    <3>1. UnderWay' \subseteq UnderWay
      BY <1>2 DEF TakesLock, UnderWay
    <3> QED BY <1>2, <3>1 DEF TakesLock, NoWorker
  <2>4. StillOnline' BY <1>2 DEF TakesLock, StillOnline
  <2> QED BY <2>1, <2>2, <2>3, <2>4
<1>3. CASE PrinterObeys(t)
  <2>1. StartAlone' BY <1>3 DEF PrinterObeys, StartAlone
  <2>2. RowTells' BY <1>3 DEF PrinterObeys, RowTells
  <2>3. NoWorker'
    <3>1. UnderWay' = UnderWay
      BY <1>3 DEF PrinterObeys, UnderWay
    <3> QED BY <1>3, <3>1 DEF PrinterObeys, NoWorker
  <2>4. StillOnline'
    BY <1>0, <1>3 DEF PrinterObeys, StillOnline, NoWorker, StartAlone
  <2> QED BY <2>1, <2>2, <2>3, <2>4
<1>4. CASE SyncDone(t)
  <2>1. StartAlone' BY <1>4 DEF SyncDone, StartAlone
  <2>2. RowTells' BY <1>4 DEF SyncDone, RowTells
  <2>3. NoWorker'
    <3>1. UnderWay' \subseteq UnderWay
      BY <1>4 DEF SyncDone, UnderWay
    <3> QED BY <1>4, <3>1 DEF SyncDone, NoWorker
  <2>4. StillOnline'
    BY <1>0, <1>4 DEF SyncDone, StillOnline, NoWorker, StartAlone
  <2> QED BY <2>1, <2>2, <2>3, <2>4
<1>5. ASSUME NEW executed \in BOOLEAN, SyncFails(t, executed) PROVE PrinterIInv'
  <2> USE <1>5 DEF SyncFails, AfterFailedSync
  <2>1. StartAlone' BY DEF StartAlone
  <2>2. RowTells'
    <3>1. \A u \in Syncers : u # t => ptAt[u] # "store"
      BY DEF Writing
    <3> QED BY <3>1 DEF RowTells
  <2>3. NoWorker'
    <3>1. UnderWay' \subseteq UnderWay
      BY DEF UnderWay
    <3> QED BY <3>1 DEF NoWorker
  <2>4. StillOnline'
    BY <1>0 DEF StillOnline, NoWorker, StartAlone
  <2> QED BY <2>1, <2>2, <2>3, <2>4
<1> QED BY <1>1, <1>2, <1>3, <1>4, <1>5 DEF SyncStep

\* A step of the machine or of the printer itself keeps the four parts.
LEMMA MachineKeepsInv ==
  ASSUME PrinterTypeOK, PrinterIInv,
         \/ StartPrints \/ StartRuns \/ HoldsForRemoval \/ ResumesRemoval \/ PrinterMoves
         \/ \E w \in Workers : MotionStops(w) \/ StateRests(w)
  PROVE  PrinterIInv'
<1> USE PrinterThreads DEF PrinterTypeOK, PrinterIInv, Producing
<1>1. CASE StartPrints
  <2>1. UnderWay' = UnderWay BY <1>1 DEF StartPrints, UnderWay
  <2> QED BY <1>1, <2>1 DEF StartPrints, StartAlone, RowTells, NoWorker, StillOnline
<1>2. CASE StartRuns
  <2>1. UnderWay' = UnderWay BY <1>2 DEF StartRuns, UnderWay
  <2> QED BY <1>2, <2>1 DEF StartRuns, StartAlone, RowTells, NoWorker, StillOnline
<1>3. CASE HoldsForRemoval \/ ResumesRemoval
  BY <1>3 DEF HoldsForRemoval, ResumesRemoval, StartAlone, RowTells, NoWorker,
              StillOnline, UnderWay
<1>4. CASE PrinterMoves
  BY <1>4 DEF PrinterMoves, StartAlone, RowTells, NoWorker, StillOnline, UnderWay
<1>5. ASSUME NEW w \in Workers, MotionStops(w) \/ StateRests(w) PROVE PrinterIInv'
  <2>1. ptAt'["start"] = ptAt["start"] /\ ptAt["start"] = "none" /\ ~Producing'
    BY <1>5 DEF MotionStops, StateRests, Rests, Queue, StartAlone
  <2>2. (\A u \in Syncers : ptAt'[u] # "store") => \A u \in Syncers : ptAt[u] # "store"
    BY <1>5 DEF MotionStops, StateRests, Rests, Queue
  <2> QED BY <1>5, <2>1, <2>2
          DEF MotionStops, StateRests, StartAlone, RowTells, NoWorker, StillOnline
<1> QED BY <1>1, <1>2, <1>3, <1>4, <1>5

\* Printer: a production has the printer online, beside the two exceptions the
\* property names, and one thread at most is at the printer.
THEOREM PrinterCorrect == PrinterSpec => []PrinterInv
<1>1. PrinterInit => PrinterIInv
  BY PrinterThreads DEF PrinterInit, PrinterIInv, StartAlone, RowTells, NoWorker, StillOnline, Producing
<1>2. PrinterTypeOK /\ PrinterIInv /\ [PrinterNext]_ptVars => PrinterIInv'
  <2> SUFFICES ASSUME PrinterTypeOK, PrinterIInv, [PrinterNext]_ptVars PROVE PrinterIInv'
    OBVIOUS
  <2>1. CASE UNCHANGED ptVars
    BY <2>1 DEF ptVars, PrinterIInv, StartAlone, RowTells, NoWorker, StillOnline, Producing, UnderWay
  <2>2. CASE PrinterNext
    BY <2>2, SyncKeepsInv, MachineKeepsInv DEF PrinterNext
  <2> QED BY <2>1, <2>2
<1>3. PrinterTypeOK /\ PrinterIInv => PrinterInv
  BY DEF PrinterIInv, StillOnline, Producing, PrinterInv, RunsOnline
<1> QED BY <1>1, <1>2, <1>3, PrinterTypeCorrect, PTL DEF PrinterSpec

-----------------------------------------------------------------------------
(* The gate (module Gate)                                                  *)

GtPasts == [gave : SUBSET GtSome, twice : BOOLEAN, lost : BOOLEAN]

\* The grace is given to following labels only.
SeenFollows == gtRow.seen # 1 /\ gtRef.copy.seen # 1

\* The handler works on the first label: it has looked, and has not yet answered.
FirstInWork == gtPush.label = 1 /\ gtPush.pc \in {"tto", "prepare", "gate", "ready"}

\* The attempt stands in the row once the first label is worked on and ever after; while
\* it is worked on it is not yet released.
AttemptStands ==
  ~gtPast.lost =>
    /\ 1 \in gtPast.gave => gtRow.attempt = 1
    /\ FirstInWork => gtRow.attempt = 1 /\ 1 \notin gtPast.gave

GateIInv == GateInv /\ gtPast \in GtPasts /\ SeenFollows /\ AttemptStands

LEMMA GateStarts == GateInit => GateIInv
<1> SUFFICES ASSUME GateInit PROVE GateIInv
  OBVIOUS
<1>1. GtRow0 \in GtRows /\ GtRow0.seen = 0
  BY GateAssumption DEF GtRow0, GtRows, GtSome
<1>2. 0 \in GtSome /\ 1 \in 1 .. GtLabels + 1
  BY GateAssumption DEF GtSome
<1>3. GateTypeOK
  BY <1>1, <1>2 DEF GateInit, GateTypeOK, GtIdle, GtRest
<1> QED
  BY <1>1, <1>2, <1>3
     DEF GateInit, GateIInv, GateInv, FirstOnce, GtPasts, SeenFollows, AttemptStands, FirstInWork,
         GtIdle, GtRest, GtSome

\* A row goes to state 21 with what else it holds.
LEMMA FaultRows ==
  ASSUME NEW row \in GtRows
  PROVE  FaultRow(row) \in GtRows /\ FaultRow(row).attempt = row.attempt /\ FaultRow(row).seen = row.seen
  BY DEF FaultRow, GtRows

LEMMA AroundKeepsGate ==
  ASSUME GateIInv,
         \/ RunnerWaits \/ OuterFault
         \/ \E l \in GtLabelNos : LoseGateEvent(l) \/ MarkAges(l) \/ GraceOver(l)
         \/ \E l \in GtLabelNos, again \in BOOLEAN : TakeEvent(l, again)
         \/ UNCHANGED gtVars
  PROVE  GateIInv'
<1> USE DEF gtTime
<1>0. GateTypeOK /\ 1 \in GtLabelNos /\ GtLabelNos \subseteq GtSome
  BY GateAssumption DEF GateIInv, GateInv, GtLabelNos, GtSome
<1>1. CASE RunnerWaits
  <2>1. gtWait' \in GtSome /\ gtNext' \in 1 .. GtLabels + 1 /\ gtMail' \subseteq GtLabelNos
    BY <1>0, <1>1, GateAssumption DEF RunnerWaits, GateTypeOK, GtLabelNos, GtSome
  <2> QED
    BY <1>1, <2>1
       DEF RunnerWaits, GateIInv, GateInv, GateTypeOK, FirstOnce, SeenFollows, AttemptStands, FirstInWork,
           GtRows, GtPasts
<1>2. CASE OuterFault
  BY <1>2
     DEF OuterFault, GateIInv, GateInv, GateTypeOK, FirstOnce, SeenFollows, AttemptStands, FirstInWork,
         GtRows, GtPasts
<1>3. ASSUME NEW l \in GtLabelNos, LoseGateEvent(l) \/ MarkAges(l) \/ GraceOver(l) PROVE GateIInv'
  <2>1. gtMail' \subseteq GtLabelNos /\ gtYoung' \subseteq {1} /\ gtGrace' \subseteq GtLabelNos \ {1}
    BY <1>0, <1>3 DEF LoseGateEvent, MarkAges, GraceOver, GateTypeOK, GateIInv, SeenFollows
  <2>2. UNCHANGED <<gtWait, gtNext, gtFault, gtRow, gtPush, gtRef, gtUsed, gtPast>>
    BY <1>3 DEF LoseGateEvent, MarkAges, GraceOver
  <2> QED
    BY <2>1, <2>2
       DEF GateIInv, GateInv, GateTypeOK, FirstOnce, SeenFollows, AttemptStands, FirstInWork, GtRows, GtPasts
<1>4. ASSUME NEW l \in GtLabelNos, NEW again \in BOOLEAN, TakeEvent(l, again) PROVE GateIInv'
  <2>1. gtPush' = [pc |-> "look", label |-> l] /\ gtMail' \subseteq gtMail
    BY <1>4 DEF TakeEvent
  <2>2. UNCHANGED <<gtWait, gtNext, gtFault, gtRow, gtTime, gtRef, gtPast>>
    BY <1>4 DEF TakeEvent
  <2>3. gtPush' \in [pc : {"idle", "look", "tto", "prepare", "gate", "ready"}, label : GtSome]
    BY <1>0, <2>1
  <2> QED
    BY <2>1, <2>2, <2>3
       DEF GateIInv, GateInv, GateTypeOK, FirstOnce, SeenFollows, AttemptStands, FirstInWork, GtRows, GtPasts
<1>5. CASE UNCHANGED gtVars
  BY <1>5
     DEF gtVars, GateIInv, GateInv, GateTypeOK, FirstOnce, SeenFollows, AttemptStands, FirstInWork, GtRows, GtPasts
<1> QED
  BY <1>1, <1>2, <1>3, <1>4, <1>5

LEMMA PushKeepsGate ==
  ASSUME GateIInv, NEW ok \in BOOLEAN, PushStep(ok)
  PROVE  GateIInv'
<1> DEFINE Pushes == [pc : {"idle", "look", "tto", "prepare", "gate", "ready"}, label : GtSome]
<1> USE DEF gtTime
<1>0. /\ GateTypeOK /\ FirstOnce /\ gtPast \in GtPasts /\ gtPush \in Pushes /\ gtRow \in GtRows
      /\ GtIdle \in Pushes /\ GtIdle.pc = "idle" /\ 1 \in GtSome /\ 1 \in GtLabelNos
  BY GateAssumption DEF GateIInv, GateInv, GateTypeOK, GtIdle, GtSome, GtLabelNos
<1>1. CASE LookAtEvent
  <2>1. CASE gtPush' = GtIdle /\ UNCHANGED <<gtRow, gtYoung>>
    <3>1. UNCHANGED <<gtWait, gtNext, gtMail, gtFault, gtGrace, gtRef, gtPast>>
      BY <1>1 DEF LookAtEvent
    <3> QED
      BY <1>0, <2>1, <3>1
         DEF GateIInv, GateInv, GateTypeOK, FirstOnce, SeenFollows, AttemptStands, FirstInWork, GtRows, GtPasts
  <2>2. CASE gtPush.label # 1 /\ gtPush' = [gtPush EXCEPT !.pc = "prepare"] /\ UNCHANGED <<gtRow, gtYoung>>
    <3>1. gtPush' \in Pushes /\ gtPush'.label # 1
      BY <1>0, <2>2
    <3>2. UNCHANGED <<gtWait, gtNext, gtMail, gtFault, gtGrace, gtRef, gtPast>>
      BY <1>1 DEF LookAtEvent
    <3> QED
      BY <1>0, <2>2, <3>1, <3>2
         DEF GateIInv, GateInv, GateTypeOK, FirstOnce, SeenFollows, AttemptStands, FirstInWork, GtRows, GtPasts
  <2>3. CASE /\ gtPush.label = 1 /\ ~AlreadyTried(1) /\ gtPush' = [gtPush EXCEPT !.pc = "tto"]
             /\ gtRow' = [gtRow EXCEPT !.attempt = 1, !.marks = @ \cup {1}]
             /\ gtYoung' = gtYoung \cup {1}
    <3>1. gtPush' \in Pushes
      BY <1>0, <2>3
    <3>2. gtRow' \in GtRows /\ gtRow'.attempt = 1 /\ gtRow'.seen = gtRow.seen
      BY <1>0, <2>3 DEF GtRows
    <3>3. gtRow.attempt # 1
      BY <2>3 DEF AlreadyTried
    <3>4. ~gtPast.lost => 1 \notin gtPast.gave
      BY <3>3 DEF GateIInv, AttemptStands
    <3>5. UNCHANGED <<gtWait, gtNext, gtMail, gtFault, gtGrace, gtRef, gtPast>>
      BY <1>1 DEF LookAtEvent
    <3> QED
      BY <1>0, <2>3, <3>1, <3>2, <3>4, <3>5
         DEF GateIInv, GateInv, GateTypeOK, FirstOnce, SeenFollows, AttemptStands, FirstInWork, GtRows, GtPasts
  <2> QED
    BY <1>1, <2>1, <2>2, <2>3 DEF LookAtEvent
\* What the other steps of the handler do to mark, attempt and release.
<1>2. ASSUME gtWait' \in GtSome, gtNext' \in 1 .. GtLabels + 1, gtFault' \in BOOLEAN, gtPush' \in Pushes,
             gtRow' \in GtRows, gtRow'.attempt = gtRow.attempt, gtRow'.seen = gtRow.seen,
             UNCHANGED <<gtMail, gtTime, gtRef>>, gtPast' = gtPast, FirstInWork' => FirstInWork
      PROVE  GateIInv'
  BY <1>0, <1>2
     DEF GateIInv, GateInv, GateTypeOK, FirstOnce, SeenFollows, AttemptStands, FirstInWork, GtRows, GtPasts
<1>s. ASSUME StopRunner \/ KeepRunner PROVE gtWait' \in GtSome /\ gtNext' \in 1 .. GtLabels + 1
  BY <1>0, <1>s, GateAssumption DEF StopRunner, KeepRunner, GateTypeOK, GtSome
<1>3. CASE PushTto(ok)
  <2>1. gtPush' \in Pushes /\ (FirstInWork' => FirstInWork)
    BY <1>0, <1>3 DEF PushTto, FirstInWork
  <2>2. gtRow' \in {gtRow, FaultRow(gtRow)} /\ gtFault' \in {gtFault, TRUE} /\ (StopRunner \/ KeepRunner)
    BY <1>3 DEF PushTto, TtoLatches
  <2>3. UNCHANGED <<gtMail, gtTime, gtRef, gtPast>>
    BY <1>3 DEF PushTto
  <2>4. gtRow' \in GtRows /\ gtRow'.attempt = gtRow.attempt /\ gtRow'.seen = gtRow.seen
    BY <1>0, <2>2, FaultRows
  <2>5. gtFault' \in BOOLEAN
    BY <1>0, <2>2 DEF GateTypeOK
  <2> QED
    BY <1>2, <1>s, <2>1, <2>2, <2>3, <2>4, <2>5
<1>4. CASE PushPrepare(ok)
  <2>1. gtPush' \in Pushes /\ (FirstInWork' => FirstInWork) /\ gtPush.pc = "prepare"
    BY <1>0, <1>4 DEF PushPrepare, FirstInWork
  <2>2. UNCHANGED <<gtWait, gtNext, gtMail, gtFault, gtRow, gtTime, gtRef>>
    BY <1>4 DEF PushPrepare
  <2> DEFINE twice == gtPast.twice \/ (gtPush.label = 1 /\ 1 \in gtPast.gave)
  <2>3. twice => gtPast.lost
    BY <1>0, <2>1 DEF GateIInv, FirstOnce, AttemptStands, FirstInWork
  <2>4. twice \in BOOLEAN
    BY <1>0 DEF GtPasts
  <2>5. gtPast' = [gtPast EXCEPT !.twice = twice]
    BY <1>4 DEF PushPrepare
  <2> HIDE DEF twice
  <2>6. gtPast' \in GtPasts /\ gtPast'.gave = gtPast.gave /\ gtPast'.lost = gtPast.lost /\ gtPast'.twice = twice
    BY <1>0, <2>4, <2>5 DEF GtPasts
  <2> QED
    BY <1>0, <2>1, <2>2, <2>3, <2>6
       DEF GateIInv, GateInv, GateTypeOK, FirstOnce, SeenFollows, AttemptStands, FirstInWork, GtRows, GtPasts
<1>5. CASE PushGate
  <2>1. gtPush' \in Pushes /\ (FirstInWork' => FirstInWork)
    BY <1>0, <1>5 DEF PushGate, FirstInWork
  <2>2. gtRow' \in {gtRow, FaultRow(gtRow)} /\ (StopRunner \/ KeepRunner)
    BY <1>5 DEF PushGate
  <2>3. UNCHANGED <<gtMail, gtFault, gtTime, gtRef, gtPast>>
    BY <1>5 DEF PushGate
  <2>4. gtRow' \in GtRows /\ gtRow'.attempt = gtRow.attempt /\ gtRow'.seen = gtRow.seen
    BY <1>0, <2>2, FaultRows
  <2>5. gtFault' \in BOOLEAN
    BY <1>0, <2>3 DEF GateTypeOK
  <2> QED
    BY <1>2, <1>s, <2>1, <2>2, <2>3, <2>4, <2>5
<1>6. CASE PushReady(ok)
  <2>1. gtPush' = GtIdle /\ gtPush.pc = "ready" /\ gtWait' \in {0, gtWait}
    BY <1>6 DEF PushReady, WicklerReady
  <2>2. UNCHANGED <<gtNext, gtMail, gtFault, gtRow, gtTime, gtRef>>
    BY <1>6 DEF PushReady
  <2> DEFINE gave == IF ok THEN gtPast.gave \cup {gtPush.label} ELSE gtPast.gave
  <2>3. gtPast' = [gtPast EXCEPT !.gave = gave] /\ gave \in SUBSET GtSome
    BY <1>0, <1>6 DEF PushReady, GtPasts
  <2>4. 1 \in gave => 1 \in gtPast.gave \/ FirstInWork
    BY <2>1 DEF FirstInWork
  <2> HIDE DEF gave
  <2>5. gtPast' \in GtPasts /\ gtPast'.gave = gave /\ gtPast'.lost = gtPast.lost /\ gtPast'.twice = gtPast.twice
    BY <1>0, <2>3 DEF GtPasts
  <2>6. gtWait' \in GtSome
    BY <1>0, <2>1, GateAssumption DEF GateTypeOK, GtSome
  <2> QED
    BY <1>0, <2>1, <2>2, <2>4, <2>5, <2>6
       DEF GateIInv, GateInv, GateTypeOK, FirstOnce, SeenFollows, AttemptStands, FirstInWork, GtRows, GtPasts
<1> QED
  BY <1>1, <1>3, <1>4, <1>5, <1>6 DEF PushStep

LEMMA RefreshKeepsGate ==
  ASSUME GateIInv, NEW ok \in BOOLEAN, RefStep(ok)
  PROVE  GateIInv'
<1> DEFINE Looks == [pc : {"idle", "diag", "tto", "prepare", "ready", "write"}, label : GtSome, copy : GtRows]
<1> USE DEF gtTime
<1>0. /\ GateTypeOK /\ FirstOnce /\ gtPast \in GtPasts /\ gtRef \in Looks /\ gtRow \in GtRows /\ SeenFollows
      /\ gtWait \in GtSome /\ 1 \in GtSome /\ 0 \in GtSome
  BY GateAssumption DEF GateIInv, GateInv, GateTypeOK, GtSome, GtLabelNos
<1>r. GtRest \in Looks /\ GtRest.copy.seen = 0
  BY GateAssumption DEF GtRest, GtRow0, GtRows, GtSome
\* The row keeps the attempt, or gets it.
<1>1. ASSUME gtWait' \in GtSome, gtNext' \in 1 .. GtLabels + 1, gtFault' \in BOOLEAN, gtRef' \in Looks,
             gtGrace' \subseteq gtGrace, gtRow' \in GtRows, gtRow'.attempt \in {1, gtRow.attempt},
             gtRow'.seen # 1, gtRef'.copy.seen # 1,
             UNCHANGED <<gtMail, gtYoung, gtPush>>, gtPast' = gtPast
      PROVE  GateIInv'
  BY <1>0, <1>1
     DEF GateIInv, GateInv, GateTypeOK, FirstOnce, SeenFollows, AttemptStands, FirstInWork, GtRows, GtPasts
<1>s. ASSUME StopRunner \/ KeepRunner PROVE gtWait' \in GtSome /\ gtNext' \in 1 .. GtLabels + 1
  BY <1>0, <1>s, GateAssumption DEF StopRunner, KeepRunner, GateTypeOK, GtSome
<1>f. /\ FaultRow(gtRow) \in GtRows /\ FaultRow(gtRow).attempt = gtRow.attempt
      /\ FaultRow(gtRow).seen = gtRow.seen
  BY <1>0, FaultRows
<1>t. gtNext \in 1 .. GtLabels + 1 /\ gtFault \in BOOLEAN
  BY <1>0 DEF GateTypeOK
<1>2. CASE RefCopy
  <2>1. gtRow' \in {gtRow, FaultRow(gtRow)} /\ (StopRunner \/ KeepRunner)
    BY <1>2 DEF RefCopy
  <2>2. gtRef' = gtRef \/ gtRef' = [pc |-> "diag", label |-> 0, copy |-> gtRow]
    BY <1>2 DEF RefCopy
  <2>3. UNCHANGED <<gtMail, gtFault, gtTime, gtPush, gtPast>>
    BY <1>2 DEF RefCopy
  <2>4. gtRef' \in Looks /\ gtRef'.copy.seen # 1
    BY <1>0, <2>2 DEF SeenFollows
  <2>5. gtRow' \in GtRows /\ gtRow'.attempt = gtRow.attempt /\ gtRow'.seen # 1
    BY <1>0, <1>f, <2>1 DEF SeenFollows
  <2> QED
    BY <1>1, <1>s, <1>t, <2>1, <2>3, <2>4, <2>5
<1>3. CASE RefDiag(~ok)
  <2> DEFINE l == gtWait
             wait == l = 0 \/ ~ok \/ InFlight(l) \/ (l # 1 /\ l \notin gtGrace)
             pc == IF wait THEN "write" ELSE IF l = 1 THEN "tto" ELSE "prepare"
             label == IF wait THEN 0 ELSE l
             seen == IF wait /\ l # 1 THEN l ELSE gtRef.copy.seen
             copy == [gtRef.copy EXCEPT !.seen = seen]
  <2>1. seen \in GtSome /\ seen # 1
    BY <1>0 DEF SeenFollows, GtRows
  <2>2. label \in GtSome /\ pc \in {"write", "tto", "prepare"}
    BY <1>0
  <2>3. gtRef' = [gtRef EXCEPT !.pc = pc, !.label = label, !.copy.seen = seen]
    BY <1>3 DEF RefDiag
  <2>4. /\ gtRow' = gtRow \/ gtRow' = [gtRow EXCEPT !.attempt = 1]
        /\ gtGrace' \subseteq gtGrace
        /\ UNCHANGED <<gtWait, gtNext, gtMail, gtFault, gtYoung, gtPush, gtPast>>
    BY <1>3 DEF RefDiag
  <2> HIDE DEF seen, label, pc
  <2>5. copy \in GtRows /\ copy.seen = seen
    BY <1>0, <2>1 DEF GtRows
  <2>6. gtRef' = [gtRef EXCEPT !.pc = pc, !.label = label, !.copy = copy]
    BY <1>0, <2>3
  <2> HIDE DEF copy
  <2>7. gtRef' \in Looks /\ gtRef'.copy.seen # 1
    BY <1>0, <2>1, <2>2, <2>5, <2>6
  <2>8. gtRow' \in GtRows /\ gtRow'.attempt \in {1, gtRow.attempt} /\ gtRow'.seen # 1
    BY <1>0, <2>4 DEF SeenFollows, GtRows
  <2> QED
    BY <1>0, <1>1, <1>t, <2>4, <2>7, <2>8
<1>4. CASE RefTto(ok)
  <2>1. gtRow' \in {gtRow, FaultRow(gtRow)} /\ gtFault' \in {gtFault, TRUE} /\ (StopRunner \/ KeepRunner)
    BY <1>4 DEF RefTto, TtoLatches
  <2>2. gtRef' = [gtRef EXCEPT !.pc = "prepare"] \/ gtRef' = [gtRef EXCEPT !.pc = "write"]
    BY <1>4 DEF RefTto
  <2>3. UNCHANGED <<gtMail, gtTime, gtPush, gtPast>>
    BY <1>4 DEF RefTto
  <2>4. gtRef' \in Looks /\ gtRef'.copy.seen # 1
    BY <1>0, <2>2 DEF SeenFollows
  <2>5. gtRow' \in GtRows /\ gtRow'.attempt = gtRow.attempt /\ gtRow'.seen # 1
    BY <1>0, <1>f, <2>1 DEF SeenFollows
  <2>6. gtFault' \in BOOLEAN
    BY <1>t, <2>1
  <2> QED
    BY <1>1, <1>s, <2>1, <2>3, <2>4, <2>5, <2>6
<1>5. CASE RefPrepare(ok) \/ RefReady(ok)
  <2>1. \E p \in {"ready", "write"} : gtRef' = [gtRef EXCEPT !.pc = p]
    BY <1>5 DEF RefPrepare, RefReady
  <2>2. UNCHANGED <<gtNext, gtMail, gtFault, gtRow, gtTime, gtPush, gtPast>> /\ gtWait' \in {0, gtWait}
    BY <1>5 DEF RefPrepare, RefReady, WicklerReady
  <2>3. gtRef' \in Looks /\ gtRef'.copy.seen # 1
    BY <1>0, <2>1 DEF SeenFollows
  <2> QED
    BY <1>0, <1>1, <1>t, <2>2, <2>3 DEF SeenFollows
<1>6. CASE RefWrite
  <2> DEFINE now == IF gtRef.label = 1 THEN [gtRef.copy EXCEPT !.attempt = 1] ELSE gtRef.copy
             lost == gtPast.lost \/ now.attempt # gtRow.attempt
  <2>1. gtRow' = now /\ gtPast' = [gtPast EXCEPT !.lost = lost] /\ gtRef' = GtRest
    BY <1>6 DEF RefWrite
  <2>2. UNCHANGED <<gtWait, gtNext, gtMail, gtFault, gtTime, gtPush>>
    BY <1>6 DEF RefWrite
  <2>3. now \in GtRows /\ now.seen # 1
    BY <1>0 DEF GtRows, SeenFollows
  <2>4. lost \in BOOLEAN
    BY <1>0 DEF GtPasts
  <2>5. ~lost => ~gtPast.lost /\ now.attempt = gtRow.attempt
    OBVIOUS
  <2>6. gtPast.lost => lost
    OBVIOUS
  <2> HIDE DEF lost, now
  <2>7. gtPast' \in GtPasts /\ gtPast'.lost = lost /\ gtPast'.gave = gtPast.gave /\ gtPast'.twice = gtPast.twice
    BY <1>0, <2>1, <2>4 DEF GtPasts
  <2> QED
    BY <1>0, <1>r, <2>1, <2>2, <2>3, <2>5, <2>6, <2>7
       DEF GateIInv, GateInv, GateTypeOK, FirstOnce, SeenFollows, AttemptStands, FirstInWork, GtRows, GtPasts
<1> QED
  BY <1>2, <1>3, <1>4, <1>5, <1>6 DEF RefStep

\* At the gate marks and grace belong to the labels they are meant for, and the first
\* label's stroke is not prepared again after its release, however often the event comes,
\* unless a refresh's older copy of the row took the attempt away
\* (machine_runtime.py:1976).
THEOREM GateCorrect == GateSpec => []GateInv
<1>1. GateIInv /\ [GateNext]_gtVars => GateIInv'
  BY AroundKeepsGate, PushKeepsGate, RefreshKeepsGate DEF GateNext
<1>2. GateIInv => GateInv
  BY DEF GateIInv
<1> QED
  BY GateStarts, <1>1, <1>2, PTL DEF GateSpec

-----------------------------------------------------------------------------
(* The log files (module Logs)                                             *)

LogPoints == {"idle", "read", "list", "reconcile", "param", "startRead", "startWrite", "startParam",
              "stopRead", "stopWrite", "stopParam", "stopEmpty", "stopTell", "remove", "again",
              "names", "unready", "zero", "tell"}
LogWorks == [at : LogPoints, job : {"none", "start", "stop", "poll", "download"},
             copy : LogStates, found : SUBSET LogGroups]

\* A recording has a name, is not offered, and has begun within the budget: of the state
\* and of every copy of it that a thread may write back.
LogSound(s) == s.active => s.label # 0 /\ ~s.ready

LogCounted ==
  /\ logStarts \in 0 .. LogProductions
  /\ LogAt("command", "startWrite") => logStarts # LogProductions
  /\ LogAt("command", "startParam") => logStarts # 0

LogsIInv ==
  /\ LogsTypeOK /\ LogCounted /\ LogSound(logState)
  /\ \A t \in LogThreads : LogSound(logThread[t].copy)

LEMMA LogRests == DefaultLog \in LogStates /\ NoLogWork \in LogWorks /\ LogSound(DefaultLog)
<1>1. DefaultLog \in LogStates /\ LogSound(DefaultLog)
  BY LogsAssumption DEF DefaultLog, LogStates, LogSound
<1> QED
  BY <1>1 DEF NoLogWork, LogWorks, LogPoints

LEMMA LogsStart == LogsInit => LogsIInv
<1> SUFFICES ASSUME LogsInit PROVE LogsIInv
  OBVIOUS
<1>1. logThread \in [LogThreads -> LogWorks] /\ \A t \in LogThreads : logThread[t] = NoLogWork
  BY LogRests DEF LogsInit
<1>2. NoLogWork.at = "idle" /\ NoLogWork.job = "none" /\ NoLogWork.copy = DefaultLog /\ ~DefaultLog.active
  BY DEF NoLogWork, DefaultLog
<1>3. "command" \in LogThreads
  BY DEF LogThreads
<1> QED
  BY <1>1, <1>2, <1>3, LogRests, LogsAssumption
     DEF LogsInit, LogsIInv, LogsTypeOK, LogCounted, LogAt, LogWorks, LogPoints

\* One thread takes a step; the others keep their work.
LEMMA LogFrame ==
  ASSUME LogsIInv, NEW t \in LogThreads, NEW w \in LogWorks,
         logThread' = [logThread EXCEPT ![t] = w],
         w.at = "idle" <=> w.job = "none", LogSound(w.copy),
         logState' \in LogStates, LogSound(logState'),
         logFiles' \subseteq (1 .. LogProductions) \X LogGroups,
         mas0030' \in 0 .. 1, logTold' \in 0 .. 2, LogCounted'
  PROVE  LogsIInv'
<1>1. logThread \in [LogThreads -> LogWorks]
  BY DEF LogsIInv, LogsTypeOK, LogWorks, LogPoints
<1>2. logThread' \in [LogThreads -> LogWorks]
  BY <1>1
<1>3. \A u \in LogThreads : u # t => logThread'[u] = logThread[u]
  BY <1>1
<1>4. logThread'[t] = w
  BY <1>1
<1>5. \A u \in LogThreads : (logThread'[u].at = "idle" <=> logThread'[u].job = "none") /\ LogSound(logThread'[u].copy)
  BY <1>3, <1>4 DEF LogsIInv, LogsTypeOK, LogAt
<1>6. ~(logState'.active /\ logState'.ready)
  BY DEF LogSound
<1>7. LogsTypeOK'
  BY <1>2, <1>5, <1>6 DEF LogsTypeOK, LogAt, LogWorks, LogPoints, LogStates
<1> QED
  BY <1>5, <1>7 DEF LogsIInv, LogSound

\* What the steps find, and the ways they leave their thread.
LEMMA LogFacts ==
  ASSUME LogsIInv
  PROVE  /\ logState \in LogStates /\ LogSound(logState)
         /\ logFiles \subseteq (1 .. LogProductions) \X LogGroups
         /\ mas0030 \in 0 .. 1 /\ logTold \in 0 .. 2
         /\ logThread \in [LogThreads -> LogWorks]
         /\ \A t \in LogThreads : /\ logThread[t] \in LogWorks
                                  /\ logThread[t].at = "idle" <=> logThread[t].job = "none"
                                  /\ LogSound(logThread[t].copy)
         /\ \A label : Existing(label) \in SUBSET LogGroups
         /\ logState.label # 0 => logState.label \in 1 .. LogProductions
<1>1. logThread \in [LogThreads -> LogWorks] /\ logState \in LogStates
  BY DEF LogsIInv, LogsTypeOK, LogWorks, LogPoints
<1>2. logState.label # 0 => logState.label \in 1 .. LogProductions
  BY <1>1, LogsAssumption DEF LogStates
<1>3. \A t \in LogThreads : /\ logThread[t] \in LogWorks
                            /\ logThread[t].at = "idle" <=> logThread[t].job = "none"
                            /\ LogSound(logThread[t].copy)
  BY <1>1 DEF LogsIInv, LogsTypeOK, LogAt
<1>4. \A label : Existing(label) \in SUBSET LogGroups
  BY DEF Existing
<1> QED
  BY <1>1, <1>2, <1>3, <1>4 DEF LogsIInv, LogsTypeOK

\* The frame of every step but those of a start that counts itself.
LEMMA LogKeeps ==
  ASSUME LogsIInv, NEW t \in LogThreads, NEW w \in LogWorks,
         logThread' = [logThread EXCEPT ![t] = w],
         w.at = "idle" <=> w.job = "none", LogSound(w.copy),
         w.at \notin {"startWrite", "startParam"}, UNCHANGED logStarts,
         logState' \in LogStates, LogSound(logState'),
         logFiles' \subseteq (1 .. LogProductions) \X LogGroups,
         mas0030' \in 0 .. 1, logTold' \in 0 .. 2
  PROVE  LogsIInv'
<1>1. logThread \in [LogThreads -> LogWorks] /\ "command" \in LogThreads
  BY LogFacts DEF LogThreads
<1>2. logThread'["command"] = IF t = "command" THEN w ELSE logThread["command"]
  BY <1>1
<1>3. LogCounted'
  BY <1>2 DEF LogsIInv, LogCounted, LogAt
<1> QED
  BY <1>3, LogFrame

\* A thread goes on.
LEMMA LogGoes ==
  ASSUME LogsIInv, NEW t \in LogThreads, ~LogAt(t, "idle"),
         NEW at \in LogPoints \ {"idle", "startWrite", "startParam"},
         LogGo(t, at),
         UNCHANGED logStarts,
         logState' \in LogStates, LogSound(logState'),
         logFiles' \subseteq (1 .. LogProductions) \X LogGroups,
         mas0030' \in 0 .. 1, logTold' \in 0 .. 2
  PROVE  LogsIInv'
<1> DEFINE w == [NoLogWork EXCEPT !.at = at, !.job = logThread[t].job]
<1>1. logThread[t] \in LogWorks /\ LogSound(logThread[t].copy) /\ logThread[t].job # "none"
      /\ logThread \in [LogThreads -> LogWorks] /\ logState \in LogStates /\ LogSound(logState)
  BY LogFacts DEF LogAt
<1>2. w \in LogWorks /\ w.at = at /\ w.job # "none" /\ LogSound(w.copy)
  BY <1>1, LogRests DEF NoLogWork, LogWorks
<1>3. logThread' = [logThread EXCEPT ![t] = w]
  BY <1>1 DEF LogGo
<1> HIDE DEF w
<1> QED
  BY <1>2, <1>3, LogKeeps

\* A thread reads the state.
LEMMA LogReads ==
  ASSUME LogsIInv, NEW t \in LogThreads, ~LogAt(t, "idle"),
         NEW at \in LogPoints \ {"idle", "startWrite", "startParam"},
         logThread' = [logThread EXCEPT ![t].at = at, ![t].copy = logState],
         UNCHANGED logStarts,
         logState' \in LogStates, LogSound(logState'),
         logFiles' \subseteq (1 .. LogProductions) \X LogGroups,
         mas0030' \in 0 .. 1, logTold' \in 0 .. 2
  PROVE  LogsIInv'
<1> DEFINE w == [logThread[t] EXCEPT !.at = at, !.copy = logState]
<1>1. logThread[t] \in LogWorks /\ LogSound(logThread[t].copy) /\ logThread[t].job # "none"
      /\ logThread \in [LogThreads -> LogWorks] /\ logState \in LogStates /\ LogSound(logState)
  BY LogFacts DEF LogAt
<1>2. w \in LogWorks /\ w.at = at /\ w.job # "none" /\ LogSound(w.copy)
  BY <1>1 DEF LogWorks
<1>3. logThread' = [logThread EXCEPT ![t] = w]
  BY <1>1 DEF LogGo
<1> HIDE DEF w
<1> QED
  BY <1>2, <1>3, LogKeeps

\* A thread lists files.
LEMMA LogFinds ==
  ASSUME LogsIInv, NEW t \in LogThreads, ~LogAt(t, "idle"),
         NEW at \in LogPoints \ {"idle", "startWrite", "startParam"}, NEW found \in SUBSET LogGroups,
         logThread' = [logThread EXCEPT ![t].at = at, ![t].found = found],
         UNCHANGED logStarts,
         logState' \in LogStates, LogSound(logState'),
         logFiles' \subseteq (1 .. LogProductions) \X LogGroups,
         mas0030' \in 0 .. 1, logTold' \in 0 .. 2
  PROVE  LogsIInv'
<1> DEFINE w == [logThread[t] EXCEPT !.at = at, !.found = found]
<1>1. logThread[t] \in LogWorks /\ LogSound(logThread[t].copy) /\ logThread[t].job # "none"
      /\ logThread \in [LogThreads -> LogWorks] /\ logState \in LogStates /\ LogSound(logState)
  BY LogFacts DEF LogAt
<1>2. w \in LogWorks /\ w.at = at /\ w.job # "none" /\ LogSound(w.copy)
  BY <1>1 DEF LogWorks
<1>3. logThread' = [logThread EXCEPT ![t] = w]
  BY <1>1 DEF LogGo
<1> HIDE DEF w
<1> QED
  BY <1>2, <1>3, LogKeeps

\* A thread comes to rest.
LEMMA LogEnds ==
  ASSUME LogsIInv, NEW t \in LogThreads, LogDone(t), UNCHANGED logStarts,
         logState' \in LogStates, LogSound(logState'),
         logFiles' \subseteq (1 .. LogProductions) \X LogGroups,
         mas0030' \in 0 .. 1, logTold' \in 0 .. 2
  PROVE  LogsIInv'
<1>1. NoLogWork.at = "idle" /\ NoLogWork.job = "none" /\ NoLogWork.copy = DefaultLog
  BY DEF NoLogWork
<1> QED
  BY <1>1, LogRests, LogKeeps DEF LogDone

LEMMA LogsAsked ==
  ASSUME LogsIInv, AskStart \/ AskStop \/ AskManifest \/ AskDownload
  PROVE  LogsIInv'
<1>0. /\ logState \in LogStates /\ LogSound(logState) /\ logFiles \subseteq (1 .. LogProductions) \X LogGroups
      /\ mas0030 \in 0 .. 1 /\ logTold \in 0 .. 2
  BY LogFacts
<1>1. UNCHANGED <<logState, logFiles, mas0030, logTold, logStarts>>
  BY DEF AskStart, AskStop, AskManifest, AskDownload, logBudgets
<1>2. ASSUME NEW t \in LogThreads, NEW job \in {"start", "stop", "download"}, NEW first \in {"read", "stopRead"},
             TakeJob(t, job, first)
      PROVE  LogsIInv'
  <2> DEFINE w == [NoLogWork EXCEPT !.at = first, !.job = job]
  <2>1. w \in LogWorks /\ w.at = first /\ w.job = job /\ w.copy = DefaultLog
    BY LogRests DEF NoLogWork, LogWorks, LogPoints
  <2>2. logThread' = [logThread EXCEPT ![t] = w]
    BY <1>2 DEF TakeJob
  <2> HIDE DEF w
  <2> QED
    BY <1>0, <1>1, <2>1, <2>2, LogRests, LogKeeps
<1>3. CASE AskManifest
  <2> DEFINE w == [at |-> "list", job |-> "poll", copy |-> logState, found |-> {}]
  <2>1. w \in LogWorks /\ w.at = "list" /\ w.job = "poll" /\ w.copy = logState
    BY <1>0 DEF LogWorks, LogPoints
  <2>2. logThread' = [logThread EXCEPT !["poll"] = w]
    BY <1>3 DEF AskManifest
  <2> HIDE DEF w
  <2>3. "poll" \in LogThreads
    BY DEF LogThreads
  <2> QED
    BY <1>0, <1>1, <2>1, <2>2, <2>3, LogKeeps
<1> QED
  BY <1>2, <1>3 DEF AskStart, AskStop, AskDownload, LogThreads

LEMMA LineKeepsLogs ==
  ASSUME LogsIInv, AppendLine
  PROVE  LogsIInv'
<1>1. PICK g \in LogGroups : logFiles' = logFiles \cup {<<logState.label, g>>}
  BY DEF AppendLine
<1>2. logState.label \in 1 .. LogProductions
  BY LogFacts DEF AppendLine
<1>3. logFiles' \subseteq (1 .. LogProductions) \X LogGroups
  BY <1>1, <1>2, LogFacts
<1>4. UNCHANGED <<logState, mas0030, logTold, logThread, logStarts>>
  BY DEF AppendLine
<1> QED
  BY <1>3, <1>4 DEF LogsIInv, LogsTypeOK, LogCounted, LogSound, LogAt, LogStates

LEMMA ManifestKeepsLogs ==
  ASSUME LogsIInv, NEW t \in LogThreads, LogStep(t)
  PROVE  LogsIInv'
<1>0. /\ logState \in LogStates /\ LogSound(logState) /\ logFiles \subseteq (1 .. LogProductions) \X LogGroups
      /\ mas0030 \in 0 .. 1 /\ logTold \in 0 .. 2 /\ \A label : Existing(label) \in SUBSET LogGroups
      /\ logThread[t] \in LogWorks /\ LogSound(logThread[t].copy)
  BY LogFacts
<1>w. logThread[t].copy \in LogStates /\ logThread[t].found \in SUBSET LogGroups
  BY <1>0 DEF LogWorks
<1>1. CASE ReadLogState(t)
  <2>1. "list" \in LogPoints \ {"idle", "startWrite", "startParam"} /\ ~LogAt(t, "idle")
    BY <1>1 DEF ReadLogState, LogAt, LogPoints
  <2>2. /\ logThread' = [logThread EXCEPT ![t].at = "list", ![t].copy = logState]
        /\ UNCHANGED <<logState, logFiles, mas0030, logTold, logStarts>>
    BY <1>1 DEF ReadLogState, logBudgets
  <2> QED
    BY <1>0, <2>1, <2>2, LogReads
<1>2. CASE ListFiles(t)
  <2> DEFINE found == Existing(logThread[t].copy.label)
  <2>1. "reconcile" \in LogPoints \ {"idle", "startWrite", "startParam"} /\ ~LogAt(t, "idle")
    BY <1>2 DEF ListFiles, LogAt, LogPoints
  <2>2. /\ logThread' = [logThread EXCEPT ![t].at = "reconcile", ![t].found = found]
        /\ UNCHANGED <<logState, logFiles, mas0030, logTold, logStarts>>
    BY <1>2 DEF ListFiles, logBudgets
  <2>3. found \in SUBSET LogGroups
    BY <1>0
  <2> HIDE DEF found
  <2> QED
    BY <1>0, <2>1, <2>2, <2>3, LogFinds
<1>3. CASE Reconcile(t)
  <2> DEFINE u == logThread[t]
             new == Reconciled(u.copy, u.found)
             w == [u EXCEPT !.at = "param", !.copy = new]
  <2>1. ReadyNow(u.copy, u.found) \in BOOLEAN
    BY DEF ReadyNow
  <2>2. new \in LogStates /\ new.active = u.copy.active /\ new.label = u.copy.label
        /\ new.ready = ReadyNow(u.copy, u.found)
    BY <1>w, <2>1 DEF Reconciled, LogStates
  <2>3. LogSound(new)
    BY <1>0, <2>2 DEF LogSound, ReadyNow
  <2>4. u.at = "reconcile" /\ u.job # "none"
    BY <1>3, LogFacts DEF Reconcile, LogAt
  <2>5. logState' \in {logState, new} /\ logThread' = [logThread EXCEPT ![t].at = "param", ![t].copy = new]
    BY <1>3 DEF Reconcile
  <2>6. logState' \in LogStates /\ LogSound(logState')
    BY <1>0, <2>2, <2>3, <2>5
  <2> HIDE DEF new
  <2>7. w \in LogWorks /\ w.at = "param" /\ w.job = u.job /\ w.copy = new
    BY <1>0, <2>2 DEF LogWorks, LogPoints
  <2>8. logThread' = [logThread EXCEPT ![t] = w]
    BY <2>5, LogFacts
  <2>9. UNCHANGED <<logFiles, mas0030, logTold, logStarts>>
    BY <1>3 DEF Reconcile, logBudgets
  <2> HIDE DEF w
  <2> QED
    BY <1>0, <2>3, <2>4, <2>6, <2>7, <2>8, <2>9, LogKeeps
<1>4. CASE SetReadyParam(t)
  <2>1. /\ ~LogAt(t, "idle") /\ mas0030' \in 0 .. 1
        /\ UNCHANGED <<logState, logFiles, logTold, logStarts>>
    BY <1>4 DEF SetReadyParam, LogAt, logBudgets
  <2>2. CASE LogDone(t)
    BY <1>0, <2>1, <2>2, LogEnds
  <2>3. CASE LogGo(t, "startRead")
    <3>1. "startRead" \in LogPoints \ {"idle", "startWrite", "startParam"}
      BY DEF LogPoints
    <3> QED
      BY <1>0, <2>1, <2>3, <3>1, LogGoes
  <2>4. ASSUME NEW g \in logThread[t].found,
               logThread' = [logThread EXCEPT ![t].at = "remove", ![t].found = {g}]
        PROVE  LogsIInv'
    <3>1. "remove" \in LogPoints \ {"idle", "startWrite", "startParam"} /\ {g} \in SUBSET LogGroups
      BY <1>w DEF LogPoints
    <3> QED
      BY <1>0, <2>1, <2>4, <3>1, LogFinds
  <2> QED
    BY <1>4, <2>2, <2>3, <2>4 DEF SetReadyParam
<1> QED
  BY <1>1, <1>2, <1>3, <1>4 DEF LogStep

\* A start counts the production it names; the recording's files carry its label.
LEMMA CommandKeepsLogs ==
  ASSUME LogsIInv, CommandStep, ~LogStep("command")
  PROVE  LogsIInv'
<1> DEFINE u == logThread["command"]
<1>0. /\ logState \in LogStates /\ LogSound(logState) /\ logFiles \subseteq (1 .. LogProductions) \X LogGroups
      /\ mas0030 \in 0 .. 1 /\ logTold \in 0 .. 2 /\ \A label : Existing(label) \in SUBSET LogGroups
      /\ logThread \in [LogThreads -> LogWorks]
      /\ logState.label # 0 => logState.label \in 1 .. LogProductions
  BY LogFacts
<1>t. "command" \in LogThreads /\ LifeGroup \in LogGroups
  BY LogsAssumption DEF LogThreads
<1>u. u \in LogWorks /\ LogSound(u.copy) /\ (~LogAt("command", "idle") => u.job # "none")
  BY <1>t, LogFacts DEF LogAt
<1>c. logStarts \in 0 .. LogProductions /\ LogProductions \in Nat \ {0}
  BY LogsAssumption DEF LogsIInv, LogCounted
<1>1. CASE StartRead
  <2>1. UNCHANGED <<logState, logFiles, mas0030, logTold, logStarts>> /\ ~LogAt("command", "idle")
    BY <1>1 DEF StartRead, logBudgets, LogAt
  <2>2. CASE LogDone("command")
    BY <1>0, <1>t, <2>1, <2>2, LogEnds
  <2>3. CASE LogGo("command", "startWrite") /\ logStarts # LogProductions
    <3> DEFINE w == [NoLogWork EXCEPT !.at = "startWrite", !.job = u.job]
    <3>1. w \in LogWorks /\ w.at = "startWrite" /\ w.job # "none" /\ LogSound(w.copy)
      BY <1>u, <2>1, LogRests DEF NoLogWork, LogWorks, LogPoints
    <3>2. logThread' = [logThread EXCEPT !["command"] = w]
      BY <1>0, <2>3 DEF LogGo
    <3> HIDE DEF w
    <3>3. logThread'["command"].at = "startWrite"
      BY <1>0, <1>t, <3>1, <3>2
    <3>4. LogCounted'
      BY <1>c, <2>1, <2>3, <3>3 DEF LogCounted, LogAt
    <3> QED
      BY <1>0, <1>t, <2>1, <3>1, <3>2, <3>4, LogFrame
  <2> QED
    BY <1>1, <2>2, <2>3 DEF StartRead
<1>2. CASE StartWrite
  <2> DEFINE new == [active |-> TRUE, ready |-> FALSE, stopped |-> FALSE,
                     label |-> logStarts + 1, names |-> LogGroups]
             w == [NoLogWork EXCEPT !.at = "startParam", !.job = u.job]
  <2>1. LogAt("command", "startWrite") /\ logState' = new /\ logStarts' = logStarts + 1
        /\ LogGo("command", "startParam") /\ UNCHANGED <<logFiles, mas0030, logTold>>
    BY <1>2 DEF StartWrite
  <2>2. logStarts # LogProductions
    BY <2>1 DEF LogsIInv, LogCounted
  <2>3. new \in LogStates /\ LogSound(new)
    BY <1>c, <2>2 DEF LogStates, LogSound
  <2>4. w \in LogWorks /\ w.at = "startParam" /\ w.job # "none" /\ LogSound(w.copy)
    BY <1>u, <2>1, LogRests DEF NoLogWork, LogWorks, LogPoints, LogAt
  <2>5. logThread' = [logThread EXCEPT !["command"] = w]
    BY <1>0, <2>1 DEF LogGo
  <2> HIDE DEF new, w
  <2>6. logThread'["command"].at = "startParam"
    BY <1>0, <1>t, <2>4, <2>5
  <2>7. LogCounted'
    BY <1>c, <2>1, <2>2, <2>6 DEF LogCounted, LogAt
  <2> QED
    BY <1>0, <1>t, <2>1, <2>3, <2>4, <2>5, <2>7, LogFrame
<1>3. CASE StartParam
  <2>1. LogDone("command") /\ mas0030' = 0 /\ UNCHANGED <<logState, logTold, logStarts>>
        /\ logFiles' = logFiles \cup {<<logStarts, LifeGroup>>} /\ LogAt("command", "startParam")
    BY <1>3 DEF StartParam, logBudgets
  <2>2. logStarts \in 1 .. LogProductions
    BY <1>c, <2>1 DEF LogsIInv, LogCounted
  <2> QED
    BY <1>0, <1>t, <2>1, <2>2, LogEnds
<1>4. CASE StopRead
  <2>1. UNCHANGED <<logState, mas0030, logTold, logStarts>> /\ ~LogAt("command", "idle")
    BY <1>4 DEF StopRead, logBudgets, LogAt
  <2>2. CASE /\ logThread' = [logThread EXCEPT !["command"].at = "stopWrite", !["command"].copy = logState]
             /\ logFiles' = logFiles \cup {<<logState.label, LifeGroup>>} /\ logState.active
    <3>1. "stopWrite" \in LogPoints \ {"idle", "startWrite", "startParam"}
      BY DEF LogPoints
    <3>2. logFiles' \subseteq (1 .. LogProductions) \X LogGroups
      BY <1>0, <1>t, <2>2 DEF LogSound
    <3> QED
      BY <1>0, <1>t, <2>1, <2>2, <3>1, <3>2, LogReads
  <2>3. CASE LogDone("command") /\ UNCHANGED logFiles
    BY <1>0, <1>t, <2>1, <2>3, LogEnds
  <2> QED
    BY <1>4, <2>2, <2>3 DEF StopRead
<1>5. CASE StopWrite
  <2> DEFINE files == Existing(u.copy.label)
             there == IF files # {} THEN "stopParam" ELSE "stopEmpty"
             new == LogStopped(u.copy, files)
  <2>1. logState' = new /\ LogGo("command", there) /\ UNCHANGED <<logFiles, mas0030, logTold, logStarts>>
        /\ ~LogAt("command", "idle")
    BY <1>5 DEF StopWrite, logBudgets, LogAt
  <2>2. there \in LogPoints \ {"idle", "startWrite", "startParam"}
    BY DEF LogPoints
  <2>3. files \in SUBSET LogGroups /\ u.copy \in LogStates
    BY <1>0, <1>u DEF LogWorks
  <2> HIDE DEF files
  <2>4. new \in LogStates /\ LogSound(new)
    BY <2>3 DEF LogStopped, LogStates, LogSound
  <2> HIDE DEF there, new
  <2> QED
    BY <1>0, <1>t, <2>1, <2>2, <2>4, LogGoes
<1>6. CASE StopParam
  <2>1. UNCHANGED <<logState, logFiles, logTold, logStarts>> /\ ~LogAt("command", "idle") /\ mas0030' \in 0 .. 1
    BY <1>6 DEF StopParam, logBudgets, LogAt
  <2>2. CASE LogGo("command", "stopTell")
    <3>1. "stopTell" \in LogPoints \ {"idle", "startWrite", "startParam"}
      BY DEF LogPoints
    <3> QED
      BY <1>0, <1>t, <2>1, <2>2, <3>1, LogGoes
  <2>3. CASE LogDone("command")
    BY <1>0, <1>t, <2>1, <2>3, LogEnds
  <2> QED
    BY <1>6, <2>2, <2>3 DEF StopParam
<1>7. CASE StopTell
  <2>1. UNCHANGED <<logState, logFiles, mas0030, logStarts>> /\ logTold' = 1 /\ LogDone("command")
    BY <1>7 DEF StopTell, logBudgets
  <2> QED
    BY <1>0, <1>t, <2>1, LogEnds
<1> QED
  BY <1>1, <1>2, <1>3, <1>4, <1>5, <1>6, <1>7 DEF CommandStep

\* The download writes back a copy that was never both recording and offered.
LEMMA DownloadKeepsLogs ==
  ASSUME LogsIInv, DownloadStep, ~LogStep("download")
  PROVE  LogsIInv'
<1> DEFINE u == logThread["download"]
<1>0. /\ logState \in LogStates /\ LogSound(logState) /\ logFiles \subseteq (1 .. LogProductions) \X LogGroups
      /\ mas0030 \in 0 .. 1 /\ logTold \in 0 .. 2 /\ \A label : Existing(label) \in SUBSET LogGroups
      /\ logThread \in [LogThreads -> LogWorks]
  BY LogFacts
<1>t. "download" \in LogThreads
  BY DEF LogThreads
<1>u. u \in LogWorks /\ LogSound(u.copy) /\ (~LogAt("download", "idle") => u.job # "none")
      /\ u.copy \in LogStates /\ u.found \in SUBSET LogGroups
  BY <1>t, LogFacts DEF LogAt, LogWorks
<1>1. CASE RemoveFile
  <2>1. UNCHANGED <<logState, mas0030, logTold, logStarts>> /\ ~LogAt("download", "idle")
        /\ LogGo("download", "again") /\ logFiles' \subseteq logFiles
    BY <1>1 DEF RemoveFile, logBudgets, LogAt
  <2>2. "again" \in LogPoints \ {"idle", "startWrite", "startParam"}
    BY DEF LogPoints
  <2>3. logFiles' \subseteq (1 .. LogProductions) \X LogGroups
    BY <1>0, <2>1
  <2> QED
    BY <1>0, <1>t, <2>1, <2>2, <2>3, LogGoes
<1>2. CASE LookAgain
  <2> DEFINE found == Existing(logState.label)
             there == AfterDownload(logState, found)
             w == [u EXCEPT !.at = there, !.copy = logState, !.found = found]
  <2>1. /\ UNCHANGED <<logState, logFiles, mas0030, logTold, logStarts>> /\ ~LogAt("download", "idle")
        /\ logThread' = [logThread EXCEPT !["download"].at = there, !["download"].copy = logState,
                                          !["download"].found = found]
    BY <1>2 DEF LookAgain, logBudgets, LogAt
  <2>2. there \in LogPoints \ {"idle", "startWrite", "startParam"} /\ found \in SUBSET LogGroups
    BY <1>0 DEF LogPoints, AfterDownload
  <2> HIDE DEF there, found
  <2>3. w \in LogWorks /\ w.at = there /\ w.job # "none" /\ w.copy = logState
    BY <1>0, <1>u, <2>1, <2>2 DEF LogWorks
  <2>4. logThread' = [logThread EXCEPT !["download"] = w]
    BY <1>0, <2>1
  <2> HIDE DEF w
  <2> QED
    BY <1>0, <1>t, <2>1, <2>2, <2>3, <2>4, LogKeeps
<1>3. CASE WriteNames
  <2> DEFINE new == [u.copy EXCEPT !.names = u.found]
  <2>1. UNCHANGED <<logFiles, mas0030, logTold, logStarts>> /\ LogDone("download") /\ logState' \in {logState, new}
    BY <1>3 DEF WriteNames, logBudgets
  <2>2. new \in LogStates /\ LogSound(new)
    BY <1>u DEF LogStates, LogSound
  <2> HIDE DEF new
  <2>3. logState' \in LogStates /\ LogSound(logState')
    BY <1>0, <2>1, <2>2
  <2> QED
    BY <1>0, <1>t, <2>1, <2>3, LogEnds
<1>4. CASE WriteUnready
  <2> DEFINE new == [u.copy EXCEPT !.ready = FALSE, !.names = {}]
  <2>1. UNCHANGED <<logFiles, mas0030, logTold, logStarts>> /\ LogGo("download", "tell") /\ logState' = new
        /\ ~LogAt("download", "idle")
    BY <1>4 DEF WriteUnready, logBudgets, LogAt
  <2>2. new \in LogStates /\ LogSound(new)
    BY <1>u DEF LogStates, LogSound
  <2>3. "tell" \in LogPoints \ {"idle", "startWrite", "startParam"}
    BY DEF LogPoints
  <2> HIDE DEF new
  <2> QED
    BY <1>0, <1>t, <2>1, <2>2, <2>3, LogGoes
<1>5. CASE DownloadParam
  <2>1. UNCHANGED <<logState, logFiles, logTold, logStarts>> /\ LogDone("download") /\ mas0030' = 0
    BY <1>5 DEF DownloadParam, logBudgets
  <2> QED
    BY <1>0, <1>t, <2>1, LogEnds
<1> QED
  BY <1>1, <1>2, <1>3, <1>4, <1>5 DEF DownloadStep

\* The state of the logs keeps its type whatever the three threads write over each other,
\* a thread at rest holds no job, and a production that is still being recorded is not
\* offered to Microtom: no copy that a manifest, a stop or a download writes back is both
\* (production_logs.py).
THEOREM LogsCorrect == LogsSpec => []LogsTypeOK
<1>1. LogsInit => LogsIInv
  BY LogsStart
<1>2. LogsIInv /\ [LogsNext]_logVars => LogsIInv'
  <2> SUFFICES ASSUME LogsIInv, [LogsNext]_logVars PROVE LogsIInv'
    OBVIOUS
  <2>1. CASE LogsNext
    <3>1. \A t \in LogThreads : LogStep(t) => LogsIInv'
      BY ManifestKeepsLogs
    <3>2. LogStep("command") \/ LogStep("poll") \/ LogStep("download") => LogsIInv'
      BY <3>1 DEF LogThreads
    <3>3. AskStart \/ AskStop \/ AskManifest \/ AskDownload \/ AppendLine => LogsIInv'
      BY LogsAsked, LineKeepsLogs
    <3>4. CommandStep \/ DownloadStep => LogsIInv'
      BY <3>2, CommandKeepsLogs, DownloadKeepsLogs
    <3> QED
      BY <2>1, <3>2, <3>3, <3>4 DEF LogsNext
  <2>2. CASE UNCHANGED logVars
    BY <2>2 DEF logVars, LogsIInv, LogsTypeOK, LogCounted, LogSound, LogAt, LogStates
  <2> QED
    BY <2>1, <2>2
<1>3. LogsIInv => LogsTypeOK
  BY DEF LogsIInv
<1> QED
  BY <1>1, <1>2, <1>3, PTL DEF LogsSpec

-----------------------------------------------------------------------------
(* The register of labels (module Labels)                                  *)

LbPoints == {"idle", "look", "book", "ask", "keep", "report", "mark"}
LbRows == {"none", "open", "emitted"}
LbWorks == [at : LbPoints, ev : LabelEvents \cup {NoLabelEvent}, label : LabelProds \cup {0},
            emitted : BOOLEAN, forward : BOOLEAN]

\* The thread h has event n of the current production in hand, for that production.
LbHolds(h, n, points) ==
  LET w == labelHandler[h] IN
  w.at \in points /\ w.label = prodNow /\ w.ev.prod = prodNow /\ w.ev.no = n

\* A handler at work has an event and a name, no name lies ahead of the current production,
\* and past the booking of a label of the current production its row stands.
LbNamed(h) ==
  LET w == labelHandler[h] IN
  /\ w.label <= prodNow
  /\ w.at # "idle" => w.ev \in LabelEvents /\ w.label \in LabelProds
  /\ w.at \in {"ask", "keep", "report", "mark"} /\ w.label = prodNow =>
       labelRegister[prodNow][w.ev.no] # "none"

\* Why a thread does not report a label twice: what it has reported is marked, or it is
\* about to mark it, and what it is about to report it has not reported yet.
LbOnce(h, n) ==
  LET sent == labelReports[prodNow][n][h] IN
  /\ sent <= 1
  /\ sent = 1 => labelRegister[prodNow][n] = "emitted" \/ LbHolds(h, n, {"mark"})
  /\ LbHolds(h, n, {"ask", "keep", "report"}) => sent = 0
  /\ LbHolds(h, n, {"book"}) /\ ~labelHandler[h].emitted => sent = 0

\* Nothing is reported ahead of the current production.
LbAhead ==
  \A p \in LabelProds : p > prodNow => \A n \in LabelNumbers, h \in LabelThreads : labelReports[p][n][h] = 0

LbStored == LabelsTypeOK /\ lostAcks \in Nat /\ labelCrashes \in Nat

LabelsIInv ==
  /\ LbStored /\ LbAhead
  /\ \A h \in LabelThreads : LbNamed(h)
  /\ labelCrashes = 0 => \A h \in LabelThreads, n \in LabelNumbers : LbOnce(h, n)

LEMMA LbFixed ==
  /\ LabelProds' = LabelProds /\ LabelNumbers' = LabelNumbers /\ LabelThreads' = LabelThreads
  /\ LabelEvents' = LabelEvents /\ NoLabelEvent' = NoLabelEvent
BY DEF LabelProds, LabelNumbers, LabelThreads, LabelEvents, NoLabelEvent

LEMMA LbFacts ==
  ASSUME LbStored
  PROVE  /\ prodNow \in LabelProds /\ LabelProds \subseteq Nat /\ LabelNumbers \subseteq Nat
         /\ labelHandler \in [LabelThreads -> LbWorks]
         /\ \A h \in LabelThreads : /\ labelHandler[h] \in LbWorks
                                    /\ labelHandler[h].ev \in LabelEvents \cup {NoLabelEvent}
                                    /\ labelHandler[h].label \in LabelProds \cup {0}
         /\ labelRegister \in [LabelProds -> [LabelNumbers -> LbRows]]
         /\ labelReports \in [LabelProds -> [LabelNumbers -> [LabelThreads -> Nat]]]
<1>1. labelHandler \in [LabelThreads -> LbWorks]
  BY DEF LbStored, LabelsTypeOK, LbWorks, LbPoints
<1>2. \A h \in LabelThreads : /\ labelHandler[h] \in LbWorks
                              /\ labelHandler[h].ev \in LabelEvents \cup {NoLabelEvent}
                              /\ labelHandler[h].label \in LabelProds \cup {0}
  BY <1>1 DEF LbWorks
<1>3. LabelProds \subseteq Nat /\ LabelNumbers \subseteq Nat
  BY DEF LabelProds, LabelNumbers
<1> QED
  BY <1>1, <1>2, <1>3 DEF LbStored, LabelsTypeOK, LbRows

\* What one thread must show for the invariant when it takes a step of its own, or when no
\* thread does: the rows of the current production only grow.
LEMMA LbFrame ==
  ASSUME LabelsIInv, LbStored', NEW h \in LabelThreads,
         prodNow' = prodNow, labelCrashes' = labelCrashes,
         \A k \in LabelThreads \ {h} : labelHandler'[k] = labelHandler[k],
         \A k \in LabelThreads, n \in LabelNumbers, p \in LabelProds :
           k # h \/ p > prodNow => labelReports'[p][n][k] = labelReports[p][n][k],
         \A n \in LabelNumbers : /\ labelRegister[prodNow][n] = "emitted" => labelRegister'[prodNow][n] = "emitted"
                                 /\ labelRegister[prodNow][n] # "none" => labelRegister'[prodNow][n] # "none",
         LbNamed(h)',
         labelCrashes = 0 => \A n \in LabelNumbers : LbOnce(h, n)'
  PROVE  LabelsIInv'
<1>1. prodNow \in LabelProds
  BY LbFacts DEF LabelsIInv
<1>2. LbAhead'
  BY DEF LabelsIInv, LbAhead, LabelProds, LabelNumbers
<1>3. ASSUME NEW k \in LabelThreads, k # h PROVE LbNamed(k)'
  <2>1. labelHandler'[k] = labelHandler[k] /\ LbNamed(k)
    BY <1>3 DEF LabelsIInv
  <2>2. labelHandler[k].at \in {"ask", "keep", "report", "mark"} => labelHandler[k].ev.no \in LabelNumbers
    BY <2>1 DEF LbNamed, LabelEvents
  <2> QED
    BY <2>1, <2>2 DEF LbNamed, LabelProds, LabelEvents
<1>4. ASSUME NEW k \in LabelThreads, k # h, labelCrashes = 0, NEW n \in LabelNumbers PROVE LbOnce(k, n)'
  <2>1. labelHandler'[k] = labelHandler[k] /\ LbOnce(k, n) /\ labelReports'[prodNow][n][k] = labelReports[prodNow][n][k]
    BY <1>1, <1>4 DEF LabelsIInv
  <2> QED
    BY <2>1 DEF LbOnce, LbHolds
<1>5. \A k \in LabelThreads : LbNamed(k)'
  BY <1>3
<1>6. labelCrashes = 0 => \A k \in LabelThreads, n \in LabelNumbers : LbOnce(k, n)'
  BY <1>4
<1>7. LabelNumbers' = LabelNumbers /\ LabelThreads' = LabelThreads
  BY DEF LabelNumbers, LabelThreads
<1> QED
  BY <1>2, <1>5, <1>6, <1>7 DEF LabelsIInv

\* A step that leaves handlers, register, reports and the production alone.
LEMMA LbStill ==
  ASSUME LabelsIInv, LbStored', UNCHANGED <<prodNow, labelHandler, labelRegister, labelReports, labelCrashes>>
  PROVE  LabelsIInv'
BY DEF LabelsIInv, LbAhead, LbNamed, LbOnce, LbHolds, LabelProds, LabelNumbers, LabelThreads, LabelEvents

\* A thread at rest.
LEMMA LbAtRest ==
  ASSUME NEW h \in LabelThreads, labelHandler'[h] = NoLabelWork, prodNow' \in Nat
  PROVE  LbNamed(h)'
BY DEF LbNamed, NoLabelWork

\* A row of the register, and a report, are written in place.
LbBooked(a, b, v) == [labelRegister EXCEPT ![a][b] = v]

LEMMA LbWritten ==
  ASSUME LbStored, NEW a \in LabelProds, NEW b \in LabelNumbers, NEW v \in LbRows,
         labelRegister' = LbBooked(a, b, v)
  PROVE  /\ labelRegister' \in [LabelProds -> [LabelNumbers -> LbRows]]
         /\ \A p \in LabelProds, n \in LabelNumbers :
              labelRegister'[p][n] = IF p = a /\ n = b THEN v ELSE labelRegister[p][n]
<1>1. labelRegister \in [LabelProds -> [LabelNumbers -> LbRows]]
  BY LbFacts
<1>2. DEFINE row == [labelRegister[a] EXCEPT ![b] = v]
<1>3. row \in [LabelNumbers -> LbRows] /\ \A n \in LabelNumbers : row[n] = IF n = b THEN v ELSE labelRegister[a][n]
  BY <1>1
<1>4. labelRegister' = [labelRegister EXCEPT ![a] = row]
  BY <1>1 DEF LbBooked
<1> HIDE DEF row
<1> QED
  BY <1>1, <1>3, <1>4

LbReported(a, b, h) == [labelReports EXCEPT ![a][b][h] = @ + 1]

LEMMA LbCounted ==
  ASSUME LbStored, NEW a \in LabelProds, NEW b \in LabelNumbers, NEW h \in LabelThreads,
         labelReports' = LbReported(a, b, h)
  PROVE  /\ labelReports' \in [LabelProds -> [LabelNumbers -> [LabelThreads -> Nat]]]
         /\ \A p \in LabelProds, n \in LabelNumbers, k \in LabelThreads :
              labelReports'[p][n][k] = IF p = a /\ n = b /\ k = h THEN labelReports[p][n][k] + 1
                                       ELSE labelReports[p][n][k]
<1>1. labelReports \in [LabelProds -> [LabelNumbers -> [LabelThreads -> Nat]]]
  BY LbFacts
<1> DEFINE one == [labelReports[a][b] EXCEPT ![h] = @ + 1]
<1> DEFINE row == [labelReports[a] EXCEPT ![b] = one]
<1>2. one \in [LabelThreads -> Nat]
      /\ \A k \in LabelThreads : one[k] = IF k = h THEN labelReports[a][b][k] + 1 ELSE labelReports[a][b][k]
  BY <1>1
<1>3. labelReports' = [labelReports EXCEPT ![a] = row]
  BY <1>1 DEF LbReported
<1> HIDE DEF one
<1>4. row \in [LabelNumbers -> [LabelThreads -> Nat]]
      /\ \A n \in LabelNumbers : row[n] = IF n = b THEN one ELSE labelReports[a][n]
  BY <1>1, <1>2
<1> HIDE DEF row
<1> QED
  BY <1>1, <1>2, <1>3, <1>4

LEMMA LbStep ==
  ASSUME LbStored, NEW h \in LabelThreads, NEW from \in LbPoints, NEW to \in LbPoints, LabelStep(h, from, to)
  PROVE  /\ labelHandler' \in [LabelThreads -> LbWorks]
         /\ \A k \in LabelThreads \ {h} : labelHandler'[k] = labelHandler[k]
         /\ labelHandler[h].at = from
         /\ to = "idle" => labelHandler'[h] = NoLabelWork
         /\ to # "idle" => /\ labelHandler'[h].at = to
                           /\ labelHandler'[h].ev = labelHandler[h].ev
                           /\ labelHandler'[h].label = labelHandler[h].label
                           /\ labelHandler'[h].emitted = labelHandler[h].emitted
<1>1. labelHandler \in [LabelThreads -> LbWorks] /\ labelHandler[h] \in LbWorks
  BY LbFacts
<1> DEFINE w == IF to = "idle" THEN NoLabelWork ELSE [labelHandler[h] EXCEPT !.at = to]
<1>2. NoLabelWork \in LbWorks
  BY DEF NoLabelWork, LbWorks, LbPoints
<1>3. w \in LbWorks
  BY <1>1, <1>2 DEF LbWorks
<1>4. /\ to = "idle" => w = NoLabelWork
      /\ to # "idle" => /\ w.at = to /\ w.ev = labelHandler[h].ev /\ w.label = labelHandler[h].label
                        /\ w.emitted = labelHandler[h].emitted
  BY <1>1 DEF LbWorks
<1>5. labelHandler' = [labelHandler EXCEPT ![h] = w] /\ labelHandler[h].at = from
  BY <1>1 DEF LabelStep
<1> HIDE DEF w
<1> QED
  BY <1>1, <1>3, <1>4, <1>5

LEMMA LabelsStart == LabelsInit => LabelsIInv
<1> SUFFICES ASSUME LabelsInit PROVE LabelsIInv
  OBVIOUS
<1>1. NoLabelWork \in LbWorks /\ NoLabelWork.label = 0 /\ NoLabelWork.at = "idle"
  BY DEF NoLabelWork, LbWorks, LbPoints
<1>2. 1 \in LabelProds /\ LabelProds \subseteq Nat /\ LabelNumbers \subseteq Nat
  BY LabelsAssumption DEF LabelProds, LabelNumbers
<1>3. /\ labelReports \in [LabelProds -> [LabelNumbers -> [LabelThreads -> Nat]]]
      /\ \A p \in LabelProds, n \in LabelNumbers, h \in LabelThreads : labelReports[p][n][h] = 0
  BY DEF LabelsInit
<1>4. /\ labelHandler \in [LabelThreads -> LbWorks]
      /\ \A h \in LabelThreads : labelHandler[h] = NoLabelWork
  BY <1>1 DEF LabelsInit
<1>5. labelRegister \in [LabelProds -> [LabelNumbers -> {"none", "open", "emitted"}]]
  BY DEF LabelsInit
<1>6. labelsMade \in [LabelProds -> 0 .. LabelNos]
  BY LabelsAssumption DEF LabelsInit
<1>7. LbStored
  BY <1>2, <1>3, <1>4, <1>5, <1>6, LabelsAssumption, EmptySeq
     DEF LabelsInit, LbStored, LabelsTypeOK, LbWorks, LbPoints
<1>8. \A h \in LabelThreads : LbNamed(h)
  BY <1>1, <1>4 DEF LbNamed, LabelsInit
<1>9. \A h \in LabelThreads, n \in LabelNumbers : LbOnce(h, n)
  BY <1>1, <1>2, <1>3, <1>4 DEF LbOnce, LbHolds, LabelsInit
<1> QED
  BY <1>3, <1>7, <1>8, <1>9 DEF LabelsIInv, LbAhead

\* The events of a queue are events.
LEMMA LbQueued == ASSUME NEW s \in Seq(LabelEvents) PROVE ToSet(s) \subseteq LabelEvents
BY ElementOfSeq DEF ToSet

LEMMA LbMade ==
  ASSUME LabelsIInv, CompleteLabel \/ (\E answered \in BOOLEAN : PushLabel(answered))
                     \/ StartLabelRun \/ LabelPause \/ StopLabelRun
  PROVE  LabelsIInv'
<1>0. LbStored /\ prodNow \in LabelProds /\ LabelProds \subseteq Nat
  BY LbFacts DEF LabelsIInv
<1>1. CASE CompleteLabel
  <2>1. /\ labelsMade[prodNow] < LabelNos
        /\ labelsMade' = [labelsMade EXCEPT ![prodNow] = @ + 1]
        /\ espLabels' = Append(espLabels, [prod |-> prodNow, no |-> labelsMade[prodNow] + 1])
        /\ UNCHANGED <<prodMode, prodNow, labelDispatch, labelHandler, labelRegister, labelKnown, labelReports,
                       labelMarked, labelsGone, lostAcks, labelCrashes>>
    BY <1>1 DEF CompleteLabel, labelStore, labelBudgets
  <2> DEFINE made == labelsMade[prodNow] + 1
             event == [prod |-> prodNow, no |-> made]
  <2>2. made \in 1 .. LabelNos /\ labelsMade' \in [LabelProds -> 0 .. LabelNos]
    BY <1>0, <2>1, LabelsAssumption DEF LbStored, LabelsTypeOK
  <2>3. event \in LabelEvents
    BY <1>0, <2>2 DEF LabelEvents, LabelNumbers
  <2> HIDE DEF event
  <2>4. espLabels' \in Seq(LabelEvents)
    BY <1>0, <2>1, <2>3, AppendProperties DEF LbStored, LabelsTypeOK, event
  <2>5. LbStored'
    BY <1>0, <2>1, <2>2, <2>4, LbFixed DEF LbStored, LabelsTypeOK
  <2> QED
    BY <2>1, <2>5, LbStill
<1>2. ASSUME NEW answered \in BOOLEAN, PushLabel(answered) PROVE LabelsIInv'
  <2>1. /\ espLabels # <<>>
        /\ labelDispatch' = IF HasRoom THEN Append(labelDispatch, Head(espLabels)) ELSE labelDispatch
        /\ espLabels' \in {Tail(espLabels), espLabels}
        /\ lostAcks' \in {lostAcks, lostAcks + 1}
        /\ UNCHANGED <<prodMode, prodNow, labelsMade, labelHandler, labelRegister, labelKnown, labelReports,
                       labelMarked, labelsGone, labelCrashes>>
    BY <1>2 DEF PushLabel, labelMachine, labelStore
  <2>2. espLabels \in Seq(LabelEvents) /\ labelDispatch \in Seq(LabelEvents) /\ Len(labelDispatch) <= QueueSize
    BY <1>0 DEF LbStored, LabelsTypeOK
  <2>3. Head(espLabels) \in LabelEvents /\ espLabels' \in Seq(LabelEvents)
    BY <2>1, <2>2, HeadTailProperties
  <2>4. labelDispatch' \in Seq(LabelEvents) /\ Len(labelDispatch') <= QueueSize
    <3>1. CASE HasRoom
      <4>1. labelDispatch' \in Seq(LabelEvents) /\ Len(labelDispatch') = Len(labelDispatch) + 1
        BY <2>1, <2>2, <2>3, <3>1, AppendProperties
      <4>2. Len(labelDispatch) \in Nat
        BY <2>2, LenProperties
      <4> QED
        BY <3>1, <4>1, <4>2, LabelsAssumption DEF HasRoom
    <3>2. CASE ~HasRoom
      BY <2>1, <2>2, <3>2
    <3> QED
      BY <3>1, <3>2
  <2>a. lostAcks' \in Nat
    BY <1>0, <2>1 DEF LbStored
  <2>5. LbStored'
    BY <1>0, <2>1, <2>a, <2>3, <2>4, LbFixed DEF LbStored, LabelsTypeOK
  <2> QED
    BY <2>1, <2>5, LbStill
<1>3. CASE StartLabelRun \/ LabelPause \/ StopLabelRun
  <2>1. /\ prodMode' \in {"new", "run", "removal", "stopped"}
        /\ espLabels' \in {<<>>, espLabels} /\ labelsGone' \in {labelsGone, labelsGone \cup ToSet(espLabels)}
        /\ UNCHANGED <<prodNow, labelsMade, labelDispatch, labelHandler, labelRegister, labelKnown, labelReports,
                       labelMarked, lostAcks, labelCrashes>>
    BY <1>3 DEF StartLabelRun, LabelPause, StopLabelRun, labelStore, labelBudgets
  <2>2. espLabels \in Seq(LabelEvents) /\ <<>> \in Seq(LabelEvents)
    BY <1>0, EmptySeq DEF LbStored, LabelsTypeOK
  <2>3. ToSet(espLabels) \subseteq LabelEvents
    BY <2>2, LbQueued
  <2>4. espLabels' \in Seq(LabelEvents) /\ labelsGone' \subseteq LabelEvents
    BY <1>0, <2>1, <2>2, <2>3 DEF LbStored, LabelsTypeOK
  <2>5. LbStored'
    BY <1>0, <2>1, <2>4, LbFixed DEF LbStored, LabelsTypeOK
  <2> QED
    BY <2>1, <2>5, LbStill
<1> QED
  BY <1>1, <1>2, <1>3

\* A new production: nothing of it is reported or in hand yet.
LEMMA LbRenewed == ASSUME LabelsIInv, NewLabelProduction PROVE LabelsIInv'
<1>0. /\ LbStored /\ prodNow \in LabelProds /\ LabelProds \subseteq Nat
      /\ labelHandler \in [LabelThreads -> LbWorks]
      /\ \A h \in LabelThreads : labelHandler[h].label \in LabelProds \cup {0} /\ LbNamed(h)
      /\ labelReports \in [LabelProds -> [LabelNumbers -> [LabelThreads -> Nat]]]
  BY LbFacts DEF LabelsIInv
<1>r. labelRegister' = [p \in LabelProds |->
        IF p \in {prodNow, prodNow + 1} THEN [n \in LabelNumbers |-> "none"] ELSE labelRegister[p]]
  BY DEF NewLabelProduction
<1>1. /\ prodNow < Productions /\ prodNow' = prodNow + 1 /\ prodMode' = "new"
      /\ UNCHANGED <<labelsMade, espLabels, labelDispatch, labelHandler, labelKnown, labelReports, labelMarked,
                     labelsGone, lostAcks, labelCrashes>>
  BY DEF NewLabelProduction, labelBudgets
<1>2. prodNow' \in LabelProds
  BY <1>0, <1>1, LabelsAssumption DEF LabelProds
<1>3. labelRegister' \in [LabelProds -> [LabelNumbers -> {"none", "open", "emitted"}]]
  BY <1>0, <1>r DEF LbStored, LabelsTypeOK
<1>u. /\ prodMode' = "new" /\ labelCrashes' = labelCrashes
      /\ UNCHANGED <<labelsMade, espLabels, labelDispatch, labelHandler, labelKnown, labelReports, labelMarked,
                     labelsGone, lostAcks>>
  BY <1>1
<1>t. LabelsTypeOK /\ lostAcks \in Nat /\ labelCrashes \in Nat
  BY <1>0 DEF LbStored
<1>v. UNCHANGED <<LabelProds, LabelNumbers, LabelThreads, LabelEvents, NoLabelEvent>>
  BY LbFixed
<1>w. LabelsTypeOK'
  <2>1. /\ labelsMade \in [LabelProds -> 0 .. LabelNos]
        /\ espLabels \in Seq(LabelEvents) /\ labelDispatch \in Seq(LabelEvents) /\ Len(labelDispatch) <= QueueSize
        /\ labelKnown \in 0 .. WordSize /\ labelMarked \subseteq LabelEvents /\ labelsGone \subseteq LabelEvents
    BY <1>t DEF LabelsTypeOK
  <2>2. labelHandler' \in [LabelThreads -> LbWorks] /\ labelReports' \in [LabelProds -> [LabelNumbers -> [LabelThreads -> Nat]]]
    BY <1>0, <1>u
  <2> QED
    BY <1>u, <1>v, <1>2, <1>3, <2>1, <2>2 DEF LabelsTypeOK, LbWorks, LbPoints
<1>4. LbStored'
  BY <1>t, <1>u, <1>w DEF LbStored
<1>5. \A h \in LabelThreads : labelHandler[h].label <= prodNow /\ labelHandler[h].label # prodNow'
  BY <1>0, <1>1 DEF LbNamed
<1>6. \A h \in LabelThreads : LbNamed(h)'
  BY <1>0, <1>1, <1>5 DEF LbNamed, LabelEvents, LabelProds, LabelNumbers
<1>7. \A n \in LabelNumbers, h \in LabelThreads : labelReports[prodNow'][n][h] = 0
  <2>1. LbAhead /\ prodNow' > prodNow
    BY <1>0, <1>1 DEF LabelsIInv
  <2> QED
    BY <1>2, <2>1 DEF LbAhead
<1>8. LbAhead'
  BY <1>0, <1>1 DEF LabelsIInv, LbAhead, LabelProds, LabelNumbers, LabelThreads
<1>9. \A h \in LabelThreads, n \in LabelNumbers : LbOnce(h, n)'
  BY <1>1, <1>5, <1>7 DEF LbOnce, LbHolds
<1> QED
  BY <1>4, <1>6, <1>8, <1>9 DEF LabelsIInv, LabelNumbers, LabelThreads

LEMMA LbRestarts == ASSUME LabelsIInv, LabelRestart PROVE LabelsIInv'
<1>0. /\ LbStored /\ prodNow \in LabelProds /\ LabelProds \subseteq Nat
      /\ \A h \in LabelThreads : LbNamed(h)
  BY LbFacts DEF LabelsIInv
<1> DEFINE held == {labelHandler[h].ev : h \in {t \in LabelThreads : labelHandler[t].at # "idle"}}
<1>1. /\ labelCrashes' = labelCrashes + 1 /\ labelDispatch' = <<>>
      /\ labelsGone' = labelsGone \cup ToSet(labelDispatch) \cup held
      /\ labelHandler' = [h \in LabelThreads |-> NoLabelWork]
      /\ UNCHANGED <<prodMode, prodNow, labelsMade, espLabels, labelRegister, labelKnown, labelReports, labelMarked,
                     lostAcks>>
  BY DEF LabelRestart, labelMachine, labelStore
<1>2. held \subseteq LabelEvents
  BY <1>0 DEF LbNamed
<1>3. ToSet(labelDispatch) \subseteq LabelEvents
  BY <1>0, LbQueued DEF LbStored, LabelsTypeOK
<1> HIDE DEF held
<1>4. NoLabelWork \in LbWorks /\ NoLabelWork.label = 0 /\ NoLabelWork.at = "idle"
  BY DEF NoLabelWork, LbWorks, LbPoints
<1>5. labelHandler' \in [LabelThreads -> LbWorks]
  BY <1>1, <1>4
<1>6. Len(<<>>) = 0 /\ <<>> \in Seq(LabelEvents)
  BY EmptySeq
<1>a. labelCrashes' \in Nat /\ labelsGone' \subseteq LabelEvents
  BY <1>0, <1>1, <1>2, <1>3 DEF LbStored, LabelsTypeOK
<1>b. labelDispatch' \in Seq(LabelEvents) /\ Len(labelDispatch') <= QueueSize
  BY <1>1, <1>6, LabelsAssumption
<1>7. LbStored'
  BY <1>0, <1>1, <1>5, <1>a, <1>b, LbFixed
     DEF LbStored, LabelsTypeOK, LbWorks, LbPoints
<1>8. \A h \in LabelThreads : LbNamed(h)'
  BY <1>0, <1>1, <1>4 DEF LbNamed
<1>9. labelCrashes' # 0
  BY <1>0, <1>1 DEF LbStored
<1> QED
  BY <1>1, <1>7, <1>8, <1>9 DEF LabelsIInv, LbAhead, LabelProds, LabelNumbers, LabelThreads

\* A thread takes an event; what it did before is over.
LEMMA LbTaken == ASSUME LabelsIInv, DispatchLabel \/ FetchLabel PROVE LabelsIInv'
<1>0. /\ LbStored /\ prodNow \in LabelProds /\ LabelProds \subseteq Nat
      /\ labelHandler \in [LabelThreads -> LbWorks]
  BY LbFacts DEF LabelsIInv
<1>1. PICK h \in LabelThreads, queue \in {espLabels, labelDispatch} :
        /\ labelHandler[h].at = "idle" /\ queue # <<>> /\ TakeLabel(h, Head(queue))
        /\ espLabels' \in {espLabels, Tail(queue)} /\ (espLabels' # espLabels => queue = espLabels)
        /\ labelDispatch' \in {labelDispatch, Tail(queue)} /\ (labelDispatch' # labelDispatch => queue = labelDispatch)
  BY DEF DispatchLabel, FetchLabel, LabelThreads
<1>2. UNCHANGED <<prodMode, prodNow, labelsMade, labelRegister, labelKnown, labelReports, labelMarked, labelsGone,
                  lostAcks, labelCrashes>>
  BY DEF DispatchLabel, FetchLabel, labelMachine, labelStore, labelBudgets
<1>3. espLabels \in Seq(LabelEvents) /\ labelDispatch \in Seq(LabelEvents) /\ Len(labelDispatch) <= QueueSize
  BY <1>0 DEF LbStored, LabelsTypeOK
<1>4. Head(queue) \in LabelEvents /\ Tail(queue) \in Seq(LabelEvents) /\ Len(Tail(queue)) = Len(queue) - 1
      /\ Len(queue) \in Nat
  BY <1>1, <1>3, HeadTailProperties, LenProperties
<1>a. espLabels' \in Seq(LabelEvents) /\ labelDispatch' \in Seq(LabelEvents)
  BY <1>1, <1>3, <1>4
<1>b. Len(labelDispatch') <= QueueSize
  <2>1. CASE labelDispatch' = labelDispatch
    BY <1>3, <2>1
  <2>2. CASE labelDispatch' = Tail(queue) /\ queue = labelDispatch
    BY <1>3, <1>4, <2>2, LabelsAssumption
  <2> QED
    BY <1>1, <2>1, <2>2
<1>5. espLabels' \in Seq(LabelEvents) /\ labelDispatch' \in Seq(LabelEvents) /\ Len(labelDispatch') <= QueueSize
  BY <1>a, <1>b
<1>6. PICK name \in LabelNames : labelHandler' = [labelHandler EXCEPT ![h] =
        [at |-> "look", ev |-> Head(queue), label |-> name, emitted |-> FALSE, forward |-> prodMode # "removal"]]
  BY <1>1 DEF TakeLabel
<1>7. name \in LabelProds /\ name <= prodNow
  <2>1. name = prodNow \/ (prodNow > 1 /\ name = prodNow - 1)
    BY <1>6 DEF LabelNames
  <2> QED
    BY <1>0, <2>1, LabelsAssumption DEF LabelProds
<1> DEFINE w == [at |-> "look", ev |-> Head(queue), label |-> name, emitted |-> FALSE, forward |-> prodMode # "removal"]
<1>8. w \in LbWorks /\ w.at = "look" /\ w.ev \in LabelEvents /\ w.label = name
  BY <1>4, <1>7 DEF LbWorks, LbPoints
<1> HIDE DEF w
<1>9. /\ labelHandler' \in [LabelThreads -> LbWorks] /\ labelHandler'[h] = w
      /\ \A k \in LabelThreads \ {h} : labelHandler'[k] = labelHandler[k]
  BY <1>0, <1>6, <1>8 DEF w
<1>10. LbStored'
  BY <1>0, <1>2, <1>5, <1>9, LbFixed DEF LbStored, LabelsTypeOK, LbWorks, LbPoints
<1>11. LbNamed(h)'
  BY <1>2, <1>7, <1>8, <1>9 DEF LbNamed, LabelEvents, LabelProds, LabelNumbers
<1>12. ASSUME labelCrashes = 0, NEW n \in LabelNumbers PROVE LbOnce(h, n)'
  <2>1. LbOnce(h, n)
    BY <1>12 DEF LabelsIInv
  <2> QED
    BY <1>1, <1>2, <1>8, <1>9, <2>1 DEF LbOnce, LbHolds
<1> QED
  BY <1>2, <1>9, <1>10, <1>11, <1>12, LbFrame

\* The word of a label is a value the dedupe store can hold.
LEMMA LbWords == ASSUME NEW no \in Nat PROVE PackedNo(no) \in 0 .. WordSize
BY LabelsAssumption DEF PackedNo

\* A step of a handler: it is at work on an event it may have reported already.
LEMMA LbHandled == ASSUME LabelsIInv, NEW h \in LabelThreads, LabelHandlerStep(h) PROVE LabelsIInv'
<1> DEFINE u == labelHandler[h]
<1>0. /\ LbStored /\ prodNow \in LabelProds /\ LabelProds \subseteq Nat /\ LabelNumbers \subseteq Nat
      /\ labelHandler \in [LabelThreads -> LbWorks] /\ u \in LbWorks
      /\ labelRegister \in [LabelProds -> [LabelNumbers -> LbRows]]
      /\ labelReports \in [LabelProds -> [LabelNumbers -> [LabelThreads -> Nat]]]
      /\ LbNamed(h)
  BY LbFacts DEF LabelsIInv
<1>1. u.at # "idle"
  BY DEF LabelHandlerStep, LookLabel, BookLabel, AskKnown, KeepKnown, ReportLabel, MarkLabel, LabelStep
<1>2. PICK a \in LabelProds, b \in LabelNumbers :
        u.ev \in LabelEvents /\ a = u.label /\ b = u.ev.no /\ a <= prodNow
  BY <1>0, <1>1 DEF LbNamed, LabelEvents
<1>3. UNCHANGED <<prodMode, prodNow, labelsMade, espLabels, labelDispatch, labelsGone, lostAcks, labelCrashes>>
  BY DEF LabelHandlerStep, LookLabel, BookLabel, AskKnown, KeepKnown, ReportLabel, MarkLabel, labelMachine, labelBudgets
<1>4. ASSUME labelHandler' \in [LabelThreads -> LbWorks],
             labelRegister' \in [LabelProds -> [LabelNumbers -> LbRows]],
             labelReports' \in [LabelProds -> [LabelNumbers -> [LabelThreads -> Nat]]],
             labelKnown' \in 0 .. WordSize, labelMarked' \subseteq LabelEvents
      PROVE  LbStored'
  BY <1>0, <1>3, <1>4, LbFixed
     DEF LbStored, LabelsTypeOK, LbWorks, LbPoints, LbRows
<1>5. ASSUME labelCrashes = 0, NEW n \in LabelNumbers PROVE LbOnce(h, n)
  BY <1>5 DEF LabelsIInv
<1>k. labelKnown \in 0 .. WordSize /\ labelMarked \subseteq LabelEvents
  BY <1>0 DEF LbStored, LabelsTypeOK
<1>6. CASE LookLabel(h)
  <2> DEFINE seen == RegisterRow(h) = "emitted"
             w == [u EXCEPT !.at = "book", !.emitted = seen]
  <2>1. /\ u.at = "look" /\ labelHandler' = [labelHandler EXCEPT ![h].at = "book", ![h].emitted = seen]
        /\ UNCHANGED <<labelRegister, labelKnown, labelReports, labelMarked>>
    BY <1>6 DEF LookLabel, labelStore
  <2>2. seen \in BOOLEAN /\ (seen <=> labelRegister[a][b] = "emitted")
    BY <1>2 DEF RegisterRow
  <2> HIDE DEF seen
  <2>3. w \in LbWorks /\ w.at = "book" /\ w.ev = u.ev /\ w.label = a /\ w.emitted = seen
    BY <1>2, <1>0, <2>2 DEF LbWorks, LbPoints
  <2>4. labelHandler' = [labelHandler EXCEPT ![h] = w]
    BY <1>0, <2>1
  <2> HIDE DEF w
  <2>5. /\ labelHandler' \in [LabelThreads -> LbWorks] /\ labelHandler'[h] = w
        /\ \A k \in LabelThreads \ {h} : labelHandler'[k] = labelHandler[k]
    BY <1>0, <2>3, <2>4
  <2>6. LbStored'
    BY <1>0, <1>4, <1>k, <2>1, <2>5
  <2>7. LbNamed(h)'
    BY <1>2, <1>3, <2>3, <2>5 DEF LbNamed, LabelEvents, LabelProds, LabelNumbers
  <2>8. ASSUME labelCrashes = 0, NEW n \in LabelNumbers PROVE LbOnce(h, n)'
    <3> DEFINE sent == labelReports[prodNow][n][h]
    <3>1. sent <= 1 /\ (sent = 1 => labelRegister[prodNow][n] = "emitted") /\ sent \in Nat
      BY <1>0, <1>5, <2>1, <2>8 DEF LbOnce, LbHolds
    <3>2. ~LbHolds(h, n, {"ask", "keep", "report"})' /\ ~LbHolds(h, n, {"mark"})'
      BY <2>3, <2>5 DEF LbHolds
    <3>3. LbHolds(h, n, {"book"})' /\ ~labelHandler'[h].emitted => labelRegister[prodNow][n] # "emitted"
      BY <1>2, <1>3, <2>2, <2>3, <2>5 DEF LbHolds
    <3>4. sent' = sent /\ labelRegister'[prodNow'][n] = labelRegister[prodNow][n]
      BY <1>3, <2>1
    <3> QED
      BY <3>1, <3>2, <3>3, <3>4 DEF LbOnce
  <2> QED
    BY <1>3, <2>1, <2>5, <2>6, <2>7, <2>8, LbFrame
<1>7. CASE BookLabel(h)
  <2> DEFINE to == AfterBook(h)
  <2>1. LabelStep(h, "book", to) /\ UNCHANGED <<labelKnown, labelReports, labelMarked>>
    BY <1>7 DEF BookLabel
  <2>2. to \in {"ask", "idle"} /\ (to = "ask" => ~u.emitted) /\ to \in LbPoints /\ "book" \in LbPoints
    BY DEF AfterBook, LbPoints
  <2>3. PICK v \in LbRows : /\ labelRegister' = LbBooked(a, b, v)
                            /\ v # "none" /\ (labelRegister[a][b] = "emitted" => v = "emitted")
    BY <1>2, <1>7 DEF BookLabel, BookedAs, RegisterRow, LbRows, LbBooked
  <2> HIDE DEF to
  <2>4. /\ labelHandler' \in [LabelThreads -> LbWorks]
        /\ \A k \in LabelThreads \ {h} : labelHandler'[k] = labelHandler[k]
        /\ u.at = "book"
        /\ to = "idle" => labelHandler'[h] = NoLabelWork
        /\ to = "ask" => /\ labelHandler'[h].at = "ask" /\ labelHandler'[h].ev = u.ev
                         /\ labelHandler'[h].label = a /\ ~u.emitted
    BY <1>2, <1>0, <2>1, <2>2, LbStep
  <2>5. /\ labelRegister' \in [LabelProds -> [LabelNumbers -> LbRows]]
        /\ \A p \in LabelProds, n \in LabelNumbers :
             labelRegister'[p][n] = IF p = a /\ n = b THEN v ELSE labelRegister[p][n]
    BY <1>0, <1>2, <2>1, <2>3, LbWritten
  <2>6. LbStored'
    BY <1>0, <1>4, <1>k, <2>1, <2>4, <2>5
  <2>7. NoLabelWork.at = "idle" /\ NoLabelWork.label = 0
    BY DEF NoLabelWork
  <2>8. LbNamed(h)'
    <3>1. CASE to = "idle"
      BY <1>0, <1>3, <2>4, <3>1, LbAtRest
    <3>2. CASE to = "ask"
      <4>1. labelRegister'[a][b] # "none"
        BY <1>2, <2>3, <2>5
      <4> QED
        BY <1>2, <1>3, <2>4, <3>2, <4>1 DEF LbNamed, LabelEvents, LabelProds, LabelNumbers
    <3> QED
      BY <2>2, <3>1, <3>2
  <2>9. ASSUME labelCrashes = 0, NEW n \in LabelNumbers PROVE LbOnce(h, n)'
    <3>1. LbOnce(h, n)
      BY <1>5, <2>9
    <3>2. labelRegister[prodNow][n] = "emitted" => labelRegister'[prodNow][n] = "emitted"
      BY <1>0, <2>3, <2>5
    <3> QED
      BY <1>2, <1>3, <2>1, <2>2, <2>4, <2>7, <3>1, <3>2 DEF LbOnce, LbHolds
  <2>10. \A n \in LabelNumbers :
           /\ labelRegister[prodNow][n] = "emitted" => labelRegister'[prodNow][n] = "emitted"
           /\ labelRegister[prodNow][n] # "none" => labelRegister'[prodNow][n] # "none"
    BY <1>0, <2>3, <2>5
  <2> QED
    BY <1>3, <2>1, <2>4, <2>6, <2>8, <2>9, <2>10, LbFrame
<1>8. CASE AskKnown(h) \/ KeepKnown(h)
  <2>1. PICK from \in {"ask", "keep"}, to \in {"keep", "report", "mark"} : LabelStep(h, from, to)
    BY <1>8 DEF AskKnown, KeepKnown
  <2>2. LabelWord(h) \in 0 .. WordSize
    BY <1>0, <1>2, LbWords DEF LabelWord
  <2>3. labelKnown' \in 0 .. WordSize /\ UNCHANGED <<labelRegister, labelReports, labelMarked>>
    BY <1>8, <1>k, <2>2 DEF AskKnown, KeepKnown, labelStore
  <2>4. from \in LbPoints /\ to \in LbPoints /\ to # "idle"
    BY DEF LbPoints
  <2>5. /\ labelHandler' \in [LabelThreads -> LbWorks]
        /\ \A k \in LabelThreads \ {h} : labelHandler'[k] = labelHandler[k]
        /\ u.at = from /\ labelHandler'[h].at = to /\ labelHandler'[h].ev = u.ev /\ labelHandler'[h].label = a
    BY <1>2, <1>0, <2>1, <2>4, LbStep
  <2>6. LbStored'
    BY <1>0, <1>4, <1>k, <2>3, <2>5
  <2>7. LbNamed(h)'
    BY <1>0, <1>2, <1>3, <2>3, <2>5 DEF LbNamed, LabelEvents, LabelProds, LabelNumbers
  <2>8. ASSUME labelCrashes = 0, NEW n \in LabelNumbers PROVE LbOnce(h, n)'
    <3>1. LbOnce(h, n)
      BY <1>5, <2>8
    <3> QED
      BY <1>2, <1>3, <2>3, <2>5, <3>1 DEF LbOnce, LbHolds
  <2> QED
    BY <1>3, <2>3, <2>5, <2>6, <2>7, <2>8, LbFrame
<1>9. CASE ReportLabel(h)
  <2>1. /\ LabelStep(h, "report", "mark") /\ UNCHANGED <<labelRegister, labelKnown, labelMarked>>
        /\ IF a # u.ev.prod THEN labelReports' = labelReports
           ELSE labelReports' = LbReported(a, b, h)
    BY <1>2, <1>9 DEF ReportLabel, LbReported
  <2>2. "report" \in LbPoints /\ "mark" \in LbPoints
    BY DEF LbPoints
  <2>3. /\ labelHandler' \in [LabelThreads -> LbWorks]
        /\ \A k \in LabelThreads \ {h} : labelHandler'[k] = labelHandler[k]
        /\ u.at = "report" /\ labelHandler'[h].at = "mark" /\ labelHandler'[h].ev = u.ev /\ labelHandler'[h].label = a
    BY <1>2, <1>0, <2>1, <2>2, LbStep
  <2>4. /\ labelReports' \in [LabelProds -> [LabelNumbers -> [LabelThreads -> Nat]]]
        /\ \A p \in LabelProds, n \in LabelNumbers, k \in LabelThreads :
             labelReports'[p][n][k] = IF a = u.ev.prod /\ p = a /\ n = b /\ k = h THEN labelReports[p][n][k] + 1
                                      ELSE labelReports[p][n][k]
    <3>1. CASE a # u.ev.prod
      BY <1>0, <2>1, <3>1
    <3>2. CASE a = u.ev.prod
      BY <1>0, <1>2, <2>1, <3>2, LbCounted
    <3> QED
      BY <3>1, <3>2
  <2>5. LbStored'
    BY <1>0, <1>4, <1>k, <2>1, <2>3, <2>4
  <2>6. LbNamed(h)'
    BY <1>0, <1>2, <1>3, <2>1, <2>3 DEF LbNamed, LabelEvents, LabelProds, LabelNumbers
  <2>7. ASSUME labelCrashes = 0, NEW n \in LabelNumbers PROVE LbOnce(h, n)'
    <3>1. LbOnce(h, n)
      BY <1>5, <2>7
    <3>2. CASE LbHolds(h, n, {"report"})
      <4>1. labelReports[prodNow][n][h] = 0
        BY <3>1, <3>2 DEF LbOnce, LbHolds
      <4>2. labelReports'[prodNow][n][h] = 1 /\ LbHolds(h, n, {"mark"})'
        BY <1>2, <1>0, <1>3, <2>3, <2>4, <3>2, <4>1 DEF LbHolds
      <4> QED
        BY <1>3, <4>2 DEF LbOnce, LbHolds
    <3>3. CASE ~LbHolds(h, n, {"report"})
      <4>1. labelReports'[prodNow][n][h] = labelReports[prodNow][n][h]
        BY <1>2, <1>0, <2>3, <2>4, <3>3 DEF LbHolds
      <4> QED
        BY <1>3, <2>1, <2>3, <3>1, <4>1 DEF LbOnce, LbHolds
    <3> QED
      BY <3>2, <3>3
  <2>8. \A k \in LabelThreads, n \in LabelNumbers, p \in LabelProds :
           k # h \/ p > prodNow => labelReports'[p][n][k] = labelReports[p][n][k]
    <3>1. \A p \in LabelProds : p > prodNow => p # a
      BY <1>0, <1>2
    <3> QED
      BY <2>4, <3>1
  <2> QED
    BY <1>3, <2>1, <2>3, <2>5, <2>6, <2>7, <2>8, LbFrame
<1>10. CASE MarkLabel(h)
  <2>1. /\ LabelStep(h, "mark", "idle") /\ UNCHANGED <<labelKnown, labelReports>>
        /\ IF labelRegister[a][b] = "none" THEN labelRegister' = labelRegister
           ELSE labelRegister' = LbBooked(a, b, "emitted")
        /\ labelMarked' \in {labelMarked, labelMarked \cup {u.ev}}
    BY <1>2, <1>10 DEF MarkLabel, RegisterRow, LbBooked
  <2>2. "idle" \in LbPoints /\ "mark" \in LbPoints /\ "emitted" \in LbRows
    BY DEF LbPoints, LbRows
  <2>3. /\ labelHandler' \in [LabelThreads -> LbWorks]
        /\ \A k \in LabelThreads \ {h} : labelHandler'[k] = labelHandler[k]
        /\ u.at = "mark" /\ labelHandler'[h] = NoLabelWork
    BY <1>0, <2>1, <2>2, LbStep
  <2>4. /\ labelRegister' \in [LabelProds -> [LabelNumbers -> LbRows]]
        /\ \A p \in LabelProds, n \in LabelNumbers :
             labelRegister'[p][n] = IF p = a /\ n = b /\ labelRegister[a][b] # "none" THEN "emitted"
                                    ELSE labelRegister[p][n]
    <3>1. CASE labelRegister[a][b] = "none"
      BY <1>0, <2>1, <3>1
    <3>2. CASE labelRegister[a][b] # "none"
      BY <1>0, <1>2, <2>1, <2>2, <3>2, LbWritten
    <3> QED
      BY <3>1, <3>2
  <2>5. LbStored'
    BY <1>0, <1>2, <1>4, <1>k, <2>1, <2>3, <2>4
  <2>6. NoLabelWork.at = "idle" /\ NoLabelWork.label = 0
    BY DEF NoLabelWork
  <2>7. LbNamed(h)'
    BY <1>0, <1>3, <2>3, LbAtRest
  <2>8. ASSUME labelCrashes = 0, NEW n \in LabelNumbers PROVE LbOnce(h, n)'
    <3>1. LbOnce(h, n)
      BY <1>5, <2>8
    <3>2. LbHolds(h, n, {"mark"}) => labelRegister'[prodNow][n] = "emitted"
      BY <1>0, <1>2, <2>3, <2>4 DEF LbHolds, LbNamed
    <3>3. labelRegister[prodNow][n] = "emitted" => labelRegister'[prodNow][n] = "emitted"
      BY <1>0, <2>4
    <3> QED
      BY <1>3, <2>1, <2>3, <2>6, <3>1, <3>2, <3>3 DEF LbOnce, LbHolds
  <2>9. \A n \in LabelNumbers :
           /\ labelRegister[prodNow][n] = "emitted" => labelRegister'[prodNow][n] = "emitted"
           /\ labelRegister[prodNow][n] # "none" => labelRegister'[prodNow][n] # "none"
    BY <1>0, <2>4
  <2> QED
    BY <1>3, <2>1, <2>3, <2>5, <2>7, <2>8, <2>9, LbFrame
<1> QED
  BY <1>6, <1>7, <1>8, <1>9, <1>10 DEF LabelHandlerStep

LEMMA LabelsKept == LabelsIInv /\ [LabelsNext]_labelVars => LabelsIInv'
<1> SUFFICES ASSUME LabelsIInv, [LabelsNext]_labelVars PROVE LabelsIInv'
  OBVIOUS
<1>1. CASE LabelsNext
  BY <1>1, LbMade, LbRenewed, LbRestarts, LbTaken, LbHandled DEF LabelsNext
<1>2. CASE UNCHANGED labelVars
  <2>1. LbStored'
    BY <1>2, LbFixed DEF labelVars, LabelsIInv, LbStored, LabelsTypeOK
  <2> QED
    BY <1>2, <2>1, LbStill DEF labelVars
<1> QED
  BY <1>1, <1>2

\* However often an event arrives (lost ACK, a fetch of what was pushed), in one life of the
\* process each of the two threads reports a label of the current production at most once:
\* its row is marked, or about to be marked, before the thread looks again (label_register's
\* emitted_to_microtom, _handle_label_complete).
THEOREM LabelsCorrect == LabelsSpec => []LabelsInv
<1>1. LabelsIInv => LabelsInv
  <2> SUFFICES ASSUME LabelsIInv PROVE LabelsInv
    OBVIOUS
  <2>1. LabelsTypeOK
    BY DEF LabelsIInv, LbStored
  <2>2. AtMostOncePerThread
    BY DEF LabelsIInv, LbOnce, AtMostOncePerThread
  <2> QED
    BY <2>1, <2>2 DEF LabelsInv
<1> QED
  BY <1>1, LabelsStart, LabelsKept, PTL DEF LabelsSpec

\* A label once marked as reported is not taken back by the other thread that looked at the
\* row before it was marked and books it after, until a new production deletes it: booking
\* takes the larger of the old mark and the new one.
THEOREM EmittedStaysMarked == LabelsSpec => EmittedStays
<1>1. ASSUME LabelsIInv, [LabelsNext]_labelVars,
             NEW p \in LabelProds, NEW n \in LabelNumbers, labelRegister[p][n] = "emitted"
      PROVE  labelRegister'[p][n] = "emitted" \/ prodNow' # prodNow
  <2>0. /\ LbStored /\ prodNow \in LabelProds /\ LabelProds \subseteq Nat /\ labelRegister \in [LabelProds -> [LabelNumbers -> LbRows]]
    BY <1>1, LbFacts DEF LabelsIInv
  <2>1. CASE NewLabelProduction
    BY <2>0, <2>1 DEF NewLabelProduction
  <2>2. ASSUME NEW h \in LabelThreads, BookLabel(h) \/ MarkLabel(h) PROVE labelRegister'[p][n] = "emitted"
    <3>1. labelHandler[h].at # "idle" /\ LbNamed(h)
      BY <1>1, <2>2 DEF LabelsIInv, BookLabel, MarkLabel, LabelStep
    <3>2. PICK a \in LabelProds, b \in LabelNumbers : a = labelHandler[h].label /\ b = labelHandler[h].ev.no
      BY <3>1 DEF LbNamed, LabelEvents
    <3>3. CASE BookLabel(h)
      <4>1. PICK v \in LbRows : /\ labelRegister' = LbBooked(a, b, v)
                                /\ labelRegister[a][b] = "emitted" => v = "emitted"
        BY <3>2, <3>3 DEF BookLabel, BookedAs, RegisterRow, LbRows, LbBooked
      <4> QED
        BY <1>1, <2>0, <3>2, <4>1, LbWritten
    <3>4. CASE MarkLabel(h)
      <4>1. labelRegister' = labelRegister \/ labelRegister' = LbBooked(a, b, "emitted")
        BY <3>2, <3>4 DEF MarkLabel, RegisterRow, LbBooked
      <4>2. "emitted" \in LbRows
        BY DEF LbRows
      <4> QED
        BY <1>1, <2>0, <3>2, <4>1, <4>2, LbWritten
    <3> QED
      BY <2>2, <3>3, <3>4
  <2>3. CASE UNCHANGED labelRegister
    BY <1>1, <2>3
  <2> QED
    BY <1>1, <2>1, <2>2, <2>3
       DEF LabelsNext, LabelHandlerStep, labelVars, labelStore, CompleteLabel, PushLabel, DispatchLabel, FetchLabel,
           LookLabel, AskKnown, KeepKnown, ReportLabel, StartLabelRun, LabelPause, StopLabelRun, LabelRestart
<1>2. LabelsIInv /\ [LabelsNext]_labelVars =>
        [\A p \in LabelProds, n \in LabelNumbers :
           labelRegister[p][n] = "emitted" => labelRegister'[p][n] = "emitted" \/ prodNow' # prodNow]_labelVars
  BY <1>1
<1> QED
  BY <1>2, LabelsStart, LabelsKept, PTL DEF LabelsSpec, EmittedStays

-----------------------------------------------------------------------------
(* The instance of TLC (module MCProduction)                               *)

\* Each behaviour runs one of the parts; every part behaves as its own specification says.
LEMMA PartsBehave ==
  PartsSpec => LabelsSpec /\ GateSpec /\ RemovalSpec /\ LogsSpec /\ PrinterSpec
<1>1. PartsInit => LabelsInit /\ GateInit /\ RemovalInit /\ LogsInit /\ PrinterInit
  BY DEF PartsInit
<1>2. [PartsNext]_partsVars =>
        /\ [LabelsNext]_labelVars /\ [GateNext]_gtVars /\ [RemovalNext]_rmVars
        /\ [LogsNext]_logVars /\ [PrinterNext]_ptVars
  <2>1. UNCHANGED partsVars => UNCHANGED <<labelVars, gtVars, rmVars, logVars, ptVars>>
    BY DEF partsVars
  <2>2. PartsNext =>
          /\ LabelsNext \/ UNCHANGED labelVars
          /\ GateNext \/ UNCHANGED gtVars
          /\ RemovalNext \/ UNCHANGED rmVars
          /\ LogsNext \/ UNCHANGED logVars
          /\ PrinterNext \/ UNCHANGED ptVars
    BY DEF PartsNext, Others
  <2> QED
    BY <2>1, <2>2
<1> QED
  BY <1>1, <1>2, PTL DEF PartsSpec, LabelsSpec, GateSpec, RemovalSpec, LogsSpec, PrinterSpec

\* Whichever part around a production runs, all of it holds: marks and grace at the gate, the
\* state of the log files, each label reported at most once by each thread, no label rewound
\* twice and no print without the printer.
THEOREM ProductionCorrect == PartsSpec => [](ProductionInv /\ LabelsInv /\ RemovalInv /\ PrinterInv)
<1>1. GateInv /\ LogsTypeOK => ProductionInv
  BY DEF ProductionInv
<1> QED
  BY <1>1, PartsBehave, GateCorrect, LogsCorrect, LabelsCorrect, RemovalCorrect, PrinterCorrect, PTL
====
