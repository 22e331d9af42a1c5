------------------------------ MODULE Removal ------------------------------
(***************************************************************************)
(* Labels that must be taken out by hand: the ESP's event                  *)
(* label_removal_required, the pause it makes, the rewind that brings the  *)
(* label back, the list of labels in the machine_state row and the resume  *)
(* that names them to the ESP (machine_runtime.py).                        *)
(*                                                                         *)
(* Two threads handle events, the dispatcher's and, while production runs, *)
(* the refresh; each decides on a copy of the row, spends seconds on the   *)
(* stop and the rewind, and writes the whole row from the copy.  The       *)
(* resume runs in the refresh.                                             *)
(***************************************************************************)
EXTENDS Naturals, FiniteSets
LOCAL INSTANCE FiniteSetsExt

CONSTANTS
  RmLabels,     \* labels the ESP may want removed
  MaxRmEvents,  \* bound: events of all labels (the ESP repeats an event without ACK)
  MaxResumes    \* bound: resumes

ASSUME RemovalAssumption ==
  /\ IsFiniteSet(RmLabels) /\ RmLabels # {} /\ MaxRmEvents \in Nat /\ MaxResumes \in Nat

VARIABLES
  rmRow,      \* the row: mode, and what it says of each label
  rmEvents,   \* events on their way: label -> how often it was sent
  rmHandler,  \* thread -> the event in hand, how far it is, its copy of the row
  rmResume,   \* the resume: how far it is, the row its refresh read
  rmRunner,   \* the ESP's runner: TRUE while it moves
  rmRewinds,  \* history: rewinds of this pause, per thread and label
  rmStale,    \* history: a handler wrote an old row over a newer one, or a resume passed it
  rmResumes   \* spent budget

rmVars == <<rmRow, rmEvents, rmHandler, rmResume, rmRunner, rmRewinds, rmStale, rmResumes>>

RmThreads == {"push", "refresh"}
Asked == {"none", "asked", "rewound"}     \* no request; rewind_executed or not
RmRows == [mode : {"run", "pause", "fault"}, labels : [RmLabels -> Asked]]
RmNone == CHOOSE l \in RmLabels : TRUE
NoRmWork(row) == [at |-> "idle", label |-> RmNone, control |-> FALSE, copy |-> row,
                  paused |-> FALSE, rewound |-> FALSE, ok |-> TRUE]
NoLabels == [l \in RmLabels |-> "none"]
RunRow == [mode |-> "run", labels |-> NoLabels]
NoResume == [at |-> "idle", copy |-> RunRow]
NoRewinds == [h \in RmThreads |-> [l \in RmLabels |-> 0]]
\* The label numbers of the request list; a number that could not be read is left out.
Requested(row) == {l \in RmLabels : row.labels[l] # "none"}

RemovalInit ==
  /\ rmRow = RunRow
  /\ rmEvents = [l \in RmLabels |-> 0]
  /\ rmHandler = [h \in RmThreads |-> NoRmWork(RunRow)]
  /\ rmResume = NoResume
  /\ rmRunner = TRUE /\ rmRewinds = NoRewinds /\ rmStale = FALSE /\ rmResumes = 0

RmGo(h, there) == rmHandler' = [rmHandler EXCEPT ![h].at = there]
RmAt(h, here) == rmHandler[h].at = here

-----------------------------------------------------------------------------
(* The handlers.                                                           *)

\* handle_event with the row _stale_production_event_result reads.  While the row says
\* run, the event goes to _pause_for_label_removal, in the pause to
\* _record_label_removal_required_while_paused, else nowhere.  control: the camera saw
\* the label, so that the band must go back; a repetition may say otherwise.
TakeRemoval(h, l, control) ==
  /\ RmAt(h, "idle")
  /\ h = "refresh" => rmRow.mode = "run" /\ rmResume.at = "idle"
  /\ MapThenSumSet(LAMBDA k : rmEvents[k], RmLabels) < MaxRmEvents
  /\ rmRunner \/ rmEvents[l] > 0
  /\ rmEvents' = [rmEvents EXCEPT ![l] = @ + 1]
  /\ rmRow.mode # "fault"
  /\ rmHandler' = [rmHandler EXCEPT ![h] =
       [NoRmWork(rmRow) EXCEPT !.at = IF rmRow.mode = "run" THEN "copy" ELSE "paused",
                               !.paused = rmRow.mode = "pause", !.label = l, !.control = control]]
  /\ UNCHANGED <<rmRow, rmResume, rmRunner, rmRewinds, rmStale, rmResumes>>

\* _handle_label_removal_required reads the row once more.
CopyRow(h) ==
  /\ RmAt(h, "copy")
  /\ rmHandler' = [rmHandler EXCEPT ![h].at = "stop", ![h].copy = rmRow]
  /\ UNCHANGED <<rmRow, rmEvents, rmResume, rmRunner, rmRewinds, rmStale, rmResumes>>

\* A label the camera did not see yet is still before it: nothing to bring back.
AfterStop(w) == IF w.control THEN "plan" ELSE "write"

\* _pause_production_motion_after_print if the copy says that production runs; the stop
\* may stay unconfirmed.
StopForRemoval(h, ok) ==
  LET w == rmHandler[h] IN
  /\ RmAt(h, "stop")
  /\ w.copy.mode = "run" \/ ok
  /\ rmRunner' = (rmRunner /\ (w.copy.mode # "run" \/ ~ok))
  /\ rmHandler' = [rmHandler EXCEPT ![h].at = IF ok THEN AfterStop(w) ELSE "write", ![h].ok = ok]
  /\ UNCHANGED <<rmRow, rmEvents, rmResume, rmRewinds, rmStale, rmResumes>>

\* In the pause: unless a request of this label has rewind_executed.
LookPaused(h) ==
  LET w == rmHandler[h] IN
  /\ RmAt(h, "paused")
  /\ RmGo(h, IF w.control /\ w.copy.labels[w.label] # "rewound" THEN "plan" ELSE "write")
  /\ UNCHANGED <<rmRow, rmEvents, rmResume, rmRunner, rmRewinds, rmStale, rmResumes>>

\* _execute_label_removal_rewind: DRY_RUN; the ESP refuses, has nothing to do, or plans.
PlanRewind(h, answer) ==
  /\ RmAt(h, "plan")
  /\ rmHandler' = [rmHandler EXCEPT ![h].at = IF answer = "planned" THEN "rewind" ELSE "write",
                                    ![h].ok = answer # "refused"]
  /\ UNCHANGED <<rmRow, rmEvents, rmResume, rmRunner, rmRewinds, rmStale, rmResumes>>

\* The command and the wait for its end, which may fail.  rewind_executed in any case.
Rewind(h, ok) ==
  /\ RmAt(h, "rewind")
  /\ rmRewinds' = [rmRewinds EXCEPT ![h][rmHandler[h].label] = @ + 1]
  /\ rmHandler' = [rmHandler EXCEPT ![h].at = "write", ![h].ok = ok, ![h].rewound = TRUE]
  /\ UNCHANGED <<rmRow, rmEvents, rmResume, rmRunner, rmStale, rmResumes>>

MergedBug(old, rewound) == IF rewound THEN "rewound" ELSE "asked"

\* _merge_label_removal_request keeps rewind_executed.
Merged(old, rewound) == IF rewound \/ old = "rewound" THEN "rewound" ELSE "asked"

\* A failed stop or rewind ends in 21; in the pause a failed rewind is only noted.
WriteRequest(h) ==
  LET w == rmHandler[h] IN
  /\ RmAt(h, "write")
  /\ rmRow' = [mode |-> IF w.ok \/ w.paused THEN "pause" ELSE "fault",
               labels |-> [w.copy.labels EXCEPT ![w.label] = Merged(@, w.rewound)]]
  /\ rmStale' = (rmStale \/ rmRow # w.copy \/ rmResume.at = "commit")
  /\ rmHandler' = [rmHandler EXCEPT ![h] = NoRmWork(RunRow)]
  /\ UNCHANGED <<rmEvents, rmResume, rmRunner, rmRewinds, rmResumes>>

-----------------------------------------------------------------------------
(* The resume: _resume_production_after_label_removal.                     *)

ResumeBegin ==
  /\ rmRow.mode = "pause"
  /\ rmResume.at = "idle" /\ RmAt("refresh", "idle")
  /\ rmResumes < MaxResumes
  /\ rmResumes' = rmResumes + 1
  /\ rmResume' = [at |-> "mark", copy |-> rmRow]
  /\ UNCHANGED <<rmRow, rmEvents, rmHandler, rmRunner, rmRewinds, rmStale>>

\* PROCESS PRODUCTION RESUME_REMOVED LABELS=...
ResumeRun ==
  /\ rmResume.at = "mark"
  /\ rmResume' = [rmResume EXCEPT !.at = "commit"]
  /\ rmRunner' = TRUE
  /\ UNCHANGED <<rmRow, rmEvents, rmHandler, rmRewinds, rmStale, rmResumes>>

\* MARK_REMOVED not answered, cleanup not reusable, wicklers not steady: the pause stays;
\* RESUME_REMOVED rejected or its answer lost: stop, and the pause stays.  The refresh
\* writes its own copy of the lists; a fault of the meantime survives in MAS0028.
ResumeFails ==
  /\ rmResume.at \in {"mark", "commit"}
  /\ rmResume' = NoResume
  /\ rmRow' = [rmResume.copy EXCEPT !.mode = IF rmRow.mode = "fault" THEN "fault" ELSE "pause"]
  /\ rmRunner' = FALSE
  /\ rmStale' = (rmStale \/ rmRow # rmResume.copy)
  /\ UNCHANGED <<rmEvents, rmHandler, rmRewinds, rmResumes>>

\* _commit_successful_production_resume_state: the pause and its lists go together.
Committed == RunRow

\* The commit; a row in 21 is left alone.  WICKLER_READY blocked by a fault ends in an 8
\* without pause marks, which the fault turns to 21.
ResumeCommit(blocked) ==
  /\ rmResume.at = "commit"
  /\ rmRow' = IF blocked THEN [rmRow EXCEPT !.mode = "fault"]
              ELSE IF rmRow.mode = "fault" THEN rmRow ELSE Committed
  /\ rmRunner' = (rmRunner /\ ~blocked)
  /\ rmResume' = IF blocked THEN NoResume ELSE [rmResume EXCEPT !.at = "final"]
  /\ rmRewinds' = NoRewinds
  /\ rmStale' = (rmStale \/ ~RmAt("push", "idle"))
  /\ UNCHANGED <<rmEvents, rmHandler, rmResumes>>

\* The refresh writes its end state over whatever lies there: a pause does not supersede
\* a refresh that began in a pause and ends in 4 or 5.
FinalWrite ==
  /\ rmResume.at = "final"
  /\ rmRow' = [RunRow EXCEPT !.mode = IF rmRow.mode = "fault" THEN "fault" ELSE "run"]
  /\ rmResume' = NoResume
  /\ rmStale' = (rmStale \/ rmRow # RunRow)
  /\ UNCHANGED <<rmEvents, rmHandler, rmRunner, rmRewinds, rmResumes>>

RemovalStep(h) ==
  \/ CopyRow(h) \/ LookPaused(h) \/ WriteRequest(h)
  \/ \E ok \in BOOLEAN : StopForRemoval(h, ok) \/ Rewind(h, ok)
  \/ \E answer \in {"refused", "nothing", "planned"} : PlanRewind(h, answer)

RemovalNext ==
  \/ \E h \in RmThreads, l \in RmLabels, control \in BOOLEAN : TakeRemoval(h, l, control)
  \/ \E h \in RmThreads : RemovalStep(h)
  \/ ResumeBegin \/ ResumeFails \/ ResumeRun \/ FinalWrite
  \/ \E blocked \in BOOLEAN : ResumeCommit(blocked)

RemovalSpec == RemovalInit /\ [][RemovalNext]_rmVars

-----------------------------------------------------------------------------
\* Every variable has its type.
RemovalTypeOK ==
  /\ rmRow \in RmRows
  /\ rmEvents \in [RmLabels -> Nat]
  /\ rmHandler \in [RmThreads ->
       [at : {"idle", "copy", "paused", "stop", "plan", "rewind", "write"}, label : RmLabels,
        control : BOOLEAN, paused : BOOLEAN, copy : RmRows, rewound : BOOLEAN, ok : BOOLEAN]]
  /\ rmResume \in [at : {"idle", "mark", "commit", "final"}, copy : RmRows]
  /\ rmRunner \in BOOLEAN /\ rmStale \in BOOLEAN /\ rmResumes \in 0 .. MaxResumes
  /\ rmRewinds \in [RmThreads -> [RmLabels -> Nat]]

\* A pause without a label in its list could not be left: the resume would be refused for
\* ever (label_removal_resume_without_labels).  Whatever handlers and commits overwrite,
\* a row in the pause names a label, and the resume names one to the ESP.
PauseCanEnd ==
  /\ rmRow.mode = "pause" => Requested(rmRow) # {}
  /\ rmResume.at # "idle" => Requested(rmResume.copy) # {}

\* A label is brought back at most once in a pause, however often the ESP repeats the
\* event and whatever a repetition says, as long as no handler has put back an older row.
RewoundOnce ==
  ~rmStale => \A h \in RmThreads, l \in RmLabels : rmRewinds[h][l] <= 1

\* What holds of the list of labels in every state.
RemovalInv == RemovalTypeOK /\ PauseCanEnd /\ RewoundOnce
=============================================================================
