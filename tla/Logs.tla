-------------------------------- MODULE Logs --------------------------------
(***************************************************************************)
(* The log files of a production and their hand-over to Microtom           *)
(* (production_logs.py): recording from start to stop, MAS0030 = 1 when    *)
(* files wait, the download that deletes a file, the start that waits for  *)
(* the downloads.                                                          *)
(*                                                                         *)
(* The state is a JSON file, the files are the truth, MAS0030 is a         *)
(* parameter, and three threads read and write them without a lock: the    *)
(* router or refresh (start, stop), the refresh and the lists of the web   *)
(* server (manifest), and the web server's downloads.                      *)
(***************************************************************************)
EXTENDS Naturals, FiniteSets

CONSTANTS
  LogProductions,  \* bound: productions started, with different names
  LogGroups,       \* file groups of a production; a stop writes to the first one
  LifeGroup,       \* "all", where start and stop write a line
  MaxLate          \* bound: label lines written after the stop, starts that are asked for
                   \* after the last production and manifests that are asked for during
                   \* one, taken together

ASSUME LogsAssumption ==
  /\ LogProductions \in Nat \ {0} /\ LifeGroup \in LogGroups /\ IsFiniteSet(LogGroups)
  /\ MaxLate \in Nat

VARIABLES
  logState,    \* production_state.json: active, ready, label, stopped_ts set, names
  logFiles,    \* the files there are, <<production, group>>
  mas0030,     \* the parameter
  logTold,     \* MAS0030 as value_dedupe_state and Microtom know it, 2: nothing yet
  logThread,   \* thread -> what it does, how far it is, its copies
  logStarts, logLate  \* spent budgets

logVars == <<logState, logFiles, mas0030, logTold, logThread, logStarts, logLate>>
logBudgets == <<logStarts, logLate>>

LogThreads == {"command", "poll", "download"}
LogStates == [active : BOOLEAN, ready : BOOLEAN, stopped : BOOLEAN,
              label : 0 .. LogProductions, names : SUBSET LogGroups]
DefaultLog == [active |-> FALSE, ready |-> FALSE, stopped |-> FALSE, label |-> 0, names |-> {}]
NoLogWork == [at |-> "idle", job |-> "none", copy |-> DefaultLog, found |-> {}]

\* _existing_ready_files
Existing(label) == {g \in LogGroups : <<label, g>> \in logFiles}

LogsInit ==
  /\ logState = DefaultLog /\ logFiles = {} /\ mas0030 = 0 /\ logTold = 2
  /\ logThread = [t \in LogThreads |-> NoLogWork]
  /\ logStarts = 0 /\ logLate = 0

LogAt(t, here) == logThread[t].at = here
\* A step whose copies nobody reads again.
LogGo(t, there) ==
  logThread' = [logThread EXCEPT ![t] = [NoLogWork EXCEPT !.at = there, !.job = logThread[t].job]]
LogDone(t) == logThread' = [logThread EXCEPT ![t] = NoLogWork]
TakeJob(t, job, first) ==
  /\ LogAt(t, "idle")
  /\ logThread' = [logThread EXCEPT ![t] = [NoLogWork EXCEPT !.at = first, !.job = job]]

-----------------------------------------------------------------------------
(* What is asked of the manager.                                           *)

TooLate == logLate < MaxLate /\ logLate' = logLate + 1

\* MAS0002=1 asks can_start_new_production first.
AskStart ==
  /\ TakeJob("command", "start", "read")
  /\ IF logStarts < LogProductions THEN UNCHANGED logLate ELSE TooLate
  /\ UNCHANGED <<logState, logFiles, mas0030, logTold, logStarts>>

AskStop ==
  /\ TakeJob("command", "stop", "stopRead")
  /\ UNCHANGED <<logState, logFiles, mas0030, logTold, logBudgets>>

\* A page, a read of MAS0030, Microtom's list: at any time.  _current_production_label of a
\* refresh looks at active_state first, which may have changed before the manifest is read.
AskManifest ==
  /\ LogAt("poll", "idle")
  /\ logThread' = [logThread EXCEPT !["poll"] =
       [at |-> "list", job |-> "poll", copy |-> logState, found |-> {}]]
  /\ IF logState.active THEN TooLate ELSE UNCHANGED logLate
  /\ UNCHANGED <<logState, logFiles, mas0030, logTold, logStarts>>

AskDownload ==
  /\ logState.ready
  /\ TakeJob("download", "download", "read")
  /\ UNCHANGED <<logState, logFiles, mas0030, logTold, logBudgets>>

\* append_line for a label, under the name _current_production_label gave, and every line
\* of the log store: while a production records, and late, from the dispatcher's queue or
\* by a thread that looked at active_state before the stop.
AppendLine ==
  /\ logState.label # 0
  /\ \E g \in LogGroups : logFiles' = logFiles \cup {<<logState.label, g>>}
  /\ logFiles' # logFiles
  /\ IF logState.active THEN UNCHANGED logLate ELSE TooLate
  /\ UNCHANGED <<logState, mas0030, logTold, logThread, logStarts>>

-----------------------------------------------------------------------------
(* ready_manifest, for all three.                                          *)

ReadLogState(t) ==
  /\ LogAt(t, "read")
  /\ logThread' = [logThread EXCEPT ![t].at = "list", ![t].copy = logState]
  /\ UNCHANGED <<logState, logFiles, mas0030, logTold, logBudgets>>

ListFiles(t) ==
  /\ LogAt(t, "list")
  /\ logThread' = [logThread EXCEPT ![t].at = "reconcile",
                                    ![t].found = Existing(logThread[t].copy.label)]
  /\ UNCHANGED <<logState, logFiles, mas0030, logTold, logBudgets>>

NoFilesBug(copy, found) == ~copy.active /\ (copy.ready \/ copy.stopped)

\* should_be_ready: after the stop, while there are files.
ReadyNow(copy, found) == ~copy.active /\ found # {} /\ (copy.ready \/ copy.stopped)

Reconciled(copy, found) == [copy EXCEPT !.ready = ReadyNow(copy, found), !.names = found]

Reconcile(t) ==
  LET new == Reconciled(logThread[t].copy, logThread[t].found) IN
  /\ LogAt(t, "reconcile")
  /\ logState' = IF new = logThread[t].copy THEN logState ELSE new
  /\ logThread' = [logThread EXCEPT ![t].at = "param", ![t].copy = new]
  /\ UNCHANGED <<logFiles, mas0030, logTold, logBudgets>>

\* _set_ready_param_if_needed, and what the caller makes of the manifest: a start goes
\* on without files, a download with one of them.
SetReadyParam(t) ==
  LET w == logThread[t]
      offered == IF w.copy.ready THEN w.found ELSE {}
  IN
  /\ LogAt(t, "param")
  /\ mas0030' = IF w.copy.ready THEN 1 ELSE 0
  /\ \/ w.job = "poll" /\ LogDone(t)
     \/ w.job = "start" /\ offered # {} /\ LogDone(t)
     \/ w.job = "start" /\ offered = {} /\ LogGo(t, "startRead")
     \/ w.job = "download" /\ offered = {} /\ LogDone(t)
     \/ /\ w.job = "download"
        /\ \E g \in offered :
             logThread' = [logThread EXCEPT ![t].at = "remove", ![t].found = {g}]
  /\ UNCHANGED <<logState, logFiles, logTold, logBudgets>>

-----------------------------------------------------------------------------
(* handle_param_change: start and stop.                                    *)

StartRead ==
  /\ LogAt("command", "startRead")
  /\ IF logState.active \/ logStarts = LogProductions THEN LogDone("command") ELSE LogGo("command", "startWrite")
  /\ UNCHANGED <<logState, logFiles, mas0030, logTold, logBudgets>>

StartWrite ==
  /\ LogAt("command", "startWrite")
  /\ logStarts' = logStarts + 1
  /\ logState' = [active |-> TRUE, ready |-> FALSE, stopped |-> FALSE,
                  label |-> logStarts + 1, names |-> LogGroups]
  /\ LogGo("command", "startParam")
  /\ UNCHANGED <<logFiles, mas0030, logTold, logLate>>

\* _set_ready_param("0") and the first line of the file
StartParam ==
  /\ LogAt("command", "startParam")
  /\ mas0030' = 0
  /\ logFiles' = logFiles \cup {<<logStarts, LifeGroup>>}
  /\ LogDone("command")
  /\ UNCHANGED <<logState, logTold, logBudgets>>

\* A stop without a recording does nothing; the line makes sure there is a file.
StopRead ==
  /\ LogAt("command", "stopRead")
  /\ IF logState.active
     THEN /\ logThread' = [logThread EXCEPT !["command"].at = "stopWrite",
                                            !["command"].copy = logState]
          /\ logFiles' = logFiles \cup {<<logState.label, LifeGroup>>}
     ELSE LogDone("command") /\ UNCHANGED logFiles
  /\ UNCHANGED <<logState, mas0030, logTold, logBudgets>>

LogStopped(copy, files) ==
  [copy EXCEPT !.active = FALSE, !.ready = files # {}, !.stopped = TRUE, !.names = files]

StopWrite ==
  LET copy == logThread["command"].copy
      files == Existing(copy.label)
  IN
  /\ LogAt("command", "stopWrite")
  /\ logState' = LogStopped(copy, files)
  /\ LogGo("command", IF files # {} THEN "stopParam" ELSE "stopEmpty")
  /\ UNCHANGED <<logFiles, mas0030, logTold, logBudgets>>

\* _notify_ready_to_microtom: should_send, then a row of the outbox.
StopParam ==
  /\ \/ LogAt("command", "stopParam") /\ mas0030' = 1 /\ LogGo("command", "stopTell")
     \/ LogAt("command", "stopEmpty") /\ mas0030' = 0 /\ LogDone("command")
  /\ UNCHANGED <<logState, logFiles, logTold, logBudgets>>

StopTell ==
  /\ LogAt("command", "stopTell")
  /\ logTold' = 1
  /\ LogDone("command")
  /\ UNCHANGED <<logState, logFiles, mas0030, logBudgets>>

-----------------------------------------------------------------------------
(* consume_ready_file: the download.                                       *)

RemoveFile ==
  LET w == logThread["download"] IN
  /\ LogAt("download", "remove")
  /\ logFiles' = logFiles \ {<<w.copy.label, g>> : g \in w.found}
  /\ LogGo("download", "again")
  /\ UNCHANGED <<logState, mas0030, logTold, logBudgets>>

\* _refresh_ready_state_after_removal
AfterDownload(state, found) ==
  IF found # {} THEN "names" ELSE IF state.ready THEN "unready" ELSE "zero"

LookAgain ==
  LET found == Existing(logState.label) IN
  /\ LogAt("download", "again")
  /\ logThread' = [logThread EXCEPT !["download"].at = AfterDownload(logState, found),
                                    !["download"].copy = logState, !["download"].found = found]
  /\ UNCHANGED <<logState, logFiles, mas0030, logTold, logBudgets>>

WriteNames ==
  LET w == logThread["download"] IN
  /\ LogAt("download", "names")
  /\ logState' = IF w.copy.names = w.found THEN logState ELSE [w.copy EXCEPT !.names = w.found]
  /\ LogDone("download")
  /\ UNCHANGED <<logFiles, mas0030, logTold, logBudgets>>

WriteUnready ==
  /\ LogAt("download", "unready")
  /\ logState' = [logThread["download"].copy EXCEPT !.ready = FALSE, !.names = {}]
  /\ LogGo("download", "tell")
  /\ UNCHANGED <<logFiles, mas0030, logTold, logBudgets>>

\* _set_ready_param, and _notify_ready_to_microtom, which returns at once: LogStore makes
\* its manager without cfg and outbox.
DownloadParam ==
  /\ logThread["download"].at \in {"zero", "tell"}
  /\ mas0030' = 0
  /\ LogDone("download")
  /\ UNCHANGED <<logState, logFiles, logTold, logBudgets>>

LogStep(t) ==
  \/ ReadLogState(t) \/ ListFiles(t) \/ Reconcile(t) \/ SetReadyParam(t)
CommandStep ==
  \/ LogStep("command") \/ StartRead \/ StartWrite \/ StartParam
  \/ StopRead \/ StopWrite \/ StopParam \/ StopTell
DownloadStep ==
  LogStep("download") \/ RemoveFile \/ LookAgain \/ WriteNames \/ WriteUnready \/ DownloadParam

LogsNext ==
  \/ AskStart \/ AskStop \/ AskManifest \/ AskDownload \/ AppendLine
  \/ CommandStep \/ LogStep("poll") \/ DownloadStep

LogsSpec == LogsInit /\ [][LogsNext]_logVars

LogsFairness ==
  /\ WF_logVars(~logState.active /\ AskManifest)
  /\ WF_logVars(CommandStep) /\ WF_logVars(LogStep("poll")) /\ WF_logVars(DownloadStep)
LogsFair == LogsSpec /\ LogsFairness

\* Every variable has its type, a thread at rest holds no job, and a production that is
\* still being recorded is not offered to Microtom.
LogsTypeOK ==
  /\ logState \in LogStates
  /\ logFiles \subseteq (1 .. LogProductions) \X LogGroups
  /\ mas0030 \in 0 .. 1 /\ logTold \in 0 .. 2
  /\ logThread \in [LogThreads ->
       [at : {"idle", "read", "list", "reconcile", "param", "startRead", "startWrite", "startParam",
              "stopRead", "stopWrite", "stopParam", "stopEmpty", "stopTell", "remove", "again",
              "names", "unready", "zero", "tell"},
        job : {"none", "start", "stop", "poll", "download"}, copy : LogStates, found : SUBSET LogGroups]]
  /\ \A t \in LogThreads : LogAt(t, "idle") <=> logThread[t].job = "none"
  /\ ~(logState.active /\ logState.ready)

LogsQuiet == \A t \in LogThreads : LogAt(t, "idle")

\* Whatever the three threads overwrite, MAS0030 = 1 without a file to download does not
\* last: it would refuse every further start.  Excepted is a recording: nothing asks for the
\* manifest regularly then, and a manifest that was read while a production recorded and
\* written after its stop makes that production an active one again, with MAS0030 as the
\* stop leaves it.
EmptyHeals == (mas0030 = 1 /\ logFiles = {}) ~> (mas0030 = 0 \/ logFiles # {} \/ logState.active)

\* Files of a stopped production, a late one among them, do not stay hidden.
Waiting == ~logState.active /\ logState.stopped /\ Existing(logState.label) # {}
WaitingOffered == Waiting ~> (mas0030 = 1 \/ ~Waiting)

\* MAS0030 comes to tell, in both directions, whether files wait to be fetched.
OfferedIfThere == EmptyHeals /\ WaitingOffered
=============================================================================
