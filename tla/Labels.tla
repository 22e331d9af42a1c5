------------------------------- MODULE Labels -------------------------------
(***************************************************************************)
(* The way of a completed label from the ESP to Microtom.                  *)
(*                                                                         *)
(* The ESP pushes label_complete events (esp_push_listener.py); the        *)
(* listener acknowledges an event when it lies in the dispatcher's queue,  *)
(* which is memory only, and a thread works the queue off.  The refresh    *)
(* fetches events too, and handles them in its own thread.  Each handler   *)
(* books the label in label_register, reports MAS0003 to Microtom through  *)
(* the value dedupe store (state_dedupe.py) and then marks the row; every  *)
(* SQL statement commits on its own.                                       *)
(*                                                                         *)
(* Labels have numbers; their quality bits are taken as equal, as they are *)
(* on a good run.  The outbox the report goes to is module Outbox.         *)
(***************************************************************************)
EXTENDS Naturals, Sequences, SequencesExt

CONSTANTS
  Productions,   \* bound: productions 1, 2, ... in a row
  LabelNos,      \* bound: label numbers of one production, from 1
  MaxLabels,     \* bound: labels of all productions
  WordSize,      \* values of the label number in MAS0003 (65536)
  QueueSize,     \* events the dispatcher holds (2048)
  MaxLabelTroubles  \* bound: ACK_EVT that do not reach the ESP and process restarts

ASSUME LabelsAssumption ==
  /\ Productions \in Nat \ {0} /\ LabelNos \in Nat \ {0}
  /\ MaxLabels \in Nat
  /\ WordSize \in Nat \ {0} /\ QueueSize \in Nat \ {0}
  /\ MaxLabelTroubles \in Nat

VARIABLES
  prodMode,   \* machine_state: new (no run yet), run, removal (pause), stopped
  prodNow,    \* the production whose label is current (MAS0029)
  labelsMade,       \* labels the ESP completed, per production
  espLabels,  \* events the ESP still holds, oldest first
  labelDispatch,   \* _MachineEventDispatcher._queue
  labelHandler,    \* thread -> the event it handles and how far it is
  labelRegister,   \* label_register: production -> number -> none, open, emitted
  labelKnown,      \* value_dedupe_state for MAS0003, WordSize: no row
  labelReports,    \* history: MAS0003 callbacks queued for a label of the production
  labelMarked,     \* history: events at whose end their own row was marked
  labelsGone,       \* history: events lost from memory or thrown away at a start
  lostAcks, labelCrashes   \* spent budgets

labelVars == <<prodMode, prodNow, labelsMade, espLabels, labelDispatch, labelHandler, labelRegister,
               labelKnown, labelReports, labelMarked, labelsGone, lostAcks, labelCrashes>>

LabelProds == 1 .. Productions
LabelNumbers == 1 .. LabelNos
LabelEvents == [prod : LabelProds, no : LabelNumbers]
LabelThreads == {"push", "fetch"}     \* the dispatcher's thread and the refresh
NoLabelEvent == [prod |-> 0, no |-> 0]
NoLabelWork == [at |-> "idle", ev |-> NoLabelEvent, label |-> 0, emitted |-> FALSE, forward |-> FALSE]

\* pack_label_status_word keeps 16 bits of the number.
PackedNo(no) == no % WordSize

LabelsInit ==
  /\ prodMode = "new" /\ prodNow = 1 /\ labelsMade = [p \in LabelProds |-> 0]
  /\ espLabels = <<>> /\ labelDispatch = <<>>
  /\ labelHandler = [h \in LabelThreads |-> NoLabelWork]
  /\ labelRegister = [p \in LabelProds |-> [n \in LabelNumbers |-> "none"]]
  /\ labelKnown = WordSize
  /\ labelReports = [p \in LabelProds |-> [n \in LabelNumbers |-> [h \in LabelThreads |-> 0]]]
  /\ labelMarked = {} /\ labelsGone = {}
  /\ lostAcks = 0 /\ labelCrashes = 0

labelMachine == <<prodMode, prodNow, labelsMade>>
labelStore == <<labelRegister, labelKnown, labelReports, labelMarked>>
labelBudgets == <<lostAcks, labelCrashes>>

-----------------------------------------------------------------------------
(* The ESP and the ways its events take.                                   *)

CompleteLabel ==
  /\ prodMode \in {"run", "removal"}
  /\ labelsMade[prodNow] < LabelNos
  /\ MapThenSumSet(LAMBDA p : labelsMade[p], LabelProds) < MaxLabels
  /\ labelsMade' = [labelsMade EXCEPT ![prodNow] = @ + 1]
  /\ espLabels' = Append(espLabels, [prod |-> prodNow, no |-> labelsMade[prodNow] + 1])
  /\ UNCHANGED <<prodMode, prodNow, labelDispatch, labelHandler, labelStore, labelsGone, labelBudgets>>

\* submit: put, and after half a second of a full queue put again.
HasRoom == Len(labelDispatch) < QueueSize

AckedBug(answered) == answered

\* _process_line: ACK_EVT promises no more than a place in the queue, a full queue is
\* answered NAK.  An ESP that sees no ACK sends the event again.
Acked(answered) == answered /\ HasRoom

PushLabel(answered) ==
  /\ espLabels # <<>>
  /\ labelDispatch' = IF HasRoom THEN Append(labelDispatch, Head(espLabels)) ELSE labelDispatch
  /\ espLabels' = IF Acked(answered) THEN Tail(espLabels) ELSE espLabels
  /\ IF answered THEN UNCHANGED lostAcks
     ELSE lostAcks + labelCrashes < MaxLabelTroubles /\ lostAcks' = lostAcks + 1
  /\ UNCHANGED <<labelMachine, labelHandler, labelStore, labelsGone, labelCrashes>>

\* _current_production_label: MAS0029, or the name of the last production while its log
\* files wait for Microtom; a start waits for them.
LabelNames ==
  {prodNow} \cup (IF prodMode = "new" /\ prodNow > 1 THEN {prodNow - 1} ELSE {})

\* What handle_event makes of label_complete: on a run, and before the first one, it is
\* reported; during a label-removal pause booked only; after a stop reported as a late one.
TakeLabel(h, e) ==
  \E name \in LabelNames :
    labelHandler' = [labelHandler EXCEPT ![h] =
      [at |-> "look", ev |-> e, label |-> name, emitted |-> FALSE,
       forward |-> prodMode # "removal"]]

DispatchLabel ==
  /\ labelHandler["push"].at = "idle"
  /\ labelDispatch # <<>>
  /\ TakeLabel("push", Head(labelDispatch))
  /\ labelDispatch' = Tail(labelDispatch)
  /\ UNCHANGED <<labelMachine, espLabels, labelStore, labelsGone, labelBudgets>>

\* _drain_esp_outbound_events of the monitor: OUTBOUND FETCH_EVENTS takes the event
\* from the ESP, the refresh handles it at once.
FetchLabel ==
  /\ prodMode = "run"
  /\ labelHandler["fetch"].at = "idle"
  /\ espLabels # <<>>
  /\ TakeLabel("fetch", Head(espLabels))
  /\ espLabels' = Tail(espLabels)
  /\ UNCHANGED <<labelMachine, labelDispatch, labelStore, labelsGone, labelBudgets>>

-----------------------------------------------------------------------------
(* _handle_label_complete, one SQL statement or callback at a time.        *)

LabelStep(h, from, to) ==
  /\ labelHandler[h].at = from
  /\ labelHandler' = [labelHandler EXCEPT ![h] = IF to = "idle" THEN NoLabelWork ELSE [@ EXCEPT !.at = to]]
RegisterRow(h) == labelRegister[labelHandler[h].label][labelHandler[h].ev.no]
LabelWord(h) == PackedNo(labelHandler[h].ev.no)

\* SELECT emitted_to_microtom
LookLabel(h) ==
  /\ labelHandler[h].at = "look"
  /\ labelHandler' = [labelHandler EXCEPT ![h].at = "book", ![h].emitted = (RegisterRow(h) = "emitted")]
  /\ UNCHANGED <<labelMachine, espLabels, labelDispatch, labelStore, labelsGone, labelBudgets>>

\* ON CONFLICT ... emitted_to_microtom=MAX(old, new)
BookedAs(old, emitted) == IF emitted \/ old = "emitted" THEN "emitted" ELSE "open"

AfterBookBug(h) == IF labelHandler[h].forward THEN "ask" ELSE "idle"

\* if forward_to_microtom and not already_emitted_to_microtom
AfterBook(h) == IF labelHandler[h].forward /\ ~labelHandler[h].emitted THEN "ask" ELSE "idle"

BookLabel(h) ==
  /\ LabelStep(h, "book", AfterBook(h))
  /\ labelRegister' = [labelRegister EXCEPT ![labelHandler[h].label][labelHandler[h].ev.no] =
                    BookedAs(RegisterRow(h), labelHandler[h].emitted)]
  /\ UNCHANGED <<labelMachine, espLabels, labelDispatch, labelKnown, labelReports, labelMarked, labelsGone, labelBudgets>>

SameWord(h) == labelKnown = LabelWord(h)

\* ValueDedupeStore.is_duplicate
AskKnown(h) ==
  /\ LabelStep(h, "ask", IF SameWord(h) THEN "mark" ELSE "keep")
  /\ UNCHANGED <<labelMachine, espLabels, labelDispatch, labelStore, labelsGone, labelBudgets>>

\* ValueDedupeStore.remember
KeepKnown(h) ==
  /\ LabelStep(h, "keep", "report")
  /\ labelKnown' = LabelWord(h)
  /\ UNCHANGED <<labelMachine, espLabels, labelDispatch, labelRegister, labelReports, labelMarked, labelsGone, labelBudgets>>

\* outbox.enqueue of MAS0003, without a key
ReportLabel(h) ==
  /\ LabelStep(h, "report", "mark")
  /\ labelReports' = IF labelHandler[h].label # labelHandler[h].ev.prod THEN labelReports
                ELSE [labelReports EXCEPT ![labelHandler[h].label][labelHandler[h].ev.no][h] = @ + 1]
  /\ UNCHANGED <<labelMachine, espLabels, labelDispatch, labelRegister, labelKnown, labelMarked, labelsGone, labelBudgets>>

\* UPDATE label_register SET emitted_to_microtom=1: nothing when the row is labelsGone.
MarkLabel(h) ==
  /\ LabelStep(h, "mark", "idle")
  /\ labelRegister' = IF RegisterRow(h) = "none" THEN labelRegister
                 ELSE [labelRegister EXCEPT ![labelHandler[h].label][labelHandler[h].ev.no] = "emitted"]
  /\ labelMarked' = IF labelHandler[h].label = labelHandler[h].ev.prod /\ RegisterRow(h) # "none"
               THEN labelMarked \cup {labelHandler[h].ev} ELSE labelMarked
  /\ UNCHANGED <<labelMachine, espLabels, labelDispatch, labelKnown, labelReports, labelsGone, labelBudgets>>

-----------------------------------------------------------------------------
(* The machine around it.                                                  *)

\* A start clears what the ESP still holds, unseen (_ensure_esp_outbound_ready_for_start).
StartLabelRun ==
  /\ prodMode = "new"
  /\ prodMode' = "run"
  /\ labelsGone' = labelsGone \cup ToSet(espLabels)
  /\ espLabels' = <<>>
  /\ UNCHANGED <<prodNow, labelsMade, labelDispatch, labelHandler, labelStore, labelBudgets>>

LabelPause ==
  /\ prodMode \in {"run", "removal"}
  /\ prodMode' = IF prodMode = "run" THEN "removal" ELSE "run"
  /\ UNCHANGED <<prodNow, labelsMade, espLabels, labelDispatch, labelHandler, labelStore, labelsGone, labelBudgets>>

StopLabelRun ==
  /\ prodMode \in {"run", "removal"}
  /\ labelsMade[prodNow] > 0
  /\ prodMode' = "stopped"
  /\ UNCHANGED <<prodNow, labelsMade, espLabels, labelDispatch, labelHandler, labelStore, labelsGone, labelBudgets>>

\* prepare_new_production: not in states 4, 5, 6; deletes the rows of the new label and
\* of the previous one, resets the ESP's counting and the value of MAS0003, but not what
\* the dedupe store knows.
NewLabelProduction ==
  /\ prodMode = "stopped"
  /\ prodNow < Productions
  /\ prodNow' = prodNow + 1
  /\ prodMode' = "new"
  /\ labelRegister' = [p \in LabelProds |->
       IF p \in {prodNow, prodNow + 1} THEN [n \in LabelNumbers |-> "none"] ELSE labelRegister[p]]
  /\ UNCHANGED <<labelsMade, espLabels, labelDispatch, labelHandler, labelKnown, labelReports, labelMarked,
                 labelsGone, labelBudgets>>

\* The process restarts: the queue and the handlers are memory.
LabelRestart ==
  /\ lostAcks + labelCrashes < MaxLabelTroubles
  /\ labelCrashes' = labelCrashes + 1
  /\ labelsGone' = labelsGone \cup ToSet(labelDispatch) \cup {labelHandler[h].ev : h \in {t \in LabelThreads : labelHandler[t].at # "idle"}}
  /\ labelDispatch' = <<>>
  /\ labelHandler' = [h \in LabelThreads |-> NoLabelWork]
  /\ UNCHANGED <<labelMachine, espLabels, labelStore, lostAcks>>

LabelHandlerStep(h) ==
  \/ LookLabel(h) \/ BookLabel(h) \/ AskKnown(h) \/ KeepKnown(h) \/ ReportLabel(h) \/ MarkLabel(h)

LabelsNext ==
  \/ CompleteLabel \/ DispatchLabel \/ FetchLabel
  \/ \E answered \in BOOLEAN : PushLabel(answered)
  \/ \E h \in LabelThreads : LabelHandlerStep(h)
  \/ StartLabelRun \/ LabelPause \/ StopLabelRun \/ NewLabelProduction \/ LabelRestart

LabelsSpec == LabelsInit /\ [][LabelsNext]_labelVars

\* The ESP sends again until it is answered, and the threads are scheduled.
LabelsFairness ==
  /\ WF_labelVars(PushLabel(TRUE)) /\ WF_labelVars(DispatchLabel)
  /\ \A h \in LabelThreads : WF_labelVars(LabelHandlerStep(h))

LabelsFair == LabelsSpec /\ LabelsFairness

-----------------------------------------------------------------------------
\* Every variable has its type.
LabelsTypeOK ==
  /\ prodMode \in {"new", "run", "removal", "stopped"}
  /\ prodNow \in LabelProds /\ labelsMade \in [LabelProds -> 0 .. LabelNos]
  /\ espLabels \in Seq(LabelEvents) /\ labelDispatch \in Seq(LabelEvents) /\ Len(labelDispatch) <= QueueSize
  /\ labelHandler \in [LabelThreads ->
       [at : {"idle", "look", "book", "ask", "keep", "report", "mark"},
        ev : LabelEvents \cup {NoLabelEvent}, label : LabelProds \cup {0}, emitted : BOOLEAN, forward : BOOLEAN]]
  /\ labelRegister \in [LabelProds -> [LabelNumbers -> {"none", "open", "emitted"}]]
  /\ labelKnown \in 0 .. WordSize
  /\ labelReports \in [LabelProds -> [LabelNumbers -> [LabelThreads -> Nat]]]
  /\ labelMarked \subseteq LabelEvents
  /\ labelsGone \subseteq LabelEvents

\* A label once marked as reported is not taken back by the other thread that looked at
\* the row before it was marked and books it after, until a new production deletes it.
EmittedStays ==
  [][\A p \in LabelProds, n \in LabelNumbers :
       labelRegister[p][n] = "emitted" => labelRegister'[p][n] = "emitted" \/ prodNow' # prodNow]_labelVars

\* However often an event arrives (lost ACK, a fetch of what was pushed), in one life of
\* the process each of the two threads sends Microtom a label of the current production at
\* most once: twice in all only when both had the same event in hand at once.
AtMostOncePerThread ==
  labelCrashes = 0 =>
    \A n \in LabelNumbers, h \in LabelThreads : labelReports[prodNow][n][h] <= 1

\* An event the ESP still holds, or that was acknowledged, is in the end booked under some
\* production, unless a restart took it from memory or a start threw it away.
LabelBooked(e) == \E p \in LabelProds : labelRegister[p][e.no] # "none"
LabelPending(e) == e \in ToSet(espLabels) \cup ToSet(labelDispatch)
LabelsArrive ==
  \A e \in LabelEvents : LabelPending(e) ~> (LabelBooked(e) \/ e \in labelsGone \/ prodNow # e.prod)

\* What holds of register and reports in every state.
LabelsInv == LabelsTypeOK /\ AtMostOncePerThread

\* A label is booked in the end, and once reported stays so.
LabelsSettle == LabelsArrive /\ EmittedStays
=============================================================================
