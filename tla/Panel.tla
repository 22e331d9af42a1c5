------------------------------- MODULE Panel -------------------------------
(***************************************************************************)
(* The operator panel: the sampler thread that reads the buttons every     *)
(* 50 ms and queues every change (service.button_sampler_loop), and the thread *)
(* that takes the changes off the queue and turns a press into a command   *)
(* (button_input_loop, process_physical_button_inputs).                    *)
(*                                                                         *)
(* The consumer needs the refresh lock, which a refresh may hold for many  *)
(* seconds, so changes can pile up; a full queue drops its oldest one.     *)
(***************************************************************************)
EXTENDS Naturals, Sequences

CONSTANTS
  PanelButtons,   \* the buttons
  PanelQueueMax,  \* PANEL_BUTTON_QUEUE_MAX
  MaxTouches,     \* bound on presses
  MaxPanelErrors  \* bound on failed reads and failed events

ASSUME PanelAssumption ==
  PanelQueueMax \in Nat \ {0} /\ MaxTouches \in Nat /\ MaxPanelErrors \in Nat

VARIABLES
  pnDown,     \* the buttons held down
  pnKnown,    \* the sampler's previous_inputs; "none" before the first read
  pnQueue,    \* PANEL_BUTTON_EVENT_QUEUE
  pnState,    \* what the row says of the machine: free, or in a safety context
  pnPressed,  \* presses so far
  pnCommands, \* commands written to MAS0002 so far
  pnSeen,     \* history: the buttons of the last event with a press
  pnDone,     \* history: the button of the last press that was looked at
  pnBroke,    \* history: a press was lost in an exception of the consumer
  pnErrors

pnVars == <<pnDown, pnKnown, pnQueue, pnState, pnPressed, pnCommands, pnSeen,
            pnDone, pnBroke, pnErrors>>

PanelInit ==
  /\ pnDown = {} /\ pnKnown = {"none"} /\ pnQueue = <<>> /\ pnState = "free"
  /\ pnPressed = 0 /\ pnCommands = 0 /\ pnSeen = {} /\ pnDone = "none"
  /\ pnBroke = FALSE
  /\ pnErrors = 0

PanelError == pnErrors < MaxPanelErrors /\ pnErrors' = pnErrors + 1

-----------------------------------------------------------------------------
(* The operator.                                                           *)

Touch(b) ==
  /\ b \notin pnDown /\ pnPressed < MaxTouches
  /\ pnDown' = pnDown \cup {b} /\ pnPressed' = pnPressed + 1
  /\ UNCHANGED <<pnKnown, pnQueue, pnState, pnCommands, pnSeen, pnDone,
                 pnBroke, pnErrors>>

LetGo(b) ==
  /\ b \in pnDown
  /\ pnDown' = pnDown \ {b}
  /\ UNCHANGED <<pnKnown, pnQueue, pnState, pnPressed, pnCommands, pnSeen,
                 pnDone, pnBroke, pnErrors>>

-----------------------------------------------------------------------------
(* The sampler.                                                            *)

\* _queue_panel_button_event
QueuedBug(queue, event) ==
  IF Len(queue) < PanelQueueMax THEN Append(queue, event) ELSE queue

Queued(queue, event) ==
  IF Len(queue) < PanelQueueMax
  THEN Append(queue, event)
  ELSE Append(Tail(queue), event)

\* The first read after the start or after an error carries no change.
Before(known, now) == IF "none" \in known THEN now ELSE known

\* The buttons an event reports as newly pressed
Fresh(event) == event.now \ event.was

SampleReads ==
  /\ pnKnown # pnDown
  /\ LET event == [now |-> pnDown, was |-> Before(pnKnown, pnDown)]
     IN /\ pnQueue' = Queued(pnQueue, event)
        /\ pnSeen' = IF Fresh(event) = {} THEN pnSeen ELSE Fresh(event)
  /\ pnKnown' = pnDown
  /\ UNCHANGED <<pnDown, pnState, pnPressed, pnCommands, pnDone, pnBroke, pnErrors>>

SampleFails ==
  /\ PanelError
  /\ pnKnown' = {"none"}
  /\ UNCHANGED <<pnDown, pnQueue, pnState, pnPressed, pnCommands, pnSeen,
                 pnDone, pnBroke>>

-----------------------------------------------------------------------------
(* The consumer, under the refresh lock.                                   *)

\* In a safety context every button but start_pause is refused; any button may be
\* refused by the state, by MAP0065 or by an interlock.
Resolves(b) == pnState = "safety" => b = "start_pause"

\* _physical_button_request: the first fresh button that resolves, or none
HandleEvent ==
  /\ pnQueue # <<>>
  /\ pnQueue' = Tail(pnQueue)
  /\ LET fresh == Fresh(Head(pnQueue))
     IN \/ fresh = {} /\ UNCHANGED <<pnCommands, pnDone>>
        \/ pnDone' \in fresh /\ UNCHANGED pnCommands
        \/ \E b \in fresh : Resolves(b) /\ pnDone' = b /\ pnCommands' = pnCommands + 1
  /\ UNCHANGED <<pnDown, pnKnown, pnState, pnPressed, pnSeen, pnBroke, pnErrors>>

\* The event is off the queue when the handler fails.
HandleFails ==
  /\ pnQueue # <<>> /\ PanelError
  /\ pnQueue' = Tail(pnQueue)
  /\ pnBroke' = (pnBroke \/ Fresh(Head(pnQueue)) # {})
  /\ UNCHANGED <<pnDown, pnKnown, pnState, pnPressed, pnCommands, pnSeen,
                 pnDone>>

SafetyChanges ==
  /\ pnState' = IF pnState = "free" THEN "safety" ELSE "free"
  /\ UNCHANGED <<pnDown, pnKnown, pnQueue, pnPressed, pnCommands, pnSeen,
                 pnDone, pnBroke, pnErrors>>

-----------------------------------------------------------------------------
PanelNext ==
  \/ \E b \in PanelButtons : Touch(b) \/ LetGo(b)
  \/ SampleReads \/ SampleFails
  \/ HandleEvent \/ HandleFails \/ SafetyChanges

PanelSpec == PanelInit /\ [][PanelNext]_pnVars

\* The two threads run on.
PanelFair ==
  /\ PanelSpec
  /\ WF_pnVars(SampleReads) /\ WF_pnVars(HandleEvent)

-----------------------------------------------------------------------------
(* Properties                                                              *)

\* Every variable keeps its shape; the queue never holds more than its bound.
PanelTypeOK ==
  /\ pnDown \subseteq PanelButtons
  /\ pnKnown = {"none"} \/ pnKnown \subseteq PanelButtons
  /\ Len(pnQueue) <= PanelQueueMax
  /\ \A i \in DOMAIN pnQueue :
       pnQueue[i].now \subseteq PanelButtons /\ pnQueue[i].was \subseteq PanelButtons
  /\ pnState \in {"free", "safety"}
  /\ pnPressed \in 0 .. MaxTouches /\ pnCommands \in 0 .. MaxTouches
  /\ pnSeen \subseteq PanelButtons /\ pnDone \in PanelButtons \cup {"none"}
  /\ pnBroke \in BOOLEAN
  /\ pnErrors \in 0 .. MaxPanelErrors

\* A press gives one command at most, also when a read fails while the button is
\* held and the sampler starts over.
OneCommandPerPress == pnCommands <= pnPressed

\* However long the refresh lock is held and however many changes are dropped,
\* the last press that was queued is the last one looked at (a stop after other
\* presses is not the one that gets lost), unless the consumer fails on it.
LastPressWins ==
  \A pressed \in SUBSET PanelButtons \ {{}} :
    <>[](pnSeen = pressed /\ ~pnBroke) => <>[](pnDone \in pressed)

\* What holds of the panel in every state.
PanelInv == PanelTypeOK /\ OneCommandPerPress
=============================================================================
