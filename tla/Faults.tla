------------------------------- MODULE Faults -------------------------------
(***************************************************************************)
(* One fault bit (MAE...) on its way from the device that raises it to     *)
(* Microtom: the row in param_values, the memory of what Microtom was told *)
(* (value_dedupe_state, channel "microtom"), the outbox rows and Microtom's *)
(* view.  Three kinds of fault are treated differently:                    *)
(*   "plain"   pushed by the ESP (esp_push_listener._process_line);        *)
(*   "bounce"  MAE0027 and the band break faults, which the Raspi drops    *)
(*             outside the process states;                                 *)
(*   "dancer"  dancer faults of a smart wickler, which arrive through the  *)
(*             inbox (Router.handle_device_line) and stay latched.         *)
(* Every connection of the ESP has a thread of its own, no lock is held,   *)
(* and every database call commits by itself, so a connection the ESP has  *)
(* given up, the new one and the runtime's reset interleave freely.        *)
(***************************************************************************)
EXTENDS Naturals, Sequences, SequencesExt

CONSTANTS
  FaultKinds,    \* the kinds that occur
  FaultSenders,  \* of "a", "b" (two connections) and "runtime"
  MaxFlips,      \* bound on changes at the device
  MaxFaultTrips, \* bound on state changes, resets, cut connections, crashes and failed sends
  FaultQueueMax  \* bound on waiting outbox rows

ASSUME FaultsAssumption ==
  /\ FaultKinds \subseteq {"plain", "bounce", "dancer"}
  /\ FaultSenders \subseteq {"a", "b", "runtime"}
  /\ MaxFlips \in Nat /\ MaxFaultTrips \in Nat /\ FaultQueueMax \in Nat

VARIABLES
  ftKind,
  ftBit,     \* the fault at the device
  ftOwes,    \* "new": to be reported; "sent": no answer yet; "no"
  ftLine,    \* the connection the device waits on, or "none"
  ftAt,      \* sender -> [pc, val]: where its handler stands
  ftRow,     \* param_values
  ftTold,    \* value_dedupe_state; "none" before the first message
  ftQueue,   \* outbox rows by age: [val, prio, late], late: a send of it has failed
  ftView,    \* what Microtom received last
  ftProcess, \* MAS0001 is a state in which "bounce" faults count
  ftRowOff,  \* history: the row was made to differ from the device on purpose
  ftViewOff, \* history: something happened that can leave Microtom behind
  ftFlips, ftTrips

ftVars == <<ftKind, ftBit, ftOwes, ftLine, ftAt, ftRow, ftTold, ftQueue, ftView,
            ftProcess, ftRowOff, ftViewOff, ftFlips, ftTrips>>

Resting == [pc |-> "rest", val |-> 0]

FaultsInit ==
  /\ ftKind \in FaultKinds
  /\ ftBit = 0 /\ ftOwes = "no" /\ ftLine = "none"
  /\ ftAt = [s \in FaultSenders |-> Resting]
  /\ ftRow = 0 /\ ftTold = "none" /\ ftQueue = <<>> /\ ftView = 0
  /\ ftProcess = TRUE
  /\ ftRowOff = FALSE /\ ftViewOff = FALSE /\ ftFlips = 0 /\ ftTrips = 0

Trip == ftTrips < MaxFaultTrips /\ ftTrips' = ftTrips + 1

Conns == FaultSenders \ {"runtime"}

-----------------------------------------------------------------------------
(* The device.                                                             *)

FaultFlips ==
  /\ ftFlips < MaxFlips /\ ftFlips' = ftFlips + 1
  /\ ftBit' = 1 - ftBit /\ ftOwes' = "new"
  /\ UNCHANGED <<ftKind, ftLine, ftAt, ftRow, ftTold, ftQueue, ftView, ftProcess,
                 ftRowOff, ftViewOff, ftTrips>>

\* Two connections differ in their names alone: a new one takes the first name at rest.
FirstFree(c) == ftAt[c].pc = "rest" /\ ("a" \in Conns /\ ftAt["a"].pc = "rest" => c = "a")

\* The device reports its bit on one connection and waits for the answer.
DeviceReports(c) ==
  /\ ftOwes # "no" /\ ftLine = "none" /\ FirstFree(c)
  /\ ftLine' = c /\ ftOwes' = "sent"
  /\ ftAt' = [ftAt EXCEPT ![c] = [pc |-> "check", val |-> ftBit]]
  /\ UNCHANGED <<ftKind, ftBit, ftRow, ftTold, ftQueue, ftView, ftProcess,
                 ftRowOff, ftViewOff, ftFlips, ftTrips>>

\* The device gives up waiting and opens a new connection; the handler of the
\* old one goes on.  A wickler's line is in the inbox and is not sent again.
DeviceGivesUp ==
  /\ ftLine # "none" /\ ftKind # "dancer" /\ Trip
  /\ ftLine' = "none"
  /\ UNCHANGED <<ftKind, ftBit, ftOwes, ftAt, ftRow, ftTold, ftQueue, ftView,
                 ftProcess, ftRowOff, ftViewOff, ftFlips>>

-----------------------------------------------------------------------------
(* The handlers of a reported value.                                       *)

\* The answer, which the device takes if it still waits on this connection and
\* the bit has not changed since.
Answered(c) ==
  /\ ftAt' = [ftAt EXCEPT ![c] = Resting]
  /\ ftLine' = IF ftLine = c THEN "none" ELSE ftLine
  /\ ftOwes' = IF ftLine = c /\ ftOwes = "sent" THEN "no" ELSE ftOwes

GoesTo(s, pc) == ftAt' = [ftAt EXCEPT ![s].pc = pc] /\ UNCHANGED <<ftLine, ftOwes>>

\* The runtime answers nobody.
Ends(s) ==
  IF s = "runtime"
  THEN ftAt' = [ftAt EXCEPT ![s] = Resting] /\ UNCHANGED <<ftLine, ftOwes>>
  ELSE Answered(s)

\* _duplicate_stored_value; an active "bounce" fault is never a duplicate.
StoredAlready(val) == ftRow = val /\ ~(ftKind = "bounce" /\ val = 1)

CheckStored(c) ==
  /\ ftAt[c].pc = "check"
  /\ IF StoredAlready(ftAt[c].val) THEN Answered(c) ELSE GoesTo(c, "gate")
  /\ UNCHANGED <<ftKind, ftBit, ftRow, ftTold, ftQueue, ftView, ftProcess,
                 ftRowOff, ftViewOff, ftFlips, ftTrips>>

\* The faults the Raspi does not take over: outside the process states the row
\* is cleared instead, without a message to Microtom.
OutOfProcess(val) == ftKind = "bounce" /\ val = 1 /\ ~ftProcess

\* _latched_wickler_dancer_fault_clear and _duplicate_inactive_fault_clear
IgnoredClear(val) == val = 0 /\ (ftKind = "dancer" \/ ftRow = 0)

Gate(c) ==
  /\ ftAt[c].pc = "gate"
  /\ IF OutOfProcess(ftAt[c].val)
     THEN /\ ftRow' = 0
          /\ ftViewOff' = (ftViewOff \/ ftRow = 1)
          /\ ftRowOff' = TRUE
          /\ Answered(c)
     ELSE /\ IF IgnoredClear(ftAt[c].val) THEN Answered(c) ELSE GoesTo(c, "store")
          /\ ftRowOff' = (ftRowOff \/ (IgnoredClear(ftAt[c].val) /\ ftRow = 1))
          /\ UNCHANGED <<ftRow, ftViewOff>>
  /\ UNCHANGED <<ftKind, ftBit, ftTold, ftQueue, ftView, ftProcess, ftFlips, ftTrips>>

\* Another handler with the other value is between its store and its message.
Crosses(s) ==
  \E o \in FaultSenders \ {s} :
    ftAt[o].pc \in {"store", "ask", "remember", "queue"} /\ ftAt[o].val # ftAt[s].val

Store(s) ==
  /\ ftAt[s].pc = "store"
  /\ ftRow' = ftAt[s].val
  /\ ftViewOff' = (ftViewOff \/ Crosses(s))
  /\ ftRowOff' = (ftRowOff \/ (s # ftLine /\ ftAt[s].val # ftBit))
  /\ GoesTo(s, "ask")
  /\ UNCHANGED <<ftKind, ftBit, ftTold, ftQueue, ftView, ftProcess, ftFlips, ftTrips>>

\* A value as value_dedupe_state holds it
Text(val) == IF val = 0 THEN "0" ELSE "1"

\* ValueDedupeStore.should_send: is_duplicate, then remember.
AskTold(s) ==
  /\ ftAt[s].pc = "ask"
  /\ IF ftTold = Text(ftAt[s].val) THEN Ends(s) ELSE GoesTo(s, "remember")
  /\ UNCHANGED <<ftKind, ftBit, ftRow, ftTold, ftQueue, ftView, ftProcess,
                 ftRowOff, ftViewOff, ftFlips, ftTrips>>

RememberedBug(val) == IF val = 0 THEN ftTold ELSE Text(val)

Remembered(val) == Text(val)

Remember(s) ==
  /\ ftAt[s].pc = "remember"
  /\ ftTold' = Remembered(ftAt[s].val)
  /\ GoesTo(s, "queue")
  /\ UNCHANGED <<ftKind, ftBit, ftRow, ftQueue, ftView, ftProcess, ftRowOff,
                 ftViewOff, ftFlips, ftTrips>>

\* Smaller numbers are sent first.
PrioOf(s) == IF s = "runtime" THEN 20 ELSE IF ftKind = "dancer" THEN 10 ELSE 100

Message(s) == [val |-> ftAt[s].val, prio |-> PrioOf(s), late |-> FALSE]

\* Outbox.enqueue with the options of microtom_state_queue_options: an active
\* and a clear message have different keys; a clear one replaces the waiting
\* clear one (never more than one waits), an active one is dropped if the newest
\* waiting active one has the same body (value and origin), whatever clear
\* message came after it.
Waiting(queue, val) == {i \in DOMAIN queue : queue[i].val = val}

Same(queue, msg) ==
  Waiting(queue, 1) # {} /\ [queue[Max(Waiting(queue, 1))] EXCEPT !.late = FALSE] = msg

Replaced(queue) ==
  IF Waiting(queue, 0) = {} THEN queue
  ELSE RemoveAt(queue, CHOOSE i \in Waiting(queue, 0) : TRUE)

Enqueued(queue, msg) ==
  IF msg.val = 0 THEN Append(Replaced(queue), msg)
  ELSE IF Same(queue, msg) THEN queue
  ELSE Append(queue, msg)

\* The messages that can reach Microtom after this one although they are older
StaysBehind(msg) ==
  \E i \in DOMAIN Enqueued(ftQueue, msg) :
    LET other == Enqueued(ftQueue, msg)[i]
    IN /\ other.val # msg.val
       /\ other.prio > msg.prio \/ other.late \/ Last(Enqueued(ftQueue, msg)) # msg

Enqueue(s) ==
  /\ ftAt[s].pc = "queue" /\ Len(ftQueue) < FaultQueueMax
  /\ ftQueue' = Enqueued(ftQueue, Message(s))
  /\ ftViewOff' = (ftViewOff \/ StaysBehind(Message(s)))
  /\ Ends(s)
  /\ UNCHANGED <<ftKind, ftBit, ftRow, ftTold, ftView, ftProcess, ftRowOff,
                 ftFlips, ftTrips>>

\* The handler fails: a refused statement, or a restart of the process.
HandlerDies(s) ==
  /\ ftAt[s].pc \notin {"rest", "check"} /\ Trip
  /\ ftAt' = [ftAt EXCEPT ![s] = Resting]
  /\ ftLine' = IF ftLine = s THEN "none" ELSE ftLine
  /\ ftOwes' = IF ftLine = s /\ ftKind = "dancer" /\ ftOwes = "sent" THEN "no" ELSE ftOwes
  /\ ftViewOff' = (ftViewOff \/ ftAt[s].pc \in {"ask", "remember", "queue"})
  /\ ftRowOff' = (ftRowOff \/ ftKind = "dancer")
  /\ UNCHANGED <<ftKind, ftBit, ftRow, ftTold, ftQueue, ftView, ftProcess, ftFlips>>

-----------------------------------------------------------------------------
(* The runtime and the peer.                                               *)

\* _clear_resettable_fault_latches_after_external_purge_clear and the reset
RuntimeClears ==
  /\ "runtime" \in FaultSenders /\ Trip
  /\ ftAt["runtime"].pc = "rest" /\ ftRow = 1
  /\ ftAt' = [ftAt EXCEPT !["runtime"] = [pc |-> "store", val |-> 0]]
  /\ UNCHANGED <<ftKind, ftBit, ftOwes, ftLine, ftRow, ftTold, ftQueue, ftView,
                 ftProcess, ftRowOff, ftViewOff, ftFlips>>

StateChanges ==
  /\ ftKind = "bounce" /\ Trip
  /\ ftProcess' = ~ftProcess
  /\ UNCHANGED <<ftKind, ftBit, ftOwes, ftLine, ftAt, ftRow, ftTold, ftQueue,
                 ftView, ftRowOff, ftViewOff, ftFlips>>

\* claim_next_due: fresh rows have next_attempt_ts 0 and go first, the smallest priority
\* and the oldest of those; rescheduled rows follow in the order of their backoffs, which is
\* left open.
NextOut(i) ==
  \A j \in DOMAIN ftQueue \ {i} :
    IF ftQueue[i].late THEN ftQueue[j].late
    ELSE \/ ftQueue[j].late \/ ftQueue[i].prio < ftQueue[j].prio
         \/ ftQueue[i].prio = ftQueue[j].prio /\ i < j

MicrotomReceives ==
  \E i \in DOMAIN ftQueue :
    /\ NextOut(i)
    /\ ftView' = ftQueue[i].val
    /\ ftQueue' = RemoveAt(ftQueue, i)
    /\ UNCHANGED <<ftKind, ftBit, ftOwes, ftLine, ftAt, ftRow, ftTold, ftProcess,
                   ftRowOff, ftViewOff, ftFlips, ftTrips>>

\* Outbox.reschedule after a failed send, which may have arrived all the same: later
\* messages overtake the row.
SendFails(i, arrived) ==
  /\ NextOut(i) /\ Trip
  /\ ftView' = IF arrived THEN ftQueue[i].val ELSE ftView
  /\ ftQueue' = [ftQueue EXCEPT ![i].late = TRUE]
  /\ ftViewOff' = (ftViewOff \/ \E j \in DOMAIN ftQueue : j > i /\ ftQueue[j].val # ftQueue[i].val)
  /\ UNCHANGED <<ftKind, ftBit, ftOwes, ftLine, ftAt, ftRow, ftTold, ftProcess,
                 ftRowOff, ftFlips>>

-----------------------------------------------------------------------------
HandlerStep(s) ==
  \/ s \in Conns /\ (CheckStored(s) \/ Gate(s))
  \/ Store(s) \/ AskTold(s) \/ Remember(s) \/ Enqueue(s)

FaultsNext ==
  \/ FaultFlips \/ DeviceGivesUp
  \/ \E c \in Conns : DeviceReports(c)
  \/ \E s \in FaultSenders : HandlerStep(s) \/ HandlerDies(s)
  \/ RuntimeClears \/ StateChanges \/ MicrotomReceives
  \/ \E i \in DOMAIN ftQueue, arrived \in BOOLEAN : SendFails(i, arrived)

FaultsSpec == FaultsInit /\ [][FaultsNext]_ftVars

\* Handlers run on, the device repeats what was not answered, and the outbox
\* drains (module Outbox).
FaultsFair ==
  /\ FaultsSpec
  /\ \A s \in FaultSenders : WF_ftVars(HandlerStep(s))
  /\ WF_ftVars(\E c \in Conns : DeviceReports(c))
  /\ WF_ftVars(MicrotomReceives)

-----------------------------------------------------------------------------
(* Properties                                                              *)

\* Every variable keeps its shape; what Microtom was told is a value some handler
\* stored; at most one clear message waits.
FaultsTypeOK ==
  /\ ftBit \in 0 .. 1 /\ ftRow \in 0 .. 1 /\ ftView \in 0 .. 1
  /\ ftOwes \in {"no", "new", "sent"} /\ ftProcess \in BOOLEAN
  /\ ftLine \in Conns \cup {"none"}
  /\ ftTold \in {"none", "0", "1"}
  /\ \A s \in FaultSenders : ftAt[s].val \in 0 .. 1
  /\ \A i, j \in Waiting(ftQueue, 0) : i = j
  /\ ftFlips \in 0 .. MaxFlips /\ ftTrips \in 0 .. MaxFaultTrips

\* Once the device has its answer and no handler is at work, the row is what the
\* device reported, unless the Raspi overrode it (a filtered or latched fault, a
\* reset, a late handler of an abandoned connection).
RowIsReported ==
  (ftOwes = "no" /\ ~ftRowOff /\ \A s \in FaultSenders : ftAt[s] = Resting) => ftRow = ftBit

\* Microtom ends up with the value of the row, whatever duplicates the three
\* memories (row, value_dedupe_state, outbox key) swallow on the way, unless one
\* of these happened: the handler died after its store; the row was cleared
\* outside the process states; two handlers with different values overlapped; a
\* later message was sent before, or collapsed into, an older one, because of its
\* priority or because a send of the older one had failed.
ViewFollows == \A v \in 0 .. 1 : <>[](ftRow = v /\ ~ftViewOff) => <>[](ftView = v)

\* docs/PROJECT_CONTEXT.md:173: the outbox collapses consecutive identical values
\* only, so the newest waiting message carries the value Microtom is to have last.
AlternationKept ==
  (ftQueue # <<>> /\ \A s \in FaultSenders : ftAt[s].pc \notin {"remember", "queue"})
    => Text(Last(ftQueue).val) = ftTold

\* What holds of a reported fault in every state.
FaultsInv == FaultsTypeOK /\ RowIsReported
=============================================================================
