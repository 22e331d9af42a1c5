------------------------------- MODULE Broker -------------------------------
(***************************************************************************)
(* The ESP command broker (device_clients.py): one thread of the           *)
(* databridge owns the one connection the ESP takes.  Callers put their    *)
(* commands into a priority queue and wait until a deadline; the broker    *)
(* connects, sends, reads one line, and on a failure closes and sends      *)
(* again.  A file lock keeps other processes off the ESP.                  *)
(*                                                                         *)
(* Time is left out: a deadline may pass at any moment, an answer may come *)
(* after the read has been given up.                                       *)
(***************************************************************************)
EXTENDS Naturals, Sequences, SequencesExt, FiniteSets

CONSTANTS
  StopCalls,    \* commands of priority 0: STOP, CANCEL, RESET, priority=True
  PlainCalls,   \* commands of every other priority, here one class
  BrokerQueue,  \* _ESP_COMMAND_BROKER_QUEUE_MAX
  MaxTries      \* _esp_command_max_attempts

BrokerCalls == StopCalls \cup PlainCalls

ASSUME BrokerAssumption ==
  /\ IsFiniteSet(BrokerCalls) /\ StopCalls \cap PlainCalls = {}
  /\ BrokerQueue \in Nat \ {0} /\ MaxTries \in Nat \ {0}

VARIABLES
  brCall,      \* call -> new, wait; its event set: answered, failed; checking, closing
               \* (a caller whose wait ran out), gone
  brAnswer,    \* call -> the command the line it was given answers
  brExpired,   \* calls whose deadline has passed
  brQueue,     \* _queue in the order of submission
  brAt,        \* the broker thread: idle, taken, try, socket, connect, send, read
  brCurrent,   \* the request it took
  brActive,    \* _active_req is set
  brTries,     \* command_attempt
  brSock,      \* _EndpointState.sock is open
  brLines,     \* answers on their way in this connection
  brLock,      \* the file lock: free, broker, other
  brPersistent,   \* the ESP's firmware knows TCP BROKER=1
  brBare       \* history: the connection was made after the lock was given back

brVars == <<brCall, brAnswer, brExpired, brQueue, brAt, brCurrent, brActive, brTries,
            brSock, brLines, brLock, brPersistent, brBare>>
brCallers == <<brCall, brAnswer, brExpired>>
brThread == <<brAt, brCurrent, brActive, brTries>>
brLink == <<brSock, brLines, brLock, brBare>>

NoCall == "none"
EventSet(c) == brCall[c] \in {"answered", "failed", "checking", "closing", "gone"}

BrokerInit ==
  /\ brCall = [c \in BrokerCalls |-> "new"] /\ brAnswer = [c \in BrokerCalls |-> NoCall]
  /\ brExpired = {} /\ brQueue = <<>>
  /\ brAt = "idle" /\ brCurrent = NoCall /\ brActive = FALSE /\ brTries = 0
  /\ brSock = FALSE /\ brLines = <<>> /\ brLock = "free" /\ brPersistent \in BOOLEAN
  /\ brBare = FALSE

-----------------------------------------------------------------------------
(* Callers.                                                                *)

\* put with half a second of patience, then "queue full".
QueueTakes == Len(brQueue) < BrokerQueue

\* submit
SubmitCall(c) ==
  /\ brCall[c] = "new"
  /\ brCall' = [brCall EXCEPT ![c] = IF QueueTakes THEN "wait" ELSE "gone"]
  /\ brQueue' = IF QueueTakes THEN Append(brQueue, c) ELSE brQueue
  /\ UNCHANGED <<brAnswer, brExpired, brThread, brLink, brPersistent>>

PassDeadline(c) ==
  /\ brCall[c] = "wait" /\ c \notin brExpired
  /\ brExpired' = brExpired \cup {c}
  /\ UNCHANGED <<brCall, brAnswer, brQueue, brThread, brLink, brPersistent>>

\* event.wait runs out: the request is failed by its own caller ...
GiveUp(c) ==
  /\ brCall[c] = "wait" /\ c \in brExpired
  /\ brCall' = [brCall EXCEPT ![c] = "checking"]
  /\ UNCHANGED <<brAnswer, brExpired, brQueue, brThread, brLink, brPersistent>>

\* ... which looks whether it is the active one ...
CheckActive(c) ==
  /\ brCall[c] = "checking"
  /\ brCall' = [brCall EXCEPT ![c] = IF brActive /\ brCurrent = c THEN "closing" ELSE "gone"]
  /\ UNCHANGED <<brAnswer, brExpired, brQueue, brThread, brLink, brPersistent>>

ClosedSocket == brSock' = FALSE /\ brLines' = <<>> /\ brBare' = FALSE

\* close_socket: the connection, and the file lock if the broker holds it.
CloseSocket ==
  /\ ClosedSocket
  /\ brLock' = IF brLock = "broker" THEN "free" ELSE brLock

\* ... and closes whatever connection there is now.
CallerCloses(c) ==
  /\ brCall[c] = "closing"
  /\ brCall' = [brCall EXCEPT ![c] = "gone"]
  /\ CloseSocket
  /\ UNCHANGED <<brAnswer, brExpired, brQueue, brThread, brPersistent>>

ReturnCall(c) ==
  /\ brCall[c] \in {"answered", "failed"}
  /\ brCall' = [brCall EXCEPT ![c] = "gone"]
  /\ UNCHANGED <<brAnswer, brExpired, brQueue, brThread, brLink, brPersistent>>

-----------------------------------------------------------------------------
(* The broker thread.                                                      *)

\* The lowest priority number first, then the order of submission.
ComesNext(i) ==
  \A j \in DOMAIN brQueue \ {i} :
    IF brQueue[i] \in StopCalls <=> brQueue[j] \in StopCalls
    THEN i < j ELSE brQueue[i] \in StopCalls

BrokerFree == brAt' = "idle" /\ brCurrent' = NoCall /\ brActive' = FALSE /\ brTries' = 0

\* req.event.is_set: nobody waits for it any more.
StillWanted(c) == ~EventSet(c)

TakeCall ==
  /\ brAt = "idle"
  /\ \E i \in DOMAIN brQueue :
       /\ ComesNext(i)
       /\ brQueue' = RemoveAt(brQueue, i)
       /\ IF StillWanted(brQueue[i])
          THEN brAt' = "taken" /\ brCurrent' = brQueue[i] /\ UNCHANGED <<brActive, brTries>>
          ELSE UNCHANGED brThread
  /\ UNCHANGED <<brCallers, brLink, brPersistent>>

\* req.fail
CallFailed(c) == brCall' = IF EventSet(c) THEN brCall ELSE [brCall EXCEPT ![c] = "failed"]

\* "expired before send", or the request becomes the active one.
ArmCall ==
  /\ brAt = "taken"
  /\ IF brCurrent \in brExpired
     THEN CallFailed(brCurrent) /\ BrokerFree
     ELSE brAt' = "try" /\ brActive' = TRUE /\ UNCHANGED <<brCall, brCurrent, brTries>>
  /\ UNCHANGED <<brAnswer, brExpired, brQueue, brLink, brPersistent>>

TimeLeftBug == TRUE

\* while time.monotonic() < req.deadline
TimeLeft == brCurrent \notin brExpired

\* _execute_with_retries, one turn of its loop; _ensure_socket takes an open connection.
BeginTry ==
  /\ brAt = "try"
  /\ IF TimeLeft /\ brTries < MaxTries
     THEN /\ brAt' = IF brSock THEN "send" ELSE "socket"
          /\ UNCHANGED <<brCall, brCurrent, brActive, brTries>>
     ELSE CallFailed(brCurrent) /\ BrokerFree
  /\ UNCHANGED <<brAnswer, brExpired, brQueue, brLink, brPersistent>>

TakeLock ==
  /\ brAt = "socket" /\ brLock \in {"free", "broker"}
  /\ brLock' = "broker" /\ brAt' = "connect"
  /\ UNCHANGED <<brCallers, brQueue, brCurrent, brActive, brTries, brSock, brLines, brBare,
                 brPersistent>>

AfterFailureBug == UNCHANGED <<brSock, brLines, brBare, brLock>>

\* Every failure closes, so that a late answer has no connection to come by.
AfterFailure == CloseSocket

\* The lock is somebody else's, the ESP refuses (which is not counted) or does not answer
\* to the connection or to TCP BROKER=1.
ConnectFails(refused) ==
  /\ brAt \in {"socket", "connect"}
  /\ brAt = "socket" => brLock = "other" /\ ~refused
  /\ brAt' = "try" /\ brTries' = IF refused THEN brTries ELSE brTries + 1
  /\ AfterFailure
  /\ UNCHANGED <<brCallers, brQueue, brCurrent, brActive, brPersistent>>

\* create_connection and TCP BROKER=1.
Connect ==
  /\ brAt = "connect"
  /\ brSock' = TRUE /\ brLines' = <<>> /\ brAt' = "send"
  /\ brBare' = (brLock # "broker")
  /\ UNCHANGED <<brCallers, brQueue, brCurrent, brActive, brTries, brLock, brPersistent>>

\* sendall; the ESP does what it is told and answers in its own time.
SendLine ==
  /\ brAt = "send" /\ brSock
  /\ brLines' = Append(brLines, brCurrent)
  /\ brAt' = "read"
  /\ UNCHANGED <<brCallers, brQueue, brCurrent, brActive, brTries, brSock, brLock, brBare,
                 brPersistent>>

\* A reply; without TCP BROKER=1 the connection ends with it.
ReadLine ==
  /\ brAt = "read" /\ brSock /\ brLines # <<>>
  /\ IF EventSet(brCurrent) THEN UNCHANGED <<brCall, brAnswer>>
     ELSE /\ brCall' = [brCall EXCEPT ![brCurrent] = "answered"]
          /\ brAnswer' = [brAnswer EXCEPT ![brCurrent] = Head(brLines)]
  /\ IF brPersistent THEN brLines' = Tail(brLines) /\ UNCHANGED <<brSock, brLock, brBare>>
     ELSE CloseSocket
  /\ BrokerFree
  /\ UNCHANGED <<brExpired, brQueue, brPersistent>>

\* The read timeout, NAK_Busy, an empty reply, or a caller closed the connection.
ExchangeFails ==
  /\ brAt = "read" \/ (brAt = "send" /\ ~brSock)
  /\ brAt' = "try" /\ brTries' = brTries + 1
  /\ AfterFailure
  /\ UNCHANGED <<brCallers, brQueue, brCurrent, brActive, brPersistent>>

\* _keepalive: PING on an idle connection; a failure closes it.
KeepAliveFails ==
  /\ brAt = "idle" /\ brQueue = <<>> /\ brSock /\ brPersistent
  /\ CloseSocket
  /\ UNCHANGED <<brCallers, brQueue, brThread, brPersistent>>

\* Another process under the same lock.
OtherTakes ==
  /\ brLock = "free" /\ brLock' = "other"
  /\ UNCHANGED <<brCallers, brQueue, brThread, brSock, brLines, brBare, brPersistent>>
OtherGives ==
  /\ brLock = "other" /\ brLock' = "free"
  /\ UNCHANGED <<brCallers, brQueue, brThread, brSock, brLines, brBare, brPersistent>>

BrokerStep ==
  \/ TakeCall \/ ArmCall \/ BeginTry \/ TakeLock \/ Connect \/ SendLine \/ ReadLine
  \/ ExchangeFails \/ \E refused \in BOOLEAN : ConnectFails(refused)

CallerStep(c) == GiveUp(c) \/ CheckActive(c) \/ CallerCloses(c) \/ ReturnCall(c)

BrokerNext ==
  \/ BrokerStep \/ KeepAliveFails \/ OtherTakes \/ OtherGives
  \/ \E c \in BrokerCalls : SubmitCall(c) \/ PassDeadline(c) \/ CallerStep(c)

BrokerSpec == BrokerInit /\ [][BrokerNext]_brVars

\* Threads run on, deadlines pass.
BrokerFair ==
  /\ BrokerSpec /\ WF_brVars(BrokerStep)
  /\ \A c \in BrokerCalls : WF_brVars(PassDeadline(c)) /\ WF_brVars(CallerStep(c))

-----------------------------------------------------------------------------
\* Every variable has its type; the queue keeps its bound.
BrokerTypeOK ==
  /\ brCall \in [BrokerCalls ->
       {"new", "wait", "answered", "failed", "checking", "closing", "gone"}]
  /\ brAnswer \in [BrokerCalls -> BrokerCalls \cup {NoCall}]
  /\ brExpired \subseteq BrokerCalls
  /\ brQueue \in Seq(BrokerCalls) /\ Len(brQueue) <= BrokerQueue
  /\ brAt \in {"idle", "taken", "try", "socket", "connect", "send", "read"}
  /\ brCurrent \in BrokerCalls \cup {NoCall} /\ brActive \in BOOLEAN
  /\ brTries \in 0 .. MaxTries
  /\ brSock \in BOOLEAN /\ brLines \in Seq(BrokerCalls)
  /\ brLock \in {"free", "broker", "other"} /\ brPersistent \in BOOLEAN /\ brBare \in BOOLEAN

\* The line a caller gets answers its own command, never one that was sent before on the
\* same connection and answered late; whatever attempts failed and whoever closed.
AnswerIsOwn == \A c \in BrokerCalls : brAnswer[c] \in {c, NoCall}

\* An attempt begins only for a caller that still waits, however many came before it and
\* whenever the caller ran out of time: no START goes out again behind the STOP that its
\* caller sent on giving up.
AttemptsWanted ==
  [][brAt = "try" /\ brAt' # "try" /\ brAt' # "idle" => brCall[brCurrent] = "wait"]_brVars

\* Whatever the ESP does, the broker comes back to its queue: a request in its hands ends
\* with its deadline and cannot block a stop behind it for ever.
BrokerComesBack == (brAt # "idle") ~> (brAt = "idle")

\* While the connection is open, the file lock is the broker's; the exception is brBare:
\* a caller that gives up while the broker connects gives the lock back under it.
SocketUnderLock == brSock /\ ~brBare => brLock = "broker"

\* What holds of connection, lock and answers in every state.
BrokerInv == BrokerTypeOK /\ AnswerIsOwn /\ SocketUnderLock

\* The broker works for callers that wait, and is never lost to one.
BrokerServes == AttemptsWanted /\ BrokerComesBack
=============================================================================
