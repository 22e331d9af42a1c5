------------------------------- MODULE Inbox --------------------------------
(***************************************************************************)
(* Commands from the peer: POST /api/inbox (webui.py), the inbox table     *)
(* (inbox.py) and the one router worker (service.py router_loop, router.py *)
(* tick_once).                                                             *)
(*                                                                         *)
(* The peer numbers its commands 1, 2, ... (the number stands for the      *)
(* idempotency key), sends one after the other and repeats a command until *)
(* a 2xx answer reaches it; copies of a request may be lost, or arrive     *)
(* late.  Ids grow with received_ts, so ORDER BY received_ts is the order  *)
(* of the ids.                                                             *)
(***************************************************************************)
EXTENDS Naturals, Sequences, FiniteSets

CONSTANTS
  LastNumber,         \* number of the peer's last command
  MaxRows,      \* bound: rows ever inserted
  MaxCopies,    \* bound: copies of requests in transit
  MaxCrashes,   \* bound: restarts of the process
  MaxDbErrors   \* bound: statements SQLite refuses

ASSUME InboxAssumption ==
  /\ LastNumber \in Nat \ {0} /\ MaxRows \in Nat /\ MaxCopies \in Nat \ {0}
  /\ MaxCrashes \in Nat /\ MaxDbErrors \in Nat

VARIABLES
  rows,      \* the inbox table
  lastId,    \* id of the row inserted last
  current,   \* the peer: the command it is sending; LastNumber + 1 when all are answered
  transit,   \* copies of requests on their way: number -> how many
  at,        \* where router_loop stands
  msg,       \* the row the router has claimed (a copy), or NoMsg
  crashes, dbErrors,
  log,       \* history: the commands executed, in order
  disturbed  \* history: commands whose row was cleared, or whose insert was refused

vars == <<rows, lastId, current, transit, at, msg, crashes, dbErrors, log, disturbed>>

Numbers == 1 .. LastNumber
Ids == 1 .. MaxRows
RowStates == {"pending", "processing", "done", "stale"}
RowSet == [id : Ids, num : Numbers, state : RowStates]
NoMsg == [id |-> 0, num |-> 0, state |-> "done"]

Init ==
  /\ rows = {}
  /\ lastId = 0
  /\ current = 1
  /\ transit = [n \in Numbers |-> 0]
  /\ at = "start"
  /\ msg = NoMsg
  /\ crashes = 0
  /\ dbErrors = 0
  /\ log = <<>>
  /\ disturbed = {}

router == <<at, msg>>
history == <<log, disturbed>>

-----------------------------------------------------------------------------
(* The peer and the network                                                *)

Copies[n \in 0 .. LastNumber] == IF n = 0 THEN 0 ELSE Copies[n - 1] + transit[n]

\* The first request, or a repetition because no answer came.
Send ==
  /\ current <= LastNumber
  /\ Copies[LastNumber] < MaxCopies
  /\ transit' = [transit EXCEPT ![current] = @ + 1]
  /\ UNCHANGED <<rows, lastId, current, router, crashes, dbErrors, history>>

LoseRequest(n) ==
  /\ transit[n] > 0
  /\ transit' = [transit EXCEPT ![n] = @ - 1]
  /\ UNCHANGED <<rows, lastId, current, router, crashes, dbErrors, history>>

-----------------------------------------------------------------------------
(* POST /api/inbox                                                         *)

\* Definitions whose name ends in Bug are seeded faults (see module Outbox).
KnownBug(n) == \E r \in rows : r.num = n /\ r.state = "pending"
\* UNIQUE INDEX ON inbox(idempotency_key): whatever the state of the row.
Known(n) == \E r \in rows : r.num = n

\* Inbox.store: any exception counts as a duplicate, and the answer is 200 then
\* as well.  answered: the answer reaches the peer.
Receive(n, answered) ==
  /\ transit[n] > 0
  /\ transit' = [transit EXCEPT ![n] = @ - 1]
  /\ current' = IF answered /\ n = current THEN current + 1 ELSE current
  /\ \/ /\ Known(n)
        /\ UNCHANGED <<rows, lastId, dbErrors, disturbed>>
     \/ /\ ~Known(n) /\ lastId < MaxRows
        /\ lastId' = lastId + 1
        /\ rows' = rows \cup {[id |-> lastId', num |-> n, state |-> "pending"]}
        /\ UNCHANGED <<dbErrors, disturbed>>
     \/ /\ ~Known(n) /\ dbErrors < MaxDbErrors
        /\ dbErrors' = dbErrors + 1
        /\ disturbed' = disturbed \cup {n}
        /\ UNCHANGED <<rows, lastId>>
  /\ UNCHANGED <<router, crashes, log>>

-----------------------------------------------------------------------------
(* The router worker                                                       *)

SetState(S, state) == {IF r \in S THEN [r EXCEPT !.state = state] ELSE r : r \in rows}

\* recover_stale_processing, at the start of the loop only: what was received
\* more than 300 s ago is set aside, younger rows stay in processing.
Recover ==
  /\ at = "start"
  /\ \E old \in SUBSET {r \in rows : r.state = "processing"} :
       rows' = SetState(old, "stale")
  /\ at' = "claim"
  /\ UNCHANGED <<lastId, current, transit, msg, crashes, dbErrors, history>>

StrictBug(r) == \A q \in rows : q.state = "pending" => r.id < q.id
\* ORDER BY received_ts ASC LIMIT 1
NextPending(r) == \A q \in rows : q.state = "pending" => r.id <= q.id

\* claim_next_pending: one BEGIN IMMEDIATE transaction.
Claim ==
  /\ at = "claim"
  /\ \E r \in rows :
       /\ r.state = "pending"
       /\ NextPending(r)
       /\ rows' = SetState({r}, "processing")
       /\ msg' = r
  /\ at' = "execute"
  /\ UNCHANGED <<lastId, current, transit, crashes, dbErrors, history>>

\* handle_microtom_line or handle_device_line; an exception is logged and the
\* message counts as handled.
Execute ==
  /\ at = "execute"
  /\ log' = Append(log, msg.num)
  /\ at' = "ack"
  /\ UNCHANGED <<rows, lastId, current, transit, msg, crashes, dbErrors, disturbed>>

\* Inbox.ack in the finally clause, by id.
Ack ==
  /\ at = "ack"
  /\ rows' = SetState({r \in rows : r.id = msg.id}, "done")
  /\ msg' = NoMsg
  /\ at' = "claim"
  /\ UNCHANGED <<lastId, current, transit, crashes, dbErrors, history>>

\* router_loop catches everything and begins again.
AfterError == "start"

\* SQLite refuses the claim or the ack.
RouterDbError ==
  /\ at \in {"claim", "ack"}
  /\ dbErrors < MaxDbErrors
  /\ dbErrors' = dbErrors + 1
  /\ msg' = NoMsg
  /\ at' = AfterError
  /\ UNCHANGED <<rows, lastId, current, transit, crashes, history>>

-----------------------------------------------------------------------------
(* The UI and the process                                                  *)

\* POST /api/queues/inbox/clear
Clear ==
  /\ rows # {}
  /\ rows' = {}
  /\ disturbed' = disturbed \cup {r.num : r \in rows}
  /\ UNCHANGED <<lastId, current, transit, router, crashes, dbErrors, log>>

\* POST /api/inbox/{msg_id}/ack, for a row GET /api/inbox/next has shown.
UiAck ==
  /\ \E r \in rows : r.state = "pending" /\ rows' = SetState({r}, "done")
  /\ UNCHANGED <<lastId, current, transit, router, crashes, dbErrors, history>>

Restart ==
  /\ crashes < MaxCrashes
  /\ crashes' = crashes + 1
  /\ at' = "start"
  /\ msg' = NoMsg
  /\ UNCHANGED <<rows, lastId, current, transit, dbErrors, history>>

RouterStep == Recover \/ Claim \/ Execute \/ Ack

Next ==
  \/ Send
  \/ \E n \in Numbers : LoseRequest(n) \/ \E answered \in BOOLEAN : Receive(n, answered)
  \/ RouterStep \/ RouterDbError \/ Clear \/ UiAck \/ Restart

\* The router thread is scheduled; nothing is assumed of peer and network.
Spec == Init /\ [][Next]_vars /\ WF_vars(RouterStep)

-----------------------------------------------------------------------------
\* Types of the table, the network, and the router loop, which is always at one of its
\* four steps (no error ends it) and holds a message exactly while it works on it.
TypeOK ==
  /\ rows \subseteq RowSet /\ lastId \in 0 .. MaxRows
  /\ current \in 1 .. LastNumber + 1 /\ transit \in [Numbers -> Nat]
  /\ at \in {"start", "claim", "execute", "ack"}
  /\ msg \in RowSet \cup {NoMsg}
  /\ msg = NoMsg <=> at \in {"start", "claim"}
  /\ crashes \in 0 .. MaxCrashes /\ dbErrors \in 0 .. MaxDbErrors
  /\ log \in Seq(Numbers) /\ disturbed \subseteq Numbers

\* A command is executed at most once, however often it is repeated, and through
\* restarts and refused statements: the router never takes a message up again
\* (inbox.py recover_stale_processing quarantines).  A cleared table forgets.
AtMostOnce ==
  \A i, j \in 1 .. Len(log) : i # j /\ log[i] = log[j] => log[i] \in disturbed

\* The peer's commands are executed in the order it sent them, late copies
\* notwithstanding, unless the table was cleared or an insert was refused.
PeerOrder ==
  \A i, j \in 1 .. Len(log) :
    i < j /\ log[i] \notin disturbed /\ log[j] \notin disturbed => log[i] <= log[j]

\* A stored command is taken up: an exception of the router loop ends nothing.
PendingIsTaken ==
  \A k \in Ids : (\E r \in rows : r.id = k /\ r.state = "pending")
                   ~> ~(\E r \in rows : r.id = k /\ r.state = "pending")

\* What holds of the inbox in every state.
InboxInv == TypeOK /\ AtMostOnce /\ PeerOrder
=============================================================================
