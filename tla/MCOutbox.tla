------------------------------ MODULE MCOutbox ------------------------------
(* Instances of Outbox for TLC: the callbacks the bridge really enqueues.   *)
EXTENDS Outbox

Request(url, param, value, prio, dk, replace, ack) ==
  [url |-> url, param |-> param, value |-> value, origin |-> "machine-runtime",
   ack |-> ack, prio |-> prio, dk |-> dk, drop |-> dk # NoKey, replace |-> replace]

\* microtom_state_queue_options: MAS states replace the pending row.
State(url, v) == Request(url, "MAS0001", v, 2, "state:MAS0001", TRUE, FALSE)
PurgeAck(url) == Request(url, "MAS0028", 0, 1, NoKey, FALSE, TRUE)
Purge(url) == Request(url, "MAS0028", 1, 2, "state:MAS0028:active", FALSE, FALSE)
Custom(url) == Request(url, "MAS0028", 9, 3, NoKey, FALSE, FALSE)

LaneRequests ==
  {State("primary", 5), State("primary", 7), PurgeAck("primary"), State("secondary", 5),
   Custom("other")}
DrainRequests == {State("primary", 5), Purge("primary")}
DrainCalls == [p \in Producers |-> DrainRequests]
LaneCalls == [p \in Producers |-> LaneRequests]

\* _enter_label_removal_state: the 12 of a label pause has no key.
Transition(url) == Request(url, "MAS0001", 12, 2, NoKey, FALSE, FALSE)

AuxRequests == {State("primary", 5), State("secondary", 5), Transition("primary")}
\* Every thread reports the state; one of them also enters the label pause and writes to
\* the other target.
Messenger == CHOOSE p \in Producers : TRUE
AuxCalls == [p \in Producers |-> IF p = Messenger THEN AuxRequests ELSE {State("primary", 5)}]
=============================================================================
