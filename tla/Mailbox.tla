------------------------------ MODULE Mailbox ------------------------------
(***************************************************************************)
(* What the bridge promises of a callback addressed to its primary peer:   *)
(* an accepted message stays queued until the peer has received it, unless *)
(* the bridge itself withdraws it (a newer state of the same key, a purge  *)
(* command, an operator clearing the queue).  A delivery may be repeated.  *)
(* Nothing is said of the order.  Module Outbox implements this one.       *)
(***************************************************************************)
EXTENDS Naturals

CONSTANT Ids        \* identities of the messages

VARIABLES queued,     \* accepted, not yet finished
          received,   \* arrived at the peer at least once
          withdrawn   \* taken back by the bridge

mailVars == <<queued, received, withdrawn>>

MailTypeOK ==
  /\ queued \subseteq Ids
  /\ received \subseteq Ids
  /\ withdrawn \subseteq Ids

MailInit ==
  /\ queued = {}
  /\ received = {}
  /\ withdrawn = {}

Accept(i) ==
  /\ i \notin queued \cup received \cup withdrawn
  /\ queued' = queued \cup {i}
  /\ UNCHANGED <<received, withdrawn>>

\* A copy already handed to the network can arrive after the row was taken
\* back, so a withdrawn message may still be received.
Receive(i) ==
  /\ i \in queued \cup withdrawn
  /\ received' = received \cup {i}
  /\ UNCHANGED <<queued, withdrawn>>

Finish(i) ==
  /\ i \in queued \cap received
  /\ queued' = queued \ {i}
  /\ UNCHANGED <<received, withdrawn>>

Withdraw(S) ==
  /\ S \subseteq queued
  /\ queued' = queued \ S
  /\ withdrawn' = withdrawn \cup S
  /\ UNCHANGED received

MailNext ==
  \/ \E i \in Ids : Accept(i) \/ Receive(i) \/ Finish(i)
  \/ \E S \in SUBSET Ids : Withdraw(S)

MailSpec == MailInit /\ [][MailNext]_mailVars
=============================================================================
