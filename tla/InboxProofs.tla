---------------------------- MODULE InboxProofs -----------------------------
(* Theorems about Inbox, for every number of commands and for every bound.   *)
EXTENDS Inbox, TLAPS

\* Setting the state of some rows touches nothing but that state.
LEMMA SetStateRows ==
  ASSUME rows \subseteq RowSet, NEW S, NEW s \in RowStates, rows' = SetState(S, s)
  PROVE  /\ rows' \subseteq RowSet
         /\ \A r \in rows : \E q \in rows' : q.id = r.id /\ q.num = r.num
              /\ (q.state = IF r \in S THEN s ELSE r.state)
         /\ \A q \in rows' : \E r \in rows : q.id = r.id /\ q.num = r.num
              /\ (q.state = IF r \in S THEN s ELSE r.state)
<1>1. \A r \in rows : [r EXCEPT !.state = s] \in RowSet
        /\ [r EXCEPT !.state = s].id = r.id /\ [r EXCEPT !.state = s].num = r.num
        /\ [r EXCEPT !.state = s].state = s
  BY DEF RowSet
<1>2. rows' = {IF r \in S THEN [r EXCEPT !.state = s] ELSE r : r \in rows}
  BY DEF SetState
<1> QED BY <1>1, <1>2

\* The types, without a word about fairness.
LEMMA Typed == Init /\ [][Next]_vars => []TypeOK
<1>1. Init => TypeOK
  BY InboxAssumption DEF Init, TypeOK, Numbers, NoMsg
<1>2. TypeOK /\ [Next]_vars => TypeOK'
  <2> SUFFICES ASSUME TypeOK, [Next]_vars PROVE TypeOK'
    OBVIOUS
  <2> USE InboxAssumption DEF TypeOK, router, history
  <2>1. CASE Send
    BY <2>1 DEF Send, Numbers
  <2>2. ASSUME NEW n \in Numbers, LoseRequest(n) PROVE TypeOK'
    BY <2>2 DEF LoseRequest
  <2>3. ASSUME NEW n \in Numbers, NEW answered \in BOOLEAN, Receive(n, answered)
        PROVE TypeOK'
    <3>1. /\ transit' \in [Numbers -> Nat]
          /\ current' \in 1 .. LastNumber + 1
          /\ UNCHANGED <<at, msg, crashes, log>>
      BY <2>3 DEF Receive, Numbers
    <3>2. CASE UNCHANGED <<rows, lastId, dbErrors, disturbed>>
      BY <3>1, <3>2
    <3>3. CASE /\ lastId < MaxRows /\ lastId' = lastId + 1
               /\ rows' = rows \cup {[id |-> lastId', num |-> n, state |-> "pending"]}
               /\ UNCHANGED <<dbErrors, disturbed>>
      BY <3>1, <3>3 DEF RowSet, RowStates, Ids
    <3>4. CASE /\ dbErrors < MaxDbErrors /\ dbErrors' = dbErrors + 1
               /\ disturbed' = disturbed \cup {n} /\ UNCHANGED <<rows, lastId>>
      BY <3>1, <3>4
    <3> QED BY <2>3, <3>2, <3>3, <3>4 DEF Receive
  <2>4. CASE Recover
    <3>1. PICK old : rows' = SetState(old, "stale") BY <2>4 DEF Recover
    <3>2. rows' \subseteq RowSet BY <3>1, SetStateRows DEF RowStates
    <3> QED BY <2>4, <3>2 DEF Recover
  <2>5. CASE Claim
    <3>1. PICK r \in rows : rows' = SetState({r}, "processing") /\ msg' = r
      BY <2>5 DEF Claim
    <3>2. rows' \subseteq RowSet BY <3>1, SetStateRows DEF RowStates
    <3>3. r # NoMsg BY DEF RowSet, NoMsg, Ids
    <3> QED BY <2>5, <3>1, <3>2, <3>3 DEF Claim
  <2>6. CASE Execute
    <3>1. msg.num \in Numbers BY <2>6 DEF Execute, RowSet
    <3> QED BY <2>6, <3>1 DEF Execute
  <2>7. CASE Ack
    <3>1. rows' \subseteq RowSet BY <2>7, SetStateRows DEF Ack, RowStates
    <3> QED BY <2>7, <3>1 DEF Ack
  <2>8. CASE RouterDbError
    BY <2>8 DEF RouterDbError, AfterError
  <2>9. CASE Clear
    BY <2>9 DEF Clear, RowSet
  <2>10. CASE UiAck
    <3>1. PICK r \in rows : rows' = SetState({r}, "done") BY <2>10 DEF UiAck
    <3>2. rows' \subseteq RowSet BY <3>1, SetStateRows DEF RowStates
    <3> QED BY <2>10, <3>2 DEF UiAck
  <2>11. CASE Restart
    BY <2>11 DEF Restart
  <2>12. CASE UNCHANGED vars
    BY <2>12 DEF vars
  <2> QED
    BY <2>1, <2>2, <2>3, <2>4, <2>5, <2>6, <2>7, <2>8, <2>9, <2>10, <2>11, <2>12
       DEF Next, RouterStep
<1> QED BY <1>1, <1>2, PTL

\* Inbox: the table, the network and the router loop keep their types, and the
\* loop is always at one of its four steps and holds a message while it works.
THEOREM TypeCorrect == Spec => []TypeOK
BY Typed, PTL DEF Spec

-----------------------------------------------------------------------------
\* A message of number n is in the table, and the router has taken it up.
Taken(n) == \E r \in rows : r.num = n /\ r.state # "pending"

Works == at \in {"execute", "ack"}

\* Ids and numbers identify rows, nobody has sent more than the current command,
\* and a command the peer has had an answer for is in the table.
TableInv ==
  /\ \A r \in rows : r.id <= lastId /\ r.num <= current
  /\ \A q, r \in rows : q.id = r.id \/ q.num = r.num => q = r
  /\ \A n \in Numbers : transit[n] > 0 => n <= current
  /\ \A n \in Numbers : n < current => Known(n) \/ n \in disturbed

\* What was executed, or is about to be, is no longer pending.
ExecutedInv ==
  /\ \A i \in 1 .. Len(log) : log[i] <= current /\ (Taken(log[i]) \/ log[i] \in disturbed)
  /\ Works => msg.num <= current /\ (Taken(msg.num) \/ msg.num \in disturbed)
  /\ at = "execute" => \A i \in 1 .. Len(log) : log[i] = msg.num => msg.num \in disturbed

\* Rows, and before them what was executed and what is claimed, are in the peer's
\* order, the disturbed commands aside.
OrderInv ==
  /\ \A q, r \in rows :
       q.num \notin disturbed /\ r.num \notin disturbed /\ q.id < r.id => q.num < r.num
  /\ \A r \in rows : r.state = "pending" /\ r.num \notin disturbed =>
       /\ \A i \in 1 .. Len(log) : log[i] \notin disturbed => log[i] <= r.num
       /\ at = "execute" /\ msg.num \notin disturbed => msg.num <= r.num
  /\ at = "execute" /\ msg.num \notin disturbed =>
       \A i \in 1 .. Len(log) : log[i] \notin disturbed => log[i] <= msg.num

IInv == TypeOK /\ TableInv /\ ExecutedInv /\ OrderInv /\ AtMostOnce /\ PeerOrder

\* Marking rows keeps the table in order, takes back nothing and makes nothing
\* pending.
LEMMA MarkKeepsTable ==
  ASSUME IInv, NEW S \in SUBSET rows, NEW s \in RowStates \ {"pending"}, rows' = SetState(S, s),
         UNCHANGED <<lastId, current, transit, disturbed>>
  PROVE  /\ TableInv'
         /\ \A n : Taken(n) => Taken(n)'
         /\ \A r \in S : Taken(r.num)'
         /\ \A q \in rows' : q.state = "pending" =>
              \E r \in rows : r.state = "pending" /\ r.id = q.id /\ r.num = q.num
         /\ \A q, r \in rows' :
              q.num \notin disturbed /\ r.num \notin disturbed /\ q.id < r.id => q.num < r.num
<1> USE DEF IInv
<1>1. /\ rows' \subseteq RowSet
      /\ \A r \in rows : \E q \in rows' : q.id = r.id /\ q.num = r.num
           /\ (q.state = IF r \in S THEN s ELSE r.state)
      /\ \A q \in rows' : \E r \in rows : q.id = r.id /\ q.num = r.num
           /\ (q.state = IF r \in S THEN s ELSE r.state)
  BY SetStateRows DEF TypeOK
<1>2. \A q, r \in rows' : q.id = r.id \/ q.num = r.num => q = r
  <2> SUFFICES ASSUME NEW q \in rows', NEW r \in rows', q.id = r.id \/ q.num = r.num
               PROVE  q = r
    OBVIOUS
  <2>1. PICK q0 \in rows : q.id = q0.id /\ q.num = q0.num
          /\ (q.state = IF q0 \in S THEN s ELSE q0.state)
    BY <1>1
  <2>2. PICK r0 \in rows : r.id = r0.id /\ r.num = r0.num
          /\ (r.state = IF r0 \in S THEN s ELSE r0.state)
    BY <1>1
  <2>3. q0 = r0 BY <2>1, <2>2 DEF TableInv
  <2>4. q.id = r.id /\ q.num = r.num /\ q.state = r.state BY <2>1, <2>2, <2>3
  <2> QED BY <1>1, <2>4 DEF RowSet
<1>3. \A n \in Numbers : n < current' => Known(n)' \/ n \in disturbed'
  BY <1>1 DEF TableInv, Known
<1>4. TableInv' BY <1>1, <1>2, <1>3 DEF TableInv
<1>5. \A n : Taken(n) => Taken(n)' BY <1>1 DEF Taken
<1>6. \A r \in S : Taken(r.num)' BY <1>1 DEF Taken
<1>7. \A q \in rows' : q.state = "pending" =>
        \E r \in rows : r.state = "pending" /\ r.id = q.id /\ r.num = q.num
  BY <1>1
<1>8. \A q, r \in rows' :
        q.num \notin disturbed /\ r.num \notin disturbed /\ q.id < r.id => q.num < r.num
  <2> SUFFICES ASSUME NEW q \in rows', NEW r \in rows', q.num \notin disturbed,
                      r.num \notin disturbed, q.id < r.id
               PROVE  q.num < r.num
    OBVIOUS
  <2>1. PICK q0 \in rows : q.id = q0.id /\ q.num = q0.num BY <1>1
  <2>2. PICK r0 \in rows : r.id = r0.id /\ r.num = r0.num BY <1>1
  <2> QED BY <2>1, <2>2 DEF OrderInv
<1> QED BY <1>4, <1>5, <1>6, <1>7, <1>8

\* The router forgets its message, or goes on with the same one.
LEMMA MarkKeepsInv ==
  ASSUME IInv, TypeOK', NEW S \in SUBSET rows, NEW s \in RowStates \ {"pending"},
         rows' = SetState(S, s),
         UNCHANGED <<lastId, current, transit, disturbed, log>>,
         at' \in {"start", "claim"} \/ UNCHANGED <<at, msg>>
  PROVE  IInv'
<1>1. /\ TableInv'
      /\ \A n : Taken(n) => Taken(n)'
      /\ \A q \in rows' : q.state = "pending" =>
           \E r \in rows : r.state = "pending" /\ r.id = q.id /\ r.num = q.num
      /\ \A q, r \in rows' :
           q.num \notin disturbed /\ r.num \notin disturbed /\ q.id < r.id => q.num < r.num
  BY MarkKeepsTable
<1>2. ExecutedInv' BY <1>1 DEF IInv, ExecutedInv, Works
<1>3. OrderInv'
  <2>1. ASSUME NEW r \in rows', r.state = "pending", r.num \notin disturbed
        PROVE  /\ \A i \in 1 .. Len(log) : log[i] \notin disturbed => log[i] <= r.num
               /\ at' = "execute" /\ msg'.num \notin disturbed => msg'.num <= r.num
    <3>1. PICK p \in rows : p.state = "pending" /\ p.num = r.num BY <1>1, <2>1
    <3> QED BY <2>1, <3>1 DEF IInv, OrderInv
  <2> QED BY <1>1, <2>1 DEF IInv, OrderInv
<1>4. AtMostOnce' /\ PeerOrder' BY DEF IInv, AtMostOnce, PeerOrder
<1> QED BY <1>1, <1>2, <1>3, <1>4 DEF IInv

\* A step that leaves table and history alone, and lets the peer repeat only its
\* current command.
LEMMA QuietKeepsInv ==
  ASSUME IInv, TypeOK', UNCHANGED <<rows, lastId, current, log, disturbed>>,
         \A n \in Numbers : transit'[n] > 0 => n <= current,
         at' \in {"start", "claim"} \/ UNCHANGED <<at, msg>>
  PROVE  IInv'
<1>1. TableInv' BY DEF IInv, TableInv, Known
<1>2. ExecutedInv' BY DEF IInv, ExecutedInv, Works, Taken
<1>3. OrderInv' BY DEF IInv, OrderInv
<1>4. AtMostOnce' /\ PeerOrder' BY DEF IInv, AtMostOnce, PeerOrder
<1> QED BY <1>1, <1>2, <1>3, <1>4 DEF IInv

\* Ids and numbers of rows are natural numbers.
LEMMA RowNumbers ==
  ASSUME TypeOK
  PROVE  \A r \in rows : r.id \in Nat /\ r.num \in Nat
<1>1. \A r \in RowSet : r.id \in Nat /\ r.num \in Nat
  BY InboxAssumption DEF RowSet, Ids, Numbers
<1> QED BY <1>1 DEF TypeOK

\* A request arrives: it is known already, becomes the newest row, or is lost.
LEMMA ReceiveKeepsInv ==
  ASSUME IInv, TypeOK', NEW n \in Numbers, NEW answered \in BOOLEAN, Receive(n, answered)
  PROVE  IInv'
<1> USE DEF IInv, router
<1>1. /\ UNCHANGED <<at, msg, log>>
      /\ current' \in {current, current + 1}
      /\ current' # current => current = n
      /\ n <= current
      /\ current \in Nat /\ lastId \in Nat /\ Numbers \subseteq Nat
      /\ \A m \in Numbers : transit'[m] > 0 => m <= current
  BY InboxAssumption DEF Receive, TableInv, TypeOK, Numbers
<1>2. /\ \A r \in rows : r.num \in Nat /\ r.num <= current /\ r.id \in Nat /\ r.id <= lastId
      /\ \A i \in 1 .. Len(log) : log[i] \in Numbers
  <2>1. \A i \in 1 .. Len(log) : log[i] \in Numbers BY DEF TypeOK
  <2> QED BY <2>1, RowNumbers DEF TableInv
<1>3. /\ Works => msg.num \in Nat
      /\ at = "execute" => Works
  BY <1>1 DEF Works, TypeOK, RowSet
<1>4. CASE Known(n) /\ UNCHANGED <<rows, lastId, dbErrors, disturbed>>
  <2>1. TableInv'
    <3>1. \A m \in Numbers : m < current' => Known(m)' \/ m \in disturbed'
      BY <1>1, <1>4 DEF TableInv, Known
    <3> QED BY <1>1, <1>2, <1>4, <3>1 DEF TableInv
  <2>2. ExecutedInv'
    <3>1. \A m : Taken(m) => Taken(m)' BY <1>4 DEF Taken
    <3>2. \A m \in Nat : m <= current => m <= current' BY <1>1
    <3>3. \A m : m \in disturbed => m \in disturbed' BY <1>4
    <3> QED BY <1>1, <1>2, <1>3, <3>1, <3>2, <3>3, <1>4 DEF ExecutedInv, Works
  <2>3. OrderInv' BY <1>1, <1>4 DEF OrderInv
  <2>4. AtMostOnce' /\ PeerOrder' BY <1>1, <1>4 DEF AtMostOnce, PeerOrder
  <2> QED BY <2>1, <2>2, <2>3, <2>4
<1>5. CASE /\ ~Known(n) /\ lastId' = lastId + 1
           /\ rows' = rows \cup {[id |-> lastId', num |-> n, state |-> "pending"]}
           /\ UNCHANGED <<dbErrors, disturbed>>
  <2> DEFINE new == [id |-> lastId', num |-> n, state |-> "pending"]
  <2>1. /\ rows' = rows \cup {new}
        /\ new.id = lastId + 1 /\ new.num = n /\ new.state = "pending"
        /\ \A r \in rows : r.num # n
    BY <1>5 DEF Known
  <2>2. n = current \/ n \in disturbed BY <1>1, <1>5 DEF TableInv
  <2> HIDE DEF new
  <2>3. TableInv'
    <3>1. \A m \in Numbers : m < current' => Known(m)' \/ m \in disturbed'
      BY <1>1, <1>5, <2>1 DEF TableInv, Known
    <3>2. \A q, r \in rows' : q.id = r.id \/ q.num = r.num => q = r
      BY <1>1, <1>2, <2>1 DEF TableInv
    <3>3. \A r \in rows' : r.id <= lastId' /\ r.num <= current'
      BY <1>1, <1>2, <1>5, <2>1
    <3> QED BY <1>1, <3>1, <3>2, <3>3 DEF TableInv
  <2>4. ExecutedInv'
    <3>1. \A m : Taken(m) => Taken(m)' BY <2>1 DEF Taken
    <3>2. \A m \in Nat : m <= current => m <= current' BY <1>1
    <3>3. \A m : m \in disturbed => m \in disturbed' BY <1>5
    <3> QED BY <1>1, <1>2, <1>3, <3>1, <3>2, <3>3, <1>5 DEF ExecutedInv, Works
  <2>5. OrderInv'
    <3>1. \A q, r \in rows' :
            q.num \notin disturbed /\ r.num \notin disturbed /\ q.id < r.id => q.num < r.num
      <4> SUFFICES ASSUME NEW q \in rows', NEW r \in rows', q.num \notin disturbed,
                          r.num \notin disturbed, q.id < r.id
                   PROVE  q.num < r.num
        OBVIOUS
      <4>1. CASE q \in rows /\ r \in rows BY <4>1 DEF OrderInv
      <4>2. CASE q \in rows /\ r = new BY <1>1, <1>2, <2>1, <2>2, <4>2
      <4>3. CASE q = new BY <1>1, <1>2, <2>1, <4>3
      <4> QED BY <2>1, <4>1, <4>2, <4>3
    <3>2. ASSUME NEW r \in rows', r.state = "pending", r.num \notin disturbed
          PROVE  /\ \A i \in 1 .. Len(log) : log[i] \notin disturbed => log[i] <= r.num
                 /\ at = "execute" /\ msg.num \notin disturbed => msg.num <= r.num
      <4>1. CASE r \in rows BY <3>2, <4>1 DEF OrderInv
      <4>2. CASE r = new BY <1>3, <2>1, <2>2, <3>2, <4>2 DEF ExecutedInv
      <4> QED BY <2>1, <4>1, <4>2
    <3> QED BY <1>1, <1>5, <3>1, <3>2 DEF OrderInv
  <2>6. AtMostOnce' /\ PeerOrder' BY <1>1, <1>5 DEF AtMostOnce, PeerOrder
  <2> QED BY <2>3, <2>4, <2>5, <2>6
<1>6. CASE disturbed' = disturbed \cup {n} /\ UNCHANGED <<rows, lastId>>
  <2>1. TableInv'
    <3>1. \A m \in Numbers : m < current' => Known(m)' \/ m \in disturbed'
      BY <1>1, <1>6 DEF TableInv, Known
    <3> QED BY <1>1, <1>2, <1>6, <3>1 DEF TableInv
  <2>2. ExecutedInv'
    <3>1. \A m : Taken(m) => Taken(m)' BY <1>6 DEF Taken
    <3>2. \A m \in Nat : m <= current => m <= current' BY <1>1
    <3> QED BY <1>1, <1>2, <1>3, <1>6, <3>1, <3>2 DEF ExecutedInv, Works
  <2>3. OrderInv' BY <1>1, <1>6 DEF OrderInv
  <2>4. AtMostOnce' /\ PeerOrder' BY <1>1, <1>6 DEF AtMostOnce, PeerOrder
  <2> QED BY <2>1, <2>2, <2>3, <2>4
<1> QED BY <1>4, <1>5, <1>6 DEF Receive

\* The oldest pending row is claimed: nothing before it waits, and it was never
\* executed.
LEMMA ClaimKeepsInv ==
  ASSUME IInv, TypeOK', Claim
  PROVE  IInv'
<1> USE DEF IInv
<1>1. PICK r \in rows : /\ r.state = "pending" /\ NextPending(r)
                        /\ rows' = SetState({r}, "processing") /\ msg' = r
  BY DEF Claim
<1>2. UNCHANGED <<lastId, current, transit, log, disturbed>> /\ at' = "execute"
  BY DEF Claim, history
<1>3. /\ TableInv'
      /\ \A n : Taken(n) => Taken(n)'
      /\ Taken(r.num)'
      /\ \A q \in rows' : q.state = "pending" =>
           \E p \in rows : p.state = "pending" /\ p.id = q.id /\ p.num = q.num
      /\ \A p, q \in rows' :
           p.num \notin disturbed /\ q.num \notin disturbed /\ p.id < q.id => p.num < q.num
  BY <1>1, <1>2, MarkKeepsTable DEF RowStates
<1>4. ExecutedInv'
  <2>1. ~Taken(r.num) BY <1>1 DEF Taken, TableInv
  <2>2. \A i \in 1 .. Len(log) : log[i] = r.num => r.num \in disturbed
    BY <2>1 DEF ExecutedInv
  <2> QED BY <1>1, <1>2, <1>3, <2>2 DEF ExecutedInv, TableInv, Works
<1>5. OrderInv'
  <2>1. ASSUME NEW q \in rows', q.state = "pending", q.num \notin disturbed
        PROVE  /\ \A i \in 1 .. Len(log) : log[i] \notin disturbed => log[i] <= q.num
               /\ r.num \notin disturbed => r.num <= q.num
    <3>1. PICK p \in rows : p.state = "pending" /\ p.id = q.id /\ p.num = q.num
      BY <1>3, <2>1
    <3>2. r.id <= p.id BY <1>1, <3>1 DEF NextPending
    <3>3. r.id \in Nat /\ p.id \in Nat /\ r.num \in Nat /\ p.num \in Nat
      BY RowNumbers
    <3>4. r.num \notin disturbed => r.num <= p.num
      <4>1. CASE r.id = p.id BY <3>3, <4>1 DEF TableInv
      <4>2. CASE r.id < p.id BY <2>1, <3>1, <3>3, <4>2 DEF OrderInv
      <4> QED BY <3>2, <3>3, <4>1, <4>2
    <3> QED BY <2>1, <3>1, <3>4 DEF OrderInv
  <2>2. r.num \notin disturbed =>
          \A i \in 1 .. Len(log) : log[i] \notin disturbed => log[i] <= r.num
    BY <1>1 DEF OrderInv
  <2> QED BY <1>1, <1>2, <1>3, <2>1, <2>2 DEF OrderInv
<1>6. AtMostOnce' /\ PeerOrder' BY <1>2 DEF AtMostOnce, PeerOrder
<1> QED BY <1>3, <1>4, <1>5, <1>6

\* The claimed command goes to the end of the history: it was not there before,
\* and nothing there is later.
LEMMA ExecuteKeepsInv ==
  ASSUME IInv, TypeOK', Execute
  PROVE  IInv'
<1> USE DEF IInv
<1>1. /\ at = "execute" /\ at' = "ack" /\ log' = Append(log, msg.num)
      /\ UNCHANGED <<rows, lastId, current, transit, msg, disturbed>>
  BY DEF Execute
<1>2. msg.num \in Numbers /\ log \in Seq(Numbers) BY <1>1 DEF TypeOK, RowSet
<1>3. /\ Len(log) \in Nat /\ Len(log') = Len(log) + 1
      /\ \A i \in 1 .. Len(log) : log'[i] = log[i]
      /\ log'[Len(log) + 1] = msg.num
  BY <1>1, <1>2
<1>4. \A i \in 1 .. Len(log') : i \in 1 .. Len(log) \/ i = Len(log) + 1
  BY <1>3
<1>5. TableInv' BY <1>1 DEF TableInv, Known
<1>6. ExecutedInv' BY <1>1, <1>3, <1>4 DEF ExecutedInv, Works, Taken
<1>7. OrderInv' BY <1>1, <1>3, <1>4 DEF OrderInv
<1>8. AtMostOnce'
  BY <1>1, <1>3, <1>4 DEF AtMostOnce, ExecutedInv
<1>9. PeerOrder'
  <2> SUFFICES ASSUME NEW i \in 1 .. Len(log'), NEW j \in 1 .. Len(log'), i < j,
                      log'[i] \notin disturbed, log'[j] \notin disturbed
               PROVE  log'[i] <= log'[j]
    BY <1>1 DEF PeerOrder
  <2>1. i \in 1 .. Len(log) BY <1>3
  <2>2. CASE j \in 1 .. Len(log) BY <1>3, <2>1, <2>2 DEF PeerOrder
  <2>3. CASE j = Len(log) + 1 BY <1>1, <1>3, <2>1, <2>3 DEF OrderInv
  <2> QED BY <1>4, <2>2, <2>3
<1> QED BY <1>5, <1>6, <1>7, <1>8, <1>9

\* A cleared table disturbs every command it held.
LEMMA ClearKeepsInv ==
  ASSUME IInv, TypeOK', Clear
  PROVE  IInv'
<1> USE DEF IInv, router
<1>1. /\ rows' = {} /\ disturbed' = disturbed \cup {r.num : r \in rows}
      /\ UNCHANGED <<lastId, current, transit, at, msg, log>>
  BY DEF Clear
<1>2. \A n : Known(n) \/ Taken(n) => n \in disturbed' BY <1>1 DEF Known, Taken
<1>3. TableInv' BY <1>1, <1>2 DEF TableInv
<1>4. ExecutedInv' BY <1>1, <1>2 DEF ExecutedInv, Works
<1>5. OrderInv' BY <1>1 DEF OrderInv
<1>6. AtMostOnce' /\ PeerOrder' BY <1>1 DEF AtMostOnce, PeerOrder
<1> QED BY <1>3, <1>4, <1>5, <1>6

\* The invariant holds initially, and each action keeps it.
LEMMA Inductive == Init /\ [][Next]_vars => []IInv
<1>1. Init => IInv
  <2> SUFFICES ASSUME Init PROVE IInv OBVIOUS
  <2>1. TypeOK BY InboxAssumption DEF Init, TypeOK, Numbers, NoMsg
  <2>2. TableInv BY DEF Init, TableInv, Numbers
  <2>3. ExecutedInv /\ OrderInv /\ AtMostOnce /\ PeerOrder
    BY DEF Init, ExecutedInv, OrderInv, AtMostOnce, PeerOrder, Works
  <2> QED BY <2>1, <2>2, <2>3 DEF IInv
<1>2. IInv /\ TypeOK' /\ [Next]_vars => IInv'
  <2> SUFFICES ASSUME IInv, TypeOK', [Next]_vars PROVE IInv'
    OBVIOUS
  <2> USE DEF router, history
  <2>1. CASE Send
    <3>1. \A n \in Numbers : transit'[n] > 0 => n <= current
      BY <2>1, InboxAssumption DEF Send, IInv, TypeOK, TableInv, Numbers
    <3> QED BY <2>1, <3>1, QuietKeepsInv DEF Send
  <2>2. ASSUME NEW n \in Numbers, LoseRequest(n) PROVE IInv'
    <3>1. \A m \in Numbers : transit'[m] > 0 => m <= current
      BY <2>2 DEF LoseRequest, IInv, TypeOK, TableInv
    <3> QED BY <2>2, <3>1, QuietKeepsInv DEF LoseRequest
  <2>3. ASSUME NEW n \in Numbers, NEW answered \in BOOLEAN, Receive(n, answered)
        PROVE IInv'
    BY <2>3, ReceiveKeepsInv
  <2>4. CASE Recover
    <3>1. PICK old \in SUBSET rows : rows' = SetState(old, "stale") BY <2>4 DEF Recover
    <3> QED BY <2>4, <3>1, MarkKeepsInv DEF Recover, RowStates
  <2>5. CASE Claim BY <2>5, ClaimKeepsInv
  <2>6. CASE Execute BY <2>6, ExecuteKeepsInv
  <2>7. CASE Ack
    <3>1. {r \in rows : r.id = msg.id} \in SUBSET rows OBVIOUS
    <3> QED BY <2>7, <3>1, MarkKeepsInv DEF Ack, RowStates
  <2>8. CASE RouterDbError
    BY <2>8, QuietKeepsInv DEF RouterDbError, AfterError, IInv, TableInv
  <2>9. CASE Clear BY <2>9, ClearKeepsInv
  <2>10. CASE UiAck
    <3>1. PICK r \in rows : rows' = SetState({r}, "done") BY <2>10 DEF UiAck
    <3> QED BY <2>10, <3>1, MarkKeepsInv DEF UiAck, RowStates
  <2>11. CASE Restart
    BY <2>11, QuietKeepsInv DEF Restart, IInv, TableInv
  <2>12. CASE UNCHANGED vars
    BY <2>12, QuietKeepsInv DEF vars, IInv, TableInv
  <2> QED
    BY <2>1, <2>2, <2>3, <2>4, <2>5, <2>6, <2>7, <2>8, <2>9, <2>10, <2>11, <2>12
       DEF Next, RouterStep
<1> QED BY <1>1, <1>2, Typed, PTL

\* Inbox: no command is executed twice, through repetitions, restarts and refused
\* statements, unless its row was cleared or its insert refused.
THEOREM ExecutedAtMostOnce == Spec => []AtMostOnce
<1>1. IInv => AtMostOnce BY DEF IInv
<1> QED BY <1>1, Inductive, PTL DEF Spec

\* Inbox: commands are executed in the order in which the peer sent them.
THEOREM ExecutedInOrder == Spec => []PeerOrder
<1>1. IInv => PeerOrder BY DEF IInv
<1> QED BY <1>1, Inductive, PTL DEF Spec

\* Inbox: all of it, the invariant the run machine checks.
THEOREM InboxCorrect == Spec => []InboxInv
<1>1. IInv => InboxInv BY DEF IInv, InboxInv
<1> QED BY <1>1, Inductive, PTL DEF Spec

=============================================================================
