---------------------------- MODULE OutboxProofs ----------------------------
(* Theorems about Outbox, for every set of urls, requests and producers and  *)
(* for every bound.                                                          *)
EXTENDS Outbox, FiniteSetTheorems, TLAPS

CallSet == [req : Requests, upTo : {0} \cup Ids, pc : {"replace", "check", "insert"}]

\* Deleting rows and forgetting them in the due order keeps both well typed.
LEMMA DeleteRowsType ==
  ASSUME row \in [Ids -> RowSet \cup {NoRow}], ahead \in [Ids -> SUBSET Ids],
         NEW S, DeleteRows(S)
  PROVE  /\ row' \in [Ids -> RowSet \cup {NoRow}]
         /\ ahead' \in [Ids -> SUBSET Ids]
  BY DEF DeleteRows

LEMMA WithdrawRowsType ==
  ASSUME TypeOK, NEW S \in SUBSET Ids, WithdrawRows(S)
  PROVE  /\ row' \in [Ids -> RowSet \cup {NoRow}]
         /\ ahead' \in [Ids -> SUBSET Ids]
         /\ withdrawn' \subseteq Ids
         /\ UNCHANGED <<content, received, clearedTo, view>>
<1>1. DeleteRows(S) BY DEF WithdrawRows
<1>2. /\ row' \in [Ids -> RowSet \cup {NoRow}]
      /\ ahead' \in [Ids -> SUBSET Ids]
  BY <1>1, DeleteRowsType DEF TypeOK
<1> QED BY <1>2 DEF WithdrawRows, TypeOK

\* A row marked waiting, fresh or due is still a row.
LEMMA MarkType ==
  ASSUME row \in [Ids -> RowSet \cup {NoRow}], NEW i \in Ids, row[i] # NoRow,
         NEW m \in {"fresh", "wait", "due"}
  PROVE  [row EXCEPT ![i].next = m] \in [Ids -> RowSet \cup {NoRow}]
<1>1. row[i] \in RowSet OBVIOUS
<1>2. [row[i] EXCEPT !.next = m] \in RowSet BY <1>1 DEF RowSet
<1> QED BY <1>2

\* Turning to the next job releases the lane's job.
LEMMA NextJobType ==
  ASSUME TypeOK, NEW l \in Lanes, NextJob(l)
  PROVE  /\ at' \in [Lanes -> {"tick", "claim", "send", "sent", "failed", "dead"}]
         /\ job' \in [Lanes -> {0} \cup Ids]
         /\ \A m \in Lanes : job'[m] # 0 <=> at'[m] \in {"send", "sent", "failed"}
  BY DEF TypeOK, NextJob, LoopTop

\* The job of a working lane is an id of the table.
LEMMA JobIsId ==
  ASSUME TypeOK, NEW l \in Lanes, at[l] \in {"send", "sent", "failed"}
  PROVE  job[l] \in Ids
  BY DEF TypeOK

\* Outbox: every variable keeps its type, and a lane holds a job exactly while
\* it works on it.
THEOREM TypeCorrect == Spec => []TypeOK
<1>1. Init => TypeOK
  BY BoundsAssumption DEF Init, TypeOK, Lanes, LoopTop, Ids
<1>2. TypeOK /\ [Next]_vars => TypeOK'
  <2> SUFFICES ASSUME TypeOK, [Next]_vars PROVE TypeOK'
    OBVIOUS
  <2> USE BoundsAssumption DEF senderVars, budgets, history
  <2>1. ASSUME NEW p \in Producers, EnqueueCall(p) PROVE TypeOK'
    <3>1. Calls[p] \subseteq Requests BY RequestsAssumption
    <3>2. call' \in [Producers ->
            CallSet \cup {NoCall}]
      BY <2>1, <3>1 DEF EnqueueCall, TypeOK, CallSet
    <3> QED BY <2>1, <3>2 DEF EnqueueCall, TypeOK, CallSet
  <2>2. ASSUME NEW p \in Producers, EnqueueReplace(p) PROVE TypeOK'
    <3>1. KeyRows(call[p].req) \in SUBSET Ids BY DEF KeyRows, Live
    <3>2. call[p] \in CallSet /\ lastId \in {0} \cup Ids
      BY <2>2 DEF EnqueueReplace, TypeOK, CallSet, Ids
    <3>3. call' \in [Producers ->
            CallSet \cup {NoCall}]
      BY <2>2, <3>2 DEF EnqueueReplace, TypeOK, CallSet
    <3> QED BY <2>2, <3>1, <3>3, WithdrawRowsType DEF EnqueueReplace, TypeOK, CallSet
  <2>3. ASSUME NEW p \in Producers, EnqueueCheck(p) PROVE TypeOK'
    <3>1. call[p] \in CallSet
      BY <2>3 DEF EnqueueCheck, TypeOK, CallSet
    <3>2. call' \in [Producers ->
            CallSet \cup {NoCall}]
      BY <2>3, <3>1 DEF EnqueueCheck, TypeOK, CallSet
    <3> QED BY <2>3, <3>2 DEF EnqueueCheck, TypeOK, CallSet
  <2>4. ASSUME NEW p \in Producers, EnqueueInsert(p) PROVE TypeOK'
    <3> DEFINE q == call[p].req
    <3>1. q \in Requests BY <2>4 DEF EnqueueInsert, TypeOK
    <3>2. FreshId \in Ids /\ lastId' \in 0 .. MaxId
      BY <2>4 DEF EnqueueInsert, FreshId, Ids, TypeOK
    <3>3. [url |-> q.url, param |-> q.param, value |-> q.value,
           origin |-> q.origin, ack |-> q.ack, prio |-> q.prio,
           dk |-> q.dk, next |-> "fresh"] \in RowSet
      BY <3>1, RequestsAssumption DEF RowSet
    <3>4. row' \in [Ids -> RowSet \cup {NoRow}]
      BY <2>4, <3>2, <3>3 DEF EnqueueInsert, TypeOK
    <3>5. content' \in [Ids -> Requests \cup {NoRow}]
      BY <2>4, <3>1, <3>2 DEF EnqueueInsert, TypeOK
    <3>6. clearedTo' \in [Ids -> {0} \cup Ids]
      BY <2>4, <3>2 DEF EnqueueInsert, TypeOK
    <3> QED BY <2>4, <3>2, <3>4, <3>5, <3>6 DEF EnqueueInsert, TypeOK
  <2>5. ASSUME NEW p \in Producers, EnqueueFails(p) PROVE TypeOK'
    BY <2>5 DEF EnqueueFails, TypeOK
  <2>6. ASSUME NEW k \in Params, DeleteStatusUpdates(k) PROVE TypeOK'
    <3>1. StatusRows(k) \in SUBSET Ids BY DEF StatusRows, Live
    <3> QED BY <2>6, <3>1, WithdrawRowsType DEF DeleteStatusUpdates, TypeOK
  <2>7. CASE Clear
    <3>1. Live \in SUBSET Ids BY DEF Live
    <3> QED BY <2>7, <3>1, WithdrawRowsType DEF Clear, TypeOK
  <2>8. ASSUME NEW check \in {"throttled", "ok", "failed"}, Tick(check) PROVE TypeOK'
    <3>1. fails' \in 0 .. DownAfter BY <2>8 DEF Tick, TypeOK
    <3> QED BY <2>8, <3>1 DEF Tick, TypeOK, Lanes
  <2>9. ASSUME NEW l \in Lanes, Claim(l) PROVE TypeOK'
    <3>1. PICK i \in Due(l) :
            /\ row' = [row EXCEPT ![i].next = "wait"]
            /\ ahead' = [j \in Ids |-> IF j = i THEN {} ELSE ahead[j] \ {i}]
            /\ job' = [job EXCEPT ![l] = i]
      BY <2>9 DEF Claim
    <3>2. i \in Ids /\ row[i] # NoRow BY <3>1 DEF Due, Live
    <3>3. row' \in [Ids -> RowSet \cup {NoRow}]
      BY <3>1, <3>2, MarkType DEF TypeOK
    <3>4. i # 0 BY <3>2 DEF Ids
    <3> QED BY <2>9, <3>1, <3>2, <3>3, <3>4 DEF Claim, TypeOK
  <2>10. ASSUME NEW l \in Lanes, NothingDue(l) PROVE TypeOK'
    BY <2>10 DEF NothingDue, TypeOK, LoopTop
  <2>11. ASSUME NEW l \in Lanes, DropUnsendable(l) \/ Finish(l) PROVE TypeOK'
    BY <2>11, NextJobType, DeleteRowsType DEF DropUnsendable, Finish, TypeOK
  <2>12. ASSUME NEW l \in Lanes, NEW answered \in BOOLEAN, Deliver(l, answered)
         PROVE TypeOK'
    <3>1. job[l] \in Ids BY <2>12, JobIsId DEF Deliver
    <3>2. view' \in [Urls -> [Params -> {0} \cup Ids]]
      BY <2>12, <3>1 DEF Deliver, TypeOK
    <3> QED BY <2>12, <3>1, <3>2 DEF Deliver, TypeOK
  <2>13. ASSUME NEW l \in Lanes, LoseRequest(l) PROVE TypeOK'
    BY <2>13 DEF LoseRequest, TypeOK
  <2>14. ASSUME NEW l \in Lanes, HandleFailure(l) PROVE TypeOK'
    <3>1. job[l] \in Ids BY <2>14, JobIsId DEF HandleFailure
    <3>2. /\ row' \in [Ids -> RowSet \cup {NoRow}]
          /\ ahead' \in [Ids -> SUBSET Ids]
          /\ cooling' \in [Lanes -> BOOLEAN]
      <4>1. CASE Target(l) \in SecondaryUrls
        BY <2>14, <4>1, DeleteRowsType DEF HandleFailure, TypeOK
      <4>2. CASE Target(l) \notin SecondaryUrls
        <5>1. CASE row[job[l]] = NoRow
          BY <2>14, <4>2, <5>1 DEF HandleFailure, Reschedule, TypeOK
        <5>2. CASE row[job[l]] # NoRow
          <6>1. [row EXCEPT ![job[l]].next = "wait"] \in [Ids -> RowSet \cup {NoRow}]
            BY <3>1, <5>2, MarkType DEF TypeOK
          <6> QED BY <2>14, <4>2, <5>2, <6>1 DEF HandleFailure, Reschedule, TypeOK
        <5> QED BY <5>1, <5>2
      <4> QED BY <4>1, <4>2
    <3> QED BY <2>14, <3>2, NextJobType DEF HandleFailure, TypeOK
  <2>15. ASSUME NEW l \in Lanes, CooldownEnds(l) PROVE TypeOK'
    BY <2>15 DEF CooldownEnds, TypeOK
  <2>16. ASSUME NEW l \in Lanes, LaneDbError(l) PROVE TypeOK'
    BY <2>16 DEF LaneDbError, TypeOK
  <2>17. ASSUME NEW i \in Ids, ComesDue(i) PROVE TypeOK'
    <3>1. row' \in [Ids -> RowSet \cup {NoRow}]
      BY <2>17, MarkType DEF ComesDue, TypeOK
    <3> QED BY <2>17, <3>1 DEF ComesDue, TypeOK, Live
  <2>18. CASE Restart
    BY <2>18 DEF Restart, TypeOK, LoopTop
  <2>19. CASE UNCHANGED vars
    BY <2>19 DEF vars, TypeOK
  <2> QED
    BY <2>1, <2>2, <2>3, <2>4, <2>5, <2>6, <2>7, <2>8, <2>9, <2>10, <2>11, <2>12,
       <2>13, <2>14, <2>15, <2>16, <2>17, <2>18, <2>19 DEF Next, Enqueue, LaneStep
<1> QED BY <1>1, <1>2, PTL DEF Spec

-----------------------------------------------------------------------------
IInv == TypeOK /\ JobsStayValid

\* Withdrawing rows keeps every copied job valid.
LEMMA WithdrawKeepsJobs ==
  ASSUME IInv, NEW S \in SUBSET Live, WithdrawRows(S), UNCHANGED <<lastId, at, job>>
  PROVE  JobsStayValid'
<1>1. /\ row' = [i \in Ids |-> IF i \in S THEN NoRow ELSE row[i]]
      /\ withdrawn' = withdrawn \cup S
      /\ UNCHANGED <<content, received, lastId, at, job>>
  BY DEF WithdrawRows, DeleteRows
<1>2. \A i \in S : i \in Ids /\ content[i] # NoRow
  BY DEF IInv, JobsStayValid, Live
<1>3. \A i \in Ids : row'[i] # NoRow => row'[i] = row[i]
  BY <1>1
<1>4. \A l \in Lanes : job[l] # 0 => job[l] \in Ids
  BY DEF IInv, TypeOK
<1>5. \A l \in Lanes : job[l] # 0 => (row'[job[l]] # NoRow \/ job[l] \in withdrawn')
  BY <1>1, <1>4 DEF IInv, JobsStayValid
<1>6. \A i \in Ids : row'[i] # NoRow => content'[i] # NoRow /\ row'[i].url = content'[i].url
  BY <1>1, <1>3 DEF IInv, JobsStayValid
<1>7. \A i \in received' \cup withdrawn' : content'[i] # NoRow
  BY <1>1, <1>2 DEF IInv, JobsStayValid
<1>8. \A l \in Lanes : job'[l] # 0 =>
        content'[job'[l]] # NoRow /\ LaneOf(Target(l)') = l
  BY <1>1 DEF IInv, JobsStayValid, Target
<1> QED BY <1>1, <1>5, <1>6, <1>7, <1>8 DEF IInv, JobsStayValid

\* A lane that deletes its own row disturbs no other lane: the other one holds
\* a job of its own lane, hence a different one.
LEMMA OwnDeleteKeepsJobs ==
  ASSUME IInv, NEW l \in Lanes, at[l] \in {"send", "sent", "failed"},
         DeleteRows({job[l]} \cap Ids), NextJob(l),
         UNCHANGED <<lastId, content, received, withdrawn>>
  PROVE  JobsStayValid'
<1>1. job[l] \in Ids BY JobIsId DEF IInv
<1>2. row' = [i \in Ids |-> IF i = job[l] THEN NoRow ELSE row[i]]
  BY <1>1 DEF DeleteRows
<1>3. job' = [job EXCEPT ![l] = 0] /\ at' = [at EXCEPT ![l] = LoopTop(l)]
  BY DEF NextJob
<1>4. \A m \in Lanes : job'[m] # 0 => m # l /\ job'[m] = job[m] /\ job[m] # job[l] /\ job[m] \in Ids
  <2> SUFFICES ASSUME NEW m \in Lanes, job'[m] # 0
               PROVE  m # l /\ job'[m] = job[m] /\ job[m] # job[l] /\ job[m] \in Ids
    OBVIOUS
  <2>1. m # l /\ job'[m] = job[m] BY <1>3 DEF IInv, TypeOK
  <2>2. job[l] # 0 BY DEF IInv, TypeOK
  <2>3. LaneOf(Target(m)) = m /\ LaneOf(Target(l)) = l
    BY <2>1, <2>2 DEF IInv, JobsStayValid
  <2> QED BY <2>1, <2>3 DEF Target, IInv, TypeOK
<1>5. \A i \in Ids : row'[i] # NoRow => row'[i] = row[i] BY <1>2
<1>6. \A m \in Lanes : job'[m] # 0 =>
        /\ content'[job'[m]] # NoRow
        /\ LaneOf(Target(m)') = m
        /\ row'[job'[m]] # NoRow \/ job'[m] \in withdrawn'
  BY <1>2, <1>4 DEF IInv, JobsStayValid, Target
<1>7. \A m \in Lanes : at'[m] = "sent" => job'[m] \in received'
  BY <1>3 DEF IInv, JobsStayValid, TypeOK, LoopTop
<1> QED BY <1>5, <1>6, <1>7 DEF IInv, JobsStayValid

\* A step that touches neither table, jobs, lane positions nor history keeps
\* JobsStayValid.
LEMMA QuietKeepsJobs ==
  ASSUME JobsStayValid, UNCHANGED <<row, lastId, content, received, withdrawn, job, at>>
  PROVE  JobsStayValid'
  BY DEF JobsStayValid, Target

\* Marking a row waiting or due changes neither its url nor its presence.
LEMMA MarkKeepsRows ==
  ASSUME TypeOK, JobsStayValid, NEW i \in Ids, row[i] # NoRow,
         NEW m \in {"fresh", "wait", "due"}, row' = [row EXCEPT ![i].next = m],
         NoRow \notin RowSet
  PROVE  /\ \A j \in Ids : row'[j] # NoRow <=> row[j] # NoRow
         /\ \A j \in Ids : row'[j] # NoRow => row'[j].url = row[j].url
<1>1. row[i] \in RowSet /\ row \in [Ids -> RowSet \cup {NoRow}] BY DEF TypeOK
<1>2. row'[i] = [row[i] EXCEPT !.next = m] /\ \A j \in Ids \ {i} : row'[j] = row[j]
  BY <1>1
<1>3. row'[i] \in RowSet /\ row'[i].url = row[i].url BY <1>1, <1>2 DEF RowSet
<1> QED BY <1>2, <1>3

\* Init => IInv /\ every step keeps IInv.
LEMMA InductiveStep ==
  ASSUME IInv, TypeOK', [Next]_vars
  PROVE  JobsStayValid'
<1> USE DEF IInv, senderVars, budgets, history
<1>0. NoRow \notin RowSet BY NoRowAssumption
<1>1. ASSUME NEW p \in Producers, EnqueueCall(p) \/ EnqueueCheck(p) \/ EnqueueFails(p)
      PROVE JobsStayValid'
  BY <1>1, QuietKeepsJobs DEF EnqueueCall, EnqueueCheck, EnqueueFails
<1>2. ASSUME NEW p \in Producers, EnqueueReplace(p) PROVE JobsStayValid'
  <2>1. KeyRows(call[p].req) \in SUBSET Live BY DEF KeyRows
  <2> QED BY <1>2, <2>1, WithdrawKeepsJobs DEF EnqueueReplace
<1>3. ASSUME NEW p \in Producers, EnqueueInsert(p) PROVE JobsStayValid'
  <2> DEFINE q == call[p].req
  <2>1. q \in Requests /\ q # NoRow
    BY <1>3, RequestsAssumption DEF EnqueueInsert, TypeOK
  <2>2. FreshId \in Ids /\ lastId' = FreshId /\ lastId \in Nat /\ FreshId = lastId + 1
    BY <1>3, BoundsAssumption DEF EnqueueInsert, FreshId, Ids, TypeOK
  <2>3. content[FreshId] = NoRow BY <2>2 DEF JobsStayValid, Ids
  <2>4. content' = [content EXCEPT ![FreshId] = q]
    BY <1>3 DEF EnqueueInsert
  <2>5. content'[FreshId] = q /\ \A i \in Ids \ {FreshId} : content'[i] = content[i]
    BY <2>2, <2>4 DEF TypeOK
  <2>6. row'[FreshId].url = q.url /\ \A i \in Ids \ {FreshId} : row'[i] = row[i]
    BY <1>3, <2>2 DEF EnqueueInsert, TypeOK
  <2>7. UNCHANGED <<received, withdrawn, at, job>> BY <1>3 DEF EnqueueInsert
  <2>8. \A i \in Ids : i > lastId' => content'[i] = NoRow
    BY <2>2, <2>5 DEF JobsStayValid, Ids
  <2>9. \A i \in Ids : row'[i] # NoRow => content'[i] # NoRow /\ row'[i].url = content'[i].url
    BY <2>1, <2>5, <2>6 DEF JobsStayValid
  <2>10. \A i \in received' \cup withdrawn' : content'[i] # NoRow
    BY <2>1, <2>5, <2>7 DEF JobsStayValid, TypeOK
  <2>11. \A l \in Lanes : job[l] # 0 => job[l] \in Ids \ {FreshId}
    BY <2>3 DEF JobsStayValid, TypeOK
  <2>12. \A l \in Lanes : job'[l] # 0 =>
           /\ content'[job'[l]] # NoRow
           /\ LaneOf(Target(l)') = l
           /\ row'[job'[l]] # NoRow \/ job'[l] \in withdrawn'
    BY <2>5, <2>6, <2>7, <2>11 DEF JobsStayValid, Target
  <2> QED BY <2>7, <2>8, <2>9, <2>10, <2>12 DEF JobsStayValid
<1>4. ASSUME NEW k \in Params, DeleteStatusUpdates(k) PROVE JobsStayValid'
  <2>1. StatusRows(k) \in SUBSET Live BY DEF StatusRows
  <2> QED BY <1>4, <2>1, WithdrawKeepsJobs DEF DeleteStatusUpdates
<1>5. CASE Clear
  BY <1>5, WithdrawKeepsJobs DEF Clear
<1>6. ASSUME NEW check \in {"throttled", "ok", "failed"}, Tick(check) PROVE JobsStayValid'
  BY <1>6 DEF Tick, JobsStayValid, Target, TypeOK
<1>7. ASSUME NEW l \in Lanes, Claim(l) PROVE JobsStayValid'
  <2>1. PICK i \in Due(l) :
          /\ row' = [row EXCEPT ![i].next = "wait"]
          /\ job' = [job EXCEPT ![l] = i]
    BY <1>7 DEF Claim
  <2>2. i \in Ids /\ row[i] # NoRow /\ LaneOf(row[i].url) = l BY <2>1 DEF Due, Live
  <2>3. /\ \A j \in Ids : row'[j] # NoRow <=> row[j] # NoRow
        /\ \A j \in Ids : row'[j] # NoRow => row'[j].url = row[j].url
    BY <1>0, <2>1, <2>2, MarkKeepsRows
  <2>4. UNCHANGED <<lastId, content, received, withdrawn>> /\ at' = [at EXCEPT ![l] = "send"]
    BY <1>7 DEF Claim
  <2>5. \A m \in Lanes : job'[m] # 0 =>
          /\ content'[job'[m]] # NoRow
          /\ LaneOf(Target(m)') = m
          /\ row'[job'[m]] # NoRow \/ job'[m] \in withdrawn'
    <3> SUFFICES ASSUME NEW m \in Lanes, job'[m] # 0
                 PROVE  /\ content'[job'[m]] # NoRow
                        /\ LaneOf(Target(m)') = m
                        /\ row'[job'[m]] # NoRow \/ job'[m] \in withdrawn'
      OBVIOUS
    <3>1. CASE m = l
      <4>1. job'[m] = i BY <2>1, <3>1 DEF TypeOK
      <4> QED BY <2>2, <2>3, <2>4, <3>1, <4>1 DEF JobsStayValid, Target
    <3>2. CASE m # l
      <4>1. job'[m] = job[m] /\ job[m] \in Ids BY <2>1, <3>2 DEF TypeOK
      <4> QED BY <2>3, <2>4, <4>1 DEF JobsStayValid, Target
    <3> QED BY <3>1, <3>2
  <2>6. \A m \in Lanes : at'[m] = "sent" => job'[m] \in received'
    BY <2>1, <2>4 DEF JobsStayValid, TypeOK
  <2> QED BY <2>3, <2>4, <2>5, <2>6 DEF JobsStayValid
<1>8. ASSUME NEW l \in Lanes, NothingDue(l) \/ LoseRequest(l) PROVE JobsStayValid'
  BY <1>8 DEF NothingDue, LoseRequest, JobsStayValid, Target, TypeOK, LoopTop
<1>9. ASSUME NEW l \in Lanes, DropUnsendable(l) \/ Finish(l) PROVE JobsStayValid'
  BY <1>9, OwnDeleteKeepsJobs DEF DropUnsendable, Finish
<1>10. ASSUME NEW l \in Lanes, NEW answered \in BOOLEAN, Deliver(l, answered)
       PROVE JobsStayValid'
  <2>1. job[l] \in Ids /\ job[l] # 0 /\ content[job[l]] # NoRow
    BY <1>10, JobIsId DEF Deliver, JobsStayValid, TypeOK
  <2>2. /\ received' = received \cup {job[l]}
        /\ at' = [at EXCEPT ![l] = IF answered THEN "sent" ELSE "failed"]
        /\ UNCHANGED <<row, lastId, job, content, withdrawn>>
    BY <1>10 DEF Deliver
  <2> QED BY <2>1, <2>2 DEF JobsStayValid, Target, TypeOK
<1>11. ASSUME NEW l \in Lanes, HandleFailure(l) PROVE JobsStayValid'
  <2>1. CASE Target(l) \in SecondaryUrls
    BY <1>11, <2>1, OwnDeleteKeepsJobs DEF HandleFailure
  <2>2. CASE Target(l) \notin SecondaryUrls
    <3>1. job[l] \in Ids BY <1>11, JobIsId DEF HandleFailure
    <3>2. /\ \A j \in Ids : row'[j] # NoRow <=> row[j] # NoRow
          /\ \A j \in Ids : row'[j] # NoRow => row'[j].url = row[j].url
      <4>1. CASE row[job[l]] = NoRow
        BY <1>11, <2>2, <4>1 DEF HandleFailure, Reschedule
      <4>2. CASE row[job[l]] # NoRow
        BY <1>0, <1>11, <2>2, <3>1, <4>2, MarkKeepsRows DEF HandleFailure, Reschedule
      <4> QED BY <4>1, <4>2
    <3>3. /\ UNCHANGED <<lastId, content, received, withdrawn>>
          /\ job' = [job EXCEPT ![l] = 0] /\ at' = [at EXCEPT ![l] = LoopTop(l)]
      BY <1>11 DEF HandleFailure, NextJob
    <3>4. \A m \in Lanes : job'[m] # 0 => job'[m] = job[m] /\ job[m] \in Ids
      BY <3>3 DEF TypeOK
    <3>5. \A m \in Lanes : at'[m] = "sent" => job'[m] \in received'
      BY <3>3 DEF JobsStayValid, TypeOK, LoopTop
    <3> QED BY <3>2, <3>3, <3>4, <3>5 DEF JobsStayValid, Target
  <2> QED BY <2>1, <2>2
<1>12. ASSUME NEW l \in Lanes, CooldownEnds(l) PROVE JobsStayValid'
  BY <1>12, QuietKeepsJobs DEF CooldownEnds
<1>13. ASSUME NEW l \in Lanes, LaneDbError(l) PROVE JobsStayValid'
  BY <1>13 DEF LaneDbError, JobsStayValid, Target, TypeOK
<1>14. ASSUME NEW i \in Ids, ComesDue(i) PROVE JobsStayValid'
  <2>1. row' = [row EXCEPT ![i].next = "due"] /\ row[i] # NoRow BY <1>14 DEF ComesDue
  <2>2. /\ \A j \in Ids : row'[j] # NoRow <=> row[j] # NoRow
        /\ \A j \in Ids : row'[j] # NoRow => row'[j].url = row[j].url
    BY <1>0, <2>1, MarkKeepsRows
  <2>3. \A m \in Lanes : job[m] # 0 => job[m] \in Ids BY DEF TypeOK
  <2> QED BY <1>14, <2>2, <2>3 DEF ComesDue, JobsStayValid, Target
<1>15. CASE Restart
  BY <1>15 DEF Restart, JobsStayValid, Target, LoopTop
<1>16. CASE UNCHANGED vars
  BY <1>16, QuietKeepsJobs DEF vars
<1> QED
  BY <1>1, <1>2, <1>3, <1>4, <1>5, <1>6, <1>7, <1>8, <1>9, <1>10, <1>11, <1>12,
     <1>13, <1>14, <1>15, <1>16 DEF Next, Enqueue, LaneStep

\* Outbox: a lane's copied job stays valid under every interleaving of
\* producers, lanes, purges, refused statements and restarts.
THEOREM JobsValid == Spec => []JobsStayValid
<1>1. Init => JobsStayValid
  BY BoundsAssumption DEF Init, JobsStayValid, LoopTop, Ids
<1>2. TypeOK /\ TypeOK' /\ JobsStayValid /\ [Next]_vars => JobsStayValid'
  BY InductiveStep DEF IInv
<1> QED BY <1>1, <1>2, TypeCorrect, PTL DEF Spec

-----------------------------------------------------------------------------
(* Outbox implements Mailbox: each step is an accept, a receive, a finish, a *)
(* withdrawal, or invisible to the primary peer's mailbox.                   *)

mailboxVars == <<Live \cap PrimaryIds, received \cap PrimaryIds, withdrawn \cap PrimaryIds>>

\* A step that keeps presence of rows, contents and both history sets is
\* invisible.
LEMMA Invisible ==
  ASSUME \A i \in Ids : row'[i] # NoRow <=> row[i] # NoRow,
         UNCHANGED <<content, received, withdrawn>>
  PROVE  mailboxVars' = mailboxVars
  BY DEF mailboxVars, Live, PrimaryIds

\* Withdrawing rows is a withdrawal of the primary ones among them.
LEMMA WithdrawMaps ==
  ASSUME IInv, NEW S \in SUBSET Live, WithdrawRows(S)
  PROVE  \E T \in SUBSET Ids : PrimaryMail!Withdraw(T)
<1> DEFINE T == S \cap PrimaryIds
<1>1. T \in SUBSET Ids BY DEF Live
<1>2. Live' = Live \ S BY DEF WithdrawRows, DeleteRows, Live
<1>3. PrimaryIds' = PrimaryIds /\ received' = received /\ withdrawn' = withdrawn \cup S
  BY DEF WithdrawRows, PrimaryIds
<1>4. PrimaryMail!Withdraw(T)
  BY <1>2, <1>3 DEF PrimaryMail!Withdraw
<1> QED BY <1>1, <1>4

\* A lane that deletes its own row either finishes a received message or drops
\* one that is not for the primary peer.
LEMMA OwnDeleteMaps ==
  ASSUME IInv, NEW l \in Lanes, job[l] \in Ids, DeleteRows({job[l]} \cap Ids),
         UNCHANGED <<content, received, withdrawn>>,
         job[l] \in received \/ job[l] \notin PrimaryIds
  PROVE  (\E i \in Ids : PrimaryMail!Finish(i)) \/ mailboxVars' = mailboxVars
<1>1. Live' = Live \ {job[l]} BY DEF DeleteRows, Live
<1>2. PrimaryIds' = PrimaryIds BY DEF PrimaryIds
<1>3. CASE job[l] \in Live \cap PrimaryIds
  <2>1. PrimaryMail!Finish(job[l])
    BY <1>1, <1>2, <1>3 DEF PrimaryMail!Finish
  <2> QED BY <2>1
<1>4. CASE job[l] \notin Live \cap PrimaryIds
  BY <1>1, <1>2, <1>4 DEF mailboxVars
<1> QED BY <1>3, <1>4

LEMMA StepMaps ==
  ASSUME IInv, [Next]_vars
  PROVE  PrimaryMail!MailNext \/ mailboxVars' = mailboxVars
<1> USE DEF IInv, senderVars, budgets, history
<1> DEFINE Goal == PrimaryMail!MailNext \/ mailboxVars' = mailboxVars
<1>0. NoRow \notin RowSet BY NoRowAssumption
<1>1. ASSUME NEW p \in Producers, EnqueueCall(p) \/ EnqueueCheck(p) \/ EnqueueFails(p)
      PROVE Goal
  BY <1>1, Invisible DEF EnqueueCall, EnqueueCheck, EnqueueFails
<1>2. ASSUME NEW p \in Producers, EnqueueReplace(p) PROVE Goal
  <2>1. KeyRows(call[p].req) \in SUBSET Live BY DEF KeyRows
  <2> QED BY <1>2, <2>1, WithdrawMaps DEF EnqueueReplace, PrimaryMail!MailNext
<1>3. ASSUME NEW p \in Producers, EnqueueInsert(p) PROVE Goal
  <2> DEFINE q == call[p].req
  <2>1. q \in Requests /\ q # NoRow
    BY <1>3, RequestsAssumption DEF EnqueueInsert, TypeOK
  <2>2. FreshId \in Ids /\ FreshId = lastId + 1 /\ lastId \in Nat
    BY <1>3, BoundsAssumption DEF EnqueueInsert, FreshId, Ids, TypeOK
  <2>3. content[FreshId] = NoRow BY <2>2 DEF JobsStayValid, Ids
  <2>4. FreshId \notin received \cup withdrawn /\ row[FreshId] = NoRow
    BY <2>2, <2>3 DEF JobsStayValid
  <2>5. content'[FreshId] = q /\ \A i \in Ids \ {FreshId} : content'[i] = content[i]
    BY <1>3, <2>2 DEF EnqueueInsert, TypeOK
  <2>6. row'[FreshId] # NoRow /\ \A i \in Ids \ {FreshId} : row'[i] = row[i]
    <3>1. [url |-> q.url, param |-> q.param, value |-> q.value,
           origin |-> q.origin, ack |-> q.ack, prio |-> q.prio,
           dk |-> q.dk, next |-> "fresh"] \in RowSet
      BY <2>1, RequestsAssumption DEF RowSet
    <3> QED BY <1>0, <1>3, <2>2, <3>1 DEF EnqueueInsert, TypeOK
  <2>7. UNCHANGED <<received, withdrawn>> BY <1>3 DEF EnqueueInsert
  <2>8. Live' = Live \cup {FreshId} BY <2>2, <2>6 DEF Live
  <2>9. CASE q.url \in PrimaryUrls
    <3>1. PrimaryIds' = PrimaryIds \cup {FreshId}
      BY <2>1, <2>2, <2>5, <2>9 DEF PrimaryIds
    <3>2. FreshId \notin PrimaryIds BY <2>3 DEF PrimaryIds
    <3>3. PrimaryMail!Accept(FreshId)
      BY <2>4, <2>7, <2>8, <3>1, <3>2 DEF PrimaryMail!Accept
    <3> QED BY <2>2, <3>3 DEF PrimaryMail!MailNext
  <2>10. CASE q.url \notin PrimaryUrls
    <3>1. PrimaryIds' = PrimaryIds
      BY <2>1, <2>2, <2>3, <2>5, <2>10 DEF PrimaryIds
    <3>2. FreshId \notin PrimaryIds BY <2>3 DEF PrimaryIds
    <3> QED BY <2>7, <2>8, <3>1, <3>2 DEF mailboxVars
  <2> QED BY <2>9, <2>10
<1>4. ASSUME NEW k \in Params, DeleteStatusUpdates(k) PROVE Goal
  <2>1. StatusRows(k) \in SUBSET Live BY DEF StatusRows
  <2> QED BY <1>4, <2>1, WithdrawMaps DEF DeleteStatusUpdates, PrimaryMail!MailNext
<1>5. CASE Clear
  BY <1>5, WithdrawMaps DEF Clear, PrimaryMail!MailNext
<1>6. ASSUME NEW check \in {"throttled", "ok", "failed"}, Tick(check) PROVE Goal
  BY <1>6, Invisible DEF Tick
<1>7. ASSUME NEW l \in Lanes, Claim(l) PROVE Goal
  <2>1. PICK i \in Due(l) : row' = [row EXCEPT ![i].next = "wait"] BY <1>7 DEF Claim
  <2>2. i \in Ids /\ row[i] # NoRow BY <2>1 DEF Due, Live
  <2>3. \A j \in Ids : row'[j] # NoRow <=> row[j] # NoRow
    BY <1>0, <2>1, <2>2, MarkKeepsRows
  <2> QED BY <1>7, <2>3, Invisible DEF Claim
<1>8. ASSUME NEW l \in Lanes,
             NothingDue(l) \/ LoseRequest(l) \/ CooldownEnds(l) \/ LaneDbError(l)
      PROVE Goal
  BY <1>8, Invisible DEF NothingDue, LoseRequest, CooldownEnds, LaneDbError
<1>9. ASSUME NEW l \in Lanes, DropUnsendable(l) PROVE Goal
  <2>1. job[l] \in Ids BY <1>9, JobIsId DEF DropUnsendable
  <2>2. job[l] \notin PrimaryIds
    BY <1>9, UrlsAssumption DEF DropUnsendable, Unsendable, InCooldown, Target, PrimaryIds
  <2> QED BY <1>9, <2>1, <2>2, OwnDeleteMaps DEF DropUnsendable, PrimaryMail!MailNext
<1>10. ASSUME NEW l \in Lanes, Finish(l) PROVE Goal
  <2>1. job[l] \in Ids BY <1>10, JobIsId DEF Finish
  <2>2. job[l] \in received BY <1>10 DEF Finish, JobsStayValid
  <2> QED BY <1>10, <2>1, <2>2, OwnDeleteMaps DEF Finish, PrimaryMail!MailNext
<1>11. ASSUME NEW l \in Lanes, NEW answered \in BOOLEAN, Deliver(l, answered)
       PROVE Goal
  <2>1. job[l] \in Ids /\ job[l] # 0 BY <1>11, JobIsId DEF Deliver, TypeOK
  <2>2. job[l] \in Live \cup withdrawn BY <2>1 DEF JobsStayValid, Live
  <2>3. Live' = Live /\ PrimaryIds' = PrimaryIds /\ withdrawn' = withdrawn
        /\ received' = received \cup {job[l]}
    BY <1>11 DEF Deliver, Live, PrimaryIds
  <2>4. CASE job[l] \in PrimaryIds
    <3>1. PrimaryMail!Receive(job[l]) BY <2>2, <2>3, <2>4 DEF PrimaryMail!Receive
    <3> QED BY <2>1, <3>1 DEF PrimaryMail!MailNext
  <2>5. CASE job[l] \notin PrimaryIds
    BY <2>3, <2>5 DEF mailboxVars
  <2> QED BY <2>4, <2>5
<1>12. ASSUME NEW l \in Lanes, HandleFailure(l) PROVE Goal
  <2>1. job[l] \in Ids BY <1>12, JobIsId DEF HandleFailure
  <2>2. CASE Target(l) \in SecondaryUrls
    <3>1. job[l] \notin PrimaryIds BY <2>2, UrlsAssumption DEF Target, PrimaryIds
    <3> QED BY <1>12, <2>1, <2>2, <3>1, OwnDeleteMaps DEF HandleFailure, PrimaryMail!MailNext
  <2>3. CASE Target(l) \notin SecondaryUrls
    <3>1. CASE row[job[l]] = NoRow
      BY <1>12, <2>3, <3>1, Invisible DEF HandleFailure, Reschedule
    <3>2. CASE row[job[l]] # NoRow
      <4>1. row' = [row EXCEPT ![job[l]].next = "wait"]
        BY <1>12, <2>3, <3>2 DEF HandleFailure, Reschedule
      <4>2. \A j \in Ids : row'[j] # NoRow <=> row[j] # NoRow
        BY <1>0, <2>1, <3>2, <4>1, MarkKeepsRows
      <4> QED BY <1>12, <4>2, Invisible DEF HandleFailure
    <3> QED BY <3>1, <3>2
  <2> QED BY <2>2, <2>3
<1>13. ASSUME NEW i \in Ids, ComesDue(i) PROVE Goal
  <2>1. \A j \in Ids : row'[j] # NoRow <=> row[j] # NoRow
    BY <1>0, <1>13, MarkKeepsRows DEF ComesDue
  <2> QED BY <1>13, <2>1, Invisible DEF ComesDue
<1>14. CASE Restart
  BY <1>14, Invisible DEF Restart
<1>15. CASE UNCHANGED vars
  BY <1>15, Invisible DEF vars
<1> QED
  BY <1>1, <1>2, <1>3, <1>4, <1>5, <1>6, <1>7, <1>8, <1>9, <1>10, <1>11, <1>12,
     <1>13, <1>14, <1>15 DEF Next, Enqueue, LaneStep

\* Outbox implements Mailbox: whatever is lost, repeated, refused or restarted,
\* a callback for the primary peer leaves the queue only after it was received
\* or because the bridge withdrew it.
THEOREM PrimaryAtLeastOnce == Spec => AtLeastOnce
<1>1. Init => PrimaryMail!MailInit
  BY DEF Init, PrimaryMail!MailInit, Live, PrimaryIds
<1>2. IInv /\ [Next]_vars => [PrimaryMail!MailNext]_(PrimaryMail!mailVars)
  BY StepMaps DEF mailboxVars, PrimaryMail!mailVars
<1>3. Spec => []IInv
  BY TypeCorrect, JobsValid, PTL DEF IInv
<1> QED
  BY <1>1, <1>2, <1>3, PTL DEF Spec, AtLeastOnce, PrimaryMail!MailSpec

-----------------------------------------------------------------------------
(* What a step can do to the table, to a call and to a lane: used by the two *)
(* theorems below.                                                           *)

\* Rows disappear or are marked; those left are for what they were for.
TableKept ==
  /\ UNCHANGED <<content, clearedTo, lastId>>
  /\ \A i \in Ids : row'[i] # NoRow =>
       /\ row[i] # NoRow
       /\ row'[i].url = row[i].url
       /\ row'[i].param = row[i].param
       /\ row'[i].dk = row[i].dk

LEMMA DeleteKeepsTable ==
  ASSUME NEW S, DeleteRows(S), UNCHANGED <<content, clearedTo, lastId>>
  PROVE  TableKept
  BY DEF DeleteRows, TableKept

LEMMA MarkKeepsTable ==
  ASSUME TypeOK, NEW i \in Ids, row[i] # NoRow, NEW m \in {"fresh", "wait", "due"},
         row' = [row EXCEPT ![i].next = m], UNCHANGED <<content, clearedTo, lastId>>
  PROVE  TableKept
<1>1. row[i] \in RowSet /\ row \in [Ids -> RowSet \cup {NoRow}] BY DEF TypeOK
<1>2. row'[i] = [row[i] EXCEPT !.next = m] /\ \A j \in Ids \ {i} : row'[j] = row[j]
  BY <1>1
<1>3. /\ row'[i].url = row[i].url
      /\ row'[i].param = row[i].param
      /\ row'[i].dk = row[i].dk
  BY <1>1, <1>2 DEF RowSet
<1> QED BY <1>2, <1>3 DEF TableKept

\* Only an INSERT adds a row.
LEMMA TableStep ==
  ASSUME TypeOK, [Next]_vars
  PROVE  TableKept \/ \E p \in Producers : EnqueueInsert(p)
<1> USE DEF senderVars, budgets, history
<1>1. ASSUME NEW p \in Producers, EnqueueCall(p) \/ EnqueueCheck(p) \/ EnqueueFails(p)
      PROVE TableKept
  BY <1>1 DEF EnqueueCall, EnqueueCheck, EnqueueFails, TableKept
<1>2. ASSUME NEW p \in Producers, EnqueueReplace(p) PROVE TableKept
  BY <1>2, DeleteKeepsTable DEF EnqueueReplace, WithdrawRows
<1>3. ASSUME NEW k \in Params, DeleteStatusUpdates(k) PROVE TableKept
  BY <1>3, DeleteKeepsTable DEF DeleteStatusUpdates, WithdrawRows
<1>4. CASE Clear
  BY <1>4, DeleteKeepsTable DEF Clear, WithdrawRows
<1>5. ASSUME NEW check \in {"throttled", "ok", "failed"}, Tick(check) PROVE TableKept
  BY <1>5 DEF Tick, TableKept
<1>6. ASSUME NEW l \in Lanes, Claim(l) PROVE TableKept
  <2>1. PICK i \in Due(l) : row' = [row EXCEPT ![i].next = "wait"] BY <1>6 DEF Claim
  <2>2. i \in Ids /\ row[i] # NoRow BY <2>1 DEF Due, Live
  <2> QED BY <1>6, <2>1, <2>2, MarkKeepsTable DEF Claim
<1>7. ASSUME NEW l \in Lanes, NEW answered \in BOOLEAN,
             NothingDue(l) \/ LoseRequest(l) \/ CooldownEnds(l) \/ LaneDbError(l)
             \/ Deliver(l, answered)
      PROVE TableKept
  BY <1>7 DEF NothingDue, LoseRequest, CooldownEnds, LaneDbError, Deliver, TableKept
<1>8. ASSUME NEW l \in Lanes, DropUnsendable(l) \/ Finish(l) PROVE TableKept
  BY <1>8, DeleteKeepsTable DEF DropUnsendable, Finish
<1>9. ASSUME NEW l \in Lanes, HandleFailure(l) PROVE TableKept
  <2>1. CASE Target(l) \in SecondaryUrls
    BY <1>9, <2>1, DeleteKeepsTable DEF HandleFailure
  <2>2. CASE Target(l) \notin SecondaryUrls /\ row[job[l]] = NoRow
    BY <1>9, <2>2 DEF HandleFailure, Reschedule, TableKept
  <2>3. CASE Target(l) \notin SecondaryUrls /\ row[job[l]] # NoRow
    <3>1. job[l] \in Ids BY <1>9, JobIsId DEF HandleFailure
    <3> QED BY <1>9, <2>3, <3>1, MarkKeepsTable DEF HandleFailure, Reschedule
  <2> QED BY <2>1, <2>2, <2>3
<1>10. ASSUME NEW i \in Ids, ComesDue(i) PROVE TableKept
  BY <1>10, MarkKeepsTable DEF ComesDue
<1>11. CASE Restart
  BY <1>11 DEF Restart, TableKept
<1>12. CASE UNCHANGED vars
  BY <1>12 DEF vars, TableKept
<1> QED
  BY <1>1, <1>2, <1>3, <1>4, <1>5, <1>6, <1>7, <1>8, <1>9, <1>10, <1>11, <1>12
  DEF Next, Enqueue, LaneStep

\* A call stays, ends, begins, or goes on to its next statement.
CallMoves(p) ==
  \/ call'[p] = call[p]
  \/ call'[p] = NoCall
  \/ \E q \in Calls[p] :
       call'[p] = [req |-> q, upTo |-> 0,
                   pc |-> IF q.dk = NoKey THEN "insert"
                          ELSE IF q.replace THEN "replace" ELSE "check"]
  \/ /\ EnqueueReplace(p)
     /\ call'[p].req = call[p].req /\ call'[p].upTo = lastId
  \/ /\ call[p] # NoCall /\ call[p].pc = "check"
     /\ call'[p].req = call[p].req /\ call'[p].upTo = call[p].upTo

LEMMA CallStep ==
  ASSUME TypeOK, [Next]_vars, NEW p \in Producers
  PROVE  CallMoves(p)
<1> USE DEF senderVars, budgets, history, TypeOK
<1>1. ASSUME NEW r \in Producers, EnqueueCall(r) PROVE CallMoves(p)
  BY <1>1 DEF EnqueueCall, CallMoves
<1>2. ASSUME NEW r \in Producers, EnqueueReplace(r) PROVE CallMoves(p)
  <2>1. CASE r # p BY <1>2, <2>1 DEF EnqueueReplace, CallMoves
  <2>2. CASE r = p
    <3>1. call[p] \in CallSet
      BY <1>2, <2>2 DEF EnqueueReplace, CallSet
    <3>2. call'[p] = [call[p] EXCEPT !.pc = IF call[p].req.drop THEN "check" ELSE "insert",
                                     !.upTo = lastId]
      BY <1>2, <2>2, <3>1 DEF EnqueueReplace, CallSet
    <3>3. call'[p].req = call[p].req /\ call'[p].upTo = lastId
      BY <3>1, <3>2 DEF CallSet
    <3> QED BY <1>2, <2>2, <3>3 DEF CallMoves
  <2> QED BY <2>1, <2>2
<1>3. ASSUME NEW r \in Producers, EnqueueCheck(r) PROVE CallMoves(p)
  <2>1. CASE r # p BY <1>3, <2>1 DEF EnqueueCheck, CallMoves
  <2>2. CASE r = p /\ IsDuplicate(call[p].req)
    BY <1>3, <2>2 DEF EnqueueCheck, CallMoves
  <2>3. CASE r = p /\ ~IsDuplicate(call[p].req)
    <3>1. call[p] \in CallSet
      BY <1>3, <2>3 DEF EnqueueCheck, CallSet
    <3>2. call'[p] = [call[p] EXCEPT !.pc = "insert"] BY <1>3, <2>3 DEF EnqueueCheck
    <3>3. call'[p].req = call[p].req /\ call'[p].upTo = call[p].upTo
      BY <3>1, <3>2 DEF CallSet
    <3> QED BY <1>3, <2>3, <3>3 DEF EnqueueCheck, CallMoves
  <2> QED BY <2>1, <2>2, <2>3
<1>4. ASSUME NEW r \in Producers, EnqueueInsert(r) \/ EnqueueFails(r) PROVE CallMoves(p)
  BY <1>4 DEF EnqueueInsert, EnqueueFails, CallMoves
<1>5. CASE Restart
  BY <1>5 DEF Restart, CallMoves
<1>6. CASE UNCHANGED call
  BY <1>6 DEF CallMoves
<1>7. (\E r \in Producers : Enqueue(r)) \/ Restart \/ UNCHANGED call
  BY DEF Next, DeleteStatusUpdates, Clear, LaneStep, Claim, NothingDue, DropUnsendable,
         Deliver, LoseRequest, Finish, HandleFailure, CooldownEnds, LaneDbError, Tick,
         ComesDue, vars
<1> QED BY <1>1, <1>2, <1>3, <1>4, <1>5, <1>6, <1>7 DEF Enqueue

\* Lanes take jobs and drop them; only a delivery is seen by a peer.
LEMMA LaneMoves ==
  ASSUME TypeOK, [Next]_vars
  PROVE  \/ UNCHANGED view /\ \A l \in Lanes : job'[l] \in {0, job[l]}
         \/ \E l \in Lanes : Claim(l)
         \/ \E l \in Lanes, answered \in BOOLEAN : Deliver(l, answered)
<1> USE DEF senderVars, budgets, history, TypeOK
<1>1. ASSUME NEW p \in Producers, Enqueue(p)
      PROVE  UNCHANGED <<view, job>>
  BY <1>1 DEF Enqueue, EnqueueCall, EnqueueReplace, EnqueueCheck, EnqueueInsert,
              EnqueueFails, WithdrawRows
<1>2. ASSUME NEW l \in Lanes,
             NothingDue(l) \/ DropUnsendable(l) \/ LoseRequest(l) \/ Finish(l)
             \/ HandleFailure(l) \/ CooldownEnds(l) \/ LaneDbError(l)
      PROVE  UNCHANGED view /\ \A m \in Lanes : job'[m] \in {0, job[m]}
  BY <1>2 DEF NothingDue, DropUnsendable, LoseRequest, Finish, HandleFailure,
              CooldownEnds, LaneDbError, NextJob
<1>3. ASSUME (\E k \in Params : DeleteStatusUpdates(k)) \/ Clear
             \/ (\E check \in {"throttled", "ok", "failed"} : Tick(check))
             \/ (\E i \in Ids : ComesDue(i)) \/ UNCHANGED vars
      PROVE  UNCHANGED <<view, job>>
  BY <1>3 DEF DeleteStatusUpdates, Clear, WithdrawRows, Tick, ComesDue, vars
<1>4. CASE Restart
  BY <1>4 DEF Restart
<1> QED BY <1>1, <1>2, <1>3, <1>4 DEF Next, LaneStep

-----------------------------------------------------------------------------
(* RegressionOnlyByCrossing.  Any number of threads report a state, under    *)
(* its key.  The invariant follows its rows from the call to the peer: what  *)
(* a call's DELETE leaves of the state came after that DELETE, so an older   *)
(* row beside a newer one was inserted between the newer one's DELETE and    *)
(* INSERT, and the same holds for the job of a lane and what the peer saw.   *)

\* Rows say what was asked for, and a DELETE ran before the ids still to come.
Carried ==
  /\ \A i \in Ids : row[i] # NoRow => row[i].param = content[i].param /\ row[i].dk = content[i].dk
  /\ \A p \in Producers : call[p] # NoCall => call[p].upTo <= lastId

\* i came after what the DELETE of j's call had left to delete.
NotBefore(i, j) == j <= i \/ clearedTo[j] < i

NewestLeft ==
  \A i, j \in Ids : row[i] # NoRow /\ content[j] # NoRow /\ Supersedes(j, i) => NotBefore(i, j)

Cleared ==
  \A p \in Producers :
    call[p] # NoCall /\ call[p].pc # "replace" /\ call[p].req.replace /\ call[p].req.dk # NoKey
      => \A i \in KeyRows(call[p].req) : call[p].upTo < i

Seen ==
  \A u \in Urls, k \in Params : view[u][k] # 0 =>
    /\ content[view[u][k]] # NoRow
    /\ content[view[u][k]].url = u
    /\ content[view[u][k]].param = k

NotPassed ==
  \A l \in Lanes : job[l] # 0
    => LET v == view[Target(l)][content[job[l]].param]
       IN  v # 0 /\ Supersedes(v, job[l]) => NotBefore(job[l], v)

OrderInv == Carried /\ NewestLeft /\ Cleared /\ Seen /\ NotPassed

\* What an INSERT changes.
LEMMA InsertStep ==
  ASSUME IInv, NEW p \in Producers, EnqueueInsert(p)
  PROVE  /\ FreshId \in Ids /\ call[p].req \in Requests
         /\ content[FreshId] = NoRow /\ row[FreshId] = NoRow
         /\ content'[FreshId] = call[p].req
         /\ row'[FreshId].url = call[p].req.url
         /\ row'[FreshId].param = call[p].req.param
         /\ row'[FreshId].dk = call[p].req.dk
         /\ row'[FreshId] # NoRow
         /\ \A i \in Ids \ {FreshId} : row'[i] = row[i] /\ content'[i] = content[i]
         /\ \A i \in Ids : content[i] # NoRow => i < FreshId
         /\ clearedTo'[FreshId] = call[p].upTo /\ FreshId = lastId + 1 /\ lastId' = lastId + 1
         /\ \A i \in Ids \ {FreshId} : clearedTo'[i] = clearedTo[i]
         /\ call' = [call EXCEPT ![p] = NoCall]
<1> USE DEF IInv
<1>0. NoRow \notin RowSet BY NoRowAssumption
<1>1. call[p].req \in Requests BY DEF EnqueueInsert, TypeOK
<1>2. FreshId \in Ids /\ FreshId = lastId + 1 /\ lastId \in Nat
  BY BoundsAssumption DEF EnqueueInsert, FreshId, Ids, TypeOK
<1>3. content[FreshId] = NoRow BY <1>2 DEF JobsStayValid, Ids
<1>4. row[FreshId] = NoRow BY <1>2, <1>3 DEF JobsStayValid
<1>5. /\ content'[FreshId] = call[p].req
      /\ \A i \in Ids \ {FreshId} : content'[i] = content[i]
  BY <1>2 DEF EnqueueInsert, TypeOK
<1> DEFINE new == [url |-> call[p].req.url, param |-> call[p].req.param,
                   value |-> call[p].req.value, origin |-> call[p].req.origin,
                   ack |-> call[p].req.ack, prio |-> call[p].req.prio,
                   dk |-> call[p].req.dk, next |-> "fresh"]
<1>6. new \in RowSet BY <1>1, RequestsAssumption DEF RowSet
<1>7. row'[FreshId] = new /\ \A i \in Ids \ {FreshId} : row'[i] = row[i]
  BY <1>2 DEF EnqueueInsert, TypeOK
<1>8. \A i \in Ids : content[i] # NoRow => i < FreshId
  BY <1>2 DEF JobsStayValid, Ids
<1>9. call' = [call EXCEPT ![p] = NoCall] BY DEF EnqueueInsert
<1>10. /\ clearedTo'[FreshId] = call[p].upTo /\ lastId' = lastId + 1
       /\ \A i \in Ids \ {FreshId} : clearedTo'[i] = clearedTo[i]
  BY <1>2 DEF EnqueueInsert, TypeOK
<1> QED BY <1>0, <1>1, <1>2, <1>3, <1>4, <1>5, <1>6, <1>7, <1>8, <1>9, <1>10

\* Every step keeps Carried.
LEMMA CarriedStep ==
  ASSUME IInv, Carried, [Next]_vars
  PROVE  Carried'
<1> USE DEF IInv
<1>1. \A i \in Ids : row'[i] # NoRow =>
        row'[i].param = content'[i].param /\ row'[i].dk = content'[i].dk
  <2>1. CASE TableKept
    BY <2>1 DEF TableKept, Carried
  <2>2. ASSUME NEW p \in Producers, EnqueueInsert(p)
        PROVE  \A i \in Ids : row'[i] # NoRow =>
                 row'[i].param = content'[i].param /\ row'[i].dk = content'[i].dk
    BY <2>2, InsertStep DEF Carried
  <2> QED BY <2>1, <2>2, TableStep
<1>2. ASSUME NEW p \in Producers, call'[p] # NoCall PROVE call'[p].upTo <= lastId'
  <2>1. lastId \in Nat /\ lastId' \in Nat /\ lastId <= lastId'
    <3>1. lastId \in Nat BY BoundsAssumption DEF TypeOK
    <3>2. lastId' = lastId \/ lastId' = lastId + 1
      BY TableStep, InsertStep DEF TableKept
    <3> QED BY <3>1, <3>2
  <2>2. CASE call'[p] = call[p]
    <3>1. call[p] \in CallSet BY <1>2, <2>2 DEF TypeOK, CallSet
    <3>2. call[p].upTo \in Nat BY <3>1 DEF CallSet, Ids
    <3> QED BY <1>2, <2>1, <2>2, <3>2 DEF Carried
  <2>3. ASSUME NEW q \in Calls[p],
               call'[p] = [req |-> q, upTo |-> 0,
                           pc |-> IF q.dk = NoKey THEN "insert"
                                  ELSE IF q.replace THEN "replace" ELSE "check"]
        PROVE  call'[p].upTo <= lastId'
    BY <2>1, <2>3
  <2>4. CASE EnqueueReplace(p) /\ call'[p].upTo = lastId
    BY <2>1, <2>4
  <2>5. CASE call[p] # NoCall /\ call'[p].upTo = call[p].upTo
    <3>1. call[p] \in CallSet BY <2>5 DEF TypeOK, CallSet
    <3>2. call[p].upTo \in Nat BY <3>1 DEF CallSet, Ids
    <3> QED BY <2>1, <2>5, <3>2 DEF Carried
  <2> QED BY <1>2, <2>2, <2>3, <2>4, <2>5, CallStep DEF CallMoves
<1> QED BY <1>1, <1>2 DEF Carried

\* An INSERT finds only rows of its state that came after its DELETE.
LEMMA NewestLeftStep ==
  ASSUME IInv, OrderInv, [Next]_vars
  PROVE  NewestLeft'
<1> USE DEF IInv, OrderInv
<1>1. CASE TableKept
  <2>1. \A i, j \in Ids : /\ Supersedes(j, i)' <=> Supersedes(j, i)
                          /\ NotBefore(i, j)' <=> NotBefore(i, j)
    BY <1>1 DEF TableKept, Supersedes, NotBefore
  <2> QED BY <1>1, <2>1 DEF TableKept, NewestLeft
<1>2. ASSUME NEW p \in Producers, EnqueueInsert(p) PROVE NewestLeft'
  <2> SUFFICES ASSUME NEW i \in Ids, NEW j \in Ids, row'[i] # NoRow,
                      content'[j] # NoRow, Supersedes(j, i)'
               PROVE  j <= i \/ clearedTo'[j] < i
    BY DEF NewestLeft, NotBefore
  <2>0. i \in Nat /\ j \in Nat BY DEF Ids
  <2>1. CASE i = FreshId /\ j = FreshId
    BY <2>0, <2>1
  <2>2. CASE i = FreshId /\ j # FreshId
    <3>1. j < FreshId BY <1>2, <2>2, InsertStep
    <3> QED BY <2>0, <2>2, <3>1
  <2>3. CASE i # FreshId /\ j = FreshId
    <3>1. row[i] = row'[i] /\ content[i] = content'[i] /\ content'[j] = call[p].req
      BY <1>2, <2>3, InsertStep
    <3>2. /\ call[p].req.replace /\ call[p].req.dk # NoKey
          /\ content[i].url = call[p].req.url
          /\ content[i].dk = call[p].req.dk
      BY <3>1 DEF Supersedes
    <3>3. row[i].url = call[p].req.url /\ row[i].dk = call[p].req.dk
      BY <3>1, <3>2 DEF Carried, JobsStayValid
    <3>4. i \in KeyRows(call[p].req) BY <3>1, <3>3 DEF KeyRows, Live
    <3>5. call[p] # NoCall /\ call[p].pc # "replace" BY <1>2 DEF EnqueueInsert
    <3>6. call[p].upTo < i BY <3>2, <3>4, <3>5 DEF Cleared
    <3> QED BY <1>2, <2>3, <3>6, InsertStep
  <2>4. CASE i # FreshId /\ j # FreshId
    <3>1. row[i] = row'[i] /\ content[i] = content'[i] /\ content[j] = content'[j]
      BY <1>2, <2>4, InsertStep
    <3>2. Supersedes(j, i) BY <3>1 DEF Supersedes
    <3>3. NotBefore(i, j) BY <3>1, <3>2 DEF NewestLeft
    <3> QED BY <1>2, <2>4, <3>3, InsertStep DEF NotBefore
  <2> QED BY <2>1, <2>2, <2>3, <2>4
<1> QED BY <1>1, <1>2, TableStep

\* Behind its DELETE a call finds only rows that others inserted since.
LEMMA ClearedStep ==
  ASSUME IInv, OrderInv, [Next]_vars
  PROVE  Cleared'
<1> USE DEF IInv, OrderInv
<1> SUFFICES ASSUME NEW p \in Producers, call'[p] # NoCall, call'[p].pc # "replace",
                    call'[p].req.replace, call'[p].req.dk # NoKey,
                    NEW i \in Ids, row'[i] # NoRow,
                    row'[i].url = call'[p].req.url, row'[i].dk = call'[p].req.dk
             PROVE  call'[p].upTo < i
  BY DEF Cleared, KeyRows, Live
<1>1. CASE TableKept
  <2>1. row[i] # NoRow /\ i \in KeyRows(call'[p].req)
    BY <1>1 DEF TableKept, KeyRows, Live
  <2>2. CASE call'[p] = call[p] BY <2>1, <2>2 DEF Cleared
  <2>3. ASSUME NEW q \in Calls[p],
               call'[p] = [req |-> q, upTo |-> 0,
                           pc |-> IF q.dk = NoKey THEN "insert"
                                  ELSE IF q.replace THEN "replace" ELSE "check"]
        PROVE  FALSE
    <3>1. q.replace /\ q.dk # NoKey BY <2>3
    <3> QED BY <2>3, <3>1
  <2>4. CASE EnqueueReplace(p) /\ call'[p].req = call[p].req
    <3>1. i \in KeyRows(call[p].req) BY <2>1, <2>4
    <3> QED BY <2>4, <3>1 DEF EnqueueReplace, WithdrawRows, DeleteRows
  <2>5. CASE /\ call[p] # NoCall /\ call[p].pc = "check"
             /\ call'[p].req = call[p].req /\ call'[p].upTo = call[p].upTo
    BY <2>1, <2>5 DEF Cleared
  <2> QED BY <2>2, <2>3, <2>4, <2>5, CallStep DEF CallMoves
<1>2. ASSUME NEW r \in Producers, EnqueueInsert(r) PROVE call'[p].upTo < i
  <2>1. r # p /\ call'[p] = call[p] BY <1>2, InsertStep DEF TypeOK
  <2>2. CASE i = FreshId
    <3>1. call[p] \in CallSet BY <2>1 DEF TypeOK, CallSet
    <3>2. call[p].upTo \in Nat /\ lastId \in Nat
      BY <3>1, BoundsAssumption DEF CallSet, Ids, TypeOK
    <3>3. call[p].upTo <= lastId BY <2>1 DEF Carried
    <3>4. i = lastId + 1 BY <2>2 DEF FreshId
    <3> QED BY <2>1, <3>2, <3>3, <3>4
  <2>3. CASE i # FreshId
    <3>1. i \in KeyRows(call[p].req) BY <1>2, <2>1, <2>3, InsertStep DEF KeyRows, Live
    <3> QED BY <2>1, <3>1 DEF Cleared
  <2> QED BY <2>2, <2>3
<1> QED BY <1>1, <1>2, TableStep

\* A message keeps its content.
LEMMA ContentStays ==
  ASSUME IInv, [Next]_vars, NEW i \in Ids, content[i] # NoRow
  PROVE  content'[i] = content[i] /\ clearedTo'[i] = clearedTo[i]
<1>1. CASE TableKept BY <1>1 DEF TableKept
<1>2. ASSUME NEW p \in Producers, EnqueueInsert(p)
      PROVE  content'[i] = content[i] /\ clearedTo'[i] = clearedTo[i]
  BY <1>2, InsertStep
<1> QED BY <1>1, <1>2, TableStep DEF IInv

\* What a delivery shows the peer.
LEMMA DeliveryStep ==
  ASSUME IInv, NEW l \in Lanes, NEW answered \in BOOLEAN, Deliver(l, answered)
  PROVE  /\ job[l] \in Ids /\ job[l] # 0 /\ content[job[l]] # NoRow
         /\ Target(l) \in Urls /\ content[job[l]].param \in Params
         /\ view'[Target(l)][content[job[l]].param] = job[l]
         /\ \A u \in Urls, k \in Params :
              u # Target(l) \/ k # content[job[l]].param => view'[u][k] = view[u][k]
         /\ UNCHANGED <<job, content, clearedTo>>
<1>1. job[l] \in Ids /\ job[l] # 0 /\ content[job[l]] # NoRow
  BY JobIsId DEF Deliver, IInv, JobsStayValid, TypeOK
<1>2. content[job[l]] \in Requests BY <1>1 DEF IInv, TypeOK
<1>3. Target(l) \in Urls /\ content[job[l]].param \in Params
  BY <1>2, RequestsAssumption DEF Target
<1> QED BY <1>1, <1>3 DEF Deliver, IInv, TypeOK

LEMMA SeenStep ==
  ASSUME IInv, Seen, [Next]_vars
  PROVE  Seen'
<1> SUFFICES ASSUME NEW u \in Urls, NEW k \in Params, view'[u][k] # 0
             PROVE  /\ content'[view'[u][k]] # NoRow
                    /\ content'[view'[u][k]].url = u
                    /\ content'[view'[u][k]].param = k
  BY DEF Seen
<1>1. view[u][k] \in {0} \cup Ids BY DEF IInv, TypeOK
<1>2. CASE view'[u][k] = view[u][k]
  BY <1>1, <1>2, ContentStays DEF Seen
<1>3. ASSUME NEW l \in Lanes, NEW answered \in BOOLEAN, Deliver(l, answered),
             view'[u][k] # view[u][k]
      PROVE  /\ content'[view'[u][k]] # NoRow
             /\ content'[view'[u][k]].url = u
             /\ content'[view'[u][k]].param = k
  <2>1. u = Target(l) /\ k = content[job[l]].param BY <1>3, DeliveryStep
  <2> QED BY <1>3, <2>1, DeliveryStep DEF Target
<1>4. view'[u][k] = view[u][k] \/ \E l \in Lanes, answered \in BOOLEAN : Deliver(l, answered)
  BY LaneMoves DEF IInv, Claim, history
<1> QED BY <1>2, <1>3, <1>4

\* A lane never holds what the peer is already past, crossed calls aside.
LEMMA NotPassedStep ==
  ASSUME IInv, OrderInv, [Next]_vars
  PROVE  NotPassed'
<1> USE DEF IInv, OrderInv
<1> DEFINE Replaces(j, i) ==
             /\ content'[j].replace /\ content'[j].dk # NoKey
             /\ content'[i].dk = content'[j].dk
             /\ content'[i].url = content'[j].url
             /\ content'[i].param = content'[j].param
           Behind(i, v) == v # 0 /\ Replaces(v, i) => v <= i \/ clearedTo'[v] < i
<1> SUFFICES ASSUME NEW m \in Lanes, job'[m] # 0
             PROVE  Behind(job'[m], view'[content'[job'[m]].url][content'[job'[m]].param])
  BY DEF NotPassed, Target, Supersedes, NotBefore
<1>1. CASE job'[m] = job[m] /\ UNCHANGED view
  <2>1. job[m] \in Ids /\ content[job[m]] # NoRow BY <1>1 DEF TypeOK, JobsStayValid
  <2>2. content'[job[m]] = content[job[m]] BY <2>1, ContentStays
  <2>3. content[job[m]].url \in Urls /\ content[job[m]].param \in Params
    BY <2>1, RequestsAssumption DEF TypeOK
  <2> DEFINE v == view[content[job[m]].url][content[job[m]].param]
  <2>4. v \in {0} \cup Ids BY <2>3 DEF TypeOK
  <2>5. CASE v = 0 BY <1>1, <2>2, <2>5
  <2>6. CASE v # 0
    <3>1. content[v] # NoRow BY <2>3, <2>6 DEF Seen
    <3>2. content'[v] = content[v] /\ clearedTo'[v] = clearedTo[v]
      BY <2>4, <2>6, <3>1, ContentStays
    <3>3. Replaces(v, job[m]) <=> Supersedes(v, job[m])
      BY <2>2, <3>2 DEF Supersedes
    <3>4. Supersedes(v, job[m]) => v <= job[m] \/ clearedTo[v] < job[m]
      BY <1>1, <2>6 DEF NotPassed, Target, NotBefore
    <3> QED BY <1>1, <2>2, <3>2, <3>3, <3>4
  <2> QED BY <2>5, <2>6
<1>2. ASSUME NEW l \in Lanes, Claim(l)
      PROVE  Behind(job'[m], view'[content'[job'[m]].url][content'[job'[m]].param])
  <2>1. PICK i \in Due(l) : job' = [job EXCEPT ![l] = i] BY <1>2 DEF Claim
  <2>2. UNCHANGED <<content, clearedTo, view>> BY <1>2 DEF Claim, history
  <2>3. CASE m # l BY <1>1, <2>1, <2>2, <2>3 DEF TypeOK
  <2>4. CASE m = l
    <3>1. i \in Ids /\ row[i] # NoRow /\ job'[m] = i
      BY <2>1, <2>4 DEF Due, Live, TypeOK
    <3>2. content[i] # NoRow /\ content[i] \in Requests
      BY <3>1 DEF JobsStayValid, TypeOK
    <3>3. content[i].url \in Urls /\ content[i].param \in Params
      BY <3>2, RequestsAssumption
    <3> DEFINE v == view[content[i].url][content[i].param]
    <3>4. v \in {0} \cup Ids BY <3>3 DEF TypeOK
    <3>5. CASE v = 0 BY <2>2, <3>1, <3>5
    <3>6. CASE v # 0
      <4>1. content[v] # NoRow BY <3>3, <3>6 DEF Seen
      <4>2. Replaces(v, i) <=> Supersedes(v, i) BY <2>2 DEF Supersedes
      <4>3. Supersedes(v, i) => NotBefore(i, v) BY <3>1, <3>4, <3>6, <4>1 DEF NewestLeft
      <4> QED BY <2>2, <3>1, <4>2, <4>3 DEF NotBefore
    <3> QED BY <3>5, <3>6
  <2> QED BY <2>3, <2>4
<1>3. ASSUME NEW l \in Lanes, NEW answered \in BOOLEAN, Deliver(l, answered)
      PROVE  Behind(job'[m], view'[content'[job'[m]].url][content'[job'[m]].param])
  <2>1. UNCHANGED <<job, content, clearedTo>> BY <1>3, DeliveryStep
  <2>2. job[m] \in Ids /\ content[job[m]] # NoRow
    BY <2>1 DEF TypeOK, JobsStayValid
  <2>3. content[job[m]].url \in Urls /\ content[job[m]].param \in Params
    BY <2>2, RequestsAssumption DEF TypeOK
  <2>4. CASE m = l
    <3>1. view'[content[job[m]].url][content[job[m]].param] = job[m]
      BY <1>3, <2>4, DeliveryStep DEF Target
    <3>2. job[m] <= job[m] BY <2>2 DEF Ids
    <3> QED BY <2>1, <3>1, <3>2
  <2>5. CASE m # l
    <3>1. Target(m) # Target(l)
      BY <1>3, <2>1, <2>5, DeliveryStep DEF JobsStayValid
    <3>2. view'[content[job[m]].url][content[job[m]].param]
            = view[content[job[m]].url][content[job[m]].param]
      BY <1>3, <2>3, <3>1, DeliveryStep DEF Target
    <3>3. Behind(job[m], view[content[job[m]].url][content[job[m]].param])
      BY <2>1 DEF NotPassed, Target, NotBefore, Supersedes
    <3> QED BY <2>1, <3>2, <3>3
  <2> QED BY <2>4, <2>5
<1> QED BY <1>1, <1>2, <1>3, LaneMoves

LEMMA OrderStep ==
  ASSUME IInv, OrderInv, [Next]_vars
  PROVE  OrderInv'
  BY CarriedStep, NewestLeftStep, ClearedStep, SeenStep, NotPassedStep DEF OrderInv

\* Outbox: whatever is retried, repeated, dropped or restarted, a peer sees an
\* older value of a state after a newer one only if their two enqueue calls
\* crossed: the older was inserted between DELETE and INSERT of the newer.
THEOREM BackOnlyByCrossing == Spec => RegressionOnlyByCrossing
<1>1. Init => OrderInv
  <2> SUFFICES ASSUME Init PROVE OrderInv
    OBVIOUS
  <2>1. /\ \A i \in Ids : row[i] = NoRow /\ content[i] = NoRow
        /\ \A p \in Producers : call[p] = NoCall
        /\ \A u \in Urls, k \in Params : view[u][k] = 0
        /\ \A l \in Lanes : job[l] = 0
    BY DEF Init
  <2> QED BY <2>1 DEF OrderInv, Carried, NewestLeft, Cleared, Seen, NotPassed
<1>2. IInv /\ OrderInv /\ [Next]_vars => OrderInv'
  BY OrderStep
<1>3. IInv /\ OrderInv /\ [Next]_vars
        => [\A u \in Urls, k \in Params :
              LET seen == view[u][k]
                  now == view'[u][k]
              IN  now < seen /\ Supersedes(seen, now) => now > clearedTo[seen]]_view
  <2> SUFFICES ASSUME IInv, OrderInv, [Next]_vars, NEW u \in Urls, NEW k \in Params,
                      view' # view, view'[u][k] < view[u][k],
                      Supersedes(view[u][k], view'[u][k])
               PROVE  view'[u][k] > clearedTo[view[u][k]]
    OBVIOUS
  <2>1. view[u][k] \in {0} \cup Ids BY DEF IInv, TypeOK
  <2>2. PICK l \in Lanes, answered \in BOOLEAN : Deliver(l, answered)
    BY LaneMoves DEF IInv, Claim, history
  <2>3. CASE u = Target(l) /\ k = content[job[l]].param
    <3>1. view'[u][k] = job[l] /\ job[l] \in Ids BY <2>2, <2>3, DeliveryStep
    <3>2. view[u][k] # 0 /\ view[u][k] \in Ids BY <2>1, <3>1 DEF Ids
    <3>3. view[u][k] <= job[l] \/ clearedTo[view[u][k]] < job[l]
      BY <2>2, <2>3, <3>2, DeliveryStep DEF OrderInv, NotPassed, NotBefore
    <3>4. clearedTo[view[u][k]] \in Nat
      <4>1. clearedTo[view[u][k]] \in {0} \cup Ids BY <3>2 DEF IInv, TypeOK
      <4> QED BY <4>1 DEF Ids
    <3> QED BY <3>1, <3>2, <3>3, <3>4 DEF Ids
  <2>4. CASE u # Target(l) \/ k # content[job[l]].param
    <3>1. view'[u][k] = view[u][k] BY <2>1, <2>2, <2>4, DeliveryStep
    <3>2. view[u][k] \in Nat BY <2>1 DEF Ids
    <3> QED BY <3>1, <3>2
  <2> QED BY <2>3, <2>4
<1>4. Spec => []IInv
  BY TypeCorrect, JobsValid, PTL DEF IInv
<1> QED BY <1>1, <1>2, <1>3, <1>4, PTL DEF Spec, RegressionOnlyByCrossing

-----------------------------------------------------------------------------
(* ReplaceKeyBounded.  The rows of a replace key and the calls that have     *)
(* deleted its rows and not yet inserted theirs are together never more than *)
(* the threads: a DELETE leaves no row, an INSERT uses up its own call.      *)

Pending(u, d) == {i \in Live : row[i].url = u /\ row[i].dk = d}

BehindDelete(u, d) ==
  {p \in Producers : /\ call[p] # NoCall /\ call[p].pc # "replace"
                     /\ call[p].req.url = u /\ call[p].req.dk = d}

AlwaysReplaces(d) == d # NoKey /\ \A r \in Requests : r.dk = d => r.replace

KeyBounded(u, d) ==
  Cardinality(Pending(u, d)) + Cardinality(BehindDelete(u, d)) <= Cardinality(Producers)

LEMMA KeySetsFinite ==
  ASSUME IsFiniteSet(Producers), NEW u, NEW d
  PROVE  /\ IsFiniteSet(Pending(u, d)) /\ Cardinality(Pending(u, d)) \in Nat
         /\ IsFiniteSet(BehindDelete(u, d)) /\ Cardinality(BehindDelete(u, d)) \in Nat
         /\ Cardinality(BehindDelete(u, d)) <= Cardinality(Producers)
         /\ Cardinality(Producers) \in Nat
<1>1. IsFiniteSet(Ids)
  <2>1. 1 \in Int /\ MaxId \in Int BY BoundsAssumption
  <2> QED BY <2>1, FS_Interval DEF Ids
<1>2. Pending(u, d) \in SUBSET Ids BY DEF Pending, Live
<1>3. BehindDelete(u, d) \in SUBSET Producers BY DEF BehindDelete
<1>4. IsFiniteSet(Pending(u, d)) BY <1>1, <1>2, FS_Subset
<1>5. /\ IsFiniteSet(BehindDelete(u, d))
      /\ Cardinality(BehindDelete(u, d)) <= Cardinality(Producers)
  BY <1>3, FS_Subset
<1> QED BY <1>4, <1>5, FS_CardinalityType

\* The same of the next state.
LEMMA KeySetsFiniteNext ==
  ASSUME IsFiniteSet(Producers), NEW u, NEW d
  PROVE  /\ Cardinality(Pending(u, d)') \in Nat
         /\ Cardinality(BehindDelete(u, d)') \in Nat
         /\ Cardinality(BehindDelete(u, d)') <= Cardinality(Producers)
<1>1. IsFiniteSet(Ids)
  <2>1. 1 \in Int /\ MaxId \in Int BY BoundsAssumption
  <2> QED BY <2>1, FS_Interval DEF Ids
<1>2. Pending(u, d)' \in SUBSET Ids BY DEF Pending, Live
<1>3. BehindDelete(u, d)' \in SUBSET Producers BY DEF BehindDelete
<1>4. IsFiniteSet(Pending(u, d)') BY <1>1, <1>2, FS_Subset
<1>5. /\ IsFiniteSet(BehindDelete(u, d)')
      /\ Cardinality(BehindDelete(u, d)') <= Cardinality(Producers)
  BY <1>3, FS_Subset
<1> QED BY <1>4, <1>5, FS_CardinalityType

\* Fewer rows and fewer calls.
LEMMA KeyShrinks ==
  ASSUME IsFiniteSet(Producers), NEW u, NEW d, KeyBounded(u, d),
         Pending(u, d)' \subseteq Pending(u, d),
         BehindDelete(u, d)' \subseteq BehindDelete(u, d)
  PROVE  KeyBounded(u, d)'
<1>1. Cardinality(Pending(u, d)') <= Cardinality(Pending(u, d))
  BY KeySetsFinite, FS_Subset
<1>2. Cardinality(BehindDelete(u, d)') <= Cardinality(BehindDelete(u, d))
  BY KeySetsFinite, FS_Subset
<1>3. Cardinality(Pending(u, d)') + Cardinality(BehindDelete(u, d)') <= Cardinality(Producers)
  BY <1>1, <1>2, KeySetsFinite, KeySetsFiniteNext DEF KeyBounded
<1> QED BY <1>3 DEF KeyBounded

LEMMA KeyStep ==
  ASSUME IsFiniteSet(Producers), IInv, [Next]_vars,
         NEW u, NEW d, AlwaysReplaces(d), KeyBounded(u, d)
  PROVE  KeyBounded(u, d)'
<1> USE DEF IInv
<1>1. ASSUME NEW p \in Producers, EnqueueInsert(p) PROVE KeyBounded(u, d)'
  <2>1. /\ \A r \in Producers \ {p} : call'[r] = call[r]
        /\ call'[p] = NoCall
        /\ call[p] # NoCall /\ call[p].pc = "insert"
    BY <1>1, InsertStep DEF EnqueueInsert, TypeOK
  <2>2. CASE call[p].req.url = u /\ call[p].req.dk = d
    <3>1. Pending(u, d)' = Pending(u, d) \cup {FreshId} /\ FreshId \notin Pending(u, d)
      BY <1>1, <2>2, InsertStep DEF Pending, Live
    <3>2. BehindDelete(u, d)' = BehindDelete(u, d) \ {p} /\ p \in BehindDelete(u, d)
      BY <2>1, <2>2 DEF BehindDelete
    <3>3. Cardinality(Pending(u, d)') = Cardinality(Pending(u, d)) + 1
      BY <3>1, KeySetsFinite, FS_AddElement
    <3>4. Cardinality(BehindDelete(u, d)') = Cardinality(BehindDelete(u, d)) - 1
      BY <3>2, KeySetsFinite, FS_RemoveElement
    <3>5. Cardinality(Pending(u, d)') + Cardinality(BehindDelete(u, d)')
            <= Cardinality(Producers)
      BY <3>3, <3>4, KeySetsFinite DEF KeyBounded
    <3> QED BY <3>5 DEF KeyBounded
  <2>3. CASE ~(call[p].req.url = u /\ call[p].req.dk = d)
    <3>1. Pending(u, d)' \subseteq Pending(u, d)
      BY <1>1, <2>3, InsertStep DEF Pending, Live
    <3>2. BehindDelete(u, d)' \subseteq BehindDelete(u, d)
      BY <2>1 DEF BehindDelete
    <3> QED BY <3>1, <3>2, KeyShrinks
  <2> QED BY <2>2, <2>3
<1>2. ASSUME TableKept,
             NEW p \in Producers, EnqueueReplace(p), call[p].req.url = u, call[p].req.dk = d
      PROVE  KeyBounded(u, d)'
  <2>1. Pending(u, d)' = {}
    BY <1>2 DEF EnqueueReplace, WithdrawRows, DeleteRows, KeyRows, Pending, Live
  <2>2. Cardinality(Pending(u, d)') = 0 BY <2>1, FS_EmptySet
  <2>3. Cardinality(Pending(u, d)') + Cardinality(BehindDelete(u, d)')
          <= Cardinality(Producers)
    BY <2>2, KeySetsFiniteNext, KeySetsFinite
  <2> QED BY <2>3 DEF KeyBounded
<1>3. ASSUME TableKept,
             \A p \in Producers :
               EnqueueReplace(p) => ~(call[p].req.url = u /\ call[p].req.dk = d)
      PROVE  KeyBounded(u, d)'
  <2>1. Pending(u, d)' \subseteq Pending(u, d)
    BY <1>3 DEF TableKept, Pending, Live
  <2>2. ASSUME NEW p \in Producers, p \in BehindDelete(u, d)'
        PROVE  p \in BehindDelete(u, d)
    <3>1. /\ call'[p] # NoCall /\ call'[p].pc # "replace"
          /\ call'[p].req.url = u /\ call'[p].req.dk = d
      BY <2>2 DEF BehindDelete
    <3>2. CASE call'[p] = call[p] BY <3>1, <3>2 DEF BehindDelete
    <3>3. ASSUME NEW q \in Calls[p],
                 call'[p] = [req |-> q, upTo |-> 0,
                             pc |-> IF q.dk = NoKey THEN "insert"
                                    ELSE IF q.replace THEN "replace" ELSE "check"]
          PROVE FALSE
      <4>1. q \in Requests /\ q.dk = d BY <3>1, <3>3, RequestsAssumption
      <4>2. q.dk # NoKey /\ q.replace BY <4>1 DEF AlwaysReplaces
      <4> QED BY <3>1, <3>3, <4>2
    <3>4. CASE EnqueueReplace(p) /\ call'[p].req = call[p].req
      BY <1>3, <3>1, <3>4
    <3>5. CASE call[p] # NoCall /\ call[p].pc = "check" /\ call'[p].req = call[p].req
      BY <3>1, <3>5 DEF BehindDelete
    <3> QED BY <3>1, <3>2, <3>3, <3>4, <3>5, CallStep DEF CallMoves
  <2>3. BehindDelete(u, d)' \subseteq BehindDelete(u, d)
    BY <2>2 DEF BehindDelete
  <2> QED BY <2>1, <2>3, KeyShrinks
<1> QED BY <1>1, <1>2, <1>3, TableStep

\* Outbox: a replace key holds at most one pending row per thread, however the
\* threads' DELETEs and INSERTs interleave.
THEOREM OneRowPerThread ==
  ASSUME IsFiniteSet(Producers)
  PROVE  Spec => []ReplaceKeyBounded
<1> DEFINE Bounded == \A q \in Requests : AlwaysReplaces(q.dk) => KeyBounded(q.url, q.dk)
<1>1. Init => Bounded
  <2> SUFFICES ASSUME Init, NEW q \in Requests PROVE KeyBounded(q.url, q.dk)
    OBVIOUS
  <2>1. Pending(q.url, q.dk) = {} /\ BehindDelete(q.url, q.dk) = {}
    BY DEF Init, Pending, BehindDelete, Live
  <2>2. /\ Cardinality(Pending(q.url, q.dk)) = 0
        /\ Cardinality(BehindDelete(q.url, q.dk)) = 0
    BY <2>1, FS_EmptySet
  <2> QED BY <2>2, KeySetsFinite DEF KeyBounded
<1>2. IInv /\ Bounded /\ [Next]_vars => Bounded'
  <2> SUFFICES ASSUME IInv, Bounded, [Next]_vars,
                      NEW q \in Requests, AlwaysReplaces(q.dk)
               PROVE  KeyBounded(q.url, q.dk)'
    BY DEF AlwaysReplaces
  <2>1. KeyBounded(q.url, q.dk) OBVIOUS
  <2> HIDE DEF Bounded
  <2> QED BY <2>1, KeyStep
<1>3. Bounded => ReplaceKeyBounded
  <2> SUFFICES ASSUME Bounded, NEW q \in Requests, q.replace, q.dk # NoKey,
                      \A r \in Requests : r.dk = q.dk => r.replace
               PROVE  Cardinality(Pending(q.url, q.dk)) <= Cardinality(Producers)
    BY DEF ReplaceKeyBounded, Pending
  <2>1. KeyBounded(q.url, q.dk) BY DEF AlwaysReplaces
  <2> QED BY <2>1, KeySetsFinite DEF KeyBounded
<1>4. Spec => []IInv
  BY TypeCorrect, JobsValid, PTL DEF IInv
<1> QED BY <1>1, <1>2, <1>3, <1>4, PTL DEF Spec
=============================================================================
