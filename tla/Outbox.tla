------------------------------- MODULE Outbox -------------------------------
(***************************************************************************)
(* The persistent outbox (outbox.py), its producers and the two sender     *)
(* lanes (service.py sender_loop, peers.py sender_lanes).                  *)
(*                                                                         *)
(* Every SQL statement outside BEGIN IMMEDIATE commits on its own          *)
(* (isolation_level=None in db.py), so Outbox.enqueue is up to three       *)
(* transactions and two producers interleave between them; claim_next_due  *)
(* is one.  Time is abstracted to the order in which waiting rows come     *)
(* due: next_attempt_ts is 0 for a fresh row, and rows with a positive one *)
(* are claimed in the order in which they became due, which is the order   *)
(* of next_attempt_ts.  The length of a backoff or of a lease is free.     *)
(***************************************************************************)
EXTENDS Naturals, FiniteSets

CONSTANTS
  Urls,           \* callback targets that occur
  PrimaryUrls,    \* those below peer_base_url
  SecondaryUrls,  \* those below peer_base_url_secondary
  InvalidUrls,    \* those without an http(s) scheme
  Params,         \* parameter keys a callback can carry
  NoKey,          \* dedupe_key NULL
  NoRow, NoCall,  \* no such row, no call in progress
  Requests,       \* argument tuples of enqueue that occur
  Producers,      \* threads that enqueue
  Calls,          \* Calls[p]: the requests producer p makes
  MaxId,          \* bound: rows ever inserted
  MaxCrashes,     \* bound: process restarts
  MaxDbErrors,    \* bound: statements refused by SQLite ("database is locked")
  DownAfter       \* watchdog_down_after

ASSUME UrlsAssumption ==
  /\ PrimaryUrls \subseteq Urls
  /\ SecondaryUrls \subseteq Urls
  /\ PrimaryUrls \cap (SecondaryUrls \cup InvalidUrls) = {}
ASSUME RequestsAssumption ==
  /\ Requests \subseteq
       [url : Urls, param : Params, value : {q.value : q \in Requests},
        origin : {q.origin : q \in Requests}, ack : BOOLEAN,
        prio : {q.prio : q \in Requests}, dk : {q.dk : q \in Requests},
        drop : BOOLEAN, replace : BOOLEAN]
  /\ NoRow \notin Requests
  /\ Calls \in [Producers -> SUBSET Requests]

RowSet ==
  [url : Urls, param : Params, value : {q.value : q \in Requests},
   origin : {q.origin : q \in Requests}, ack : BOOLEAN,
   prio : {q.prio : q \in Requests}, dk : {q.dk : q \in Requests},
   next : {"fresh", "wait", "due"}]

ASSUME NoRowAssumption == NoRow \notin RowSet
ASSUME BoundsAssumption ==
  MaxId \in Nat /\ MaxCrashes \in Nat /\ MaxDbErrors \in Nat /\ DownAfter \in Nat \ {0}

VARIABLES
  row,        \* the outbox table: id -> row, or NoRow
  lastId,     \* sqlite_sequence of the AUTOINCREMENT column
  ahead,      \* ahead[i]: waiting rows that became due before i did
  call,       \* producer -> the enqueue call it is executing
  at,         \* lane -> where its loop stands
  job,        \* lane -> id of the job copied into its memory, 0 if none
  cooling,    \* lane -> now < secondary_cooldown_until
  fails,      \* Watchdog._fail of the primary lane
  crashes, dbErrors,              \* used budgets
  content, received, withdrawn,   \* history: what each id carried, which ids
                                  \* arrived, which were taken back
  clearedTo,  \* history: id -> last id in use when the DELETE of its call ran
  view        \* history: url -> param -> id of the message received last

vars == <<row, lastId, ahead, call, at, job, cooling, fails, crashes, dbErrors,
          content, received, withdrawn, clearedTo, view>>

Ids == 1 .. MaxId
Lanes == {"primary", "aux"}

\* Definitions whose name ends in Bug are seeded faults: a run must fail when one
\* of them takes the place of the definition it precedes.
LaneOfBug(url) == "primary"

\* sender_lanes: the primary lane takes the urls below the primary base, the
\* aux lane all others; without a primary base one lane takes everything.
LaneOf(url) == IF url \in PrimaryUrls THEN "primary" ELSE "aux"

\* The primary lane asks its watchdog before every claim.
LoopTop(l) == IF l = "primary" THEN "tick" ELSE "claim"

Live == {i \in Ids : row[i] # NoRow}
KeyRowsBug(q) == {i \in Live : row[i].url = q.url /\ row[i].dk = q.dk /\ row[i].next = "fresh"}
KeyRows(q) == {i \in Live : row[i].url = q.url /\ row[i].dk = q.dk}
Body(q) == <<q.param, q.value, q.origin, q.ack>>

\* ORDER BY next_attempt_ts, priority, retry_count, created_ts: fresh rows
\* (next_attempt_ts 0) first, among them by priority and age; then the others
\* in the order in which they came due.
Before(i, j) ==
  IF row[i].next = "fresh"
  THEN \/ row[j].next # "fresh"
       \/ row[i].prio < row[j].prio
       \/ row[i].prio = row[j].prio /\ i < j
  ELSE row[j].next = "due" /\ i \in ahead[j]

DueBug(l) == {i \in Live : row[i].next = "fresh" /\ LaneOf(row[i].url) = l}
Due(l) == {i \in Live : row[i].next \in {"fresh", "due"} /\ LaneOf(row[i].url) = l}

-----------------------------------------------------------------------------
Init ==
  /\ row = [i \in Ids |-> NoRow]
  /\ lastId = 0
  /\ ahead = [i \in Ids |-> {}]
  /\ call = [p \in Producers |-> NoCall]
  /\ at = [l \in Lanes |-> LoopTop(l)]
  /\ job = [l \in Lanes |-> 0]
  /\ cooling = [l \in Lanes |-> FALSE]
  /\ fails = 0
  /\ crashes = 0
  /\ dbErrors = 0
  /\ content = [i \in Ids |-> NoRow]
  /\ received = {}
  /\ withdrawn = {}
  /\ clearedTo = [i \in Ids |-> 0]
  /\ view = [u \in Urls |-> [k \in Params |-> 0]]

senderVars == <<at, job, cooling, fails>>
budgets == <<crashes, dbErrors>>
history == <<content, received, withdrawn, clearedTo, view>>

\* DELETE of the rows S.
DeleteRows(S) ==
  /\ row' = [i \in Ids |-> IF i \in S THEN NoRow ELSE row[i]]
  /\ ahead' = [i \in Ids |-> IF i \in S THEN {} ELSE ahead[i] \ S]

\* A deletion that takes unsent messages back.
WithdrawRows(S) ==
  /\ DeleteRows(S)
  /\ withdrawn' = withdrawn \cup S
  /\ UNCHANGED <<content, received, clearedTo, view>>

-----------------------------------------------------------------------------
(* Producers: Outbox.enqueue, one transaction per step.                    *)

EnqueueCall(p) ==
  /\ call[p] = NoCall
  /\ \E q \in Calls[p] :
       call' = [call EXCEPT ![p] =
                  [req |-> q, upTo |-> 0,
                   pc |-> IF q.dk = NoKey THEN "insert"
                          ELSE IF q.replace THEN "replace" ELSE "check"]]
  /\ lastId + Cardinality({r \in Producers : call[r] # NoCall}) < MaxId
  /\ UNCHANGED <<row, lastId, ahead, senderVars, budgets, history>>

EnqueueReplace(p) ==
  /\ call[p] # NoCall
  /\ call[p].pc = "replace"
  /\ WithdrawRows(KeyRows(call[p].req))
  /\ call' = [call EXCEPT ![p].pc = IF call[p].req.drop THEN "check" ELSE "insert",
                          ![p].upTo = lastId]
  /\ UNCHANGED <<lastId, senderVars, budgets>>

\* The newest row of the key carries the same body.
IsDuplicate(q) ==
  \E i \in KeyRows(q) :
    /\ \A j \in KeyRows(q) : j <= i
    /\ Body(row[i]) = Body(q)

EnqueueCheck(p) ==
  /\ call[p] # NoCall
  /\ call[p].pc = "check"
  /\ call' = IF IsDuplicate(call[p].req)
             THEN [call EXCEPT ![p] = NoCall]
             ELSE [call EXCEPT ![p].pc = "insert"]
  /\ UNCHANGED <<row, lastId, ahead, senderVars, budgets, history>>

FreshIdBug == 1 + Cardinality(Live)

\* AUTOINCREMENT: the id is one above every id ever used.
FreshId == lastId + 1

EnqueueInsert(p) ==
  /\ call[p] # NoCall
  /\ call[p].pc = "insert"
  /\ lastId < MaxId
  /\ LET q == call[p].req IN
       /\ row' = [row EXCEPT ![FreshId] =
                    [url |-> q.url, param |-> q.param, value |-> q.value,
                     origin |-> q.origin, ack |-> q.ack, prio |-> q.prio,
                     dk |-> q.dk, next |-> "fresh"]]
       /\ content' = [content EXCEPT ![FreshId] = q]
       /\ clearedTo' = [clearedTo EXCEPT ![FreshId] = call[p].upTo]
  /\ lastId' = FreshId
  /\ call' = [call EXCEPT ![p] = NoCall]
  /\ UNCHANGED <<ahead, senderVars, budgets, received, withdrawn, view>>

\* A statement of the call is refused: enqueue raises into its caller.
EnqueueFails(p) ==
  /\ call[p] # NoCall
  /\ dbErrors < MaxDbErrors
  /\ dbErrors' = dbErrors + 1
  /\ call' = [call EXCEPT ![p] = NoCall]
  /\ UNCHANGED <<row, lastId, ahead, senderVars, crashes, history>>

\* delete_status_updates("<key>"): the callbacks of one parameter, never its
\* acknowledgements.
StatusRows(k) == {i \in Live : row[i].param = k /\ ~row[i].ack}

DeleteStatusUpdates(k) ==
  /\ StatusRows(k) # {}
  /\ WithdrawRows(StatusRows(k))
  /\ UNCHANGED <<lastId, call, senderVars, budgets>>

\* POST /api/outbox/clear.
Clear ==
  /\ Live # {}
  /\ WithdrawRows(Live)
  /\ UNCHANGED <<lastId, call, senderVars, budgets>>

-----------------------------------------------------------------------------
(* Sender lanes.                                                           *)

\* Watchdog.tick: between two checks the last verdict stands; a check counts
\* failures (no health answer and no ping) and a success clears the count.
Tick(check) ==
  /\ at["primary"] = "tick"
  /\ fails' = CASE check = "throttled" -> fails
                [] check = "ok" -> 0
                [] check = "failed" -> IF fails < DownAfter THEN fails + 1 ELSE fails
  /\ at' = IF fails' < DownAfter THEN [at EXCEPT !["primary"] = "claim"] ELSE at
  /\ UNCHANGED <<row, lastId, ahead, call, job, cooling, budgets, history>>

\* claim_next_due: pick the first due row and lease it.
Claim(l) ==
  /\ at[l] = "claim"
  /\ \E i \in Due(l) :
       /\ \A j \in Due(l) \ {i} : Before(i, j)
       /\ row' = [row EXCEPT ![i].next = "wait"]
       /\ ahead' = [j \in Ids |-> IF j = i THEN {} ELSE ahead[j] \ {i}]
       /\ job' = [job EXCEPT ![l] = i]
  /\ at' = [at EXCEPT ![l] = "send"]
  /\ UNCHANGED <<lastId, call, cooling, fails, budgets, history>>

NothingDue(l) ==
  /\ at[l] = "claim"
  /\ Due(l) = {}
  /\ at' = [at EXCEPT ![l] = LoopTop(l)]
  /\ UNCHANGED <<row, lastId, ahead, call, job, cooling, fails, budgets, history>>

NextJobBug(l) == at' = [at EXCEPT ![l] = LoopTop(l)] /\ UNCHANGED job

\* The lane forgets its job and turns to the next one.
NextJob(l) ==
  /\ at' = [at EXCEPT ![l] = LoopTop(l)]
  /\ job' = [job EXCEPT ![l] = 0]

Target(l) == content[job[l]].url

\* Dropped without a request: secondary in cooldown, or not an http url.
InCooldown(l) == Target(l) \in SecondaryUrls /\ cooling[l]
Unsendable(l) ==
  \/ InCooldown(l)
  \/ Target(l) \in InvalidUrls

DropUnsendable(l) ==
  /\ at[l] = "send"
  /\ Unsendable(l)
  /\ DeleteRows({job[l]} \cap Ids)
  /\ NextJob(l)
  /\ UNCHANGED <<lastId, call, cooling, fails, budgets, history>>

\* The request reaches the peer; answered says whether a 2xx came back.
Deliver(l, answered) ==
  /\ at[l] = "send"
  /\ ~Unsendable(l)
  /\ received' = received \cup {job[l]}
  /\ view' = [view EXCEPT ![Target(l)][content[job[l]].param] = job[l]]
  /\ at' = [at EXCEPT ![l] = IF answered THEN "sent" ELSE "failed"]
  /\ UNCHANGED <<row, lastId, ahead, call, job, cooling, fails, budgets, content, withdrawn, clearedTo>>

\* It does not: refused, timed out on the way, lost.
LoseRequest(l) ==
  /\ at[l] = "send"
  /\ ~Unsendable(l)
  /\ at' = [at EXCEPT ![l] = "failed"]
  /\ UNCHANGED <<row, lastId, ahead, call, job, cooling, fails, budgets, history>>

Finish(l) ==
  /\ at[l] = "sent"
  /\ DeleteRows({job[l]} \cap Ids)
  /\ NextJob(l)
  /\ UNCHANGED <<lastId, call, cooling, fails, budgets, history>>

RescheduleBug(i) == DeleteRows({i} \cap Ids)

\* UPDATE ... WHERE id=?: no effect when the row was deleted meanwhile.
Reschedule(i) ==
  /\ row' = IF row[i] = NoRow THEN row ELSE [row EXCEPT ![i].next = "wait"]
  /\ ahead' = [j \in Ids |-> IF j = i THEN {} ELSE ahead[j] \ {i}]

HandleFailure(l) ==
  /\ at[l] = "failed"
  /\ IF Target(l) \in SecondaryUrls
     THEN /\ DeleteRows({job[l]} \cap Ids)
          /\ cooling' = [cooling EXCEPT ![l] = TRUE]
     ELSE /\ Reschedule(job[l])
          /\ UNCHANGED cooling
  /\ NextJob(l)
  /\ UNCHANGED <<lastId, call, fails, budgets, history>>

CooldownEnds(l) ==
  /\ cooling[l]
  /\ cooling' = [cooling EXCEPT ![l] = FALSE]
  /\ UNCHANGED <<row, lastId, ahead, call, at, job, fails, budgets, history>>

\* next_attempt_ts of a leased or rescheduled row passes.
ComesDue(i) ==
  /\ row[i] # NoRow
  /\ row[i].next = "wait"
  /\ row' = [row EXCEPT ![i].next = "due"]
  /\ ahead' = [ahead EXCEPT ![i] = {j \in Live : row[j].next = "due"}]
  /\ UNCHANGED <<lastId, call, senderVars, budgets, history>>

\* SQLite refuses a statement of the lane.  The delete after a 2xx is inside
\* the try block and falls into the failure branch; every other statement is
\* outside, so the exception ends the lane's thread.
LaneDbError(l) ==
  /\ dbErrors < MaxDbErrors
  /\ dbErrors' = dbErrors + 1
  /\ \/ /\ \/ at[l] = "sent"
           \/ at[l] = "send" /\ Target(l) \in InvalidUrls /\ ~InCooldown(l)
        /\ at' = [at EXCEPT ![l] = "failed"]
        /\ UNCHANGED job
     \/ /\ \/ at[l] = "claim"
           \/ at[l] = "send" /\ InCooldown(l)
           \/ at[l] = "failed"
        /\ at' = [at EXCEPT ![l] = "dead"]
        /\ job' = [job EXCEPT ![l] = 0]
  /\ UNCHANGED <<row, lastId, ahead, call, cooling, fails, crashes, history>>

\* The process dies and systemd restarts it: the tables survive, the memory of
\* every thread is lost.
Restart ==
  /\ crashes < MaxCrashes
  /\ crashes' = crashes + 1
  /\ call' = [p \in Producers |-> NoCall]
  /\ at' = [l \in Lanes |-> LoopTop(l)]
  /\ job' = [l \in Lanes |-> 0]
  /\ cooling' = [l \in Lanes |-> FALSE]
  /\ fails' = 0
  /\ UNCHANGED <<row, lastId, ahead, dbErrors, history>>

-----------------------------------------------------------------------------
Enqueue(p) ==
  EnqueueCall(p) \/ EnqueueReplace(p) \/ EnqueueCheck(p) \/ EnqueueInsert(p) \/ EnqueueFails(p)

LaneStep(l) ==
  \/ Claim(l) \/ NothingDue(l) \/ DropUnsendable(l) \/ LoseRequest(l) \/ Finish(l) \/ HandleFailure(l)
  \/ \E answered \in BOOLEAN : Deliver(l, answered)

Next ==
  \/ \E p \in Producers : Enqueue(p)
  \/ \E k \in Params : DeleteStatusUpdates(k)
  \/ Clear
  \/ \E l \in Lanes : LaneStep(l) \/ CooldownEnds(l) \/ LaneDbError(l)
  \/ \E check \in {"throttled", "ok", "failed"} : Tick(check)
  \/ \E i \in Ids : ComesDue(i)
  \/ Restart

Spec == Init /\ [][Next]_vars

(***************************************************************************)
(* Fairness.  Threads are scheduled and time passes (weak).  The peer and  *)
(* its health check may fail any finite number of times in a row but not   *)
(* for ever (strong): an assumption about the network, not about the code. *)
(***************************************************************************)
Fairness ==
  /\ \A p \in Producers :
       WF_vars(EnqueueReplace(p) \/ EnqueueCheck(p) \/ EnqueueInsert(p))
  /\ \A l \in Lanes : WF_vars(LaneStep(l)) /\ SF_vars(Deliver(l, TRUE))
  /\ SF_vars(Tick("ok"))
  /\ \A i \in Ids : WF_vars(ComesDue(i))

FairSpec == Spec /\ Fairness

\* Only the aux lane is scheduled fairly: the primary one may hang for ever in
\* a request its peer never answers.
PrimaryHangs ==
  /\ Spec
  /\ WF_vars(LaneStep("aux")) /\ SF_vars(Deliver("aux", TRUE))
  /\ \A i \in Ids : WF_vars(ComesDue(i))

-----------------------------------------------------------------------------
\* Every variable has its type, and a lane holds a job exactly while it works.
TypeOK ==
  /\ row \in [Ids -> RowSet \cup {NoRow}]
  /\ lastId \in 0 .. MaxId
  /\ ahead \in [Ids -> SUBSET Ids]
  /\ call \in [Producers ->
        [req : Requests, upTo : {0} \cup Ids, pc : {"replace", "check", "insert"}] \cup {NoCall}]
  /\ at \in [Lanes -> {"tick", "claim", "send", "sent", "failed", "dead"}]
  /\ job \in [Lanes -> {0} \cup Ids]
  /\ \A l \in Lanes : job[l] # 0 <=> at[l] \in {"send", "sent", "failed"}
  /\ cooling \in [Lanes -> BOOLEAN]
  /\ fails \in 0 .. DownAfter
  /\ crashes \in 0 .. MaxCrashes
  /\ dbErrors \in 0 .. MaxDbErrors
  /\ content \in [Ids -> Requests \cup {NoRow}]
  /\ received \subseteq Ids
  /\ withdrawn \subseteq Ids
  /\ clearedTo \in [Ids -> {0} \cup Ids]
  /\ view \in [Urls -> [Params -> {0} \cup Ids]]

\* A lane's copy of a job stays meaningful while others rewrite the table: the
\* id it will delete or reschedule still names the message it copied (ids are
\* never used twice), that message belongs to this lane, and if its row is
\* gone somebody withdrew it; what counts as sent has arrived.
JobsStayValid ==
  /\ \A i \in Ids : i > lastId => content[i] = NoRow
  /\ \A i \in Ids : row[i] # NoRow => content[i] # NoRow /\ row[i].url = content[i].url
  /\ \A i \in received \cup withdrawn : content[i] # NoRow
  /\ \A l \in Lanes : job[l] # 0 =>
       /\ content[job[l]] # NoRow
       /\ LaneOf(Target(l)) = l
       /\ row[job[l]] # NoRow \/ job[l] \in withdrawn
  /\ \A l \in Lanes : at[l] = "sent" => job[l] \in received

PrimaryIds == {i \in Ids : content[i] # NoRow /\ content[i].url \in PrimaryUrls}

(***************************************************************************)
(* At-least-once delivery to the primary peer: through lost and ambiguous  *)
(* requests, lease expiry, restarts and refused statements, a row leaves   *)
(* the table only after a delivery or because the bridge withdrew it       *)
(* (sender_loop deletes after a 2xx and reschedules otherwise).            *)
(***************************************************************************)
PrimaryMail == INSTANCE Mailbox WITH
  queued <- Live \cap PrimaryIds,
  received <- received \cap PrimaryIds,
  withdrawn <- withdrawn \cap PrimaryIds

AtLeastOnce == PrimaryMail!MailSpec

\* Message j replaces whatever waits under its key, and i is under that key.
Supersedes(j, i) ==
  /\ content[j].replace /\ content[j].dk # NoKey
  /\ content[i].dk = content[j].dk
  /\ content[i].url = content[j].url
  /\ content[i].param = content[j].param

\* Any number of threads report a state under its key (MAS0001: the refresh,
\* the ESP listener and the button pages, without a common lock), also beside
\* messages of the parameter without a key (MAS0001=12).  Whatever is retried
\* or repeated, the peer sees an older one after a newer one of the key only if
\* the two calls of enqueue crossed: the older was inserted between the DELETE
\* and the INSERT of the newer, for else the DELETE took it along.
RegressionOnlyByCrossing ==
  [][\A u \in Urls, k \in Params :
       LET seen == view[u][k]
           now == view'[u][k]
       IN  now < seen /\ Supersedes(seen, now) => now > clearedTo[seen]]_view

\* However the threads interleave, a replace key holds at most one pending row
\* per thread (DELETE and INSERT of enqueue are separate transactions, so one
\* row in all is not guaranteed).
ReplaceKeyBounded ==
  \A q \in Requests : q.replace /\ q.dk # NoKey
    /\ (\A r \in Requests : r.dk = q.dk => r.replace)
    => Cardinality({i \in Live : row[i].url = q.url /\ row[i].dk = q.dk})
         <= Cardinality(Producers)

\* A row for the primary peer is eventually delivered or withdrawn: a failed
\* request, an expired lease or a restart only delays it, unless a refused
\* statement has ended the lane's thread (RetriedUntilAnswered is about that).
PrimaryDrains ==
  \A i \in Ids : (i \in Live \cap PrimaryIds) ~> (i \notin Live \/ at["primary"] = "dead")

\* docs/Microtom_Interface.md: "Outbox: ausgehende Requests mit Retry/Backoff
\* bis erfolgreichem 2xx".  A row for the primary peer reaches it, or is
\* withdrawn, also when SQLite refuses a statement now and then.
RetriedUntilAnswered ==
  \A i \in Ids : (i \in Live \cap PrimaryIds) ~> (i \in received \cup withdrawn)

\* The other targets are served even if the primary peer never answers
\* (the reason for having two lanes).
AuxDrains == \A i \in Ids : (i \in Live \ PrimaryIds) ~> (i \notin Live)
=============================================================================
