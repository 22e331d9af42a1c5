------------------------------- MODULE Purge --------------------------------
(***************************************************************************)
(* The life cycle of MAS0028 (purge): who may set it, who may end it, and  *)
(* what the peer (Microtom) hears of it.                                   *)
(*                                                                         *)
(* Three threads share the parameter MAS0028 and the one row of table      *)
(* machine_state, which every writer rewrites as a whole:                  *)
(*   - the machine-runtime thread, one refresh after the other             *)
(*     (machine_runtime.py MachineRuntime._refresh_unlocked, under         *)
(*     _MACHINE_REFRESH_LOCK), which also performs the safety reset;       *)
(*   - the router thread, which executes Microtom's writes of MAS0028      *)
(*     (router.py handle_microtom_line);                                   *)
(*   - the button LED thread, which writes a copy of the row back.         *)
(* The sender and the value dedupe store carry MAS0028=1 to Microtom.      *)
(* No lock is common to the three, so each read and each write of shared   *)
(* data is a step.                                                         *)
(***************************************************************************)
EXTENDS Naturals, FiniteSets

CONSTANTS
  NoMessage,    \* the sender holds no message
  StartStates,  \* states the row may start in
  Operator,     \* TRUE: commands other than stop occur
  Lossy,        \* TRUE: a send may fail and is repeated later
  MaxCommands,  \* bound: writes of MAS0028 by Microtom
  MaxInputs,    \* bound: changes of the plant's inputs
  MaxStops,     \* bound: MAS0002=2 (stop/reset) commands
  MaxLedTicks,  \* bound: LED ticks that rewrite the row
  MaxCrashes    \* bound: restarts of the process

ASSUME PurgeAssumption ==
  /\ Lossy \in BOOLEAN /\ Operator \in BOOLEAN
  /\ StartStates \subseteq {"production", "pause", "stop"}
  /\ MaxCommands \in Nat /\ MaxInputs \in Nat /\ MaxStops \in Nat
  /\ MaxLedTicks \in Nat /\ MaxCrashes \in Nat

VARIABLES
  row,         \* machine_state, singleton row
  purge28,     \* parameter MAS0028
  mae,         \* a resettable fault parameter MAE0xxx
  estop, light,     \* live inputs: e-stop pressed, light curtain interrupted
  stopCmd, stopNo,  \* MAS0002=2 stands; its number (the parameter's updated_ts)
  remembered,  \* value_dedupe_state holds "1" for (microtom, MAS0028)
  pending,     \* outbox rows that concern MAS0028
  inflight,    \* the sender's copy of the row it is sending
  heard,       \* what Microtom heard: MAS0028=1 after its last ACK, that ACK's number
  clock,       \* number of the last MAS0028 command (now_ts() of its marker)
  ref,         \* the refresh in progress
  rt,          \* the router's command in progress
  led,         \* the LED tick in progress
  used,        \* spent budgets
  hist         \* history, read by properties only

shared == <<row, purge28, mae, estop, light, stopCmd, stopNo, remembered>>
callbacks == <<pending, inflight, heard>>
vars == <<shared, callbacks, clock, ref, rt, led, used, hist>>

-----------------------------------------------------------------------------
Reasons == {"notaus", "lichtgitter"}

\* current_state, its numbers by name: 5, 7, 9, 8 requested 9, 8 requested 8, 21.
States == {"production", "pause", "stop", "stopping", "resetting", "purge"}
Phases == {"idle", "ready", "latched", "resetting", "failed"}
Markers == {"none", "active", "clear"}

\* info.safety: the latch, the reasons it was taken for, the result of the last
\* reset (ok, initial_reasons) and mas0002_reset_seen_ts.
Safety ==
  [latched : BOOLEAN, phase : Phases, last : SUBSET Reasons,
   rok : BOOLEAN, rinit : SUBSET Reasons, seen : 0 .. MaxStops]
QuietSafety ==
  [latched |-> FALSE, phase |-> "idle", last |-> {}, rok |-> FALSE, rinit |-> {}, seen |-> 0]

\* info.purge: external_active_ts or external_clear_ts, with its time.
Rows == [st : States, purge : BOOLEAN, saf : Safety, mk : Markers, mts : 0 .. MaxCommands]
QuietRow == [st |-> "stop", purge |-> FALSE, saf |-> QuietSafety, mk |-> "none", mts |-> 0]

\* What a refresh read of inputs and parameters.
Views == [reasons : SUBSET Reasons, p28 : BOOLEAN, mae : BOOLEAN,
          cmd : BOOLEAN, no : 0 .. MaxStops]
QuietView == [reasons |-> {}, p28 |-> FALSE, mae |-> FALSE, cmd |-> FALSE, no |-> 0]

\* A refresh: where it stands, the snapshot it works on, its view, what it decided.
Idle == [pc |-> "idle", snap |-> QuietRow, view |-> QuietView, forced |-> "none",
         ok |-> FALSE, blocked |-> FALSE, keep |-> FALSE, out |-> QuietRow, then |-> "settle"]
RouterIdle == [pc |-> "idle", val |-> FALSE, copy |-> QuietRow]
LedIdle == [pc |-> "idle", copy |-> QuietRow]
Messages == [kind : {"purge", "ack"}, val : BOOLEAN, gen : 0 .. MaxCommands]

Init ==
  /\ row \in {[QuietRow EXCEPT !.st = s] : s \in StartStates}
  /\ purge28 = FALSE
  /\ mae = FALSE
  /\ estop = FALSE
  /\ light = FALSE
  /\ stopCmd = FALSE
  /\ stopNo = 0
  /\ remembered = FALSE
  /\ pending = {}
  /\ inflight = NoMessage
  /\ heard = [purge |-> FALSE, ack |-> 0]
  /\ clock = 0
  /\ ref = Idle
  /\ rt = RouterIdle
  /\ led = LedIdle
  /\ used = [inputs |-> 0, leds |-> 0, crashes |-> 0]
  /\ hist = [owed |-> FALSE, external |-> FALSE, overlap |-> FALSE, raced |-> FALSE, raised |-> FALSE,
             mark |-> 0]

-----------------------------------------------------------------------------
(* Helpers of machine_runtime.py                                           *)

ExternalPurge(r) == r.mk = "active"

\* _critical_state for the modelled causes.
Critical(v) == "notaus" \in v.reasons \/ v.mae

\* Definitions whose name ends in Bug are seeded faults (see module Outbox).
MergeMarkerBug(base, latest) == base
\* _merge_newer_purge_info: the rest of the row comes from the writer.
MergeMarker(base, latest) ==
  IF latest.mts > base.mts THEN [base EXCEPT !.mk = latest.mk, !.mts = latest.mts] ELSE base

\* _pause_light_curtain_safety_drop: in pause an open light curtain also drops
\* the e-stop circuit.
MaskEstopBug(r) == r.st = "pause" /\ estop
MaskEstop(r) ==
  /\ r.st = "pause" /\ ~r.purge /\ ~r.saf.latched
  /\ r.saf.phase \notin {"latched", "resetting", "failed"}
  /\ estop /\ light

\* _safety_status
LiveReasons ==
  (IF estop THEN {"notaus"} ELSE {}) \cup (IF light THEN {"lichtgitter"} ELSE {})

StaleLightLatch(r, v) ==
  /\ ~ExternalPurge(r) /\ ~Critical(v)
  /\ v.reasons \subseteq {"lichtgitter"}
  /\ r.saf.last = {"lichtgitter"} \/ r.saf.rinit = {"lichtgitter"}
  /\ r.saf.latched \/ v.p28

StaleEstopLatch(r, v) ==
  /\ ~ExternalPurge(r) /\ ~v.p28 /\ v.reasons = {} /\ ~Critical(v)
  /\ r.saf.rok
  /\ (IF r.saf.last # {} THEN r.saf.last ELSE r.saf.rinit) \subseteq {"notaus"}
  /\ r.saf.latched

\* command_to_target_state and settle_machine_state on the modelled states; the
\* operator's other commands are a free choice among the moves state_actions
\* allows (the transitions 4 and 6 are folded into their final states).
OperatorMoves(s, v) ==
  {s} \cup
  (IF ~Operator THEN {}
   ELSE IF s = "production" THEN {"pause"}
   ELSE IF "lichtgitter" \in v.reasons THEN {}
   ELSE IF s = "pause" THEN {"production"}
   ELSE IF s = "stop" THEN {"pause"} ELSE {})

SettledStates(s, v) ==
  IF "notaus" \in v.reasons \/ v.p28 \/ Critical(v) THEN {"purge"}
  ELSE IF "lichtgitter" \in v.reasons /\ s = "production" THEN {"pause"}
  ELSE IF v.cmd THEN {IF s \in {"stop", "stopping", "resetting"} THEN "stop" ELSE "stopping"}
  ELSE IF s = "stopping" THEN {"stop"}
  ELSE OperatorMoves(s, v)

-----------------------------------------------------------------------------
(* The plant and the operator                                              *)

InputChange ==
  /\ used.inputs < MaxInputs
  /\ used' = [used EXCEPT !.inputs = @ + 1]
  /\ \/ estop' = ~estop /\ UNCHANGED <<light, mae>>
     \/ light' = ~light /\ UNCHANGED <<estop, mae>>
     \/ ~estop /\ ~light /\ estop' = TRUE /\ light' = TRUE /\ UNCHANGED mae
     \/ mae' = ~mae /\ UNCHANGED <<estop, light>>
  /\ UNCHANGED <<row, purge28, stopCmd, stopNo, remembered, callbacks, clock, ref, rt, led, hist>>

\* MAS0002=2 by Microtom, a button or the UI.
StopCommand ==
  /\ stopNo < MaxStops
  /\ stopNo' = stopNo + 1
  /\ stopCmd' = TRUE
  /\ UNCHANGED <<row, purge28, mae, estop, light, remembered, callbacks, clock, ref, rt, led, used, hist>>

-----------------------------------------------------------------------------
(* The refresh                                                             *)

RefreshAt(pc) == ref.pc = pc
Goto(pc) == ref' = [ref EXCEPT !.pc = pc]
plant == <<mae, estop, light, stopNo>>
others == <<clock, rt, led, used>>

ReadRow ==
  /\ RefreshAt("idle")
  /\ ref' = [Idle EXCEPT !.pc = "inputs", !.snap = row]
  /\ UNCHANGED <<shared, callbacks, others, hist>>

ReadInputs ==
  /\ RefreshAt("inputs")
  /\ LET reasons == IF MaskEstop(ref.snap) THEN {"lichtgitter"} ELSE LiveReasons
     IN ref' = [ref EXCEPT !.pc = "release", !.view =
                  [reasons |-> reasons, p28 |-> purge28, mae |-> mae,
                   cmd |-> stopCmd, no |-> stopNo]]
  /\ UNCHANGED <<shared, callbacks, others, hist>>

\* Within PURGE_EXTERNAL_CLEAR_GRACE_S of Microtom's MAS0028=0 a resettable fault
\* without a live input behind it is dropped.  The age of the marker is free.
ReleaseFaults ==
  /\ RefreshAt("release")
  /\ \/ /\ row.mk = "clear" /\ ~ref.view.p28 /\ ref.view.mae
        /\ "notaus" \notin ref.view.reasons
        /\ mae' = FALSE
        /\ ref' = [ref EXCEPT !.pc = "latch", !.view.p28 = purge28, !.view.mae = FALSE,
                              !.view.cmd = stopCmd, !.view.no = stopNo]
     \/ Goto("latch") /\ UNCHANGED mae
  /\ UNCHANGED <<row, purge28, estop, light, stopCmd, stopNo, remembered, callbacks, others, hist>>

\* The two stale-latch rules, the decision for a reset, and the latch.
Latch ==
  /\ RefreshAt("latch")
  /\ LET snap == ref.snap
         staleLight == StaleLightLatch(snap, ref.view)
         stale == staleLight \/ StaleEstopLatch(snap, ref.view)
         view == [ref.view EXCEPT !.p28 = @ /\ ~staleLight]
         saf == IF stale
                THEN [snap.saf EXCEPT !.latched = FALSE, !.phase = "ready", !.last = {}]
                ELSE snap.saf
         latched == saf.latched \/ "notaus" \in view.reasons
         needed == latched \/ Critical(view) \/ view.p28 \/ snap.st = "purge"
         consumed == view.cmd /\ ~needed /\ snap.st = "stop"
         rising == view.cmd /\ view.no > snap.saf.seen
         seen == IF consumed \/ ~view.cmd THEN 0 ELSE IF latched THEN snap.saf.seen ELSE view.no
         kept == saf.phase = "ready" \/ (saf.phase = "failed" /\ snap.st = "purge")
     IN /\ purge28' = (purge28 /\ ~staleLight)
        /\ stopCmd' = (stopCmd /\ ~consumed)
        /\ ref' =
             [ref EXCEPT
               !.view = [view EXCEPT !.cmd = @ /\ ~consumed],
               !.pc = IF needed /\ rising THEN "reset" ELSE "report",
               !.snap.saf = IF needed /\ rising THEN saf
                       ELSE IF latched
                       THEN [saf EXCEPT !.latched = TRUE, !.phase = "latched", !.seen = seen,
                              !.last = IF view.reasons # {} THEN view.reasons ELSE saf.last]
                       ELSE [(IF kept THEN saf ELSE QuietSafety) EXCEPT !.seen = seen],
               !.forced = IF latched THEN "purge"
                          ELSE IF stale /\ snap.st = "purge" THEN "stop" ELSE "none"]
  /\ UNCHANGED <<row, mae, estop, light, stopNo, remembered, callbacks, others, hist>>

-----------------------------------------------------------------------------
(* _perform_safety_reset, inside the refresh                               *)

ResetFails(blocked) ==
  ref' = [ref EXCEPT !.pc = "finish", !.ok = FALSE, !.blocked = blocked]

\* Either the laser interlock refuses, or the row is rewritten from a fresh read.
BeginReset ==
  /\ RefreshAt("reset")
  /\ \/ ResetFails(FALSE)
     \/ ref' = [ref EXCEPT !.pc = "resetstore", !.out =
          [row EXCEPT !.st = "resetting", !.purge = TRUE,
             !.saf = [row.saf EXCEPT !.latched = TRUE, !.phase = "resetting",
                        !.last = ref.view.reasons, !.rok = FALSE, !.rinit = {}]]]
  /\ UNCHANGED <<shared, callbacks, others, hist>>

ResetStore ==
  /\ RefreshAt("resetstore")
  /\ row' = ref.out
  /\ Goto("pulse")
  /\ UNCHANGED <<purge28, plant, stopCmd, remembered, callbacks, others, hist>>

\* The pulse on Q0.2 and the wait for the safety inputs; any step may fail.
PulseReset ==
  /\ RefreshAt("pulse")
  /\ \/ ResetFails(FALSE)
     \/ estop /\ ResetFails(TRUE)
     \/ ~estop /\ Goto("marker")
  /\ UNCHANGED <<shared, callbacks, others, hist>>

KeepPurgeBug(r) == FALSE
\* _clear_resettable_safety_errors: a purge Microtom started is skipped.
KeepPurge(r) == ExternalPurge(r)

ReadMarker ==
  /\ RefreshAt("marker")
  /\ ref' = [ref EXCEPT !.pc = "clear", !.keep = KeepPurge(row)]
  /\ UNCHANGED <<shared, callbacks, others, hist>>

ResetClear ==
  /\ RefreshAt("clear")
  /\ mae' = FALSE
  /\ purge28' = (purge28 /\ ref.keep)
  /\ ref' = [ref EXCEPT !.pc = "finish", !.ok = TRUE]
  /\ hist' = [hist EXCEPT !.owed = FALSE]
  /\ UNCHANGED <<row, estop, light, stopCmd, stopNo, remembered, callbacks, others>>

\* MAS0002:=0, then inputs and parameters are read again, this time unmasked.
FinishReset ==
  /\ RefreshAt("finish")
  /\ stopCmd' = FALSE
  /\ LET view == [reasons |-> LiveReasons, p28 |-> purge28, mae |-> mae,
                  cmd |-> FALSE, no |-> stopNo]
         held == Critical(view) \/ view.p28
         blocked == ref.blocked \/ "notaus" \in view.reasons
         ready == ref.ok /\ ~held
     IN ref' = [ref EXCEPT
          !.pc = "report", !.view = view, !.forced = IF ready THEN "stop" ELSE "purge",
          !.snap.saf = [latched |-> held \/ (~ref.ok /\ blocked),
                   phase |-> IF ready THEN "ready"
                             ELSE IF ref.ok \/ blocked THEN "latched" ELSE "failed",
                   last |-> view.reasons, rok |-> ref.ok, rinit |-> ref.view.reasons,
                   seen |-> ref.view.no]]
  /\ UNCHANGED <<row, purge28, plant, remembered, callbacks, others, hist>>

-----------------------------------------------------------------------------
(* MAS0028:=1 for a critical cause, the callback, the new state            *)

SetPurge ==
  /\ RefreshAt("report")
  /\ IF Critical(ref.view) /\ ~ref.view.p28
     THEN /\ purge28' = TRUE
          /\ Goto("ask")
          /\ hist' = [hist EXCEPT !.owed = @ \/ ("notaus" \in ref.view.reasons),
                                  !.raised = RouterIdle = rt]
     ELSE Goto("settle") /\ UNCHANGED <<purge28, hist>>
  /\ UNCHANGED <<row, plant, stopCmd, remembered, callbacks, others>>

\* _notify_microtom: should_send remembers the value before the message exists.
AskDedupe ==
  /\ RefreshAt("ask")
  /\ Goto(IF remembered THEN ref.then ELSE "enqueue")
  /\ remembered' = TRUE
  /\ UNCHANGED <<row, purge28, plant, stopCmd, callbacks, others, hist>>

\* Outbox.enqueue, dedupe key state:MAS0028:active, not replacing.
EnqueuePurge ==
  /\ RefreshAt("enqueue")
  /\ pending' = IF \E m \in pending : m.kind = "purge" THEN pending
                ELSE pending \cup {[kind |-> "purge", val |-> TRUE, gen |-> clock]}
  /\ Goto(ref.then)
  /\ UNCHANGED <<shared, inflight, heard, others, hist>>

NewRow(s, p) ==
  [ref.snap EXCEPT !.st = s, !.purge = p]

\* Leaving production stops the drives; when that cannot be confirmed the machine
\* goes to purge instead.
Settle ==
  /\ RefreshAt("settle")
  /\ LET view == ref.view
         purge == Critical(view) \/ view.p28
     IN \E s \in IF ref.forced # "none" THEN {ref.forced} ELSE SettledStates(ref.snap.st, view) :
          \/ /\ ref' = [Idle EXCEPT !.pc = "merge", !.out = NewRow(s, purge)]
             /\ UNCHANGED purge28
          \/ /\ ref.snap.st = "production" /\ s # "production"
             /\ purge28' = TRUE
             /\ ref' = [Idle EXCEPT !.pc = "ask", !.then = "merge", !.out = NewRow("purge", TRUE)]
  /\ UNCHANGED <<row, plant, stopCmd, remembered, callbacks, others, hist>>

\* _write_state reads the latest row, and may skip an unchanged write ...
MergeRow ==
  /\ RefreshAt("merge")
  /\ LET out == MergeMarker(ref.out, row)
     IN \/ out = row /\ ref' = Idle
        \/ ref' = [ref EXCEPT !.pc = "store", !.out = out]
  /\ UNCHANGED <<shared, callbacks, others, hist>>

\* ... and then writes all of it.
StoreRow ==
  /\ RefreshAt("store")
  /\ row' = ref.out
  /\ ref' = Idle
  /\ UNCHANGED <<purge28, plant, stopCmd, remembered, callbacks, others, hist>>

RefreshStep ==
  \/ ReadRow \/ ReadInputs \/ ReleaseFaults \/ Latch
  \/ BeginReset \/ ResetStore \/ PulseReset \/ ReadMarker \/ ResetClear \/ FinishReset
  \/ SetPurge \/ AskDedupe \/ EnqueuePurge \/ Settle \/ MergeRow \/ StoreRow

-----------------------------------------------------------------------------
(* The router: Microtom's MAS0028=0/1 (handle_microtom_line)               *)

\* TRUE: the marker goes first, then device_bridge.execute; FALSE: after it.
RouterOrder == [v \in BOOLEAN |->
  IF v THEN <<"read", "param", "write", "delete", "exec", "ack">>
       ELSE <<"exec", "read", "param", "write", "delete", "ack">>]
RouterNext(r) ==
  LET order == RouterOrder[r.val]
  IN IF r.pc = "ack" THEN RouterIdle
     ELSE [r EXCEPT !.pc = order[1 + CHOOSE i \in 1 .. 5 : order[i] = r.pc]]
RouterAt(pc) == rt.pc = pc

PurgeCommand ==
  /\ RouterAt("idle")
  /\ clock < MaxCommands
  /\ clock' = clock + 1
  /\ \E v \in BOOLEAN : rt' = [rt EXCEPT !.pc = RouterOrder[v][1], !.val = v]
  /\ hist' = [hist EXCEPT !.raised = FALSE]
  /\ UNCHANGED <<shared, callbacks, ref, led, used>>

\* mark_external_purge_start and mark_external_purge_clear: read the row, ...
RouterReadRow ==
  /\ RouterAt("read")
  /\ rt' = [RouterNext(rt) EXCEPT !.copy = row]
  /\ UNCHANGED <<shared, callbacks, clock, ref, led, used, hist>>

\* ... write the parameter, ...
RouterParam ==
  /\ RouterAt("param")
  /\ purge28' = rt.val
  /\ rt' = RouterNext(rt)
  /\ UNCHANGED <<row, plant, stopCmd, remembered, callbacks, clock, ref, led, used, hist>>

\* The row with Microtom's marker; a clear also releases the latch.
Marked(r, v) ==
  LET released == ~v /\ (r.saf.latched \/ r.saf.phase \in {"latched", "failed"})
  IN [r EXCEPT !.purge = v, !.mk = IF v THEN "active" ELSE "clear", !.mts = clock,
        !.saf = IF released THEN [@ EXCEPT !.latched = FALSE, !.phase = "ready"] ELSE @]

\* ... and write all of the copied row.
RouterWriteRow ==
  /\ RouterAt("write")
  /\ row' = Marked(rt.copy, rt.val)
  /\ rt' = [RouterNext(rt) EXCEPT !.copy = QuietRow]
  /\ LET gap == ref.pc \in {"store", "resetstore"} \/ led.pc = "store"
     IN hist' = [hist EXCEPT !.mark = clock, !.raced = @ \/ gap, !.external = @ /\ ~hist.overlap,
                             !.overlap = gap \/ ref.pc # "idle"]
  /\ UNCHANGED <<purge28, plant, stopCmd, remembered, callbacks, clock, ref, led, used>>

DroppedByDeleteBug == {}
\* Outbox.delete_status_updates: messages that start with MAS0028=, not the ACKs.
DroppedByDelete == {m \in pending : m.kind = "purge"}

RouterDelete ==
  /\ RouterAt("delete")
  /\ pending' = pending \ DroppedByDelete
  /\ rt' = RouterNext(rt)
  /\ UNCHANGED <<shared, inflight, heard, clock, ref, led, used, hist>>

\* device_bridge.execute: ParamStore.set_value.
RouterExecute ==
  /\ RouterAt("exec")
  /\ purge28' = rt.val
  /\ rt' = RouterNext(rt)
  /\ hist' = [hist EXCEPT !.external = rt.val, !.owed = @ /\ rt.val]
  /\ UNCHANGED <<row, plant, stopCmd, remembered, callbacks, clock, ref, led, used>>

RouterAck ==
  /\ RouterAt("ack")
  /\ pending' = pending \cup {[kind |-> "ack", val |-> rt.val, gen |-> clock]}
  /\ rt' = RouterNext(rt)
  /\ UNCHANGED <<shared, inflight, heard, clock, ref, led, used, hist>>

RouterStep ==
  \/ RouterReadRow \/ RouterParam \/ RouterWriteRow \/ RouterDelete \/ RouterExecute \/ RouterAck

-----------------------------------------------------------------------------
(* The LED tick that writes the row back (refresh_button_led_outputs)      *)

LedCopy ==
  /\ led.pc = "idle"
  /\ used.leds < MaxLedTicks
  /\ used' = [used EXCEPT !.leds = @ + 1]
  /\ led' = [pc |-> "merge", copy |-> row]
  /\ UNCHANGED <<shared, callbacks, clock, ref, rt, hist>>

LedMerge ==
  /\ led.pc = "merge"
  /\ led' = [pc |-> "store", copy |-> MergeMarker(led.copy, row)]
  /\ UNCHANGED <<shared, callbacks, clock, ref, rt, used, hist>>

LedStore ==
  /\ led.pc = "store"
  /\ row' = led.copy
  /\ led' = LedIdle
  /\ UNCHANGED <<purge28, plant, stopCmd, remembered, callbacks, clock, ref, rt, used, hist>>

LedStep == LedMerge \/ LedStore

-----------------------------------------------------------------------------
(* The sender's primary lane, as far as MAS0028 goes (see module Outbox)   *)

\* A fresh ACK (priority 10) goes before a fresh callback (priority 20); once
\* sends fail, the order of the retries is free.
SenderTake ==
  /\ inflight = NoMessage
  /\ \E m \in pending :
       /\ Lossy \/ \A n \in pending : n.kind = "ack" => (m.kind = "ack" /\ m.gen <= n.gen)
       /\ inflight' = m
  /\ UNCHANGED <<shared, pending, heard, clock, ref, rt, led, used, hist>>

SenderDeliver ==
  /\ inflight # NoMessage
  /\ heard' = [purge |-> inflight.val,
               ack |-> IF inflight.kind = "ack" /\ inflight.gen > heard.ack
                       THEN inflight.gen ELSE heard.ack]
  /\ \/ pending' = pending \ {inflight}
     \/ Lossy /\ pending' = pending    \* the answer is lost: the row is sent again
  /\ inflight' = NoMessage
  /\ UNCHANGED <<shared, clock, ref, rt, led, used, hist>>

SenderFail ==
  /\ Lossy
  /\ inflight # NoMessage
  /\ inflight' = NoMessage
  /\ UNCHANGED <<shared, pending, heard, clock, ref, rt, led, used, hist>>

\* The process stops and starts again: the tables stay, the threads begin anew.
Restart ==
  /\ used.crashes < MaxCrashes
  /\ used' = [used EXCEPT !.crashes = @ + 1]
  /\ ref' = Idle
  /\ rt' = RouterIdle
  /\ led' = LedIdle
  /\ inflight' = NoMessage
  /\ UNCHANGED <<shared, pending, heard, clock, hist>>

Next ==
  \/ InputChange \/ StopCommand \/ PurgeCommand
  \/ RefreshStep \/ RouterStep \/ LedCopy \/ LedStep
  \/ SenderTake \/ SenderDeliver \/ SenderFail \/ Restart

Spec == Init /\ [][Next]_vars

\* Each thread goes on with what it has begun; the refresh loop never ends.
FairSpec ==
  /\ Spec
  /\ WF_vars(RefreshStep) /\ WF_vars(RouterStep) /\ WF_vars(LedStep)

-----------------------------------------------------------------------------
(* Properties                                                              *)

\* Types; a row, and every copy of it in a refresh, a reset or a LED tick, carries a
\* marker no younger than the last command.
TypeOK ==
  /\ row \in Rows
  /\ purge28 \in BOOLEAN /\ mae \in BOOLEAN /\ estop \in BOOLEAN /\ light \in BOOLEAN
  /\ stopCmd \in BOOLEAN /\ stopNo \in 0 .. MaxStops /\ remembered \in BOOLEAN
  /\ pending \subseteq Messages /\ inflight \in Messages \cup {NoMessage}
  /\ heard \in [purge : BOOLEAN, ack : 0 .. MaxCommands]
  /\ clock \in 0 .. MaxCommands
  /\ ref.snap \in Rows /\ ref.out \in Rows /\ ref.view \in Views
  /\ rt.copy \in Rows /\ led.copy \in Rows

\* Microtom never hears a MAS0028=1 that was queued before the command it last got
\* an ACK for: the old callback is taken out of the outbox before the ACK is queued,
\* and the one lane has delivered its copy before it takes the ACK
\* (router.py:274-276, 283-291; outbox.py delete_status_updates).
NoStaleAfterAck ==
  inflight # NoMessage /\ inflight.kind = "purge" => inflight.gen >= heard.ack

\* The marker of Microtom's last command is in the row, whoever rewrote the row
\* from an older copy since: _write_state merges it, except when the command
\* landed between its read and its write (machine_runtime.py:4307-4309).
MarkerKept == ~hist.raced => row.mts = hist.mark

\* A purge Microtom started stays until Microtom ends it, resets and stale-latch
\* rules notwithstanding, unless a refresh was running when the marker was set
\* (machine_runtime.py:10838, 10864, 11717).
ExternalPurgeHeld == hist.external /\ ~hist.overlap => purge28

\* An e-stop that stays pressed with the light curtain free ends in purge, in the
\* parameter and in the row, against every stale write-back and every command
\* (machine_runtime.py:1558-1561, 11206-11270).
HardFaultWins ==
  <>[](estop /\ ~light) => <>[](purge28 /\ row.st \in {"purge", "resetting"})

-----------------------------------------------------------------------------
(* What comments, tests and documents say, and the code does not do        *)

\* "Do not auto-clear MAS0028 merely because the local safety inputs are quiet;
\* stale local latches are cleared by the explicit reset path instead."
\* (machine_runtime.py:841-843): an e-stop's MAS0028=1 ends by reset or by Microtom.
EStopNeedsReset == hist.owed => purge28

\* "real machine-runtime critical causes may still reassert MAS0028=1"
\* (docs/PROJECT_CONTEXT.md:174): once the runtime has set MAS0028=1 after Microtom's last
\* command, and nothing is under way, Microtom has heard of it.
FaultReachesMicrotom ==
  /\ hist.raised /\ purge28 /\ RefreshAt("idle") /\ RouterAt("idle")
  /\ pending = {} /\ inflight = NoMessage
  => heard.purge

\* What holds of MAS0028 and its markers in every state.
PurgeInv == TypeOK /\ ExternalPurgeHeld
=============================================================================
