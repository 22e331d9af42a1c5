------------------------------ MODULE Outputs ------------------------------
(***************************************************************************)
(* One writable output of a field device (a lamp of the status column on a *)
(* MOXA module), its row in io_values, and the three threads that touch    *)
(* both: the machine loop that shows the state on the lamp                 *)
(* (MachineRuntime._apply_status_lamp), the commissioning page that forces *)
(* a level, releases it or fires a shot (IoRuntime.override_output and     *)
(* pulse_output), and the poll of service.io_runtime_loop.                 *)
(*                                                                         *)
(* The row is read, the device is driven and the row is written in         *)
(* separate steps by each of them, and nothing but the call to the device  *)
(* is under a lock.  A column of io_values that holds a forced level is    *)
(* looked at again inside the transaction that stores a value.             *)
(***************************************************************************)
EXTENDS Naturals

CONSTANTS
  MaxIoEvents,   \* bound on the changes of the wanted level, the outages of the
                 \* device, the calls of the page and the polls, taken together
  VerifyTries,   \* reads that must fail before a forced level is given up
  OfflineAfter   \* failures in a row before a poll calls the device offline

ASSUME OutputsAssumption ==
  /\ MaxIoEvents \in Nat
  /\ VerifyTries \in Nat \ {0} /\ OfflineAfter \in Nat \ {0}

VARIABLES
  ioReal,      \* the level at the terminal of the device
  ioUp,        \* the device answers
  ioCool,      \* the endpoint is in its cooldown after an error
  ioRow,       \* the row of io_values
  ioFails,     \* _DEVICE_OFFLINE_FAILURES
  ioWant,      \* the level the machine's state asks for
  ioPlan,      \* _status_lamp_last_plan of the loop's MachineRuntime
  ioLamp,      \* the machine loop inside write_output
  ioPage,      \* the page's call
  ioPoll,      \* the poll's call
  ioEvents     \* the events so far

ioVars == <<ioReal, ioUp, ioCool, ioRow, ioFails, ioWant, ioPlan, ioLamp,
            ioPage, ioPoll, ioEvents>>

Levels == {"low", "high"}
Rows == [val : Levels, qual : {"live", "offline", "override"},
         forced : Levels \cup {"none"}]

LowRow == [val |-> "low", qual |-> "live", forced |-> "none"]
LampIdle == [pc |-> "idle", aim |-> "low", own |-> TRUE, seen |-> LowRow]
PageIdle == [pc |-> "idle", op |-> "none", aim |-> "low", was |-> LowRow,
             tries |-> 0]
PollIdle == [pc |-> "idle", seen |-> LowRow, got |-> "low"]

IoInit ==
  /\ ioReal = "low" /\ ioUp = TRUE /\ ioCool = FALSE /\ ioFails = 0
  /\ ioRow = LowRow
  /\ ioWant = "low" /\ ioPlan = "none"
  /\ ioLamp = LampIdle /\ ioPage = PageIdle /\ ioPoll = PollIdle
  /\ ioEvents = 0

IoEvent == ioEvents < MaxIoEvents /\ ioEvents' = ioEvents + 1

-----------------------------------------------------------------------------
(* The row and the device.                                                 *)

\* IoStore.upsert_values: a forced level in the row wins over the values given.
StoredBug(row, val, qual) == [row EXCEPT !.val = val, !.qual = qual]

Stored(row, val, qual) ==
  IF row.forced # "none"
  THEN [row EXCEPT !.val = row.forced, !.qual = "override"]
  ELSE [row EXCEPT !.val = val, !.qual = qual]

\* IoStore.set_override and IoStore.release_override
Forced(row, level) == [val |-> level, qual |-> "override", forced |-> level]
Freed(row) == [row EXCEPT !.forced = "none"]

\* A write or a read the device answers: _moxa_call clears the cooldown.
Reached == ioUp /\ ~ioCool /\ ioCool' = FALSE

\* One that fails.  Outside a cooldown the request has been sent, twice: the
\* coil may have been set before the connection broke.
Failed(level) ==
  /\ ~ioUp \/ ioCool
  /\ ioCool' = TRUE
  /\ ioReal' \in IF ioCool THEN {ioReal} ELSE {ioReal, level}

-----------------------------------------------------------------------------
(* The machine loop: _apply_status_lamp and write_output, best effort.     *)

\* The last plan is only compared with the new one, not with the device.
LampTick ==
  /\ ioLamp.pc = "idle" /\ ioPlan # ioWant
  /\ ioLamp' = [pc |-> "write", aim |-> ioWant, own |-> TRUE, seen |-> ioRow]
  /\ UNCHANGED <<ioReal, ioUp, ioCool, ioRow, ioFails, ioWant, ioPlan, ioPage,
                 ioPoll, ioEvents>>

\* write_output drives a forced output again when the caller or the row it
\* read disagrees with the forced level.
NeedsSync(aim, row) == aim # row.forced \/ row.val # row.forced

\* _is_unchanged_live_output
Unchanged(aim, row) == row.qual \in {"live", "override"} /\ row.val = aim

LampDecide ==
  /\ ioLamp.pc = "write"
  /\ \/ /\ ioLamp.seen.forced # "none"
        /\ ioRow' = Stored(ioRow, ioLamp.seen.forced, "override")
        /\ ioLamp' = IF NeedsSync(ioLamp.aim, ioLamp.seen)
                     THEN [ioLamp EXCEPT !.own = FALSE, !.pc = "send"]
                     ELSE LampIdle
        /\ UNCHANGED ioPlan
     \/ /\ ioLamp.seen.forced = "none" /\ Unchanged(ioLamp.aim, ioLamp.seen)
        /\ ioPlan' = ioLamp.aim
        /\ ioLamp' = LampIdle
        /\ UNCHANGED ioRow
     \/ /\ ioLamp.seen.forced = "none" /\ ~Unchanged(ioLamp.aim, ioLamp.seen)
        /\ ioLamp' = [ioLamp EXCEPT !.pc = "send"]
        /\ UNCHANGED <<ioRow, ioPlan>>
  /\ UNCHANGED <<ioReal, ioUp, ioCool, ioFails, ioWant, ioPage, ioPoll,
                 ioEvents>>

LampLevel == IF ioLamp.own THEN ioLamp.aim ELSE ioLamp.seen.forced

\* What the tick remembers: a write that was refused raises nothing here, so
\* the plan counts as shown; a forced output keeps the plan open.
LampPlan == IF ioLamp.own THEN ioLamp.aim ELSE ioPlan

LampSend ==
  /\ ioLamp.pc = "send"
  /\ \/ /\ Reached
        /\ ioReal' = LampLevel
        /\ ioLamp' = [ioLamp EXCEPT !.pc = "store"]
        /\ UNCHANGED <<ioRow, ioPlan>>
     \/ /\ Failed(LampLevel)
        /\ ioRow' = Stored(ioRow, ioLamp.seen.val,
                           IF ioLamp.own THEN "offline" ELSE "override")
        /\ ioPlan' = LampPlan
        /\ ioLamp' = LampIdle
  /\ UNCHANGED <<ioUp, ioFails, ioWant, ioPage, ioPoll, ioEvents>>

LampStore ==
  /\ ioLamp.pc = "store"
  /\ ioRow' = Stored(ioRow, LampLevel,
                     IF ioLamp.own THEN "live" ELSE "override")
  /\ ioPlan' = LampPlan
  /\ ioLamp' = LampIdle
  /\ UNCHANGED <<ioReal, ioUp, ioCool, ioFails, ioWant, ioPage, ioPoll,
                 ioEvents>>

\* machine_runtime_loop builds a new MachineRuntime every five seconds.
RenewedBug(plan) == plan

Renewed(plan) == "none"

LampRenew ==
  /\ ioLamp.pc = "idle"
  /\ ioPlan' = Renewed(ioPlan)
  /\ UNCHANGED <<ioReal, ioUp, ioCool, ioRow, ioFails, ioWant, ioLamp, ioPage,
                 ioPoll, ioEvents>>

LampStep == LampTick \/ LampDecide \/ LampSend \/ LampStore

-----------------------------------------------------------------------------
(* The commissioning page.                                                 *)

\* override_output reads the row; so does pulse_output, which refuses a forced
\* output.
PageCall(op) ==
  /\ ioPage.pc = "idle" /\ IoEvent
  /\ \/ /\ op = "force"
        /\ \E level \in Levels :
             ioPage' = [pc |-> "set", op |-> op, aim |-> level, was |-> ioRow,
                        tries |-> 0]
        /\ UNCHANGED ioRow
     \/ /\ op = "shot" /\ ioRow.forced = "none"
        /\ ioPage' = [pc |-> "set", op |-> op, aim |-> "high", was |-> ioRow,
                      tries |-> 0]
        /\ UNCHANGED ioRow
     \/ /\ op = "release" /\ ioRow.forced # "none"
        /\ ioRow' = Freed(ioRow)
        /\ UNCHANGED ioPage
  /\ UNCHANGED <<ioReal, ioUp, ioCool, ioFails, ioWant, ioPlan, ioLamp, ioPoll>>

PageSet ==
  /\ ioPage.pc = "set"
  /\ ioRow' = Forced(ioRow, ioPage.aim)
  /\ ioPage' = [ioPage EXCEPT !.pc = "send"]
  /\ UNCHANGED <<ioReal, ioUp, ioCool, ioFails, ioWant, ioPlan, ioLamp, ioPoll,
                 ioEvents>>

\* The write of the owner, also the one that is repeated between two reads.
PageSend ==
  /\ ioPage.pc = "send"
  /\ \/ /\ Reached
        /\ ioReal' = ioPage.aim
        /\ ioPage' = [ioPage EXCEPT !.pc = "store"]
        /\ UNCHANGED ioRow
     \/ /\ Failed(ioPage.aim)
        /\ ioRow' = Stored(ioRow, ioPage.aim, "offline")
        /\ ioPage' = [ioPage EXCEPT !.pc = "undo"]
  /\ UNCHANGED <<ioUp, ioFails, ioWant, ioPlan, ioLamp, ioPoll, ioEvents>>

PageStore ==
  /\ ioPage.pc = "store"
  /\ ioRow' = Stored(ioRow, ioPage.aim, "live")
  /\ ioPage' = [ioPage EXCEPT !.pc = "verify"]
  /\ UNCHANGED <<ioReal, ioUp, ioCool, ioFails, ioWant, ioPlan, ioLamp, ioPoll,
                 ioEvents>>

\* A level that was read back: an override is set, a shot goes on to its low
\* half, and after that the row is freed.
PageVerified ==
  \/ /\ ioPage.op = "force"
     /\ ioPage' = PageIdle
     /\ UNCHANGED ioRow
  \/ /\ ioPage.op = "shot" /\ ioPage.aim = "high"
     /\ ioPage' = [ioPage EXCEPT !.pc = "set", !.aim = "low", !.tries = 0]
     /\ UNCHANGED ioRow
  \/ /\ ioPage.op = "shot" /\ ioPage.aim = "low"
     /\ ioPage' = PageIdle
     /\ ioRow' = Stored(Freed(ioRow), "low", "live")

\* _verify_physical_output
TryAgain(tries) == tries + 1 < VerifyTries

PageVerify ==
  /\ ioPage.pc = "verify"
  /\ \/ Reached /\ ioReal = ioPage.aim /\ PageVerified
     \/ /\ \/ Reached /\ ioReal # ioPage.aim
           \/ (~ioUp \/ ioCool) /\ ioCool' = TRUE
        /\ ioPage' = IF TryAgain(ioPage.tries)
                     THEN [ioPage EXCEPT !.pc = "send", !.tries = @ + 1]
                     ELSE [ioPage EXCEPT !.pc = "undo"]
        /\ UNCHANGED ioRow
  /\ UNCHANGED <<ioReal, ioUp, ioFails, ioWant, ioPlan, ioLamp, ioPoll,
                 ioEvents>>

\* What a failed call puts back: the override that was there, or the row as it
\* was read; the low half of a shot leaves the output forced high.
Restored ==
  CASE ioPage.op = "shot" /\ ioPage.aim = "low" -> Forced(ioRow, "high")
    [] ioPage.was.forced # "none" -> Forced(ioRow, ioPage.was.forced)
    [] OTHER -> Stored(Freed(ioRow), ioPage.was.val, ioPage.was.qual)

PageUndo ==
  /\ ioPage.pc = "undo"
  /\ ioRow' = Restored
  /\ ioPage' = PageIdle
  /\ UNCHANGED <<ioReal, ioUp, ioCool, ioFails, ioWant, ioPlan, ioLamp, ioPoll,
                 ioEvents>>

PageStep == PageSet \/ PageSend \/ PageStore \/ PageVerify \/ PageUndo

-----------------------------------------------------------------------------
(* The poll: _refresh_moxa.                                                *)

PollRead ==
  /\ ioPoll.pc = "idle" /\ IoEvent
  /\ ioPoll' = [ioPoll EXCEPT !.pc = "ask", !.seen = ioRow]
  /\ UNCHANGED <<ioReal, ioUp, ioCool, ioRow, ioFails, ioWant, ioPlan, ioLamp,
                 ioPage>>

\* _upsert_runtime_values: a level forced in the row the poll has read is what
\* it stores, not the value and the quality of the device.
Polled(level, qual) ==
  IF ioPoll.seen.forced # "none"
  THEN Stored(ioRow, ioPoll.seen.forced, "override")
  ELSE Stored(ioRow, level, qual)

\* A cooldown changes nothing.  Another failure marks the point as offline, by
\* the number of failures or because the device has been silent too long.
PollAsk ==
  /\ ioPoll.pc = "ask"
  /\ \/ /\ Reached
        /\ ioPoll' = [ioPoll EXCEPT !.got = ioReal,
                        !.pc = IF ioPoll.seen.forced \notin {"none", ioReal}
                               THEN "enforce" ELSE "store"]
        /\ UNCHANGED <<ioRow, ioFails>>
     \/ /\ ioCool
        /\ ioPoll' = PollIdle
        /\ UNCHANGED <<ioCool, ioRow, ioFails>>
     \/ /\ ~ioUp /\ ~ioCool /\ ioCool' = TRUE
        /\ ioFails' = IF ioFails < OfflineAfter THEN ioFails + 1 ELSE ioFails
        /\ ioPoll' = PollIdle
        /\ \/ ioFails' < OfflineAfter /\ UNCHANGED ioRow
           \/ ioRow' = Polled(ioPoll.seen.val, "offline")
  /\ UNCHANGED <<ioReal, ioUp, ioWant, ioPlan, ioLamp, ioPage, ioEvents>>

\* _enforce_snapshot_overrides, with the override of the row as it was read
PollEnforce ==
  /\ ioPoll.pc = "enforce"
  /\ \/ /\ Reached
        /\ ioReal' = ioPoll.seen.forced
        /\ ioRow' = Stored(ioRow, ioPoll.seen.forced, "override")
     \/ /\ Failed(ioPoll.seen.forced)
        /\ ioRow' = Stored(ioRow, ioPoll.seen.val, "override")
  /\ ioPoll' = [ioPoll EXCEPT !.pc = "store"]
  /\ UNCHANGED <<ioUp, ioFails, ioWant, ioPlan, ioLamp, ioPage, ioEvents>>

\* The values that were read, and _record_device_live.
PollStore ==
  /\ ioPoll.pc = "store"
  /\ ioRow' = Polled(ioPoll.got, "live")
  /\ ioFails' = 0
  /\ ioPoll' = PollIdle
  /\ UNCHANGED <<ioReal, ioUp, ioCool, ioWant, ioPlan, ioLamp, ioPage, ioEvents>>

PollStep == PollRead \/ PollAsk \/ PollEnforce \/ PollStore

-----------------------------------------------------------------------------
(* The machine, the network and the clock.                                 *)

WantChanges ==
  /\ IoEvent
  /\ ioWant' \in Levels \ {ioWant}
  /\ UNCHANGED <<ioReal, ioUp, ioCool, ioRow, ioFails, ioPlan, ioLamp, ioPage,
                 ioPoll>>

Network ==
  /\ \/ ioUp /\ IoEvent
     \/ ~ioUp /\ UNCHANGED ioEvents
  /\ ioUp' = ~ioUp
  /\ UNCHANGED <<ioReal, ioCool, ioRow, ioFails, ioWant, ioPlan, ioLamp,
                 ioPage, ioPoll>>

\* _moxa_error_cooldown_s has passed.
CoolEnds ==
  /\ ioCool /\ ioCool' = FALSE
  /\ UNCHANGED <<ioReal, ioUp, ioRow, ioFails, ioWant, ioPlan, ioLamp, ioPage,
                 ioPoll, ioEvents>>

IoNext ==
  \/ LampStep \/ LampRenew \/ PageStep \/ PollStep
  \/ PageCall("force") \/ PageCall("shot") \/ PageCall("release")
  \/ WantChanges \/ Network \/ CoolEnds

OutputsSpec == IoInit /\ [][IoNext]_ioVars

\* The loops go on and time passes; nobody promises a poll, which the service
\* defers in nearly every state of the machine.
OutputsFair ==
  /\ OutputsSpec
  /\ WF_ioVars(LampStep) /\ WF_ioVars(LampRenew)
  /\ WF_ioVars(PageStep) /\ WF_ioVars(CoolEnds)

-----------------------------------------------------------------------------
(* Properties                                                              *)

\* Every variable keeps its shape.
OutputsTypeOK ==
  /\ ioReal \in Levels /\ ioUp \in BOOLEAN /\ ioCool \in BOOLEAN
  /\ ioRow \in Rows /\ ioFails \in 0 .. OfflineAfter
  /\ ioWant \in Levels /\ ioPlan \in Levels \cup {"none"}
  /\ ioLamp \in [pc : {"idle", "write", "send", "store"}, aim : Levels,
                 own : BOOLEAN, seen : Rows]
  /\ ioPage \in [pc : {"idle", "set", "send", "store", "verify", "undo"},
                 op : {"none", "force", "shot"}, aim : Levels, was : Rows,
                 tries : 0 .. VerifyTries - 1]
  /\ ioPoll \in [pc : {"idle", "ask", "enforce", "store"}, seen : Rows,
                 got : Levels]
  /\ ioEvents \in 0 .. MaxIoEvents

\* While a level is forced the row shows that level and the quality "override",
\* whatever a poll or a writer that read the row before the override stores
\* afterwards.
OverrideMarked ==
  ioRow.forced # "none" =>
    ioRow.val = ioRow.forced /\ ioRow.qual = "override"

\* The row is right about the terminal, or says that it does not know.
Truthful == ioRow.qual \in {"live", "override"} => ioRow.val = ioReal

\* When the device stays reachable, nothing is forced and the row tells the
\* truth, the lamp ends up at the level the machine asks for, although a write
\* that failed is remembered as shown.
LampShows ==
  <>[](ioUp /\ ioRow.forced = "none" /\ ioPage.pc = "idle" /\ Truthful)
    => <>[](ioReal = ioWant)

\* An override that contradicts the machine ends up at the terminal, although a
\* writer that read the row before it may drive its own level after it.
ForcedShown ==
  (\E level \in Levels :
     <>[](ioUp /\ ioPage.pc = "idle" /\ ioRow.forced = level /\ ioWant # level))
    => <>[](ioReal = ioRow.forced)

\* What holds of an output and its row in every state.
OutputsInv == OutputsTypeOK /\ OverrideMarked

\* The terminal follows: the override if there is one, else the machine.
OutputFollows == LampShows /\ ForcedShown
=============================================================================
