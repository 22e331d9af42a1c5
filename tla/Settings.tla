------------------------------ MODULE Settings ------------------------------
(***************************************************************************)
(* A parameter that is written through Router.handle_microtom_line, by the *)
(* router thread for Microtom and by a request of the web page, which runs *)
(* in a thread of its own with a router of its own.  DeviceBridge.execute  *)
(* takes the value to where the parameter lives:                           *)
(*   "esp"     the ESP, at most one call of the bridge;                    *)
(*   "printer" the TTO printer, with a verified read-back and one retry;   *)
(*   "laser"   the laser, the client tries twice;                          *)
(*   "raspi"   the Raspi's own row.                                        *)
(* A successful value is then mirrored to the ESP if the ESP may read it,  *)
(* unless the mirror's memory (value_dedupe_state, channel "esp-plc") says *)
(* that the ESP has it.  In the "raspi" route the mirror is the only way to *)
(* the device.  An exchange may be executed although its answer is lost.   *)
(***************************************************************************)
EXTENDS Naturals

CONSTANTS
  Routes,        \* the routes that occur
  MaxWishes,     \* bound on changes of what Microtom wants
  MaxPageWrites, \* bound on writes of the web page
  MaxMishaps     \* bound on lost or refused exchanges, crashes, device changes

ASSUME SettingsAssumption ==
  /\ Routes \subseteq {"esp", "printer", "laser", "raspi"}
  /\ MaxWishes \in Nat /\ MaxPageWrites \in Nat /\ MaxMishaps \in Nat

VARIABLES
  seRoute,
  seWish,    \* the value Microtom wants and repeats
  seDev,     \* the value in the device ("raspi": the copy in the ESP)
  seRow,     \* param_values
  seMir,     \* the mirror's memory; 2 before the first success
  seAt,      \* thread -> [pc, val, tries, op]: where its call stands
  seBehind,  \* history: the last mirror that was needed failed
  seLost,    \* history: an exchange was executed in a call that failed
  seMoved,   \* history: the device changed its value by itself
  seCrossed, \* history: two writes of different values overlapped
  seWishes, sePages, seMishaps

seVars == <<seRoute, seWish, seDev, seRow, seMir, seAt, seBehind, seLost, seMoved,
            seCrossed, seWishes, sePages, seMishaps>>

seHistory == <<seBehind, seLost, seMoved, seCrossed>>
seBudgets == <<seWishes, sePages>>

Writers == {"router", "page"}
NoWork == [pc |-> "rest", val |-> 0, tries |-> 0, op |-> "write"]

SettingsInit ==
  /\ seRoute \in Routes
  /\ seWish = 0 /\ seDev = 0 /\ seRow = 0 /\ seMir = 2
  /\ seAt = [t \in Writers |-> NoWork]
  /\ seBehind = FALSE /\ seLost = FALSE /\ seMoved = FALSE /\ seCrossed = FALSE
  /\ seWishes = 0 /\ sePages = 0 /\ seMishaps = 0

Mishap == seMishaps < MaxMishaps /\ seMishaps' = seMishaps + 1

-----------------------------------------------------------------------------
(* The callers.                                                            *)

WishChanges ==
  /\ seWishes < MaxWishes /\ seWishes' = seWishes + 1
  /\ seWish' = 1 - seWish
  /\ UNCHANGED <<seRoute, seDev, seRow, seMir, seAt, seHistory, sePages, seMishaps>>

\* How often one call sends the line to the device
Tries(op) == IF seRoute = "esp" /\ op = "write" THEN 1 ELSE 2

\* A value of the Raspi is stored or read at once.
FirstStop(op) ==
  IF seRoute # "raspi" THEN "device" ELSE IF op = "read" THEN "mirror" ELSE "store"

Work(op, val) == [pc |-> FirstStop(op), val |-> val, tries |-> Tries(op), op |-> op]

MicrotomWrites ==
  /\ seAt["router"] = NoWork
  /\ seAt' = [seAt EXCEPT !["router"] = Work("write", seWish)]
  /\ UNCHANGED <<seRoute, seWish, seDev, seRow, seMir, seHistory, seBudgets, seMishaps>>

MicrotomReads ==
  /\ seAt["router"] = NoWork
  /\ seAt' = [seAt EXCEPT !["router"] = Work("read", seRow)]
  /\ UNCHANGED <<seRoute, seWish, seDev, seRow, seMir, seHistory, seBudgets, seMishaps>>

PageWrites(val) ==
  /\ seAt["page"] = NoWork /\ sePages < MaxPageWrites /\ sePages' = sePages + 1
  /\ seAt' = [seAt EXCEPT !["page"] = Work("write", val)]
  /\ UNCHANGED <<seRoute, seWish, seDev, seRow, seMir, seHistory, seWishes, seMishaps>>

-----------------------------------------------------------------------------
(* DeviceBridge.execute.                                                   *)

GoOn(t, pc) == seAt' = [seAt EXCEPT ![t].pc = pc]
Quits(t) == seAt' = [seAt EXCEPT ![t] = NoWork]

\* The printer's write is verified by reading the value back.
AfterDevice == IF seRoute = "printer" THEN "verify" ELSE "store"

\* The device executes the line and its answer arrives; a read takes the value.
DeviceAnswers(t) ==
  /\ seAt[t].pc = "device"
  /\ IF seAt[t].op = "write"
     THEN seDev' = seAt[t].val /\ GoOn(t, AfterDevice)
     ELSE /\ UNCHANGED seDev
          /\ seAt' = [seAt EXCEPT ![t].pc = "store", ![t].val = seDev]
  /\ UNCHANGED <<seRoute, seWish, seRow, seMir, seHistory, seBudgets, seMishaps>>

\* A failed exchange is repeated while the call has tries left; after that the
\* caller gets a NAK (a printer read: the stored value) and the row stays.
FailsOnce(t) ==
  IF seAt[t].tries > 1
  THEN seAt' = [seAt EXCEPT ![t].tries = @ - 1, ![t].pc = "device"]
  ELSE Quits(t)

DeviceSilent(t, executed) ==
  /\ seAt[t].pc = "device" /\ Mishap
  /\ executed => seAt[t].op = "write"
  /\ seDev' = IF executed THEN seAt[t].val ELSE seDev
  /\ seLost' = (seLost \/ executed)
  /\ FailsOnce(t)
  /\ UNCHANGED <<seRoute, seWish, seRow, seMir, seBehind, seMoved, seCrossed, seBudgets>>

\* An answer with NAK, or a value the parameter's limits refuse: nothing is stored.
Refused(t) == Quits(t)

DeviceRefuses(t) ==
  /\ seAt[t].pc = "device" /\ seAt[t].op = "write" /\ Mishap
  /\ Refused(t)
  /\ UNCHANGED <<seRoute, seWish, seDev, seRow, seMir, seHistory, seBudgets>>

\* verify_readback: what the printer now holds is what is stored.
Verifies(t) ==
  /\ seAt[t].pc = "verify"
  /\ seAt' = [seAt EXCEPT ![t].pc = "store", ![t].val = seDev]
  /\ UNCHANGED <<seRoute, seWish, seDev, seRow, seMir, seHistory, seBudgets, seMishaps>>

VerifyFails(t) ==
  /\ seAt[t].pc = "verify" /\ Mishap
  /\ seLost' = TRUE
  /\ FailsOnce(t)
  /\ UNCHANGED <<seRoute, seWish, seDev, seRow, seMir, seBehind, seMoved, seCrossed,
                 seBudgets>>

\* Another call with another value has been to the device and is not done.
Overlaps(t) ==
  \E o \in Writers \ {t} :
    seAt[o].pc \notin {"rest", "device"} /\ seAt[o].val # seAt[t].val

\* set_value or apply_device_value.  A read ends here: its value is answered and
\* mirrored like a written one.
StoresValue(t) ==
  /\ seAt[t].pc = "store"
  /\ seRow' = seAt[t].val
  /\ seCrossed' = (seCrossed \/ Overlaps(t))
  /\ GoOn(t, "mirror")
  /\ UNCHANGED <<seRoute, seWish, seDev, seMir, seBehind, seLost, seMoved, seBudgets,
                 seMishaps>>

-----------------------------------------------------------------------------
(* DeviceBridge.mirror_to_esp, after the answer has been queued.           *)

\* Printer and laser values go to a copy in the ESP that is not modelled.
Mirrored == seRoute \in {"esp", "raspi"}

KnownAtEsp(val) == seMir = val

MirrorChecks(t) ==
  /\ seAt[t].pc = "mirror"
  /\ IF Mirrored /\ ~KnownAtEsp(seAt[t].val)
     THEN GoOn(t, "send") /\ UNCHANGED seBehind
     ELSE Quits(t) /\ seBehind' = (seBehind /\ ~Mirrored)
  /\ UNCHANGED <<seRoute, seWish, seDev, seRow, seMir, seLost, seMoved, seCrossed,
                 seBudgets, seMishaps>>

MirrorSends(t) ==
  /\ seAt[t].pc = "send"
  /\ seDev' = seAt[t].val
  /\ seCrossed' = (seCrossed \/ Overlaps(t))
  /\ GoOn(t, "memory")
  /\ UNCHANGED <<seRoute, seWish, seRow, seMir, seBehind, seLost, seMoved, seBudgets,
                 seMishaps>>

\* A failure is logged and nothing else; the memory stays.
MemoryAfterFailureBug(t) == seAt[t].val

MemoryAfterFailure(t) == seMir

MirrorFails(t, executed) ==
  /\ seAt[t].pc = "send" /\ Mishap
  /\ seDev' = IF executed THEN seAt[t].val ELSE seDev
  /\ seMir' = MemoryAfterFailure(t)
  /\ seLost' = (seLost \/ executed)
  /\ seBehind' = TRUE
  /\ Quits(t)
  /\ UNCHANGED <<seRoute, seWish, seRow, seMoved, seCrossed, seBudgets>>

MirrorRemembers(t) ==
  /\ seAt[t].pc = "memory"
  /\ seMir' = seAt[t].val
  /\ seBehind' = FALSE
  /\ Quits(t)
  /\ UNCHANGED <<seRoute, seWish, seDev, seRow, seLost, seMoved, seCrossed, seBudgets,
                 seMishaps>>

-----------------------------------------------------------------------------
(* Mishaps.                                                                *)

\* A restart of the process, or a statement refused by SQLite: the call is gone
\* (the inbox row is acknowledged all the same).
CallDies(t) ==
  /\ seAt[t] # NoWork /\ Mishap
  /\ seLost' = (seLost \/ seAt[t].pc \notin {"device", "mirror", "send"})
  /\ seBehind' = (seBehind \/ seAt[t].pc \in {"mirror", "send"})
  /\ Quits(t)
  /\ UNCHANGED <<seRoute, seWish, seDev, seRow, seMir, seMoved, seCrossed, seBudgets>>

\* The device restarts with its own value, or is set at its own panel.
DeviceMoves ==
  /\ Mishap
  /\ seDev' = 1 - seDev /\ seMoved' = TRUE
  /\ UNCHANGED <<seRoute, seWish, seRow, seMir, seAt, seBehind, seLost, seCrossed,
                 seBudgets>>

-----------------------------------------------------------------------------
SettingStep(t) ==
  \/ DeviceAnswers(t) \/ Verifies(t) \/ StoresValue(t)
  \/ MirrorChecks(t) \/ MirrorSends(t) \/ MirrorRemembers(t)

SettingFault(t) ==
  \/ \E executed \in BOOLEAN : DeviceSilent(t, executed) \/ MirrorFails(t, executed)
  \/ DeviceRefuses(t) \/ VerifyFails(t) \/ CallDies(t)

SettingsNext ==
  \/ WishChanges \/ MicrotomWrites \/ MicrotomReads
  \/ \E val \in 0 .. 1 : PageWrites(val)
  \/ \E t \in Writers : SettingStep(t) \/ SettingFault(t)
  \/ DeviceMoves

SettingsSpec == SettingsInit /\ [][SettingsNext]_seVars

\* Calls run on, and Microtom repeats its write.
SettingsFair ==
  /\ SettingsSpec
  /\ \A t \in Writers : WF_seVars(SettingStep(t))
  /\ SF_seVars(MicrotomWrites)

-----------------------------------------------------------------------------
(* Properties                                                              *)

Quiet == \A t \in Writers : seAt[t] = NoWork

\* Every variable keeps its shape; a thread between two calls holds nothing.
SettingsTypeOK ==
  /\ seWish \in 0 .. 1 /\ seDev \in 0 .. 1 /\ seRow \in 0 .. 1 /\ seMir \in 0 .. 2
  /\ \A t \in Writers :
       /\ seAt[t].pc \in {"rest", "device", "verify", "store", "mirror", "send", "memory"}
       /\ seAt[t].val \in 0 .. 1 /\ seAt[t].tries \in 0 .. 2
       /\ seAt[t].pc # "rest" => seAt[t].tries \in 1 .. 2
  /\ seWishes \in 0 .. MaxWishes /\ sePages \in 0 .. MaxPageWrites
  /\ seMishaps \in 0 .. MaxMishaps

\* Between calls the row and the device agree, whatever was refused, retried or
\* verified, unless an exchange was executed by a call that failed, the device
\* changed by itself, two writes overlapped, or the last mirror failed.
RowAgrees ==
  (Quiet /\ ~(seLost \/ seMoved \/ seCrossed \/ (seRoute = "raspi" /\ seBehind)))
    => seRow = seDev

\* A value the mirror's memory holds is in the ESP, with the same exceptions: a
\* failed mirror leaves a memory behind that is still true.
MirrorTrue ==
  (Quiet /\ seRoute = "raspi" /\ ~(seLost \/ seMoved \/ seCrossed))
    => seMir \in {2, seDev}

\* Repeating the write brings row and device to the value Microtom wants, also
\* after overlaps, restarts and lost answers; only the mirror's memory can keep
\* the ESP from getting it.
RepeatHeals ==
  \A v \in 0 .. 1 :
    <>[](seWish = v /\ (seRoute = "raspi" => ~(seLost \/ seMoved \/ seCrossed)))
      => <>[](seRow = v /\ seDev = v)

\* What holds between row, device and mirror memory in every state.
SettingsInv == SettingsTypeOK /\ RowAgrees /\ MirrorTrue
=============================================================================
