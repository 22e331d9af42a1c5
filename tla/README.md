# A TLA+ model of the MAS-004 RPI-Databridge

`src/mas004_rpi_databridge` is the program of a Raspberry Pi that stands between
*Microtom* (the peer, reached over HTTP), an ESP32-PLC, two printers, Moxa I/O
modules and two SmartWicklers, and that runs the operating modes of a labelling
machine. It is one Python process with about fourteen threads and one SQLite
database. The specifications here model the parts in which those threads and
devices meet: the queues to and from Microtom, the purge parameter with the safety
reset, the operating modes and the production runner, the labels, the setup, the
panel, the outputs, and the way of commands, faults and parameters between
Microtom, the Raspberry and the devices.

| file | what it is |
|---|---|
| `Mailbox.tla` | what the outbox promises of a callback for the primary peer (abstract) |
| `Outbox.tla` | `outbox.py`, its producers, the two sender lanes, the watchdog |
| `Inbox.tla` | the peer's requests, `inbox.py`, the router loop |
| `Purge.tla` | MAS0028: latch, reset, Microtom's commands, LED tick, callbacks |
| `Modes.tla` | MAS0002, the states 1 to 21, drives, runner, label pause |
| `Start.tla` | start, resume, pause and monitor of the ESP's runner over a bad line |
| `Gate.tla` | WICKLER_READY: the release of each label, by event or fallback |
| `Labels.tla` | `label_complete` from the ESP to register, MAS0003 and mark |
| `Removal.tla` | `label_removal_required`: pause, rewind, list, resume |
| `Logs.tla` | the log files of a production, MAS0030, the downloads |
| `Printer.tla` | the TTO printer, online for a production, offline after it |
| `Setup.tla` | Einrichten: wicklers, axes thread, measuring run, clean-up |
| `Recovery.tla` | the drives after a safety reset, and what waits for them |
| `Curtain.tla` | the light curtain: reset pulses and the wicklers' recovery |
| `Panel.tla`, `Leds.tla` | button sampler, queue and consumer; the button lamps |
| `Outputs.tla`, `SeaReady.tla` | a field output with override and poll; the camera's ready line |
| `Broker.tla` | the one connection to the ESP and its priority queue |
| `Faults.tla` | a fault bit from the device to Microtom's view |
| `Settings.tla` | a parameter written to its device and mirrored to the ESP |
| `OutboxProofs.tla`, `PurgeProofs.tla`, `InboxProofs.tla`, `ModesProofs.tla` | theorems about the module of the name, for all values of its constants |
| `MotionProofs.tla` | theorems about `Setup`, `Recovery`, `Curtain` |
| `ProductionProofs.tla` | theorems about `Removal`, `Printer`, `Gate`, `Logs`, `Labels` and their composition |
| `DeviceProofs.tla` | theorems about `Start`, `Broker`, `Settings`, `Faults` |
| `PlantProofs.tla` | theorems about `Panel`, `Leds`, `Outputs`, `SeaReady` and the composition of the machine's parts |
| `MC*.tla`, `*.cfg` | instances for TLC |
| `PROJECT.json` | runs, seeded faults, map to the source, hazards, findings, theorems |

To run one: `tlc -config OutboxLanes.cfg MCOutbox.tla`; to check the proofs of one:
`tlapm OutboxProofs.tla`.

Line numbers below are those of `src/mas004_rpi_databridge` unless a path is given.

## 1. The system

`service.main()` starts: `esp-startup`, `ntp-loop`, `sender-primary`,
`sender-aux`, `router-loop`, the ESP push listener, `esp-push-reconcile`,
`io-runtime`, `machine-runtime`, `button-sampler`, `button-input`, `button-led`,
the web UI and the HTTP listener for devices. They share the database (every
statement outside `BEGIN IMMEDIATE` commits on its own, `db.py`
`isolation_level=None`), the module-level lock `_MACHINE_REFRESH_LOCK` (refreshes
and buttons), and the sockets to the devices. All else is unsynchronised.

| component | state it keeps | operations | where it is hard |
|---|---|---|---|
| **Outbox and sender lanes** (`outbox.py`, `peers.py`, `service.py` `sender_loop`) | table `outbox` with lease, retry count, due time; per lane a copy of its job and a cooldown | `enqueue` (replace, drop duplicates), `claim_next_due`, `delete`, `reschedule`, `delete_status_updates`, `clear` | `enqueue` is three transactions; a lane works on a copy while the row is replaced or cleared; crash between claim and delete; a lane that hangs or dies |
| **Watchdog** (`watchdog.py`) | count of failures | `tick` | blocks the primary lane before every claim |
| **Inbox and router loop** (`webui.py`, `inbox.py`, `service.py` `router_loop`) | table `inbox`, states pending, processing, done, stale | `store`, `claim_next_pending`, `ack`, `recover_stale_processing`, clear and ack by hand | requests repeated and late, restart between execute and ack, refused statements |
| **Router commands** (`router.py`) | none of its own | read or write of a parameter, ACK or NAK, the MAS0028 path | order of marker, delete, write and ACK against the refresh; the same write from the web page |
| **Safety latch, purge, reset** (`machine_runtime.py`) | MAS0028, `info.safety`, `info.purge` in the `machine_state` row | refresh, `_perform_safety_reset`, `mark_external_purge_start/clear`, the recovery thread, the light curtain's pulses | threads rewrite the whole row from copies; no common lock; motion that goes on while the refreshes do |
| **Operating modes** (`machine_runtime.py`, `machine_semantics.py`) | `machine_state` row, MAS0001, MAS0002, the ESP's runner | refresh, buttons, setup, start and stop of the drives, label pause | the command and the row are read at the start of a refresh and written at its end, seconds later |
| **Production runner** (`machine_runtime.py`) | `production` in the row, marks of what was done for each label, miss counters | start, resume, pause, stop, monitor, WICKLER_READY | commands and answers get lost; an event and a fallback do the same |
| **Label register and label events** (`machine_runtime.py`) | `label_register`, `label_events`, the list of labels to remove | `label_complete`, `label_removal_required`, rewind, resume | duplicated events on two threads, 16-bit numbers, whole-row writes |
| **Setup workflow** (`setup_wickler_orchestrator.py`) | phases in `info`, what ESP and wicklers have been told | calibrate, release, measure, learn, prepare; stop, fail | some thirty commands of which each may fail; a second thread; who notices a stop |
| **Physical buttons** (`service.py`, `io_runtime.py`) | edge memory, a queue of 100 events, the lamps' last plan | sample, queue, consume; drive the lamps | overflow drops the oldest; plans that fail half way |
| **ESP push** (`esp_push_listener.py`) | connections, dispatcher queue, last values | receive, acknowledge, forward, reconcile | reconnect, repetition, order against the runtime's callbacks |
| **State dedupe** (`state_dedupe.py`) | `value_dedupe_state` | `should_send` | remembers before the message exists |
| **Device bridge and clients** (`device_bridge.py`, `device_clients.py`) | mirror memory, the broker's queue and connection, the file lock | read, write, verify, mirror; connect, send, give up | answers that come late or never; one connection for all |
| **IO runtime** (`io_runtime.py`) | `io_values`, failure counts | poll, write, force, release, pulse | the row is read, the device driven and the row written in separate steps by three threads |
| **Production logs** (`production_logs.py`) | a JSON state, the files, MAS0030 | start, stop, manifest, download | three threads, no lock; a start is refused while files wait |
| **Parameters, database** (`params.py`, `db.py`) | `params`, `param_values` | `set_value`, `apply_device_value`, import | no version, last writer wins |
| **Web UI** | none | pages, queues, buttons | calls into the above from other threads |
| motor setup, backups, commissioning, format profiles, network, time, configuration, diagnosis, wicklers' client, log store | tables and files | forms, downloads, device calls | little that is concurrent |

Interactions: Microtom's request goes through the inbox to the router thread,
which writes parameters (MAS0002, MAS0028) and queues the ACK; the machine-runtime
thread finds the parameter at its next refresh, drives the machine, writes its row
and queues callbacks (`MAS0001`, `MAS0028`, faults); a sender lane delivers them.
The ESP's events (label complete, label removal) arrive on the listener's thread,
which writes the same row.

What makes the parts correct:

- outbox: nothing for the primary peer is lost between `enqueue` and a 2xx unless
  the bridge itself withdraws it; a newer state is overtaken by an older one only
  where their two calls crossed; a dead peer does not stop the other lane;
- inbox: no command is executed twice, none overtakes another, none is forgotten;
- purge: a hard fault wins in the end; a purge Microtom started is ended by
  Microtom only; a purge of an e-stop needs a reset; Microtom hears of a purge,
  and hears no old one after its own command;
- modes: what runs is what the row says; a stop, an open light curtain and a
  label pause take effect whatever else happens at the time; no transition lasts;
- runner and labels: a machine in pause has no running runner whatever answers were lost;
  a runner that waits is released once or stopped; a label is booked, reported and marked;
  what must be removed is brought back once, and the pause can be left;
- setup and recovery: nobody moves an axis beside somebody else; a setup that ends
  leaves nothing going; a waiting command is answered;
- devices: lamps, outputs and the ready line come to what the state asks for; an answer
  belongs to the call that gets it; what Microtom is told of a fault is what is stored;
  a parameter's row, its device and the mirror's memory agree.

## 2. Modules and code

The modules share no variables except through the program: each takes what lies
outside it as a step that may happen or fail. `Outbox` and `Inbox` are the two ends of
the line to Microtom, and what a command does in between is `Purge`, `Modes`,
`Settings` and `Logs`. `Modes` has the states and the races of the row and takes
starting, stopping, setting up and pausing as one step each; `Start`, `Setup`,
`Removal` and `Gate` open these steps, `Recovery` and `Curtain` the ones of `Purge`.
A thread's position is a field `pc` or `at`, its local copy of a row a field `copy`,
`snap` or `now`; a definition carries the name of the function it stands for, or its
comment names it.

**Outbox.** `row` is the table. `next` stands for `next_attempt_ts`: `fresh` is 0,
`wait` a time to come, `due` a time that has passed; `ahead[i]` are the rows that
came due before `i`, which is all `ORDER BY next_attempt_ts` needs of time. So a
backoff or lease may have any length. `enqueue` is `EnqueueCall`, then one step per
transaction (`EnqueueReplace`, `EnqueueCheck`, `EnqueueInsert`). A lane is a loop
`tick -> claim -> send -> sent | failed`; only the primary lane ticks the watchdog.
`Deliver(l, FALSE)` is a request that arrives and whose answer is lost. `Restart`
keeps the table and empties the memory of every thread. `LaneDbError` is a statement
SQLite refuses: inside the `try` it becomes a failure of the request, outside it ends
the thread. `content`, `received`, `withdrawn`, `clearedTo` and `view` are history. In the models
of TLC the requests are those the callers really make (`MCOutbox`).

**Mailbox** knows only ids: accepted, received, withdrawn. `Outbox!AtLeastOnce` is
`Mailbox!MailSpec` under the substitution `queued <- rows for the primary peer`.

**Inbox.** The peer numbers its commands; the number is the idempotency key. It sends
one until an answer reaches it; copies are lost or delayed. `Receive` is the HTTP
handler with `store`, whose `except` takes a refused statement for a duplicate. The
router is `Recover, Claim, Execute, Ack`; an error anywhere goes back to `start`.

**Purge.** A refresh is cut at every read and write of something another thread also
touches: `ReadRow`, `ReadInputs`, `ReleaseFaults`, `Latch`, the reset
(`BeginReset .. FinishReset`), `SetPurge`, `AskDedupe`, `EnqueuePurge`, `Settle`,
`MergeRow`, `StoreRow` (`_write_state` reads, merges a newer marker and writes). The
router runs its steps in the order of `RouterOrder`, which differs for 0 and 1 as in
`handle_microtom_line`. `LedCopy, LedMerge, LedStore` is the LED tick's write-back of
the row. States that do not matter for MAS0028 are folded (4 into 5, 6 into 7), and
the operator's moves are a free choice among those `state_actions` allows. The sender
is the primary lane of `Outbox`, reduced to the rows of MAS0028. The
ages of markers and the grace period are free choices.

**Modes.** `ref` is a refresh: `snap` the row it read, `now` its working copy, `cmd`
its copy of MAS0002, `newer` that the row was written by somebody else since, `moved`
that it has started the runner. `Begin`, one action per way through the command gate
(`Reset, HeldGate, RejectCommand, StartCommand, PassCommand, SetupBegin, SetupEnd`),
`Decide`, `StopDrives | StartDrives | NoDrives`, `Monitor`, `Check`, `Store`. The
listener's handler is `EventBegin, EventStop, EventEnter, EventEntered | EventFault`;
it takes no lock and writes the whole row from its copy, as the code does. `Press` is
one step because it runs under the refresh lock. Everything that makes a refresh force
state 21 is the flag `held`; `Purge` opens it. A 2 that meets one is a reset only if it is a
new one (`mas0002_reset_seen_ts`, 795, 857); of the times only this free choice is left.
`used` counts the disturbances, `MaxEvents`
bounds their sum.

**Start.** `stRef` is the refresh with its copy of the row (`now`) and the position in
the exchange: `Ping, Sync5, Params, ClearEsp, Wicklers, Go | Status, Ready, Verify` for a
start or resume, `Stop, CheckStop, Tell` for a stop, `AskPause, Accepted` for a pause,
`Monitor, Watch` for the looks. `stLine` decides of every exchange whether the ESP hears
it and whether the Raspberry hears the answer (`mute`: executed, answer lost).
`EspBoots` empties the ESP. The miss counter is the code's, three looks with one text.

**Gate.** `gtPush` is the event's handler, `gtRef` the refresh's fallback; both do
`Tto, Prepare, Ready` with the marks they find. `gtYoung` says whether a mark is younger
than 20 s, `gtGrace` whether the 1.5 s for the event are over. The refresh writes its
copy of the row at its end (`RefWrite`). The mark of an attempt carries a key of the label's
target and error values (3027 to 3036); the keys of event and fallback for label 1 are taken
as equal.

**Labels.** `espLabels` is what the ESP holds until the listener's ACK, `labelDispatch`
the dispatcher's queue (memory), `labelHandler` the two threads that handle an event:
`LookLabel, BookLabel, AskKnown, KeepKnown, ReportLabel, MarkLabel`, one SQL statement
each. Numbers are counted modulo `WordSize` as in the 16 bits of MAS0003.

**Removal.** Handler of a thread: `TakeRemoval, CopyRow, StopForRemoval | LookPaused,
PlanRewind, Rewind, WriteRequest`; resume: `ResumeBegin, ResumeRun | ResumeFails,
ResumeCommit, FinalWrite`. `Merged` is `_merge_label_removal_request`.

**Logs.** `logThread` holds the three threads, each with its copy of the JSON state:
`Start*`, `Stop*` (router or refresh), `ReadLogState, ListFiles, Reconcile, SetReadyParam`
(manifest), `RemoveFile, LookAgain, WriteNames, WriteUnready, DownloadParam` (download).
Between reading and writing the state lies a step in which the others may write. A manifest
may be asked for at any time (web page, router), during a recording within the bound.

**Printer.** Each thread of `Syncers` does `PlansSync, TakesLock, PrinterObeys, SyncDone`
or fails; a start needs all of it, a worker that meets the lock gives up. Workers are
started by `MotionStops` and `StateRests`.

**Setup.** `Procedure` is the one long call in its order (`SyncEsp, SyncMaster,
ResetWicklers, Calibrate, AwaitAxes, Zero, StartLearning, Teach, Lead, StartMeasure, Poll,
Unlead, Sea, ApplyDiameters, Baseline, ClearLatches, FinalRelease, AfterSetup`);
`Handler(pc)` says which `finally` or `except` an exception reaches first. A command that
fails may have been carried out by any of the wicklers it went to (`done`). `AxesThread` is the thread of
the format axes. `missed` remembers which ends failed, for the code ignores them.

**Recovery.** `rcRef` is the refresh with `snap`, the row it read: reset, Einrichten,
parking, final write. `rcWork` is the recovery thread: `RcDevices, RcCopy, RcLive,
RcStore`, or `RcSkips` where row or database refuse. `rcLock` is
`_RESET_MOTION_RECOVERY_LOCK`. Times count the recoveries that ended, since only their order is
asked for. A latch also ends without a reset, in two ways. The router runs
`mark_external_purge_clear` for Microtom's MAS0028=0 (`rcClear`: `MicrotomClears, ClearReads,
ClearParam, ClearStores`). And a refresh may take latch or purge for stale (`Stale`, 799 to 839,
10829 to 10883): the module has no light curtain and no history of a latch, so each rule may
apply whenever what the module does know of its condition holds.

**Curtain.** `cuRow` is what a pulse and a recovery leave in `safety_info`, `cuRef` and
`cuWork` the copies of refresh and thread. The 5 s and 120 s limits are flags. `CuSkips` is the
thread's write of the row that row or database refuse (11192; the lock is released all the
same), `CuRestart` the end of the process: the row outlives it, lock and thread do not.

**Panel.** `pnKnown` is the sampler's memory, an event holds the old and the new inputs.
**Leds.** The plans are those of the pause button: none, red, blue, and both in the states 5 and
6. A tick is the set of lamps still to be driven, off before on, and remembers what was lit.

**Outputs.** `ioRow` is a row of `io_values` with its override; `ioLamp`, `ioPage`, `ioPoll`
are the three threads, cut at the reading of the row, the device and the storing.
`Stored` is the check of the override inside the transaction, `Polled` what the poll
stores of a device that answers or not. **SeaReady** decides as
`_apply_sea_vision_ready_output` from the row, the last try and three timers.

**Broker.** `brAt` is the broker thread, `brCall` each caller; `GiveUp, CheckActive,
CallerCloses, ReturnCall` is a caller whose time is over. `brLines` are the answers on
their way in the present connection; closing empties it.

**Faults.** `ftAt[s]` is the handler of connection `s` (or the runtime): stored value,
dedupe memory, outbox. `Enqueued` is `Outbox.enqueue` with the options these messages
have, `NextOut` the order of `claim_next_due`: a message whose send has failed (`SendFails`, it
may have arrived all the same) waits for its retry, and later ones overtake it.
**Settings.** `seAt[t]` is a call of the router thread or of the web page:
device, verification, row, mirror, the mirror's memory.

**MCProduction, MCMachine** put independent components side by side: `part` names the
one that runs in a behaviour, the others rest. The components share no variable, so
that the state space is the union of theirs and not the product; each condition of the
parts' fairness is one disjunct of `Weak1` to `Strong3`.

## 3. Runs

The bounds are the constants marked "bound" in each module; no run uses symmetry.
Definitions whose name ends in `Bug` are seeded faults: put in the place of the
definition they stand beside, each makes the property paired with it in `PROJECT.json`
fail under the same configuration. `CHECK_DEADLOCK FALSE` stands in every cfg because
each model stops when its budgets are spent and its queues are empty; the program idles
there.

| run | bounds | what it shows |
|---|---|---|
| `outbox_lanes` | 1 producer, 5 requests, 2 rows, 1 restart, 1 refused statement, `DownAfter` 1 | `TypeOK`; a lane's job stays meaningful (`JobsStayValid`); the outbox implements `Mailbox` (`AtLeastOnce`); rows for the primary peer leave the table (`PrimaryDrains`) |
| `outbox_aux` | 2 producers that both report MAS0001, one of them also the 12 without a key, 3 rows | two threads replacing one key leave at most one row each (`ReplaceKeyBounded`); a replaced state runs backwards at the peer only where two calls crossed (`RegressionOnlyByCrossing`); the aux lane drains while the primary hangs (`AuxDrains`) |
| `outbox_locked_db` | 1 row, 1 refused statement | **violation** of `RetriedUntilAnswered`, finding 1 |
| `purge_safety` | from production; 1 command of Microtom, 1 change of inputs, 1 stop; sends fail | `NoStaleAfterAck`; `PurgeInv` (types and `ExternalPurgeHeld`) |
| `purge_hard_fault` | from pause; 1 command, 1 change of inputs, 1 LED tick, 1 restart; no stop, so no reset | `HardFaultWins`, `MarkerKept` |
| `purge_estop` | 4 changes of inputs | **violation** of `EStopNeedsReset`, finding 2 |
| `purge_unheard` | 1 command, 3 changes of inputs | **violation** of `FaultReachesMicrotom`, finding 3 |
| `modes` | from 5 or 9; any 3 of a command, a press, a removal, a change of inputs, a restart | `ModesInv` (types and `RunnerHasRow`), `RemovalKept`, `ProductionEnds` (`StopEnds`, `LightPauses`), `TransitionsEnd` |
| `modes_stop_lost` | 2 commands | **violation** of `StopObeyed`, finding 4 |
| `production` | labels: 2 productions, 2 labels in all, numbers modulo 4, a queue of 1, 1 trouble; gate: 2 labels, 1 extra; removal: labels {1, 2}, 3 events, 1 resume; logs: 1 production, 1 group, 1 late line, start or manifest; printer: 2 workers, 3 starts, 2 faults | `LabelsInv`, `LabelsSettle`, `ProductionInv`, `GateSettles`, `RemovalInv`, `OfferedIfThere`, `PrinterInv`, `OffAfterStop` |
| `machine` | see `Machine.cfg`: mostly 1 disturbance of each kind, up to 4 in all, for each of twelve parts; recovery: any 3 of an e-stop, a reset, a MAS0028=0 and an Einrichten; curtain: 1 break, 1 pulse, 1 loss (skipped write or restart); settings: the routes to ESP, printer and Raspberry | `StartInv`, `StartEnds`, `SetupInv`, `SetupAnswered`, `RecoveryInv`, `CurtainInv`, `WicklersBack`, `LastPressWins`, `OutputFollows`, `BrokerInv`, `BrokerServes`, `ViewFollows`, `InboxInv`, `PendingIsTaken`, `SettingsInv`, `MachineInv`, `MachineSettles` |
| `faults_alternation` | 1 connection, 3 flips, 3 rows | **violation** of `AlternationKept`, finding 5 |

What the bundles hold, module by module:

- `LabelsInv`: in one life of the process each thread reports a label once at most
  (`AtMostOncePerThread`). `LabelsSettle`: a completed label is booked (`LabelsArrive`), a
  label marked as reported is not taken back (`EmittedStays`).
- `ProductionInv`: `GateInv` (`FirstOnce`: the first stroke is not prepared again after its
  release) and the types of the log files. `GateSettles`: the runner is released or
  stopped (`ReadyArrives`); a fault ends in state 21 for good (`FaultWins`).
- `RemovalInv`: the pause names a label, so it can be left (`PauseCanEnd`); a label is
  brought back once in a pause (`RewoundOnce`).
- `OfferedIfThere`: MAS0030=1 without a file does not last (`EmptyHeals`), files that wait
  come to be offered (`WaitingOffered`).
- `PrinterInv`: `RunsOnline`; and `OffAfterStop`.
- `StartInv`: no running runner behind a row in pause (`NoSecretRun`); a fresh start runs
  with the parameter it read (`RunsAsPlanned`). `StartEnds`: a faulted runner (`FaultEnds`)
  and a broken line (`SilenceEnds`) end the production.
- `SetupInv`: `MeasuresInPlace`, `LeavesNothing`, `OkMeansDone`; `SetupEnds` in
  `MachineSettles`.
- `RecoveryInv`: `OneMover`, `NoMotionBeforeReset`; and `SetupAnswered`.
- `CurtainInv`: `RecoveredOnce`, `RunningIsTrue`; and `WicklersBack`.
- `MachineInv`: `OneCommandPerPress` (Panel), `NeverMixed` (Leds), `OverrideMarked`
  (Outputs), `RowIsReported` (Faults) and the types of `SeaReady`. `MachineSettles`:
  `LedsFollow`, `SeaFollows`, `SetupEnds`, `RepeatHeals` (Settings).
- `OutputFollows`: `LampShows`, `ForcedShown`.
- `BrokerInv`: `AnswerIsOwn`, `SocketUnderLock`. `BrokerServes`: `AttemptsWanted`,
  `BrokerComesBack`.
- `SettingsInv`: `RowAgrees`, `MirrorTrue`. `InboxInv`: `AtMostOnce`, `PeerOrder`.
- `ViewFollows` (Faults): Microtom ends up with the value of the row.

Why the bounds suffice for what they are asked: each hazard of `PROJECT.json` with a
property needs two actors and at most one or two disturbances of each kind, and the
seeded faults show that the case in question is reached. Two rows are enough for a
lane's copy to meet a replaced row and a fresh id; three for a third row that starves;
two labels for the gate's first and a following one, and for a list of removals with
something to forget; a queue of 1 to be full; numbers modulo 4 to wrap when counted on.
Where a bound is beyond that the theorems of section 4 take over. A clear-then-set of MAS0028
needs two commands and is outside `purge_safety`, an Einrichten that supersedes a waiting one
needs two and is outside `machine`, and three disturbances are all that
`modes` combines: with more the state space is beyond the time a run should take.

### Fairness

- `Outbox!FairSpec`: threads are scheduled and time passes (weak fairness of `LaneStep`,
  `ComesDue` and the steps of a producer). Delivery (`Deliver(l, TRUE)`) and the health
  check (`Tick("ok")`) are strongly fair: the network may fail any finite number of
  times in a row but not for ever. This is an assumption about the peer, without
  which no retry ends. In `PrimaryHangs` nothing at all is assumed of the primary lane.
- `Inbox!Spec`: the router thread is scheduled. Nothing is assumed of peer and network.
- `Purge!FairSpec`: each thread goes on with what it has begun; `machine-runtime`
  refreshes for ever (`service.py` catches the loop's exceptions). Commands and inputs
  are not fair.
- `Modes!FairSpec`: the refresh loop and the listener's handler go on. No press, command
  or event has to occur.
- Everywhere else: a thread of an endless loop, or one with a timeout on each of its
  waits, goes on (weak fairness of its step), and time passes (`FiveSeconds`, `MarkAges`,
  `GraceOver`, `PendingAges`, `PauseTimeout`, `PassDeadline`, `CoolEnds`). The ESP sends an
  event again until its ACK arrives (`PushLabel(TRUE)`), the device repeats an unanswered
  report (`DeviceReports`).
- Strong fairness besides the outbox: a fallback whose device fails again and again
  meets a success at some time (`RefDiag`, `RefPrepare`, `RefReady` of `Gate`,
  `CuWicklers(TRUE)` of `Curtain`); a LED tick is forced again and again, every 10 s
  (`LedTick(TRUE)`), `machine_runtime_loop` builds a new runtime every 5 s
  (`RenewedRuntime`); Microtom repeats its write (`MicrotomWrites`, the premise of
  `RepeatHeals`).

In the two joint runs these conditions stand in `Weak1` to `Strong3`, and each applies to
the part that runs.

### What the properties except, and why

The properties hold only beside gaps the code leaves open; each premise names one.

- `JobsStayValid`, `AtLeastOnce`: a row can be withdrawn while a lane holds it, so the
  peer may receive a message that was taken back. `PrimaryDrains` excepts a dead lane
  (finding 1).
- `RegressionOnlyByCrossing`: two calls of `enqueue` cross, both having run their DELETE before
  either INSERT. Then both rows stay, and whichever is retried comes last: a refresh
  (1889) and the ESP listener (2690) can do that with MAS0001. It speaks of messages under the
  key that the newer one replaces; MAS0001=12 of a label pause has no key (3666), so nothing takes
  it back and a retry of it may follow the 13.
- `ExternalPurgeHeld` has `~overlap`: a refresh that was running when the marker was
  written may have read the old row, and its reset or its stale-light rule then clears
  MAS0028 although Microtom set it.
- `MarkerKept` has `~raced`: a marker written between the read and the write inside
  `_write_state` (4307 to 4338) is lost.
- `RunnerHasRow`, `LightPauses` have `lost`: a stop the ESP did not confirm (the row then
  says 21), a start that failed and whose stop failed too, a start thrown away because
  a label pause was found at the last look, or a process that died between starting the
  drives and writing the row. After each of these no rule that reads the row knows of
  the runner.
- the same two and `TransitionsEnd`, `RemovalKept` have `raced`: the handler of the label
  pause wrote the whole row from a copy taken before seconds of device traffic, over
  what a refresh or a button wrote meanwhile, or a refresh past its last look
  wrote over it. `TransitionsEnd` also excepts a press together with a restart: a reset
  pressed while the machine enters a pause, whose command is consumed and whose new state
  is not yet stored when the process ends, leaves the row in 12.
- `StopEnds` excepts a stop that came during a refresh; that is finding 4.
- `AtMostOnce`, `PeerOrder` except commands whose row an operator cleared, and the order
  those whose insert was refused (the answer was 200 all the same).
- `NoSecretRun` has `~blind`: the stop after a failed start, whose result is not looked at
  (1772). `RunsAsPlanned` has `~shaken`: an ESP restart between the parameters and START.
  `SilenceEnds` asks for a line that stays broken in one way: another error text starts
  the count anew.
- `FirstOnce`: a refresh's final write may put back a row without the mark of an attempt.
- `AtMostOncePerThread`: push and fetch may have one event in hand together; then it is
  reported twice. A late event is booked under the production that is current by then.
- `RewoundOnce` has `~rmStale`: a handler that wrote an old row over a newer one.
- `RunsOnline`: the plan of a start believes the stored TTS0001 while the worker of an
  earlier stop is about to take the printer offline (5312, before the lock of 5328); or
  the printer changed by itself. `OffAfterStop`: a worker's failed write is not repeated.
- `LeavesNothing`: failures of the commands in the clean-up are ignored (`missed`).
  `OkMeansDone`: a MAS0028 just before the baseline is cleared with it (line 593 of
  `setup_wickler_orchestrator.py`, `wiped`).
- `NoMotionBeforeReset`: the debt of an e-stop ends with a reset that succeeded, with Microtom's
  MAS0028=0, or with the stale light-curtain rule; finding 2 is how that rule comes to clear the
  latch of an e-stop, and the axes are parked after it. The second stale rule (after a
  reset) never ends the debt by itself.
- `SetupAnswered` has `rcLost`: the whole row is written from an older copy by the thread or by
  the router.
- `CurtainInv` and `WicklersBack` have `cuLost`, an older row written by thread or refresh, and
  `cuGone`, a thread that ended without its write (11192, or the process ended under it). Each
  leaves `light_curtain_wickler_recovery_running` behind, and in the phase `ready` nothing takes
  the flag back: it bars every later recovery of the wicklers.
- `NeverMixed` (`ldStuck`): a colour could not be switched off, or a plan of both colours was
  shown by half (12643); until a tick has written every colour well, the differences are
  taken from an older plan.
- `EmptyHeals` excepts a recording: a manifest that was read during a recording and is written
  after its stop makes the production an active one again (12908 to 12916 look at
  `active_state` first and read the state again later), with MAS0030 as the stop left it.
- `LampShows` asks for a row that tells the truth; after an override a writer that read
  the row before may drive its own level against it once (docs/PROJECT_CONTEXT.md:350).
- `SocketUnderLock` has `~brBare`: a caller that gives up while the broker connects gives
  the file lock back under it.
- `RowIsReported`, `ViewFollows` except a handler that died between remembering and
  queueing (`state_dedupe.py:86`), a fault cleared outside the process states, handlers of
  two connections that overlap, and a later message that overtook an older one, by its priority
  or because a send of the older one had failed, or was dropped for one (finding 5).
- `RowAgrees`, `MirrorTrue`, `RepeatHeals`: an exchange executed by a call that failed, a
  device that changed by itself, writes of router and page that cross. In the mirror's
  route the memory then suppresses the write that would heal it.

### Findings

1. A refused statement outside the `try` block of `sender_loop` (`service.py:243`) ends
   the lane's thread; nothing restarts it.
2. `info.safety.last_reasons` is overwritten by the live inputs while a latch stands
   (`machine_runtime.py:975`), so the purge of an e-stop pressed with the light curtain
   open passes, once the e-stop is released, for a light-curtain purge and is cleared
   without a reset (10829, 799).
3. The dedupe store remembers MAS0028=1 and never MAS0028=0
   (`machine_runtime.py:12921`), so every purge but the first goes unreported.
4. A refresh takes a command back by writing MAS0002=0 whatever the parameter holds by
   then (`machine_runtime.py:1052`), and can erase a stop that was acknowledged since.
5. The active and the clear report of a fault have different dedupe keys
   (`machine_runtime.py:442`), and `Outbox.enqueue` compares within one key: while
   Microtom cannot be reached, 1, 0, 1 is stored as 1, 0.

Four more places were met while modelling, and have no run of their own: a failed setup
leaves MAS0002=2 for the next refresh, which with an e-stop or latch takes it for the
operator's reset (`machine_runtime.py:1432`, `OwnStop` in `Recovery`); and in the phase
`idle` a recovery of the wicklers that is done is done again by each refresh for 120 s,
because its mark does not survive the refresh (994 to 998, `Kept` in `Curtain`; hence the
phase in `RecoveredOnce`); the running flag that a skipped write or a restart leaves
(`cuGone`); and the manifest that makes a stopped production an active one again (`EmptyHeals`).

## 4. Proofs

All theorems hold for every value of the constants that meets the named assumptions of
the module; TLC evaluates these assumptions in the runs. Each proof is the invariant
rule: `Init => IInv`, `IInv /\ [Next]_vars => IInv'`, `IInv` implies the property. TLC checked most
of the inductive invariants on small instances before they were proved. Every
invariant and every action property that a passing run checks is a theorem; liveness
is not (below).

`OutboxProofs` proves, for any urls, requests, producers and bounds that satisfy the
assumptions of `Outbox` (`UrlsAssumption`, `RequestsAssumption`, `NoRowAssumption`,
`BoundsAssumption`):

- `TypeCorrect`: `Spec => []TypeOK`. Besides types it says that a lane has a job exactly
  while it works, which the other two rest on.
- `JobsValid`: `Spec => []JobsStayValid`. `JobsStayValid` alone is not inductive: that a
  fresh id names no older message needs the types and the range of `lastId`, and that the
  lanes of two jobs differ needs the lane of each row. The inductive invariant is
  `IInv == TypeOK /\ JobsStayValid`; `InductiveStep` goes through the actions, and the
  lemmas `WithdrawKeepsJobs` (deleting by somebody else turns "my row" into "withdrawn"),
  `OwnDeleteKeepsJobs` (a lane deletes only its own lane's row, and no other lane
  holds it), `QuietKeepsJobs` and `MarkKeepsRows` carry its cases.
- `PrimaryAtLeastOnce`: `Spec => AtLeastOnce`, the refinement of `Mailbox`. Initial
  states map to initial states, and `StepMaps` shows each step to be a step of `Mailbox`
  or a stutter: `EnqueueInsert` is `Accept`, `Deliver` is `Receive`, `Finish` is `Finish`,
  a replacement, `DeleteStatusUpdates` and `Clear` are `Withdraw`, a drop of an
  unsendable row does not touch primary rows (a primary url is neither secondary nor
  invalid). `JobsValid` supplies that a finished row was received and that a received id
  was accepted.
- `BackOnlyByCrossing`: `Spec => RegressionOnlyByCrossing`, for any number of threads that report
  a state, beside messages without a key. `clearedTo` remembers for each message the last id
  in use when the DELETE of its call ran. `OrderInv` follows a key's rows from the call to the
  peer. `Cleared`: behind its DELETE a call finds only rows of its key that were inserted
  since. `NewestLeft`: so a row that a message would have replaced is newer than that message,
  or was inserted between its DELETE and its INSERT (`NotBefore`). `NotPassed` says the same
  of what a lane holds and what the peer saw last: a lane takes only rows of the table, and the two
  lanes have different urls. `Carried` and `Seen` tie rows and views to what was asked for.
- `OneRowPerThread`: `Spec => []ReplaceKeyBounded`, for finitely many producers. The rows of
  a key alone do not carry it; `KeyBounded` counts with them the calls that are past
  their DELETE (`BehindDelete`): a DELETE leaves no row, an INSERT trades a call for a row.
- `TableStep`, `CallStep` and `LaneMoves` say once what a step can do to the table, to a call
  and to a lane's job, and carry the cases of both.

`InboxProofs` proves, for any number of commands, rows, copies, restarts and refused
statements (`InboxAssumption`):

- `TypeCorrect`: `Spec => []TypeOK`; with it, that the router holds a message exactly
  while it works on it, and that its loop never ends.
- `ExecutedAtMostOnce`: `Spec => []AtMostOnce`, and `ExecutedInOrder`:
  `Spec => []PeerOrder`. The invariant `IInv` adds three parts to them. `TableInv`: ids and
  numbers identify rows, no copy on the network is younger than the peer's current
  command, and each older command is in the table or disturbed; so a row that is
  inserted undisturbed carries the current number, the highest of all. `ExecutedInv`:
  what was executed or is claimed has a row that is not pending; so a pending row, which
  is all `Claim` takes, was never executed. `OrderInv`: rows are in the peer's order by
  id, and every pending row comes after what was executed and what is claimed.
  `MarkKeepsTable` says that a change of state alone disturbs none of this; each of
  `ReceiveKeepsInv`, `ClaimKeepsInv`, `ExecuteKeepsInv` and `ClearKeepsInv` does one
  action. `InboxCorrect` joins the three.

`PurgeProofs` proves, for any number of commands, changes of inputs, stops, LED ticks and
restarts (the assumptions of `Purge`):

- `TypesHold`: `Spec => []TypeOK`, from `Typed`, which adds the program counters and what a
  thread holds at each of them.
- `NoStaleCallbackHeard`: `Spec => []NoStaleAfterAck`. `NumbersKnown`: no message is ahead of
  the clock of commands. `CallbacksFresh`: a MAS0028=1 that is still queued is as new as
  every ACK, queued, on its way or heard. It holds because a command takes the callbacks
  out of the outbox before it queues its ACK (`Cleaned`), whatever was put in between.
- `LastMarkerKept`: `Spec => []MarkerKept`. `MarkersKnown`: no copy of the row, wherever it is
  held, has a marker younger than the last one written, and a command that has not
  written its own is younger. `MarkersMerged`: past the merge a copy has the last marker.
- `ExternalPurgeStays`: `Spec => []PurgeInv`. While the purge is Microtom's (`Held`), the row
  and every copy that can still be written back carry its marker (`CopiesActive`), a reset
  past its look at the marker has seen it, and a clear command takes the purge away
  before it marks the row (`ClearEnds`). The proof is for any number of commands, where
  `purge_safety` has one, and it did not go through at first: after two commands the
  exception of the first (a refresh was running) was forgotten when the second wrote its
  marker, and TLC, given two commands, found the property violated. The history variable
  now remembers it (`RouterWriteRow`).

`ProductionProofs`, `PrinterCorrect`: `PrinterSpec => []PrinterInv`, for any number of
workers. That a production has the printer online is not inductive: the start only
*planned* that it is. `StartAlone`: no start is under way but in the state it began in.
`RowTells`: row and printer agree, except between the two writes of a thread.
`NoWorker`: a start that met no worker meets none until it is over, and none is queued while
its production runs. `StillOnline`: what it found or wrote still stands. `PrinterTypeCorrect`
carries that at most one thread is at the printer.

`MotionProofs`, `RecoveryCorrect`: `RecoverySpec => []RecoveryInv`. `LockHeld`: the lock
is held exactly while the thread runs, which is why a refresh may ask it. `MoverAlone`:
a refresh that moves axes began to when the thread was not there; only it starts one.
`OwedSeen`: while a reset is owed, MAS0028 stands, and at each place of the refresh the
copy it decides on shows it, whatever old rows were written. So stale rows can lose a
waiting command or the latch, but not the safety of the motion: the rule for a stale latch after a
reset looks at MAS0028 as well. What ends the debt is named above.

`MotionProofs`, `SetupCorrect`: `SetupSpec => []SetupInv`. `InOrder`: how far the setup has
come without an exception. `NothingLeft`: for each thing set going, the places from which
a clause that ends it still lies ahead. `Noticed`: a stop or a latch stands where the
procedure looks until its last look.

`MotionProofs`, `CurtainCorrect`: `CurtainSpec => []CurtainInv`. `CopiesKnow`: whoever
holds a copy of the row knows what was recovered last, unless an older row was written.
`OnceEach`: the thread works for a later pulse than any that was recovered.
`RunningHasThread`: the flag, in the row or in the refresh's copy, is true of a thread with the
lock, unless one is gone (`cuGone`) or an older row was written; so there is no other way to
leave it behind. `SamePhase`.

`ProductionProofs`, `RemovalCorrect`: `RemovalSpec => []RemovalInv`, for any labels. `RunIsEmpty`:
a row without the pause has no list. `RewindKnown`: a rewind is in the row or in the hands
of the thread about to write it. `RewindNew`: a thread goes to the rewind only with a label
not brought back. `WriteTells`: what it writes tells of its own rewind.

`ProductionProofs`, the rest, for any labels, events, productions and budgets:

- `GateCorrect`: `GateSpec => []GateInv`. `AttemptStands`: the attempt is in the row from the
  moment the first label is worked on, and while it is worked on it is not released yet;
  so the handler that looks again finds it. `SeenFollows`: the grace is for following labels.
- `LogsCorrect`: `LogsSpec => []LogsTypeOK`. That a recording is not offered must hold of every
  *copy* of the state a thread may write back (`LogSound`), not only of the state.
- `LabelsCorrect`: `LabelsSpec => []LabelsInv`. `LbOnce` says why a thread does not report a label
  twice: what it has reported is marked or it is about to mark it, and what it holds on
  its way to a report it has not reported. `LbNamed`: a label past its booking has its row
  (a new production deletes the rows, and makes the label an old one). `EmittedStaysMarked`:
  `LabelsSpec => EmittedStays`, for booking takes the larger of the old mark and the new.
- `ProductionCorrect`: `PartsSpec => []` of the four invariants of the run `production`. There a
  behaviour runs one part while the others rest, so this adds no interaction to the five
  theorems; it says of the specification TLC runs what they say of each part.
  `PartsBehave` shows that `PartsSpec` implies each part's own specification.

`DeviceProofs`, for any budgets, callers, senders and writers:

- `StartCorrect`: `StartSpec => []StartInv`. A refresh decides on a copy, so `RowWhile` says what
  the row is at each place of it, `StoppedFor` where the refresh has made sure that no
  runner runs, `Planned` from where the ESP has what the start read.
- `BrokerCorrect`: `BrokerSpec => []BrokerInv`. `AnswerIsOwn` rests on `OneLine`: the line on its
  way answers the request in the broker's hands, since every way out of a failed attempt
  closes the connection. `CallsKnown`: what the broker holds is waited for until its
  deadline; with it `OnlyWantedAttempts`: `BrokerSpec => AttemptsWanted`.
- `SettingsCorrect`: `SettingsSpec => []SettingsInv`. Between calls row and device agree because
  *during* them every value the row lacks is in the hands of a call that will store it
  (`SeDirect`), or is on its way to the ESP (`SeMirrored`).
- `FaultsCorrect`: `FaultsSpec => []FaultsInv`. `FtWaits`: the handler of the connection the device
  waits on has the device's bit. `FtStored`: once it has stored it, the row holds it. The
  type carries that one clear message waits at most (`OneClear`), also behind sends that failed
  (`FtFails`).

`PlantProofs`, for any buttons, budgets and queue bound above zero:

- `PanelCorrect`: `PanelSpec => []PanelInv`. That commands are at most presses is not inductive
  and not a matter of one event: the queue may drop and merge changes. `PnRanks` numbers
  the places of the queue so that each event that reports a press is worth one.
- `LedsCorrect`: `LedsSpec => []LedsInv`. `LdClean` has four parts: what is still to be switched
  off was lit when the tick began (`LdOffFirst`); what is lit is what the tick shows or has still
  to switch off (`LdHeaded`), unless the remembered plan is an older one; a failure without harm
  was the last write of its tick (`LdHarmless`); until a colour goes on, what is lit is what
  the remembered plan shows (`LdKnown`).
- `OutputsCorrect`: `OutputsSpec => []OutputsInv`. `SeenForced`: who repeats a forced level has read
  one. `ReadyLineTypeCorrect`: the shapes of `SeaReady`.
- `MachineCorrect` and `PartsCorrect`: `PartsSpec => []MachineInv`, and all eight invariants of the
  run `machine`, for any selection of the parts, in the same way.

`ModesProofs` proves, for any starting states and any number of commands, presses, label
pauses, changes of inputs and restarts (`ModesAssumption`):

- `TypeCorrect`: `Spec => []TypeOK`, with the list of the states the row can show at all.
- `ModesCorrect`: `Spec => []ModesInv`. That a runner has its row *between* refreshes says
  nothing of the seconds a refresh takes, so `RunnerKnown` says where the production is at
  each place: in the row, in the copy the refresh has read and will find stopped or
  taken over, or in what it is about to write. `SnapStands`: what it read still stands unless
  somebody wrote the row since, and nobody but a refresh writes state 5. `StartFromPause`:
  a refresh that starts the runner began in state 4 or in a pause, so it cannot have found one
  running; and a pending start is one of state 4. `PauseStopped`: an event handler about
  to write the pause has stopped the runner, unless a refresh has just started it; then
  the store of that refresh makes the handler's copy stale.
- `RemovalStays`: `Spec => RemovalKept`, from `LastLook`: past its second look at the row a
  refresh leaves a pause only if it had read one. `LeavesKnowing` goes through the
  actions that write the row.

Only checked by TLC:

- all liveness: `PrimaryDrains`, `AuxDrains`, `HardFaultWins`, `ProductionEnds`, `TransitionsEnd`,
  the liveness halves of `LabelsSettle` and `BrokerServes`, and the other properties of
  `production` and `machine` whose names tell of an end. Fairness and ENABLED are beyond
  the prover.
- that the three memories of a fault report (`Faults`) lead to the right view: `ViewFollows` is
  liveness, and no invariant states the order of the waiting messages (`AlternationKept`
  is finding 5).

What the proofs changed in the models, beside `RouterWriteRow`: `Panel` asks for a queue
bound above zero (with 0 its type does not hold; `PANEL_BUTTON_QUEUE_MAX` is 100,
`service.py:55`). `ComesNext` of `Broker`, `NextOut`, `Waiting`, `Same` and `Replaced` of `Faults`
are stated over positions of the queue, and `Text` names the stored texts, because the
provers have no theory of `SelectSeq` and `ToString`; the behaviours are the same.

No module declares a RECURSIVE operator; `Inbox` uses one recursive function, `Copies`, of
which no proof needs a value.

## 5. Not modelled

Inside the modelled parts:

- Outbox: bodies of requests, headers, retry counts (only their order matters).
- Inbox: what a command does is one step; `nack` is never called.
- Modes: the times of `mas0002_reset_seen_ts` (a free choice); state 20 (UPS), the
  mask MAP0065; synchronising, rewinding and emptying (10, 11,
  14 to 19: no allowed command reaches them); the rule for a setup command left over from
  before a restart; a pending start older than 120 s; the guard against duplicate starts
  and the stale-start rule of `_write_state` (both unreachable under the refresh lock);
  setup's own clearing of MAS0028; a pause of the runner for a registration fault (a
  fault of `Monitor` here). The durations.
- Purge: the time of `reset_command_rising` beside its order; durations of grace and
  pulses; causes of a critical state other than the e-stop and one resettable fault.
- Start: the parameters that are not read back after being sent; the text of errors.
- Gate: an attempt key that differs between event and fallback because a measured value
  changed meanwhile; the indexed mode's own ready signal; the wait of 60 s for the TTO printer is a
  step without length, though longer than the 20 s a mark lasts.
- Labels: quality bits and status word beside the number; the vision system's judgement.
- Logs: the naming and the lines of the files.
- Printer: the laser's branch; MAP0016 and MAP0035, which bypass the printer.
- Recovery: a restart of the process (the row, `rcP28` and the inputs outlive it); the
  light curtain and the history of a latch, which the stale rules ask for.
- Setup: diameters and positions as numbers, the reports in `info`.
- Panel: the interlocks that refuse a button (a free choice); Leds: `_apply_safety_button_leds`,
  which nothing calls.
- Outputs: pin mapping and field protocol; SeaReady: other outputs of the ESP.
- Broker: the limit of 80 refused connections; two priorities stand for all.
- Faults: the priorities of other reports; Settings: the limits of single parameters
  (a refusal), the laser's route in the run (the theorem has it), the byte formats of printer and laser.

Hazards without a property: `MAS0001=12` and `13` of a label pause are sent under different
dedupe rules (3662); a LED tick may put a row back that it copied before (2038, beyond the
case `MarkerKept` covers); a MAS0028=0 copied during a reset and written after it (475); a
pending start older than 120 s (1612); a message whose insert was refused and answered
200 (`inbox.py:29`); a button pressed in a transition (1517).

Whole components: see the statuses in `PROJECT.json`. Page rendering, files, network
settings and backups are input and output; format profiles are arithmetic on parameters,
one call without state.

## 6. Plan

Done, in this order: `Mailbox` and `Outbox`, `Purge`, `Inbox`, `Modes`, then `Labels`,
`Removal`, `Logs`, `Gate`, `Start`, `Setup`, `Recovery`, `Curtain`, `Printer`, `Panel`, `Leds`,
`Outputs`, `SeaReady`, `Broker`, `Faults`, `Settings`.

Next, in the order of their worth:

1. Theorems: that a message of `Faults` with the newest value is not overtaken, from
   which `ViewFollows` would follow by fairness alone; what `Modes` promises in a production
   (`RunnerHasRow`) from what `Start` does, by refinement.
2. Refinements: `Removal` and `Setup` as implementations of the steps `Modes` takes for
   them; `Faults` over `Outbox`'s rows.
3. Compositions: `Start` with `Broker`, so that a lost answer is the broker's; `Purge` with
   `Recovery`.
4. The reconcile of the ESP listener; permission rules of single parameters; the forms
   of the motor setup; format profiles as functions against a reference.
