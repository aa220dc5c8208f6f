# Verification of kafka_dae_control

TLA+ models, TLC runs and TLAPS proofs for the IOC in `src/src/kafka_dae_control`,
which begins and ends runs on a streaming control board over UDP, announces them in
Kafka, and serves its state as EPICS PVs. Paths below are relative to that package
unless they start with `src/`; `handlers` is `worker_event_handlers.py`.

## 1. The system

### Components, their state and operations

| Component | State | Operations | Correct when |
|---|---|---|---|
| Worker thread (`serve.py`, `process_worker_event.py`) | the mutable `Data`; the queue | take an event, run its handler to the end | no path leaves a put unanswered; exceptions never stop the loop |
| Run handlers (`handlers`, `handle_begin`, `handle_end`) | `data.running`, `job_id`, `run_number` | begin (pause, period 1, run bit, run start, flush, save, poll, resend vetoes), end (clear bit, run stop, flush, count, save, poll) | starts and stops tie up by job id; no run number is used twice; an acknowledged begin or end is in Kafka |
| Set-point handlers (`handlers`) | one register and one field of `Data` each | write and verify, record, answer | a field changes only after its register |
| Veto handler (`handlers`, `handle_vetoes_change`; `utils.py`) | `data.vetoes` | make the masks, write the hard one, send vc00 with all, flush, record, save | board, memory, disk and topic agree, every veto at its bit |
| Software vetoes (pause, run control) | two bits of one register | read, OR or AND NOT, write, verify | neither bit disturbs the other |
| `EventWithError` | flag and exception | set, set error, wait | the waiter sees the last of them |
| Queue (`queue_utils.py`) | a priority queue ordered by priority, then time | put, get | HIGH before LOW, FIFO inside |
| PV puts (`pvs/static_pvs.py`) | one blocked p4p thread each | validate, queue, wait, answer | every put ends |
| Polling thread (`threads/hardware_polling_thread.py`) | count of failed polls | read all registers under the lock, queue a LOW update; resend the local IP after repeated failures | stale readings do not last; a board that comes back is found again |
| Board communication (`comms.py`) | the socket, the lock | read, write, write and verify with retries | a reply is the reply to the request; verified means written |
| State file (`save_restore.py`) | run number, job id, vetoes | save (truncate, write), load | a restart continues where the worker was |
| Kafka producer (external) | messages in flight, delivery reports | produce, flush with a timeout | the report of a message sets the event of its put |
| PV updates (`threads/update_pvs_thread.py`) | the PVs | copy `Data` to the PVs every interval | a value without an alarm was read from the board; the PVs end up right |
| Channel access monitors (`pvs/camonitor_callbacks.py`) | - | queue block names (LOW) and run control (HIGH) | a run starts with the blocks current at its begin |
| Start-up (`config.py`, `firmware_xml.py`, `cli.py`), `udptalk.py`, `run_start_nexus_structure.py` | none that changes | parse, format | - |

### How they interact

Every put of a PV runs on a thread of the p4p pool. It queues an event that carries an
`EventWithError` and blocks until that is set. The worker is the only thread that changes
`Data`. It reaches the board through the socket and the producer through `produce` and
`flush`; delivery reports are callbacks that run *inside* `flush`, on the worker, for any
message that happens to have been acknowledged by then. The polling thread reads the board
under the same lock and puts what it read on the queue after releasing it. A restart
reloads three fields of `Data` from the state file and queues the veto configuration again.

### What is hard

* `data.running`, the only guard of a begin or end, changes by an event that queues up
  behind the commands it should guard against.
* A begin changes three registers, the topic, the file and the queue one after the other,
  and may fail or be killed after any of them.
* A flush that times out is treated as one that succeeded, and its report is served later,
  during another handler, or never.
* Copies wait in queues: a poll reading, the vetoes a begin sends again.
* A crash may fall between the topic and the file, or inside the write of the file.
* Two threads share one UDP socket, on which datagrams are lost and late, with a board that
  answers nobody after a power cycle until its registers say whom.
* `Data` has no lock: a readback goes from the board through the polling thread, the queue, the
  worker and the UpdatePVs thread, field by field.
* The queue is ordered by `time.time()`, which may repeat itself or step back.

`PROJECT.json` lists every hazard at its line, with the properties that speak of it.

## 2. Modules

| Module | Models |
|---|---|
| `WorkerQueue` | the priority queue of the worker: one FIFO per priority |
| `TimedQueue` | the same queue with the time stamps it is really sorted by, and a clock that misbehaves; only proved about |
| `RunControl` | worker, run handlers, pause, period, period mode, vetoes, polling, puts, Kafka, state file, crash and restart |
| `RunInfo` | abstract: what readers of the run info topic are promised |
| `RunInfoRefinement` | the refinement mapping from `RunControl` to `RunInfo` |
| `MCRunControl` | the sets of puts the TLC runs use |
| `BoardRegisters` | registers, flags, and what an operation writes and verifies |
| `VerifiedWrites` | abstract: what handlers rely on when they change a register |
| `BoardLink` | socket, lock, worker and polling thread, datagram by datagram |
| `BoardLinkRefinement` | the refinement mapping from `BoardLink` to `VerifiedWrites` |
| `MCBoardLink` | the operations and poll sequences the TLC runs use |
| `Settings` | periods and frame sync: what puts are refused, what is written, what a register value becomes on its way back |
| `VetoMask` | `array_to_mask` and the two masks made with it |
| `Setpoints` | puts of settings and vetoes, their handlers, what a begin does to them, the run control and block name monitors, failing writes, restarts |
| `MCSetpoints` | the puts and registers of its TLC run |
| `Readbacks` | board, polling thread, worker's assignments, UpdatePVs, alarms, failed polls, a lost board, power cycles, restarts |
| `MCReadbacks` | the fields and boards of its TLC run |

The theorems are in `WorkerQueueProofs` (lemmas on the queue, used by the others),
`RunControlProofs`, `RunStateProofs` and `RunPromiseProofs`, `BoardLinkProofs`, `TimedQueueProofs`, `SetpointsProofs`
and `ReadbacksProofs`, each for every value of the constants of its module.

`RunControl` looks at the handlers with each verified write as one step, `BoardLink` at one
verified write with the handler reduced to it. `VerifiedWrites` is where they meet: a `Write`
of `RunControl` is its `Apply` and `Done`, a `WriteFails` its `Failed` with or without an `Apply`.
`Setpoints` takes the handlers that have no run state as one step each and adds what `RunControl`
abstracts from: the values and arrays, what does not fit a register, and where set points come from.
`Readbacks` is the way back. `Settings` holds what is common to both ways.

### RunControl and the code

| Variable | Code |
|---|---|
| `data` | the fields of `Data` that decide what a handler does or that persist |
| `queue` | the `PriorityQueue` of `serve.py` |
| `pc`, `event` | where the worker is in the handler of which event |
| `done`, `puts`, `asked` | the `EventWithError` of each put, what its client was told, what it asked for |
| `pollPc`, `pollValue` | the polling thread between its read and its put |
| `board` | five registers of the board (of `run_register` the running bit, of `vetoes_software` the pause bit) |
| `stateFile` | `state.json`: absent, torn (opened for writing, not yet written) or saved |
| `outbox`, `reports`, `topic` | messages in flight, delivery reports no flush has served, the run info topic |
| `faults` | the faults that have happened, in order: some properties are about histories without certain faults |

The worker's actions follow the statements of a handler. What precedes its first register
write is one step with `queue.get`, because only the worker reads or changes `data`; each
verified write, `produce`, every served delivery report, the end of `flush`, the opening
and the writing of the state file, the poll and the resend are steps of their own, between
which puts, answers, polls, deliveries and crashes interleave.

* `handle_begin`: `RefuseBegin`, or `AcceptBegin` (new job id), `BeginPause`, `BeginPeriod`
  (in COMPUTER mode), `WriteThenProduce`, `Produce`, `ServeReport`*, `FlushReturns` or
  `FlushTimesOut`, `OpenStateFile`, `DumpState`, `WorkerPoll`, `ResendVetoes`.
* `handle_end`: `RefuseEnd`, or `AcceptEnd`, then the same from `WriteThenProduce` on;
  `AfterFlush` counts the run, and there is no resend.
* `handle_vetoes_change`: `TakeOther`, `WriteThenProduce`, `Produce`, ..., `DumpState`. Only
  its write is inside a `try`: `Raise` leaves the put unanswered past it.
* `handle_pause_or_resume`, `set_current_period`, `set_period_mode`, `set_board_response_ip`:
  `TakeOther` and one write.
* `RequestPut` and `Answer` are the two halves of a put handler: before and after `ev.wait()`.

Faults, each counted against `MaxFaults` and enabled by `FaultKinds`: `comms` (a verified
write raises, with or without effect; a poll fails), `produce` (it raises), `delivery` (a
message is given up; the broker may still have it), `timeout` (a flush returns early),
`disk` (the save raises before or after the truncation), `crash` (process killed, restarted).

Abstractions: the uuid of a run is the put that began it; a veto configuration is a number;
payloads are reduced to kind, job id and run number; a verified write is one step (`BoardLink`
takes it apart); two puts race only by the order in
which they enter the queue, which is what `TimedQueue` shows for any clock that advances.

### BoardLink and the code

| Variable | Code |
|---|---|
| `board` | four registers as sets of flags; `comms` has `local_ip` when the board knows whom to reply to |
| `inbox`, `late` | replies in the buffer of `sock`, and still on their way |
| `awaiting` | the address asked for by the `read` in progress |
| `holder` | the owner of `sock_lock` |
| `step`, `op`, `current`, `writes`, `verifies`, `outcome` | where the worker is in `write_verify` or one of its two callers, and with what |
| `pollPc`, `readings`, `errors` | the polling thread, the local variables of `poll_hardware`, `consecutive_comms_errors` |
| `queue` | the worker's queue, of operations and hardware updates |
| `asked`, `faults` | the bounded events and faults so far |

* `read` is `SendRead`, then `ReadGets` or `ReadRaises` (a timeout, or a reply about another
  register). Between the two, replies arrive and the board may be power cycled.
* `write_verify`: `SendWrite`, `WorkerSends`, then `VerifySucceeds`, `VerifyDiffers` (verify again,
  write again, or give up) or `WorkerRaises`. `write_OR_then_verify` and
  `write_AND_INV_then_verify` read first: `WorkerSends`, `ReadsCurrent`. `Lock` and `End` are the
  `with sock_lock` of the handlers.
* `poll_hardware`: `PollStarts` takes the lock, `PollSends` and `PollReads` alternate, the last
  read releases the lock, `PollPuts` queues the update. `PollRaises` is a failed poll with the count
  and the resend of the local IP of `hardware_poll_thread`.
* `Ask` queues an operation, as a put of a PV or a change of run control does.

Faults: `lost` (a request, a reply or a write does not arrive), `late` (a reply arrives after
its read has timed out), `power` (all registers are cleared). The value of a register is the
set of flags the handlers change in it, by an assignment, an OR or an AND NOT; each
handler verifies by its flag. A handler of several writes is several operations here.
The worker's own poll after a begin or end is the poll of the polling thread, in another thread
but under the same lock, and is left out.

### TimedQueue and the code

`Create` is the constructor of `QueueItem`, which reads the clock; `Put` and `Get` are those of
`PriorityQueue`. Between its creation and its put an item belongs to its thread (`putting`), so
that items enter the queue in another order than that of their stamps. `Before` is the order of
the dataclass (priority, then time; the item is not compared), and `Get` may return any of
several least items. An item carries in `seen` what was in the queue when it was created.

### Setpoints and the code

| Variable | Code |
|---|---|
| `registers`, `vetoes_mask`, `rcVeto` | five scalar registers of the board, its hard vetoes, the run control bit of `vetoes_software` |
| `data` | the set points, `vetoes` and `blocks` of `Data` |
| `spPvs`, `wanted`, `puts`, `done` | the set-point PVs, and each put with its event, its answer and its `EventWithError` |
| `resending` | the worker is in a begin, between the answer of its put and the resend of the vetoes |
| `overlapped` | PVs that had two puts in progress at a time; the vetoes, also a put behind a begin that sends the old ones again (an observation, not code) |
| `sent` | the mask of the latest vc00 message |
| `inRange`, `blockNames`, `notify` | the monitored PVs of two other IOCs, and the monitors with a change to deliver |

`RequestSetpoint` and `RequestVetoes` are the put handlers up to `ev.wait()` with their refusals
(`Refused`), `Answer` the rest: the post, then the answer. `HandleSetpoint` is one of five
handlers that write and verify a register, record the set point and set the event;
`SetpointOverflows` is a value `write` cannot encode, `SetpointFails` any other failure. Likewise
`HandleVetoes`, `VetoesOverflow`, `VetoesFail`; `HandleRunControl`, `RunControlFails`; and
`HandleBlocks`. A begin (`RequestBegin`) is refused (`RefuseBegin`), fails at any of its writes
(`BeginFails`), or is `HandleBegin`, in COMPUTER mode with the `set_current_period(1)` that changes the
register and `Data` but posts no `PERIOD:SP`, and then `ResendVetoes`, with puts and answers in between;
whether the board runs is in `RunControl`, so that refusing is a free choice here. The cases of
`process_worker_event` that touch none of this (hardware updates, ends, pausing, `SetIPEvent`) are left to the
other modules. `RunControlCallback` and `BlocksCallback` are the two camonitor callbacks. `Restart`
keeps of `Data` what the state file has. The masks are sets of bit positions; `Padding` is what
`np.packbits` shifts an array by that is not of whole bytes.

### Readbacks and the code

| Variable | Code |
|---|---|
| `board`, `poll` | the registers, and what the polling thread has read and not yet put |
| `queue`, `updating`, `reading`, `data` | hardware updates, the assignments of `process_worker_event` still to be made, of which update, and the readbacks of `Data` |
| `posting`, `alarm`, `pvs` | the posts of `update_all` still to be made, the alarm it read at its start, the PVs |

Every value carries whether it was `polled` or is a default. `AssignField` and `PostReadback` are one
assignment and one post, in the order of the code. `HandlerWrites` stands for the handlers
of `RunControl` and `Setpoints` that change the board, with the count of an end and the poll at
HIGH of a begin or an end; it waits for the assignments, which the same thread makes. After `BoardLost` no
poll and no write succeeds any more: `poll_hardware` logs the failure and puts nothing.

## 3. Runs

The runs of run control instantiate `MCRunControl`. Passing runs:

| Run | Faults | Properties | Shows |
|---|---|---|---|
| `interleavings` | two of any kind, crashes included | `TypeOK`, `AckedMeansDelivered`, `AnnouncedBoardIsReady`, `DiskTracksMemory`, `VetoesAgree`, `NoPutIsForgotten` | two concurrent puts of any kind: success means the message is in the topic; a run start means a board in the state asked for; the file lags behind memory only while an event is on its way to its save; board and memory agree on the vetoes again after a crash; while a put waits its answer is still to come |
| `clients` | one of any kind, crashes included | `StopNamesAStartedRun`, `StoppedRunNumberNotReused`, `EveryPutAnswered`, `SettlesToBoard` | three begins, ends and veto changes on a pool of two threads: stops name started runs and numbers are not used again, also when a save fails; every put ends but for the two ways of being stranded below; HWRUNNING ends up right |
| `alternation` | one failing save or flush timeout | `TopicAlternates` | clients that wait until the IOC has settled: the topic implements `RunInfo` |

A crash may lose more than the event in progress: `save_file` truncates the file before it writes it
(`save_restore.py` 27), and a process killed in between leaves a file that `load_data` raises on. Run number,
job id and vetoes are then lost and the IOC does not start again until someone removes the file
(`pc = "dead"` in `RunControl`). `DiskTracksMemory` says that this is the only step at which the file is torn,
not that it is safe.

Violations, each a finding with the line it contradicts in `PROJECT.json`:

| Run | Property | What happens |
|---|---|---|
| `double_begin` | `BeginOnlyWhenBoardStopped` | two queued begins are both accepted, two starts follow each other (two queued ends are, too) |
| `vetoes_resent` | `ResendKeepsVetoes` | the resend of a begin reverts an acknowledged change of the vetoes |
| `broker_down` | `FailedSendErrorsThePut` | the flush of a begin returns after 1 s, Kafka gives the message up later, no further flush serves the report: the put waits for ever, although `src/doc/pvs.md:9,15` say that it will error |

`broker_down` is not an exotic schedule: `flush_timeout_s` is 1 s (`defaults.py` 8), and as nothing configures
`message.timeout.ms` (`src/config.example.toml`), librdkafka gives a message up after 300 s. With the broker
down, every flush ends before the report it waits for exists.

Properties leave out the faults under which the code breaks them, by the run's `FaultKinds` or by
`Happened` in the property:

* `StopNamesAStartedRun` is about histories in which nothing but saves has failed (`OnlySavesFailed`). It does
  not hold when a write of a begin fails: the begin, reported as failed, has already set its job id (`handlers` 98), and if the board runs the next end stops a job
  that was never started.
* `StoppedRunNumberNotReused` has the same precondition. It does not survive a crash between the delivery of a stop and the save
  of the count (`handlers` 214 to 216).
* `EveryPutAnswered` names the two ways in which the code strands a put (`Stranded`), and allows no other: a
  flush that times out before the report of its message exists, when no later flush serves it (the finding of
  `broker_down`), and a veto change whose `produce` raises, outside the handler's `try` (`handlers` 418).
* `NoPutIsForgotten` is about histories without a failing `produce`. Under every other fault a
  waiting put has its answer still to come, at the latest with the next flush, if there is one.
* `TopicAlternates` does not hold when a flush times out and a save fails after it: the failed save
  answers a put whose message is still in flight, and the message of the next command may overtake it.
* `DiskTracksMemory` is about histories without a failing board access, produce or save; `VetoesAgree`
  about those without a failing board access or produce.
* `PollingRecoversFromLoss` leaves late replies out (`late_reply`).

The runs of the board link instantiate `MCBoardLink`. Passing runs:

| Run | Faults | Properties | Shows |
|---|---|---|---|
| `link_safety` | three lost datagrams | `SocketInStep`, `PollIsASnapshot`, `ImplementsVerifiedWrites` | a reply answers its request, a poll is a state of the board, and the link implements verified writes |
| `link_recovery` | two lost or late datagrams or power cycles | `LinkTypeOK`, `AttemptsRunOut`, `PollingRecoversFromLoss`, `WorkerCatchesUp` | every step of an operation brings it nearer to its end, every operation ends and every event is taken; polls succeed again unless a reply was late |

Violation:

| Run | Property | What happens |
|---|---|---|
| `late_reply` | `PollingRecovers` | one late reply stays in the socket; each read takes the reply to the one before, each poll raises, for as long as no other reply is lost |

`late_reply` is why what is checked and proved about the socket excludes late replies:
with one, `SocketInStep` is lost and nothing in `comms.py` restores it. `write_verify` does not retry
after a read that times out either (`VerifyDiffers` retries, `WorkerRaises` does not).

The other passing runs:

| Run | Faults | Properties | Shows |
|---|---|---|---|
| `setpoints` | a failing board access or a restart | `SetpointsTypeOK`, `VetoBitsInPlace`, `SetpointsAgree`, `MonitorsAgree`, `MonitorsSettle` | registers get only what fits them; every veto is at its bit; set-point PVs without a put under way are what the worker holds, but for a period that a begin has set back, and without faults the board has them too; with nothing on its way, and so in the end, run control and blocks are what the other IOCs say |
| `readbacks` | a failed poll, a lost board or a restart; power cycles | `ReadbacksTypeOK`, `NoAlarmMeansPolled`, `SettledStays`, `ReadbacksSettle` | a PV without an alarm shows a reading; in the end all readback PVs show a board that answers, and their values keep to it until it changes |

Violation:

| Run | Property | What happens |
|---|---|---|
| `stale_alarm` | `AlarmWhenUnreachable` | the board is lost after a good poll: nothing queues the `HardwareUpdateFailedEvent` that would clear `last_hardware_update_ok`, and the last readings are posted without an alarm for ever, although `data.py:81` says of the mark "Whether the most recent hardware update successfully polled the hardware." |

The docstring of `array_to_mask` (`utils.py:10`: element N is bit N) is true of whole bytes only, as
`np.packbits` pads any other array and shifts its bits; `VetoBitsInPlace` and `MaskOfWholeBytes` are limited to
whole bytes. What the program makes itself has 32 elements, but `VETO:SP` takes any array. Values outside 0..2
count as disabled in both masks, and are not modelled.

Two more slips have no behaviour behind them that a run could show: `src/doc/pvs.md:22` gives the pause bit as 5,
which `defaults.py` has as run control (pausing is 6), and the choices of `PERIODTYPE:SP` leave `NOT_USED` out, so that
its index is not that of `PERIODTYPE`.

What else the properties leave out, and no line of the repository that we know of speaks of:

* Two puts of one set-point PV at a time are posted in any order: the PV may show the first while
  the board and `Data` have the second, for good. `SetpointsAgree` leaves such PVs out (`overlapped`).
* A begin in COMPUTER mode calls `set_current_period(1)`, which nobody posts to `PERIOD:SP`: `SetpointsAgree`
  allows that one difference (`PeriodReset`) and holds the register to what `Data` has.
* A set point whose write took effect but is reported as failed is on the board and not in its PV:
  `SetpointsAgree` speaks of the board only without faults.
* A write of the run control veto that fails is logged and not repeated (`MonitorsSettle` and `MonitorsAgree` leave
  that fault out).
* After a restart the set points other than the vetoes are the defaults, in memory and PVs alike,
  whatever the board has; a run start then says `n_periods` 1 and a begin does not go to period 1.
  After a power cycle of the board nothing sends it its vetoes or the run control bit again.
* `update_all` posts the run number before `running`: within one round a client may see a run ended
  that is already counted, or the reverse.

### Bounds

In `RunControl`, `MaxPuts` 2 gives every pair of operations in every order, with a second event always queued
while the first is handled; `alternation` takes 4, enough for begin, end, begin, end,
and `clients` 3, enough for begin, end, begin and for a doubled command. `MaxLow` 1 keeps one stale reading
waiting while a second is read and not yet put, which is all that a later one can
overwrite. `PoolSize` 2 with 2 puts lets both be concurrent, and in `clients`, with 3, the pool is
exhausted; in `alternation` it never is, as clients wait for each other. `MaxPeriod` 2 has a period other than the first. `MaxFaults` 2 covers a fault during
the handling of another; `broker_down` needs a flush of the begin that times out, a message given up, and a flush of
the resent vetoes that times out too. In `BoardLink`, two operations (one in `link_recovery`, with the SetIPs
the polling thread adds) race with the SetIP of the start, with each other and with polls that never end; two write and two verify attempts have a first, a last and
a repeated one of each; three losses fail both reads of an operation and a poll; a poll of two registers
has one that changed between two reads and a reply of the wrong address; `ResendAfter` 2 lets the
count pass, be reset and come round. `MaxWaiting` holds the polling thread back while the queue has that many
items; the code's queue is unbounded, so that `WorkerCatchesUp` says that the worker reaches every event, not that the
queue stays short.

`setpoints` has bytes of two bits and registers of four, with an array of one byte and one that is not of
whole bytes and has a hard veto beyond the register; values that are refused, that do not
fit, and that are taken; `MaxWord` 48, the largest named mode. Three puts, two of which may overlap: the first is
of the period, the second of the mode or the vetoes or a begin, the third of anything but the mode (`MayAsk`), so that a begin in
COMPUTER mode can overtake, follow or be overtaken by a put of the period, and the vetoes it sends again a put of the
vetoes. One change races with a failing access or a restart (`MaxFaults` 1). `readbacks` has three
of seven fields, one of each kind of conversion, and the run number; three boards;
two changes, a begin and an end or a power cycle; and one fault of three. `stale_alarm` has one change and the loss of the board.
Deadlock is allowed where everything may be over: a torn state file stops the IOC for good (`interleavings`,
`clients`), puts and changes are bounded (`setpoints`, `broker_down`).

### Fairness

`FairSpec` assumes weak fairness of the worker's steps (its loop never waits but for an
event, a bounded UDP wait or a flush), of the broker's deliveries, of the two halves of
a poll (an endless loop with a sleep) and of each put thread's answer. No client has to ask, and
no fault has to happen. A flush that times out is the fault `timeout`; that one lasts for ever is excluded.

In `BoardLink` the worker's and the poller's steps are weakly fair, and the worker's `Lock` is
strongly fair: the polling thread sleeps `poll_interval_s` without the lock between two polls, so a
worker that waits gets it. No operation has to be asked for; faults are bounded.

In `Setpoints` the worker, the callbacks of changes that have happened and the answers are weakly fair;
in `Readbacks` the two halves of a poll, the worker's update and each of its assignments, and each round of
UpdatePVs and its posts: the loops of the threads. Clients, changes of the board and faults are not.

## 4. Proofs

`RunControlProofs` proves, from the named assumptions on the constants only:

* `TypeCorrect`: `Spec => []TypeOK`. `TypeOK` is inductive as it stands; the conjunct on the events
  that wait (a period is at least 1) is what makes the period written to the board a value.
* `AcknowledgedRunsAreDelivered`: `Spec => []AckedMeansDelivered`. A put passes through the queue,
  the handler, the producer and a report before its event is set, so the invariant
  `DeliveryInv` follows it: every event in the queue (`QueueInv`) and at the worker
  (`WorkerInv`) is of the type its put asked for, every message (`OutboxInv`) and report
  (`ReportInv`) belongs to a put that was made, a good report and a set event
  (`DoneInv`) of a begin or end have their message in the topic. A put not made yet is
  referred to by nothing, which a new put needs. It holds under all faults, crashes included.
* `StartsAnnounceAReadyBoard`: `Spec => []AnnouncedBoardIsReady`. Only the worker writes
  registers, so `ReadyInv` carries what `BeginPause` and `BeginPeriod` have written to the produce.

`RunStateProofs` proves of the same specification:

* `FileIsUpToDate`: `Spec => []DiskTracksMemory`. job_id changes when a begin is accepted, run_number
  and vetoes after the flush; `FileInv` says at which steps the file may lag behind which field, and that it
  is torn only between its opening and its writing. The property is not inductive: it says nothing of job ids while a veto change
  or another setting is written.
* `BoardHasTheVetoes`: `Spec => []VetoesAgree`. `MaskInv`: when board and data differ, a veto event is
  waiting, or its handler is at a step that will make them agree; `StageInv` says which event a handler
  at each step has.
* `StopsNameStartedRuns`, `RunNumbersAreNotReused`: `StopNamesAStartedRun` and `StoppedRunNumberNotReused`,
  which speak of histories in which only saves have failed (`OnlySavesFailed`; other faults break them, see above). `SendInv`: the only
  message in flight is that of the handler in its flush. `SeenInv`: nothing that looks like a run is
  on the board, in `Data`, in a poll or in a queued update before the first begin, so that no end is accepted
  before it. `StartInv`: the job id is that of a start in the topic unless that start is still to come, which
  no other handler can overtake. `NumberInv`: a start has a larger number than any run stopped before
  it, and `data.run_number` is past them as soon as the stop is counted.

`RunPromiseProofs` proves of it what clients and readers of the topic are promised:

* `NoPutIsEverForgotten`: `Spec => []NoPutIsForgotten`, under all faults but a `produce` that raises. This is
  the safe half of `EveryPutAnswered`: what a waiting put waits for exists. It needs `DeliveryInv`, so that an
  event carries the put it was asked by, and `StageInv`, so that no handler ends without having answered or
  sent.
* `TopicImplementsRunInfo`: `Spec => TopicAlternates`, the refinement of `RunInfo`, assuming `OneAtATime`: clients
  wait until the IOC has settled, and saves fail or flushes time out (any number of times; both if only one
  fault happens in all). `PatientInv` says what waiting buys: a begin or end is at one place at a time, alone in
  the queue before an idle worker that knows whether the board runs, at its handler, or a message in flight, and
  has no answer yet (`QueuedInv`, `HandlingInv`, `MessagesInv`); then the board runs just when the topic is open, but for the command under way (`BoardInv`), `run_number` counts the
  stops but for an end not yet counted (`CountInv`), and `job_id` is that of the last start (`JobInv`). A
  delivery is the `Start` or `Stop` of `RunInfo`, every other step a stutter.
* `RunsKeepTheirIdentity`: `StopsNameStarts` and `StoppedNumbersStay`, what those two properties say where only saves fail,
  under the assumption of `TopicImplementsRunInfo`. The theorems of `RunStateProofs` allow any clients but no flush that times out; this one has it the other way
  round, since the log of `RunInfo` has both properties (`NumbersGrow`).

`BoardLinkProofs` proves, for any operations, poll sequence, attempts and number of faults:

* `LinkTypeCorrect`: `Spec => []LinkTypeOK`, under all faults. `TypeInv` adds what its bounds rest
  on: a worker that is not idle has one operation, the attempts of `write_verify` are below their limits
  wherever they are counted up, and a poll in progress has a register left to read.
* `RepliesAnswerTheirRequest`, `PollsAreSnapshots`: `SocketInStep` and `PollIsASnapshot`, assuming
  `LossesOnly` (no late reply, no power cycle; `late_reply` shows that the first is needed, and a board
  switched off between two reads is not the board of a snapshot). They are invariant only together:
  `WireInv` says who holds the lock when (`LockInv`), that the address waited for is that of
  the holder (`AwaitInv`), and that what is about to be written is what the operation makes of the
  register as it is now (`CurrentInv`), which needs the socket in step at the read and the
  lock since.
* `LinkImplementsVerifiedWrites`: the refinement, under the same assumption. `SendWrite` is `Apply` (a
  repeated or a lost one a stutter or a fault), the end of an operation `Done` or `Failed`; that it is
  `Done` only when the flag is as wanted is `SocketInStep` at the last read.
* `EveryOperationRunsOut`: `Spec => AttemptsRunOut`, under all faults, late replies and power cycles included. This
  is the safe half of `WorkerCatchesUp`: the steps an operation can still take (`StepsLeft`) get fewer with each
  step of the worker and are never added to by the polling thread, the network or the board, so that fairness
  has only to make the worker step. That polls leave `awaiting` alone while the worker reads is `LockInv`, which
  holds under all faults.

The other modules:

* `FifoWhileTheClockAdvances` (`TimedQueueProofs`): of two items of one priority the worker takes the one first that was
  there when the other was created, for any threads and items, until the clock fails (`RealTimeOrder`). The invariant: an
  item in the queue when another was created has the smaller stamp.
* `RegistersHoldWhatFits`, `EveryVetoAtItsBit` (`SetpointsProofs`): `SetpointsTypeOK` and
  `VetoBitsInPlace`, for any widths, puts and arrays. `VetoesOnTheWay`: the masks are those of
  `data.vetoes`, or the first veto event in the queue is that array. `MaskOfWholeBytes` is the lemma that the
  code's mask of an array of whole bytes is what the docstring promises; `ReadBackWhatWasPut` says that
  a value that is not refused and fits comes back from its register as it was put.
* `SetpointsAlwaysAgree` (`SetpointsProofs`): `SetpointsAgree`, for any puts, begins, faults and restarts. `PutsInvariant`: a
  PV that never had two puts at a time has at most one unanswered (`OnePutAtATime`), whose event is queued
  or dealt with (`EventsArePuts`); no veto change of a client is queued behind a begin or ahead of a configuration
  that is sent again, unless it counts as overlapped (`VetoOrder`); until it is posted the PV lags behind `data` by just that put
  (`PvsFollow`), and what was written reads back (`ReadsBack`, by `ReadBackWhatWasPut`), what a begin wrote to the period too.
* `MonitorsAlwaysAgree` (`SetpointsProofs`): `MonitorsAgree`. `MonitorsInvariant`: changes of one monitor are queued in
  their order and at one priority, so that the last of them in the queue is the latest change of a monitor that
  has nothing to deliver (`VetoComes`, `NamesCome`).
* `ReadbacksAreTyped`, `NoAlarmOnlyAfterAPoll` (`ReadbacksProofs`): `ReadbacksTypeOK` and
  `NoAlarmMeansPolled`, for any fields in any order. `PolledFirst`: once the flag is set all
  fields are polled, while it is not yet set those before the assignment in progress are, and a round of
  posts without an alarm began after that.
* `SettledReadbacksStay` (`ReadbacksProofs`): `SettledStays`, the safe half of `ReadbacksSettle` as far as values go: polls, updates and posts
  cannot lead away from what they lead to.

The inductive invariants were checked with TLC before they were proved. Only model-checked: the liveness
properties (fairness and ENABLED are outside the prover's reach; the theorems on `NoPutIsForgotten`,
`AttemptsRunOut`, `SettledStays` and `MonitorsAgree` are the safe halves of `EveryPutAnswered`, `WorkerCatchesUp`, `ReadbacksSettle`
and `MonitorsSettle`) and all violations.

## 5. Not modelled

`cli.py`, `udptalk.py`, `config.py`, `firmware_xml.py`, `defaults.py`: parsing, constants and a
stand-alone tool, run once before any thread starts or apart from the IOC. The JSON of
`run_start_nexus_structure.py` and the layout of the flatbuffers: a pure function of the blocks and two topics; that the
blocks are those of the block server is in `Setpoints`. A callback or a put whose value cannot
be decoded raises before it queues anything. librdkafka, the broker, p4p, the block
server, the run control IOC and the board are external and modelled from how the code uses them.

## 6. Plan

Done: `RunControl`, `BoardLink`, `TimedQueue`, `Setpoints`, `Readbacks`, their runs and theorems. What is left:

1. The safe half of `SettlesToBoard`: once `data.running` is that of the board and every reading on its way too,
   it stays so until the next begin or end.
2. A composition of `Readbacks` with `RunControl`, in place of `HandlerWrites`.
