----------------------------- MODULE RunControl -----------------------------
(***************************************************************************)
(* Beginning and ending runs: the worker thread of serve.py with its       *)
(* handlers (worker_event_handlers.py), the p4p put handlers that wait for *)
(* it (pvs/static_pvs.py), the hardware polling thread, the state file     *)
(* (save_restore.py), the Kafka producer and the streaming control board.  *)
(*                                                                         *)
(* A verified register write (comms.write_verify) is one step here.  Its   *)
(* failure is the fault "comms": the exception reaches the handler whether *)
(* or not the board took the value (a lost verification reply looks like a *)
(* lost write).                                                            *)
(***************************************************************************)
EXTENDS WorkerQueue, Integers, FiniteSets

CONSTANTS
    MaxPuts,            \* bound: PV puts the clients make, over all restarts
    MaxLow,             \* bound: hardware updates waiting at LOW priority
    MaxFaults,          \* bound: faults of FaultKinds that happen
    PoolSize,           \* threads of the p4p pool that run put handlers
    MaxPeriod,          \* largest period a client asks for
    Requests,           \* what clients may put: [type, value] records
    FaultKinds,         \* the faults that may happen
    PatientClients      \* whether a client waits for the IOC to settle

On  == 1
Off == 0
Bit == {Off, On}

Computer    == 0        \* PeriodMode.COMPUTER
OtherMode   == 1        \* any other settable mode
UnknownMode == -1       \* PeriodMode.UNKNOWN, the default of Data

Faults ==
    {"comms", "produce", "delivery", "timeout", "disk", "crash"}

RunCommands == {"begin", "end"}
ClientTypes ==
    RunCommands \cup {"pause", "current_period", "period_mode", "vetoes"}
EventTypes == ClientTypes \cup {"hardware_update", "set_ip"}

PutId == 1..MaxPuts
NoPut == 0              \* the done_event of an event nobody waits on
NoJob == 0              \* the empty job_id of a fresh Data
Value == 0..MaxPeriod   \* bits, modes, veto settings and 1-indexed periods

\* The registers the handlers of this module write.  Of vetoes_software it is
\* the pause bit; period_comp_current counts from 0.
Register == {"run_register", "vetoes_software", "vetoes_mask",
             "period_comp_current", "period_control"}

Data == [running : Value, paused : Value, job_id : PutId \cup {NoJob},
         run_number : Nat, vetoes : Value, current_period_sp : Value,
         period_mode_sp : Value \cup {UnknownMode}]
StateFile == [status : {"absent", "torn", "saved"}, job_id : PutId \cup {NoJob},
              run_number : Nat, vetoes : Value]
Event   == {e \in [type : EventTypes, put : PutId \cup {NoPut}, value : Value] :
                e.type = "current_period" => e.value >= 1}
Message == [kind : {"start", "stop", "vetoes"}, job : PutId \cup {NoJob},
            run : Nat, put : PutId \cup {NoPut}]
Report  == [put : PutId \cup {NoPut}, err : BOOLEAN]

ASSUME MaxPutsAssumption   == MaxPuts \in Nat
ASSUME BoundsAssumption    == MaxLow \in Nat /\ MaxFaults \in Nat
ASSUME PoolSizeAssumption  == PoolSize \in Nat \ {0}
ASSUME MaxPeriodAssumption == MaxPeriod \in Nat \ {0}
ASSUME RequestsAssumption  ==
    Requests \subseteq [type : ClientTypes, value : Value]
ASSUME FlagRequestsAssumption ==
    \A r \in Requests : r.type # "current_period" => r.value \in Bit
ASSUME FaultKindsAssumption == FaultKinds \subseteq Faults
ASSUME PatientAssumption    == PatientClients \in BOOLEAN

VARIABLES
    board,      \* the registers of the streaming control board
    data,       \* the Data object, mutated by the worker only
    stateFile,  \* state.json
    queue,      \* the worker's queue
    pc,         \* where the worker is in the handler of event
    event,      \* the event the worker handles
    pollPc,     \* where the polling thread is
    pollValue,  \* the running bit the polling thread has read
    asked,      \* the type of each client put
    puts,       \* what the client of each put has been told
    done,       \* the EventWithError of each put
    outbox,     \* messages the producer has not delivered
    reports,    \* delivery reports that no flush has served
    topic,      \* the run info topic, oldest message first
    faults      \* the faults that have happened, in order

workerVars == <<pc, event, data, stateFile>>
pollVars   == <<pollPc, pollValue>>
clientVars == <<asked, puts>>
kafkaVars  == <<outbox, reports, topic>>
vars == <<board, queue, done, faults, workerVars, pollVars, clientVars, kafkaVars>>

------------------------------------------------------------------------------
\* The program's state.

NewData == [running |-> Off, paused |-> Off, job_id |-> NoJob, run_number |-> 0,
            vetoes |-> 0, current_period_sp |-> 1, period_mode_sp |-> UnknownMode]

NoFile   == [status |-> "absent", job_id |-> NoJob, run_number |-> 0, vetoes |-> 0]
TornFile == [NoFile EXCEPT !.status = "torn"]

\* What save_file writes of the data object.
Saved(d) == [status |-> "saved", job_id |-> d.job_id,
             run_number |-> d.run_number, vetoes |-> d.vetoes]

\* load_data, of a file that is not torn: a missing file gives the defaults, which NoFile holds.
Loaded(file) == [NewData EXCEPT !.job_id = file.job_id,
                                !.run_number = file.run_number,
                                !.vetoes = file.vetoes]

HighEvent(q, type, put, value) ==
    PutItem(q, "HIGH", [type |-> type, put |-> put, value |-> value])

NoEvent == [type |-> "set_ip", put |-> NoPut, value |-> 0]

\* Mutant of BootQueue: the veto configuration is not sent again.
BootQueueNoVetoes(d) == HighEvent(EmptyQueue, "set_ip", NoPut, 0)

\* serve() up to its loop: the board is told where to reply, and the veto
\* configuration is sent again.
BootQueue(d) ==
    HighEvent(HighEvent(EmptyQueue, "set_ip", NoPut, 0), "vetoes", NoPut, d.vetoes)

Init ==
    /\ board = [register \in Register |-> 0]
    /\ data = NewData
    /\ stateFile = NoFile
    /\ queue = BootQueue(NewData)
    /\ pc = "idle" /\ event = NoEvent
    /\ pollPc = "sleeping" /\ pollValue = Off
    /\ asked = [p \in PutId |-> "none"]
    /\ puts = [p \in PutId |-> "unused"]
    /\ done = [p \in PutId |-> "clear"]
    /\ outbox = {} /\ reports = {} /\ topic = << >>
    /\ faults = << >>

Fault(kind) ==
    /\ kind \in FaultKinds
    /\ Len(faults) < MaxFaults
    /\ faults' = Append(faults, kind)

------------------------------------------------------------------------------
\* EventWithError: set() never clears an error, and an error also sets.

SetDone(p) ==
    done' = IF p \in PutId /\ done[p] = "clear" THEN [done EXCEPT ![p] = "set"] ELSE done
SetErr(p) ==
    done' = IF p \in PutId THEN [done EXCEPT ![p] = "err"] ELSE done

\* A put thread blocks in ev.wait() until its event is set.
InFlight == {p \in PutId : puts[p] = "waiting"}

\* A client that watches the PVs sees nothing in progress.
Settled ==
    /\ InFlight = {} /\ pc = "idle" /\ IsEmpty(queue) /\ pollPc = "sleeping"
    /\ data.running = board.run_register

\* Mutant of RequestPut: any period is queued.
RequestPutUnchecked(p, request) ==
    /\ pc # "dead"
    /\ puts[p] = "unused" /\ \A q \in 1..(p - 1) : puts[q] # "unused"
    /\ Cardinality(InFlight) < PoolSize
    /\ PatientClients => Settled
    /\ asked' = [asked EXCEPT ![p] = request.type]
    /\ puts' = [puts EXCEPT ![p] = "waiting"]
    /\ queue' = HighEvent(queue, request.type, p, request.value)
    /\ UNCHANGED <<board, done, faults, workerVars, pollVars, kafkaVars>>

\* A put handler starts: it rejects a period below 1 and queues anything else.
RequestPut(p, request) ==
    /\ pc # "dead"
    /\ puts[p] = "unused" /\ \A q \in 1..(p - 1) : puts[q] # "unused"
    /\ Cardinality(InFlight) < PoolSize
    /\ PatientClients => Settled
    /\ asked' = [asked EXCEPT ![p] = request.type]
    /\ IF request.type = "current_period" /\ request.value < 1
       THEN /\ puts' = [puts EXCEPT ![p] = "error"]
            /\ UNCHANGED queue
       ELSE /\ puts' = [puts EXCEPT ![p] = "waiting"]
            /\ queue' = HighEvent(queue, request.type, p, request.value)
    /\ UNCHANGED <<board, done, faults, workerVars, pollVars, kafkaVars>>

\* ev.wait() returns or raises, and the handler calls op.done.
Answer(p) ==
    /\ puts[p] = "waiting"
    /\ done[p] # "clear"
    /\ puts' = [puts EXCEPT ![p] = IF done[p] = "err" THEN "error" ELSE "ok"]
    /\ UNCHANGED <<asked, board, queue, done, faults, workerVars, pollVars, kafkaVars>>

------------------------------------------------------------------------------
\* The worker takes an event.  Only the worker changes data, so what a handler
\* does before its first register write is one step with queue.get.

Take(type) ==
    /\ pc = "idle"
    /\ ~IsEmpty(queue)
    /\ NextItem(queue).type = type
    /\ queue' = WithoutNext(queue)

\* Mutant of TakeHardwareUpdate: a board that stops goes unnoticed.
TakeHardwareUpdateSticky ==
    /\ Take("hardware_update")
    /\ data' = [data EXCEPT !.running = IF @ = On THEN On ELSE NextItem(queue).value]
    /\ UNCHANGED <<board, done, faults, pc, event, stateFile, pollVars, clientVars, kafkaVars>>

TakeHardwareUpdate ==
    /\ Take("hardware_update")
    /\ data' = [data EXCEPT !.running = NextItem(queue).value]
    /\ UNCHANGED <<board, done, faults, pc, event, stateFile, pollVars, clientVars, kafkaVars>>

\* Mutant of RefuseBegin: the new job id is assigned before the guard.
RefuseBeginNewJob ==
    /\ Take("begin")
    /\ data.running = On
    /\ data' = [data EXCEPT !.job_id = NextItem(queue).put]
    /\ SetErr(NextItem(queue).put)
    /\ UNCHANGED <<board, faults, pc, event, stateFile, pollVars, clientVars, kafkaVars>>

RefuseBegin ==
    /\ Take("begin")
    /\ data.running = On
    /\ SetErr(NextItem(queue).put)
    /\ UNCHANGED <<board, faults, workerVars, pollVars, clientVars, kafkaVars>>

\* The uuid4 of the run is represented by the put that began it.
AcceptBegin ==
    /\ Take("begin")
    /\ data.running = Off
    /\ data' = [data EXCEPT !.job_id = NextItem(queue).put]
    /\ event' = NextItem(queue)
    /\ pc' = "begin_pause"
    /\ UNCHANGED <<board, done, faults, stateFile, pollVars, clientVars, kafkaVars>>

RefuseEnd ==
    /\ Take("end")
    /\ data.running = Off
    /\ SetErr(NextItem(queue).put)
    /\ UNCHANGED <<board, faults, workerVars, pollVars, clientVars, kafkaVars>>

\* Mutant of AcceptEnd: no guard.
AcceptEndAlways ==
    /\ Take("end")
    /\ event' = NextItem(queue)
    /\ pc' = "end_run"
    /\ UNCHANGED <<board, data, done, faults, stateFile, pollVars, clientVars, kafkaVars>>

AcceptEnd ==
    /\ Take("end")
    /\ data.running = On
    /\ event' = NextItem(queue)
    /\ pc' = "end_run"
    /\ UNCHANGED <<board, data, done, faults, stateFile, pollVars, clientVars, kafkaVars>>

\* Events whose handler starts with its register write.
TakeOther ==
    \E type \in {"pause", "current_period", "period_mode", "vetoes", "set_ip"} :
        /\ Take(type)
        /\ event' = NextItem(queue)
        /\ pc' = type
        /\ UNCHANGED <<board, data, done, faults, stateFile, pollVars, clientVars, kafkaVars>>

Finish == pc' = "idle" /\ event' = NoEvent
Goto(step) == pc' = step /\ UNCHANGED event

\* Mutant of Raise: the except clause only logs.
RaiseUnreported == Finish /\ UNCHANGED done

\* The handler's except clause sets the error.  Past its register write
\* handle_vetoes_change has none: process_worker_event only logs.
Raise ==
    /\ Finish
    /\ IF event.type = "vetoes" /\ pc # "vetoes"
       THEN UNCHANGED done
       ELSE SetErr(event.put)

------------------------------------------------------------------------------
\* Verified register writes.

\* The register each write step writes.
RegisterOf ==
    [begin_pause    |-> "vetoes_software",     pause       |-> "vetoes_software",
     begin_period   |-> "period_comp_current", current_period |-> "period_comp_current",
     begin_run      |-> "run_register",        end_run     |-> "run_register",
     period_mode    |-> "period_control",      vetoes      |-> "vetoes_mask"]

WriteSteps == DOMAIN RegisterOf

\* handle_begin sets the run bit and handle_end clears it.  set_current_period
\* writes its 1-indexed argument less one, and a begin calls it with 1.
WrittenValue ==
    IF pc = "begin_run" THEN On
    ELSE IF pc \in {"end_run", "begin_period"} THEN 0
    ELSE IF pc = "current_period" THEN event.value - 1
    ELSE event.value

Write(step) ==
    /\ pc = step
    /\ board' = [board EXCEPT ![RegisterOf[pc]] = WrittenValue]

\* Mutant of WriteFails: a begin ignores the error of the nested pause.
WriteFailsBeginAnyway ==
    /\ pc \in WriteSteps
    /\ Fault("comms")
    /\ \/ board' = [board EXCEPT ![RegisterOf[pc]] = WrittenValue]
       \/ UNCHANGED board
    /\ IF pc = "begin_pause" THEN Goto("begin_run") /\ UNCHANGED done ELSE Raise
    /\ UNCHANGED <<data, queue, stateFile, pollVars, clientVars, kafkaVars>>

WriteFails ==
    /\ pc \in WriteSteps
    /\ Fault("comms")
    /\ \/ board' = [board EXCEPT ![RegisterOf[pc]] = WrittenValue]
       \/ UNCHANGED board
    /\ Raise
    /\ UNCHANGED <<data, queue, stateFile, pollVars, clientVars, kafkaVars>>

\* The nested handle_pause_or_resume of a begin.
BeginPause ==
    /\ Write("begin_pause")
    /\ data' = [data EXCEPT !.paused = event.value]
    /\ Goto(IF data.period_mode_sp = Computer THEN "begin_period" ELSE "begin_run")
    /\ UNCHANGED <<queue, done, faults, stateFile, pollVars, clientVars, kafkaVars>>

BeginPeriod ==
    /\ Write("begin_period")
    /\ data' = [data EXCEPT !.current_period_sp = 1]
    /\ Goto("begin_run")
    /\ UNCHANGED <<queue, done, faults, stateFile, pollVars, clientVars, kafkaVars>>

\* The board's part of a begin, an end and a veto change, with a message to send.
WriteThenProduce ==
    /\ \E step \in {"begin_run", "end_run", "vetoes"} : Write(step)
    /\ Goto("produce")
    /\ UNCHANGED <<data, queue, done, faults, stateFile, pollVars, clientVars, kafkaVars>>

SetPause ==
    /\ Write("pause")
    /\ data' = [data EXCEPT !.paused = event.value]
    /\ SetDone(event.put)
    /\ Finish
    /\ UNCHANGED <<queue, faults, stateFile, pollVars, clientVars, kafkaVars>>

SetCurrentPeriod ==
    /\ Write("current_period")
    /\ data' = [data EXCEPT !.current_period_sp = event.value]
    /\ SetDone(event.put)
    /\ Finish
    /\ UNCHANGED <<queue, faults, stateFile, pollVars, clientVars, kafkaVars>>

SetPeriodMode ==
    /\ Write("period_mode")
    /\ data' = [data EXCEPT !.period_mode_sp = event.value]
    /\ SetDone(event.put)
    /\ Finish
    /\ UNCHANGED <<queue, faults, stateFile, pollVars, clientVars, kafkaVars>>

\* set_board_response_ip: where the board sends replies is not state of this
\* module, and nobody waits for the event.
SetIP ==
    /\ pc = "set_ip"
    /\ Finish
    /\ UNCHANGED <<board, data, queue, done, faults, stateFile, pollVars, clientVars, kafkaVars>>

------------------------------------------------------------------------------
\* Kafka.

MessageOf(e) ==
    [kind |-> IF e.type = "begin" THEN "start"
              ELSE IF e.type = "end" THEN "stop" ELSE "vetoes",
     job  |-> IF e.type \in RunCommands THEN data.job_id ELSE NoJob,
     run  |-> IF e.type = "begin" THEN data.run_number ELSE 0,
     put  |-> e.put]

Produce ==
    /\ pc = "produce"
    /\ outbox' = outbox \cup {MessageOf(event)}
    /\ Goto("flush")
    /\ UNCHANGED <<board, data, queue, done, faults, stateFile, reports, topic, pollVars, clientVars>>

ProduceFails ==
    /\ pc = "produce"
    /\ Fault("produce")
    /\ Raise
    /\ UNCHANGED <<board, data, queue, stateFile, pollVars, clientVars, kafkaVars>>

\* Mutant of ServeReport: the error of the report is not looked at.
ServeReportAsDone ==
    /\ pc = "flush"
    /\ \E report \in reports :
        /\ reports' = reports \ {report}
        /\ SetDone(report.put)
    /\ UNCHANGED <<board, queue, faults, workerVars, outbox, topic, pollVars, clientVars>>

\* flush() serves delivery reports on the worker thread, whichever message they
\* are about (delivery_report_set_error_or_done).
ServeReport ==
    /\ pc = "flush"
    /\ \E report \in reports :
        /\ reports' = reports \ {report}
        /\ IF report.err THEN SetErr(report.put) ELSE SetDone(report.put)
    /\ UNCHANGED <<board, queue, faults, workerVars, outbox, topic, pollVars, clientVars>>

\* Mutant of AfterFlush: an end does not count the run.
AfterFlushUncounted ==
    /\ pc = "flush"
    /\ Goto("open")
    /\ data' = IF event.type = "vetoes" THEN [data EXCEPT !.vetoes = event.value] ELSE data
    /\ UNCHANGED <<board, queue, done, stateFile, pollVars, clientVars, kafkaVars>>

\* Mutant of AfterFlush: a veto change is not saved.
AfterFlushUnsaved ==
    /\ pc = "flush"
    /\ IF event.type = "vetoes" THEN Finish ELSE Goto("open")
    /\ data' = [data EXCEPT
                   !.run_number = IF event.type = "end" THEN @ + 1 ELSE @,
                   !.vetoes = IF event.type = "vetoes" THEN event.value ELSE @]
    /\ UNCHANGED <<board, queue, done, stateFile, pollVars, clientVars, kafkaVars>>

\* After flush, whose result is not looked at: an end counts the run, a veto
\* change records its setting.
AfterFlush ==
    /\ pc = "flush"
    /\ Goto("open")
    /\ data' = [data EXCEPT
                   !.run_number = IF event.type = "end" THEN @ + 1 ELSE @,
                   !.vetoes = IF event.type = "vetoes" THEN event.value ELSE @]
    /\ UNCHANGED <<board, queue, done, stateFile, pollVars, clientVars, kafkaVars>>

FlushReturns ==
    /\ outbox = {} /\ reports = {}
    /\ AfterFlush
    /\ UNCHANGED faults

FlushTimesOut ==
    /\ outbox # {} \/ reports # {}
    /\ Fault("timeout")
    /\ AfterFlush

\* The broker appends a message and acknowledges it.
Appended(message) == IF message.kind = "vetoes" THEN topic ELSE Append(topic, message)

Deliver ==
    \E message \in outbox :
        /\ outbox' = outbox \ {message}
        /\ topic' = Appended(message)
        /\ reports' = reports \cup {[put |-> message.put, err |-> FALSE]}
        /\ UNCHANGED <<board, queue, done, faults, workerVars, pollVars, clientVars>>

\* The producer gives a message up; the broker may still have appended it.
Expire ==
    \E message \in outbox :
        /\ Fault("delivery")
        /\ outbox' = outbox \ {message}
        /\ topic' \in {topic, Appended(message)}
        /\ reports' = reports \cup {[put |-> message.put, err |-> TRUE]}
        /\ UNCHANGED <<board, queue, done, workerVars, pollVars, clientVars>>

------------------------------------------------------------------------------
\* save_file: opening the file for writing empties it, json.dump fills it.

OpenStateFile ==
    /\ pc = "open"
    /\ stateFile' = TornFile
    /\ Goto("dump")
    /\ UNCHANGED <<board, data, queue, done, faults, pollVars, clientVars, kafkaVars>>

DumpState ==
    /\ pc = "dump"
    /\ stateFile' = Saved(data)
    /\ IF event.type = "vetoes" THEN Finish ELSE Goto("poll")
    /\ UNCHANGED <<board, data, queue, done, faults, pollVars, clientVars, kafkaVars>>

SaveFails ==
    /\ pc \in {"open", "dump"}
    /\ Fault("disk")
    /\ Raise
    /\ UNCHANGED <<board, data, queue, stateFile, pollVars, clientVars, kafkaVars>>

------------------------------------------------------------------------------
\* Polling the hardware, from the worker after a begin or an end, and from the
\* polling thread.

AfterPoll == IF event.type = "begin" THEN Goto("resend") ELSE Finish

WorkerPoll ==
    /\ pc = "poll"
    /\ queue' = HighEvent(queue, "hardware_update", NoPut, board.run_register)
    /\ AfterPoll
    /\ UNCHANGED <<board, data, done, faults, stateFile, pollVars, clientVars, kafkaVars>>

\* poll_hardware logs the error and returns False; the handlers ignore that.
WorkerPollFails ==
    /\ pc = "poll"
    /\ Fault("comms")
    /\ AfterPoll
    /\ UNCHANGED <<board, data, queue, done, stateFile, pollVars, clientVars, kafkaVars>>

\* A begin sends the veto configuration again, as it is now.
ResendVetoes ==
    /\ pc = "resend"
    /\ queue' = HighEvent(queue, "vetoes", NoPut, data.vetoes)
    /\ Finish
    /\ UNCHANGED <<board, data, done, faults, stateFile, pollVars, clientVars, kafkaVars>>

\* The thread reads under sock_lock; a poll that fails puts nothing.
PollRead ==
    /\ pc # "dead"
    /\ pollPc = "sleeping"
    /\ Len(queue["LOW"]) < MaxLow
    /\ pollPc' = "putting"
    /\ pollValue' = board.run_register
    /\ UNCHANGED <<board, queue, done, faults, workerVars, clientVars, kafkaVars>>

\* It puts the reading after the lock is released.
PollPut ==
    /\ pc # "dead"
    /\ pollPc = "putting"
    /\ queue' = PutItem(queue, "LOW",
                    [type |-> "hardware_update", put |-> NoPut, value |-> pollValue])
    /\ pollPc' = "sleeping" /\ pollValue' = Off
    /\ UNCHANGED <<board, done, faults, workerVars, clientVars, kafkaVars>>

------------------------------------------------------------------------------
\* The process dies and is started again.  Memory, the queue and the producer's
\* buffer are lost, clients lose their puts; board, topic and file stay.  A torn
\* state file makes load_data raise: the IOC does not start.
CrashAndRestart ==
    /\ pc # "dead"
    /\ Fault("crash")
    /\ IF stateFile.status = "torn"
       THEN pc' = "dead" /\ data' = NewData /\ queue' = EmptyQueue
       ELSE pc' = "idle" /\ data' = Loaded(stateFile) /\ queue' = BootQueue(data')
    /\ event' = NoEvent
    /\ pollPc' = "sleeping" /\ pollValue' = Off
    /\ puts' = [p \in PutId |-> IF puts[p] = "waiting" THEN "lost" ELSE puts[p]]
    /\ done' = [p \in PutId |-> "clear"]
    /\ outbox' = {} /\ reports' = {}
    /\ UNCHANGED <<board, stateFile, asked, topic>>

------------------------------------------------------------------------------
WorkerStep ==
    \/ TakeHardwareUpdate \/ RefuseBegin \/ AcceptBegin \/ RefuseEnd \/ AcceptEnd
    \/ TakeOther
    \/ BeginPause \/ BeginPeriod \/ WriteThenProduce
    \/ SetPause \/ SetCurrentPeriod \/ SetPeriodMode \/ SetIP
    \/ Produce \/ ServeReport \/ FlushReturns
    \/ OpenStateFile \/ DumpState
    \/ WorkerPoll \/ ResendVetoes

WorkerFault ==
    WriteFails \/ ProduceFails \/ FlushTimesOut \/ SaveFails \/ WorkerPollFails

ClientRequest == \E p \in PutId : \E request \in Requests : RequestPut(p, request)

Next ==
    \/ ClientRequest
    \/ \E p \in PutId : Answer(p)
    \/ WorkerStep \/ WorkerFault
    \/ Deliver \/ Expire
    \/ PollRead \/ PollPut
    \/ CrashAndRestart

Spec == Init /\ [][Next]_vars

\* The worker loop, the polling loop and the put threads run as long as they
\* can, and the broker takes what it is sent.  Nothing makes a client ask, a
\* fault happen or a crash happen.
Fairness ==
    /\ WF_vars(WorkerStep)
    /\ WF_vars(Deliver)
    /\ WF_vars(PollRead) /\ WF_vars(PollPut)
    /\ \A p \in PutId : WF_vars(Answer(p))

FairSpec == Spec /\ Fairness

------------------------------------------------------------------------------
\* Properties.

\* The variables have the shapes the code gives them: registers and Data fields
\* hold small integers, the queue holds events and the worker is at a known
\* point of a handler.
TypeOK ==
    /\ board \in [Register -> Value]
    /\ data \in Data
    /\ stateFile \in StateFile
    /\ queue \in [Priority -> Seq(Event)]
    /\ pc \in {"idle", "produce", "flush", "open", "dump", "poll", "resend",
               "set_ip", "dead"} \cup WriteSteps
    /\ event \in Event
    /\ pc \in {"pause", "current_period", "period_mode"} => event.type = pc
    /\ pollPc \in {"sleeping", "putting"} /\ pollValue \in Value
    /\ asked \in [PutId -> ClientTypes \cup {"none"}]
    /\ puts \in [PutId -> {"unused", "waiting", "ok", "error", "lost"}]
    /\ done \in [PutId -> {"clear", "set", "err"}]
    /\ outbox \subseteq Message
    /\ reports \subseteq Report
    /\ topic \in Seq(Message)
    /\ faults \in Seq(FaultKinds) /\ Len(faults) <= MaxFaults

Published(p) == \E i \in 1..Len(topic) : topic[i].put = p

\* A client told that its begin or end succeeded can rely on the run start or
\* run stop being in the run info topic, however its handler, the delivery
\* report, a flush that timed out and other clients' handlers interleaved
\* (handle_begin, handle_end, delivery_report_set_error_or_done).
AckedMeansDelivered ==
    \A p \in PutId : puts[p] = "ok" /\ asked[p] \in RunCommands => Published(p)

\* A run start is only sent for a board that is running, with the pause bit the
\* client asked for and, in COMPUTER mode, in its first period: a begin whose
\* pause or period write failed sends nothing (handle_begin).
AnnouncedBoardIsReady ==
    pc = "produce" /\ event.type = "begin" =>
        /\ board.run_register = On
        /\ board.vetoes_software = event.value
        /\ data.period_mode_sp = Computer => board.period_comp_current = 0

Happened(kinds) == \E i \in 1..Len(faults) : faults[i] \in kinds
OnlySavesFailed == ~Happened(Faults \ {"disk"})

StopsNameStarts ==
    \A i \in 1..Len(topic) : topic[i].kind = "stop" =>
        \E j \in 1..(i - 1) : topic[j].kind = "start" /\ topic[j].job = topic[i].job

StoppedNumbersStay ==
    \A i, j, k \in 1..Len(topic) :
        /\ i < j /\ j < k
        /\ topic[i].kind = "start"
        /\ topic[j].kind = "stop" /\ topic[j].job = topic[i].job
        /\ topic[k].kind = "start"
        => topic[k].run # topic[i].run

\* Every run stop in the topic names the job of a run start before it: job_id
\* ties starts and stops together (data.py), however begins and ends queue up,
\* and also when saving it fails.
StopNamesAStartedRun == OnlySavesFailed => StopsNameStarts

\* Once a run has been stopped, no later run start carries its run number: a
\* run stop increments it (handle_end), also when saving it failed.
StoppedRunNumberNotReused == OnlySavesFailed => StoppedNumbersStay

\* The state file is what the worker has in memory, except from the step at
\* which an event changes job_id, run_number or vetoes to the save of that
\* event; and it is torn only between the open and the json.dump of save_file
\* (save_file, load_data).  A crash elsewhere therefore loses at most what the
\* event in progress has changed.  A crash at the torn file loses everything,
\* and the IOC does not start again until someone removes the file: pc = "dead".
DiskTracksMemory ==
    ~Happened({"comms", "produce", "disk"}) =>
        /\ stateFile.status = "torn" => pc \in {"dump", "dead"}
        /\ pc \in {"idle", "poll", "resend"} => stateFile.job_id = data.job_id
        /\ pc \notin {"open", "dump", "dead"} =>
               /\ stateFile.run_number = data.run_number
               /\ stateFile.vetoes = data.vetoes

\* Once no veto change is queued, the board has the veto configuration the IOC
\* holds, also after a crash between the register write and the save: serve()
\* and every begin send it again.
VetoesAgree ==
    /\ pc = "idle" /\ ~Happened({"comms", "produce"})
    /\ \A i \in 1..Len(queue["HIGH"]) : queue["HIGH"][i].type # "vetoes"
    =>
        board.vetoes_mask = data.vetoes

\* Where the answer to a put may still come from.
AnswerIsComing(p) ==
    \/ \E e \in Items(queue) : e.put = p
    \/ event.put = p /\ pc \in WriteSteps \cup {"produce"}
    \/ \E message \in outbox : message.put = p
    \/ \E report \in reports : report.put = p

\* A put that waits is never forgotten: until its event is set, it is queued, at
\* the worker, with the producer or in a report that the next flush serves.  That
\* is so through failing writes and saves, messages given up, flushes that time
\* out and restarts, but not past a veto change whose produce raises.
NoPutIsForgotten ==
    ~Happened({"produce"}) =>
        \A p \in PutId :
            puts[p] = "waiting" /\ done[p] = "clear" => AnswerIsComing(p)

\* A begin only reaches the board while it is stopped: the immediate poll is
\* there "to avoid being able to begin again before hardware is updated".
BeginOnlyWhenBoardStopped == pc = "begin_pause" => board.run_register = Off

\* Sending the veto configuration again, after a begin or at start-up, does not
\* change it: it only keeps it from falling out of retention.
ResendKeepsVetoes ==
    pc = "vetoes" /\ event.put = NoPut => event.value = data.vetoes

\* What leaves a put without an answer.  A flush that timed out left its message
\* or its report to the next flush, and there is none until somebody begins,
\* ends or changes a veto.  A veto change whose produce raised is only logged.
Stranded(p) ==
    \/ /\ Happened({"timeout"}) /\ pc # "flush"
       /\ \E item \in outbox \cup reports : item.put = p
    \/ /\ Happened({"produce"}) /\ asked[p] = "vetoes"
       /\ done[p] = "clear" /\ ~AnswerIsComing(p)

\* Every put gets an answer or dies with the process, also with all threads of
\* the pool waiting, unless it is stranded in one of the two ways above: no
\* other path of a handler, through any fault, leaves ev.wait() blocked for ever.
EveryPutAnswered == \A p \in PutId : []<>(puts[p] # "waiting" \/ Stranded(p))

\* A begin or end whose message Kafka gave up ends in an error for the client
\* (doc/pvs.md: if the message fails to send to Kafka, the put will error).
FailedSendErrorsThePut ==
    \A p \in PutId :
        (\E report \in reports : report.put = p /\ report.err /\ asked[p] \in RunCommands)
            ~> puts[p] \in {"error", "lost"}

\* Stale readings do not last: in the end HWRUNNING shows what the board does.
SettlesToBoard == <>[](pc = "dead" \/ data.running = board.run_register)
=============================================================================
