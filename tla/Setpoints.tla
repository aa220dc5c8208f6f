----------------------------- MODULE Setpoints -----------------------------
(***************************************************************************)
(* Settings of the board that are not a run, from those who ask for them   *)
(* to the board: periods, frame sync and vetoes that clients put           *)
(* (pvs/static_pvs.py), the run control veto and the block names that      *)
(* channel access monitors follow (pvs/camonitor_callbacks.py), and their  *)
(* handlers (worker_event_handlers.py, process_worker_event.py).           *)
(*                                                                         *)
(* A handler is one step with queue.get: of what it does in between,       *)
(* another thread sees at most the board and an event that is set.  Only a *)
(* begin is two steps: its client may go on before the veto configuration  *)
(* is queued again.  Of a begin, what it does to periods and vetoes is     *)
(* here; whether the board runs, pausing, ends, the state file and failing *)
(* sends are in RunControl, hardware updates and readback PVs in           *)
(* Readbacks, set_board_response_ip and retries in BoardLink.              *)
(***************************************************************************)
EXTENDS Settings, VetoMask, WorkerQueue, FiniteSets

CONSTANTS
    PowerOn,                \* the scalar registers of a board after power on
    WordBits,               \* the bits of a register
    DefaultVetoes,          \* Data.vetoes before anybody sets them
    Requests,               \* [field, value]: what clients put to scalar PVs
    VetoRequests,           \* the arrays clients put to VETO:SP
    MaxPuts,                \* bound: puts, over all restarts
    MayAsk,                 \* bound: what the first put, the second, ... may be of
    PoolSize,               \* threads of the p4p pool that run put handlers
    MaxChanges,             \* bound: changes of the monitored PVs
    FaultKinds,             \* the faults that may happen, each at most once
    MaxFaults               \* bound: how many of them

SetpointPV == Scalar \cup {"vetoes"}
PutType == SetpointPV \cup {"begin"}
PutId == 1..MaxPuts
NoPut == 0              \* the done_event of an event nobody waits on

ASSUME PowerOnAssumption  == PowerOn \in [Scalar -> Word]
ASSUME PowerOnDelayAssumption == PowerOn["frame_sync_delay"] <= MAX_FRAME_SYNC_DELAY_US
ASSUME DefaultVetoesAssumption ==
    DefaultVetoes \in Seq(VetoValue)
    /\ \A i \in 1..Len(DefaultVetoes) : DefaultVetoes[i] = DISABLED_VETO_VALUE
ASSUME SetpointRequestsAssumption == Requests \subseteq [field : Scalar, value : Int]
ASSUME VetoRequestsAssumption     == VetoRequests \subseteq Seq(VetoValue)
ASSUME SetpointBoundsAssumption   ==
    /\ WordBits \in Nat /\ MaxPuts \in Nat /\ MaxChanges \in Nat
    /\ PoolSize \in Nat \ {0} /\ MaxFaults \in Nat
    /\ MayAsk \in [PutId -> SUBSET PutType]
ASSUME SetpointFaultsAssumption   == FaultKinds \subseteq {"comms", "restart"}

VARIABLES
    registers,      \* the scalar registers of the board
    vetoes_mask,    \* its hard vetoes
    rcVeto,         \* its run control veto, a bit of vetoes_software
    data,           \* of Data: the set points, vetoes and blocks
    queue,          \* the worker's queue
    resending,      \* a begin is done, and the vetoes are yet to be sent again
    spPvs,          \* the set-point PVs
    wanted,         \* the event of each put
    puts,           \* what the client of each put has been told
    done,           \* the EventWithError of each put
    overlapped,     \* PVs a put of which overlapped one that affects it too
    sent,           \* the mask of the latest vc00 message
    inRange,        \* CS:RC:INRANGE, of another IOC
    blockNames,     \* CS:BLOCKSERVER:BLOCKNAMES of the block server, by version
    notify,         \* the monitors that have a change to deliver
    changes,        \* how often the monitored PVs have changed
    faults          \* the kinds of the faults that have happened

boardVars   == <<registers, vetoes_mask, rcVeto>>
clientVars  == <<spPvs, wanted, puts, overlapped>>
monitorVars == <<inRange, blockNames, notify, changes>>
vars == <<boardVars, data, queue, resending, done, sent, faults, clientVars, monitorVars>>

------------------------------------------------------------------------------
\* A process that starts: serve(), load_data, StaticPVs.

NewData(vetoes) == [sp |-> DefaultSetting, vetoes |-> vetoes, blocks |-> 0]

\* The events of worker_event_types.py; of the kinds of value, each has a field.
SetEvent(field, value, put) == [type |-> field, value |-> value, put |-> put]
VetoesUpdateEvent(array, put) == [type |-> "vetoes", array |-> array, put |-> put]
BeginEvent(put) == [type |-> "begin", put |-> put]
RunControlUpdateEvent(veto) == [type |-> "run_control", veto |-> veto]
BlocksUpdateEvent(names) == [type |-> "blocks", names |-> names]

\* The veto configuration is sent again.
BootQueue(vetoes) == PutItem(EmptyQueue, "HIGH", VetoesUpdateEvent(vetoes, NoPut))

\* PVs start with the values of Data.
NewSpPvs(vetoes) ==
    [pv \in SetpointPV |-> IF pv = "vetoes" THEN vetoes ELSE DefaultSetting[pv]]

NothingWanted == [type |-> "none"]

Init ==
    /\ registers = PowerOn /\ vetoes_mask = {} /\ rcVeto = FALSE
    /\ data = NewData(DefaultVetoes)
    /\ queue = BootQueue(DefaultVetoes) /\ resending = FALSE
    /\ spPvs = NewSpPvs(DefaultVetoes)
    /\ wanted = [p \in PutId |-> NothingWanted]
    /\ puts = [p \in PutId |-> "unused"]
    /\ done = [p \in PutId |-> "clear"]
    /\ overlapped = {} /\ sent = {}
    /\ inRange \in BOOLEAN /\ blockNames = 1
    /\ notify = {"run_control", "blocks"} /\ changes = 0
    /\ faults = {}

Fault(kind) ==
    /\ kind \in FaultKinds \ faults /\ Cardinality(faults) < MaxFaults
    /\ faults' = faults \cup {kind}

------------------------------------------------------------------------------
\* Clients.

Waiting == {q \in PutId : puts[q] = "waiting"}

\* Another put of the PV is in progress; or, of the vetoes, a begin, which sends
\* the configuration it finds again, behind this put.
Overlaps(pv) ==
    \/ \E q \in Waiting : wanted[q].type = pv
    \/ /\ pv = "vetoes"
       /\ resending \/ \E q \in Waiting : wanted[q].type = "begin"

\* The handler of the next put starts, on a thread of the pool.
Start(p, event) ==
    /\ Cardinality(Waiting) < PoolSize
    /\ event.type \in MayAsk[p]
    /\ puts[p] = "unused" /\ \A q \in 1..(p - 1) : puts[q] # "unused"
    /\ wanted' = [wanted EXCEPT ![p] = event]
    /\ overlapped' = overlapped \cup {pv \in SetpointPV \cap {event.type} : Overlaps(pv)}
    /\ UNCHANGED <<boardVars, data, spPvs, resending, done, sent, faults, monitorVars>>

\* It queues its event and waits.
Queued(p, event) ==
    /\ puts' = [puts EXCEPT ![p] = "waiting"]
    /\ queue' = PutItem(queue, "HIGH", event)

\* Mutant of RequestSetpoint: nothing is refused.
RequestSetpointUnchecked(p, r) ==
    LET event == SetEvent(r.field, r.value, p) IN Start(p, event) /\ Queued(p, event)

RequestSetpoint(p, r) ==
    LET event == SetEvent(r.field, r.value, p) IN
    /\ Start(p, event)
    /\ IF Refused(r.field, r.value)
       THEN puts' = [puts EXCEPT ![p] = "error"] /\ UNCHANGED queue
       ELSE Queued(p, event)

RequestVetoes(p, array) ==
    LET event == VetoesUpdateEvent(array, p) IN Start(p, event) /\ Queued(p, event)

\* BEGINRUN or BEGINRUNEX, to whatever PV the put is made.
RequestBegin(p) == Start(p, BeginEvent(p)) /\ Queued(p, BeginEvent(p))

\* What the handler of a put posts.
Asked(event) == IF event.type = "vetoes" THEN event.array ELSE event.value

\* ev.wait() returns or raises: the handler posts the set point and answers.  That
\* of a begin posts no set point, although a begin may change one.
Answer(p) ==
    /\ puts[p] = "waiting" /\ done[p] # "clear"
    /\ puts' = [puts EXCEPT ![p] = IF done[p] = "err" THEN "error" ELSE "ok"]
    /\ spPvs' = IF done[p] = "err" \/ wanted[p].type = "begin" THEN spPvs
                ELSE [spPvs EXCEPT ![wanted[p].type] = Asked(wanted[p])]
    /\ UNCHANGED <<boardVars, data, queue, resending, wanted, done, overlapped, sent, faults,
                   monitorVars>>

------------------------------------------------------------------------------
\* The worker.

Take(types) ==
    /\ ~resending /\ ~IsEmpty(queue)
    /\ NextItem(queue).type \in types
    /\ queue' = WithoutNext(queue)
    /\ UNCHANGED <<clientVars, monitorVars>>

SetDone(p) == done' = IF p \in PutId THEN [done EXCEPT ![p] = "set"] ELSE done
SetErr(p)  == done' = IF p \in PutId THEN [done EXCEPT ![p] = "err"] ELSE done

Fits(e)    == Raw(e.type, e.value) \in Word
Written(e) == [registers EXCEPT ![e.type] = Raw(e.type, e.value)]

\* handle_frame_sync_sp_change, set_num_periods, set_current_period,
\* set_period_mode, handle_frame_sync_delay_setpoint_change: the write is
\* verified, then data has the set point and the put is done.
HandleSetpoint ==
    /\ Take(Scalar)
    /\ LET e == NextItem(queue) IN
        /\ Fits(e)
        /\ registers' = Written(e)
        /\ data' = [data EXCEPT !.sp[e.type] = e.value]
        /\ SetDone(e.put)
    /\ UNCHANGED <<vetoes_mask, rcVeto, resending, sent, faults>>

\* A value that does not fit raises in write(), before anything is sent.
SetpointOverflows ==
    /\ Take(Scalar)
    /\ ~Fits(NextItem(queue))
    /\ SetErr(NextItem(queue).put)
    /\ UNCHANGED <<boardVars, data, resending, sent, faults>>

\* The write or its verification fails; the board may have the value.
SetpointFails ==
    /\ Take(Scalar)
    /\ Fits(NextItem(queue))
    /\ Fault("comms")
    /\ registers' \in {registers, Written(NextItem(queue))}
    /\ SetErr(NextItem(queue).put)
    /\ UNCHANGED <<vetoes_mask, rcVeto, data, resending, sent>>

HardMaskFits(array) == HardMask(array) \subseteq 0..(WordBits - 1)

\* handle_vetoes_change: the hard vetoes to the board, all of them to Kafka,
\* the array to data and to the state file.
HandleVetoes ==
    /\ Take({"vetoes"})
    /\ LET e == NextItem(queue) IN
        /\ HardMaskFits(e.array)
        /\ vetoes_mask' = HardMask(e.array)
        /\ sent' = AllMask(e.array)
        /\ data' = [data EXCEPT !.vetoes = e.array]
        /\ SetDone(e.put)
    /\ UNCHANGED <<registers, rcVeto, resending, faults>>

VetoesOverflow ==
    /\ Take({"vetoes"})
    /\ ~HardMaskFits(NextItem(queue).array)
    /\ SetErr(NextItem(queue).put)
    /\ UNCHANGED <<boardVars, data, resending, sent, faults>>

VetoesFail ==
    /\ Take({"vetoes"})
    /\ HardMaskFits(NextItem(queue).array)
    /\ Fault("comms")
    /\ vetoes_mask' \in {vetoes_mask, HardMask(NextItem(queue).array)}
    /\ SetErr(NextItem(queue).put)
    /\ UNCHANGED <<registers, rcVeto, data, resending, sent>>

\* handle_begin of a board that runs already.
RefuseBegin ==
    /\ Take({"begin"})
    /\ SetErr(NextItem(queue).put)
    /\ UNCHANGED <<boardVars, data, resending, sent, faults>>

\* In COMPUTER mode a begin calls set_current_period(1).
SetsPeriod == data.sp["period_mode"] = COMPUTER
FirstPeriod(settings, value) == IF SetsPeriod THEN [settings EXCEPT !["period"] = value] ELSE settings

\* Mutant of HandleBegin: the period is set for the board only.
HandleBeginForBoard ==
    /\ Take({"begin"})
    /\ registers' = FirstPeriod(registers, Raw("period", 1))
    /\ resending' = TRUE
    /\ SetDone(NextItem(queue).put)
    /\ UNCHANGED <<vetoes_mask, rcVeto, data, sent, faults>>

\* handle_begin up to the delivery of its message, which sets the event.
HandleBegin ==
    /\ Take({"begin"})
    /\ registers' = FirstPeriod(registers, Raw("period", 1))
    /\ data' = [data EXCEPT !.sp = FirstPeriod(@, 1)]
    /\ resending' = TRUE
    /\ SetDone(NextItem(queue).put)
    /\ UNCHANGED <<vetoes_mask, rcVeto, sent, faults>>

\* One of its writes fails, before, at or after that of the period.
BeginFails ==
    /\ Take({"begin"})
    /\ Fault("comms")
    /\ \/ UNCHANGED <<registers, data>>
       \/ /\ registers' = FirstPeriod(registers, Raw("period", 1))
          /\ data' \in {data, [data EXCEPT !.sp = FirstPeriod(@, 1)]}
    /\ SetErr(NextItem(queue).put)
    /\ UNCHANGED <<vetoes_mask, rcVeto, resending, sent>>

\* The rest of it: the veto configuration as it is now is queued again.
ResendVetoes ==
    /\ resending
    /\ queue' = PutItem(queue, "HIGH", VetoesUpdateEvent(data.vetoes, NoPut))
    /\ resending' = FALSE
    /\ UNCHANGED <<boardVars, data, done, sent, faults, clientVars, monitorVars>>

HandleRunControl ==
    /\ Take({"run_control"})
    /\ rcVeto' = NextItem(queue).veto
    /\ UNCHANGED <<registers, vetoes_mask, data, resending, done, sent, faults>>

\* handle_run_control_update only logs that it failed.
RunControlFails ==
    /\ Take({"run_control"})
    /\ Fault("comms")
    /\ rcVeto' \in {rcVeto, NextItem(queue).veto}
    /\ UNCHANGED <<registers, vetoes_mask, data, resending, done, sent>>

HandleBlocks ==
    /\ Take({"blocks"})
    /\ data' = [data EXCEPT !.blocks = NextItem(queue).names]
    /\ UNCHANGED <<boardVars, resending, done, sent, faults>>

------------------------------------------------------------------------------
\* Channel access.  A monitored PV changes, and its callback gets its latest
\* value; it also gets the value there is when the monitor connects.

Changed(monitor) ==
    /\ changes < MaxChanges
    /\ changes' = changes + 1
    /\ notify' = notify \cup {monitor}
    /\ UNCHANGED <<boardVars, data, queue, resending, done, sent, faults, clientVars>>

InRangeChanges   == Changed("run_control") /\ inRange' = ~inRange /\ UNCHANGED blockNames
BlockNamesChange == Changed("blocks") /\ blockNames' = blockNames + 1 /\ UNCHANGED inRange

Delivered(monitor) ==
    /\ monitor \in notify
    /\ notify' = notify \ {monitor}
    /\ UNCHANGED <<boardVars, data, resending, done, sent, faults, clientVars, inRange, blockNames,
                   changes>>

\* Mutant of RunControlCallback: the veto follows the PV instead of its opposite.
RunControlCallbackSame ==
    /\ Delivered("run_control")
    /\ queue' = PutItem(queue, "HIGH", RunControlUpdateEvent(inRange))

\* run_control_update_callback.
RunControlCallback ==
    /\ Delivered("run_control")
    /\ queue' = PutItem(queue, "HIGH", RunControlUpdateEvent(~inRange))

\* update_blocks.
BlocksCallback ==
    /\ Delivered("blocks")
    /\ queue' = PutItem(queue, "LOW", BlocksUpdateEvent(blockNames))

------------------------------------------------------------------------------
\* The process dies and is started again: of Data, the state file keeps the
\* vetoes, and the monitors connect again.
Restart ==
    /\ Fault("restart")
    /\ data' = NewData(data.vetoes)
    /\ queue' = BootQueue(data.vetoes) /\ resending' = FALSE
    /\ spPvs' = NewSpPvs(data.vetoes)
    /\ puts' = [p \in PutId |-> IF puts[p] = "waiting" THEN "lost" ELSE puts[p]]
    /\ done' = [p \in PutId |-> "clear"]
    /\ overlapped' = {}
    /\ notify' = {"run_control", "blocks"}
    /\ UNCHANGED <<boardVars, wanted, sent, inRange, blockNames, changes>>

------------------------------------------------------------------------------
\* The cases of process_worker_event that concern settings; hardware updates,
\* ends, pausing and SetIPEvents are in the modules named above.
WorkerStep ==
    \/ HandleSetpoint \/ SetpointOverflows
    \/ HandleVetoes \/ VetoesOverflow
    \/ HandleBegin \/ RefuseBegin \/ ResendVetoes
    \/ HandleRunControl \/ HandleBlocks

ClientRequest ==
    \E p \in PutId :
        \/ \E r \in Requests : RequestSetpoint(p, r)
        \/ \E array \in VetoRequests : RequestVetoes(p, array)
        \/ RequestBegin(p)

Next ==
    \/ ClientRequest
    \/ \E p \in PutId : Answer(p)
    \/ WorkerStep
    \/ SetpointFails \/ VetoesFail \/ BeginFails \/ RunControlFails
    \/ InRangeChanges \/ BlockNamesChange
    \/ RunControlCallback \/ BlocksCallback
    \/ Restart

Spec == Init /\ [][Next]_vars

\* The worker loop, the put handlers and the callbacks go on; requests, changes
\* and faults need not happen.
Fairness ==
    /\ WF_vars(WorkerStep)
    /\ WF_vars(RunControlCallback) /\ WF_vars(BlocksCallback)
    /\ \A p \in PutId : WF_vars(Answer(p))

FairSpec == Spec /\ Fairness

------------------------------------------------------------------------------
\* Properties.

\* What the queue may hold: of numbers, those that are not refused.
Event ==
    {e \in [type : Scalar, value : Int, put : PutId] : ~Refused(e.type, e.value)}
    \cup [type : {"vetoes"}, array : Seq(VetoValue), put : PutId \cup {NoPut}]
    \cup [type : {"begin"}, put : PutId]
    \cup [type : {"run_control"}, veto : BOOLEAN]
    \cup [type : {"blocks"}, names : Nat]

\* No sequence of puts, accepted or refused, gets a value into a register that
\* does not fit it, or a frame sync delay above the limit (event times must fit
\* in 32 bits, static_pvs.py); the queue holds only what handlers can write.
SetpointsTypeOK ==
    /\ registers \in [Scalar -> Word]
    /\ registers["frame_sync_delay"] <= MAX_FRAME_SYNC_DELAY_US
    /\ vetoes_mask \subseteq 0..(WordBits - 1) /\ sent \subseteq Nat
    /\ rcVeto \in BOOLEAN /\ inRange \in BOOLEAN
    /\ data \in [sp : [Scalar -> Int], vetoes : Seq(VetoValue), blocks : Nat]
    /\ queue \in [Priority -> Seq(Event)] /\ resending \in BOOLEAN
    /\ puts \in [PutId -> {"unused", "waiting", "ok", "error", "lost"}]
    /\ done \in [PutId -> {"clear", "set", "err"}]
    /\ overlapped \subseteq SetpointPV /\ notify \subseteq {"run_control", "blocks"}
    /\ blockNames \in Nat /\ changes \in 0..MaxChanges /\ faults \subseteq FaultKinds

NoVetoesQueued == \A i \in 1..Len(queue["HIGH"]) : queue["HIGH"][i].type # "vetoes"

\* With no veto change queued, bit n of the board's mask is set when veto n is
\* hard, and bit n of the mask sent to Kafka when it is soft or hard; also after
\* a restart, with the vetoes of the state file, and after an array that the
\* board could not take.  This is so for arrays of whole bytes: np.packbits
\* shifts the bits of any other (array_to_mask).
VetoBitsInPlace ==
    faults \subseteq {"restart"} /\ NoVetoesQueued /\ Len(data.vetoes) % ByteBits = 0 =>
        /\ vetoes_mask = Positions(data.vetoes, {HARD_VETO_VALUE})
        /\ sent = Positions(data.vetoes, {SOFT_VETO_VALUE, HARD_VETO_VALUE})

\* What data has for a set-point PV.
Setpoint(pv) == IF pv = "vetoes" THEN data.vetoes ELSE data.sp[pv]

Acknowledged(pv) == \E p \in PutId : puts[p] = "ok" /\ wanted[p].type = pv

\* A begin in COMPUTER mode sets the period back to 1, without a post of PERIOD:SP.
PeriodReset == data.sp["period"] = 1 /\ \E p \in PutId : wanted[p].type = "begin"

\* A set-point PV no put of which is waiting shows what data has, whatever was
\* refused, did not fit or failed before, unless two of its puts were in progress
\* at a time, whose handlers post in any order; or, of the vetoes, a put and a
\* begin, which may take the put back.  Only PERIOD:SP may differ otherwise, and
\* only in that a begin has set the period back to 1.  And with no fault, reading
\* the board back gives the set point of every PV that a client was told to have
\* set, at any time, begins in between or not.
SetpointsAgree ==
    /\ \A pv \in SetpointPV \ overlapped :
          (\A p \in Waiting : wanted[p].type # pv) =>
              spPvs[pv] = Setpoint(pv) \/ (pv = "period" /\ PeriodReset)
    /\ faults = {} =>
          \A pv \in Scalar : Acknowledged(pv) => Shown(pv, registers[pv]) = data.sp[pv]

\* A change of a monitored PV that no handler has dealt with yet.
OnItsWay(monitor) == monitor \in notify \/ \E e \in Items(queue) : e.type = monitor

\* With no change on its way, the run control veto of the board is the opposite
\* of INRANGE and the blocks of the next run are those of the block server,
\* however changes, callbacks and handlers overtook each other: the latest change
\* is handled last.  A failed write of the veto is not made up for.
MonitorsAgree ==
    /\ faults \subseteq {"restart"} /\ ~OnItsWay("run_control") => rcVeto = ~inRange
    /\ ~OnItsWay("blocks") => data.blocks = blockNames

\* In the end the run control veto of the board is the opposite of INRANGE and
\* the blocks of the next run are those of the block server, also after a
\* restart.  A failed write of the veto is not made up for until INRANGE changes
\* again or the IOC is restarted.
MonitorsSettle ==
    <>[](/\ faults \subseteq {"restart"} => rcVeto = ~inRange
         /\ data.blocks = blockNames)
=============================================================================
