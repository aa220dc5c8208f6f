----------------------------- MODULE Readbacks -----------------------------
(***************************************************************************)
(* From the board to the readback PVs, by way of three threads that share  *)
(* no lock: the polling thread reads all registers and queues them         *)
(* (poll_hardware), the worker assigns them to Data one field after the    *)
(* other (process_worker_event), and the UpdatePVs thread posts the fields *)
(* of Data one after the other (update_pvs_thread, StaticPVs.update_all).  *)
(*                                                                         *)
(* The board changes under them: the handlers of set points and runs write *)
(* it, between two updates, and it may be power cycled (in the middle of a *)
(* poll: see BoardLink).  A poll may fail, the board may stop answering    *)
(* for good, and the IOC may be restarted.                                 *)
(***************************************************************************)
EXTENDS Settings, WorkerQueue, FiniteSets

CONSTANTS
    Looks,          \* the boards there may be: registers by field
    PowerOn,        \* the board after power on
    FieldOrder,     \* the fields in the order in which they are assigned and posted
    MaxChanges,     \* bound: changes of the board
    DefaultHardVetoes,      \* Data.hard_vetoes_rbv before the first poll
    MaxLow,         \* bound: LOW updates waiting before a poll
    FaultKinds,     \* the faults that may happen, each at most once
    MaxFaults       \* bound: faults that happen

\* hw_running and VETO:HARD are read back too: a bit and a mask.  UpdatePVs also
\* posts the run number, which handle_end counts.
Field == Scalar \cup {"running", "hard_vetoes"}
PV    == Field \cup {"run_number"}

Board == [Field -> Word]

ASSUME LooksAssumption   == Looks \subseteq Board /\ PowerOn \in Looks
ASSUME FieldOrderAssumption == FieldOrder \in Seq(Field)
ASSUME ReadbackBoundsAssumption ==
    MaxChanges \in Nat /\ MaxLow \in Nat \ {0} /\ MaxFaults \in Nat
ASSUME DefaultHardVetoesAssumption == DefaultHardVetoes \in Nat
ASSUME ReadbackFaultsAssumption == FaultKinds \subseteq {"comms", "unreachable", "restart"}

VARIABLES
    board,      \* the registers of the board
    queue,      \* the hardware updates in the worker's queue
    updating,   \* what the worker has still to assign of reading, in order
    reading,    \* the hardware update it is handling
    data,       \* of Data: readbacks, run_number and last_hardware_update_ok
    poll,       \* what the polling thread has read and not yet put
    posting,    \* the fields UpdatePVs still has to post in this round
    alarm,      \* the alarm it posts them with
    pvs,        \* the readback PVs
    changes,    \* how often the board has changed
    faults      \* the kinds of faults that have happened

workerVars == <<updating, reading, data>>
updateVars == <<posting, alarm, pvs>>
vars == <<board, queue, workerVars, poll, updateVars, changes, faults>>

Fields == {FieldOrder[i] : i \in 1..Len(FieldOrder)}

\* The order of update_all.
PostOrder == <<"run_number">> \o FieldOrder

Readback(field, registers) ==
    IF field \in Scalar THEN Shown(field, registers[field]) ELSE registers[field]

\* What Data holds before the first hardware update; polled tells a reading
\* from a default.
NewData(run_number) ==
    [ok |-> FALSE, run_number |-> run_number,
     rbv |-> [field \in Field |-> [polled |-> FALSE, value |->
                CASE field \in Scalar       -> DefaultSetting[field]
                  [] field = "running"     -> 0
                  [] field = "hard_vetoes" -> DefaultHardVetoes]]]

\* What of Data a PV is posted with; the run number is no reading of the board.
Current(pv, d) ==
    IF pv = "run_number" THEN [polled |-> TRUE, value |-> d.run_number] ELSE d.rbv[pv]

Post(pv, d, severity) ==
    [alarm |-> severity, polled |-> Current(pv, d).polled, value |-> Current(pv, d).value]

\* PVs are made with the values of Data and no alarm of their own.
NewPvs(run_number) == [pv \in PV |-> Post(pv, NewData(run_number), "initial")]

NoReading == PowerOn

Init ==
    /\ board = PowerOn /\ changes = 0 /\ faults = {}
    /\ queue = EmptyQueue
    /\ updating = << >> /\ reading = NoReading /\ data = NewData(0)
    /\ poll = {}
    /\ posting = << >> /\ alarm = "COMM_ALARM" /\ pvs = NewPvs(0)

Fault(kind) ==
    /\ kind \in FaultKinds \ faults /\ Cardinality(faults) < MaxFaults
    /\ faults' = faults \cup {kind}

Reachable == "unreachable" \notin faults

------------------------------------------------------------------------------
\* The board changes: between two hardware updates a handler writes it, that of
\* an end counts the run, and that of a begin or an end polls the board then and
\* puts the reading at HIGH; or the power is cycled.

HandlerWrites ==
    /\ updating = << >> /\ Reachable
    /\ changes < MaxChanges
    /\ changes' = changes + 1
    /\ board' \in Looks
    /\ data' \in {data, [data EXCEPT !.run_number = @ + 1]}
    /\ data' # data => board'["running"] = 0
    /\ queue' \in {queue, PutItem(queue, "HIGH", board')}
    /\ UNCHANGED <<updating, reading, poll, updateVars, faults>>

PowerCycle ==
    /\ changes < MaxChanges
    /\ changes' = changes + 1
    /\ board' = PowerOn
    /\ UNCHANGED <<queue, workerVars, poll, updateVars, faults>>

\* From here on, writes and polls of the board fail.
BoardLost ==
    /\ Fault("unreachable")
    /\ UNCHANGED <<board, queue, workerVars, poll, updateVars, changes>>

------------------------------------------------------------------------------
\* The polling thread reads under sock_lock and puts after it.

PollRead ==
    /\ poll = {} /\ Reachable
    /\ Len(queue["LOW"]) < MaxLow
    /\ poll' = {board}
    /\ UNCHANGED <<board, queue, workerVars, updateVars, changes, faults>>

\* Mutant of PollFails: a failed poll puts an update all the same.
PollFailsPutsUpdate ==
    /\ poll = {}
    /\ Fault("comms")
    /\ queue' = PutItem(queue, "LOW", NoReading)
    /\ UNCHANGED <<board, workerVars, poll, updateVars, changes>>

\* A poll that fails puts nothing: no HardwareUpdateFailedEvent either.
PollFails ==
    /\ poll = {}
    /\ Fault("comms")
    /\ UNCHANGED <<board, queue, workerVars, poll, updateVars, changes>>

PollPut ==
    /\ \E registers \in poll : queue' = PutItem(queue, "LOW", registers)
    /\ poll' = {}
    /\ UNCHANGED <<board, workerVars, updateVars, changes, faults>>

------------------------------------------------------------------------------
\* The worker.

\* Mutant of TakeHardwareUpdate: the update counts as good before its fields.
TakeHardwareUpdateOkFirst ==
    /\ updating = << >> /\ ~IsEmpty(queue)
    /\ reading' = NextItem(queue)
    /\ queue' = WithoutNext(queue)
    /\ updating' = <<"ok">> \o FieldOrder
    /\ UNCHANGED <<board, data, poll, updateVars, changes, faults>>

\* The HardwareUpdateEvent case: its assignments, last_hardware_update_ok last.
TakeHardwareUpdate ==
    /\ updating = << >> /\ ~IsEmpty(queue)
    /\ reading' = NextItem(queue)
    /\ queue' = WithoutNext(queue)
    /\ updating' = Append(FieldOrder, "ok")
    /\ UNCHANGED <<board, data, poll, updateVars, changes, faults>>

AssignField ==
    /\ updating # << >>
    /\ updating' = Tail(updating)
    /\ data' = IF Head(updating) = "ok" THEN [data EXCEPT !.ok = TRUE]
               ELSE [data EXCEPT !.rbv[Head(updating)] =
                        [polled |-> TRUE, value |-> Readback(Head(updating), reading)]]
    /\ reading' = IF Len(updating) = 1 THEN NoReading ELSE reading
    /\ UNCHANGED <<board, queue, poll, updateVars, changes, faults>>

------------------------------------------------------------------------------
\* UpdatePVs: update_all reads the alarm, then each field when it posts it.

StartRound ==
    /\ posting = << >>
    /\ posting' = PostOrder
    /\ alarm' = IF data.ok THEN "NO_ALARM" ELSE "COMM_ALARM"
    /\ UNCHANGED <<board, queue, workerVars, poll, pvs, changes, faults>>

\* Mutant of PostReadback: a value that has not changed is not posted.
PostReadbackChanged ==
    /\ posting # << >>
    /\ posting' = Tail(posting)
    /\ LET pv == Head(posting) IN
        pvs' = IF pvs[pv].value = Current(pv, data).value THEN pvs
               ELSE [pvs EXCEPT ![pv] = Post(pv, data, alarm)]
    /\ UNCHANGED <<board, queue, workerVars, poll, alarm, changes, faults>>

PostReadback ==
    /\ posting # << >>
    /\ posting' = Tail(posting)
    /\ pvs' = [pvs EXCEPT ![Head(posting)] = Post(Head(posting), data, alarm)]
    /\ UNCHANGED <<board, queue, workerVars, poll, alarm, changes, faults>>

------------------------------------------------------------------------------
\* The process dies and is started again; only the run number is saved.
Restart ==
    /\ Fault("restart")
    /\ queue' = EmptyQueue
    /\ updating' = << >> /\ reading' = NoReading /\ data' = NewData(data.run_number)
    /\ poll' = {}
    /\ posting' = << >> /\ alarm' = "COMM_ALARM"
    /\ pvs' = NewPvs(data.run_number)
    /\ UNCHANGED <<board, changes>>

Next ==
    \/ HandlerWrites \/ PowerCycle \/ BoardLost
    \/ PollRead \/ PollFails \/ PollPut
    \/ TakeHardwareUpdate \/ AssignField
    \/ StartRound \/ PostReadback
    \/ Restart

Spec == Init /\ [][Next]_vars

\* The loops of the three threads go on; nothing makes the board change.
FairSpec ==
    /\ Spec
    /\ WF_vars(PollRead) /\ WF_vars(PollPut)
    /\ WF_vars(TakeHardwareUpdate) /\ WF_vars(AssignField)
    /\ WF_vars(StartRound) /\ WF_vars(PostReadback)

------------------------------------------------------------------------------
\* Updates are boards there were, and what is left of one ends with its mark that
\* it was good.
ReadbacksTypeOK ==
    /\ board \in Looks /\ reading \in Looks /\ poll \subseteq Looks
    /\ queue \in [Priority -> Seq(Looks)]
    /\ updating \in Seq(Field \cup {"ok"}) /\ posting \in Seq(PV)
    /\ \A i \in 1..Len(updating) : updating[i] = "ok" => i = Len(updating)
    /\ data \in [ok : BOOLEAN, run_number : Nat,
                rbv : [Field -> [polled : BOOLEAN, value : Int]]]
    /\ alarm \in {"COMM_ALARM", "NO_ALARM"}
    /\ pvs \in [PV -> [alarm : {"initial", "COMM_ALARM", "NO_ALARM"},
                       polled : BOOLEAN, value : Int]]
    /\ changes \in 0..MaxChanges /\ faults \subseteq FaultKinds

\* A readback that UpdatePVs posted without an alarm is a reading of the board,
\* never a default of Data, however the assignments of the worker and the posts
\* interleave: process_worker_event sets last_hardware_update_ok after the
\* fields, update_all reads it before them.
NoAlarmMeansPolled ==
    \A field \in Fields : pvs[field].alarm = "NO_ALARM" => pvs[field].polled

\* Data, the PVs and every reading under way show the board as it is.
Settled ==
    /\ Items(queue) \cup poll \subseteq {board}
    /\ updating # << >> => reading = board
    /\ \A field \in Fields :
          /\ data.rbv[field] = [polled |-> TRUE, value |-> Readback(field, board)]
          /\ pvs[field].polled /\ pvs[field].value = Readback(field, board)

\* Once the values of the readbacks are settled they stay so while the board stays
\* as it is: no PV flickers to a default or a half-made reading, whatever polls,
\* failed polls, assignments and posts follow, until the IOC is restarted.
SettledStays ==
    [][Settled /\ UNCHANGED board => Settled' \/ Restart]_vars

\* In the end every readback PV shows what the board has and RUNNUMBER how many
\* runs have ended, without an alarm, also when a reading from before a begin or
\* end is handled after the one that the begin or end has put, when the worker
\* changes Data in the middle of a round of posts, and after a failed poll, a
\* restart or a power cycle; unless the board no longer answers.
ReadbacksSettle ==
    <>[](Reachable =>
         /\ \A field \in Fields :
               pvs[field].value = Readback(field, board) /\ pvs[field].alarm = "NO_ALARM"
         /\ pvs["run_number"] = Post("run_number", data, "NO_ALARM"))

\* When the board no longer answers, every readback PV gets a COMM_ALARM: the
\* mark that update_all makes alarms of is "whether the most recent hardware
\* update successfully polled the hardware" (data.py).
AlarmWhenUnreachable ==
    ~Reachable ~> \A field \in Fields : pvs[field].alarm = "COMM_ALARM"
=============================================================================
