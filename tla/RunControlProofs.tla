-------------------------- MODULE RunControlProofs --------------------------
(***************************************************************************)
(* What RunControl guarantees for every value of its constants: every mix  *)
(* of faults, any number of puts, pool threads and periods.                *)
(***************************************************************************)
EXTENDS RunControl, WorkerQueueProofs, SequenceTheorems, TLAPS

USE DEF On, Off, Bit, Computer, OtherMode, UnknownMode, NoPut, NoJob

Assumptions ==
    /\ MaxPuts \in Nat /\ MaxLow \in Nat /\ MaxFaults \in Nat
    /\ PoolSize \in Nat \ {0} /\ MaxPeriod \in Nat \ {0}
    /\ Requests \subseteq [type : ClientTypes, value : Value]
    /\ \A r \in Requests : r.type # "current_period" => r.value \in Bit

\* The assumptions on the constants, under one name.
LEMMA ConstantsTyped == Assumptions
  BY MaxPutsAssumption, BoundsAssumption, PoolSizeAssumption, MaxPeriodAssumption,
     RequestsAssumption, FlagRequestsAssumption DEF Assumptions

------------------------------------------------------------------------------
\* The queue.

\* A HIGH event is well-typed when its parts are.
LEMMA HighEventType ==
  ASSUME Assumptions, NEW q \in [Priority -> Seq(Event)], NEW type \in EventTypes,
         NEW put \in PutId \cup {NoPut}, NEW value \in Value,
         type = "current_period" => value >= 1
  PROVE  HighEvent(q, type, put, value) \in [Priority -> Seq(Event)]
  <1>1. [type |-> type, put |-> put, value |-> value] \in Event
    BY DEF Event
  <1> QED
    BY <1>1, PutItemType DEF HighEvent, Priority

\* The queue a process starts with.
LEMMA BootQueueType ==
  ASSUME Assumptions, NEW d, d.vetoes \in Value
  PROVE  BootQueue(d) \in [Priority -> Seq(Event)]
  <1>1. EmptyQueue \in [Priority -> Seq(Event)]
    BY DEF EmptyQueue
  <1>2. "set_ip" \in EventTypes /\ "vetoes" \in EventTypes /\ 0 \in Value
    BY DEF EventTypes, ClientTypes, Value, Assumptions
  <1>3. HighEvent(EmptyQueue, "set_ip", NoPut, 0) \in [Priority -> Seq(Event)]
    BY <1>1, <1>2, HighEventType
  <1> QED
    BY <1>2, <1>3, HighEventType DEF BootQueue

\* Nobody waits on the events a process starts with.
LEMMA BootQueueItems ==
  ASSUME Assumptions, NEW d, d.vetoes \in Value
  PROVE  Items(BootQueue(d)) \subseteq
           {[type |-> "set_ip", put |-> NoPut, value |-> 0],
            [type |-> "vetoes", put |-> NoPut, value |-> d.vetoes]}
  <1> DEFINE first == [type |-> "set_ip", put |-> NoPut, value |-> 0]
             second == [type |-> "vetoes", put |-> NoPut, value |-> d.vetoes]
             q == PutItem(EmptyQueue, "HIGH", first)
  <1>1. first \in Event /\ second \in Event
    BY DEF Event, EventTypes, ClientTypes, Value, Assumptions
  <1>2. EmptyQueue \in [Priority -> Seq(Event)] /\ "HIGH" \in Priority
    BY DEF EmptyQueue, Priority
  <1>3. q \in [Priority -> Seq(Event)] /\ Items(q) \subseteq {first}
    <2> HIDE DEF first
    <2>1. q \in [Priority -> Seq(Event)]
      BY <1>1, <1>2, PutItemType
    <2>2. Items(q) \subseteq Items(EmptyQueue) \cup {first}
      BY <1>1, <1>2, PutItemItems
    <2> QED
      BY <2>1, <2>2, EmptyQueueItems
  <1>4. BootQueue(d) = PutItem(q, "HIGH", second)
    BY DEF BootQueue, HighEvent
  <1> HIDE DEF q, first, second
  <1>5. Items(PutItem(q, "HIGH", second)) \subseteq Items(q) \cup {second}
    BY <1>1, <1>2, <1>3, PutItemItems
  <1>6. Items(BootQueue(d)) \subseteq {first, second}
    BY <1>3, <1>4, <1>5
  <1> QED
    BY <1>6 DEF first, second

------------------------------------------------------------------------------
\* Types.

\* The program starts well-typed.
LEMMA InitType == Init => TypeOK
  <1> SUFFICES ASSUME Init PROVE TypeOK
    OBVIOUS
  <1>1. NewData \in Data
    BY ConstantsTyped DEF NewData, Data, Value, Assumptions
  <1>2. BootQueue(NewData) \in [Priority -> Seq(Event)]
    BY <1>1, ConstantsTyped, BootQueueType DEF Data
  <1>3. NoEvent \in Event
    BY ConstantsTyped DEF NoEvent, Event, EventTypes, ClientTypes, Value, Assumptions
  <1>4. NoFile \in StateFile
    BY ConstantsTyped DEF NoFile, StateFile, Value, Assumptions
  <1> QED
    BY <1>1, <1>2, <1>3, <1>4, ConstantsTyped
       DEF Init, TypeOK, Value, Assumptions, WriteSteps, Register

\* The event the worker takes and the rest of the queue are well-typed.
LEMMA TakeType ==
  ASSUME Assumptions, TypeOK, NEW type, Take(type)
  PROVE  /\ NextItem(queue) \in Event
         /\ NextItem(queue).type = type
         /\ queue' \in [Priority -> Seq(Event)]
  BY TakeItemType DEF Take, TypeOK

\* The event of an idle worker is well-typed.
LEMMA NoEventType == Assumptions => NoEvent \in Event
  BY DEF NoEvent, Event, EventTypes, ClientTypes, Value, Assumptions

\* The Data object and the state file keep their types.
LEMMA DataUpdates ==
  ASSUME Assumptions, NEW d \in Data, NEW v \in Value, NEW job \in PutId \cup {NoJob},
         NEW mode \in Value
  PROVE  /\ [d EXCEPT !.running = v] \in Data
         /\ [d EXCEPT !.paused = v] \in Data
         /\ [d EXCEPT !.job_id = job] \in Data
         /\ [d EXCEPT !.current_period_sp = v] \in Data
         /\ [d EXCEPT !.period_mode_sp = mode] \in Data
  BY DEF Data

\* What an end or a veto change records in data keeps its type.
LEMMA AfterFlushUpdate ==
  ASSUME Assumptions, NEW d \in Data, NEW v \in Value, NEW n \in Nat
  PROVE  [d EXCEPT !.run_number = n, !.vetoes = v] \in Data
  BY DEF Data

\* Loading a state file gives a Data object.
LEMMA LoadedType ==
  ASSUME Assumptions, NEW file \in StateFile
  PROVE  Loaded(file) \in Data /\ NewData \in Data
  <1>1. NewData \in Data
    BY DEF NewData, Data, Value, Assumptions
  <1>2. file.job_id \in PutId \cup {NoJob} /\ file.run_number \in Nat /\ file.vetoes \in Value
    BY DEF StateFile
  <1>3. [NewData EXCEPT !.job_id = file.job_id] \in Data
    BY <1>1, <1>2 DEF Data
  <1> DEFINE d == [NewData EXCEPT !.job_id = file.job_id]
  <1>4. Loaded(file) = [d EXCEPT !.run_number = file.run_number, !.vetoes = file.vetoes]
    BY DEF Loaded
  <1> HIDE DEF d
  <1>5. [d EXCEPT !.run_number = file.run_number, !.vetoes = file.vetoes] \in Data
    BY <1>2, <1>3, AfterFlushUpdate DEF d
  <1> QED
    BY <1>1, <1>4, <1>5

\* What the worker writes to the state file is a state file.
LEMMA FileTypes ==
  ASSUME Assumptions, NEW d \in Data
  PROVE  TornFile \in StateFile /\ Saved(d) \in StateFile
  BY DEF TornFile, NoFile, Saved, StateFile, Data, Value, Assumptions

\* Setting an event or its error keeps the type of done.
LEMMA SetType ==
  ASSUME TypeOK, NEW p, SetDone(p) \/ SetErr(p)
  PROVE  done' \in [PutId -> {"clear", "set", "err"}]
  BY DEF TypeOK, SetDone, SetErr

\* A register write keeps the type of the board.
LEMMA WriteType ==
  ASSUME Assumptions, TypeOK, pc \in WriteSteps
  PROVE  [board EXCEPT ![RegisterOf[pc]] = WrittenValue] \in [Register -> Value]
  <1>1. RegisterOf[pc] \in Register
    BY DEF RegisterOf, WriteSteps, Register
  <1>2. event.value \in Value /\ (pc = "current_period" => event.value >= 1)
    BY DEF TypeOK, Event
  <1>3. WrittenValue \in Value
    BY <1>2 DEF WrittenValue, Value, Assumptions
  <1> QED
    BY <1>1, <1>3 DEF TypeOK

\* A fault keeps the number of faults within its bound.
LEMMA FaultType == ASSUME Assumptions, TypeOK, NEW kind, Fault(kind)
                   PROVE  faults' \in Seq(FaultKinds) /\ Len(faults') <= MaxFaults
  BY DEF Fault, TypeOK, Assumptions

\* A put and its answer keep the types: RequestPut rejects a period below 1.
LEMMA ClientType ==
  ASSUME Assumptions, TypeOK, NEW p \in PutId,
         (\E request \in Requests : RequestPut(p, request)) \/ Answer(p)
  PROVE  TypeOK'
  <1>1. ASSUME NEW request \in Requests, RequestPut(p, request)
        PROVE  TypeOK'
    <2>1. request \in [type : ClientTypes, value : Value]
      BY DEF Assumptions
    <2>2. request.type = "current_period" /\ ~(request.value < 1) => request.value >= 1
      BY <2>1 DEF Value, Assumptions
    <2>3. queue' \in [Priority -> Seq(Event)]
      <3>1. CASE request.type = "current_period" /\ request.value < 1
        BY <1>1, <3>1 DEF RequestPut, TypeOK
      <3>2. CASE ~(request.type = "current_period" /\ request.value < 1)
        <4>1. queue' = HighEvent(queue, request.type, p, request.value)
          BY <1>1, <3>2 DEF RequestPut
        <4>2. request.type \in EventTypes /\ request.value \in Value
          BY <2>1 DEF EventTypes
        <4> QED
          BY <2>2, <3>2, <4>1, <4>2, HighEventType DEF TypeOK
      <3> QED
        BY <3>1, <3>2
    <2> QED
      BY <1>1, <2>1, <2>3 DEF RequestPut, TypeOK, workerVars, pollVars, kafkaVars
  <1>2. ASSUME Answer(p) PROVE TypeOK'
    BY <1>2 DEF Answer, TypeOK, workerVars, pollVars, kafkaVars
  <1> QED
    BY <1>1, <1>2

\* Taking an event keeps the types.
LEMMA TakeStepType ==
  ASSUME Assumptions, TypeOK,
         TakeHardwareUpdate \/ RefuseBegin \/ AcceptBegin \/ RefuseEnd \/ AcceptEnd
           \/ TakeOther
  PROVE  TypeOK'
  <1> USE DEF workerVars, pollVars, clientVars, kafkaVars
  <1>1. CASE TakeHardwareUpdate
    <2>1. data' \in Data
      BY <1>1, TakeType, DataUpdates DEF TakeHardwareUpdate, TypeOK, Event
    <2> QED
      BY <1>1, <2>1, TakeType DEF TakeHardwareUpdate, TypeOK
  <1>2. CASE RefuseBegin
    BY <1>2, TakeType, SetType DEF RefuseBegin, TypeOK
  <1>3. CASE AcceptBegin
    <2>1. data' \in Data
      BY <1>3, TakeType, DataUpdates DEF AcceptBegin, TypeOK, Event
    <2> QED
      BY <1>3, <2>1, TakeType DEF AcceptBegin, TypeOK, WriteSteps, RegisterOf
  <1>4. CASE RefuseEnd
    BY <1>4, TakeType, SetType DEF RefuseEnd, TypeOK
  <1>5. CASE AcceptEnd
    BY <1>5, TakeType DEF AcceptEnd, TypeOK, WriteSteps, RegisterOf
  <1>6. CASE TakeOther
    BY <1>6, TakeType DEF TakeOther, TypeOK, WriteSteps, RegisterOf
  <1> QED
    BY <1>1, <1>2, <1>3, <1>4, <1>5, <1>6

\* A register write of a handler, done or failed, keeps the types.
LEMMA WriteStepType ==
  ASSUME Assumptions, TypeOK,
         BeginPause \/ BeginPeriod \/ WriteThenProduce \/ SetPause \/ SetCurrentPeriod
           \/ SetPeriodMode \/ SetIP \/ WriteFails
  PROVE  TypeOK'
  <1> USE NoEventType DEF workerVars, pollVars, clientVars, kafkaVars, Goto, Finish
  <1>1. CASE BeginPause
    <2>1. data' \in Data
      BY <1>1, DataUpdates DEF BeginPause, TypeOK, Event
    <2> QED
      BY <1>1, <2>1, WriteType DEF BeginPause, Write, TypeOK, WriteSteps, RegisterOf
  <1>2. CASE BeginPeriod
    <2>1. data' \in Data
      <3>1. 1 \in Value
        BY DEF Value, Assumptions
      <3>2. data' = [data EXCEPT !.current_period_sp = 1]
        BY <1>2 DEF BeginPeriod
      <3> QED
        BY <3>1, <3>2, DataUpdates DEF TypeOK
    <2> QED
      BY <1>2, <2>1, WriteType DEF BeginPeriod, Write, TypeOK, WriteSteps, RegisterOf
  <1>3. CASE WriteThenProduce
    BY <1>3, WriteType DEF WriteThenProduce, Write, TypeOK, WriteSteps, RegisterOf
  <1>4. CASE SetPause
    <2>1. data' \in Data
      BY <1>4, DataUpdates DEF SetPause, TypeOK, Event
    <2> QED
      BY <1>4, <2>1, WriteType, SetType DEF SetPause, Write, TypeOK, WriteSteps, RegisterOf
  <1>5. CASE SetCurrentPeriod
    <2>1. data' \in Data
      <3>1. event.value \in Value
        BY DEF TypeOK, Event
      <3> QED
        BY <1>5, <3>1, DataUpdates DEF SetCurrentPeriod, TypeOK
    <2> QED
      BY <1>5, <2>1, WriteType, SetType
         DEF SetCurrentPeriod, Write, TypeOK, WriteSteps, RegisterOf
  <1>6. CASE SetPeriodMode
    <2>1. data' \in Data
      BY <1>6, DataUpdates DEF SetPeriodMode, TypeOK, Event
    <2> QED
      BY <1>6, <2>1, WriteType, SetType
         DEF SetPeriodMode, Write, TypeOK, WriteSteps, RegisterOf
  <1>7. CASE SetIP
    BY <1>7 DEF SetIP, TypeOK
  <1>8. CASE WriteFails
    BY <1>8, WriteType, SetType, FaultType DEF WriteFails, Raise, TypeOK
  <1> QED
    BY <1>1, <1>2, <1>3, <1>4, <1>5, <1>6, <1>7, <1>8

\* What a handler sends is a message.
LEMMA MessageType == ASSUME Assumptions, TypeOK PROVE MessageOf(event) \in Message
  BY DEF MessageOf, Message, TypeOK, Data, Event, RunCommands

\* Sending, delivering and flushing keep the types.
LEMMA KafkaStepType ==
  ASSUME Assumptions, TypeOK,
         Produce \/ ProduceFails \/ ServeReport \/ FlushReturns \/ FlushTimesOut
           \/ Deliver \/ Expire
  PROVE  TypeOK'
  <1> USE NoEventType DEF workerVars, pollVars, clientVars, kafkaVars, Goto, Finish
  <1>1. CASE Produce
    BY <1>1, MessageType DEF Produce, TypeOK
  <1>2. CASE ProduceFails
    BY <1>2, SetType, FaultType DEF ProduceFails, Raise, TypeOK
  <1>3. CASE ServeReport
    BY <1>3, SetType DEF ServeReport, TypeOK
  <1>4. ASSUME AfterFlush PROVE data' \in Data
    <2> DEFINE run == IF event.type = "end" THEN data.run_number + 1 ELSE data.run_number
               vetoes == IF event.type = "vetoes" THEN event.value ELSE data.vetoes
    <2>1. run \in Nat /\ vetoes \in Value
      BY DEF TypeOK, Data, Event
    <2>2. data' = [data EXCEPT !.run_number = run, !.vetoes = vetoes]
      BY <1>4 DEF AfterFlush
    <2> QED
      BY <2>1, <2>2, AfterFlushUpdate DEF TypeOK
  <1>5. CASE FlushReturns \/ FlushTimesOut
    BY <1>4, <1>5, FaultType DEF FlushReturns, FlushTimesOut, AfterFlush, TypeOK
  <1>6. ASSUME NEW message \in outbox
        PROVE  /\ message \in Message
               /\ Appended(message) \in Seq(Message)
               /\ \A e \in BOOLEAN : [put |-> message.put, err |-> e] \in Report
    <2>1. message \in Message
      BY DEF TypeOK
    <2>2. Appended(message) \in Seq(Message)
      BY <2>1 DEF Appended, TypeOK
    <2>3. message.put \in PutId \cup {NoPut}
      BY <2>1 DEF Message
    <2> QED
      BY <2>1, <2>2, <2>3 DEF Report
  <1>7. CASE Deliver
    BY <1>6, <1>7 DEF Deliver, TypeOK
  <1>8. CASE Expire
    BY <1>6, <1>8, FaultType DEF Expire, TypeOK
  <1> QED
    BY <1>1, <1>2, <1>3, <1>5, <1>7, <1>8

\* Writing the state file keeps the types.
LEMMA SaveStepType ==
  ASSUME Assumptions, TypeOK, OpenStateFile \/ DumpState \/ SaveFails
  PROVE  TypeOK'
  <1> USE NoEventType DEF workerVars, pollVars, clientVars, kafkaVars, Goto, Finish
  <1>1. CASE OpenStateFile
    BY <1>1, FileTypes DEF OpenStateFile, TypeOK
  <1>2. CASE DumpState
    BY <1>2, FileTypes DEF DumpState, TypeOK
  <1>3. CASE SaveFails
    BY <1>3, SetType, FaultType DEF SaveFails, Raise, TypeOK
  <1> QED
    BY <1>1, <1>2, <1>3

\* A hardware update on the queue at either priority.
LEMMA UpdateType ==
  ASSUME Assumptions, NEW v \in Value
  PROVE  [type |-> "hardware_update", put |-> NoPut, value |-> v] \in Event
  BY DEF Event, EventTypes

\* Polling and sending the vetoes again keep the types.
LEMMA PollStepType ==
  ASSUME Assumptions, TypeOK,
         WorkerPoll \/ WorkerPollFails \/ ResendVetoes \/ PollRead \/ PollPut
  PROVE  TypeOK'
  <1> USE NoEventType
      DEF workerVars, pollVars, clientVars, kafkaVars, Goto, Finish, AfterPoll
  <1>1. board.run_register \in Value /\ data.vetoes \in Value /\ Off \in Value
    BY DEF TypeOK, Data, Register, Value, Assumptions
  <1>2. CASE WorkerPoll
    <2>1. queue' \in [Priority -> Seq(Event)]
      BY <1>1, <1>2, HighEventType DEF WorkerPoll, TypeOK, EventTypes
    <2> QED
      BY <1>2, <2>1 DEF WorkerPoll, TypeOK
  <1>3. CASE WorkerPollFails
    BY <1>3, FaultType DEF WorkerPollFails, TypeOK
  <1>4. CASE ResendVetoes
    <2>1. queue' \in [Priority -> Seq(Event)]
      BY <1>1, <1>4, HighEventType DEF ResendVetoes, TypeOK, EventTypes, ClientTypes
    <2> QED
      BY <1>4, <2>1 DEF ResendVetoes, TypeOK
  <1>5. CASE PollRead
    BY <1>1, <1>5 DEF PollRead, TypeOK
  <1>6. CASE PollPut
    <2>1. queue' \in [Priority -> Seq(Event)]
      BY <1>6, UpdateType, PutItemType DEF PollPut, TypeOK, Priority
    <2> QED
      BY <1>1, <1>6, <2>1 DEF PollPut, TypeOK
  <1> QED
    BY <1>2, <1>3, <1>4, <1>5, <1>6

\* A crash and restart keeps the types.
LEMMA CrashType == ASSUME Assumptions, TypeOK, CrashAndRestart PROVE TypeOK'
  <1>1. EmptyQueue \in [Priority -> Seq(Event)]
    BY DEF EmptyQueue
  <1>2. data' \in Data
    BY LoadedType DEF CrashAndRestart, TypeOK
  <1>3. queue' \in [Priority -> Seq(Event)]
    BY <1>1, <1>2, BootQueueType DEF CrashAndRestart, Data
  <1>4. Off \in Value
    BY DEF Value, Assumptions
  <1> QED
    BY <1>2, <1>3, <1>4, NoEventType, FaultType DEF CrashAndRestart, TypeOK

\* Every step keeps the types.
LEMMA StepType == TypeOK /\ [Next]_vars => TypeOK'
  <1> SUFFICES ASSUME TypeOK, [Next]_vars PROVE TypeOK'
    OBVIOUS
  <1>1. CASE ClientRequest
    BY <1>1, ConstantsTyped, ClientType DEF ClientRequest
  <1>2. CASE \E p \in PutId : Answer(p)
    BY <1>2, ConstantsTyped, ClientType
  <1>3. CASE WorkerStep
    BY <1>3, ConstantsTyped, TakeStepType, WriteStepType, KafkaStepType, SaveStepType,
       PollStepType DEF WorkerStep
  <1>4. CASE WorkerFault
    BY <1>4, ConstantsTyped, WriteStepType, KafkaStepType, SaveStepType, PollStepType
       DEF WorkerFault
  <1>5. CASE Deliver \/ Expire
    BY <1>5, ConstantsTyped, KafkaStepType
  <1>6. CASE PollRead \/ PollPut
    BY <1>6, ConstantsTyped, PollStepType
  <1>7. CASE CrashAndRestart
    BY <1>7, ConstantsTyped, CrashType
  <1>8. CASE UNCHANGED vars
    BY <1>8 DEF vars, workerVars, pollVars, clientVars, kafkaVars, TypeOK
  <1> QED
    BY <1>1, <1>2, <1>3, <1>4, <1>5, <1>6, <1>7, <1>8 DEF Next

\* The variables keep the shapes the code gives them, whatever fails: in
\* particular no event the worker takes writes a period below 1 to the board.
THEOREM TypeCorrect == Spec => []TypeOK
  BY InitType, StepType, PTL DEF Spec

------------------------------------------------------------------------------
\* An acknowledged begin or end is in the topic.
\*
\* The event of a begin or end can only be set by a delivery report, so the
\* invariant follows a put from the queue to its answer: who may still refer to
\* it (queue, worker, outbox, reports), and that a good report or a set event
\* of a begin or end means its message is in the topic.  A put that has not been
\* made yet is referred to by nothing.

IsRun(p) == asked[p] \in RunCommands
Made(p) == p \in PutId => puts[p] # "unused"

EventIsAsked(e) == e.put \in PutId => Made(e.put) /\ asked[e.put] = e.type

QueueInv == \A e \in Items(queue) : EventIsAsked(e)
WorkerInv == EventIsAsked(event)
OutboxInv ==
    \A m \in outbox :
        m.put \in PutId => Made(m.put) /\ (IsRun(m.put) => m.kind # "vetoes")
ReportInv ==
    \A r \in reports :
        r.put \in PutId => Made(r.put) /\ (IsRun(r.put) /\ ~r.err => Published(r.put))
DoneInv ==
    \A p \in PutId : /\ puts[p] = "unused" => done[p] = "clear"
                     /\ done[p] = "set" /\ IsRun(p) => Published(p)

DeliveryInv ==
    /\ TypeOK
    /\ QueueInv /\ WorkerInv
    /\ OutboxInv /\ ReportInv
    /\ DoneInv
    /\ AckedMeansDelivered

\* The delivery invariant holds at the start.
LEMMA InitDelivery == Init => DeliveryInv
  <1> SUFFICES ASSUME Init PROVE DeliveryInv
    OBVIOUS
  <1>1. TypeOK
    BY InitType
  <1>2. QueueInv
    <2>1. NewData.vetoes = 0 /\ 0 \in Value
      BY ConstantsTyped DEF NewData, Value, Assumptions
    <2>2. \A e \in Items(queue) : e.put = NoPut
      BY <2>1, ConstantsTyped, BootQueueItems DEF Init
    <2> QED
      BY <2>2 DEF QueueInv, EventIsAsked, PutId
  <1>3. WorkerInv
    BY DEF Init, WorkerInv, EventIsAsked, NoEvent, PutId
  <1> QED
    BY <1>1, <1>2, <1>3
       DEF DeliveryInv, Init, OutboxInv, ReportInv, DoneInv, AckedMeansDelivered

\* An error never acknowledges anything.
LEMMA ErrKeepsDone ==
  ASSUME TypeOK, DoneInv, NEW p, Made(p), SetErr(p), UNCHANGED <<asked, puts, topic>>
  PROVE  DoneInv'
  BY DEF TypeOK, DoneInv, Made, SetErr, IsRun, Published

\* Setting the event of a begin or end needs its message in the topic.
LEMMA SetKeepsDone ==
  ASSUME TypeOK, DoneInv, NEW p, Made(p), p \in PutId /\ IsRun(p) => Published(p),
         SetDone(p), UNCHANGED <<asked, puts, topic>>
  PROVE  DoneInv'
  BY DEF TypeOK, DoneInv, Made, SetDone, IsRun, Published

\* Taking an event keeps the delivery invariant.
LEMMA TakeDelivery ==
  ASSUME DeliveryInv, TypeOK',
         TakeHardwareUpdate \/ RefuseBegin \/ AcceptBegin \/ RefuseEnd \/ AcceptEnd
           \/ TakeOther
  PROVE  DeliveryInv'
  <1> USE DEF workerVars, pollVars, clientVars, kafkaVars
  <1>1. /\ ~IsEmpty(queue) /\ queue' = WithoutNext(queue)
        /\ UNCHANGED <<asked, puts, outbox, reports, topic>>
        /\ event' = event \/ event' = NextItem(queue)
        /\ UNCHANGED done \/ SetErr(NextItem(queue).put)
    BY DEF TakeHardwareUpdate, RefuseBegin, AcceptBegin, RefuseEnd, AcceptEnd, TakeOther,
           Take
  <1>2. NextItem(queue) \in Items(queue) /\ Items(queue') \subseteq Items(queue)
    BY <1>1, TakeItemItems DEF DeliveryInv, TypeOK
  <1>3. EventIsAsked(NextItem(queue))
    BY <1>2 DEF DeliveryInv, QueueInv
  <1>4. QueueInv'
    BY <1>1, <1>2 DEF DeliveryInv, QueueInv, EventIsAsked, Made
  <1>5. WorkerInv'
    BY <1>1, <1>3 DEF DeliveryInv, WorkerInv, EventIsAsked, Made
  <1>6. DoneInv'
    <2>1. Made(NextItem(queue).put)
      BY <1>3 DEF EventIsAsked, Made
    <2>2. CASE UNCHANGED done
      BY <1>1, <2>2 DEF DeliveryInv, DoneInv, IsRun, Published
    <2>3. CASE SetErr(NextItem(queue).put)
      BY <1>1, <2>1, <2>3, ErrKeepsDone DEF DeliveryInv
    <2> QED
      BY <1>1, <2>2, <2>3
  <1> QED
    BY <1>1, <1>4, <1>5, <1>6
       DEF DeliveryInv, OutboxInv, ReportInv, AckedMeansDelivered, Made, IsRun, Published

\* The register writes: only the handlers of other puts than begins and ends set
\* an event themselves.
LEMMA WriteDelivery ==
  ASSUME DeliveryInv, TypeOK',
         BeginPause \/ BeginPeriod \/ WriteThenProduce \/ SetPause \/ SetCurrentPeriod
           \/ SetPeriodMode \/ SetIP \/ WriteFails
  PROVE  DeliveryInv'
  <1> USE DEF workerVars, pollVars, clientVars, kafkaVars, Goto, Finish
  <1>1. /\ UNCHANGED <<queue, asked, puts, outbox, reports, topic>>
        /\ event' = event \/ event' = NoEvent
    BY DEF BeginPause, BeginPeriod, WriteThenProduce, SetPause, SetCurrentPeriod,
           SetPeriodMode, SetIP, WriteFails, Raise
  <1>2. \/ UNCHANGED done \/ SetErr(event.put)
        \/ SetDone(event.put) /\ pc \in {"pause", "current_period", "period_mode"}
    BY DEF BeginPause, BeginPeriod, WriteThenProduce, SetPause, SetCurrentPeriod,
           SetPeriodMode, SetIP, WriteFails, Raise, Write
  <1>3. EventIsAsked(event) /\ Made(event.put)
    BY DEF DeliveryInv, WorkerInv, EventIsAsked, Made
  <1>4. WorkerInv'
    BY <1>1, <1>3 DEF WorkerInv, EventIsAsked, Made, NoEvent, PutId
  <1>5. DoneInv'
    <2>1. CASE UNCHANGED done
      BY <1>1, <2>1 DEF DeliveryInv, DoneInv, IsRun, Published
    <2>2. CASE SetErr(event.put)
      BY <1>1, <1>3, <2>2, ErrKeepsDone DEF DeliveryInv
    <2>3. CASE SetDone(event.put) /\ pc \in {"pause", "current_period", "period_mode"}
      <3>1. event.put \in PutId => ~IsRun(event.put)
        BY <1>3, <2>3 DEF EventIsAsked, IsRun, RunCommands, DeliveryInv, TypeOK
      <3> QED
        BY <1>1, <1>3, <2>3, <3>1, SetKeepsDone DEF DeliveryInv
    <2> QED
      BY <1>2, <2>1, <2>2, <2>3
  <1> QED
    BY <1>1, <1>4, <1>5
       DEF DeliveryInv, QueueInv, EventIsAsked, OutboxInv, ReportInv, AckedMeansDelivered,
           Made, IsRun, Published

\* Steps of the worker that touch neither Kafka nor an event except with an
\* error: they put at most events nobody waits on.
LEMMA QuietDelivery ==
  ASSUME DeliveryInv, TypeOK',
         UNCHANGED <<asked, puts, outbox, reports, topic>>,
         event' = event \/ event' = NoEvent,
         \A e \in Items(queue') : e \in Items(queue) \/ e.put = NoPut,
         UNCHANGED done \/ SetErr(event.put)
  PROVE  DeliveryInv'
  <1>1. EventIsAsked(event) /\ Made(event.put)
    BY DEF DeliveryInv, WorkerInv, EventIsAsked, Made
  <1>2. WorkerInv'
    BY <1>1 DEF WorkerInv, EventIsAsked, Made, NoEvent, PutId
  <1>3. QueueInv'
    BY DEF DeliveryInv, QueueInv, EventIsAsked, Made, PutId
  <1>4. DoneInv'
    <2>1. CASE UNCHANGED done
      BY <2>1 DEF DeliveryInv, DoneInv, IsRun, Published
    <2>2. CASE SetErr(event.put)
      BY <1>1, <2>2, ErrKeepsDone DEF DeliveryInv
    <2> QED
      BY <2>1, <2>2
  <1> QED
    BY <1>2, <1>3, <1>4
       DEF DeliveryInv, OutboxInv, ReportInv, AckedMeansDelivered, Made, IsRun, Published

\* Saving and polling keep the delivery invariant.
LEMMA SaveAndPollDelivery ==
  ASSUME Assumptions, DeliveryInv, TypeOK',
         ProduceFails \/ FlushReturns \/ FlushTimesOut \/ OpenStateFile \/ DumpState
           \/ SaveFails \/ WorkerPoll \/ WorkerPollFails \/ ResendVetoes \/ PollRead
           \/ PollPut
  PROVE  DeliveryInv'
  <1> USE DEF workerVars, pollVars, clientVars, kafkaVars, Goto, Finish, AfterPoll,
              AfterFlush, Raise
  <1>1. /\ UNCHANGED <<asked, puts, outbox, reports, topic>>
        /\ event' = event \/ event' = NoEvent
        /\ UNCHANGED done \/ SetErr(event.put)
    BY DEF ProduceFails, FlushReturns, FlushTimesOut, OpenStateFile, DumpState, SaveFails,
           WorkerPoll, WorkerPollFails, ResendVetoes, PollRead, PollPut
  <1>2. \A e \in Items(queue') : e \in Items(queue) \/ e.put = NoPut
    <2> DEFINE update(v) == [type |-> "hardware_update", put |-> NoPut, value |-> v]
               resend == [type |-> "vetoes", put |-> NoPut, value |-> data.vetoes]
    <2>1. /\ \A v \in Value : update(v) \in Event
          /\ resend \in Event
          /\ board.run_register \in Value /\ pollValue \in Value
      BY UpdateType DEF DeliveryInv, TypeOK, Data, Register, Event, EventTypes, ClientTypes
    <2>2. \/ UNCHANGED queue
          \/ \E pr \in Priority : \E v \in Value : queue' = PutItem(queue, pr, update(v))
          \/ queue' = PutItem(queue, "HIGH", resend)
      BY <2>1
         DEF ProduceFails, FlushReturns, FlushTimesOut, OpenStateFile, DumpState, SaveFails,
             WorkerPoll, WorkerPollFails, ResendVetoes, PollRead, PollPut, HighEvent, Priority
    <2>3. ASSUME NEW pr \in Priority, NEW v \in Value, queue' = PutItem(queue, pr, update(v))
          PROVE  \A e \in Items(queue') : e \in Items(queue) \/ e.put = NoPut
      <3> DEFINE u == update(v)
      <3>1. u \in Event /\ u.put = NoPut /\ queue' = PutItem(queue, pr, u)
        BY <2>1, <2>3
      <3> HIDE DEF u
      <3>2. Items(queue') \subseteq Items(queue) \cup {u}
        BY <3>1, PutItemItems DEF DeliveryInv, TypeOK
      <3> QED
        BY <3>1, <3>2
    <2>4. ASSUME queue' = PutItem(queue, "HIGH", resend)
          PROVE  \A e \in Items(queue') : e \in Items(queue) \/ e.put = NoPut
      <3>1. Items(queue') \subseteq Items(queue) \cup {resend}
        BY <2>1, <2>4, PutItemItems DEF DeliveryInv, TypeOK, Priority
      <3> QED
        BY <3>1
    <2> QED
      BY <2>2, <2>3, <2>4
  <1> QED
    BY <1>1, <1>2, QuietDelivery

\* The topic only grows, so what is published stays published.
LEMMA PublishedGrows ==
  ASSUME TypeOK, NEW m \in Message, topic' = topic \/ topic' = Append(topic, m)
  PROVE  /\ \A p : Published(p) => Published(p)'
         /\ topic' = Append(topic, m) => Published(m.put)'
  <1>1. CASE topic' = topic
    <2>1. topic # Append(topic, m)
      BY DEF TypeOK
    <2> QED
      BY <1>1, <2>1 DEF Published
  <1>2. CASE topic' = Append(topic, m)
    <2>1. /\ Len(topic') = Len(topic) + 1 /\ Len(topic) \in Nat
          /\ topic'[Len(topic) + 1] = m
          /\ \A i \in 1..Len(topic) : topic'[i] = topic[i]
      BY <1>2 DEF TypeOK
    <2> QED
      BY <2>1 DEF Published
  <1> QED
    BY <1>1, <1>2

\* Handing a message to the producer keeps the delivery invariant.
LEMMA ProduceDelivery == ASSUME DeliveryInv, TypeOK', Produce PROVE DeliveryInv'
  <1> USE DEF workerVars, pollVars, clientVars, kafkaVars, Goto
  <1>1. /\ UNCHANGED <<queue, event, asked, puts, done, reports, topic>>
        /\ outbox' = outbox \cup {MessageOf(event)}
    BY DEF Produce
  <1>2. MessageOf(event).put = event.put
        /\ (event.type \in RunCommands => MessageOf(event).kind # "vetoes")
    BY DEF MessageOf, RunCommands
  <1>3. OutboxInv'
    BY <1>1, <1>2 DEF DeliveryInv, WorkerInv, EventIsAsked, OutboxInv, Made, IsRun
  <1> QED
    BY <1>1, <1>3
       DEF DeliveryInv, QueueInv, WorkerInv, EventIsAsked, ReportInv, DoneInv,
           AckedMeansDelivered, Made, IsRun, Published

\* Serving a delivery report keeps the delivery invariant.
LEMMA ServeDelivery == ASSUME DeliveryInv, TypeOK', ServeReport PROVE DeliveryInv'
  <1> USE DEF workerVars, pollVars, clientVars, kafkaVars
  <1>1. PICK report \in reports :
          /\ reports' = reports \ {report}
          /\ IF report.err THEN SetErr(report.put) ELSE SetDone(report.put)
    BY DEF ServeReport
  <1>2. UNCHANGED <<queue, event, asked, puts, outbox, topic>>
    BY DEF ServeReport
  <1>3. Made(report.put)
        /\ (report.put \in PutId /\ IsRun(report.put) /\ ~report.err => Published(report.put))
    BY DEF DeliveryInv, ReportInv, Made
  <1>4. DoneInv'
    <2>1. CASE report.err
      BY <1>1, <1>2, <1>3, <2>1, ErrKeepsDone DEF DeliveryInv
    <2>2. CASE ~report.err
      BY <1>1, <1>2, <1>3, <2>2, SetKeepsDone DEF DeliveryInv
    <2> QED
      BY <2>1, <2>2
  <1> QED
    BY <1>1, <1>2, <1>4
       DEF DeliveryInv, QueueInv, WorkerInv, EventIsAsked, OutboxInv, ReportInv,
           AckedMeansDelivered, Made, IsRun, Published

\* A good report of a begin or end is written with its message in the topic.
LEMMA BrokerDelivery == ASSUME DeliveryInv, TypeOK', Deliver \/ Expire PROVE DeliveryInv'
  <1> USE DEF workerVars, pollVars, clientVars, kafkaVars
  <1>1. PICK m \in outbox :
          /\ outbox' = outbox \ {m}
          /\ \/ topic' = Appended(m) /\ reports' = reports \cup {[put |-> m.put, err |-> FALSE]}
             \/ /\ topic' = topic \/ topic' = Appended(m)
                /\ reports' = reports \cup {[put |-> m.put, err |-> TRUE]}
    BY DEF Deliver, Expire
  <1>2. UNCHANGED <<queue, event, asked, puts, done>>
    BY DEF Deliver, Expire
  <1>3. m \in Message
    BY DEF DeliveryInv, TypeOK
  <1>4. topic' = topic \/ topic' = Append(topic, m)
    BY <1>1 DEF Appended
  <1>5. \A p : Published(p) => Published(p)'
    BY <1>3, <1>4, PublishedGrows DEF DeliveryInv
  <1>6. m.put \in PutId => Made(m.put) /\ (IsRun(m.put) => m.kind # "vetoes")
    BY DEF DeliveryInv, OutboxInv
  <1>7. ReportInv'
    <2>1. ASSUME topic' = Appended(m), m.put \in PutId, IsRun(m.put)
          PROVE  Published(m.put)'
      BY <1>3, <1>6, <2>1, PublishedGrows DEF DeliveryInv, Appended
    <2>2. ASSUME NEW r \in reports, r.put \in PutId
          PROVE  Made(r.put)' /\ (IsRun(r.put)' /\ ~r.err => Published(r.put)')
      BY <1>2, <1>5, <2>2 DEF DeliveryInv, ReportInv, Made, IsRun
    <2>3. ASSUME NEW r \in reports', r \notin reports, r.put \in PutId
          PROVE  Made(r.put)' /\ (IsRun(r.put)' /\ ~r.err => Published(r.put)')
      <3>1. r.put = m.put /\ (topic' = Appended(m) \/ r.err)
        BY <1>1, <2>3
      <3> QED
        BY <1>2, <1>6, <2>1, <2>3, <3>1 DEF Made, IsRun
    <2> QED
      BY <2>2, <2>3 DEF ReportInv
  <1>8. DoneInv' /\ AckedMeansDelivered'
    BY <1>2, <1>5 DEF DeliveryInv, DoneInv, AckedMeansDelivered, IsRun
  <1> QED
    BY <1>1, <1>2, <1>7, <1>8
       DEF DeliveryInv, QueueInv, WorkerInv, EventIsAsked, OutboxInv, Made, IsRun

\* A new put is referred to by nothing before it is made.
LEMMA RequestDelivery ==
  ASSUME Assumptions, DeliveryInv, TypeOK', NEW p \in PutId, NEW request \in Requests,
         RequestPut(p, request)
  PROVE  DeliveryInv'
  <1> USE DEF workerVars, pollVars, kafkaVars
  <1>1. /\ puts[p] = "unused" /\ puts'[p] \in {"waiting", "error"}
        /\ asked'[p] = request.type
        /\ \A q \in PutId : q # p => puts'[q] = puts[q] /\ asked'[q] = asked[q]
        /\ UNCHANGED <<event, done, outbox, reports, topic>>
    BY DEF RequestPut, DeliveryInv, TypeOK
  <1> DEFINE e == [type |-> request.type, put |-> p, value |-> request.value]
  <1>2. UNCHANGED queue \/ (queue' = PutItem(queue, "HIGH", e) /\ e \in Event)
    <2>1. request \in [type : ClientTypes, value : Value]
      BY DEF Assumptions
    <2>2. CASE request.type = "current_period" /\ request.value < 1
      BY <2>2 DEF RequestPut
    <2>3. CASE ~(request.type = "current_period" /\ request.value < 1)
      <3>1. request.type = "current_period" => request.value >= 1
        BY <2>1, <2>3 DEF Value, Assumptions
      <3>2. e \in Event
        BY <2>1, <3>1 DEF Event, EventTypes
      <3> QED
        BY <2>3, <3>2 DEF RequestPut, HighEvent
    <2> QED
      BY <2>2, <2>3
  <1>3. Items(queue') \subseteq Items(queue) \cup {e}
    <2> HIDE DEF e
    <2>1. CASE queue' = PutItem(queue, "HIGH", e) /\ e \in Event
      BY <2>1, PutItemItems DEF DeliveryInv, TypeOK, Priority
    <2> QED
      BY <1>2, <2>1
  <1>4. EventIsAsked(e)'
    BY <1>1 DEF EventIsAsked, Made
  <1>5. QueueInv'
    BY <1>1, <1>3, <1>4 DEF DeliveryInv, QueueInv, EventIsAsked, Made
  <1>6. WorkerInv' /\ OutboxInv' /\ ReportInv'
    BY <1>1 DEF DeliveryInv, WorkerInv, EventIsAsked, OutboxInv, ReportInv, Made, IsRun,
                Published
  <1>7. DoneInv' /\ AckedMeansDelivered'
    BY <1>1 DEF DeliveryInv, DoneInv, AckedMeansDelivered, IsRun, Published
  <1> QED
    BY <1>5, <1>6, <1>7 DEF DeliveryInv

\* Answering a put keeps the delivery invariant.
LEMMA AnswerDelivery ==
  ASSUME DeliveryInv, TypeOK', NEW p \in PutId, Answer(p)
  PROVE  DeliveryInv'
  <1> USE DEF workerVars, pollVars, kafkaVars
  <1>1. /\ puts[p] = "waiting" /\ puts'[p] \in {"ok", "error"}
        /\ puts'[p] = "ok" => done[p] = "set"
        /\ \A q \in PutId : q # p => puts'[q] = puts[q]
        /\ UNCHANGED <<queue, event, asked, done, outbox, reports, topic>>
    BY DEF Answer, DeliveryInv, TypeOK
  <1>2. QueueInv' /\ WorkerInv' /\ OutboxInv' /\ ReportInv'
    BY <1>1 DEF DeliveryInv, QueueInv, WorkerInv, EventIsAsked, OutboxInv, ReportInv, Made,
                IsRun, Published
  <1>3. DoneInv' /\ AckedMeansDelivered'
    BY <1>1 DEF DeliveryInv, DoneInv, AckedMeansDelivered, IsRun, Published
  <1> QED
    BY <1>2, <1>3 DEF DeliveryInv

\* A crash keeps the delivery invariant: the topic stays, what refers to puts is lost.
LEMMA CrashDelivery ==
  ASSUME Assumptions, DeliveryInv, TypeOK', CrashAndRestart
  PROVE  DeliveryInv'
  <1>1. /\ UNCHANGED <<asked, topic>> /\ event' = NoEvent
        /\ outbox' = {} /\ reports' = {}
        /\ \A p \in PutId : /\ puts'[p] = "unused" <=> puts[p] = "unused"
                            /\ puts'[p] = "ok" => puts[p] = "ok"
                            /\ done'[p] = "clear"
    BY DEF CrashAndRestart, DeliveryInv, TypeOK
  <1>2. \A e \in Items(queue') : e.put = NoPut
    <2>1. CASE queue' = EmptyQueue
      BY <2>1, EmptyQueueItems
    <2>2. CASE queue' = BootQueue(data')
      <3>1. data'.vetoes \in Value
        BY DEF TypeOK, Data
      <3>2. Items(queue') \subseteq
              {[type |-> "set_ip", put |-> NoPut, value |-> 0],
               [type |-> "vetoes", put |-> NoPut, value |-> data'.vetoes]}
        BY <2>2, <3>1, BootQueueItems
      <3> QED
        BY <3>2
    <2> QED
      BY <2>1, <2>2 DEF CrashAndRestart
  <1>3. QueueInv' /\ WorkerInv'
    BY <1>1, <1>2 DEF QueueInv, WorkerInv, EventIsAsked, NoEvent, PutId
  <1>4. OutboxInv' /\ ReportInv' /\ DoneInv' /\ AckedMeansDelivered'
    BY <1>1 DEF DeliveryInv, OutboxInv, ReportInv, DoneInv, AckedMeansDelivered, Published,
                IsRun
  <1> QED
    BY <1>3, <1>4 DEF DeliveryInv

\* Every step keeps the delivery invariant.
LEMMA StepDelivery == DeliveryInv /\ [Next]_vars => DeliveryInv'
  <1> SUFFICES ASSUME DeliveryInv, [Next]_vars PROVE DeliveryInv'
    OBVIOUS
  <1>1. TypeOK'
    BY StepType DEF DeliveryInv
  <1>2. CASE ClientRequest
    BY <1>1, <1>2, ConstantsTyped, RequestDelivery DEF ClientRequest
  <1>3. CASE \E p \in PutId : Answer(p)
    BY <1>1, <1>3, AnswerDelivery
  <1>4. CASE WorkerStep
    BY <1>1, <1>4, ConstantsTyped, TakeDelivery, WriteDelivery, ProduceDelivery,
       ServeDelivery, SaveAndPollDelivery DEF WorkerStep
  <1>5. CASE WorkerFault
    BY <1>1, <1>5, ConstantsTyped, WriteDelivery, SaveAndPollDelivery DEF WorkerFault
  <1>6. CASE Deliver \/ Expire
    BY <1>1, <1>6, BrokerDelivery
  <1>7. CASE PollRead \/ PollPut
    BY <1>1, <1>7, ConstantsTyped, SaveAndPollDelivery
  <1>8. CASE CrashAndRestart
    BY <1>1, <1>8, ConstantsTyped, CrashDelivery
  <1>9. CASE UNCHANGED vars
    BY <1>1, <1>9 DEF vars, workerVars, pollVars, clientVars, kafkaVars, DeliveryInv,
       QueueInv, WorkerInv, EventIsAsked, OutboxInv, ReportInv, DoneInv,
       AckedMeansDelivered, Made, IsRun, Published
  <1> QED
    BY <1>2, <1>3, <1>4, <1>5, <1>6, <1>7, <1>8, <1>9 DEF Next

\* Whatever the mix of lost replies, failed sends, flush timeouts, disk errors
\* and crashes, and however many clients wait: a begin or end that was
\* acknowledged has its run start or run stop in the run info topic.
THEOREM AcknowledgedRunsAreDelivered == Spec => []AckedMeansDelivered
  <1>1. DeliveryInv => AckedMeansDelivered
    BY DEF DeliveryInv
  <1> QED
    BY <1>1, InitDelivery, StepDelivery, PTL DEF Spec

------------------------------------------------------------------------------
\* A run start is only sent for a board that is ready.
\*
\* Only the worker writes registers, so what a begin has written and verified
\* stays on the board until its message is produced: the invariant follows the
\* pause bit and the period through the steps of handle_begin.

HandlerInv ==
    /\ pc \in {"begin_pause", "begin_period", "begin_run"} => event.type = "begin"
    /\ pc = "end_run" => event.type = "end"
    /\ pc = "vetoes" => event.type = "vetoes"
PauseWritten ==
    pc \in {"begin_period", "begin_run"} => board.vetoes_software = event.value
PeriodWritten ==
    pc = "begin_run" /\ data.period_mode_sp = Computer => board.period_comp_current = 0

ReadyInv == HandlerInv /\ PauseWritten /\ PeriodWritten /\ AnnouncedBoardIsReady

\* The readiness invariant holds at the start.
LEMMA InitReady == Init => ReadyInv
  BY DEF Init, ReadyInv, HandlerInv, PauseWritten, PeriodWritten, AnnouncedBoardIsReady

\* A step that ends outside a begin's writes and its produce cannot disturb it.
LEMMA ElsewhereReady ==
  ASSUME pc' \in {"idle", "flush", "open", "dump", "poll", "resend", "dead", "set_ip",
                  "pause", "current_period", "period_mode"}
  PROVE  ReadyInv'
  BY DEF ReadyInv, HandlerInv, PauseWritten, PeriodWritten, AnnouncedBoardIsReady

\* A step that leaves the worker and the board alone cannot disturb it.
LEMMA UntouchedReady ==
  ASSUME ReadyInv, UNCHANGED <<board, pc, event, data>>
  PROVE  ReadyInv'
  BY DEF ReadyInv, HandlerInv, PauseWritten, PeriodWritten, AnnouncedBoardIsReady

\* The steps of a begin keep the readiness invariant.
LEMMA BeginReady ==
  ASSUME TypeOK, ReadyInv, BeginPause \/ BeginPeriod \/ WriteThenProduce
  PROVE  ReadyInv'
  <1> USE DEF Write, WrittenValue, Goto, TypeOK, Register, RegisterOf
  <1>1. CASE BeginPause
    <2>1. /\ pc = "begin_pause" /\ event' = event /\ pc' \in {"begin_period", "begin_run"}
          /\ pc' = "begin_run" => data.period_mode_sp # Computer
          /\ board' = [board EXCEPT !["vetoes_software"] = event.value]
          /\ data' = [data EXCEPT !.paused = event.value]
      BY <1>1 DEF BeginPause
    <2>2. board'.vetoes_software = event.value
      BY <2>1
    <2>3. data'.period_mode_sp = data.period_mode_sp
      BY <2>1 DEF Data
    <2> QED
      BY <2>1, <2>2, <2>3
         DEF ReadyInv, HandlerInv, PauseWritten, PeriodWritten, AnnouncedBoardIsReady
  <1>2. CASE BeginPeriod
    <2>1. /\ pc = "begin_period" /\ event' = event /\ pc' = "begin_run"
          /\ board' = [board EXCEPT !["period_comp_current"] = 0]
      BY <1>2 DEF BeginPeriod
    <2>2. board'.vetoes_software = board.vetoes_software /\ board'.period_comp_current = 0
      BY <2>1
    <2> QED
      BY <2>1, <2>2
         DEF ReadyInv, HandlerInv, PauseWritten, PeriodWritten, AnnouncedBoardIsReady
  <1>3. CASE WriteThenProduce
    <2>1. /\ pc \in {"begin_run", "end_run", "vetoes"} /\ event' = event
          /\ pc' = "produce" /\ data' = data
          /\ board' = [board EXCEPT ![RegisterOf[pc]] = WrittenValue]
      BY <1>3 DEF WriteThenProduce
    <2>2. CASE pc = "begin_run"
      <3>1. /\ board'.run_register = On
            /\ board'.vetoes_software = board.vetoes_software
            /\ board'.period_comp_current = board.period_comp_current
        BY <2>1, <2>2
      <3> QED
        BY <2>1, <2>2, <3>1
           DEF ReadyInv, HandlerInv, PauseWritten, PeriodWritten, AnnouncedBoardIsReady
    <2>3. CASE pc # "begin_run"
      BY <2>1, <2>3
         DEF ReadyInv, HandlerInv, PauseWritten, PeriodWritten, AnnouncedBoardIsReady
    <2> QED
      BY <2>2, <2>3
  <1> QED
    BY <1>1, <1>2, <1>3

\* Taking an event keeps the readiness invariant.
LEMMA TakeReady ==
  ASSUME TypeOK, ReadyInv,
         TakeHardwareUpdate \/ RefuseBegin \/ AcceptBegin \/ RefuseEnd \/ AcceptEnd
           \/ TakeOther
  PROVE  ReadyInv'
  <1>1. \/ pc' = "idle"
        \/ pc' = "begin_pause" /\ event'.type = "begin"
        \/ pc' = "end_run" /\ event'.type = "end"
        \/ pc' \in {"pause", "current_period", "period_mode", "set_ip"}
        \/ pc' = "vetoes" /\ event'.type = "vetoes"
    BY DEF TakeHardwareUpdate, RefuseBegin, AcceptBegin, RefuseEnd, AcceptEnd, TakeOther,
           Take, workerVars
  <1> QED
    BY <1>1 DEF ReadyInv, HandlerInv, PauseWritten, PeriodWritten, AnnouncedBoardIsReady

\* Every step keeps the readiness invariant.
LEMMA StepReady == TypeOK /\ ReadyInv /\ [Next]_vars => ReadyInv'
  <1> SUFFICES ASSUME TypeOK, ReadyInv, [Next]_vars PROVE ReadyInv'
    OBVIOUS
  <1> USE DEF workerVars, Goto, Finish
  <1>1. CASE \/ ClientRequest \/ (\E p \in PutId : Answer(p)) \/ ServeReport
             \/ Deliver \/ Expire \/ PollRead \/ PollPut \/ UNCHANGED vars
    <2>1. UNCHANGED <<board, pc, event, data>>
      BY <1>1 DEF ClientRequest, RequestPut, Answer, ServeReport, Deliver, Expire, PollRead,
                  PollPut, vars
    <2> QED
      BY <2>1, UntouchedReady
  <1>2. CASE TakeHardwareUpdate \/ RefuseBegin \/ AcceptBegin \/ RefuseEnd \/ AcceptEnd
               \/ TakeOther
    BY <1>2, TakeReady
  <1>3. CASE BeginPause \/ BeginPeriod \/ WriteThenProduce
    BY <1>3, BeginReady
  <1>4. CASE \/ SetPause \/ SetCurrentPeriod \/ SetPeriodMode \/ SetIP \/ Produce
             \/ FlushReturns \/ OpenStateFile \/ DumpState \/ WorkerPoll \/ ResendVetoes
             \/ WorkerFault \/ CrashAndRestart
    <2>1. pc' \in {"idle", "flush", "open", "dump", "poll", "resend", "dead"}
      BY <1>4
         DEF SetPause, SetCurrentPeriod, SetPeriodMode, SetIP, Produce, FlushReturns,
             AfterFlush, OpenStateFile, DumpState, WorkerPoll, AfterPoll, ResendVetoes,
             WorkerFault, WriteFails, ProduceFails, FlushTimesOut, SaveFails,
             WorkerPollFails, Raise, CrashAndRestart
    <2> QED
      BY <2>1, ElsewhereReady
  <1> QED
    BY <1>1, <1>2, <1>3, <1>4 DEF Next, WorkerStep

\* Whatever register writes, sends or saves fail, in this begin or an earlier
\* event: no run start is produced for a board that is stopped, paused otherwise
\* than asked, or in COMPUTER mode past its first period.
THEOREM StartsAnnounceAReadyBoard == Spec => []AnnouncedBoardIsReady
  <1>1. ReadyInv => AnnouncedBoardIsReady
    BY DEF ReadyInv
  <1>2. TypeOK /\ ReadyInv /\ [Next]_vars => ReadyInv'
    BY StepReady
  <1> QED
    BY <1>1, <1>2, InitReady, TypeCorrect, PTL DEF Spec
=============================================================================
