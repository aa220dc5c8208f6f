-------------------------- MODULE RunPromiseProofs --------------------------
(***************************************************************************)
(* What RunControl promises those outside it, for every value of its       *)
(* constants: to the client of a put that its answer is on its way, and to *)
(* the readers of the run info topic that it implements RunInfo.           *)
(***************************************************************************)
EXTENDS RunStateProofs, RunInfoRefinement, FiniteSetTheorems

------------------------------------------------------------------------------
\* Every put that waits has an answer on its way.
\*
\* The property is an invariant as it stands, but for what DeliveryInv and
\* StageInv say of events: those of nobody's put are the only ones that may end
\* without an answer.

\* What happens to an event keeps it from being clear, except a new process.
LEMMA EventsStaySet ==
  ASSUME TypeOK, [Next]_vars, ~CrashAndRestart
  PROVE  \A p \in PutId : done[p] # "clear" => done'[p] # "clear"
  <1> USE DEF workerVars, pollVars, clientVars, kafkaVars
  <1>1. UNCHANGED done \/ \E q : SetDone(q) \/ SetErr(q)
    BY DEF Next, WorkerStep, WorkerFault, ClientRequest, RequestPut, Answer,
           TakeHardwareUpdate, RefuseBegin, AcceptBegin, RefuseEnd, AcceptEnd, TakeOther,
           BeginPause, BeginPeriod, WriteThenProduce, SetPause, SetCurrentPeriod,
           SetPeriodMode, SetIP, Produce, ServeReport, FlushReturns, FlushTimesOut, AfterFlush,
           OpenStateFile, DumpState, WorkerPoll, ResendVetoes, WriteFails, ProduceFails, Raise,
           SaveFails, WorkerPollFails, Deliver, Expire, PollRead, PollPut, vars
  <1> QED
    BY <1>1 DEF SetDone, SetErr, TypeOK

\* A put is answered: its event is set, with an error or without.
LEMMA SetIsNotClear ==
  ASSUME TypeOK, NEW p \in PutId, SetDone(p) \/ SetErr(p)
  PROVE  done'[p] # "clear"
  BY DEF SetDone, SetErr, TypeOK

\* A handler that takes the event of a put answers it or goes on with it.
LEMMA TakenPutGoesOn ==
  ASSUME DeliveryInv, NEW p \in PutId, NextItem(queue).put = p,
         TakeHardwareUpdate \/ RefuseBegin \/ AcceptBegin \/ RefuseEnd \/ AcceptEnd
           \/ TakeOther
  PROVE  done'[p] # "clear" \/ (event'.put = p /\ pc' \in WriteSteps)
  <1>1. NextItem(queue).type = asked[p] /\ asked[p] \in ClientTypes \cup {"none"}
    <2>1. NextItem(queue) \in Items(queue)
      BY TakeItemItems
         DEF DeliveryInv, TypeOK, TakeHardwareUpdate, RefuseBegin, AcceptBegin, RefuseEnd,
             AcceptEnd, TakeOther, Take
    <2> QED
      BY <2>1 DEF DeliveryInv, QueueInv, EventIsAsked, TypeOK
  <1>2. CASE TakeHardwareUpdate
    BY <1>1, <1>2 DEF TakeHardwareUpdate, Take, ClientTypes, RunCommands
  <1>3. CASE RefuseBegin \/ RefuseEnd
    BY <1>3, SetIsNotClear DEF RefuseBegin, RefuseEnd, DeliveryInv
  <1>4. CASE AcceptBegin \/ AcceptEnd
    BY <1>4 DEF AcceptBegin, AcceptEnd, WriteSteps, RegisterOf
  <1>5. CASE TakeOther
    BY <1>1, <1>5 DEF TakeOther, Take, ClientTypes, RunCommands, WriteSteps, RegisterOf
  <1> QED
    BY <1>2, <1>3, <1>4, <1>5

\* Every step keeps the answers of waiting puts on their way.
LEMMA StepAnswers ==
  ASSUME Assumptions, DeliveryInv, TypeOK', StageInv, NoPutIsForgotten, [Next]_vars
  PROVE  NoPutIsForgotten'
  <1> SUFFICES ASSUME ~Happened({"produce"})', NEW p \in PutId,
                      puts'[p] = "waiting", done'[p] = "clear"
               PROVE  AnswerIsComing(p)'
    BY DEF NoPutIsForgotten, PutId
  <1> USE DEF workerVars, pollVars, clientVars, kafkaVars, Goto, Finish
  <1>0. TypeOK
    BY DEF DeliveryInv
  <1>1. CASE ClientRequest
    <2>1. PICK q \in PutId, r \in Requests : RequestPut(q, r)
      BY <1>1 DEF ClientRequest
    <2> DEFINE e == [type |-> r.type, put |-> q, value |-> r.value]
    <2>2. r.type \in ClientTypes /\ r.value \in Value
      BY DEF Assumptions
    <2>3. CASE r.type = "current_period" /\ r.value < 1
      <3>1. puts[p] = "waiting" /\ done[p] = "clear" /\ UNCHANGED faults
        BY <1>0, <2>1, <2>3 DEF RequestPut, TypeOK
      <3> QED
        BY <2>1, <2>3, <3>1 DEF RequestPut, NoPutIsForgotten, Happened, AnswerIsComing
    <2>4. CASE ~(r.type = "current_period" /\ r.value < 1)
      <3>1. queue' = PutItem(queue, "HIGH", e) /\ puts' = [puts EXCEPT ![q] = "waiting"]
            /\ UNCHANGED <<done, faults, pc, event, outbox, reports>>
        BY <2>1, <2>4 DEF RequestPut, HighEvent
      <3>2. e \in Event /\ e.put = q
        BY <2>2, <2>4 DEF Event, EventTypes, Value, Assumptions
      <3> HIDE DEF e
      <3>3. Items(queue) \cup {e} \subseteq Items(queue')
        BY <1>0, <3>1, <3>2, PutItemKeeps DEF TypeOK, Priority
      <3>4. CASE p = q
        BY <3>2, <3>3, <3>4 DEF AnswerIsComing
      <3>5. CASE p # q
        <4>1. AnswerIsComing(p)
          BY <1>0, <3>1, <3>5 DEF NoPutIsForgotten, Happened, TypeOK
        <4> QED
          BY <3>1, <3>3, <4>1 DEF AnswerIsComing
      <3> QED
        BY <3>4, <3>5
    <2> QED
      BY <2>3, <2>4
  <1>2. CASE CrashAndRestart
    BY <1>2 DEF CrashAndRestart
  <1>3. CASE ~ClientRequest /\ ~CrashAndRestart
    <2>1. puts[p] = "waiting"
      BY <1>0, <1>3
         DEF Next, WorkerStep, WorkerFault, Answer,
             TakeHardwareUpdate, RefuseBegin, AcceptBegin, RefuseEnd, AcceptEnd, TakeOther,
             BeginPause, BeginPeriod, WriteThenProduce, SetPause, SetCurrentPeriod,
             SetPeriodMode, SetIP, Produce, ServeReport, FlushReturns, FlushTimesOut,
             AfterFlush, OpenStateFile, DumpState, WorkerPoll, ResendVetoes, WriteFails,
             ProduceFails, SaveFails, WorkerPollFails, Deliver, Expire, PollRead, PollPut,
             vars, TypeOK
    <2>2. AnswerIsComing(p)
      BY <1>0, <1>3, <2>1, EventsStaySet, FaultsStay DEF NoPutIsForgotten
    <2>3. CASE TakeHardwareUpdate \/ RefuseBegin \/ AcceptBegin \/ RefuseEnd \/ AcceptEnd
                 \/ TakeOther
      <3>1. /\ pc = "idle" /\ ~IsEmpty(queue) /\ queue' = WithoutNext(queue)
            /\ UNCHANGED <<outbox, reports>>
        BY <2>3 DEF TakeHardwareUpdate, RefuseBegin, AcceptBegin, RefuseEnd, AcceptEnd,
                    TakeOther, Take
      <3>2. NextItem(queue).put = p => AnswerIsComing(p)'
        BY <2>3, TakenPutGoesOn DEF AnswerIsComing
      <3>3. Items(queue) \subseteq Items(queue') \cup {NextItem(queue)}
        BY <1>0, <3>1, TakeItemKeeps DEF TypeOK
      <3> QED
        BY <2>2, <3>1, <3>2, <3>3 DEF AnswerIsComing, WriteSteps, RegisterOf
    <2>4. CASE BeginPause \/ BeginPeriod \/ WriteThenProduce
      <3>1. UNCHANGED <<queue, event, outbox, reports>> /\ pc' \in WriteSteps \cup {"produce"}
        BY <2>4 DEF BeginPause, BeginPeriod, WriteThenProduce, WriteSteps, RegisterOf
      <3> QED
        BY <2>2, <3>1 DEF AnswerIsComing
    <2>5. CASE SetPause \/ SetCurrentPeriod \/ SetPeriodMode \/ SetIP
      <3>1. /\ UNCHANGED <<queue, outbox, reports>>
            /\ SetDone(event.put) \/ pc = "set_ip"
        BY <2>5 DEF SetPause, SetCurrentPeriod, SetPeriodMode, SetIP
      <3>2. event.put # p \/ pc = "set_ip"
        BY <1>0, <3>1, SetIsNotClear
      <3> QED
        BY <2>2, <3>1, <3>2 DEF AnswerIsComing, WriteSteps, RegisterOf
    <2>6. CASE WriteFails
      <3>1. /\ UNCHANGED <<queue, outbox, reports>>
            /\ pc \in WriteSteps /\ Raise
        BY <2>6 DEF WriteFails
      <3>2. SetErr(event.put)
        BY <1>0, <3>1 DEF Raise, StageInv, WriteSteps, RegisterOf, TypeOK, BeginSteps
      <3>3. event.put # p
        BY <1>0, <3>2, SetIsNotClear
      <3> QED
        BY <2>2, <3>1, <3>3 DEF AnswerIsComing
    <2>7. CASE Produce
      <3>1. /\ UNCHANGED <<queue, reports>> /\ outbox' = outbox \cup {MessageOf(event)}
            /\ MessageOf(event).put = event.put
        BY <2>7 DEF Produce, MessageOf
      <3> HIDE DEF MessageOf
      <3> QED
        BY <2>2, <3>1 DEF AnswerIsComing
    <2>8. CASE ServeReport
      <3>1. PICK report \in reports :
                /\ reports' = reports \ {report}
                /\ SetErr(report.put) \/ SetDone(report.put)
        BY <2>8 DEF ServeReport
      <3>2. report.put # p
        BY <1>0, <3>1, SetIsNotClear
      <3>3. UNCHANGED <<queue, pc, event, outbox>>
        BY <2>8 DEF ServeReport
      <3> QED
        BY <2>2, <3>1, <3>2, <3>3 DEF AnswerIsComing
    <2>9. CASE Deliver \/ Expire
      <3>1. PICK m \in outbox :
                /\ outbox' = outbox \ {m}
                /\ \E err \in BOOLEAN : reports' = reports \cup {[put |-> m.put, err |-> err]}
                /\ UNCHANGED <<queue, pc, event>>
        BY <2>9 DEF Deliver, Expire
      <3>2. PICK err \in BOOLEAN : reports' = reports \cup {[put |-> m.put, err |-> err]}
        BY <3>1
      <3>3. \A other \in outbox : other = m \/ other \in outbox'
        BY <3>1
      <3>4. [put |-> m.put, err |-> err].put = m.put
        OBVIOUS
      <3> QED
        BY <2>2, <3>1, <3>2, <3>3, <3>4 DEF AnswerIsComing
    <2>10. CASE \/ FlushReturns \/ FlushTimesOut \/ OpenStateFile \/ DumpState \/ SaveFails
                \/ WorkerPollFails
      <3>1. UNCHANGED <<queue, outbox, reports>> /\ pc \in {"flush", "open", "dump", "poll"}
        BY <2>10 DEF FlushReturns, FlushTimesOut, AfterFlush, OpenStateFile, DumpState,
                     SaveFails, WorkerPollFails
      <3> QED
        BY <2>2, <3>1 DEF AnswerIsComing, WriteSteps, RegisterOf
    <2>11. CASE ProduceFails
      BY <1>0, <2>11, FaultHappened DEF ProduceFails
    <2>12. CASE WorkerPoll \/ ResendVetoes \/ PollPut
      <3>1. /\ \E pr \in Priority : \E e \in Event : queue' = PutItem(queue, pr, e)
            /\ UNCHANGED <<outbox, reports>>
            /\ UNCHANGED <<pc, event>> \/ pc \in {"poll", "resend"}
        <4>1. /\ \A v \in Value :
                     [type |-> "hardware_update", put |-> NoPut, value |-> v] \in Event
              /\ board.run_register \in Value /\ pollValue \in Value
              /\ [type |-> "vetoes", put |-> NoPut, value |-> data.vetoes] \in Event
          BY <1>0, UpdateType DEF TypeOK, Register, Data, Event, EventTypes, ClientTypes
        <4> QED
          BY <2>12, <4>1 DEF WorkerPoll, ResendVetoes, PollPut, HighEvent, Priority
      <3>2. Items(queue) \subseteq Items(queue')
        <4>1. PICK pr \in Priority, e \in Event : queue' = PutItem(queue, pr, e)
          BY <3>1
        <4>2. queue \in [Priority -> Seq(Event)]
          BY <1>0 DEF TypeOK
        <4> QED
          BY <4>1, <4>2, PutItemKeeps
      <3> QED
        BY <2>2, <3>1, <3>2 DEF AnswerIsComing, WriteSteps, RegisterOf
    <2>13. CASE (\E q \in PutId : Answer(q)) \/ PollRead \/ UNCHANGED vars
      <3>1. UNCHANGED <<queue, pc, event, outbox, reports>>
        BY <2>13 DEF Answer, PollRead, vars
      <3> QED
        BY <2>2, <3>1 DEF AnswerIsComing
    <2> QED
      BY <1>3, <2>3, <2>4, <2>5, <2>6, <2>7, <2>8, <2>9, <2>10, <2>11, <2>12, <2>13
         DEF Next, WorkerStep, WorkerFault
  <1> QED
    BY <1>1, <1>2, <1>3

\* Whatever fails, but for a produce, and however handlers, flushes, reports and
\* restarts interleave: while a put waits, its answer is still to come.
THEOREM NoPutIsEverForgotten == Spec => []NoPutIsForgotten
  <1>1. Init => NoPutIsForgotten
    BY DEF Init, NoPutIsForgotten
  <1>2. DeliveryInv /\ TypeOK' /\ StageInv /\ NoPutIsForgotten /\ [Next]_vars
            => NoPutIsForgotten'
    BY StepAnswers, ConstantsTyped
  <1>3. DeliveryInv /\ [Next]_vars => DeliveryInv'
    BY StepDelivery
  <1>4. StageInv /\ [Next]_vars => StageInv'
    BY StepStage
  <1> QED
    BY <1>1, <1>2, <1>3, <1>4, InitDelivery, InitStage, TypeCorrect, PTL DEF Spec

------------------------------------------------------------------------------
\* The topic implements RunInfo.
\*
\* Clients that wait until the IOC has settled have one begin or end on its way
\* at a time: queued, at the worker, or with the producer.

\* The clients and faults this is about.  A save that fails answers a put whose
\* message may still be in flight after a flush that timed out: the message of
\* the next command can overtake it, so the two faults must not both happen.
OneAtATime ==
    /\ PatientClients
    /\ FaultKinds \subseteq {"disk", "timeout"}
    /\ \/ "disk" \notin FaultKinds \/ "timeout" \notin FaultKinds
       \/ MaxFaults <= 1

Open == topic # << >> /\ topic[Len(topic)].kind = "start"
StopsAt == {i \in 1..Len(topic) : topic[i].kind = "stop"}

RunSteps == BeginSteps \cup {"end_run"}
SendsRun == pc = "produce" /\ event.type \in RunCommands
RunMessages == {m \in outbox : m.kind # "vetoes"}

\* Where a command is.
CommandQueued == \E i \in 1..Len(High) : High[i].type \in RunCommands
Handling == pc \in RunSteps \/ SendsRun
Starting == (pc = "produce" /\ event.type = "begin") \/ \E m \in outbox : m.kind = "start"
Stopping == (pc = "produce" /\ event.type = "end") \/ \E m \in outbox : m.kind = "stop"

\* The put of the command on its way has no answer yet.
Unanswered(p) ==
    /\ p \in PutId /\ puts[p] = "waiting" /\ done[p] = "clear"
    /\ asked[p] \in RunCommands
    /\ ~Published(p) /\ \A r \in reports : r.put # p

LowInv == \A i \in 1..Len(queue["LOW"]) : queue["LOW"][i].type = "hardware_update"

\* A queued command is alone and sees the board as it is.
QueuedInv ==
    CommandQueued =>
        /\ pc = "idle" /\ Len(High) = 1 /\ RunMessages = {}
        /\ data.running = board.run_register
        /\ Unanswered(High[1].put)

\* So is one at the worker, and the message of one.
HandlingInv == Handling => RunMessages = {} /\ Unanswered(event.put)
MessagesInv ==
    /\ \A m, n \in RunMessages : m = n
    /\ \A m \in RunMessages : Unanswered(m.put)
    /\ outbox # {} \/ reports # {} => pc = "flush" \/ Happened({"timeout"})

\* The board runs from the step before the start is sent to that before the stop is.
BoardInv ==
    /\ board.run_register = On <=> Starting \/ (Open /\ ~Stopping)
    /\ pc \in BeginSteps \/ Starting => ~Open
    /\ pc = "end_run" \/ Stopping => Open

\* The run number counts the stops, those in flight or in the flush included.
CountInv ==
    /\ IsFiniteSet(StopsAt)
    /\ Cardinality(StopsAt) + (IF \E m \in outbox : m.kind = "stop" THEN 1 ELSE 0)
         = data.run_number + (IF CountingEnd THEN 1 ELSE 0)

JobInv ==
    /\ pc \in BeginSteps \/ (pc = "produce" /\ event.type = "begin") =>
           data.job_id = event.put
    /\ \A m \in outbox :
           /\ m.kind = "start" => /\ m.job = m.put /\ m.job = data.job_id
                                  /\ m.run = data.run_number /\ ~CountingEnd
           /\ m.kind = "stop" => m.job = topic[Len(topic)].job /\ m.run = 0
    /\ Open => data.job_id = topic[Len(topic)].job
    /\ \A i \in 1..Len(topic) :
           Made(topic[i].put) /\ Published(topic[i].job) /\ topic[i].kind # "vetoes"

PatientInv ==
    /\ LowInv /\ QueuedInv /\ HandlingInv /\ MessagesInv
    /\ BoardInv /\ CountInv /\ JobInv

\* All that is known in a state, and that may be used for the next.
Known ==
    /\ Assumptions /\ OneAtATime
    /\ DeliveryInv /\ StageInv /\ PatientInv

LEMMA PatientFaults ==
  ASSUME OneAtATime
  PROVE  /\ \A kind : Fault(kind) => kind \in {"disk", "timeout"}
         /\ ~WriteFails /\ ~ProduceFails /\ ~WorkerPollFails /\ ~Expire /\ ~CrashAndRestart
  BY DEF OneAtATime, Fault, WriteFails, ProduceFails, WorkerPollFails, Expire,
         CrashAndRestart

\* Not both faults happen.
LEMMA DiskOrTimeout ==
  ASSUME OneAtATime, MaxFaults \in Nat,
         NEW seq \in Seq(FaultKinds), Len(seq) <= MaxFaults
  PROVE  ~\E i, j \in 1..Len(seq) : seq[i] = "disk" /\ seq[j] = "timeout"
  <1> SUFFICES ASSUME NEW i \in 1..Len(seq), NEW j \in 1..Len(seq),
                      seq[i] = "disk", seq[j] = "timeout"
               PROVE  FALSE
    OBVIOUS
  <1>1. seq[i] \in FaultKinds /\ seq[j] \in FaultKinds /\ Len(seq) \in Nat
    OBVIOUS
  <1>2. MaxFaults <= 1
    BY <1>1 DEF OneAtATime
  <1>3. i = 1 /\ j = 1
    BY <1>1, <1>2
  <1> QED
    BY <1>3

\* So a save only fails when nothing is in flight.
LEMMA SaveFailsAlone ==
  ASSUME Known, TypeOK', SaveFails
  PROVE  outbox = {} /\ reports = {}
  <1>1. pc # "flush" /\ Happened({"disk"})'
    BY FaultHappened DEF SaveFails, Known, DeliveryInv
  <1>2. ~Happened({"timeout"})'
    <2>1. faults' \in Seq(FaultKinds) /\ Len(faults') <= MaxFaults
      BY DEF TypeOK
    <2> QED
      BY <1>1, <2>1, DiskOrTimeout DEF Known, Assumptions, Happened
  <1>3. ~Happened({"timeout"})
    BY <1>2, FaultsStay DEF SaveFails, Known, DeliveryInv, Next, WorkerFault
  <1> QED
    BY <1>1, <1>3 DEF Known, PatientInv, MessagesInv

------------------------------------------------------------------------------
\* Steps that leave the topic, the producer and the run bit as they are.

\* The worker is not where this invariant says anything of its event.
Elsewhere == pc \notin RunSteps /\ ~SendsRun /\ ~CountingEnd

LEMMA QuietTopic ==
  ASSUME Known, UNCHANGED <<outbox, topic>>,
         board'.run_register = board.run_register,
         data'.job_id = data.job_id, data'.run_number = data.run_number,
         \A p \in PutId : puts[p] # "unused" => puts'[p] # "unused",
         UNCHANGED <<pc, event>> \/ (Elsewhere /\ Elsewhere')
  PROVE  BoardInv' /\ CountInv' /\ JobInv'
  <1>1. /\ pc' \in BeginSteps <=> pc \in BeginSteps
        /\ pc' = "end_run" <=> pc = "end_run"
        /\ CountingEnd' <=> CountingEnd
        /\ Starting' <=> Starting
        /\ Stopping' <=> Stopping
        /\ Open' <=> Open
        /\ \A p : Published(p) => Published(p)'
        /\ \A p : Made(p) => Made(p)'
    BY DEF Elsewhere, RunSteps, SendsRun, CountingEnd, Starting, Stopping, Open, RunCommands,
           Published, Made
  <1>2. BoardInv'
    BY <1>1 DEF Known, PatientInv, BoardInv
  <1>3. CountInv'
    BY <1>1 DEF Known, PatientInv, CountInv, StopsAt
  <1>4. JobInv'
    <2>1. ASSUME pc' \in BeginSteps \/ (pc' = "produce" /\ event'.type = "begin")
          PROVE  data'.job_id = event'.put
      <3>1. UNCHANGED <<pc, event>>
        BY <2>1 DEF Elsewhere, RunSteps, SendsRun, RunCommands
      <3> QED
        BY <2>1, <3>1 DEF Known, PatientInv, JobInv
    <2>2. \A m \in outbox' :
             /\ m.kind = "start" => /\ m.job = m.put /\ m.job = data'.job_id
                                    /\ m.run = data'.run_number /\ ~CountingEnd'
             /\ m.kind = "stop" => m.job = topic'[Len(topic')].job /\ m.run = 0
      BY <1>1 DEF Known, PatientInv, JobInv
    <2>3. Open' => data'.job_id = topic'[Len(topic')].job
      BY <1>1 DEF Known, PatientInv, JobInv
    <2>4. (\A i \in 1..Len(topic) :
              Made(topic[i].put) /\ Published(topic[i].job) /\ topic[i].kind # "vetoes")'
      BY <1>1 DEF Known, PatientInv, JobInv, Made, Published
    <2> QED
      BY <2>1, <2>2, <2>3, <2>4 DEF JobInv
  <1> QED
    BY <1>2, <1>3, <1>4

\* Steps with the worker elsewhere, or of other threads than the broker's.
QuietStep ==
    \/ ClientRequest \/ (\E q \in PutId : Answer(q)) \/ PollRead \/ PollPut \/ UNCHANGED vars
    \/ TakeHardwareUpdate \/ RefuseBegin \/ RefuseEnd \/ TakeOther
    \/ SetPause \/ SetCurrentPeriod \/ SetPeriodMode \/ SetIP
    \/ WriteThenProduce /\ pc = "vetoes"
    \/ (FlushReturns \/ FlushTimesOut) /\ event.type # "end"
    \/ ServeReport \/ OpenStateFile \/ DumpState \/ SaveFails \/ WorkerPoll \/ ResendVetoes

\* What a write of another register leaves alone.
LEMMA RunBitStays ==
  ASSUME TypeOK, NEW step \in WriteSteps, Write(step), step \notin {"begin_run", "end_run"}
  PROVE  board'.run_register = board.run_register
  <1>1. RegisterOf[step] \in Register \ {"run_register"}
    BY DEF RegisterOf, WriteSteps, Register
  <1> QED
    BY <1>1 DEF Write, TypeOK, Register

LEMMA QuietStepTopic ==
  ASSUME Known, QuietStep
  PROVE  BoardInv' /\ CountInv' /\ JobInv'
  <1> USE DEF workerVars, pollVars, clientVars, kafkaVars, Goto, Finish
  <1>0. TypeOK
    BY DEF Known, DeliveryInv
  <1>1. UNCHANGED <<outbox, topic>>
    BY DEF QuietStep, ClientRequest, RequestPut, Answer, PollRead, PollPut, vars,
           TakeHardwareUpdate, RefuseBegin, RefuseEnd, TakeOther, SetPause, SetCurrentPeriod,
           SetPeriodMode, SetIP, WriteThenProduce, FlushReturns, FlushTimesOut, AfterFlush,
           ServeReport, OpenStateFile, DumpState, SaveFails, WorkerPoll, ResendVetoes
  <1>2. board'.run_register = board.run_register
    <2>1. CASE SetPause \/ SetCurrentPeriod \/ SetPeriodMode \/ (WriteThenProduce /\ pc = "vetoes")
      <3>1. Write(pc) /\ pc \in WriteSteps \ {"begin_run", "end_run"}
        BY <2>1 DEF SetPause, SetCurrentPeriod, SetPeriodMode, WriteThenProduce, Write,
                    WriteSteps, RegisterOf
      <3> QED
        BY <1>0, <3>1, RunBitStays
    <2>2. CASE \/ ClientRequest \/ (\E q \in PutId : Answer(q)) \/ PollRead \/ PollPut
               \/ UNCHANGED vars \/ TakeHardwareUpdate \/ RefuseBegin \/ RefuseEnd
               \/ TakeOther \/ SetIP
               \/ ((FlushReturns \/ FlushTimesOut) /\ event.type # "end") \/ ServeReport
               \/ OpenStateFile \/ DumpState \/ SaveFails \/ WorkerPoll \/ ResendVetoes
      BY <2>2
         DEF ClientRequest, RequestPut, Answer, PollRead, PollPut, vars,
             TakeHardwareUpdate, RefuseBegin, RefuseEnd, TakeOther, SetIP, FlushReturns,
             FlushTimesOut, AfterFlush, ServeReport, OpenStateFile, DumpState, SaveFails,
             WorkerPoll, ResendVetoes
    <2> QED
      BY <2>1, <2>2 DEF QuietStep
  <1>3. data'.job_id = data.job_id /\ data'.run_number = data.run_number
    <2>1. CASE TakeHardwareUpdate \/ SetPause \/ SetCurrentPeriod \/ SetPeriodMode
                 \/ ((FlushReturns \/ FlushTimesOut) /\ event.type # "end")
      BY <1>0, <2>1 DEF TakeHardwareUpdate, SetPause, SetCurrentPeriod, SetPeriodMode,
                        FlushReturns, FlushTimesOut, AfterFlush, TypeOK, Data
    <2>2. CASE \/ ClientRequest \/ (\E q \in PutId : Answer(q)) \/ PollRead \/ PollPut
               \/ UNCHANGED vars \/ RefuseBegin \/ RefuseEnd \/ TakeOther \/ SetIP
               \/ (WriteThenProduce /\ pc = "vetoes") \/ ServeReport \/ OpenStateFile \/ DumpState
               \/ SaveFails \/ WorkerPoll \/ ResendVetoes
      BY <2>2
         DEF ClientRequest, RequestPut, Answer, PollRead, PollPut, vars, RefuseBegin,
             RefuseEnd, TakeOther, SetIP, WriteThenProduce, ServeReport, OpenStateFile,
             DumpState, SaveFails, WorkerPoll, ResendVetoes
    <2> QED
      BY <2>1, <2>2 DEF QuietStep
  <1>4. \A p \in PutId : puts[p] # "unused" => puts'[p] # "unused"
    BY <1>0
       DEF TypeOK, QuietStep, ClientRequest, RequestPut, Answer, PollRead, PollPut, vars,
           TakeHardwareUpdate, RefuseBegin, RefuseEnd, TakeOther, SetPause, SetCurrentPeriod,
           SetPeriodMode, SetIP, WriteThenProduce, FlushReturns, FlushTimesOut, AfterFlush,
           ServeReport, OpenStateFile, DumpState, SaveFails, WorkerPoll, ResendVetoes
  <1>5. UNCHANGED <<pc, event>> \/ (Elsewhere /\ Elsewhere')
    <2>1. CASE \/ ClientRequest \/ (\E q \in PutId : Answer(q)) \/ PollRead \/ PollPut
               \/ UNCHANGED vars \/ ServeReport
      BY <2>1 DEF ClientRequest, RequestPut, Answer, PollRead, PollPut, vars, ServeReport
    <2>2. CASE TakeHardwareUpdate \/ RefuseBegin \/ RefuseEnd \/ TakeOther
      BY <2>2 DEF TakeHardwareUpdate, RefuseBegin, RefuseEnd, TakeOther, Take, Elsewhere,
                  RunSteps, BeginSteps, SendsRun, CountingEnd
    <2>3. CASE \/ SetPause \/ SetCurrentPeriod \/ SetPeriodMode \/ SetIP \/ SaveFails
               \/ OpenStateFile \/ DumpState \/ WorkerPoll \/ ResendVetoes
      BY <2>3 DEF SetPause, SetCurrentPeriod, SetPeriodMode, SetIP, SaveFails, Raise, Write,
                  OpenStateFile, DumpState, WorkerPoll, AfterPoll, ResendVetoes, Elsewhere,
                  RunSteps, BeginSteps, SendsRun, CountingEnd
    <2>4. CASE WriteThenProduce /\ pc = "vetoes"
      BY <2>4 DEF WriteThenProduce, Elsewhere, RunSteps, BeginSteps, SendsRun, CountingEnd,
                  Known, StageInv, RunCommands
    <2>5. CASE (FlushReturns \/ FlushTimesOut) /\ event.type # "end"
      BY <2>5 DEF FlushReturns, FlushTimesOut, AfterFlush, Elsewhere, RunSteps, BeginSteps,
                  SendsRun, CountingEnd
    <2> QED
      BY <2>1, <2>2, <2>3, <2>4, <2>5 DEF QuietStep
  <1> QED
    BY <1>1, <1>2, <1>3, <1>4, <1>5, QuietTopic

------------------------------------------------------------------------------
\* The queue.

\* HIGH goes first.
LEMMA HighFirst ==
  ASSUME TypeOK, NEW type, Take(type), High # << >>
  PROVE  /\ NextItem(queue) = High[1] /\ High[1].type = type
         /\ High' = Tail(High) /\ Len(High') = Len(High) - 1
         /\ UNCHANGED queue["LOW"]
  <1>1. High \in Seq(Event) /\ queue' = WithoutNext(queue) /\ NextItem(queue).type = type
    BY DEF TypeOK, High, Priority, Take
  <1>2. NextPriority(queue) = "HIGH"
    BY DEF High, NextPriority
  <1>3. NextItem(queue) = Head(High) /\ High' = Tail(High) /\ UNCHANGED queue["LOW"]
    BY <1>1, <1>2 DEF High, NextItem, WithoutNext, TypeOK, Priority
  <1>4. Head(High) = High[1] /\ Len(Tail(High)) = Len(High) - 1
    BY <1>1, HeadTailProperties
  <1> QED
    BY <1>1, <1>3, <1>4

\* Commands are at HIGH: taking anything else than an update takes from there.
LEMMA TakeHigh ==
  ASSUME TypeOK, LowInv, NEW type, type # "hardware_update", Take(type)
  PROVE  High # << >>
  <1> SUFFICES ASSUME High = << >> PROVE FALSE
    OBVIOUS
  <1>1. queue["LOW"] \in Seq(Event) /\ NextItem(queue).type = type
    BY DEF TypeOK, Priority, Take
  <1>2. queue["LOW"] # << >> /\ NextItem(queue) = Head(queue["LOW"])
    BY DEF High, NextPriority, NextItem, Take, IsEmpty, Priority
  <1>3. Len(queue["LOW"]) \in Nat \ {0} /\ Head(queue["LOW"]) = queue["LOW"][1]
    BY <1>1, <1>2, EmptySeq
  <1>4. queue["LOW"][1].type = "hardware_update"
    BY <1>3 DEF LowInv
  <1> QED
    BY <1>1, <1>2, <1>3, <1>4

\* A queued command is the next event, and leaves HIGH empty.
LEMMA TakeCommand ==
  ASSUME Known, CommandQueued, NEW type, Take(type)
  PROVE  /\ type = High[1].type /\ type \in RunCommands /\ NextItem(queue) = High[1]
         /\ ~CommandQueued' /\ UNCHANGED queue["LOW"]
  <1>1. Len(High) = 1 /\ TypeOK
    BY DEF Known, DeliveryInv, PatientInv, QueuedInv
  <1>2. High[1].type \in RunCommands
    BY <1>1 DEF CommandQueued
  <1>3. High # << >>
    BY <1>1, EmptySeq
  <1>4. NextItem(queue) = High[1] /\ High[1].type = type /\ Len(High') = 0
        /\ UNCHANGED queue["LOW"]
    BY <1>1, <1>3, HighFirst
  <1>5. ~CommandQueued'
    BY <1>4 DEF CommandQueued
  <1> QED
    BY <1>2, <1>4, <1>5

LEMMA LowStays == ASSUME LowInv, UNCHANGED queue["LOW"] PROVE LowInv'
  BY DEF LowInv

\* So a command that is taken is alone, and its put has no answer yet.
LEMMA CommandTaken ==
  ASSUME Known, NEW type \in RunCommands, Take(type)
  PROVE  /\ CommandQueued /\ ~CommandQueued'
         /\ pc = "idle" /\ RunMessages = {}
         /\ data.running = board.run_register
         /\ NextItem(queue).type = type /\ Unanswered(NextItem(queue).put)
  <1>1. TypeOK /\ LowInv /\ QueuedInv /\ type # "hardware_update"
    BY DEF Known, DeliveryInv, PatientInv, RunCommands
  <1>2. High # << >>
    BY <1>1, TakeHigh
  <1>3. NextItem(queue) = High[1] /\ High[1].type = type
    BY <1>1, <1>2, HighFirst
  <1>4. Len(High) \in Nat \ {0}
    <2>1. High \in Seq(Event)
      BY <1>1 DEF TypeOK, High, Priority
    <2> QED
      BY <1>2, <2>1, EmptySeq
  <1>5. CommandQueued
    <2>1. 1 \in 1..Len(High)
      BY <1>4
    <2> QED
      BY <1>3, <2>1 DEF CommandQueued
  <1> QED
    BY <1>1, <1>3, <1>5, TakeCommand DEF QueuedInv

------------------------------------------------------------------------------
\* The steps of a command, from the queue to the topic.

\* The worker takes one.
LEMMA AcceptTopic ==
  ASSUME Known, AcceptBegin \/ AcceptEnd
  PROVE  BoardInv' /\ CountInv' /\ JobInv'
  <1> USE DEF kafkaVars, clientVars
  <1>1. PICK type \in RunCommands : Take(type)
    BY DEF AcceptBegin, AcceptEnd, RunCommands
  <1>2. /\ pc = "idle" /\ RunMessages = {}
        /\ data.running = board.run_register
    BY <1>1, CommandTaken
  <1>3. /\ ~Starting /\ ~Stopping /\ ~CountingEnd
        /\ \A m \in outbox : m.kind \notin {"start", "stop"}
    BY <1>2 DEF RunMessages, Starting, Stopping, CountingEnd
  <1>4. UNCHANGED <<board, outbox, topic, puts>> /\ data'.run_number = data.run_number
    BY DEF AcceptBegin, AcceptEnd, Known, DeliveryInv, TypeOK, Data
  <1>5. ~Starting' /\ ~Stopping' /\ ~CountingEnd' /\ (Open' <=> Open)
    BY <1>3, <1>4 DEF AcceptBegin, AcceptEnd, Starting, Stopping, CountingEnd, Open
  <1>6. CountInv'
    BY <1>3, <1>4, <1>5 DEF Known, PatientInv, CountInv, StopsAt
  <1>7. (\A i \in 1..Len(topic) :
            Made(topic[i].put) /\ Published(topic[i].job) /\ topic[i].kind # "vetoes")'
    BY <1>4 DEF Known, PatientInv, JobInv, Made, Published
  <1>8. CASE AcceptBegin
    <2>1. /\ data.running = Off /\ data'.job_id = event'.put /\ pc' = "begin_pause"
      BY <1>8 DEF AcceptBegin, Known, DeliveryInv, TypeOK, Data
    <2>2. ~Open
      BY <1>2, <1>3, <2>1 DEF Known, PatientInv, BoardInv, Off, On
    <2>3. BoardInv'
      BY <1>2, <1>4, <1>5, <2>1, <2>2 DEF BoardInv, Off, On
    <2>4. JobInv'
      BY <1>3, <1>4, <1>5, <1>7, <2>1, <2>2 DEF JobInv
    <2> QED
      BY <1>6, <2>3, <2>4
  <1>9. CASE AcceptEnd
    <2>1. data.running = On /\ UNCHANGED data /\ pc' = "end_run"
      BY <1>9 DEF AcceptEnd
    <2>2. Open
      BY <1>2, <1>3, <2>1 DEF Known, PatientInv, BoardInv
    <2>3. BoardInv'
      BY <1>2, <1>4, <1>5, <2>1, <2>2 DEF BoardInv, BeginSteps
    <2>4. JobInv'
      BY <1>3, <1>4, <1>5, <1>7, <2>1, <2>2 DEF Known, PatientInv, JobInv, BeginSteps
    <2> QED
      BY <1>6, <2>3, <2>4
  <1> QED
    BY <1>8, <1>9

\* A begin goes on to its next write.
LEMMA BeginTopic ==
  ASSUME Known, BeginPause \/ BeginPeriod
  PROVE  BoardInv' /\ CountInv' /\ JobInv'
  <1> USE DEF kafkaVars, clientVars, Goto
  <1>0. TypeOK
    BY DEF Known, DeliveryInv
  <1>1. /\ UNCHANGED <<event, outbox, topic, puts>>
        /\ data'.run_number = data.run_number /\ data'.job_id = data.job_id
        /\ pc \in BeginSteps /\ pc' \in BeginSteps
    BY <1>0 DEF BeginPause, BeginPeriod, Write, BeginSteps, TypeOK, Data
  <1>2. board'.run_register = board.run_register
    <2>1. \E step \in WriteSteps : Write(step) /\ step \notin {"begin_run", "end_run"}
      BY DEF BeginPause, BeginPeriod, WriteSteps, RegisterOf
    <2> QED
      BY <1>0, <2>1, RunBitStays
  <1>3. /\ Starting' <=> Starting
        /\ Stopping' <=> Stopping
        /\ Open' <=> Open
        /\ ~CountingEnd /\ ~CountingEnd'
    BY <1>1 DEF Starting, Stopping, Open, CountingEnd, BeginSteps
  <1>4. BoardInv'
    BY <1>1, <1>2, <1>3 DEF Known, PatientInv, BoardInv, BeginSteps
  <1>5. CountInv'
    BY <1>1, <1>3 DEF Known, PatientInv, CountInv, StopsAt
  <1>6. JobInv'
    <2>1. (\A i \in 1..Len(topic) :
              Made(topic[i].put) /\ Published(topic[i].job) /\ topic[i].kind # "vetoes")'
      BY <1>1 DEF Known, PatientInv, JobInv, Made, Published
    <2> QED
      BY <1>1, <1>3, <2>1 DEF Known, PatientInv, JobInv
  <1> QED
    BY <1>4, <1>5, <1>6

\* The run bit is written: a message has to be sent.
LEMMA RunBitTopic ==
  ASSUME Known, WriteThenProduce, pc # "vetoes"
  PROVE  BoardInv' /\ CountInv' /\ JobInv'
  <1> USE DEF kafkaVars, clientVars, Goto
  <1>0. TypeOK
    BY DEF Known, DeliveryInv
  <1>1. /\ UNCHANGED <<event, data, outbox, topic, puts>>
        /\ pc \in {"begin_run", "end_run"} /\ pc' = "produce"
        /\ Write(pc)
    BY DEF WriteThenProduce, Write
  <1>2. /\ RunMessages = {}
        /\ pc = "begin_run" => event.type = "begin"
        /\ pc = "end_run" => event.type = "end"
    BY <1>1 DEF Known, PatientInv, HandlingInv, Handling, RunSteps, BeginSteps, StageInv
  <1>3. board'.run_register = IF pc = "begin_run" THEN On ELSE 0
    BY <1>0, <1>1 DEF Write, RegisterOf, WrittenValue, TypeOK, Register
  <1>4. /\ ~Starting /\ ~Stopping /\ ~CountingEnd /\ ~CountingEnd'
        /\ \A m \in outbox : m.kind \notin {"start", "stop"}
    BY <1>1, <1>2 DEF RunMessages, Starting, Stopping, CountingEnd
  <1>5. /\ Starting' <=> pc = "begin_run"
        /\ Stopping' <=> pc = "end_run"
        /\ Open' <=> Open
    BY <1>1, <1>2, <1>4 DEF Starting, Stopping, Open
  <1>6. BoardInv'
    BY <1>1, <1>3, <1>5 DEF Known, PatientInv, BoardInv, BeginSteps, On
  <1>7. CountInv'
    BY <1>1, <1>4 DEF Known, PatientInv, CountInv, StopsAt
  <1>8. JobInv'
    <2>1. (\A i \in 1..Len(topic) :
              Made(topic[i].put) /\ Published(topic[i].job) /\ topic[i].kind # "vetoes")'
      BY <1>1 DEF Known, PatientInv, JobInv, Made, Published
    <2>2. pc' \in BeginSteps \/ (pc' = "produce" /\ event'.type = "begin") =>
              data'.job_id = event'.put
      BY <1>1, <1>2 DEF Known, PatientInv, JobInv, BeginSteps
    <2> QED
      BY <1>1, <1>4, <1>5, <2>1, <2>2 DEF Known, PatientInv, JobInv
  <1> QED
    BY <1>6, <1>7, <1>8
\* Its message is sent.
LEMMA ProduceTopic ==
  ASSUME Known, Produce
  PROVE  BoardInv' /\ CountInv' /\ JobInv'
  <1> USE DEF kafkaVars, clientVars, Goto
  <1>1. /\ UNCHANGED <<event, board, data, topic, puts>>
        /\ pc = "produce" /\ pc' = "flush"
        /\ outbox' = outbox \cup {MessageOf(event)}
    BY DEF Produce
  <1>2. event.type \in {"begin", "end", "vetoes"}
    BY <1>1 DEF Known, StageInv
  <1>3. Open' <=> Open
    BY <1>1 DEF Open
  <1>4. (\A i \in 1..Len(topic) :
            Made(topic[i].put) /\ Published(topic[i].job) /\ topic[i].kind # "vetoes")'
    BY <1>1 DEF Known, PatientInv, JobInv, Made, Published
  <1>5. ~CountingEnd /\ (CountingEnd' <=> event.type = "end")
    BY <1>1 DEF CountingEnd
  <1>6. CASE event.type \in RunCommands
    <2>1. \A m \in outbox : m.kind \notin {"start", "stop"}
      BY <1>1, <1>6 DEF Known, PatientInv, HandlingInv, Handling, SendsRun, RunMessages
    <2>2. /\ MessageOf(event).kind = IF event.type = "begin" THEN "start" ELSE "stop"
          /\ MessageOf(event).job = data.job_id /\ MessageOf(event).put = event.put
          /\ MessageOf(event).run = IF event.type = "begin" THEN data.run_number ELSE 0
      BY <1>6 DEF MessageOf, RunCommands
    <2>3. /\ Starting <=> event.type = "begin"
          /\ Stopping <=> event.type = "end"
          /\ Starting' <=> event.type = "begin"
          /\ Stopping' <=> event.type = "end"
      BY <1>1, <1>6, <2>1, <2>2 DEF Starting, Stopping, RunCommands
    <2>4. BoardInv'
      BY <1>1, <1>3, <2>3 DEF Known, PatientInv, BoardInv, BeginSteps
    <2>5. CountInv'
      <3>1. (\E m \in outbox : m.kind = "stop")' <=> event.type = "end"
        BY <1>1, <1>6, <2>1, <2>2 DEF RunCommands
      <3>2. ~\E m \in outbox : m.kind = "stop"
        BY <2>1
      <3>3. IsFiniteSet(StopsAt) /\ Cardinality(StopsAt) \in Nat /\ data.run_number \in Nat
        BY FS_CardinalityType DEF Known, PatientInv, CountInv, DeliveryInv, TypeOK, Data
      <3>4. Cardinality(StopsAt) = data.run_number
        BY <1>5, <3>2, <3>3 DEF Known, PatientInv, CountInv
      <3>5. UNCHANGED StopsAt
        BY <1>1 DEF StopsAt
      <3> QED
        BY <1>1, <1>5, <3>1, <3>3, <3>4, <3>5 DEF CountInv
    <2>6. JobInv'
      <3>1. event.type = "end" => Open
        BY <2>3 DEF Known, PatientInv, BoardInv
      <3>2. event.type = "end" => data.job_id = topic[Len(topic)].job
        BY <3>1 DEF Known, PatientInv, JobInv
      <3>3. event.type = "begin" => data.job_id = event.put
        BY <1>1 DEF Known, PatientInv, JobInv
      <3>4. \A m \in outbox' : m.kind \in {"start", "stop"} => m = MessageOf(event)
        BY <1>1, <2>1
      <3>5. ASSUME NEW m \in outbox'
            PROVE  /\ m.kind = "start" => /\ m.job = m.put /\ m.job = data'.job_id
                                          /\ m.run = data'.run_number /\ ~CountingEnd'
                   /\ m.kind = "stop" => m.job = topic'[Len(topic')].job /\ m.run = 0
        BY <1>1, <1>5, <1>6, <2>2, <3>2, <3>3, <3>4 DEF RunCommands
      <3>6. Open' => data'.job_id = topic'[Len(topic')].job
        BY <1>1, <1>3 DEF Known, PatientInv, JobInv
      <3> QED
        BY <1>1, <1>4, <3>5, <3>6 DEF JobInv, BeginSteps
    <2> QED
      BY <2>4, <2>5, <2>6
  <1>7. CASE event.type = "vetoes"
    <2>1. MessageOf(event).kind = "vetoes"
      BY <1>7 DEF MessageOf
    <2>2. \A m \in outbox' : m.kind \in {"start", "stop"} => m \in outbox
      BY <1>1, <2>1
    <2>3. /\ Starting' <=> Starting
          /\ Stopping' <=> Stopping
          /\ (\E m \in outbox : m.kind = "stop")' <=> \E m \in outbox : m.kind = "stop"
      BY <1>1, <1>7, <2>1 DEF Starting, Stopping
    <2>4. BoardInv'
      BY <1>1, <1>3, <2>3 DEF Known, PatientInv, BoardInv, BeginSteps
    <2>5. CountInv'
      BY <1>1, <1>5, <1>7, <2>3 DEF Known, PatientInv, CountInv, StopsAt
    <2>6. JobInv'
      BY <1>1, <1>3, <1>4, <1>5, <1>7, <2>2 DEF Known, PatientInv, JobInv, BeginSteps
    <2> QED
      BY <2>4, <2>5, <2>6
  <1> QED
    BY <1>2, <1>6, <1>7 DEF RunCommands

\* The handler of an end counts the run after its flush.
LEMMA CountTopic ==
  ASSUME Known, FlushReturns \/ FlushTimesOut, event.type = "end"
  PROVE  BoardInv' /\ CountInv' /\ JobInv'
  <1> USE DEF kafkaVars, clientVars, Goto
  <1>0. TypeOK
    BY DEF Known, DeliveryInv
  <1>1. /\ UNCHANGED <<event, board, outbox, topic, puts>>
        /\ data'.job_id = data.job_id /\ data'.run_number = data.run_number + 1
        /\ pc = "flush" /\ pc' = "open"
    BY <1>0 DEF FlushReturns, FlushTimesOut, AfterFlush, TypeOK, Data
  <1>2. /\ Starting' <=> Starting
        /\ Stopping' <=> Stopping
        /\ Open' <=> Open
        /\ CountingEnd /\ ~CountingEnd'
    BY <1>1 DEF Starting, Stopping, Open, CountingEnd
  <1>3. BoardInv'
    BY <1>1, <1>2 DEF Known, PatientInv, BoardInv, BeginSteps
  <1>4. CountInv'
    <2> DEFINE flying == IF \E m \in outbox : m.kind = "stop" THEN 1 ELSE 0
    <2>1. Cardinality(StopsAt) + flying = data.run_number + 1 /\ IsFiniteSet(StopsAt)
      BY <1>2 DEF Known, PatientInv, CountInv
    <2>2. data.run_number \in Nat
      BY <1>0 DEF TypeOK, Data
    <2> QED
      BY <1>1, <1>2, <2>1, <2>2 DEF CountInv, StopsAt
  <1>5. JobInv'
    <2>1. (\A i \in 1..Len(topic) :
              Made(topic[i].put) /\ Published(topic[i].job) /\ topic[i].kind # "vetoes")'
      BY <1>1 DEF Known, PatientInv, JobInv, Made, Published
    <2> QED
      BY <1>1, <1>2, <2>1 DEF Known, PatientInv, JobInv, BeginSteps
  <1> QED
    BY <1>3, <1>4, <1>5
\* The broker appends a message: it is the latest, and a stop is one stop more.
LEMMA TopicAppended ==
  ASSUME TypeOK, NEW m \in Message, topic' = Append(topic, m), IsFiniteSet(StopsAt)
  PROVE  /\ topic' # << >> /\ topic'[Len(topic')] = m
         /\ Open' <=> m.kind = "start"
         /\ m.kind # "stop" => UNCHANGED StopsAt
         /\ m.kind = "stop" => /\ IsFiniteSet(StopsAt')
                               /\ Cardinality(StopsAt') = Cardinality(StopsAt) + 1
  <1>1. topic \in Seq(Message)
    BY DEF TypeOK
  <1>2. /\ Len(topic) \in Nat /\ Len(topic') = Len(topic) + 1
        /\ topic'[Len(topic) + 1] = m
        /\ \A i \in 1..Len(topic) : topic'[i] = topic[i]
        /\ topic' # << >>
    BY <1>1
  <1>3. Open' <=> m.kind = "start"
    BY <1>2 DEF Open
  <1>4. 1..Len(topic') = 1..Len(topic) \cup {Len(topic) + 1}
        /\ Len(topic) + 1 \notin 1..Len(topic)
    BY <1>2
  <1>5. CASE m.kind # "stop"
    <2>1. UNCHANGED StopsAt
      BY <1>2, <1>4, <1>5 DEF StopsAt
    <2> QED
      BY <1>2, <1>3, <1>5, <2>1
  <1>6. CASE m.kind = "stop"
    <2>1. StopsAt' = StopsAt \cup {Len(topic) + 1} /\ Len(topic) + 1 \notin StopsAt
      BY <1>2, <1>4, <1>6 DEF StopsAt
    <2>2. IsFiniteSet(StopsAt') /\ Cardinality(StopsAt') = Cardinality(StopsAt) + 1
      BY <2>1, FS_AddElement
    <2> QED
      BY <1>2, <1>3, <1>6, <2>2
  <1> QED
    BY <1>5, <1>6

\* It delivers one, and the put it answers has been made.
LEMMA Delivered ==
  ASSUME Known, NEW m \in outbox, topic' = Appended(m), UNCHANGED puts
  PROVE  /\ m \in Message /\ Made(m.put)'
         /\ \A p : Published(p) => Published(p)'
         /\ m.kind # "vetoes" => Published(m.put)'
         /\ \A p : Made(p) => Made(p)'
  <1>1. m \in Message /\ TypeOK /\ Made(m.put)
    BY DEF Known, DeliveryInv, TypeOK, OutboxInv, Made
  <1>2. topic' = topic \/ topic' = Append(topic, m)
    BY DEF Appended
  <1>3. /\ \A p : Published(p) => Published(p)'
        /\ topic' = Append(topic, m) => Published(m.put)'
    BY <1>1, <1>2, PublishedGrows
  <1> QED
    BY <1>1, <1>3 DEF Appended, Made

\* What the topic holds, after a delivery.
LEMMA DeliveredEntries ==
  ASSUME Known, NEW m \in outbox, topic' = Append(topic, m), m.kind # "vetoes",
         UNCHANGED puts
  PROVE  (\A i \in 1..Len(topic) :
             Made(topic[i].put) /\ Published(topic[i].job) /\ topic[i].kind # "vetoes")'
  <1>1. topic' = Appended(m)
    BY DEF Appended
  <1>2. /\ m \in Message /\ Made(m.put)' /\ Published(m.put)'
        /\ \A p : Published(p) => Published(p)'
        /\ \A p : Made(p) => Made(p)'
    BY <1>1, Delivered
  <1>3. TypeOK
    BY DEF Known, DeliveryInv
  <1>4. Published(m.job)'
    <2>1. CASE m.kind = "start"
      BY <1>2, <2>1 DEF Known, PatientInv, JobInv
    <2>2. CASE m.kind = "stop"
      <3>1. Open /\ m.job = topic[Len(topic)].job
        BY <2>2 DEF Known, PatientInv, BoardInv, JobInv, Stopping
      <3>2. Len(topic) \in 1..Len(topic)
        BY <1>3, <3>1, EmptySeq DEF Open, TypeOK
      <3>3. Published(topic[Len(topic)].job)
        BY <3>2 DEF Known, PatientInv, JobInv
      <3> QED
        BY <1>2, <3>1, <3>3
    <2> QED
      BY <1>2, <2>1, <2>2 DEF Message
  <1>5. ASSUME NEW i \in 1..Len(topic')
        PROVE  \E n : /\ n = topic'[i] /\ n.kind # "vetoes"
                      /\ Made(n.put)' /\ Published(n.job)'
    <2>1. CASE i \in 1..Len(topic)
      <3>1. topic'[i] = topic[i]
        BY <1>2, <1>3, <2>1, TopicGrows
      <3>2. Made(topic[i].put) /\ Published(topic[i].job) /\ topic[i].kind # "vetoes"
        BY <2>1 DEF Known, PatientInv, JobInv
      <3>3. Made(topic[i].put)' /\ Published(topic[i].job)'
        BY <1>2, <3>1, <3>2 DEF Made, Published
      <3> QED
        BY <3>1, <3>2, <3>3 DEF Made, Published
    <2>2. CASE i \notin 1..Len(topic)
      <3>1. topic'[i] = m
        BY <1>2, <1>3, <2>2, TopicGrows
      <3> QED
        BY <1>2, <1>4, <3>1
    <2> QED
      BY <2>1, <2>2
  <1>6. ASSUME NEW i \in 1..Len(topic')
        PROVE  /\ topic'[i].kind # "vetoes"
               /\ topic'[i].put \in PutId => puts'[topic'[i].put] # "unused"
               /\ \E j \in 1..Len(topic') : topic'[j].put = topic'[i].job
    <2>1. PICK n : /\ n = topic'[i] /\ n.kind # "vetoes"
                   /\ Made(n.put)' /\ Published(n.job)'
      BY <1>5
    <2> QED
      BY <2>1 DEF Made, Published
  <1> QED
    BY <1>6 DEF Made, Published
\* What a delivery of a begin or an end finds: nothing else is on its way.
LEMMA DeliveredAlone ==
  ASSUME Known, Deliver, NEW m \in outbox, m.kind # "vetoes", outbox' = outbox \ {m}
  PROVE  /\ ~Handling /\ pc \notin RunSteps
         /\ Starting <=> m.kind = "start"
         /\ Stopping <=> m.kind = "stop"
         /\ ~Starting' /\ ~Stopping' /\ (CountingEnd' <=> CountingEnd)
         /\ \A n \in outbox' : n.kind \notin {"start", "stop"}
  <1>1. m \in RunMessages /\ UNCHANGED <<pc, event>>
    BY DEF RunMessages, Deliver, workerVars
  <1>2. ~Handling
    BY <1>1 DEF Known, PatientInv, HandlingInv
  <1>3. \A n \in outbox : n.kind # "vetoes" => n = m
    BY <1>1 DEF Known, PatientInv, MessagesInv, RunMessages
  <1> QED
    BY <1>1, <1>2, <1>3 DEF Handling, SendsRun, RunCommands, Starting, Stopping, CountingEnd

LEMMA DeliverTopic ==
  ASSUME Known, Deliver
  PROVE  BoardInv' /\ CountInv' /\ JobInv'
  <1>0. TypeOK
    BY DEF Known, DeliveryInv
  <1>1. PICK m \in outbox :
            /\ outbox' = outbox \ {m} /\ topic' = Appended(m)
            /\ UNCHANGED <<board, data, pc, event, puts>>
    BY DEF Deliver, workerVars, clientVars
  <1>2. CASE m.kind = "vetoes"
    <2>1. topic' = topic
      BY <1>1, <1>2 DEF Appended
    <2>2. /\ Starting' <=> Starting
          /\ Stopping' <=> Stopping
          /\ Open' <=> Open
          /\ CountingEnd' <=> CountingEnd
          /\ (\E n \in outbox : n.kind = "stop")' <=> \E n \in outbox : n.kind = "stop"
      BY <1>1, <1>2, <2>1 DEF Starting, Stopping, Open, CountingEnd
    <2>3. BoardInv'
      BY <1>1, <2>2 DEF Known, PatientInv, BoardInv
    <2>4. CountInv'
      BY <1>1, <2>1, <2>2 DEF Known, PatientInv, CountInv, StopsAt
    <2>5. JobInv'
      <3>1. (\A i \in 1..Len(topic) :
                Made(topic[i].put) /\ Published(topic[i].job) /\ topic[i].kind # "vetoes")'
        BY <1>1, <2>1 DEF Known, PatientInv, JobInv, Made, Published
      <3> QED
        BY <1>1, <2>1, <2>2, <3>1 DEF Known, PatientInv, JobInv
    <2> QED
      BY <2>3, <2>4, <2>5
  <1>3. CASE m.kind # "vetoes"
    <2>1. topic' = Append(topic, m) /\ m \in Message
      BY <1>0, <1>1, <1>3 DEF Appended, TypeOK
    <2>2. /\ pc \notin RunSteps
          /\ Starting <=> m.kind = "start"
          /\ Stopping <=> m.kind = "stop"
          /\ ~Starting' /\ ~Stopping' /\ (CountingEnd' <=> CountingEnd)
          /\ \A n \in outbox' : n.kind \notin {"start", "stop"}
      BY <1>1, <1>3, DeliveredAlone
    <2>3. IsFiniteSet(StopsAt) /\ Cardinality(StopsAt) \in Nat
      BY FS_CardinalityType DEF Known, PatientInv, CountInv
    <2>4. /\ topic' # << >> /\ topic'[Len(topic')] = m
          /\ Open' <=> m.kind = "start"
          /\ m.kind # "stop" => UNCHANGED StopsAt
          /\ m.kind = "stop" => /\ IsFiniteSet(StopsAt')
                                /\ Cardinality(StopsAt') = Cardinality(StopsAt) + 1
      BY <1>0, <2>1, <2>3, TopicAppended
    <2>5. m.kind \in {"start", "stop"}
      BY <1>3, <2>1 DEF Message
    <2>6. BoardInv'
      BY <1>1, <2>2, <2>4, <2>5
         DEF Known, PatientInv, BoardInv, RunSteps
    <2>7. CountInv'
      <3>1. ~(\E n \in outbox : n.kind = "stop")'
        BY <2>2
      <3>2. (\E n \in outbox : n.kind = "stop") <=> m.kind = "stop"
        BY <1>1, <2>2
      <3> QED
        BY <1>1, <2>2, <2>3, <2>4, <3>1, <3>2 DEF Known, PatientInv, CountInv
    <2>8. JobInv'
      <3>1. (\A i \in 1..Len(topic) :
                Made(topic[i].put) /\ Published(topic[i].job) /\ topic[i].kind # "vetoes")'
        BY <1>1, <1>3, <2>1, DeliveredEntries
      <3>2. Open' => data'.job_id = topic'[Len(topic')].job
        BY <1>1, <2>4 DEF Known, PatientInv, JobInv
      <3>3. pc' \in BeginSteps \/ (pc' = "produce" /\ event'.type = "begin") =>
                data'.job_id = event'.put
        BY <1>1 DEF Known, PatientInv, JobInv
      <3> QED
        BY <2>2, <3>1, <3>2, <3>3 DEF JobInv
    <2> QED
      BY <2>6, <2>7, <2>8
  <1> QED
    BY <1>2, <1>3
\* Every step of patient clients and of what they use.
LEMMA StepTopic ==
  ASSUME Known, [Next]_vars
  PROVE  BoardInv' /\ CountInv' /\ JobInv'
  <1>1. CASE AcceptBegin \/ AcceptEnd
    BY <1>1, AcceptTopic
  <1>2. CASE BeginPause \/ BeginPeriod
    BY <1>2, BeginTopic
  <1>3. CASE WriteThenProduce /\ pc # "vetoes"
    BY <1>3, RunBitTopic
  <1>4. CASE Produce
    BY <1>4, ProduceTopic
  <1>5. CASE (FlushReturns \/ FlushTimesOut) /\ event.type = "end"
    BY <1>5, CountTopic
  <1>6. CASE Deliver
    BY <1>6, DeliverTopic
  <1>7. CASE QuietStep
    BY <1>7, QuietStepTopic
  <1>8. ~WriteFails /\ ~ProduceFails /\ ~WorkerPollFails /\ ~Expire /\ ~CrashAndRestart
    BY PatientFaults DEF Known
  <1> QED
    BY <1>1, <1>2, <1>3, <1>4, <1>5, <1>6, <1>7, <1>8
       DEF QuietStep, Next, WorkerStep, WorkerFault

------------------------------------------------------------------------------
\* The put of the command on its way stays without an answer.

\* Only a delivery report answers it.
LEMMA WhatAnswers ==
  ASSUME Known, [Next]_vars, ~RefuseBegin, ~RefuseEnd, NEW p, Unanswered(p),
         SaveFails => event.put # p
  PROVE  done'[p] = "clear"
  <1> USE DEF workerVars, pollVars, clientVars, kafkaVars
  <1>0. TypeOK /\ p \in PutId /\ done[p] = "clear"
    BY DEF Known, DeliveryInv, Unanswered
  <1>1. CASE SetPause \/ SetCurrentPeriod \/ SetPeriodMode
    <2>1. SetDone(event.put) /\ pc \in {"pause", "current_period", "period_mode"}
      BY <1>1 DEF SetPause, SetCurrentPeriod, SetPeriodMode, Write
    <2>2. event.type \notin RunCommands
      BY <1>0, <2>1 DEF TypeOK, RunCommands
    <2>3. event.put # p
      BY <2>2 DEF Known, DeliveryInv, WorkerInv, EventIsAsked, Unanswered
    <2> QED
      BY <1>0, <2>1, <2>3 DEF SetDone, TypeOK
  <1>2. CASE ServeReport
    <2>1. PICK r \in reports : SetErr(r.put) \/ SetDone(r.put)
      BY <1>2 DEF ServeReport
    <2>2. r.put # p
      BY DEF Unanswered
    <2> QED
      BY <1>0, <2>1, <2>2 DEF SetDone, SetErr, TypeOK
  <1>3. CASE SaveFails
    BY <1>0, <1>3 DEF SaveFails, Raise, SetErr, TypeOK
  <1>4. CASE ~SetPause /\ ~SetCurrentPeriod /\ ~SetPeriodMode /\ ~ServeReport /\ ~SaveFails
    <2>1. ~WriteFails /\ ~ProduceFails /\ ~WorkerPollFails /\ ~Expire /\ ~CrashAndRestart
      BY PatientFaults DEF Known
    <2>2. UNCHANGED done
      BY <1>4, <2>1
         DEF Next, WorkerStep, WorkerFault, ClientRequest, RequestPut, Answer,
             TakeHardwareUpdate, AcceptBegin, AcceptEnd, TakeOther,
             BeginPause, BeginPeriod, WriteThenProduce, SetIP, Produce, FlushReturns,
             FlushTimesOut, AfterFlush, OpenStateFile, DumpState, WorkerPoll, ResendVetoes,
             Deliver, PollRead, PollPut, vars
    <2> QED
      BY <1>0, <2>2
  <1> QED
    BY <1>1, <1>2, <1>3, <1>4

\* Its client neither gets an answer nor asks again.
LEMMA StaysWaiting ==
  ASSUME Known, [Next]_vars, NEW p, Unanswered(p)
  PROVE  puts'[p] = "waiting" /\ asked'[p] = asked[p]
  <1> USE DEF workerVars, pollVars, clientVars, kafkaVars
  <1>0. TypeOK /\ p \in PutId /\ puts[p] = "waiting" /\ done[p] = "clear"
    BY DEF Known, DeliveryInv, Unanswered
  <1>1. CASE ClientRequest
    <2>1. PICK q \in PutId, r \in Requests : RequestPut(q, r)
      BY <1>1 DEF ClientRequest
    <2>2. q # p
      BY <1>0, <2>1 DEF RequestPut
    <2> QED
      BY <1>0, <2>1, <2>2 DEF RequestPut, TypeOK
  <1>2. CASE \E q \in PutId : Answer(q)
    BY <1>0, <1>2 DEF Answer, TypeOK
  <1>3. CASE ~ClientRequest /\ ~\E q \in PutId : Answer(q)
    <2>1. ~WriteFails /\ ~ProduceFails /\ ~WorkerPollFails /\ ~Expire /\ ~CrashAndRestart
      BY PatientFaults DEF Known
    <2>2. UNCHANGED <<asked, puts>>
      BY <1>3, <2>1
         DEF Next, WorkerStep, WorkerFault,
             TakeHardwareUpdate, RefuseBegin, AcceptBegin, RefuseEnd, AcceptEnd, TakeOther,
             BeginPause, BeginPeriod, WriteThenProduce, SetPause, SetCurrentPeriod,
             SetPeriodMode, SetIP, Produce, ServeReport, FlushReturns, FlushTimesOut,
             AfterFlush, OpenStateFile, DumpState, SaveFails, WorkerPoll, ResendVetoes,
             Deliver, PollRead, PollPut, vars
    <2> QED
      BY <1>0, <2>2
  <1> QED
    BY <1>1, <1>2, <1>3

LEMMA KeepsUnanswered ==
  ASSUME Known, [Next]_vars, ~RefuseBegin, ~RefuseEnd, NEW p, Unanswered(p),
         SaveFails => event.put # p,
         Deliver => \A m \in RunMessages : m \in outbox'
  PROVE  Unanswered(p)'
  <1> USE DEF workerVars, pollVars, clientVars, kafkaVars
  <1>1. p \in PutId /\ asked[p] \in RunCommands
        /\ ~Published(p) /\ \A r \in reports : r.put # p
    BY DEF Unanswered
  <1>2. done'[p] = "clear" /\ puts'[p] = "waiting" /\ asked'[p] = asked[p]
    BY WhatAnswers, StaysWaiting
  <1>3. CASE Deliver
    <2>1. PICK m \in outbox :
              /\ outbox' = outbox \ {m} /\ topic' = Appended(m)
              /\ reports' = reports \cup {[put |-> m.put, err |-> FALSE]}
      BY <1>3 DEF Deliver
    <2>2. m.kind = "vetoes"
      BY <1>3, <2>1 DEF RunMessages
    <2>3. m.put # p
      BY <1>1, <2>2 DEF Known, DeliveryInv, OutboxInv, IsRun
    <2>4. topic' = topic /\ \A r \in reports' : r.put # p
      BY <1>1, <2>1, <2>2, <2>3 DEF Appended
    <2> QED
      BY <1>1, <1>2, <2>4 DEF Unanswered, Published
  <1>4. CASE ~Deliver
    <2>1. ~WriteFails /\ ~ProduceFails /\ ~WorkerPollFails /\ ~Expire /\ ~CrashAndRestart
      BY PatientFaults DEF Known
    <2>2. topic' = topic /\ reports' \subseteq reports
      BY <1>4, <2>1
         DEF Next, WorkerStep, WorkerFault, ClientRequest, RequestPut, Answer,
             TakeHardwareUpdate, RefuseBegin, AcceptBegin, RefuseEnd, AcceptEnd, TakeOther,
             BeginPause, BeginPeriod, WriteThenProduce, SetPause, SetCurrentPeriod,
             SetPeriodMode, SetIP, Produce, ServeReport, FlushReturns, FlushTimesOut,
             AfterFlush, OpenStateFile, DumpState, SaveFails, WorkerPoll, ResendVetoes,
             PollRead, PollPut, vars
    <2> QED
      BY <1>1, <1>2, <2>2 DEF Unanswered, Published
  <1> QED
    BY <1>3, <1>4
------------------------------------------------------------------------------
\* The queue of patient clients.

\* A get leaves updates at LOW.
LEMMA TakeLow ==
  ASSUME TypeOK, LowInv, NEW type, Take(type)
  PROVE  LowInv'
  <1>1. queue["LOW"] \in Seq(Event) /\ queue' = WithoutNext(queue) /\ ~IsEmpty(queue)
    BY DEF TypeOK, Priority, Take
  <1>2. CASE NextPriority(queue) = "HIGH"
    <2>1. UNCHANGED queue["LOW"]
      BY <1>1, <1>2 DEF WithoutNext, TypeOK, Priority
    <2> QED
      BY <2>1, LowStays
  <1>3. CASE NextPriority(queue) = "LOW"
    <2>1. queue["LOW"] # << >> /\ queue'["LOW"] = Tail(queue["LOW"])
      BY <1>1, <1>3, TakeItemType DEF WithoutNext, TypeOK, Priority
    <2>2. \A i \in 1..Len(queue'["LOW"]) :
              i + 1 \in 1..Len(queue["LOW"]) /\ queue'["LOW"][i] = queue["LOW"][i + 1]
      BY <1>1, <2>1
    <2> QED
      BY <2>2 DEF LowInv
  <1> QED
    BY <1>2, <1>3 DEF NextPriority

\* A put does so when it puts one, or puts at HIGH.
LEMMA PutLow ==
  ASSUME TypeOK, LowInv, NEW e,
         \/ queue' = PutItem(queue, "HIGH", e)
         \/ queue' = PutItem(queue, "LOW", e) /\ e.type = "hardware_update"
  PROVE  LowInv'
  <1>1. queue["LOW"] \in Seq(Event)
    BY DEF TypeOK, Priority
  <1>2. \/ queue'["LOW"] = queue["LOW"]
        \/ queue'["LOW"] = Append(queue["LOW"], e) /\ e.type = "hardware_update"
    BY DEF PutItem, TypeOK, Priority
  <1>3. \A i \in 1..Len(queue'["LOW"]) :
            \/ i \in 1..Len(queue["LOW"]) /\ queue'["LOW"][i] = queue["LOW"][i]
            \/ queue'["LOW"][i].type = "hardware_update"
    BY <1>1, <1>2
  <1> QED
    BY <1>3 DEF LowInv

\* Who puts and who gets.
TakeStep ==
    TakeHardwareUpdate \/ RefuseBegin \/ AcceptBegin \/ RefuseEnd \/ AcceptEnd \/ TakeOther

PutStep == ClientRequest \/ WorkerPoll \/ ResendVetoes \/ PollPut

LEMMA OtherStepsQueue ==
  ASSUME Known, [Next]_vars, ~TakeStep, ~PutStep
  PROVE  UNCHANGED queue
  <1>1. ~WriteFails /\ ~ProduceFails /\ ~WorkerPollFails /\ ~Expire /\ ~CrashAndRestart
    BY PatientFaults DEF Known
  <1> QED
    BY <1>1
       DEF TakeStep, PutStep, Next, WorkerStep, WorkerFault, Answer,
           BeginPause, BeginPeriod, WriteThenProduce, SetPause, SetCurrentPeriod,
           SetPeriodMode, SetIP, Produce, ServeReport, FlushReturns, FlushTimesOut, AfterFlush,
           OpenStateFile, DumpState, SaveFails, Deliver, PollRead, vars, workerVars, pollVars,
           clientVars, kafkaVars

LEMMA TakesSomething == TakeStep => \E type : Take(type)
  BY DEF TakeStep, TakeHardwareUpdate, RefuseBegin, AcceptBegin, RefuseEnd, AcceptEnd, TakeOther

LEMMA StepLow == ASSUME Known, [Next]_vars PROVE LowInv'
  <1>0. TypeOK /\ LowInv
    BY DEF Known, DeliveryInv, PatientInv
  <1>1. CASE TakeStep
    BY <1>0, <1>1, TakesSomething, TakeLow
  <1>2. CASE ClientRequest
    <2>1. PICK q \in PutId, r \in Requests : RequestPut(q, r)
      BY <1>2 DEF ClientRequest
    <2>2. UNCHANGED queue \/ \E e : queue' = PutItem(queue, "HIGH", e)
      BY <2>1 DEF RequestPut, HighEvent
    <2> QED
      BY <1>0, <2>2, PutLow, LowStays
  <1>3. CASE WorkerPoll \/ ResendVetoes
    <2>1. \E e : queue' = PutItem(queue, "HIGH", e)
      BY <1>3 DEF WorkerPoll, ResendVetoes, HighEvent
    <2> QED
      BY <1>0, <2>1, PutLow
  <1>4. CASE PollPut
    <2> DEFINE e == [type |-> "hardware_update", put |-> NoPut, value |-> pollValue]
    <2>1. queue' = PutItem(queue, "LOW", e) /\ e.type = "hardware_update"
      BY <1>4 DEF PollPut
    <2> HIDE DEF e
    <2> QED
      BY <1>0, <2>1, PutLow
  <1>5. CASE ~TakeStep /\ ~PutStep
    BY <1>0, <1>5, OtherStepsQueue, LowStays
  <1> QED
    BY <1>1, <1>2, <1>3, <1>4, <1>5 DEF PutStep

\* A put leaves HIGH longer by its item.
LEMMA PutHigh ==
  ASSUME TypeOK, NEW e \in Event, queue' = PutItem(queue, "HIGH", e)
  PROVE  /\ Len(High) \in Nat /\ Len(High') = Len(High) + 1 /\ High'[Len(High) + 1] = e
         /\ \A i \in 1..Len(High) : High'[i] = High[i]
  <1>1. High \in Seq(Event) /\ High' = Append(High, e)
    BY DEF TypeOK, High, PutItem, Priority
  <1> QED
    BY <1>1

\* Without a command in it, the queue only gets one from a client.
LEMMA NoCommandComes ==
  ASSUME Known, [Next]_vars, ~ClientRequest, ~CommandQueued
  PROVE  ~CommandQueued'
  <1>0. TypeOK /\ High \in Seq(Event)
    BY DEF Known, DeliveryInv, TypeOK, High, Priority
  <1>1. CASE TakeStep
    <2>1. PICK type : Take(type)
      BY <1>1, TakesSomething
    <2>2. CASE High = << >>
      <3>1. High' = High
        BY <1>0, <2>1, <2>2 DEF Take, WithoutNext, NextPriority, High, TypeOK, Priority
      <3> QED
        BY <3>1 DEF CommandQueued
    <2>3. CASE High # << >>
      <3>1. High' = Tail(High)
        BY <1>0, <2>1, <2>3, HighFirst
      <3>2. \A i \in 1..Len(High') : i + 1 \in 1..Len(High) /\ High'[i] = High[i + 1]
        BY <1>0, <2>3, <3>1
      <3> QED
        BY <3>2 DEF CommandQueued
    <2> QED
      BY <2>2, <2>3
  <1>2. CASE WorkerPoll \/ ResendVetoes
    <2>1. PICK e \in Event : queue' = PutItem(queue, "HIGH", e) /\ e.type \notin RunCommands
      <3>1. /\ [type |-> "hardware_update", put |-> NoPut, value |-> board.run_register] \in Event
            /\ [type |-> "vetoes", put |-> NoPut, value |-> data.vetoes] \in Event
        BY <1>0, UpdateType
           DEF Known, TypeOK, Register, Data, Event, EventTypes, ClientTypes
      <3> QED
        BY <1>2, <3>1 DEF WorkerPoll, ResendVetoes, HighEvent, RunCommands
    <2>2. \A i \in 1..Len(High') :
              (i \in 1..Len(High) /\ High'[i] = High[i]) \/ High'[i] = e
      BY <1>0, <2>1, PutHigh
    <2> QED
      BY <2>1, <2>2 DEF CommandQueued
  <1>3. CASE PollPut
    <2>1. High' = High
      BY <1>0, <1>3 DEF PollPut, PutItem, High, TypeOK, Priority
    <2> QED
      BY <2>1 DEF CommandQueued
  <1>4. CASE ~TakeStep /\ ~PutStep
    BY <1>4, OtherStepsQueue DEF CommandQueued, High
  <1> QED
    BY <1>1, <1>2, <1>3, <1>4 DEF PutStep
------------------------------------------------------------------------------
\* One command at a time.

\* A patient client asks when nothing is on its way.
LEMMA RequestQueued ==
  ASSUME Known, TypeOK', ClientRequest
  PROVE  QueuedInv'
  <1> USE DEF workerVars, pollVars, clientVars, kafkaVars
  <1>0. TypeOK
    BY DEF Known, DeliveryInv
  <1>1. PICK q \in PutId, r \in Requests : RequestPut(q, r)
    BY DEF ClientRequest
  <1>2. Settled
    BY <1>1 DEF RequestPut, Known, OneAtATime
  <1>3. High = << >> /\ pc = "idle" /\ data.running = board.run_register
    BY <1>2 DEF Settled, IsEmpty, High, Priority
  <1>4. CASE r.type = "current_period" /\ r.value < 1
    <2>1. High' = << >>
      BY <1>1, <1>3, <1>4 DEF RequestPut, High
    <2> QED
      BY <2>1 DEF QueuedInv, CommandQueued
  <1>5. CASE ~(r.type = "current_period" /\ r.value < 1)
    <2> DEFINE e == [type |-> r.type, put |-> q, value |-> r.value]
    <2>1. /\ queue' = PutItem(queue, "HIGH", e)
          /\ asked'[q] = r.type /\ puts'[q] = "waiting" /\ puts[q] = "unused"
          /\ UNCHANGED <<pc, data, board, outbox, reports, topic, done>>
      BY <1>0, <1>1, <1>5 DEF RequestPut, HighEvent, TypeOK
    <2>2. e \in Event /\ e.put = q /\ e.type = r.type
      BY <1>5 DEF Event, EventTypes, Value, Known, Assumptions
    <2> HIDE DEF e
    <2>3. Len(High') = 1 /\ High'[1] = e
      <3>1. Len(High) = 0
        BY <1>3, EmptySeq
      <3> QED
        BY <1>0, <2>1, <2>2, <3>1, PutHigh
    <2>4. RunMessages' = {}
      <3>1. RunMessages = {}
        <4>1. \A m \in RunMessages : m.put \in InFlight
          BY DEF Known, PatientInv, MessagesInv, Unanswered, InFlight
        <4> QED
          BY <1>2, <4>1 DEF Settled
      <3> QED
        BY <2>1, <3>1 DEF RunMessages
    <2>5. r.type \in RunCommands => Unanswered(q)'
      <3>1. done[q] = "clear"
        BY <2>1 DEF Known, DeliveryInv, DoneInv
      <3>2. ~Published(q)
        BY <2>1 DEF Known, PatientInv, JobInv, Made, Published
      <3>3. \A report \in reports : report.put # q
        BY <2>1 DEF Known, DeliveryInv, ReportInv, Made
      <3> QED
        BY <2>1, <3>1, <3>2, <3>3 DEF Unanswered, Published
    <2>6. CommandQueued' => r.type \in RunCommands
      <3>1. \A i \in 1..Len(High') : i = 1
        BY <2>3
      <3> QED
        BY <2>2, <2>3, <3>1 DEF CommandQueued
    <2> QED
      BY <1>3, <2>1, <2>2, <2>3, <2>4, <2>5, <2>6 DEF QueuedInv
  <1> QED
    BY <1>4, <1>5

LEMMA StepQueued == ASSUME Known, TypeOK', [Next]_vars PROVE QueuedInv'
  <1> USE DEF workerVars, pollVars, clientVars, kafkaVars
  <1>0. TypeOK
    BY DEF Known, DeliveryInv
  <1>1. CASE ClientRequest
    BY <1>1, RequestQueued
  <1>2. CASE ~ClientRequest /\ ~CommandQueued
    BY <1>2, NoCommandComes DEF QueuedInv
  <1>3. CASE ~ClientRequest /\ CommandQueued
    <2>1. /\ pc = "idle" /\ Len(High) = 1 /\ RunMessages = {}
          /\ data.running = board.run_register
          /\ Unanswered(High[1].put)
      BY <1>3 DEF Known, PatientInv, QueuedInv
    <2>2. CASE TakeStep
      <3>1. ~CommandQueued'
        BY <1>3, <2>2, TakesSomething, TakeCommand
      <3> QED
        BY <3>1 DEF QueuedInv
    <2>3. CASE ~TakeStep
      <3>1. ~WriteFails /\ ~ProduceFails /\ ~WorkerPollFails /\ ~Expire /\ ~CrashAndRestart
        BY PatientFaults DEF Known
      <3>2. \/ Deliver \/ PollRead \/ PollPut \/ UNCHANGED vars
            \/ \E p \in PutId : Answer(p)
        BY <1>3, <2>1, <2>3, <3>1
           DEF Next, WorkerStep, WorkerFault, TakeStep, BeginPause, BeginPeriod,
               WriteThenProduce, SetPause, SetCurrentPeriod, SetPeriodMode, SetIP, Write,
               Produce, ServeReport, FlushReturns, FlushTimesOut, AfterFlush, OpenStateFile,
               DumpState, SaveFails, WorkerPoll, ResendVetoes
      <3>3. /\ UNCHANGED <<pc, data, board>> /\ outbox' \subseteq outbox
            /\ High' = High
        BY <1>0, <3>2
           DEF Deliver, PollRead, PollPut, vars, Answer, High, PutItem, TypeOK, Priority
      <3>4. RunMessages' = {}
        BY <2>1, <3>3 DEF RunMessages
      <3>5. ~RefuseBegin /\ ~RefuseEnd /\ ~SaveFails
        BY <2>1, <2>3 DEF TakeStep, SaveFails
      <3>6. Unanswered(High[1].put)'
        <4> DEFINE p == High[1].put
        <4>1. Unanswered(p)
          BY <2>1
        <4>2. p' = p
          BY <3>3
        <4> HIDE DEF p
        <4>3. \A x : Unanswered(x) => Unanswered(x)'
          BY <2>1, <3>5, KeepsUnanswered
        <4> QED
          BY <4>1, <4>2, <4>3 DEF p, Unanswered, Published
      <3> QED
        BY <2>1, <3>3, <3>4, <3>6 DEF QueuedInv
    <2> QED
      BY <2>2, <2>3
  <1> QED
    BY <1>1, <1>2, <1>3
\* Where a command comes to the worker, and where it is sent.
LEMMA HandlingGrows ==
  ASSUME Known, [Next]_vars, Handling'
  PROVE  \/ AcceptBegin \/ AcceptEnd
         \/ Handling /\ UNCHANGED event /\ ~SaveFails /\ ~RefuseBegin /\ ~RefuseEnd
              /\ outbox' \subseteq outbox
  <1> USE DEF workerVars, pollVars, clientVars, kafkaVars, Goto, Finish
  <1>1. ~WriteFails /\ ~ProduceFails /\ ~WorkerPollFails /\ ~Expire /\ ~CrashAndRestart
    BY PatientFaults DEF Known
  <1>2. pc' \in RunSteps \/ (pc' = "produce" /\ event'.type \in RunCommands)
    BY DEF Handling, SendsRun
  <1>3. CASE TakeHardwareUpdate \/ RefuseBegin \/ RefuseEnd \/ TakeOther
    BY <1>2, <1>3
       DEF TakeHardwareUpdate, RefuseBegin, RefuseEnd, TakeOther, Take, RunSteps, BeginSteps
  <1>4. CASE SetPause \/ SetCurrentPeriod \/ SetPeriodMode \/ SetIP \/ Produce \/ FlushReturns
               \/ FlushTimesOut \/ OpenStateFile \/ DumpState \/ SaveFails \/ WorkerPoll
               \/ ResendVetoes
    BY <1>2, <1>4
       DEF SetPause, SetCurrentPeriod, SetPeriodMode, SetIP, Produce, FlushReturns,
           FlushTimesOut, AfterFlush, OpenStateFile, DumpState, SaveFails, Raise, WorkerPoll,
           AfterPoll, ResendVetoes, RunSteps, BeginSteps
  <1>5. CASE BeginPause \/ BeginPeriod \/ WriteThenProduce
    <2>1. /\ pc \in RunSteps \cup {"vetoes"} /\ UNCHANGED <<event, outbox>>
          /\ pc = "vetoes" => pc' = "produce"
      BY <1>5 DEF BeginPause, BeginPeriod, WriteThenProduce, Write, RunSteps, BeginSteps
    <2>2. pc # "vetoes"
      BY <1>2, <2>1 DEF Known, StageInv, RunSteps, BeginSteps, RunCommands
    <2> QED
      BY <2>1, <2>2 DEF Handling, SaveFails, RefuseBegin, RefuseEnd, Take, RunSteps, BeginSteps
  <1>6. CASE ClientRequest \/ (\E q \in PutId : Answer(q)) \/ PollRead \/ PollPut \/ Deliver
               \/ ServeReport \/ UNCHANGED vars
    <2>1. UNCHANGED <<pc, event>> /\ outbox' \subseteq outbox
      BY <1>6 DEF ClientRequest, RequestPut, Answer, PollRead, PollPut, Deliver, ServeReport,
                  vars
    <2> QED
      BY <1>2, <2>1
         DEF Handling, SendsRun, SaveFails, RefuseBegin, RefuseEnd, Take, RunSteps, BeginSteps
  <1> QED
    BY <1>1, <1>3, <1>4, <1>5, <1>6 DEF Next, WorkerStep, WorkerFault

LEMMA StepHandling == ASSUME Known, [Next]_vars PROVE HandlingInv'
  <1> SUFFICES ASSUME Handling' PROVE RunMessages' = {} /\ Unanswered(event.put)'
    BY DEF HandlingInv
  <1>1. CASE AcceptBegin \/ AcceptEnd
    <2>1. PICK type \in RunCommands : Take(type)
      BY <1>1 DEF AcceptBegin, AcceptEnd, RunCommands
    <2>2. pc = "idle" /\ RunMessages = {} /\ Unanswered(NextItem(queue).put)
      BY <2>1, CommandTaken
    <2>3. event' = NextItem(queue) /\ UNCHANGED outbox
      BY <1>1 DEF AcceptBegin, AcceptEnd, kafkaVars
    <2>4. ~RefuseBegin /\ ~RefuseEnd /\ ~SaveFails
      BY <1>1, <2>2 DEF AcceptBegin, AcceptEnd, RefuseBegin, RefuseEnd, SaveFails, Take,
                        workerVars, Off, On
    <2>5. \A x : Unanswered(x) => Unanswered(x)'
      BY <2>2, <2>4, KeepsUnanswered
    <2> QED
      BY <2>2, <2>3, <2>5 DEF RunMessages, Unanswered, Published
  <1>2. CASE Handling /\ UNCHANGED event /\ ~SaveFails /\ ~RefuseBegin /\ ~RefuseEnd
               /\ outbox' \subseteq outbox
    <2>1. RunMessages = {} /\ Unanswered(event.put)
      BY <1>2 DEF Known, PatientInv, HandlingInv
    <2>2. \A x : Unanswered(x) => Unanswered(x)'
      BY <1>2, <2>1, KeepsUnanswered
    <2> QED
      BY <1>2, <2>1, <2>2 DEF RunMessages, Unanswered, Published
  <1> QED
    BY <1>1, <1>2, HandlingGrows

\* The producer's buffer and the reports only outlast a flush that timed out.
LEMMA StepFlush ==
  ASSUME Known, [Next]_vars, outbox' # {} \/ reports' # {}
  PROVE  pc' = "flush" \/ Happened({"timeout"})'
  <1> USE DEF workerVars, pollVars, clientVars, kafkaVars, Goto, Finish
  <1>0. TypeOK
    BY DEF Known, DeliveryInv
  <1> SUFFICES ASSUME ~Happened({"timeout"})'
               PROVE  pc' = "flush"
    OBVIOUS
  <1>1. ~Happened({"timeout"})
    BY <1>0, FaultsStay
  <1>2. ~FlushTimesOut
    BY <1>0, FaultHappened DEF FlushTimesOut
  <1>3. outbox # {} \/ reports # {} => pc = "flush"
    BY <1>1 DEF Known, PatientInv, MessagesInv
  <1>4. ~WriteFails /\ ~ProduceFails /\ ~WorkerPollFails /\ ~Expire /\ ~CrashAndRestart
    BY PatientFaults DEF Known
  <1>5. CASE Produce
    BY <1>5 DEF Produce
  <1>6. CASE Deliver \/ ServeReport
    BY <1>3, <1>6 DEF Deliver, ServeReport
  <1>7. CASE ~Produce /\ ~Deliver /\ ~ServeReport
    <2>1. UNCHANGED <<outbox, reports>>
      BY <1>2, <1>4, <1>7
         DEF Next, WorkerStep, WorkerFault, ClientRequest, RequestPut, Answer,
             TakeHardwareUpdate, RefuseBegin, AcceptBegin, RefuseEnd, AcceptEnd, TakeOther,
             BeginPause, BeginPeriod, WriteThenProduce, SetPause, SetCurrentPeriod,
             SetPeriodMode, SetIP, FlushReturns, AfterFlush, OpenStateFile, DumpState,
             SaveFails, WorkerPoll, ResendVetoes, PollRead, PollPut, vars
    <2>2. pc = "flush"
      BY <1>3, <2>1
    <2>3. ClientRequest \/ (\E q \in PutId : Answer(q)) \/ PollRead \/ PollPut \/ UNCHANGED vars
      BY <1>2, <1>4, <1>7, <2>1, <2>2
         DEF Next, WorkerStep, WorkerFault,
             TakeHardwareUpdate, RefuseBegin, AcceptBegin, RefuseEnd, AcceptEnd, TakeOther, Take,
             BeginPause, BeginPeriod, WriteThenProduce, SetPause, SetCurrentPeriod,
             SetPeriodMode, SetIP, Write, FlushReturns, OpenStateFile, DumpState,
             SaveFails, WorkerPoll, ResendVetoes
    <2> QED
      BY <2>2, <2>3 DEF ClientRequest, RequestPut, Answer, PollRead, PollPut, vars
  <1> QED
    BY <1>5, <1>6, <1>7

\* A command is sent when no other is in flight.
LEMMA StepMessages == ASSUME Known, [Next]_vars PROVE MessagesInv'
  <1> USE DEF workerVars, pollVars, clientVars, kafkaVars
  <1>0. /\ \A m, n \in RunMessages : m = n
        /\ \A m \in RunMessages : Unanswered(m.put)
    BY DEF Known, PatientInv, MessagesInv
  <1>1. outbox' # {} \/ reports' # {} => pc' = "flush" \/ Happened({"timeout"})'
    BY StepFlush
  <1>2. CASE RunMessages' = {}
    BY <1>1, <1>2 DEF MessagesInv
  <1>3. CASE Produce /\ event.type \in RunCommands
    <2>1. Handling /\ outbox' = outbox \cup {MessageOf(event)}
      BY <1>3 DEF Produce, Handling, SendsRun
    <2>2. RunMessages = {} /\ Unanswered(event.put)
      BY <2>1 DEF Known, PatientInv, HandlingInv
    <2>3. ~RefuseBegin /\ ~RefuseEnd /\ ~SaveFails
      BY <1>3 DEF Produce, RefuseBegin, RefuseEnd, Take, SaveFails
    <2>4. Unanswered(event.put)'
      <3>1. \A x : Unanswered(x) => Unanswered(x)'
        BY <2>2, <2>3, KeepsUnanswered
      <3>2. UNCHANGED event
        BY <1>3 DEF Produce, Goto
      <3> QED
        BY <2>2, <3>1, <3>2 DEF Unanswered, Published
    <2>5. \A m \in RunMessages' : m = MessageOf(event)
      BY <2>1, <2>2 DEF RunMessages
    <2>6. MessageOf(event).put = event.put /\ UNCHANGED event
      BY <1>3 DEF MessageOf, Produce, Goto
    <2>7. \A m \in RunMessages' : Unanswered(m.put)'
      BY <2>4, <2>5, <2>6 DEF Unanswered, Published
    <2> QED
      BY <1>1, <2>5, <2>7 DEF MessagesInv
  <1>4. CASE RunMessages' # {} /\ ~(Produce /\ event.type \in RunCommands)
    <2>1. RunMessages' \subseteq RunMessages
      <3>1. CASE Produce
        <4>1. event.type = "vetoes"
          BY <1>4, <3>1 DEF Produce, Known, StageInv, RunCommands
        <4> QED
          BY <3>1, <4>1 DEF Produce, MessageOf, RunMessages, RunCommands
      <3>2. CASE ~Produce
        <4>1. ~WriteFails /\ ~ProduceFails /\ ~WorkerPollFails /\ ~Expire /\ ~CrashAndRestart
          BY PatientFaults DEF Known
        <4>2. outbox' \subseteq outbox
          BY <3>2, <4>1
             DEF Next, WorkerStep, WorkerFault, ClientRequest, RequestPut, Answer,
                 TakeHardwareUpdate, RefuseBegin, AcceptBegin, RefuseEnd, AcceptEnd,
                 TakeOther, BeginPause, BeginPeriod, WriteThenProduce, SetPause,
                 SetCurrentPeriod, SetPeriodMode, SetIP, ServeReport, FlushReturns,
                 FlushTimesOut, AfterFlush, OpenStateFile, DumpState, SaveFails, WorkerPoll,
                 ResendVetoes, Deliver, PollRead, PollPut, vars
        <4> QED
          BY <4>2 DEF RunMessages
      <3> QED
        BY <3>1, <3>2
    <2>2. RunMessages # {}
      BY <1>4, <2>1
    <2>3. ~RefuseBegin /\ ~RefuseEnd
      BY <2>2, CommandTaken DEF RefuseBegin, RefuseEnd, RunCommands
    <2>4. ~SaveFails
      <3>1. outbox # {}
        BY <2>2 DEF RunMessages
      <3>2. TypeOK'
        BY StepType DEF Known, DeliveryInv
      <3> QED
        BY <3>1, <3>2, SaveFailsAlone
    <2>5. \A m \in RunMessages : m \in outbox'
      BY <1>0, <1>4, <2>1 DEF RunMessages
    <2>6. \A x : Unanswered(x) => Unanswered(x)'
      BY <2>3, <2>4, <2>5, KeepsUnanswered
    <2>7. \A m \in RunMessages' : Unanswered(m.put)'
      BY <1>0, <2>1, <2>6
    <2> QED
      BY <1>0, <1>1, <2>1, <2>7 DEF MessagesInv
  <1> QED
    BY <1>2, <1>3, <1>4
------------------------------------------------------------------------------
\* The invariant of patient clients.

LEMMA InitPatient == Assumptions /\ Init => PatientInv
  <1> SUFFICES ASSUME Assumptions, Init PROVE PatientInv
    OBVIOUS
  <1> USE DEF Init
  <1>1. queue["LOW"] = << >> /\ ~CommandQueued
    <2>1. BootQueue(NewData) \in [Priority -> Seq(Event)]
      BY BootQueueType DEF NewData, Value, Assumptions
    <2>2. queue["LOW"] = << >>
      BY DEF BootQueue, HighEvent, PutItem, EmptyQueue, Priority
    <2>3. Items(queue) \subseteq {[type |-> "set_ip", put |-> NoPut, value |-> 0],
                                  [type |-> "vetoes", put |-> NoPut, value |-> 0]}
      <3>1. NewData.vetoes = 0 /\ 0 \in Value
        BY DEF NewData, Value, Assumptions
      <3> QED
        BY <3>1, BootQueueItems
    <2>4. \A i \in 1..Len(High) : High[i] \in Items(queue)
      BY ItemsMembership DEF High, Priority
    <2> QED
      BY <2>2, <2>3, <2>4 DEF CommandQueued, RunCommands
  <1>2. LowInv /\ QueuedInv
    BY <1>1 DEF LowInv, QueuedInv
  <1>3. HandlingInv /\ MessagesInv
    BY DEF HandlingInv, Handling, SendsRun, RunSteps, BeginSteps, MessagesInv, RunMessages
  <1>4. Len(topic) = 0 /\ ~Open /\ ~Starting /\ ~Stopping /\ ~CountingEnd
    BY DEF Open, Starting, Stopping, CountingEnd
  <1>5. BoardInv
    BY <1>4 DEF BoardInv, Register, On, BeginSteps
  <1>6. CountInv
    <2>1. StopsAt = {}
      BY <1>4 DEF StopsAt
    <2> QED
      BY <1>4, <2>1, FS_EmptySet DEF CountInv, NewData
  <1>7. JobInv
    BY <1>4 DEF JobInv, BeginSteps
  <1> QED
    BY <1>2, <1>3, <1>5, <1>6, <1>7 DEF PatientInv

\* Every step keeps it.
LEMMA StepPatient ==
  ASSUME Assumptions, OneAtATime, DeliveryInv, StageInv, PatientInv, [Next]_vars
  PROVE  PatientInv'
  <1>1. Known /\ TypeOK'
    BY StepType DEF Known, DeliveryInv
  <1> QED
    BY <1>1, StepLow, StepQueued, StepHandling, StepMessages, StepTopic DEF PatientInv

------------------------------------------------------------------------------
\* The readers' view of the topic.

LEMMA ReadersView ==
  ASSUME TypeOK
  PROVE  /\ Len(RunInfoLog) = Len(topic) /\ Len(topic) \in Nat
         /\ \A i \in 1..Len(topic) : /\ RunInfoLog[i].kind = topic[i].kind
                                     /\ RunInfoLog[i].job = topic[i].job
         /\ Promised!RunIsOpen <=> Open
         /\ Open => Promised!Latest.job = topic[Len(topic)].job
         /\ Promised!StoppedRuns = Cardinality(StopsAt)
  <1>1. topic \in Seq(Message) /\ Len(topic) \in Nat
    BY DEF TypeOK
  <1>2. Len(RunInfoLog) = Len(topic)
    BY <1>1 DEF RunInfoLog
  <1>3. \A i \in 1..Len(topic) : /\ RunInfoLog[i].kind = topic[i].kind
                                 /\ RunInfoLog[i].job = topic[i].job
    BY DEF RunInfoLog
  <1>4. topic # << >> <=> Len(topic) \in 1..Len(topic)
    BY <1>1, EmptySeq
  <1>5. RunInfoLog # << >> <=> topic # << >>
    <2>1. RunInfoLog \in Seq({RunInfoLog[i] : i \in 1..Len(topic)})
      BY <1>1 DEF RunInfoLog
    <2> QED
      BY <1>1, <1>2, <2>1, EmptySeq
  <1>6. Promised!RunIsOpen <=> Open
    BY <1>2, <1>3, <1>4, <1>5 DEF Promised!RunIsOpen, Promised!Latest, Open
  <1>7. Open => Promised!Latest.job = topic[Len(topic)].job
    BY <1>2, <1>3, <1>4 DEF Promised!Latest, Open
  <1>8. Promised!StoppedRuns = Cardinality(StopsAt)
    <2>1. {i \in 1..Len(RunInfoLog) : RunInfoLog[i].kind = "stop"} = StopsAt
      BY <1>2, <1>3 DEF StopsAt
    <2> QED
      BY <2>1 DEF Promised!StoppedRuns, Promised!Cardinality, Cardinality
  <1> QED
    BY <1>1, <1>2, <1>3, <1>6, <1>7, <1>8

\* They see the broker append.
LEMMA ReadersSee ==
  ASSUME TypeOK, NEW m \in Message, topic' = Append(topic, m)
  PROVE  RunInfoLog' = Append(RunInfoLog, [kind |-> m.kind, job |-> m.job, run |-> m.run])
  <1> DEFINE view(n) == [kind |-> n.kind, job |-> n.job, run |-> n.run]
  <1>1. topic \in Seq(Message) /\ Len(topic) \in Nat
    BY DEF TypeOK
  <1>2. /\ Len(topic') = Len(topic) + 1 /\ topic'[Len(topic) + 1] = m
        /\ \A i \in 1..Len(topic) : topic'[i] = topic[i]
    BY <1>1
  <1>3. /\ RunInfoLog = [i \in 1..Len(topic) |-> view(topic[i])]
        /\ RunInfoLog' = [i \in 1..(Len(topic) + 1) |-> view(topic'[i])]
    BY <1>2 DEF RunInfoLog
  <1> HIDE DEF view
  <1>4. Len(RunInfoLog) = Len(topic)
    BY <1>1, <1>3
  <1> DEFINE Views == {view(topic[i]) : i \in 1..Len(topic)} \cup {view(m)}
  <1>5. RunInfoLog \in Seq(Views) /\ view(m) \in Views
    BY <1>1, <1>3
  <1>6. RunInfoLog' \in Seq(Views) /\ Len(RunInfoLog') = Len(topic) + 1
    <2>1. \A i \in 1..(Len(topic) + 1) : view(topic'[i]) \in Views
      BY <1>1, <1>2
    <2> HIDE DEF Views
    <2> QED
      BY <1>1, <1>3, <2>1
  <1> HIDE DEF Views
  <1>7. /\ Append(RunInfoLog, view(m)) \in Seq(Views)
        /\ Len(Append(RunInfoLog, view(m))) = Len(topic) + 1
        /\ \A i \in 1..Len(topic) : Append(RunInfoLog, view(m))[i] = RunInfoLog[i]
        /\ Append(RunInfoLog, view(m))[Len(topic) + 1] = view(m)
    BY <1>4, <1>5, AppendProperties
  <1>8. \A i \in 1..Len(RunInfoLog') : RunInfoLog'[i] = Append(RunInfoLog, view(m))[i]
    BY <1>1, <1>2, <1>3, <1>6, <1>7
  <1>9. RunInfoLog' = Append(RunInfoLog, view(m))
    BY <1>6, <1>7, <1>8, SeqEqual
  <1> QED
    BY <1>9 DEF view
\* Only the broker writes to the topic.
LEMMA OnlyTheBroker ==
  ASSUME Known, [Next]_vars, ~Deliver
  PROVE  topic' = topic
  <1> USE DEF workerVars, pollVars, clientVars, kafkaVars
  <1>1. ~WriteFails /\ ~ProduceFails /\ ~WorkerPollFails /\ ~Expire /\ ~CrashAndRestart
    BY PatientFaults DEF Known
  <1> QED
    BY <1>1
       DEF Next, WorkerStep, WorkerFault, ClientRequest, RequestPut, Answer,
           TakeHardwareUpdate, RefuseBegin, AcceptBegin, RefuseEnd, AcceptEnd, TakeOther,
           BeginPause, BeginPeriod, WriteThenProduce, SetPause, SetCurrentPeriod,
           SetPeriodMode, SetIP, Produce, ServeReport, FlushReturns, FlushTimesOut,
           AfterFlush, OpenStateFile, DumpState, SaveFails, WorkerPoll, ResendVetoes,
           PollRead, PollPut, vars

\* What it appends is the start of another run, or the stop of the one that is open.
NextStart(m) ==
    /\ m.kind = "start" /\ ~Open
    /\ m.job \in PutId /\ \A i \in 1..Len(topic) : topic[i].job # m.job
    /\ m.run = Cardinality(StopsAt)
StopOfOpen(m) ==
    /\ m.kind = "stop" /\ Open
    /\ m.job = topic[Len(topic)].job /\ m.run = 0

LEMMA BrokerAppends ==
  ASSUME Known, [Next]_vars, topic' # topic
  PROVE  \E m \in Message : topic' = Append(topic, m) /\ (NextStart(m) \/ StopOfOpen(m))
  <1>0. TypeOK /\ Deliver
    BY OnlyTheBroker DEF Known, DeliveryInv
  <1>1. PICK m \in outbox : outbox' = outbox \ {m} /\ topic' = Appended(m)
    BY <1>0 DEF Deliver
  <1>2. m \in Message /\ m.kind # "vetoes" /\ topic' = Append(topic, m)
    BY <1>0, <1>1 DEF Appended, TypeOK
  <1>3. /\ Starting <=> m.kind = "start"
        /\ Stopping <=> m.kind = "stop"
    BY <1>0, <1>1, <1>2, DeliveredAlone
  <1>4. CASE m.kind = "start"
    <2>1. ~Open
      BY <1>3, <1>4 DEF Known, PatientInv, BoardInv
    <2>2. m.job = m.put /\ m.run = data.run_number /\ ~CountingEnd
      BY <1>4 DEF Known, PatientInv, JobInv
    <2>3. m.put \in PutId /\ ~Published(m.put)
      BY <1>2 DEF Known, PatientInv, MessagesInv, RunMessages, Unanswered
    <2>4. \A i \in 1..Len(topic) : topic[i].job # m.job
      BY <2>2, <2>3 DEF Known, PatientInv, JobInv
    <2>5. m.run = Cardinality(StopsAt)
      <3>1. ~\E n \in outbox : n.kind = "stop"
        BY <1>2, <1>4 DEF Known, PatientInv, MessagesInv, RunMessages
      <3>2. Cardinality(StopsAt) \in Nat /\ data.run_number \in Nat
        BY <1>0, FS_CardinalityType DEF Known, PatientInv, CountInv, TypeOK, Data
      <3> QED
        BY <2>2, <3>1, <3>2 DEF Known, PatientInv, CountInv
    <2> QED
      BY <1>2, <1>4, <2>1, <2>2, <2>3, <2>4, <2>5 DEF NextStart
  <1>5. CASE m.kind = "stop"
    <2>1. Open
      BY <1>3, <1>5 DEF Known, PatientInv, BoardInv
    <2>2. m.job = topic[Len(topic)].job /\ m.run = 0
      BY <1>5 DEF Known, PatientInv, JobInv
    <2> QED
      BY <1>2, <1>5, <2>1, <2>2 DEF StopOfOpen
  <1> QED
    BY <1>2, <1>4, <1>5 DEF Message

\* That is a step of RunInfo.
LEMMA StepPromise ==
  ASSUME Known, [Next]_vars
  PROVE  Promised!Next \/ UNCHANGED RunInfoLog
  <1>0. TypeOK
    BY DEF Known, DeliveryInv
  <1>1. CASE topic' = topic
    BY <1>1 DEF RunInfoLog
  <1>2. CASE topic' # topic
    <2>1. PICK m \in Message : topic' = Append(topic, m) /\ (NextStart(m) \/ StopOfOpen(m))
      BY <1>2, BrokerAppends
    <2>2. RunInfoLog' = Append(RunInfoLog, [kind |-> m.kind, job |-> m.job, run |-> m.run])
      BY <1>0, <2>1, ReadersSee
    <2>3. /\ Len(RunInfoLog) = Len(topic)
          /\ \A i \in 1..Len(topic) : RunInfoLog[i].job = topic[i].job
          /\ Promised!RunIsOpen <=> Open
          /\ Open => Promised!Latest.job = topic[Len(topic)].job
          /\ Promised!StoppedRuns = Cardinality(StopsAt)
      BY <1>0, ReadersView
    <2>4. CASE NextStart(m)
      <3>1. Promised!Start(m.job)
        BY <2>2, <2>3, <2>4 DEF NextStart, Promised!Start
      <3> QED
        BY <2>4, <3>1 DEF NextStart, Promised!Next
    <2>5. CASE StopOfOpen(m)
      <3>1. Promised!Stop
        BY <2>2, <2>3, <2>5 DEF StopOfOpen, Promised!Stop
      <3> QED
        BY <3>1 DEF Promised!Next
    <2> QED
      BY <2>1, <2>4, <2>5
  <1> QED
    BY <1>1, <1>2

LEMMA InitPromise == Init => Promised!Init
  BY DEF Init, Promised!Init, RunInfoLog

\* With clients that act one at a time, what the file writers read is RunInfo:
\* runs do not overlap, no job id comes twice, every stop carries the job id of
\* the start before it, and every start the number of stops before it.  That
\* holds also when flushes time out, and when a save fails.
THEOREM TopicImplementsRunInfo ==
  ASSUME OneAtATime
  PROVE  Spec => TopicAlternates
  <1>1. Init => DeliveryInv /\ StageInv /\ PatientInv /\ Promised!Init
    BY InitDelivery, InitStage, InitPatient, InitPromise, ConstantsTyped
  <1>2. DeliveryInv /\ StageInv /\ PatientInv /\ [Next]_vars
            => DeliveryInv' /\ StageInv' /\ PatientInv'
    BY StepDelivery, StepStage, StepPatient, ConstantsTyped
  <1>3. DeliveryInv /\ StageInv /\ PatientInv /\ [Next]_vars => [Promised!Next]_RunInfoLog
    BY StepPromise, ConstantsTyped DEF Known
  <1> QED
    BY <1>1, <1>2, <1>3, PTL DEF Spec, TopicAlternates, Promised!Spec

------------------------------------------------------------------------------
\* What follows for the readers, beyond OnlySavesFailed: also when flushes time out.

\* Run numbers of starts grow with the runs that are stopped.
NumbersGrow ==
    /\ \A i \in 1..Len(topic) :
          topic[i].kind = "start" => topic[i].run <= Cardinality(StopsAt)
    /\ \A i, j \in 1..Len(topic) : Ended(i, j) => topic[i].run < Cardinality(StopsAt)
    /\ \A i, j, k \in 1..Len(topic) :
          Ended(i, j) /\ j < k /\ topic[k].kind = "start" => topic[i].run < topic[k].run

LEMMA RunsAreNumbers == TypeOK => \A i \in 1..Len(topic) : topic[i].run \in Nat
  <1>1. TypeOK => topic \in Seq(Message)
    BY DEF TypeOK
  <1>2. TypeOK => \A i \in 1..Len(topic) : topic[i] \in Message
    BY <1>1, ElementOfSeq
  <1> QED
    BY <1>2 DEF Message

LEMMA StepNumbers ==
  ASSUME Known, NumbersGrow, [Next]_vars
  PROVE  NumbersGrow'
  <1>0. TypeOK /\ IsFiniteSet(StopsAt) /\ Cardinality(StopsAt) \in Nat
    BY FS_CardinalityType DEF Known, DeliveryInv, PatientInv, CountInv
  <1>1. CASE topic' = topic
    BY <1>1 DEF NumbersGrow, StopsAt, Ended
  <1>2. CASE topic' # topic
    <2>1. PICK m \in Message : topic' = Append(topic, m) /\ (NextStart(m) \/ StopOfOpen(m))
      BY <1>2, BrokerAppends
    <2>2. /\ Len(topic) \in Nat
          /\ \A i \in 1..Len(topic) : i \in 1..Len(topic') /\ topic'[i] = topic[i]
          /\ \A i \in 1..Len(topic') :
                i \notin 1..Len(topic) => i = Len(topic) + 1 /\ topic'[i] = m
      BY <1>0, <2>1, TopicGrows
    <2>3. /\ m.kind # "stop" => UNCHANGED StopsAt
          /\ m.kind = "stop" => Cardinality(StopsAt') = Cardinality(StopsAt) + 1
      BY <1>0, <2>1, TopicAppended
    <2>4. \A i \in 1..Len(topic) : topic[i].run \in Nat
      BY <1>0, RunsAreNumbers
    <2>5. ASSUME NEW i \in 1..Len(topic'), topic'[i].kind = "start"
          PROVE  topic'[i].run <= Cardinality(StopsAt')
      <3>1. CASE i \in 1..Len(topic)
        <4>1. topic[i].run <= Cardinality(StopsAt) /\ topic'[i] = topic[i]
          BY <2>2, <2>5, <3>1 DEF NumbersGrow
        <4> QED
          BY <1>0, <2>1, <2>3, <2>4, <3>1, <4>1 DEF NextStart, StopOfOpen
      <3>2. CASE i \notin 1..Len(topic)
        <4>1. topic'[i] = m /\ m.run = Cardinality(StopsAt) /\ m.kind # "stop"
          BY <2>1, <2>2, <2>5, <3>2 DEF NextStart, StopOfOpen
        <4> QED
          BY <1>0, <2>3, <4>1
      <3> QED
        BY <3>1, <3>2
    <2>6. ASSUME NEW i \in 1..Len(topic'), NEW j \in 1..Len(topic'), Ended(i, j)'
          PROVE  topic'[i].run < Cardinality(StopsAt')
      <3>1. i \in 1..Len(topic) /\ i < j /\ topic'[i] = topic[i] /\ topic[i].kind = "start"
        BY <2>2, <2>6 DEF Ended
      <3>2. CASE j \in 1..Len(topic)
        <4>1. Ended(i, j)
          BY <2>2, <2>6, <3>1, <3>2 DEF Ended
        <4>2. topic[i].run < Cardinality(StopsAt)
          BY <3>1, <3>2, <4>1 DEF NumbersGrow
        <4> QED
          BY <1>0, <2>1, <2>3, <2>4, <3>1, <4>2 DEF NextStart, StopOfOpen
      <3>3. CASE j \notin 1..Len(topic)
        <4>1. m.kind = "stop"
          BY <2>2, <2>6, <3>3 DEF Ended
        <4>2. topic[i].run <= Cardinality(StopsAt)
          BY <3>1 DEF NumbersGrow
        <4> QED
          BY <1>0, <2>3, <2>4, <3>1, <4>1, <4>2
      <3> QED
        BY <3>2, <3>3
    <2>7. ASSUME NEW i \in 1..Len(topic'), NEW j \in 1..Len(topic'), NEW k \in 1..Len(topic'),
                 Ended(i, j)', j < k, topic'[k].kind = "start"
          PROVE  topic'[i].run < topic'[k].run
      <3>1. /\ i \in 1..Len(topic) /\ j \in 1..Len(topic)
            /\ Ended(i, j) /\ topic'[i] = topic[i]
        BY <2>2, <2>7 DEF Ended
      <3>2. CASE k \in 1..Len(topic)
        BY <2>2, <2>7, <3>1, <3>2 DEF NumbersGrow
      <3>3. CASE k \notin 1..Len(topic)
        <4>1. topic'[k] = m /\ m.run = Cardinality(StopsAt)
          BY <2>1, <2>2, <2>7, <3>3 DEF NextStart, StopOfOpen
        <4> QED
          BY <3>1, <4>1 DEF NumbersGrow
      <3> QED
        BY <3>2, <3>3
    <2> QED
      BY <2>5, <2>6, <2>7 DEF NumbersGrow
  <1> QED
    BY <1>1, <1>2

LEMMA StepNames ==
  ASSUME Known, StopsNameStarts, [Next]_vars
  PROVE  StopsNameStarts'
  <1>0. TypeOK
    BY DEF Known, DeliveryInv
  <1>1. CASE topic' = topic
    BY <1>1 DEF StopsNameStarts
  <1>2. CASE topic' # topic
    <2>1. PICK m \in Message : topic' = Append(topic, m) /\ (NextStart(m) \/ StopOfOpen(m))
      BY <1>2, BrokerAppends
    <2>2. /\ Len(topic) \in Nat
          /\ \A i \in 1..Len(topic) : i \in 1..Len(topic') /\ topic'[i] = topic[i]
          /\ \A i \in 1..Len(topic') :
                i \notin 1..Len(topic) => i = Len(topic) + 1 /\ topic'[i] = m
      BY <1>0, <2>1, TopicGrows
    <2> SUFFICES ASSUME NEW i \in 1..Len(topic'), topic'[i].kind = "stop"
                 PROVE  \E j \in 1..(i - 1) : /\ topic'[j].kind = "start"
                                              /\ topic'[j].job = topic'[i].job
      BY DEF StopsNameStarts
    <2>3. CASE i \in 1..Len(topic)
      BY <2>2, <2>3 DEF StopsNameStarts
    <2>4. CASE i \notin 1..Len(topic)
      <3>1. i = Len(topic) + 1 /\ topic'[i] = m
        BY <2>2, <2>4
      <3>2. Open /\ m.job = topic[Len(topic)].job
        BY <2>1, <3>1 DEF NextStart, StopOfOpen
      <3>3. Len(topic) \in 1..Len(topic)
        BY <1>0, <3>2, EmptySeq DEF Open, TypeOK
      <3>4. topic'[Len(topic)].kind = "start" /\ topic'[Len(topic)].job = topic'[i].job
        BY <2>2, <3>1, <3>2, <3>3 DEF Open
      <3> QED
        BY <2>2, <3>1, <3>3, <3>4
    <2> QED
      BY <2>3, <2>4
  <1> QED
    BY <1>1, <1>2

\* A file writer can trust job ids and run numbers also when flushes time out,
\* as long as clients act one at a time: a stop names the job of a start before
\* it, and the number of a stopped run is not used again.
THEOREM RunsKeepTheirIdentity ==
  ASSUME OneAtATime
  PROVE  Spec => [](StopsNameStarts /\ StoppedNumbersStay)
  <1>1. Init => DeliveryInv /\ StageInv /\ PatientInv
    BY InitDelivery, InitStage, InitPatient, ConstantsTyped
  <1>2. Init => NumbersGrow /\ StopsNameStarts
    BY DEF Init, NumbersGrow, StopsNameStarts
  <1>3. /\ DeliveryInv /\ StageInv /\ PatientInv /\ NumbersGrow /\ StopsNameStarts
        /\ [Next]_vars
        => /\ DeliveryInv' /\ StageInv' /\ PatientInv'
           /\ NumbersGrow' /\ StopsNameStarts'
    BY StepDelivery, StepStage, StepPatient, StepNumbers, StepNames, ConstantsTyped DEF Known
  <1>4. DeliveryInv /\ NumbersGrow => StoppedNumbersStay
    <2> SUFFICES ASSUME DeliveryInv, NumbersGrow PROVE StoppedNumbersStay
      OBVIOUS
    <2>1. \A i \in 1..Len(topic) : topic[i].run \in Nat
      BY RunsAreNumbers DEF DeliveryInv
    <2>2. \A i, j, k \in 1..Len(topic) :
              Ended(i, j) /\ j < k /\ topic[k].kind = "start" => topic[k].run # topic[i].run
      BY <2>1 DEF NumbersGrow
    <2> QED
      BY <2>2 DEF StoppedNumbersStay, Ended
  <1> QED
    BY <1>1, <1>2, <1>3, <1>4, PTL DEF Spec
=============================================================================
