--------------------------- MODULE RunStateProofs ---------------------------
(***************************************************************************)
(* What RunControl keeps in step, for every value of its constants: the    *)
(* state file and memory, the board and the veto configuration, the job    *)
(* ids and run numbers of starts and stops.                                *)
(***************************************************************************)
EXTENDS RunControlProofs

USE DEF On, Off, NoPut, NoJob

\* Where a handler is tells of what kind its event is.
StageInv ==
    /\ pc \in {"begin_pause", "begin_period", "begin_run", "resend"} => event.type = "begin"
    /\ pc = "end_run" => event.type = "end"
    /\ pc = "vetoes" => event.type = "vetoes"
    /\ pc \in {"produce", "flush", "open", "dump"} => event.type \in {"begin", "end", "vetoes"}
    /\ pc = "poll" => event.type \in RunCommands

LEMMA InitStage == Init => StageInv
  BY DEF Init, StageInv

\* Every step keeps the stage of the handler.
LEMMA StepStage == StageInv /\ [Next]_vars => StageInv'
  <1> SUFFICES ASSUME StageInv, [Next]_vars PROVE StageInv'
    OBVIOUS
  <1> USE DEF workerVars, Goto, Finish, StageInv, RunCommands
  <1>1. CASE \/ ClientRequest \/ (\E p \in PutId : Answer(p)) \/ ServeReport
             \/ Deliver \/ Expire \/ PollRead \/ PollPut \/ UNCHANGED vars
    <2>1. UNCHANGED <<pc, event>>
      BY <1>1 DEF ClientRequest, RequestPut, Answer, ServeReport, Deliver, Expire, PollRead,
                  PollPut, vars
    <2> QED
      BY <2>1
  <1>2. CASE TakeHardwareUpdate \/ RefuseBegin \/ AcceptBegin \/ RefuseEnd \/ AcceptEnd
               \/ TakeOther
    <2>1. \/ pc' = "idle"
          \/ pc' = "begin_pause" /\ event'.type = "begin"
          \/ pc' = "end_run" /\ event'.type = "end"
          \/ pc' \in {"pause", "current_period", "period_mode", "set_ip"}
          \/ pc' = "vetoes" /\ event'.type = "vetoes"
      BY <1>2 DEF TakeHardwareUpdate, RefuseBegin, AcceptBegin, RefuseEnd, AcceptEnd,
                  TakeOther, Take
    <2> QED
      BY <2>1
  <1>3. CASE BeginPause \/ BeginPeriod \/ WriteThenProduce \/ Produce \/ FlushReturns
               \/ FlushTimesOut \/ OpenStateFile \/ DumpState \/ WorkerPoll
               \/ WorkerPollFails
    BY <1>3 DEF BeginPause, BeginPeriod, WriteThenProduce, Write, Produce, FlushReturns,
                FlushTimesOut, AfterFlush, OpenStateFile, DumpState, WorkerPoll,
                WorkerPollFails, AfterPoll
  <1>4. CASE \/ SetPause \/ SetCurrentPeriod \/ SetPeriodMode \/ SetIP \/ ResendVetoes
             \/ WriteFails \/ ProduceFails \/ SaveFails \/ CrashAndRestart
    <2>1. pc' \in {"idle", "dead"}
      BY <1>4 DEF SetPause, SetCurrentPeriod, SetPeriodMode, SetIP, ResendVetoes, WriteFails,
                  ProduceFails, SaveFails, Raise, CrashAndRestart
    <2> QED
      BY <2>1
  <1> QED
    BY <1>1, <1>2, <1>3, <1>4 DEF Next, WorkerStep, WorkerFault

\* A fault is remembered, and so are those before it.
LEMMA FaultHappened ==
  ASSUME TypeOK, NEW kinds
  PROVE  /\ \A kind : Fault(kind) => /\ Happened(kinds) => Happened(kinds)'
                                     /\ kind \in kinds => Happened(kinds)'
         /\ UNCHANGED faults => (Happened(kinds)' <=> Happened(kinds))
  <1>1. ASSUME NEW kind, Fault(kind)
        PROVE  /\ Happened(kinds) => Happened(kinds)'
               /\ kind \in kinds => Happened(kinds)'
    <2>1. faults' = Append(faults, kind) /\ faults \in Seq(FaultKinds) /\ kind \in FaultKinds
      BY <1>1 DEF Fault, TypeOK
    <2>2. /\ Len(faults') = Len(faults) + 1 /\ Len(faults) \in Nat
          /\ faults'[Len(faults) + 1] = kind
          /\ \A i \in 1..Len(faults) : faults'[i] = faults[i]
      BY <2>1
    <2> QED
      BY <2>2 DEF Happened
  <1> QED
    BY <1>1 DEF Happened

\* No step takes a fault back.
LEMMA FaultsStay ==
  ASSUME TypeOK, [Next]_vars, NEW kinds, ~Happened(kinds)'
  PROVE  ~Happened(kinds)
  <1>1. UNCHANGED faults \/ \E kind : Fault(kind)
    BY DEF Next, WorkerStep, WorkerFault, ClientRequest, RequestPut, Answer,
           TakeHardwareUpdate, RefuseBegin, AcceptBegin, RefuseEnd, AcceptEnd, TakeOther,
           BeginPause, BeginPeriod, WriteThenProduce, SetPause, SetCurrentPeriod,
           SetPeriodMode, SetIP, Produce, ServeReport, FlushReturns, OpenStateFile,
           DumpState, WorkerPoll, ResendVetoes, WriteFails, ProduceFails, FlushTimesOut,
           SaveFails, WorkerPollFails, Deliver, Expire, PollRead, PollPut, CrashAndRestart,
           vars
  <1> QED
    BY <1>1, FaultHappened

------------------------------------------------------------------------------
\* Between two events the state file has what the worker has in memory.
\*
\* The three saved fields change at different steps of a handler: job_id when a
\* begin is accepted, run_number and vetoes after the flush.  The invariant says
\* at which steps the file may lag behind, and when it may be torn.

DiskKinds == {"comms", "produce", "disk"}

Unsaved == {"begin_pause", "begin_period", "begin_run", "produce", "flush", "open",
            "dump", "dead"}

FileInv ==
    /\ stateFile.status = "torn" => pc \in {"dump", "dead"}
    /\ pc \notin Unsaved => stateFile.job_id = data.job_id
    /\ pc \notin {"open", "dump", "dead"} =>
          stateFile.run_number = data.run_number /\ stateFile.vetoes = data.vetoes

DiskInv == ~Happened(DiskKinds) => FileInv

LEMMA InitDisk == Init => DiskInv
  BY DEF Init, DiskInv, FileInv, NoFile, NewData, Unsaved

\* What a handler changes in data besides the saved fields leaves the file as it is.
LEMMA FileUntouched ==
  ASSUME FileInv, UNCHANGED stateFile,
         data'.job_id = data.job_id, data'.run_number = data.run_number,
         data'.vetoes = data.vetoes,
         \/ pc' = pc
         \/ pc \notin Unsaved /\ pc' # "dead"
         \/ pc \in {"begin_pause", "begin_period", "begin_run", "produce"}
              /\ pc' \in {"begin_period", "begin_run", "produce", "flush"}
  PROVE  FileInv'
  BY DEF FileInv, Unsaved

\* Without faults of the board, of the producer or of the disk a handler ends
\* with its save.
LEMMA StepDisk == TypeOK /\ DiskInv /\ [Next]_vars => DiskInv'
  <1> SUFFICES ASSUME TypeOK, DiskInv, [Next]_vars, ~Happened(DiskKinds)'
               PROVE  FileInv'
    BY DEF DiskInv
  <1> USE DEF workerVars, Goto, Finish
  <1>1. FileInv
    BY FaultsStay DEF DiskInv
  <1>2. \A kind \in DiskKinds : ~Fault(kind)
    BY FaultHappened
  <1>3. CASE \/ ClientRequest \/ (\E p \in PutId : Answer(p)) \/ ServeReport
             \/ Deliver \/ Expire \/ PollRead \/ PollPut \/ UNCHANGED vars
    <2>1. UNCHANGED <<pc, stateFile, data>>
      BY <1>3 DEF ClientRequest, RequestPut, Answer, ServeReport, Deliver, Expire, PollRead,
                  PollPut, vars
    <2> QED
      BY <1>1, <2>1, FileUntouched
  <1>4. CASE TakeHardwareUpdate \/ RefuseBegin \/ RefuseEnd \/ AcceptEnd \/ TakeOther
    <2>1. /\ UNCHANGED stateFile /\ data'.job_id = data.job_id
          /\ data'.run_number = data.run_number /\ data'.vetoes = data.vetoes
      BY <1>4 DEF TakeHardwareUpdate, RefuseBegin, RefuseEnd, AcceptEnd, TakeOther, TypeOK,
                  Data
    <2>2. pc = "idle" /\ pc' # "dead"
      BY <1>4 DEF TakeHardwareUpdate, RefuseBegin, RefuseEnd, AcceptEnd, TakeOther, Take
    <2> QED
      BY <1>1, <2>1, <2>2, FileUntouched DEF Unsaved
  <1>5. CASE AcceptBegin
    <2>1. /\ UNCHANGED stateFile /\ pc = "idle" /\ pc' = "begin_pause"
          /\ data'.run_number = data.run_number /\ data'.vetoes = data.vetoes
      BY <1>5 DEF AcceptBegin, Take, TypeOK, Data
    <2> QED
      BY <1>1, <2>1 DEF FileInv, Unsaved
  <1>6. CASE \/ BeginPause \/ BeginPeriod \/ WriteThenProduce \/ SetPause
             \/ SetCurrentPeriod \/ SetPeriodMode \/ SetIP \/ Produce \/ WorkerPoll
             \/ WorkerPollFails \/ ResendVetoes
    <2>1. /\ UNCHANGED stateFile /\ data'.job_id = data.job_id
          /\ data'.run_number = data.run_number /\ data'.vetoes = data.vetoes
      BY <1>6 DEF BeginPause, BeginPeriod, WriteThenProduce, SetPause, SetCurrentPeriod,
                  SetPeriodMode, SetIP, Produce, WorkerPoll, WorkerPollFails, ResendVetoes,
                  TypeOK, Data
    <2>2. \/ pc \notin Unsaved /\ pc' # "dead"
          \/ pc \in {"begin_pause", "begin_period", "begin_run", "produce"}
               /\ pc' \in {"begin_period", "begin_run", "produce", "flush"}
      BY <1>6 DEF BeginPause, BeginPeriod, WriteThenProduce, SetPause, SetCurrentPeriod,
                  SetPeriodMode, SetIP, Produce, WorkerPoll, WorkerPollFails, ResendVetoes,
                  Write, AfterPoll, Unsaved
    <2> QED
      BY <1>1, <2>1, <2>2, FileUntouched
  <1>7. CASE FlushReturns \/ FlushTimesOut
    <2>1. pc = "flush" /\ pc' = "open" /\ UNCHANGED stateFile
      BY <1>7 DEF FlushReturns, FlushTimesOut, AfterFlush
    <2> QED
      BY <1>1, <2>1 DEF FileInv, Unsaved
  <1>8. CASE OpenStateFile
    BY <1>8 DEF OpenStateFile, FileInv, Unsaved
  <1>9. CASE DumpState
    <2>1. stateFile' = Saved(data) /\ data' = data
      BY <1>9 DEF DumpState
    <2> QED
      BY <2>1 DEF FileInv, Saved
  <1>10. CASE WriteFails \/ ProduceFails \/ SaveFails
    BY <1>2, <1>10 DEF WriteFails, ProduceFails, SaveFails, DiskKinds
  <1>11. CASE CrashAndRestart
    <2>1. CASE stateFile.status = "torn"
      BY <1>11, <2>1 DEF CrashAndRestart, FileInv, Unsaved
    <2>2. CASE stateFile.status # "torn"
      <3>1. stateFile' = stateFile /\ pc' = "idle" /\ data' = Loaded(stateFile)
        BY <1>11, <2>2 DEF CrashAndRestart
      <3> QED
        BY <2>2, <3>1 DEF FileInv, Loaded, NewData
    <2> QED
      BY <2>1, <2>2
  <1> QED
    BY <1>3, <1>4, <1>5, <1>6, <1>7, <1>8, <1>9, <1>10, <1>11
       DEF Next, WorkerStep, WorkerFault

\* Whatever crashes and restarts there were, at any step of any handler: unless
\* the board, the producer or the disk has failed before, the file lags behind
\* memory only while the event that changed it is on its way to its save, and
\* is torn only while it is being written (save_file) or once the IOC has died
\* then.
THEOREM FileIsUpToDate == Spec => []DiskTracksMemory
  <1>1. DiskInv => DiskTracksMemory
    BY DEF DiskInv, FileInv, DiskTracksMemory, DiskKinds, Unsaved
  <1> QED
    BY <1>1, InitDisk, StepDisk, TypeCorrect, PTL DEF Spec

------------------------------------------------------------------------------
\* The board has the veto configuration the worker holds.
\*
\* When a handler, a crash or a restart has left them different, a veto event is
\* waiting at HIGH or being handled, and handling it makes them agree.

VetoKinds == {"comms", "produce"}

High == queue["HIGH"]
VetoesQueued == \E i \in 1..Len(High) : High[i].type = "vetoes"
SendingVetoes == pc \in {"produce", "flush"} /\ event.type = "vetoes"

MaskInv ==
    /\ SendingVetoes => board.vetoes_mask = event.value
    /\ \/ VetoesQueued
       \/ SendingVetoes \/ pc \in {"vetoes", "dead"}
       \/ board.vetoes_mask = data.vetoes

VetoesInv == ~Happened(VetoKinds) => MaskInv

\* A process starts with the veto configuration in its queue.
LEMMA BootQueueSendsVetoes ==
  ASSUME NEW d
  PROVE  /\ Len(BootQueue(d)["HIGH"]) = 2
         /\ BootQueue(d)["HIGH"][2].type = "vetoes"
  <1> DEFINE second == [type |-> "vetoes", put |-> NoPut, value |-> d.vetoes]
             one == HighEvent(EmptyQueue, "set_ip", NoPut, 0)["HIGH"]
  <1>1. second.type = "vetoes" /\ BootQueue(d)["HIGH"] = Append(one, second)
    BY DEF BootQueue, HighEvent, PutItem, EmptyQueue, Priority
  <1>2. \E S : one \in Seq(S) /\ second \in S /\ Len(one) = 1
    <2> DEFINE first == [type |-> "set_ip", put |-> NoPut, value |-> 0]
    <2>1. one = Append(<< >>, first)
      BY DEF HighEvent, PutItem, EmptyQueue, Priority
    <2> HIDE DEF first, second, one
    <2>2. Append(<< >>, first) \in Seq({first, second}) /\ Len(Append(<< >>, first)) = 1
      OBVIOUS
    <2> QED
      BY <2>1, <2>2
  <1> HIDE DEF one, second
  <1>3. PICK S : one \in Seq(S) /\ second \in S /\ Len(one) = 1
    BY <1>2
  <1>4. Len(Append(one, second)) = 2 /\ Append(one, second)[2] = second
    BY <1>3, AppendProperties
  <1> QED
    BY <1>1, <1>4

LEMMA InitVetoes == Init => VetoesInv
  BY DEF Init, VetoesInv, MaskInv, SendingVetoes, NewData, Register

\* Putting an item keeps a veto event waiting.
LEMMA PutKeepsVetoes ==
  ASSUME TypeOK, VetoesQueued, NEW pr \in Priority, NEW e, queue' = PutItem(queue, pr, e)
  PROVE  VetoesQueued'
  <1>1. High \in Seq(Event) /\ (High' = High \/ High' = Append(High, e))
    BY DEF TypeOK, PutItem, High, Priority
  <1>2. PICK i \in 1..Len(High) : High[i].type = "vetoes"
    BY DEF VetoesQueued
  <1>3. i \in 1..Len(High') /\ High'[i] = High[i]
    BY <1>1, <1>2
  <1> QED
    BY <1>2, <1>3 DEF VetoesQueued

\* Taking an event of another kind keeps a veto event waiting.
LEMMA TakeKeepsVetoes ==
  ASSUME TypeOK, VetoesQueued, NEW type, Take(type), type # "vetoes"
  PROVE  VetoesQueued'
  <1>1. PICK i \in 1..Len(High) : High[i].type = "vetoes"
    BY DEF VetoesQueued
  <1>2. High \in Seq(Event) /\ High # << >>
    BY <1>1 DEF TypeOK, Priority, High
  <1>3. NextItem(queue) = Head(High) /\ High' = Tail(High)
    BY <1>2 DEF Take, TypeOK, NextItem, NextPriority, WithoutNext, Priority, High
  <1>4. High[1].type # "vetoes"
    BY <1>2, <1>3, HeadTailProperties DEF Take
  <1>5. i # 1
    BY <1>1, <1>4
  <1>6. i - 1 \in 1..Len(High') /\ High'[i - 1] = High[i]
    BY <1>1, <1>2, <1>3, <1>5, HeadTailProperties
  <1> QED
    BY <1>1, <1>6 DEF VetoesQueued

\* A step that keeps the masks apart only while a veto event is there.
LEMMA MaskUntouched ==
  ASSUME MaskInv, board'.vetoes_mask = board.vetoes_mask, data'.vetoes = data.vetoes,
         VetoesQueued => VetoesQueued', pc \notin {"vetoes", "dead"}, ~SendingVetoes,
         ~SendingVetoes'
  PROVE  MaskInv'
  BY DEF MaskInv

\* Without faults of the board or of the producer the handler of a veto event
\* makes board and data agree.
LEMMA StepVetoes == TypeOK /\ StageInv /\ VetoesInv /\ [Next]_vars => VetoesInv'
  <1> SUFFICES ASSUME TypeOK, StageInv, VetoesInv, [Next]_vars, ~Happened(VetoKinds)'
               PROVE  MaskInv'
    BY DEF VetoesInv
  <1> USE DEF workerVars, Goto, Finish
  <1>1. MaskInv
    BY FaultsStay DEF VetoesInv
  <1>2. \A kind \in VetoKinds : ~Fault(kind)
    BY FaultHappened
  <1>3. "HIGH" \in Priority /\ "LOW" \in Priority
    BY DEF Priority
  <1>4. CASE \/ ClientRequest \/ (\E p \in PutId : Answer(p)) \/ ServeReport
             \/ Deliver \/ Expire \/ PollRead \/ PollPut \/ UNCHANGED vars
    <2>1. UNCHANGED <<pc, event, data, board>>
      BY <1>4 DEF ClientRequest, RequestPut, Answer, ServeReport, Deliver, Expire, PollRead,
                  PollPut, vars
    <2>2. UNCHANGED queue \/ \E pr \in Priority : \E e : queue' = PutItem(queue, pr, e)
      BY <1>3, <1>4 DEF ClientRequest, RequestPut, Answer, ServeReport, Deliver, Expire,
                  PollRead, PollPut, HighEvent, vars
    <2>3. VetoesQueued => VetoesQueued'
      BY <2>2, PutKeepsVetoes DEF VetoesQueued, High
    <2> QED
      BY <1>1, <2>1, <2>3 DEF MaskInv, SendingVetoes
  <1>5. CASE TakeHardwareUpdate \/ RefuseBegin \/ AcceptBegin \/ RefuseEnd \/ AcceptEnd
    <2>1. /\ pc = "idle" /\ pc' \in {"idle", "begin_pause", "end_run"}
          /\ UNCHANGED board /\ data'.vetoes = data.vetoes
      BY <1>5 DEF TakeHardwareUpdate, RefuseBegin, AcceptBegin, RefuseEnd, AcceptEnd, Take,
                  TypeOK, Data
    <2>2. \E type \in EventTypes \ {"vetoes"} : Take(type)
      BY <1>5 DEF TakeHardwareUpdate, RefuseBegin, AcceptBegin, RefuseEnd, AcceptEnd,
                  EventTypes, ClientTypes, RunCommands
    <2>3. VetoesQueued => VetoesQueued'
      BY <2>2, TakeKeepsVetoes
    <2> QED
      BY <1>1, <2>1, <2>3, MaskUntouched DEF SendingVetoes
  <1>6. CASE TakeOther
    <2>1. PICK type \in {"pause", "current_period", "period_mode", "vetoes", "set_ip"} :
              Take(type) /\ pc' = type /\ UNCHANGED <<board, data>>
      BY <1>6 DEF TakeOther
    <2>2. CASE type = "vetoes"
      BY <2>1, <2>2 DEF MaskInv, SendingVetoes
    <2>3. CASE type # "vetoes"
      <3>1. VetoesQueued => VetoesQueued'
        BY <2>1, <2>3, TakeKeepsVetoes
      <3> QED
        BY <1>1, <2>1, <2>3, <3>1, MaskUntouched DEF SendingVetoes, Take
    <2> QED
      BY <2>2, <2>3
  <1>7. CASE WriteThenProduce /\ pc = "vetoes"
    <2>1. /\ board' = [board EXCEPT !["vetoes_mask"] = event.value]
          /\ event' = event /\ event.type = "vetoes" /\ pc' = "produce"
      BY <1>7 DEF WriteThenProduce, Write, RegisterOf, WrittenValue, StageInv
    <2>2. board'.vetoes_mask = event.value
      BY <2>1 DEF TypeOK, Register
    <2> QED
      BY <2>1, <2>2 DEF MaskInv, SendingVetoes
  <1>8. CASE \/ BeginPause \/ BeginPeriod \/ SetPause \/ SetCurrentPeriod \/ SetPeriodMode
             \/ WriteThenProduce /\ pc # "vetoes"
    <2>1. /\ pc \in WriteSteps \ {"vetoes"} /\ UNCHANGED queue
          /\ board' = [board EXCEPT ![RegisterOf[pc]] = WrittenValue]
          /\ data'.vetoes = data.vetoes
      BY <1>8 DEF BeginPause, BeginPeriod, SetPause, SetCurrentPeriod, SetPeriodMode,
                  WriteThenProduce, Write, WriteSteps, RegisterOf, TypeOK, Data
    <2>2. board'.vetoes_mask = board.vetoes_mask
      <3>1. RegisterOf[pc] # "vetoes_mask"
        BY <2>1 DEF RegisterOf, WriteSteps
      <3> QED
        BY <2>1, <3>1 DEF TypeOK, Register
    <2>3. ~SendingVetoes'
      BY <1>8 DEF BeginPause, BeginPeriod, SetPause, SetCurrentPeriod, SetPeriodMode,
                  WriteThenProduce, Write, SendingVetoes, StageInv
    <2> QED
      BY <1>1, <2>1, <2>2, <2>3, MaskUntouched
         DEF SendingVetoes, VetoesQueued, High, WriteSteps, RegisterOf
  <1>9. CASE Produce
    BY <1>1, <1>9 DEF Produce, MaskInv, SendingVetoes, VetoesQueued, High
  <1>10. CASE FlushReturns \/ FlushTimesOut
    <2>1. /\ pc = "flush" /\ pc' = "open" /\ UNCHANGED <<board, queue>>
          /\ data'.vetoes = IF event.type = "vetoes" THEN event.value ELSE data.vetoes
      BY <1>10 DEF FlushReturns, FlushTimesOut, AfterFlush, TypeOK, Data
    <2>2. CASE event.type = "vetoes"
      BY <1>1, <2>1, <2>2 DEF MaskInv, SendingVetoes
    <2>3. CASE event.type # "vetoes"
      BY <1>1, <2>1, <2>3, MaskUntouched DEF SendingVetoes, VetoesQueued, High
    <2> QED
      BY <2>2, <2>3
  <1>11. CASE SetIP \/ OpenStateFile \/ DumpState \/ SaveFails \/ WorkerPoll
                \/ WorkerPollFails \/ ResendVetoes
    <2>1. /\ UNCHANGED <<board, data>>
          /\ pc \in {"set_ip", "open", "dump", "poll", "resend"}
          /\ pc' \in {"idle", "dump", "poll", "resend"}
      BY <1>11 DEF SetIP, OpenStateFile, DumpState, SaveFails, Raise, WorkerPoll,
                   WorkerPollFails, AfterPoll, ResendVetoes
    <2>2. UNCHANGED queue \/ \E e : queue' = PutItem(queue, "HIGH", e)
      BY <1>11 DEF SetIP, OpenStateFile, DumpState, SaveFails, WorkerPoll,
                   WorkerPollFails, ResendVetoes, HighEvent
    <2>3. VetoesQueued => VetoesQueued'
      BY <1>3, <2>2, PutKeepsVetoes DEF VetoesQueued, High
    <2> QED
      BY <1>1, <2>1, <2>3, MaskUntouched DEF SendingVetoes
  <1>12. CASE WriteFails \/ ProduceFails
    BY <1>2, <1>12 DEF WriteFails, ProduceFails, VetoKinds
  <1>13. CASE CrashAndRestart
    <2>1. pc' = "dead" \/ (pc' = "idle" /\ queue' = BootQueue(data'))
      BY <1>13 DEF CrashAndRestart
    <2>2. pc' # "dead" => VetoesQueued'
      BY <2>1, BootQueueSendsVetoes DEF VetoesQueued, High
    <2> QED
      BY <2>1, <2>2 DEF MaskInv, SendingVetoes
  <1> QED
    BY <1>4, <1>5, <1>6, <1>7, <1>8, <1>9, <1>10, <1>11, <1>12, <1>13
       DEF Next, WorkerStep, WorkerFault

\* However veto changes, resends of begins, failing saves and restarts follow one
\* another: unless the board or the producer has failed before, the board has the
\* vetoes of data whenever none are on their way.
THEOREM BoardHasTheVetoes == Spec => []VetoesAgree
  <1>1. VetoesInv => VetoesAgree
    BY DEF VetoesInv, MaskInv, VetoesAgree, VetoKinds, VetoesQueued, SendingVetoes, High
  <1>2. TypeOK /\ StageInv /\ VetoesInv /\ [Next]_vars => VetoesInv'
    BY StepVetoes
  <1>3. StageInv /\ [Next]_vars => StageInv'
    BY StepStage
  <1> QED
    BY <1>1, <1>2, <1>3, InitVetoes, InitStage, TypeCorrect, PTL DEF Spec

------------------------------------------------------------------------------
\* Stops name started runs, and run numbers are not used again.
\*
\* This is about steps of different clients' commands, which queue up in any
\* order.  It needs every register write, produce and flush of a begin to
\* succeed, and no crash, so far: the file may fail at any time.

LEMMA OnlyDiskFaults ==
  ASSUME TypeOK, OnlySavesFailed'
  PROVE  /\ ~WriteFails /\ ~ProduceFails /\ ~FlushTimesOut /\ ~WorkerPollFails
         /\ ~Expire /\ ~CrashAndRestart
  <1>1. \A kind \in Faults \ {"disk"} : ~Fault(kind)
    BY FaultHappened DEF OnlySavesFailed
  <1>2. {"comms", "produce", "timeout", "delivery", "crash"} \subseteq Faults \ {"disk"}
    BY DEF Faults
  <1> QED
    BY <1>1, <1>2 DEF WriteFails, ProduceFails, FlushTimesOut, WorkerPollFails, Expire,
                      CrashAndRestart

BeginSteps == {"begin_pause", "begin_period", "begin_run"}

\* That a run is, or was at some time, seen by the board or by those who read it.
UpdateSeen == \E e \in Items(queue) : e.type = "hardware_update" /\ e.value = On
RunSeen == board.run_register = On \/ data.running = On \/ pollValue = On \/ UpdateSeen

BeginPutInv == \A e \in Items(queue) : e.type = "begin" => e.put \in PutId

\* Nothing looks like a run, and nothing is ended, before the first begin.
SeenInv ==
    RunSeen \/ pc \in BeginSteps \/ event.type = "end" => data.job_id # NoJob

\* What a step adds to the queue.
LEMMA StepItems ==
  ASSUME Assumptions, OnlySavesFailed', TypeOK, [Next]_vars
  PROVE  \A e \in Items(queue') :
            \/ e \in Items(queue)
            \/ e.type \in ClientTypes /\ e.put \in PutId
            \/ e.type = "vetoes"
            \/ e.type = "hardware_update" /\ e.value \in {board.run_register, pollValue}
  <1> DEFINE Added(e) == \/ e.type \in ClientTypes /\ e.put \in PutId
                         \/ e.type = "vetoes"
                         \/ e.type = "hardware_update"
                              /\ e.value \in {board.run_register, pollValue}
  <1> USE DEF workerVars, pollVars, clientVars, kafkaVars
  <1>1. \/ UNCHANGED queue
        \/ ~IsEmpty(queue) /\ queue' = WithoutNext(queue)
        \/ \E pr \in Priority : \E e \in Event : Added(e) /\ queue' = PutItem(queue, pr, e)
    <2>1. CASE ClientRequest
      <3>1. PICK p \in PutId, r \in Requests : RequestPut(p, r)
        BY <2>1 DEF ClientRequest
      <3> DEFINE e == [type |-> r.type, put |-> p, value |-> r.value]
      <3>2. r.type \in ClientTypes /\ r.value \in Value
        BY DEF Assumptions
      <3>3. CASE r.type = "current_period" /\ r.value < 1
        BY <3>1, <3>3 DEF RequestPut
      <3>4. CASE ~(r.type = "current_period" /\ r.value < 1)
        <4>1. queue' = PutItem(queue, "HIGH", e)
          BY <3>1, <3>4 DEF RequestPut, HighEvent
        <4>2. e \in Event
          BY <3>2, <3>4 DEF Event, EventTypes, Value, Assumptions
        <4>3. e.type \in ClientTypes /\ e.put \in PutId
          BY <3>2
        <4> QED
          BY <4>1, <4>2, <4>3 DEF Priority
      <3> QED
        BY <3>3, <3>4
    <2>2. CASE TakeHardwareUpdate \/ RefuseBegin \/ AcceptBegin \/ RefuseEnd \/ AcceptEnd
                 \/ TakeOther
      BY <2>2 DEF TakeHardwareUpdate, RefuseBegin, AcceptBegin, RefuseEnd, AcceptEnd,
                  TakeOther, Take
    <2>3. CASE WorkerPoll \/ PollPut
      <3>1. PICK v \in {board.run_register, pollValue}, pr \in Priority :
                queue' = PutItem(queue, pr,
                           [type |-> "hardware_update", put |-> NoPut, value |-> v])
        BY <2>3 DEF WorkerPoll, PollPut, HighEvent, Priority
      <3> DEFINE e == [type |-> "hardware_update", put |-> NoPut, value |-> v]
      <3>2. e \in Event
        BY UpdateType DEF TypeOK, Register
      <3>3. e.type = "hardware_update" /\ e.value = v
        OBVIOUS
      <3> HIDE DEF e
      <3> QED
        BY <3>1, <3>2, <3>3 DEF e
    <2>4. CASE ResendVetoes
      <3> DEFINE e == [type |-> "vetoes", put |-> NoPut, value |-> data.vetoes]
      <3>1. queue' = PutItem(queue, "HIGH", e)
        BY <2>4 DEF ResendVetoes, HighEvent
      <3>2. e \in Event /\ e.type = "vetoes"
        BY DEF Event, EventTypes, ClientTypes, TypeOK, Data
      <3> QED
        BY <3>1, <3>2 DEF Priority
    <2>5. CASE \/ (\E p \in PutId : Answer(p)) \/ ServeReport \/ Deliver \/ PollRead
               \/ BeginPause \/ BeginPeriod \/ WriteThenProduce \/ SetPause
               \/ SetCurrentPeriod \/ SetPeriodMode \/ SetIP \/ Produce \/ FlushReturns
               \/ OpenStateFile \/ DumpState \/ SaveFails \/ UNCHANGED vars
      BY <2>5 DEF Answer, ServeReport, Deliver, PollRead, BeginPause, BeginPeriod,
                  WriteThenProduce, SetPause, SetCurrentPeriod, SetPeriodMode, SetIP,
                  Produce, FlushReturns, AfterFlush, OpenStateFile, DumpState, SaveFails,
                  vars
    <2> QED
      BY <2>1, <2>2, <2>3, <2>4, <2>5, OnlyDiskFaults DEF Next, WorkerStep, WorkerFault
  <1>2. queue \in [Priority -> Seq(Event)]
    BY DEF TypeOK
  <1> HIDE DEF Added
  <1>3. \A e \in Items(queue') : e \in Items(queue) \/ Added(e)
    BY <1>1, <1>2, PutItemItems, TakeItemItems
  <1> QED
    BY <1>3 DEF Added

\* The two events a process starts with are neither begins nor updates.
LEMMA InitSeen == Init => BeginPutInv /\ SeenInv
  <1> SUFFICES ASSUME Init PROVE BeginPutInv /\ SeenInv
    OBVIOUS
  <1>1. \A e \in Items(queue) : e.type \in {"set_ip", "vetoes"}
    <2>1. 0 \in Value /\ NewData.vetoes = 0
      BY ConstantsTyped DEF NewData, Value, Assumptions
    <2>2. Items(queue) \subseteq {[type |-> "set_ip", put |-> NoPut, value |-> 0],
                                  [type |-> "vetoes", put |-> NoPut, value |-> 0]}
      BY <2>1, ConstantsTyped, BootQueueItems DEF Init
    <2> QED
      BY <2>2
  <1>2. ~UpdateSeen /\ BeginPutInv
    BY <1>1 DEF UpdateSeen, BeginPutInv
  <1>3. /\ board.run_register = 0 /\ data.running = 0 /\ pollValue = 0
        /\ pc = "idle" /\ event.type = "set_ip"
    BY DEF Init, NewData, NoEvent, Register
  <1> QED
    BY <1>2, <1>3 DEF SeenInv, RunSeen, BeginSteps

\* Every queued begin is a client's.
LEMMA StepBeginPut ==
  ASSUME Assumptions, OnlySavesFailed', TypeOK, BeginPutInv, [Next]_vars
  PROVE  BeginPutInv'
  <1> SUFFICES ASSUME NEW e \in Items(queue'), e.type = "begin" PROVE e.put \in PutId
    BY DEF BeginPutInv, PutId
  <1> QED
    BY StepItems DEF BeginPutInv

\* The job id is that of a client's begin once there has been one.
LEMMA StepJob ==
  ASSUME Assumptions, OnlySavesFailed', TypeOK, BeginPutInv, [Next]_vars
  PROVE  \/ data'.job_id = data.job_id /\ ~AcceptBegin
         \/ AcceptBegin /\ data'.job_id \in PutId /\ data'.job_id # NoJob
  <1> USE DEF workerVars, pollVars, clientVars, kafkaVars
  <1>1. CASE AcceptBegin
    <2>1. NextItem(queue).put \in PutId
      BY <1>1, TakeItemItems DEF AcceptBegin, Take, BeginPutInv, TypeOK
    <2>2. data'.job_id = NextItem(queue).put
      BY <1>1 DEF AcceptBegin, TypeOK, Data
    <2> QED
      BY <1>1, <2>1, <2>2 DEF PutId
  <1>2. CASE ~AcceptBegin
    <2>1. \/ UNCHANGED data
          \/ TakeHardwareUpdate \/ BeginPause \/ BeginPeriod \/ SetPause
          \/ SetCurrentPeriod \/ SetPeriodMode \/ FlushReturns
      BY <1>2, OnlyDiskFaults
         DEF Next, WorkerStep, WorkerFault, ClientRequest, RequestPut, Answer, RefuseBegin,
             RefuseEnd, AcceptEnd, TakeOther, WriteThenProduce, SetIP, Produce, ServeReport,
             OpenStateFile, DumpState, WorkerPoll, ResendVetoes, SaveFails, Deliver,
             PollRead, PollPut, vars
    <2>2. data'.job_id = data.job_id
      BY <2>1 DEF TakeHardwareUpdate, BeginPause, BeginPeriod, SetPause, SetCurrentPeriod,
                  SetPeriodMode, FlushReturns, AfterFlush, TypeOK, Data
    <2> QED
      BY <1>2, <2>2
  <1> QED
    BY <1>1, <1>2

\* What is seen of runs comes from a begin: the run bit is set by handle_begin only.
LEMMA StepSeen ==
  ASSUME Assumptions, OnlySavesFailed', TypeOK, BeginPutInv, SeenInv, [Next]_vars
  PROVE  SeenInv'
  <1> SUFFICES ASSUME data.job_id = NoJob, data'.job_id = data.job_id, ~AcceptBegin
               PROVE  ~RunSeen' /\ pc' \notin BeginSteps /\ event'.type # "end"
    BY StepJob DEF SeenInv
  <1> USE DEF workerVars, pollVars, clientVars, kafkaVars, Goto, Finish
  <1>1. ~RunSeen /\ pc \notin BeginSteps /\ event.type # "end"
    BY DEF SeenInv
  <1>2. ~UpdateSeen'
    <2> SUFFICES ASSUME NEW e \in Items(queue'), e.type = "hardware_update", e.value = On
                 PROVE  FALSE
      BY DEF UpdateSeen
    <2>1. e \notin Items(queue)
      BY <1>1 DEF RunSeen, UpdateSeen
    <2> QED
      BY <1>1, <2>1, StepItems DEF RunSeen, ClientTypes, RunCommands
  <1>3. pollValue' # On
    <2>1. pollValue' \in {pollValue, Off, board.run_register}
      BY OnlyDiskFaults
         DEF Next, WorkerStep, WorkerFault, ClientRequest, RequestPut, Answer,
             TakeHardwareUpdate, RefuseBegin, AcceptBegin, RefuseEnd, AcceptEnd, TakeOther,
             BeginPause, BeginPeriod, WriteThenProduce, SetPause, SetCurrentPeriod,
             SetPeriodMode, SetIP, Produce, ServeReport, FlushReturns, AfterFlush,
             OpenStateFile, DumpState, WorkerPoll, ResendVetoes, SaveFails, Deliver,
             PollRead, PollPut, vars
    <2> QED
      BY <1>1, <2>1 DEF RunSeen
  <1>4. CASE TakeHardwareUpdate
    <2>1. NextItem(queue) \in Items(queue) /\ NextItem(queue).type = "hardware_update"
      BY <1>4, TakeItemItems DEF TakeHardwareUpdate, Take, TypeOK
    <2>2. data'.running # On
      BY <1>1, <1>4, <2>1 DEF TakeHardwareUpdate, TypeOK, Data, RunSeen, UpdateSeen
    <2> QED
      BY <1>1, <1>2, <1>3, <1>4, <2>2 DEF TakeHardwareUpdate, RunSeen
  <1>5. CASE RefuseBegin \/ RefuseEnd \/ AcceptEnd \/ TakeOther
    BY <1>1, <1>2, <1>3, <1>5
       DEF RefuseBegin, RefuseEnd, AcceptEnd, TakeOther, Take, RunSeen, BeginSteps
  <1>6. CASE BeginPause \/ BeginPeriod \/ WriteThenProduce \/ SetPause \/ SetCurrentPeriod
               \/ SetPeriodMode
    <2>1. /\ pc \in WriteSteps
          /\ board' = [board EXCEPT ![RegisterOf[pc]] = WrittenValue]
          /\ pc' \in {"idle", "produce"} /\ event' \in {event, NoEvent}
      BY <1>1, <1>6 DEF BeginPause, BeginPeriod, WriteThenProduce, SetPause,
                        SetCurrentPeriod, SetPeriodMode, Write, WriteSteps, RegisterOf,
                        BeginSteps
    <2>2. board'.run_register # On
      <3>1. RegisterOf[pc] = "run_register" => pc = "end_run"
        BY <1>1, <2>1 DEF RegisterOf, WriteSteps, BeginSteps
      <3>2. pc = "end_run" => WrittenValue = 0
        BY DEF WrittenValue
      <3> QED
        BY <1>1, <2>1, <3>1, <3>2 DEF TypeOK, Register, RunSeen
    <2>3. data'.running = data.running
      BY <1>6 DEF BeginPause, BeginPeriod, WriteThenProduce, SetPause,
                  SetCurrentPeriod, SetPeriodMode, TypeOK, Data
    <2> QED
      BY <1>1, <1>2, <1>3, <2>1, <2>2, <2>3 DEF RunSeen, NoEvent, BeginSteps
  <1>7. CASE FlushReturns
    BY <1>1, <1>2, <1>3, <1>7 DEF FlushReturns, AfterFlush, TypeOK, Data, RunSeen, BeginSteps
  <1>8. CASE SetIP \/ Produce \/ OpenStateFile \/ DumpState \/ SaveFails \/ WorkerPoll
               \/ ResendVetoes
    <2>1. /\ UNCHANGED <<board, data>> /\ event' \in {event, NoEvent}
          /\ pc' \in {"idle", "flush", "dump", "poll", "resend"}
      BY <1>8 DEF SetIP, Produce, OpenStateFile, DumpState, SaveFails, Raise, WorkerPoll,
                  AfterPoll, ResendVetoes
    <2> QED
      BY <1>1, <1>2, <1>3, <2>1 DEF RunSeen, NoEvent, BeginSteps
  <1>9. CASE \/ ClientRequest \/ (\E p \in PutId : Answer(p)) \/ ServeReport \/ Deliver
             \/ PollRead \/ PollPut \/ UNCHANGED vars
    <2>1. UNCHANGED <<board, data, pc, event>>
      BY <1>9 DEF ClientRequest, RequestPut, Answer, ServeReport, Deliver, PollRead,
                  PollPut, vars
    <2> QED
      BY <1>1, <1>2, <1>3, <2>1 DEF RunSeen
  <1> QED
    BY <1>4, <1>5, <1>6, <1>7, <1>8, <1>9, OnlyDiskFaults DEF Next, WorkerStep, WorkerFault

\* The message of the handler in its flush is the only one in flight; a begin is
\* started, in the topic, or its message is still to come.
Started(job) == \E i \in 1..Len(topic) : topic[i].kind = "start" /\ topic[i].job = job

BeginIsAhead ==
    \/ pc \in BeginSteps
    \/ event.type = "begin" /\ (pc = "produce" \/ (pc = "flush" /\ outbox # {}))

SendInv ==
    /\ outbox # {} => pc = "flush"
    /\ outbox \subseteq {MessageOf(event)}

StartInv == data.job_id # NoJob => Started(data.job_id) \/ BeginIsAhead

\* The run numbers of starts grow from one stopped run to the next, and that of
\* data is beyond them as soon as the handler of the stop has counted it.
Ended(i, j) == i < j /\ topic[i].kind = "start" /\ topic[j].kind = "stop"

CountingEnd == pc = "flush" /\ event.type = "end"

NumberInv ==
    /\ \A i \in 1..Len(topic) : topic[i].kind = "start" => topic[i].run <= data.run_number
    /\ \A i, j \in 1..Len(topic) :
          Ended(i, j) => topic[i].run < data.run_number \/ CountingEnd
    /\ \A i, j, k \in 1..Len(topic) :
          Ended(i, j) /\ j < k /\ topic[k].kind = "start" => topic[i].run < topic[k].run

IdentityInv ==
    /\ BeginPutInv /\ SeenInv
    /\ SendInv /\ StartInv
    /\ StopsNameStarts
    /\ NumberInv

LEMMA InitIdentity == Init => IdentityInv
  BY InitSeen DEF Init, IdentityInv, SendInv, StartInv, NewData, StopsNameStarts,
                  NumberInv

\* A delivery ends the flight of that message.
LEMMA DeliverAppends ==
  ASSUME TypeOK, StageInv, SendInv, Deliver
  PROVE  /\ pc = "flush" /\ UNCHANGED <<pc, event, data>>
         /\ outbox' = {} /\ MessageOf(event) \in Message
         /\ \/ event.type \in RunCommands /\ topic' = Append(topic, MessageOf(event))
            \/ event.type = "vetoes" /\ topic' = topic
  <1>1. PICK message \in outbox : outbox' = outbox \ {message} /\ topic' = Appended(message)
    BY DEF Deliver
  <1>2. pc = "flush" /\ message = MessageOf(event) /\ outbox' = {}
    BY <1>1 DEF SendInv
  <1>3. event.type \in {"begin", "end", "vetoes"} /\ message \in Message
    BY <1>2 DEF StageInv, TypeOK
  <1>4. event.type = "vetoes" <=> message.kind = "vetoes"
    BY <1>2, <1>3 DEF MessageOf
  <1> QED
    BY <1>1, <1>2, <1>3, <1>4 DEF Deliver, Appended, RunCommands, workerVars

\* Only a delivery changes the topic, and only a flush that has nothing left in
\* flight changes the run number.
LEMMA OtherSteps ==
  ASSUME OnlySavesFailed', TypeOK, StageInv, SendInv, [Next]_vars, ~Deliver
  PROVE  /\ topic' = topic
         /\ \/ data'.run_number = data.run_number /\ (CountingEnd => CountingEnd')
            \/ CountingEnd /\ data'.run_number = data.run_number + 1
  <1> USE DEF workerVars, pollVars, clientVars, kafkaVars, Goto, Finish
  <1>1. topic' = topic
    BY OnlyDiskFaults
       DEF Next, WorkerStep, WorkerFault, ClientRequest, RequestPut, Answer,
           TakeHardwareUpdate, RefuseBegin, AcceptBegin, RefuseEnd, AcceptEnd, TakeOther,
           BeginPause, BeginPeriod, WriteThenProduce, SetPause, SetCurrentPeriod,
           SetPeriodMode, SetIP, Produce, ServeReport, FlushReturns, AfterFlush,
           OpenStateFile, DumpState, WorkerPoll, ResendVetoes, SaveFails,
           PollRead, PollPut, vars
  <1>2. CASE FlushReturns
    BY <1>1, <1>2 DEF FlushReturns, AfterFlush, TypeOK, Data, CountingEnd
  <1>3. CASE \/ ClientRequest \/ (\E p \in PutId : Answer(p)) \/ ServeReport
             \/ PollRead \/ PollPut \/ UNCHANGED vars
    <2>1. UNCHANGED <<pc, event, data>>
      BY <1>3 DEF ClientRequest, RequestPut, Answer, ServeReport, PollRead, PollPut, vars
    <2> QED
      BY <1>1, <2>1 DEF CountingEnd
  <1>4. CASE \/ TakeHardwareUpdate \/ RefuseBegin \/ AcceptBegin \/ RefuseEnd \/ AcceptEnd
             \/ TakeOther \/ BeginPause \/ BeginPeriod \/ WriteThenProduce \/ SetPause
             \/ SetCurrentPeriod \/ SetPeriodMode \/ SetIP \/ Produce
             \/ OpenStateFile \/ DumpState \/ WorkerPoll \/ ResendVetoes \/ SaveFails
    <2>1. pc # "flush"
      BY <1>4 DEF TakeHardwareUpdate, RefuseBegin, AcceptBegin, RefuseEnd, AcceptEnd,
                  TakeOther, Take, BeginPause, BeginPeriod, WriteThenProduce, SetPause,
                  SetCurrentPeriod, SetPeriodMode, Write, SetIP, Produce, OpenStateFile,
                  DumpState, WorkerPoll, ResendVetoes, SaveFails
    <2>2. data'.run_number = data.run_number
      BY <1>4 DEF TakeHardwareUpdate, RefuseBegin, AcceptBegin, RefuseEnd, AcceptEnd,
                  TakeOther, BeginPause, BeginPeriod, WriteThenProduce, SetPause,
                  SetCurrentPeriod, SetPeriodMode, SetIP, Produce, OpenStateFile,
                  DumpState, WorkerPoll, ResendVetoes, SaveFails, TypeOK, Data
    <2> QED
      BY <1>1, <2>1, <2>2 DEF CountingEnd
  <1> QED
    BY <1>2, <1>3, <1>4, OnlyDiskFaults DEF Next, WorkerStep, WorkerFault

\* The worker starts a flush with nothing else in flight.
LEMMA StepSend ==
  ASSUME OnlySavesFailed', TypeOK, StageInv, SendInv, [Next]_vars
  PROVE  SendInv'
  <1> USE DEF workerVars, pollVars, clientVars, kafkaVars, Goto, Finish
  <1>1. CASE Deliver
    BY <1>1, DeliverAppends DEF SendInv
  <1>2. CASE \/ ClientRequest \/ (\E p \in PutId : Answer(p)) \/ ServeReport
             \/ PollRead \/ PollPut \/ UNCHANGED vars
    <2>1. UNCHANGED <<pc, event, data, outbox>>
      BY <1>2 DEF ClientRequest, RequestPut, Answer, ServeReport, PollRead, PollPut, vars
    <2> QED
      BY <2>1 DEF SendInv, MessageOf
  <1>3. CASE Produce
    <2>1. outbox = {} /\ pc' = "flush" /\ UNCHANGED <<event, data>>
          /\ outbox' = {MessageOf(event)}
      BY <1>3 DEF Produce, SendInv
    <2>2. MessageOf(event)' = MessageOf(event)
      BY <2>1 DEF MessageOf
    <2> QED
      BY <2>1, <2>2 DEF SendInv
  <1>4. CASE \/ TakeHardwareUpdate \/ RefuseBegin \/ AcceptBegin \/ RefuseEnd \/ AcceptEnd
             \/ TakeOther \/ BeginPause \/ BeginPeriod \/ WriteThenProduce \/ SetPause
             \/ SetCurrentPeriod \/ SetPeriodMode \/ SetIP \/ FlushReturns
             \/ OpenStateFile \/ DumpState \/ WorkerPoll \/ ResendVetoes \/ SaveFails
    <2>1. UNCHANGED outbox /\ (pc # "flush" \/ outbox = {})
      BY <1>4 DEF TakeHardwareUpdate, RefuseBegin, AcceptBegin, RefuseEnd, AcceptEnd,
                  TakeOther, Take, BeginPause, BeginPeriod, WriteThenProduce, SetPause,
                  SetCurrentPeriod, SetPeriodMode, Write, SetIP, FlushReturns, AfterFlush,
                  OpenStateFile, DumpState, WorkerPoll, ResendVetoes, SaveFails
    <2> QED
      BY <2>1 DEF SendInv
  <1> QED
    BY <1>1, <1>2, <1>3, <1>4, OnlyDiskFaults DEF Next, WorkerStep, WorkerFault

\* What is in the topic stays there, at its place.
LEMMA TopicGrows ==
  ASSUME TypeOK, NEW m \in Message, topic' = topic \/ topic' = Append(topic, m)
  PROVE  /\ Len(topic) \in Nat
         /\ \A i \in 1..Len(topic) : i \in 1..Len(topic') /\ topic'[i] = topic[i]
         /\ \A i \in 1..Len(topic') : i \notin 1..Len(topic) =>
               i = Len(topic) + 1 /\ topic' = Append(topic, m) /\ topic'[i] = m
         /\ topic' = Append(topic, m) => /\ topic'[Len(topic) + 1] = m
                                        /\ Len(topic) + 1 \in 1..Len(topic')
  <1>1. topic \in Seq(Message) /\ Len(topic) \in Nat
    BY DEF TypeOK
  <1>2. CASE topic' = topic
    <2>1. topic' = Append(topic, m) => FALSE
      BY <1>1, <1>2, AppendProperties
    <2> QED
      BY <1>1, <1>2, <2>1
  <1>3. CASE topic' = Append(topic, m)
    BY <1>1, <1>3, AppendProperties
  <1> QED
    BY <1>2, <1>3

\* The job id is that of a run start from when its message is delivered.
LEMMA StepStart ==
  ASSUME Assumptions, OnlySavesFailed', TypeOK, StageInv, BeginPutInv, SendInv, StartInv,
         [Next]_vars
  PROVE  StartInv'
  <1> USE DEF workerVars, pollVars, clientVars, kafkaVars, Goto, Finish
  <1>1. CASE Deliver
    <2>1. MessageOf(event) \in Message /\ UNCHANGED <<pc, event, data>>
          /\ (topic' = topic \/ topic' = Append(topic, MessageOf(event)))
      BY <1>1, DeliverAppends
    <2>2. Started(data.job_id) => Started(data.job_id)'
      BY <2>1, TopicGrows DEF Started
    <2>3. CASE event.type = "begin"
      <3>1. topic' = Append(topic, MessageOf(event))
        BY <1>1, <2>3, DeliverAppends DEF RunCommands
      <3>2. MessageOf(event).kind = "start" /\ MessageOf(event).job = data.job_id
        BY <2>3 DEF MessageOf, RunCommands
      <3>3. Started(data.job_id)'
        BY <2>1, <3>1, <3>2, TopicGrows DEF Started
      <3> QED
        BY <2>1, <3>3 DEF StartInv
    <2>4. CASE event.type # "begin"
      BY <2>1, <2>2, <2>4, <1>1, DeliverAppends DEF StartInv, BeginIsAhead, BeginSteps
    <2> QED
      BY <2>3, <2>4
  <1>2. CASE AcceptBegin
    BY <1>2 DEF AcceptBegin, StartInv, BeginIsAhead, BeginSteps
  <1>3. CASE ~Deliver /\ ~AcceptBegin
    <2>1. data'.job_id = data.job_id /\ topic' = topic
      BY <1>3, StepJob, OtherSteps
    <2>2. BeginIsAhead => BeginIsAhead'
      <3>1. CASE \/ ClientRequest \/ (\E p \in PutId : Answer(p)) \/ ServeReport
                 \/ PollRead \/ PollPut \/ UNCHANGED vars
        <4>1. UNCHANGED <<pc, event, outbox>>
          BY <3>1 DEF ClientRequest, RequestPut, Answer, ServeReport, PollRead, PollPut, vars
        <4> QED
          BY <4>1 DEF BeginIsAhead
      <3>2. CASE BeginPause \/ BeginPeriod \/ WriteThenProduce \/ Produce \/ FlushReturns
        BY <3>2 DEF BeginPause, BeginPeriod, WriteThenProduce, Write, Produce,
                    FlushReturns, AfterFlush, BeginIsAhead, BeginSteps, StageInv
      <3>3. CASE \/ TakeHardwareUpdate \/ RefuseBegin \/ RefuseEnd \/ AcceptEnd
                 \/ TakeOther \/ SetPause \/ SetCurrentPeriod \/ SetPeriodMode \/ SetIP
                 \/ OpenStateFile \/ DumpState \/ WorkerPoll \/ ResendVetoes \/ SaveFails
        BY <3>3 DEF TakeHardwareUpdate, RefuseBegin, RefuseEnd, AcceptEnd, TakeOther, Take,
                    SetPause, SetCurrentPeriod, SetPeriodMode, Write, SetIP,
                    OpenStateFile, DumpState, WorkerPoll, ResendVetoes, SaveFails,
                    BeginIsAhead, BeginSteps
      <3> QED
        BY <1>3, <3>1, <3>2, <3>3, OnlyDiskFaults DEF Next, WorkerStep, WorkerFault
    <2> QED
      BY <2>1, <2>2 DEF StartInv, Started
  <1> QED
    BY <1>1, <1>2, <1>3

\* A stop is delivered after the start it names.
LEMMA StepStop ==
  ASSUME OnlySavesFailed', TypeOK, StageInv, SeenInv, SendInv, StartInv, StopsNameStarts,
         [Next]_vars
  PROVE  StopsNameStarts'
  <1>1. CASE ~Deliver
    BY <1>1, OtherSteps DEF StopsNameStarts
  <1>2. CASE Deliver
    <2> DEFINE m == MessageOf(event)
    <2>1. /\ pc = "flush" /\ m \in Message
          /\ \/ event.type \in RunCommands /\ topic' = Append(topic, m)
             \/ topic' = topic
      BY <1>2, DeliverAppends
    <2>2. m.kind = "stop" => Started(m.job)
      <3> SUFFICES ASSUME m.kind = "stop" PROVE Started(m.job)
        OBVIOUS
      <3>1. event.type = "end" /\ m.job = data.job_id
        BY <1>2, DeliverAppends DEF MessageOf, RunCommands, StageInv
      <3> QED
        BY <2>1, <3>1 DEF SeenInv, StartInv, BeginIsAhead, BeginSteps
    <2> HIDE DEF m
    <2>3. SUFFICES ASSUME NEW i \in 1..Len(topic'), topic'[i].kind = "stop"
                   PROVE  \E j \in 1..(i - 1) :
                              topic'[j].kind = "start" /\ topic'[j].job = topic'[i].job
      BY DEF StopsNameStarts
    <2>4. CASE i \in 1..Len(topic)
      <3>1. PICK j \in 1..(i - 1) : topic[j].kind = "start" /\ topic[j].job = topic[i].job
        BY <2>1, <2>3, <2>4, TopicGrows DEF StopsNameStarts
      <3>2. j \in 1..Len(topic)
        BY <2>1, <2>4, <3>1, TopicGrows
      <3> QED
        BY <2>1, <2>4, <3>1, <3>2, TopicGrows
    <2>5. CASE i \notin 1..Len(topic)
      <3>1. i = Len(topic) + 1 /\ topic'[i] = m
        BY <2>1, <2>5, TopicGrows
      <3>2. PICK j \in 1..Len(topic) : topic[j].kind = "start" /\ topic[j].job = m.job
        BY <2>2, <2>3, <3>1 DEF Started
      <3>3. j \in 1..(i - 1) /\ topic'[j] = topic[j]
        BY <2>1, <3>1, <3>2, TopicGrows
      <3> QED
        BY <3>1, <3>2, <3>3
    <2> QED
      BY <2>4, <2>5
  <1> QED
    BY <1>1, <1>2

LEMMA RunNumberTypes ==
  ASSUME TypeOK
  PROVE  data.run_number \in Nat /\ \A i \in 1..Len(topic) : topic[i].run \in Nat
  <1>1. data.run_number \in Nat
    BY DEF TypeOK, Data
  <1>2. ASSUME NEW i \in 1..Len(topic) PROVE topic[i].run \in Nat
    <2>1. topic[i] \in Message
      BY DEF TypeOK
    <2> QED
      BY <2>1 DEF Message
  <1> QED
    BY <1>1, <1>2

\* Run numbers grow: a start is delivered with the number of data, which counts
\* every stop before it.
LEMMA StepNumber ==
  ASSUME OnlySavesFailed', TypeOK, StageInv, SendInv, NumberInv, [Next]_vars
  PROVE  NumberInv'
  <1>0. data.run_number \in Nat /\ \A i \in 1..Len(topic) : topic[i].run \in Nat
    BY RunNumberTypes
  <1>1. CASE ~Deliver
    <2>1. topic' = topic
      BY <1>1, OtherSteps
    <2>2. CASE data'.run_number = data.run_number /\ (CountingEnd => CountingEnd')
      BY <2>1, <2>2 DEF NumberInv, Ended
    <2>3. CASE CountingEnd /\ data'.run_number = data.run_number + 1
      <3>1. \A i \in 1..Len(topic) :
                topic[i].kind = "start" => topic[i].run < data'.run_number
        BY <1>0, <2>3 DEF NumberInv
      <3> QED
        BY <1>0, <2>1, <2>3, <3>1 DEF NumberInv, Ended
    <2> QED
      BY <1>1, <2>2, <2>3, OtherSteps
  <1>2. CASE Deliver
    <2> DEFINE m == MessageOf(event)
               n == Len(topic) + 1
    <2>1. /\ pc = "flush" /\ UNCHANGED <<pc, event, data>> /\ m \in Message
          /\ \/ event.type \in RunCommands /\ topic' = Append(topic, m)
             \/ topic' = topic
      BY <1>2, DeliverAppends
    <2>2. CASE topic' = topic
      BY <2>1, <2>2 DEF NumberInv, Ended, CountingEnd
    <2>3. CASE event.type \in RunCommands /\ topic' = Append(topic, m)
      <3>1. /\ m.kind = "start" => m.run = data.run_number /\ ~CountingEnd
            /\ m.kind = "stop" => CountingEnd
        BY <2>1, <2>3 DEF MessageOf, RunCommands, CountingEnd
      <3> HIDE DEF m
      <3>2. /\ n \in Nat /\ 1..Len(topic') = 1..n /\ topic'[n] = m
            /\ \A i \in 1..Len(topic') : i # n => i \in 1..Len(topic) /\ topic'[i] = topic[i]
        <4>1. topic \in Seq(Message) /\ Len(topic) \in Nat
          BY DEF TypeOK
        <4> QED
          BY <2>1, <2>3, <4>1, AppendProperties
      <3>3. CountingEnd' <=> CountingEnd
        BY <2>1 DEF CountingEnd
      <3>4. \A i \in 1..Len(topic') :
                topic'[i].kind = "start" => topic'[i].run <= data'.run_number
        BY <1>0, <2>1, <3>1, <3>2 DEF NumberInv
      <3>5. ASSUME NEW i \in 1..Len(topic'), NEW j \in 1..Len(topic'), Ended(i, j)'
            PROVE  /\ i # n /\ i \in 1..Len(topic) /\ topic'[i] = topic[i]
                   /\ topic'[i].run < data'.run_number \/ CountingEnd'
                   /\ j # n => Ended(i, j)
        <4>1. i < j /\ topic'[i].kind = "start" /\ topic'[j].kind = "stop"
          BY <3>5 DEF Ended
        <4>2. i # n /\ i \in 1..Len(topic) /\ topic'[i] = topic[i]
          BY <3>2, <4>1
        <4>3. CASE j = n
          BY <3>1, <3>2, <3>3, <4>1, <4>2, <4>3
        <4>4. CASE j # n
          <5>1. j \in 1..Len(topic) /\ Ended(i, j)
            BY <3>2, <4>1, <4>2, <4>4 DEF Ended
          <5> QED
            BY <2>1, <3>3, <4>2, <5>1 DEF NumberInv
        <4> QED
          BY <4>2, <4>3, <4>4
      <3>6. ASSUME NEW i \in 1..Len(topic'), NEW j \in 1..Len(topic'),
                   NEW k \in 1..Len(topic'), Ended(i, j)', j < k, topic'[k].kind = "start"
            PROVE  topic'[i].run < topic'[k].run
        <4>1. j # n /\ j \in 1..Len(topic)
          BY <3>2, <3>6
        <4>2. i \in 1..Len(topic) /\ topic'[i] = topic[i] /\ Ended(i, j)
          BY <3>5, <3>6, <4>1
        <4>3. CASE k = n
          <5>1. m.run = data.run_number /\ ~CountingEnd
            BY <3>1, <3>2, <3>6, <4>3
          <5> QED
            BY <3>2, <4>1, <4>2, <4>3, <5>1 DEF NumberInv
        <4>4. CASE k # n
          <5>1. k \in 1..Len(topic) /\ topic'[k] = topic[k]
            BY <3>2, <4>4
          <5> QED
            BY <3>6, <4>1, <4>2, <5>1 DEF NumberInv
        <4> QED
          BY <4>3, <4>4
      <3> QED
        BY <3>4, <3>5, <3>6 DEF NumberInv
    <2> QED
      BY <2>1, <2>2, <2>3
  <1> QED
    BY <1>1, <1>2

\* Every step keeps identities in step.
LEMMA StepIdentity ==
  ASSUME TypeOK, StageInv, OnlySavesFailed => IdentityInv, [Next]_vars
  PROVE  (OnlySavesFailed => IdentityInv)'
  <1> SUFFICES ASSUME OnlySavesFailed' PROVE IdentityInv'
    OBVIOUS
  <1>0. IdentityInv
    BY FaultsStay DEF OnlySavesFailed
  <1> USE DEF IdentityInv
  <1>1. BeginPutInv' /\ SeenInv'
    BY <1>0, ConstantsTyped, StepBeginPut, StepSeen
  <1>2. SendInv' /\ StartInv'
    BY <1>0, ConstantsTyped, StepSend, StepStart
  <1>3. StopsNameStarts' /\ NumberInv'
    BY <1>0, StepStop, StepNumber
  <1> QED
    BY <1>1, <1>2, <1>3

LEMMA IdentitiesKept == Spec => [](OnlySavesFailed => IdentityInv)
  <1>1. TypeOK /\ StageInv /\ (OnlySavesFailed => IdentityInv) /\ [Next]_vars
        => (OnlySavesFailed => IdentityInv)'
    BY StepIdentity
  <1>2. StageInv /\ [Next]_vars => StageInv'
    BY StepStage
  <1> QED
    BY <1>1, <1>2, InitIdentity, InitStage, TypeCorrect, PTL DEF Spec

\* However many clients put begins and ends at once, and whichever saves fail:
\* every run stop names the job of a run start before it.
THEOREM StopsNameStartedRuns == Spec => []StopNamesAStartedRun
  <1>1. (OnlySavesFailed => IdentityInv) => StopNamesAStartedRun
    BY DEF IdentityInv, StopNamesAStartedRun
  <1> QED
    BY <1>1, IdentitiesKept, PTL

\* And no run start after a run stop carries the run number of the stopped run.
THEOREM RunNumbersAreNotReused == Spec => []StoppedRunNumberNotReused
  <1>1. TypeOK /\ (OnlySavesFailed => IdentityInv) => StoppedRunNumberNotReused
    <2> SUFFICES ASSUME TypeOK, NumberInv,
                        NEW i \in 1..Len(topic), NEW j \in 1..Len(topic),
                        NEW k \in 1..Len(topic),
                        i < j, j < k, topic[i].kind = "start", topic[j].kind = "stop",
                        topic[k].kind = "start"
                 PROVE  topic[k].run # topic[i].run
      BY DEF IdentityInv, StoppedRunNumberNotReused, StoppedNumbersStay
    <2>1. topic[i].run < topic[k].run
      BY DEF NumberInv, Ended
    <2>2. topic[i].run \in Nat /\ topic[k].run \in Nat
      BY RunNumberTypes
    <2> QED
      BY <2>1, <2>2
  <1> QED
    BY <1>1, IdentitiesKept, TypeCorrect, PTL
=============================================================================
