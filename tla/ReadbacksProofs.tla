-------------------------- MODULE ReadbacksProofs --------------------------
(***************************************************************************)
(* What a readback PV without an alarm shows, for every order of fields,   *)
(* any number of changes of the board and any boards.                      *)
(***************************************************************************)
EXTENDS Readbacks, WorkerQueueProofs

Assumptions ==
    /\ MaxWord \in Nat /\ Looks \subseteq Board /\ PowerOn \in Looks
    /\ FieldOrder \in Seq(Field)
    /\ MaxChanges \in Nat /\ MaxLow \in Nat \ {0} /\ DefaultHardVetoes \in Nat

Polled(field) == data.rbv[field].polled

\* A good mark of Data, and an alarm free round of posts, come after a reading of
\* every field; a field without a reading is one the worker has still to assign.
PolledFirst ==
    /\ data.ok => \A field \in Fields : Polled(field)
    /\ alarm = "NO_ALARM" => \A field \in Fields : Polled(field)
    /\ updating # << >> =>
          \A field \in Fields : Polled(field) \/ \E i \in 1..Len(updating) : updating[i] = field
    /\ NoAlarmMeansPolled

ReadbacksInvariant == ReadbacksTypeOK /\ PolledFirst

LEMMA ReadbackAssumptions == Assumptions
  BY WordAssumption, LooksAssumption, FieldOrderAssumption, ReadbackBoundsAssumption,
     DefaultHardVetoesAssumption DEF Assumptions

\* "ok" is no field.
LEMMA OkIsNoField == "ok" \notin Field
  BY DEF Field, Scalar

LEMMA FieldsAreFields == ASSUME Assumptions PROVE Fields \subseteq Field
  BY DEF Fields, Assumptions

\* The types of Data and of a PV.
Reading  == [polled : BOOLEAN, value : Int]
DataType == [ok : BOOLEAN, run_number : Nat, rbv : [Field -> Reading]]
PvType   == [alarm : {"initial", "COMM_ALARM", "NO_ALARM"}, polled : BOOLEAN, value : Int]

LEMMA NewDataType ==
  ASSUME Assumptions, NEW run_number \in Nat
  PROVE  NewData(run_number) \in DataType
  <1>1. \A field \in Scalar : DefaultSetting[field] \in Int
    BY DEF DefaultSetting, UNKNOWN
  <1>2. \A field \in Field :
            [polled |-> FALSE, value |->
                CASE field \in Scalar       -> DefaultSetting[field]
                  [] field = "running"     -> 0
                  [] field = "hard_vetoes" -> DefaultHardVetoes] \in Reading
    BY <1>1 DEF Field, Assumptions, Reading
  <1> QED
    BY <1>2 DEF NewData, DataType

\* What a PV is posted with.
LEMMA PostType ==
  ASSUME NEW d \in DataType, NEW pv \in PV,
         NEW severity \in {"initial", "COMM_ALARM", "NO_ALARM"}
  PROVE  Post(pv, d, severity) \in PvType
  <1>1. CASE pv = "run_number"
    BY <1>1 DEF Post, Current, PvType, DataType
  <1>2. CASE pv # "run_number"
    <2>1. pv \in Field /\ d.rbv \in [Field -> Reading]
      BY <1>2 DEF PV, DataType
    <2>2. d.rbv[pv] \in Reading
      BY <2>1
    <2>3. Current(pv, d) = d.rbv[pv]
      BY <1>2 DEF Current
    <2> QED
      BY <2>2, <2>3 DEF Post, PvType, Reading
  <1> QED
    BY <1>1, <1>2

LEMMA NewPvsType ==
  ASSUME Assumptions, NEW run_number \in Nat
  PROVE  /\ NewPvs(run_number) \in [PV -> PvType]
         /\ \A pv \in PV : NewPvs(run_number)[pv].alarm = "initial"
  <1>1. \A pv \in PV : Post(pv, NewData(run_number), "initial") \in PvType
    BY NewDataType, PostType
  <1>2. \A pv \in PV : Post(pv, NewData(run_number), "initial").alarm = "initial"
    BY DEF Post
  <1> QED
    BY <1>1, <1>2 DEF NewPvs

\* The type invariant in these terms.
LEMMA TypesByName ==
  ReadbacksTypeOK <=>
    /\ board \in Looks /\ reading \in Looks /\ poll \subseteq Looks
    /\ queue \in [Priority -> Seq(Looks)]
    /\ updating \in Seq(Field \cup {"ok"}) /\ posting \in Seq(PV)
    /\ \A i \in 1..Len(updating) : updating[i] = "ok" => i = Len(updating)
    /\ data \in DataType /\ alarm \in {"COMM_ALARM", "NO_ALARM"}
    /\ pvs \in [PV -> PvType]
    /\ changes \in 0..MaxChanges /\ faults \subseteq FaultKinds
  BY DEF ReadbacksTypeOK, DataType, Reading, PvType

\* A register value is shown as a number.
LEMMA ReadbackType ==
  ASSUME Assumptions, NEW field \in Field, NEW registers \in Looks
  PROVE  Readback(field, registers) \in Int
  <1>1. registers[field] \in Int
    BY DEF Assumptions, Board, Word
  <1> DEFINE raw == registers[field]
  <1>2. WithoutEndFlags(raw) \in Int
    BY <1>1 DEF WithoutEndFlags
  <1> HIDE DEF raw
  <1>3. raw + 1 \in Int /\ raw \in Int /\ UNKNOWN \in Int
    BY <1>1 DEF raw, UNKNOWN
  <1>4. Shown(field, raw) \in Int
    BY <1>2, <1>3 DEF Shown
  <1> QED
    BY <1>1, <1>4 DEF Readback, raw

\* The first look at the board is at none of its fields.
LEMMA ReadbacksInit == Init => ReadbacksInvariant
  <1> SUFFICES ASSUME Init PROVE ReadbacksInvariant
    OBVIOUS
  <1> USE ReadbackAssumptions
  <1>1. NewData(0) \in DataType /\ NewPvs(0) \in [PV -> PvType]
    BY NewDataType, NewPvsType
  <1>2. \A field \in Fields : pvs[field].alarm = "initial"
    BY NewPvsType, FieldsAreFields DEF Init, PV
  <1>3. EmptyQueue \in [Priority -> Seq(Looks)]
    BY DEF EmptyQueue
  <1>4. ReadbacksTypeOK
    BY <1>1, <1>3, TypesByName DEF Init, Assumptions, NoReading
  <1>5. PolledFirst
    BY <1>2 DEF Init, PolledFirst, NoAlarmMeansPolled, NewData
  <1> QED
    BY <1>4, <1>5 DEF ReadbacksInvariant

\* What the board and the polling thread do concerns no readback that is shown.
LEMMA BoardAndPoll ==
  ASSUME ReadbacksInvariant,
         HandlerWrites \/ PowerCycle \/ BoardLost \/ PollRead \/ PollFails \/ PollPut
  PROVE  ReadbacksInvariant'
  <1> USE ReadbackAssumptions
  <1>1. /\ UNCHANGED <<updating, reading, updateVars>>
        /\ data' = data \/ data' = [data EXCEPT !.run_number = @ + 1]
    BY DEF HandlerWrites, PowerCycle, BoardLost, PollRead, PollFails, PollPut, updateVars, workerVars
  <1> DEFINE counted == [data EXCEPT !.run_number = @ + 1]
  <1>2. data \in DataType
    BY TypesByName DEF ReadbacksInvariant
  <1>3. counted \in DataType /\ counted.rbv = data.rbv /\ counted.ok = data.ok
    BY <1>2 DEF DataType
  <1>4. data' \in DataType /\ data'.rbv = data.rbv /\ data'.ok = data.ok
    BY <1>1, <1>2, <1>3
  <1> HIDE DEF counted
  <1>5. PolledFirst'
    BY <1>1, <1>4 DEF ReadbacksInvariant, PolledFirst, NoAlarmMeansPolled, Polled, updateVars
  <1>6. \A registers \in Looks : \A pr \in Priority :
            PutItem(queue, pr, registers) \in [Priority -> Seq(Looks)]
    BY PutItemType DEF ReadbacksInvariant, ReadbacksTypeOK
  <1>7. /\ board' \in Looks /\ poll' \subseteq Looks
        /\ queue' \in [Priority -> Seq(Looks)]
        /\ changes' \in 0..MaxChanges /\ faults' \subseteq FaultKinds
    <2>1. CASE HandlerWrites
      <3>1. queue' = queue \/ queue' = PutItem(queue, "HIGH", board')
        BY <2>1 DEF HandlerWrites
      <3>2. board' \in Looks
        BY <2>1 DEF HandlerWrites
      <3>3. queue' \in [Priority -> Seq(Looks)]
        BY <1>6, <3>1, <3>2 DEF ReadbacksInvariant, ReadbacksTypeOK, Priority
      <3> QED
        BY <2>1, <3>2, <3>3 DEF HandlerWrites, ReadbacksInvariant, ReadbacksTypeOK, Assumptions
    <2>2. CASE PowerCycle
      BY <2>2 DEF PowerCycle, ReadbacksInvariant, ReadbacksTypeOK, Assumptions
    <2>3. CASE PollRead
      BY <2>3 DEF PollRead, ReadbacksInvariant, ReadbacksTypeOK
    <2>4. CASE PollFails \/ BoardLost
      BY <2>4 DEF PollFails, BoardLost, Fault, ReadbacksInvariant, ReadbacksTypeOK
    <2>5. CASE PollPut
      BY <1>6, <2>5 DEF PollPut, ReadbacksInvariant, ReadbacksTypeOK, Priority
    <2> QED
      BY <2>1, <2>2, <2>3, <2>4, <2>5
  <1>8. ReadbacksTypeOK'
    BY <1>1, <1>7, <1>4 DEF ReadbacksInvariant, updateVars,
       ReadbacksTypeOK, DataType, Reading, PvType
  <1> QED
    BY <1>5, <1>8 DEF ReadbacksInvariant

\* An update starts with all its fields, its mark last.
LEMMA UpdateStarts == ASSUME ReadbacksInvariant, TakeHardwareUpdate PROVE ReadbacksInvariant'
  <1> USE ReadbackAssumptions
  <1>1. updating' = Append(FieldOrder, "ok") /\ FieldOrder \in Seq(Field)
    BY DEF TakeHardwareUpdate, Assumptions
  <1>2. FieldOrder \in Seq(Field \cup {"ok"})
    BY <1>1
  <1>3. updating' \in Seq(Field \cup {"ok"}) /\ Len(updating') = Len(FieldOrder) + 1
    BY <1>1, <1>2
  <1>4. \A i \in 1..Len(FieldOrder) : updating'[i] = FieldOrder[i] /\ FieldOrder[i] \in Field
    BY <1>1, <1>2
  <1>5. \A i \in 1..Len(updating') : updating'[i] = "ok" => i = Len(updating')
    <2> SUFFICES ASSUME NEW i \in 1..Len(updating'), i # Len(updating')
                 PROVE  updating'[i] # "ok"
      OBVIOUS
    <2>1. i \in 1..Len(FieldOrder)
      BY <1>1, <1>3
    <2> QED
      BY <1>4, <2>1, OkIsNoField
  <1>6. \A field \in Fields : \E i \in 1..Len(updating') : updating'[i] = field
    <2> SUFFICES ASSUME NEW n \in 1..Len(FieldOrder)
                 PROVE  \E i \in 1..Len(updating') : updating'[i] = FieldOrder[n]
      BY DEF Fields
    <2>1. n \in 1..Len(updating')
      BY <1>1, <1>3
    <2> QED
      BY <1>4, <2>1
  <1>7. reading' \in Looks /\ queue' \in [Priority -> Seq(Looks)]
    BY TakeItemType DEF TakeHardwareUpdate, ReadbacksInvariant, ReadbacksTypeOK
  <1>8. ReadbacksTypeOK'
    BY <1>3, <1>5, <1>7 DEF TakeHardwareUpdate, ReadbacksInvariant, ReadbacksTypeOK, updateVars
  <1>9. PolledFirst'
    BY <1>6 DEF TakeHardwareUpdate, ReadbacksInvariant, PolledFirst, NoAlarmMeansPolled, Polled,
       updateVars
  <1> QED
    BY <1>8, <1>9 DEF ReadbacksInvariant

\* Assigning a field gives it a reading; the mark is left alone at the end.
LEMMA FieldAssigned == ASSUME ReadbacksInvariant, AssignField PROVE ReadbacksInvariant'
  <1> USE ReadbackAssumptions
  <1> DEFINE item == Head(updating)
  <1>1. updating \in Seq(Field \cup {"ok"}) /\ updating # << >> /\ updating' = Tail(updating)
    BY DEF AssignField, ReadbacksInvariant, ReadbacksTypeOK
  <1>2. item \in Field \cup {"ok"} /\ item = updating[1] /\ Len(updating) \in Nat \ {0}
    BY <1>1, HeadTailProperties, EmptySeq
  <1>3. /\ updating' \in Seq(Field \cup {"ok"}) /\ Len(updating') = Len(updating) - 1
        /\ \A i \in 1..Len(updating') : updating'[i] = updating[i + 1]
    BY <1>1, HeadTailProperties
  <1>4. \A i \in 1..Len(updating') : updating'[i] = "ok" => i = Len(updating')
    BY <1>2, <1>3 DEF ReadbacksInvariant, ReadbacksTypeOK
  <1>5. reading' \in Looks
    BY DEF AssignField, ReadbacksInvariant, ReadbacksTypeOK, NoReading, Assumptions
  <1>6. UNCHANGED <<board, queue, poll, posting, alarm, pvs, changes, faults>>
    BY DEF AssignField, updateVars
  <1> DEFINE rbv == data.rbv
  <1>7. /\ data \in DataType
        /\ rbv \in [Field -> Reading]
    BY TypesByName DEF ReadbacksInvariant, DataType
  <1>8. CASE item = "ok"
    <2>1. data' = [data EXCEPT !.ok = TRUE]
      BY <1>8 DEF AssignField
    <2>2. data'.rbv = data.rbv /\ data' \in DataType
      BY <1>7, <2>1 DEF DataType
    <2>3. Len(updating) = 1
      <3>1. updating[1] = "ok" /\ 1 \in 1..Len(updating)
        BY <1>2, <1>8
      <3> QED
        BY <3>1 DEF ReadbacksInvariant, ReadbacksTypeOK
    <2>4. \A field \in Fields : Polled(field)
      <3> SUFFICES ASSUME NEW field \in Fields, ~Polled(field) PROVE FALSE
        OBVIOUS
      <3>1. PICK i \in 1..Len(updating) : updating[i] = field
        BY <1>1 DEF ReadbacksInvariant, PolledFirst
      <3>2. updating[1] = field
        BY <2>3, <3>1
      <3> QED
        BY <1>2, <1>8, <3>2, OkIsNoField, FieldsAreFields
    <2>5. updating' = << >>
      BY <1>3, <2>3, EmptySeq
    <2>6. PolledFirst'
      BY <1>6, <2>2, <2>4, <2>5 DEF ReadbacksInvariant, PolledFirst, NoAlarmMeansPolled, Polled
    <2> QED
      BY <1>3, <1>4, <1>5, <1>6, <2>2, <2>6 DEF ReadbacksInvariant,
         ReadbacksTypeOK, DataType, Reading, PvType
  <1>9. CASE item # "ok"
    <2> DEFINE new == [polled |-> TRUE, value |-> Readback(item, reading)]
    <2>1. item \in Field /\ data' = [data EXCEPT !.rbv[item] = new]
      BY <1>2, <1>9 DEF AssignField
    <2>2. new \in Reading /\ new.polled = TRUE
      BY <2>1, ReadbackType DEF ReadbacksInvariant, ReadbacksTypeOK, Reading
    <2> HIDE DEF new
    <2>3. /\ data' \in DataType
          /\ data'.ok = data.ok /\ data'.rbv = [data.rbv EXCEPT ![item] = new]
      BY <1>7, <2>1, <2>2 DEF DataType
    <2>4. rbv \in [Field -> Reading]
      BY <1>7
    <2>5. rbv' = [rbv EXCEPT ![item] = new]
      BY <2>3
    <2> HIDE DEF rbv
    <2>6. \A field : Polled(field) = rbv[field].polled
      BY DEF Polled, rbv
    <2>7. \A field : Polled(field)' = rbv'[field].polled
      BY DEF Polled, rbv
    <2>8. \A field \in Field : field = item => Polled(field)'
      BY <2>1, <2>2, <2>4, <2>5, <2>7
    <2>9. \A field \in Field : field # item => Polled(field)' = Polled(field)
      BY <2>4, <2>5, <2>6, <2>7
    <2>10. \A field \in Field : Polled(field) => Polled(field)'
      BY <2>8, <2>9
    <2>11. \A field \in Fields : Polled(field)' \/ \E i \in 1..Len(updating') : updating'[i] = field
      <3> SUFFICES ASSUME NEW field \in Fields, field # item, ~Polled(field)
                   PROVE  \E i \in 1..Len(updating') : updating'[i] = field
        BY <2>8, <2>10, FieldsAreFields
      <3>1. PICK i \in 1..Len(updating) : updating[i] = field
        BY <1>1 DEF ReadbacksInvariant, PolledFirst
      <3>2. i - 1 \in 1..Len(updating') /\ updating'[i - 1] = updating[i]
        BY <1>2, <1>3, <3>1
      <3> QED
        BY <3>1, <3>2
    <2>12. PolledFirst'
      BY <1>6, <2>3, <2>10, <2>11, FieldsAreFields
         DEF ReadbacksInvariant, PolledFirst, NoAlarmMeansPolled
    <2> QED
      BY <1>3, <1>4, <1>5, <1>6, <2>3, <2>12 DEF ReadbacksInvariant,
         ReadbacksTypeOK, DataType, Reading, PvType
  <1> QED
    BY <1>8, <1>9

\* UpdatePVs reads the mark first and then fields that keep their readings.
LEMMA RoundStarts == ASSUME ReadbacksInvariant, StartRound PROVE ReadbacksInvariant'
  <1> USE ReadbackAssumptions
  <1>1. PostOrder \in Seq(PV)
    BY DEF PostOrder, PV, Assumptions
  <1>2. ReadbacksTypeOK'
    BY <1>1 DEF StartRound, ReadbacksInvariant, ReadbacksTypeOK, workerVars
  <1>3. PolledFirst'
    BY DEF StartRound, ReadbacksInvariant, PolledFirst, NoAlarmMeansPolled, Polled, workerVars
  <1> QED
    BY <1>2, <1>3 DEF ReadbacksInvariant

LEMMA ReadbackPosted == ASSUME ReadbacksInvariant, PostReadback PROVE ReadbacksInvariant'
  <1> USE ReadbackAssumptions
  <1> DEFINE pv == Head(posting)
             new == Post(pv, data, alarm)
  <1>1. posting \in Seq(PV) /\ posting # << >> /\ posting' = Tail(posting)
    BY DEF PostReadback, ReadbacksInvariant, ReadbacksTypeOK
  <1>2. pv \in PV /\ posting' \in Seq(PV)
    BY <1>1, HeadTailProperties
  <1>3. /\ pvs' = [pvs EXCEPT ![pv] = new]
        /\ UNCHANGED <<board, queue, workerVars, poll, alarm, changes, faults>>
    BY DEF PostReadback
  <1>4. new \in PvType /\ pvs \in [PV -> PvType]
    BY <1>2, PostType, TypesByName DEF ReadbacksInvariant
  <1>5. new.alarm = alarm /\ (pv \in Field => new.polled = Polled(pv))
    BY DEF Post, Current, Polled, Field, Scalar
  <1> HIDE DEF new
  <1>6. ReadbacksTypeOK'
    <2>1. pvs' \in [PV -> PvType]
      BY <1>2, <1>3, <1>4
    <2> QED
      BY <1>2, <1>3, <2>1 DEF ReadbacksInvariant, workerVars, ReadbacksTypeOK, DataType, Reading, PvType
  <1>7. NoAlarmMeansPolled'
    BY <1>2, <1>3, <1>4, <1>5, FieldsAreFields
       DEF ReadbacksInvariant, PolledFirst, NoAlarmMeansPolled, PV
  <1>8. PolledFirst'
    BY <1>3, <1>7 DEF ReadbacksInvariant, PolledFirst, Polled, workerVars
  <1> QED
    BY <1>6, <1>8 DEF ReadbacksInvariant

\* A restart forgets the readings, the mark and the PVs together.
LEMMA RestartForgets == ASSUME ReadbacksInvariant, Restart PROVE ReadbacksInvariant'
  <1> USE ReadbackAssumptions
  <1>1. data.run_number \in Nat
    BY TypesByName DEF ReadbacksInvariant, DataType
  <1>2. data' \in DataType /\ pvs' \in [PV -> PvType]
    BY <1>1, NewDataType, NewPvsType DEF Restart
  <1>3. EmptyQueue \in [Priority -> Seq(Looks)]
    BY DEF EmptyQueue
  <1>4. ReadbacksTypeOK'
    BY <1>2, <1>3 DEF Restart, Fault, ReadbacksInvariant, Assumptions, NoReading,
       ReadbacksTypeOK, DataType, Reading, PvType
  <1>5. \A field \in Fields : pvs'[field].alarm = "initial"
    BY <1>1, NewPvsType, FieldsAreFields DEF Restart, PV
  <1>6. ~data'.ok /\ alarm' = "COMM_ALARM" /\ updating' = << >>
    BY DEF Restart, NewData
  <1>7. PolledFirst'
    BY <1>5, <1>6 DEF PolledFirst, NoAlarmMeansPolled
  <1> QED
    BY <1>4, <1>7 DEF ReadbacksInvariant

LEMMA ReadbacksStep == ReadbacksInvariant /\ [Next]_vars => ReadbacksInvariant'
  <1> SUFFICES ASSUME ReadbacksInvariant, [Next]_vars PROVE ReadbacksInvariant'
    OBVIOUS
  <1>1. CASE UNCHANGED vars
    BY <1>1 DEF vars, workerVars, updateVars, ReadbacksInvariant, ReadbacksTypeOK, PolledFirst,
       NoAlarmMeansPolled, Polled
  <1> QED
    BY <1>1, BoardAndPoll, UpdateStarts, FieldAssigned, RoundStarts, ReadbackPosted,
       RestartForgets DEF Next

LEMMA ReadbacksInvariantHolds == Spec => []ReadbacksInvariant
  BY ReadbacksInit, ReadbacksStep, PTL DEF Spec

\* Readbacks, Data and the queue keep their types, and the mark of an update is
\* what the worker assigns last (process_worker_event).
THEOREM ReadbacksAreTyped == Spec => []ReadbacksTypeOK
  <1>1. ReadbacksInvariant => ReadbacksTypeOK
    BY DEF ReadbacksInvariant
  <1> QED
    BY <1>1, ReadbacksInvariantHolds, PTL

\* A PV that UpdatePVs posts without an alarm shows a reading of the board
\* (update_all, process_worker_event).
THEOREM NoAlarmOnlyAfterAPoll == Spec => []NoAlarmMeansPolled
  <1>1. ReadbacksInvariant => NoAlarmMeansPolled
    BY DEF ReadbacksInvariant, PolledFirst
  <1> QED
    BY <1>1, ReadbacksInvariantHolds, PTL
------------------------------------------------------------------------------
\* What is settled stays so.

\* Every part of Settled but the queue, for steps that leave the readings alone.
LEMMA SettledLeftAlone ==
  ASSUME Settled, Items(queue)' \cup poll' \subseteq {board},
         data'.rbv = data.rbv, UNCHANGED <<board, updating, reading, pvs>>
  PROVE  Settled'
  BY DEF Settled

LEMMA SettledStep ==
  ASSUME ReadbacksInvariant, Settled, UNCHANGED board, [Next]_vars
  PROVE  Settled' \/ Restart
  <1> USE ReadbackAssumptions
  <1>1. /\ queue \in [Priority -> Seq(Looks)] /\ board \in Looks
        /\ "LOW" \in Priority /\ "HIGH" \in Priority
        /\ data \in DataType /\ pvs \in [PV -> PvType]
    BY TypesByName DEF ReadbacksInvariant, Priority
  <1>2. CASE UNCHANGED vars
    <2>1. UNCHANGED <<board, queue, updating, reading, data, poll, pvs>>
      BY <1>2 DEF vars, workerVars, updateVars
    <2>2. Items(queue)' \cup poll' \subseteq {board}
      BY <2>1 DEF Settled, Items
    <2> QED
      BY <2>1, <2>2, SettledLeftAlone
  <1>3. CASE HandlerWrites
    <2>1. queue' = queue \/ queue' = PutItem(queue, "HIGH", board)
      BY <1>3 DEF HandlerWrites
    <2>2. Items(queue') \subseteq Items(queue) \cup {board}
      BY <1>1, <2>1, PutItemItems
    <2>3. data'.rbv = data.rbv
      BY <1>1, <1>3 DEF HandlerWrites, DataType
    <2>4. Items(queue)' \cup poll' \subseteq {board}
      BY <1>3, <2>2 DEF HandlerWrites, Settled, Items
    <2> QED
      BY <1>3, <2>3, <2>4, SettledLeftAlone DEF HandlerWrites, updateVars
  <1>4. CASE PowerCycle \/ BoardLost \/ PollRead \/ PollFails
    <2>1. UNCHANGED <<queue, workerVars, updateVars>> /\ (poll' = poll \/ poll' = {board})
      BY <1>4 DEF PowerCycle, BoardLost, PollRead, PollFails
    <2>2. Items(queue)' \cup poll' \subseteq {board}
      BY <2>1 DEF Settled, Items
    <2> QED
      BY <2>1, <2>2, SettledLeftAlone DEF workerVars, updateVars
  <1>5. CASE PollPut
    <2>1. PICK registers \in poll : queue' = PutItem(queue, "LOW", registers)
      BY <1>5 DEF PollPut
    <2>2. registers = board
      BY <2>1 DEF Settled
    <2>3. Items(queue') \subseteq Items(queue) \cup {board}
      BY <1>1, <2>1, <2>2, PutItemItems
    <2>4. Items(queue)' \cup poll' \subseteq {board}
      BY <1>5, <2>3 DEF PollPut, Settled, Items
    <2> QED
      BY <1>5, <2>4, SettledLeftAlone DEF PollPut, workerVars, updateVars
  <1>6. CASE TakeHardwareUpdate
    <2>1. reading' = NextItem(queue) /\ queue' = WithoutNext(queue) /\ ~IsEmpty(queue)
          /\ UNCHANGED <<data, poll, updateVars>>
      BY <1>6 DEF TakeHardwareUpdate
    <2>2. NextItem(queue) \in Items(queue) /\ Items(queue') \subseteq Items(queue)
      BY <1>1, <2>1, TakeItemItems
    <2>3. reading' = board
      BY <2>1, <2>2 DEF Settled
    <2>4. Items(queue)' \cup poll' \subseteq {board}
      BY <2>1, <2>2 DEF Settled, Items
    <2> QED
      BY <2>1, <2>3, <2>4 DEF Settled, updateVars
  <1>7. CASE AssignField
    <2> DEFINE item == Head(updating)
               rbv == data.rbv
    <2>1. updating \in Seq(Field \cup {"ok"}) /\ updating # << >> /\ updating' = Tail(updating)
          /\ UNCHANGED <<board, queue, poll, posting, alarm, pvs>>
      BY <1>7 DEF AssignField, ReadbacksInvariant, ReadbacksTypeOK, updateVars
    <2>2. item \in Field \cup {"ok"} /\ (updating' # << >> => Len(updating) # 1)
      BY <2>1, HeadTailProperties, EmptySeq
    <2>3. reading = board /\ (updating' # << >> => reading' = board)
      BY <1>7, <2>1, <2>2 DEF AssignField, Settled
    <2>4. rbv \in [Field -> Reading]
      BY <1>1 DEF DataType
    <2>5. \A field \in Fields : data'.rbv[field] = rbv[field]
      <3>1. CASE item = "ok"
        BY <1>1, <1>7, <3>1 DEF AssignField, DataType
      <3>2. CASE item # "ok"
        <4> DEFINE new == [polled |-> TRUE, value |-> Readback(item, board)]
        <4>1. item \in Field /\ data' = [data EXCEPT !.rbv[item] = new]
          BY <1>7, <2>2, <2>3, <3>2 DEF AssignField
        <4>2. item \in Fields => new = rbv[item]
          BY DEF Settled
        <4> HIDE DEF new, item
        <4>3. data'.rbv = [data.rbv EXCEPT ![item] = new]
          BY <1>1, <4>1 DEF DataType
        <4>4. ASSUME NEW field \in Fields PROVE data'.rbv[field] = rbv[field]
          <5>1. CASE field = item
            BY <2>4, <4>1, <4>2, <4>3, <5>1
          <5>2. CASE field # item
            BY <2>4, <4>3, <5>2, FieldsAreFields
          <5> QED
            BY <5>1, <5>2
        <4> QED
          BY <4>4
      <3> QED
        BY <3>1, <3>2
    <2> HIDE DEF item
    <2>7. Items(queue)' = Items(queue)
      BY <2>1 DEF Items
    <2> QED
      BY <2>1, <2>3, <2>5, <2>7 DEF Settled
  <1>8. CASE StartRound
    <2>1. UNCHANGED <<board, queue, updating, reading, data, poll, pvs>>
      BY <1>8 DEF StartRound, workerVars
    <2>2. Items(queue)' \cup poll' \subseteq {board}
      BY <2>1 DEF Items, Settled
    <2> QED
      BY <2>1, <2>2, SettledLeftAlone
  <1>9. CASE PostReadback
    <2> DEFINE pv == Head(posting)
    <2>1. /\ pvs' = [pvs EXCEPT ![pv] = Post(pv, data, alarm)]
          /\ UNCHANGED <<board, queue, updating, reading, data, poll>>
      BY <1>9 DEF PostReadback, workerVars
    <2>2. ASSUME NEW field \in Fields
          PROVE  pvs'[field].polled /\ pvs'[field].value = Readback(field, board)
      <3>1. pvs'[field] = pvs[field] \/ pvs'[field] = Post(field, data, alarm)
        BY <1>1, <2>1, FieldsAreFields DEF PV
      <3>2. Current(field, data) = data.rbv[field]
        BY FieldsAreFields DEF Current, Field, Scalar
      <3>3. /\ data.rbv[field] = [polled |-> TRUE, value |-> Readback(field, board)]
            /\ pvs[field].polled /\ pvs[field].value = Readback(field, board)
        BY DEF Settled
      <3>4. /\ Post(field, data, alarm).polled
            /\ Post(field, data, alarm).value = Readback(field, board)
        BY <3>2, <3>3 DEF Post
      <3> QED
        BY <3>1, <3>3, <3>4
    <2>3. Items(queue)' = Items(queue)
      BY <2>1 DEF Items
    <2> QED
      BY <2>1, <2>2, <2>3 DEF Settled
  <1> QED
    BY <1>2, <1>3, <1>4, <1>5, <1>6, <1>7, <1>8, <1>9 DEF Next

\* Once every readback shows the value the board has, no interleaving of polls,
\* failed polls, assignments and posts takes that away: the safe half of
\* ReadbacksSettle, but for alarms.
THEOREM SettledReadbacksStay == Spec => SettledStays
  <1>1. ReadbacksInvariant /\ [Next]_vars => [Settled /\ UNCHANGED board => Settled' \/ Restart]_vars
    BY SettledStep
  <1> QED
    BY <1>1, ReadbacksInvariantHolds, PTL DEF Spec, SettledStays
=============================================================================
