-------------------------- MODULE SetpointsProofs --------------------------
(***************************************************************************)
(* What reaches the board's registers and veto masks, for any requests,    *)
(* any number of puts and pool threads, and masks of any length.           *)
(***************************************************************************)
EXTENDS Setpoints, WorkerQueueProofs

Assumptions ==
    /\ MaxWord \in Nat /\ MAX_FRAME_SYNC_DELAY_US \in Word /\ ByteBits \in Nat \ {0}
    /\ PowerOn \in [Scalar -> Word] /\ PowerOn["frame_sync_delay"] <= MAX_FRAME_SYNC_DELAY_US
    /\ DefaultVetoes \in Seq(VetoValue)
    /\ \A i \in 1..Len(DefaultVetoes) : DefaultVetoes[i] = DISABLED_VETO_VALUE
    /\ Requests \subseteq [field : Scalar, value : Int] /\ VetoRequests \subseteq Seq(VetoValue)
    /\ WordBits \in Nat /\ MaxPuts \in Nat /\ MaxChanges \in Nat

LEMMA SetpointAssumptions == Assumptions
  BY WordAssumption, DelayAssumption, ByteBitsAssumption, PowerOnAssumption,
     PowerOnDelayAssumption, DefaultVetoesAssumption, SetpointRequestsAssumption,
     VetoRequestsAssumption, SetpointBoundsAssumption
     DEF Assumptions

------------------------------------------------------------------------------
\* Representations.

\* Arrays of whole bytes are packed without padding.
LEMMA NoPadding ==
  ASSUME Assumptions, NEW length \in Nat, length % ByteBits = 0
  PROVE  Padding(length) = 0
  <1>1. ByteBits \in Nat /\ ByteBits > 0
    BY DEF Assumptions
  <1>2. ByteBits % ByteBits = 0
    BY <1>1
  <1> QED
    BY <1>1, <1>2 DEF Padding

\* For an array of whole bytes array_to_mask is what its docstring says: bit N
\* of the mask is set when element N is one of the values (utils.py).
THEOREM MaskOfWholeBytes ==
  ASSUME Assumptions, NEW array \in Seq(VetoValue), NEW values, Len(array) % ByteBits = 0
  PROVE  array_to_mask(array, values) = Positions(array, values)
  <1>1. Len(array) \in Nat /\ Padding(Len(array)) = 0
    BY NoPadding
  <1>2. array_to_mask(array, values) = {n - 1 : n \in {i \in 1..Len(array) : array[i] \in values}}
    BY <1>1 DEF array_to_mask
  <1>3. ASSUME NEW n \in Positions(array, values)
        PROVE  n \in array_to_mask(array, values)
    <2>1. n + 1 \in {i \in 1..Len(array) : array[i] \in values} /\ n = (n + 1) - 1
      BY <1>1 DEF Positions
    <2> QED
      BY <1>2, <2>1
  <1>4. ASSUME NEW bit \in array_to_mask(array, values)
        PROVE  bit \in Positions(array, values)
    <2>1. PICK n \in 1..Len(array) : array[n] \in values /\ bit = n - 1
      BY <1>2, <1>4
    <2>2. bit \in 0..(Len(array) - 1) /\ bit + 1 = n
      BY <1>1, <2>1
    <2> QED
      BY <2>1, <2>2 DEF Positions
  <1> QED
    BY <1>3, <1>4

\* Reading back what a handler wrote for a put shows the value that was put: the
\* period is counted from 1 again, the mode has its name (poll_hardware,
\* process_worker_event).
THEOREM ReadBackWhatWasPut ==
  ASSUME Assumptions, NEW field \in Scalar, NEW value \in Int, ~Refused(field, value)
  PROVE  Shown(field, Raw(field, value)) = value
  <1>1. CASE field = "period"
    BY <1>1 DEF Shown, Raw
  <1>2. CASE field = "period_mode"
    <2>1. value \in {COMPUTER, LOOK_UP_TABLE, EXTERNAL}
      BY <1>2 DEF Refused, SettablePeriodMode, PeriodMode
    <2>2. WithoutEndFlags(COMPUTER) = COMPUTER
      BY DEF WithoutEndFlags, COMPUTER
    <2>3. WithoutEndFlags(LOOK_UP_TABLE) = LOOK_UP_TABLE
      BY DEF WithoutEndFlags, LOOK_UP_TABLE
    <2>4. WithoutEndFlags(EXTERNAL) = EXTERNAL
      BY DEF WithoutEndFlags, EXTERNAL
    <2> QED
      BY <1>2, <2>1, <2>2, <2>3, <2>4 DEF Shown, Raw, PeriodMode
  <1>3. CASE field = "frame_sync_select"
    BY <1>3 DEF Shown, Raw, Refused
  <1>4. CASE field \in {"num_periods", "frame_sync_delay"}
    BY <1>4 DEF Shown, Raw
  <1> QED
    BY <1>1, <1>2, <1>3, <1>4 DEF Scalar

------------------------------------------------------------------------------
\* The inductive invariant.

InPlace == vetoes_mask = HardMask(data.vetoes) /\ sent = AllMask(data.vetoes)

VetoesAt(i) ==
    /\ i \in 1..Len(queue["HIGH"])
    /\ queue["HIGH"][i].type = "vetoes" /\ queue["HIGH"][i].array = data.vetoes

\* The first veto change of the queue is the configuration data already has.
Resent ==
    \E i \in 1..Len(queue["HIGH"]) :
        /\ VetoesAt(i)
        /\ \A j \in 1..(i - 1) : queue["HIGH"][j].type # "vetoes"

\* While nothing but restarts goes wrong, the board has the masks of
\* data.vetoes, or the next veto change it gets brings them; they fit.
VetoesOnTheWay ==
    /\ HardMaskFits(data.vetoes)
    /\ faults \subseteq {"restart"} => InPlace \/ Resent

SetpointsInvariant == SetpointsTypeOK /\ VetoesOnTheWay

LEMMA InvariantGivesBits == ASSUME SetpointsInvariant PROVE VetoBitsInPlace
  <1> SUFFICES ASSUME faults \subseteq {"restart"}, NoVetoesQueued,
                      Len(data.vetoes) % ByteBits = 0
               PROVE  /\ vetoes_mask = Positions(data.vetoes, {HARD_VETO_VALUE})
                      /\ sent = Positions(data.vetoes, {SOFT_VETO_VALUE, HARD_VETO_VALUE})
    BY DEF VetoBitsInPlace
  <1>1. InPlace
    BY DEF SetpointsInvariant, VetoesOnTheWay, Resent, VetoesAt, NoVetoesQueued
  <1>2. data.vetoes \in Seq(VetoValue)
    BY DEF SetpointsInvariant, SetpointsTypeOK
  <1> QED
    BY <1>1, <1>2, MaskOfWholeBytes, SetpointAssumptions DEF InPlace, HardMask, AllMask

\* Masks are sets of bit numbers.
LEMMA MaskType ==
  ASSUME Assumptions, NEW array \in Seq(VetoValue)
  PROVE  HardMask(array) \subseteq Nat /\ AllMask(array) \subseteq Nat
  <1>1. Padding(Len(array)) \in Nat /\ Len(array) \in Nat
    <2>1. ByteBits \in Nat /\ ByteBits > 0 /\ Len(array) \in Nat
      BY DEF Assumptions
    <2>2. Len(array) % ByteBits \in 0..(ByteBits - 1)
      BY <2>1
    <2>3. ByteBits - (Len(array) % ByteBits) \in Nat
      BY <2>1, <2>2
    <2>4. (ByteBits - (Len(array) % ByteBits)) % ByteBits \in Nat
      BY <2>1, <2>3
    <2> QED
      BY <2>1, <2>4 DEF Padding
  <1>2. \A n \in 1..Len(array) : Padding(Len(array)) + n - 1 \in Nat
    BY <1>1
  <1> QED
    BY <1>2 DEF HardMask, AllMask, array_to_mask

LEMMA InitSettings ==
  ASSUME Assumptions
  PROVE  /\ DefaultSetting \in [Scalar -> Int]
         /\ HardMaskFits(DefaultVetoes)
  <1>1. DefaultSetting \in [Scalar -> Int]
    BY DEF DefaultSetting, UNKNOWN
  <1>2. HardMask(DefaultVetoes) = {}
    BY DEF HardMask, array_to_mask, Assumptions, DISABLED_VETO_VALUE, HARD_VETO_VALUE
  <1> QED
    BY <1>1, <1>2 DEF HardMaskFits

\* A queue that starts with the veto configuration.
LEMMA BootQueueResends ==
  ASSUME NEW vetoes \in Seq(VetoValue)
  PROVE  /\ BootQueue(vetoes) \in [Priority -> Seq(Event)]
         /\ BootQueue(vetoes)["HIGH"] = <<VetoesUpdateEvent(vetoes, NoPut)>>
  <1>1. VetoesUpdateEvent(vetoes, NoPut) \in Event
    BY DEF VetoesUpdateEvent, Event, NoPut
  <1>2. EmptyQueue \in [Priority -> Seq(Event)] /\ "HIGH" \in Priority
    BY DEF EmptyQueue, Priority
  <1>3. BootQueue(vetoes) \in [Priority -> Seq(Event)]
    BY <1>1, <1>2, PutItemType DEF BootQueue
  <1>4. BootQueue(vetoes)["HIGH"] = Append(<< >>, VetoesUpdateEvent(vetoes, NoPut))
    BY <1>2 DEF BootQueue, PutItem, EmptyQueue
  <1> HIDE DEF VetoesUpdateEvent
  <1> QED
    BY <1>3, <1>4

LEMMA SetpointsInit == Init => SetpointsInvariant
  <1> SUFFICES ASSUME Init PROVE SetpointsInvariant
    OBVIOUS
  <1> USE SetpointAssumptions
  <1>1. data \in [sp : [Scalar -> Int], vetoes : Seq(VetoValue), blocks : Nat]
        /\ data.vetoes = DefaultVetoes
    BY InitSettings DEF Init, NewData, Assumptions
  <1>2. queue = BootQueue(DefaultVetoes) /\ DefaultVetoes \in Seq(VetoValue)
    BY DEF Init, Assumptions
  <1>3. queue \in [Priority -> Seq(Event)]
    BY <1>2, BootQueueResends
  <1>4. registers \in [Scalar -> Word] /\ registers["frame_sync_delay"] <= MAX_FRAME_SYNC_DELAY_US
    BY DEF Init, Assumptions
  <1>5. /\ vetoes_mask = {} /\ sent = {} /\ rcVeto \in BOOLEAN /\ inRange \in BOOLEAN
        /\ overlapped = {} /\ notify = {"run_control", "blocks"} /\ faults = {}
        /\ resending \in BOOLEAN
    BY DEF Init
  <1>6. /\ puts \in [PutId -> {"unused", "waiting", "ok", "error", "lost"}]
        /\ done \in [PutId -> {"clear", "set", "err"}]
        /\ blockNames \in Nat /\ changes \in 0..MaxChanges
    BY DEF Init, Assumptions
  <1>7. SetpointsTypeOK
    BY <1>1, <1>3, <1>4, <1>5, <1>6 DEF SetpointsTypeOK
  <1>8. Resent
    <2>1. VetoesAt(1)
      <3> DEFINE event == VetoesUpdateEvent(DefaultVetoes, NoPut)
      <3>1. event.type = "vetoes" /\ event.array = DefaultVetoes
        BY DEF VetoesUpdateEvent
      <3> HIDE DEF event
      <3>2. queue["HIGH"] = <<event>>
        BY <1>2, BootQueueResends DEF event
      <3>3. Len(queue["HIGH"]) = 1 /\ queue["HIGH"][1] = event
        BY <3>2
      <3> QED
        BY <1>1, <3>1, <3>3 DEF VetoesAt
    <2> QED
      BY <2>1 DEF Resent, VetoesAt
  <1>9. VetoesOnTheWay
    BY <1>1, <1>8, InitSettings DEF VetoesOnTheWay
  <1> QED
    BY <1>7, <1>9 DEF SetpointsInvariant

------------------------------------------------------------------------------
\* What steps have in common.

\* Putting an event leaves the configuration that is on its way where it is.
LEMMA PutKeepsResent ==
  ASSUME SetpointsTypeOK, Resent, NEW pr \in Priority, NEW event \in Event,
         queue' = PutItem(queue, pr, event), data'.vetoes = data.vetoes
  PROVE  Resent'
  <1> DEFINE high == queue["HIGH"]
  <1>1. high \in Seq(Event)
    BY DEF SetpointsTypeOK, Priority
  <1>2. high' = high \/ high' = Append(high, event)
    BY DEF SetpointsTypeOK, PutItem, Priority
  <1>3. PICK i \in 1..Len(high) :
            /\ high[i].type = "vetoes" /\ high[i].array = data.vetoes
            /\ \A j \in 1..(i - 1) : high[j].type # "vetoes"
    BY DEF Resent, VetoesAt
  <1> HIDE DEF high
  <1>4. /\ i \in 1..Len(high') /\ high'[i] = high[i]
        /\ \A j \in 1..(i - 1) : high'[j] = high[j]
    <2>1. \A j \in 1..Len(high) : j \in 1..Len(high') /\ high'[j] = high[j]
      <3>1. CASE high' = high
        BY <3>1
      <3>2. CASE high' = Append(high, event)
        <4>1. Len(high') = Len(high) + 1 /\ \A j \in 1..Len(high) : high'[j] = high[j]
          BY <1>1, <3>2
        <4> QED
          BY <1>1, <4>1
      <3> QED
        BY <1>2, <3>1, <3>2
    <2>2. \A j \in 1..(i - 1) : j \in 1..Len(high)
      BY <1>1, <1>3
    <2> QED
      BY <1>3, <2>1, <2>2
  <1>5. /\ i \in 1..Len(high')
        /\ high'[i].type = "vetoes" /\ high'[i].array = data'.vetoes
        /\ \A j \in 1..(i - 1) : high'[j].type # "vetoes"
    BY <1>3, <1>4
  <1> QED
    BY <1>5 DEF Resent, VetoesAt, high

\* While it is on its way, the worker takes what is at HIGH.
LEMMA NextIsHigh ==
  ASSUME SetpointsTypeOK, Resent
  PROVE  /\ queue["HIGH"] \in Seq(Event) /\ queue["HIGH"] # << >>
         /\ NextItem(queue) = queue["HIGH"][1]
         /\ WithoutNext(queue)["HIGH"] = Tail(queue["HIGH"])
  <1>1. queue["HIGH"] \in Seq(Event) /\ queue["HIGH"] # << >>
    BY DEF SetpointsTypeOK, Priority, Resent, VetoesAt
  <1> QED
    BY <1>1, HeadTailProperties
       DEF NextItem, WithoutNext, NextPriority, SetpointsTypeOK, Priority

\* The first veto change that is taken is that configuration.
LEMMA TakenIsResent ==
  ASSUME SetpointsTypeOK, Resent, NextItem(queue).type = "vetoes"
  PROVE  NextItem(queue).array = data.vetoes
  <1>1. PICK i \in 1..Len(queue["HIGH"]) :
            VetoesAt(i) /\ \A j \in 1..(i - 1) : queue["HIGH"][j].type # "vetoes"
    BY DEF Resent
  <1>2. queue["HIGH"][1].type = "vetoes" /\ Len(queue["HIGH"]) \in Nat
    BY NextIsHigh
  <1>3. i = 1
    BY <1>1, <1>2
  <1> QED
    BY <1>1, <1>3, NextIsHigh DEF VetoesAt

\* Taking anything else leaves it on its way.
LEMMA TakeKeepsResent ==
  ASSUME SetpointsTypeOK, Resent, NextItem(queue).type # "vetoes",
         queue' = WithoutNext(queue), data'.vetoes = data.vetoes
  PROVE  Resent'
  <1> DEFINE high == queue["HIGH"]
  <1>1. high \in Seq(Event) /\ high # << >> /\ high' = Tail(high) /\ high[1].type # "vetoes"
    BY NextIsHigh
  <1>2. PICK i \in 1..Len(high) :
            /\ high[i].type = "vetoes" /\ high[i].array = data.vetoes
            /\ \A j \in 1..(i - 1) : high[j].type # "vetoes"
    BY DEF Resent, VetoesAt
  <1> HIDE DEF high
  <1>3. /\ Len(high) \in Nat /\ Len(high') = Len(high) - 1
        /\ \A k \in 1..Len(high') : high'[k] = high[k + 1]
    BY <1>1, HeadTailProperties
  <1>4. i - 1 \in 1..Len(high')
    BY <1>1, <1>2, <1>3
  <1>5. \A j \in 1..(i - 2) : high'[j].type # "vetoes"
    BY <1>2, <1>3
  <1>6. \E k \in 1..Len(high') :
            /\ high'[k].type = "vetoes" /\ high'[k].array = data'.vetoes
            /\ \A j \in 1..(k - 1) : high'[j].type # "vetoes"
    <2>1. high'[i - 1].type = "vetoes" /\ high'[i - 1].array = data'.vetoes
      BY <1>2, <1>3, <1>4
    <2>2. (i - 1) - 1 = i - 2
      BY <1>2
    <2> QED
      BY <1>4, <1>5, <2>1, <2>2
  <1> QED
    BY <1>6 DEF Resent, VetoesAt, high

\* A step that leaves masks and vetoes alone keeps them on their way when it
\* keeps the queue, or adds a fault that excuses it.
LEMMA MasksLeftAlone ==
  ASSUME SetpointsInvariant, UNCHANGED <<vetoes_mask, sent>>, data'.vetoes = data.vetoes,
         faults \subseteq faults',
         faults' \subseteq {"restart"} /\ Resent => Resent'
  PROVE  VetoesOnTheWay'
  BY DEF SetpointsInvariant, VetoesOnTheWay, InPlace

\* A fault that is not a restart excuses the masks.
LEMMA FaultExcuses ==
  ASSUME NEW kind, Fault(kind), SetpointsTypeOK
  PROVE  /\ faults' \subseteq FaultKinds /\ faults \subseteq faults'
         /\ kind # "restart" => ~(faults' \subseteq {"restart"})
  BY DEF Fault, SetpointsTypeOK

\* What the worker takes is an event, and the rest a queue of events.
LEMMA TakenType ==
  ASSUME SetpointsTypeOK, NEW types, Take(types)
  PROVE  /\ NextItem(queue) \in Event /\ NextItem(queue).type \in types
         /\ queue' \in [Priority -> Seq(Event)] /\ queue' = WithoutNext(queue)
         /\ UNCHANGED <<spPvs, wanted, puts, overlapped, inRange, blockNames, notify, changes>>
  BY TakeItemType DEF Take, SetpointsTypeOK, clientVars, monitorVars

LEMMA EventTypes ==
  ASSUME NEW e \in Event
  PROVE  /\ e.type \in Scalar => e.value \in Int /\ e.put \in PutId /\ ~Refused(e.type, e.value)
         /\ e.type = "vetoes" => e.array \in Seq(VetoValue)
         /\ e.type = "run_control" => e.veto \in BOOLEAN
         /\ e.type = "blocks" => e.names \in Nat
         /\ e.type = "begin" => e.put \in PutId
         /\ e.type \in PutType \cup {"run_control", "blocks"}
  BY DEF Event, Scalar, PutType, SetpointPV

LEMMA DoneType ==
  ASSUME SetpointsTypeOK, NEW p, SetDone(p) \/ SetErr(p)
  PROVE  done' \in [PutId -> {"clear", "set", "err"}]
  BY DEF SetDone, SetErr, SetpointsTypeOK

\* What a handler writes for an event is a value of the register, and no frame
\* sync delay above the limit.
LEMMA WrittenType ==
  ASSUME Assumptions, SetpointsTypeOK, NEW e \in Event, e.type \in Scalar, Fits(e)
  PROVE  /\ Written(e) \in [Scalar -> Word]
         /\ Written(e)["frame_sync_delay"] <= MAX_FRAME_SYNC_DELAY_US
  <1>1. Raw(e.type, e.value) \in Word /\ registers \in [Scalar -> Word]
    BY DEF Fits, SetpointsTypeOK
  <1>2. Written(e) \in [Scalar -> Word]
    BY <1>1 DEF Written
  <1>3. CASE e.type = "frame_sync_delay"
    <2>1. Written(e)["frame_sync_delay"] = e.value
      BY <1>1, <1>3 DEF Written, Raw
    <2>2. e.value \in Int /\ ~Refused(e.type, e.value)
      BY EventTypes
    <2>3. MAX_FRAME_SYNC_DELAY_US \in Int
      BY DEF Assumptions, Word
    <2>4. ~(e.value > MAX_FRAME_SYNC_DELAY_US)
      BY <1>3, <2>2 DEF Refused
    <2> QED
      BY <1>2, <2>1, <2>2, <2>3, <2>4
  <1>4. CASE e.type # "frame_sync_delay"
    BY <1>1, <1>4 DEF Written, SetpointsTypeOK, Scalar
  <1> QED
    BY <1>2, <1>3, <1>4

------------------------------------------------------------------------------
\* The steps.

\* Clients: a put is refused or adds its event, an answer touches its own put.
LEMMA ClientKeeps ==
  ASSUME SetpointsInvariant, NEW p \in PutId,
         \/ \E r \in Requests : RequestSetpoint(p, r)
         \/ \E array \in VetoRequests : RequestVetoes(p, array)
         \/ RequestBegin(p)
         \/ Answer(p)
  PROVE  SetpointsInvariant'
  <1> USE SetpointAssumptions
  <1>1. ASSUME NEW event \in Event, Start(p, event),
               queue' = queue \/ queue' = PutItem(queue, "HIGH", event),
               puts' \in [PutId -> {"unused", "waiting", "ok", "error", "lost"}]
        PROVE  SetpointsInvariant'
    <2>1. /\ UNCHANGED <<boardVars, data, resending, done, sent, faults, monitorVars>>
          /\ overlapped' \subseteq overlapped \cup SetpointPV
      BY <1>1 DEF Start
    <2>2. queue' \in [Priority -> Seq(Event)]
      <3>1. queue \in [Priority -> Seq(Event)] /\ "HIGH" \in Priority
        BY DEF SetpointsInvariant, SetpointsTypeOK, Priority
      <3>2. PutItem(queue, "HIGH", event) \in [Priority -> Seq(Event)]
        BY <1>1, <3>1, PutItemType
      <3> QED
        BY <1>1, <3>1, <3>2
    <2>3. SetpointsTypeOK'
      BY <1>1, <2>1, <2>2 DEF SetpointsInvariant, SetpointsTypeOK, boardVars, monitorVars
    <2>4. Resent => Resent'
      <3>1. CASE queue' = queue
        BY <2>1, <3>1 DEF Resent, VetoesAt
      <3>2. CASE queue' = PutItem(queue, "HIGH", event)
        BY <2>1, <3>2, PutKeepsResent DEF SetpointsInvariant, Priority
      <3> QED
        BY <1>1, <3>1, <3>2
    <2> QED
      BY <2>1, <2>3, <2>4, MasksLeftAlone DEF SetpointsInvariant, boardVars
  <1>2. ASSUME NEW r \in Requests, RequestSetpoint(p, r)
        PROVE  SetpointsInvariant'
    <2> DEFINE event == SetEvent(r.field, r.value, p)
    <2>1. r.field \in Scalar /\ r.value \in Int
      BY DEF Assumptions
    <2>2. event.type = r.field /\ event \in [type : Scalar, value : Int, put : PutId]
      BY <2>1 DEF SetEvent
    <2>3. ~Refused(r.field, r.value) => event \in Event
      BY <2>1 DEF Event, SetEvent
    <2>4. CASE Refused(r.field, r.value)
      <3>1. /\ UNCHANGED <<boardVars, data, queue, resending, done, sent, faults, monitorVars>>
            /\ overlapped' \subseteq overlapped \cup SetpointPV
            /\ puts' = [puts EXCEPT ![p] = "error"]
        BY <1>2, <2>2, <2>4 DEF RequestSetpoint, Start
      <3>2. SetpointsTypeOK'
        BY <2>1, <3>1 DEF SetpointsInvariant, SetpointsTypeOK, boardVars, monitorVars
      <3> QED
        BY <3>1, <3>2, MasksLeftAlone DEF SetpointsInvariant, boardVars, Resent, VetoesAt
    <2>5. CASE ~Refused(r.field, r.value)
      <3> HIDE DEF event
      <3>1. Start(p, event) /\ Queued(p, event)
        BY <1>2, <2>5 DEF RequestSetpoint, event
      <3>2. puts' \in [PutId -> {"unused", "waiting", "ok", "error", "lost"}]
        BY <3>1 DEF Queued, SetpointsInvariant, SetpointsTypeOK
      <3> QED
        BY <1>1, <2>3, <2>5, <3>1, <3>2 DEF Queued
    <2> QED
      BY <2>4, <2>5
  <1>3. ASSUME NEW array \in VetoRequests, RequestVetoes(p, array)
        PROVE  SetpointsInvariant'
    <2> DEFINE event == VetoesUpdateEvent(array, p)
    <2>1. event \in Event
      BY DEF VetoesUpdateEvent, Event, Assumptions
    <2> HIDE DEF event
    <2>2. Start(p, event) /\ Queued(p, event)
      BY <1>3 DEF RequestVetoes, event
    <2>3. puts' \in [PutId -> {"unused", "waiting", "ok", "error", "lost"}]
      BY <2>2 DEF Queued, SetpointsInvariant, SetpointsTypeOK
    <2> QED
      BY <1>1, <2>1, <2>2, <2>3 DEF Queued
  <1>5. CASE RequestBegin(p)
    <2>1. BeginEvent(p) \in Event
      BY DEF BeginEvent, Event
    <2>2. Start(p, BeginEvent(p)) /\ Queued(p, BeginEvent(p))
      BY <1>5 DEF RequestBegin
    <2>3. puts' \in [PutId -> {"unused", "waiting", "ok", "error", "lost"}]
      BY <2>2 DEF Queued, SetpointsInvariant, SetpointsTypeOK
    <2> QED
      BY <1>1, <2>1, <2>2, <2>3 DEF Queued
  <1>4. CASE Answer(p)
    <2>1. /\ UNCHANGED <<boardVars, data, queue, resending, done, overlapped, sent, faults, monitorVars>>
          /\ puts' \in [PutId -> {"unused", "waiting", "ok", "error", "lost"}]
      BY <1>4 DEF Answer, SetpointsInvariant, SetpointsTypeOK
    <2>2. SetpointsTypeOK'
      BY <2>1 DEF SetpointsInvariant, SetpointsTypeOK, boardVars, monitorVars
    <2> QED
      BY <2>1, <2>2, MasksLeftAlone DEF SetpointsInvariant, boardVars, Resent, VetoesAt
  <1> QED
    BY <1>2, <1>3, <1>4, <1>5

\* Setting a number touches no veto.
LEMMA SetpointKeeps ==
  ASSUME SetpointsInvariant, HandleSetpoint \/ SetpointOverflows \/ SetpointFails
  PROVE  SetpointsInvariant'
  <1> USE SetpointAssumptions
  <1> DEFINE e == NextItem(queue)
  <1>1. Take(Scalar)
    BY DEF HandleSetpoint, SetpointOverflows, SetpointFails
  <1>2. /\ e \in Event /\ e.type \in Scalar
        /\ queue' \in [Priority -> Seq(Event)] /\ queue' = WithoutNext(queue)
        /\ UNCHANGED <<puts, overlapped, inRange, blockNames, notify, changes>>
    BY <1>1, TakenType DEF SetpointsInvariant
  <1>3. e.value \in Int /\ (Fits(e) => Written(e) \in [Scalar -> Word] /\
            Written(e)["frame_sync_delay"] <= MAX_FRAME_SYNC_DELAY_US)
    BY <1>2, EventTypes, WrittenType DEF SetpointsInvariant
  <1> HIDE DEF e
  <1>4. /\ UNCHANGED <<vetoes_mask, sent, rcVeto, resending>>
        /\ registers' = registers \/ (Fits(e) /\ registers' = Written(e))
        /\ data' = data \/ data' = [data EXCEPT !.sp[e.type] = e.value]
        /\ faults' = faults \/ Fault("comms")
        /\ SetDone(e.put) \/ SetErr(e.put)
    BY DEF HandleSetpoint, SetpointOverflows, SetpointFails, boardVars, e
  <1>5. /\ registers' \in [Scalar -> Word]
        /\ registers'["frame_sync_delay"] <= MAX_FRAME_SYNC_DELAY_US
    BY <1>3, <1>4 DEF SetpointsInvariant, SetpointsTypeOK
  <1>6. /\ data' \in [sp : [Scalar -> Int], vetoes : Seq(VetoValue), blocks : Nat]
        /\ data'.vetoes = data.vetoes
    <2>1. data \in [sp : [Scalar -> Int], vetoes : Seq(VetoValue), blocks : Nat]
      BY DEF SetpointsInvariant, SetpointsTypeOK
    <2>2. CASE data' = [data EXCEPT !.sp[e.type] = e.value]
      <3>1. [data.sp EXCEPT ![e.type] = e.value] \in [Scalar -> Int]
        BY <1>2, <1>3, <2>1
      <3>2. data' = [data EXCEPT !.sp = [data.sp EXCEPT ![e.type] = e.value]]
        BY <2>1, <2>2
      <3> QED
        BY <2>1, <3>1, <3>2
    <2> QED
      BY <1>4, <2>1, <2>2
  <1>7. done' \in [PutId -> {"clear", "set", "err"}]
    BY <1>4, DoneType DEF SetpointsInvariant
  <1>8. faults' \subseteq FaultKinds /\ faults \subseteq faults'
    BY <1>4, FaultExcuses DEF SetpointsInvariant, SetpointsTypeOK
  <1>9. SetpointsTypeOK'
    BY <1>2, <1>4, <1>5, <1>6, <1>7, <1>8 DEF SetpointsInvariant, SetpointsTypeOK
  <1>10. Resent => Resent'
    <2>1. NextItem(queue).type # "vetoes"
      BY <1>2 DEF Scalar, e
    <2> QED
      BY <1>2, <1>6, <2>1, TakeKeepsResent DEF SetpointsInvariant
  <1> QED
    BY <1>4, <1>6, <1>8, <1>9, <1>10, MasksLeftAlone DEF SetpointsInvariant

\* A veto change puts mask, message and data in step, or fails and is excused;
\* one that does not fit is not the configuration that is on its way.
LEMMA VetoesKeep ==
  ASSUME SetpointsInvariant, HandleVetoes \/ VetoesOverflow \/ VetoesFail
  PROVE  SetpointsInvariant'
  <1> USE SetpointAssumptions
  <1> DEFINE e == NextItem(queue)
  <1>1. Take({"vetoes"})
    BY DEF HandleVetoes, VetoesOverflow, VetoesFail
  <1>2. /\ e \in Event /\ e.type = "vetoes"
        /\ queue' \in [Priority -> Seq(Event)] /\ queue' = WithoutNext(queue)
        /\ UNCHANGED <<puts, overlapped, inRange, blockNames, notify, changes>>
    BY <1>1, TakenType DEF SetpointsInvariant
  <1>3. /\ e.array \in Seq(VetoValue)
        /\ HardMask(e.array) \subseteq Nat /\ AllMask(e.array) \subseteq Nat
    BY <1>2, EventTypes, MaskType
  <1>4. done' \in [PutId -> {"clear", "set", "err"}]
    BY DoneType DEF HandleVetoes, VetoesOverflow, VetoesFail, SetpointsInvariant
  <1>5. Resent => e.array = data.vetoes
    BY <1>2, TakenIsResent DEF SetpointsInvariant
  <1> HIDE DEF e
  <1>6. CASE HandleVetoes
    <2>1. /\ HardMaskFits(e.array)
          /\ vetoes_mask' = HardMask(e.array) /\ sent' = AllMask(e.array)
          /\ data' = [data EXCEPT !.vetoes = e.array]
          /\ UNCHANGED <<registers, rcVeto, resending, faults>>
      BY <1>6 DEF HandleVetoes, e
    <2>2. /\ data' \in [sp : [Scalar -> Int], vetoes : Seq(VetoValue), blocks : Nat]
          /\ data'.vetoes = e.array
      BY <1>3, <2>1 DEF SetpointsInvariant, SetpointsTypeOK
    <2>3. SetpointsTypeOK'
      BY <1>2, <1>3, <1>4, <2>1, <2>2 DEF SetpointsInvariant, SetpointsTypeOK, HardMaskFits
    <2>4. VetoesOnTheWay'
      BY <2>1, <2>2 DEF VetoesOnTheWay, InPlace, HardMaskFits
    <2> QED
      BY <2>3, <2>4 DEF SetpointsInvariant
  <1>7. CASE VetoesOverflow
    <2>1. /\ ~HardMaskFits(e.array)
          /\ UNCHANGED <<boardVars, data, resending, sent, faults>>
      BY <1>7 DEF VetoesOverflow, e
    <2>2. SetpointsTypeOK'
      BY <1>2, <1>4, <2>1 DEF SetpointsInvariant, SetpointsTypeOK, boardVars
    <2>3. ~Resent
      BY <1>5, <2>1 DEF SetpointsInvariant, VetoesOnTheWay
    <2> QED
      BY <2>1, <2>2, <2>3, MasksLeftAlone DEF SetpointsInvariant, boardVars
  <1>8. CASE VetoesFail
    <2>1. /\ HardMaskFits(e.array)
          /\ vetoes_mask' = vetoes_mask \/ vetoes_mask' = HardMask(e.array)
          /\ UNCHANGED <<registers, rcVeto, data, resending, sent>> /\ Fault("comms")
      BY <1>8 DEF VetoesFail, e
    <2>2. faults' \subseteq FaultKinds /\ ~(faults' \subseteq {"restart"})
      BY <2>1, FaultExcuses DEF SetpointsInvariant
    <2>3. SetpointsTypeOK'
      BY <1>2, <1>4, <2>1, <2>2 DEF SetpointsInvariant, SetpointsTypeOK, HardMaskFits
    <2>4. VetoesOnTheWay'
      BY <2>1, <2>2 DEF SetpointsInvariant, VetoesOnTheWay, HardMaskFits
    <2> QED
      BY <2>3, <2>4 DEF SetpointsInvariant
  <1> QED
    BY <1>6, <1>7, <1>8

\* A begin touches no veto but for queueing the configuration data has; the first
\* period is one a register takes.
LEMMA FirstPeriodType ==
  ASSUME Assumptions, SetpointsTypeOK
  PROVE  LET settings == FirstPeriod(registers, Raw("period", 1))
             begun    == [data EXCEPT !.sp = FirstPeriod(@, 1)]
         IN  /\ settings \in [Scalar -> Word]
             /\ settings["frame_sync_delay"] <= MAX_FRAME_SYNC_DELAY_US
             /\ begun \in [sp : [Scalar -> Int], vetoes : Seq(VetoValue), blocks : Nat]
             /\ begun.vetoes = data.vetoes /\ begun.blocks = data.blocks
             /\ begun.sp = FirstPeriod(data.sp, 1)
  <1> DEFINE settings == FirstPeriod(registers, Raw("period", 1))
             begun    == [data EXCEPT !.sp = FirstPeriod(@, 1)]
  <1>1. /\ registers \in [Scalar -> Word] /\ registers["frame_sync_delay"] <= MAX_FRAME_SYNC_DELAY_US
        /\ data \in [sp : [Scalar -> Int], vetoes : Seq(VetoValue), blocks : Nat]
    BY DEF SetpointsTypeOK
  <1>2. Raw("period", 1) = 0 /\ 0 \in Word
    BY DEF Raw, Word, Assumptions
  <1>3. /\ settings \in [Scalar -> Word]
        /\ settings["frame_sync_delay"] <= MAX_FRAME_SYNC_DELAY_US
    BY <1>1, <1>2 DEF FirstPeriod, Scalar
  <1>4. FirstPeriod(data.sp, 1) \in [Scalar -> Int]
    <2>1. data.sp \in [Scalar -> Int] /\ 1 \in Int
      BY <1>1
    <2>2. [data.sp EXCEPT !["period"] = 1] \in [Scalar -> Int]
      BY <2>1
    <2> QED
      BY <2>1, <2>2 DEF FirstPeriod
  <1>5. begun = [data EXCEPT !.sp = FirstPeriod(data.sp, 1)]
    BY <1>1
  <1> HIDE DEF settings, begun
  <1>6. /\ begun \in [sp : [Scalar -> Int], vetoes : Seq(VetoValue), blocks : Nat]
        /\ begun.vetoes = data.vetoes /\ begun.blocks = data.blocks
        /\ begun.sp = FirstPeriod(data.sp, 1)
    BY <1>1, <1>4, <1>5
  <1> QED
    BY <1>3, <1>6 DEF settings, begun

LEMMA BeginKeeps ==
  ASSUME SetpointsInvariant, HandleBegin \/ RefuseBegin \/ BeginFails
  PROVE  SetpointsInvariant'
  <1> USE SetpointAssumptions
  <1> DEFINE e == NextItem(queue)
             settings == FirstPeriod(registers, Raw("period", 1))
             begun    == [data EXCEPT !.sp = FirstPeriod(@, 1)]
  <1>1. Take({"begin"})
    BY DEF HandleBegin, RefuseBegin, BeginFails
  <1>2. /\ e.type = "begin"
        /\ queue' \in [Priority -> Seq(Event)] /\ queue' = WithoutNext(queue)
        /\ UNCHANGED <<puts, overlapped, inRange, blockNames, notify, changes>>
    BY <1>1, TakenType DEF SetpointsInvariant
  <1>3. /\ UNCHANGED <<vetoes_mask, sent, rcVeto>>
        /\ registers' = registers \/ registers' = settings
        /\ data' = data \/ data' = begun
        /\ faults' = faults \/ Fault("comms")
        /\ SetDone(e.put) \/ SetErr(e.put)
        /\ resending' = resending \/ resending' = TRUE
    BY DEF HandleBegin, RefuseBegin, BeginFails, boardVars
  <1>4. /\ settings \in [Scalar -> Word]
        /\ settings["frame_sync_delay"] <= MAX_FRAME_SYNC_DELAY_US
        /\ begun \in [sp : [Scalar -> Int], vetoes : Seq(VetoValue), blocks : Nat]
        /\ begun.vetoes = data.vetoes
    BY FirstPeriodType DEF SetpointsInvariant
  <1>5. done' \in [PutId -> {"clear", "set", "err"}]
    BY <1>3, DoneType DEF SetpointsInvariant
  <1> HIDE DEF e, settings, begun
  <1>6. /\ registers' \in [Scalar -> Word]
        /\ registers'["frame_sync_delay"] <= MAX_FRAME_SYNC_DELAY_US
        /\ data' \in [sp : [Scalar -> Int], vetoes : Seq(VetoValue), blocks : Nat]
        /\ data'.vetoes = data.vetoes
    BY <1>3, <1>4 DEF SetpointsInvariant, SetpointsTypeOK
  <1>7. faults' \subseteq FaultKinds /\ faults \subseteq faults'
    BY <1>3, FaultExcuses DEF SetpointsInvariant, SetpointsTypeOK
  <1>8. SetpointsTypeOK'
    BY <1>2, <1>3, <1>5, <1>6, <1>7 DEF SetpointsInvariant, SetpointsTypeOK
  <1>9. Resent => Resent'
    BY <1>2, <1>6, TakeKeepsResent DEF SetpointsInvariant, e
  <1> QED
    BY <1>3, <1>6, <1>7, <1>8, <1>9, MasksLeftAlone DEF SetpointsInvariant

LEMMA ResendKeeps == ASSUME SetpointsInvariant, ResendVetoes PROVE SetpointsInvariant'
  <1> DEFINE event == VetoesUpdateEvent(data.vetoes, NoPut)
  <1>1. event \in Event
    BY DEF VetoesUpdateEvent, Event, SetpointsInvariant, SetpointsTypeOK
  <1>2. queue' = PutItem(queue, "HIGH", event)
    BY DEF ResendVetoes
  <1> HIDE DEF event
  <1>3. /\ UNCHANGED <<boardVars, data, done, sent, faults, clientVars, monitorVars>>
        /\ resending' \in BOOLEAN
    BY DEF ResendVetoes
  <1>4. "HIGH" \in Priority /\ queue' \in [Priority -> Seq(Event)]
    BY <1>1, <1>2, PutItemType DEF SetpointsInvariant, SetpointsTypeOK, Priority
  <1>5. SetpointsTypeOK'
    BY <1>3, <1>4 DEF SetpointsInvariant, SetpointsTypeOK, boardVars, clientVars, monitorVars
  <1>6. Resent => Resent'
    BY <1>1, <1>2, <1>3, <1>4, PutKeepsResent DEF SetpointsInvariant
  <1> QED
    BY <1>3, <1>5, <1>6, MasksLeftAlone DEF SetpointsInvariant, boardVars

\* The handlers of the monitors touch no veto of the configuration.
LEMMA MonitorHandlersKeep ==
  ASSUME SetpointsInvariant, HandleRunControl \/ RunControlFails \/ HandleBlocks
  PROVE  SetpointsInvariant'
  <1> DEFINE e == NextItem(queue)
  <1>1. PICK type \in {"run_control", "blocks"} :
            /\ Take({type})
            /\ HandleBlocks => type = "blocks"
            /\ HandleRunControl \/ RunControlFails => type = "run_control"
    BY TakenType DEF HandleRunControl, RunControlFails, HandleBlocks, SetpointsInvariant
  <1>2. /\ e \in Event /\ e.type = type
        /\ queue' \in [Priority -> Seq(Event)] /\ queue' = WithoutNext(queue)
        /\ UNCHANGED <<puts, overlapped, inRange, blockNames, notify, changes>>
    BY <1>1, TakenType DEF SetpointsInvariant
  <1>3. (type = "run_control" => e.veto \in BOOLEAN) /\ (type = "blocks" => e.names \in Nat)
    BY <1>2, EventTypes
  <1>4. Resent /\ data'.vetoes = data.vetoes => Resent'
    BY <1>1, <1>2, TakeKeepsResent DEF SetpointsInvariant
  <1> HIDE DEF e
  <1>5. CASE HandleRunControl \/ RunControlFails
    <2>1. /\ UNCHANGED <<registers, vetoes_mask, data, resending, done, sent>>
          /\ rcVeto' = rcVeto \/ rcVeto' = e.veto
          /\ faults' = faults \/ Fault("comms")
      BY <1>5 DEF HandleRunControl, RunControlFails, e
    <2>2. faults' \subseteq FaultKinds /\ faults \subseteq faults'
      BY <2>1, FaultExcuses DEF SetpointsInvariant, SetpointsTypeOK
    <2>3. SetpointsTypeOK'
      BY <1>1, <1>2, <1>3, <1>5, <2>1, <2>2 DEF SetpointsInvariant, SetpointsTypeOK
    <2> QED
      BY <1>4, <2>1, <2>2, <2>3, MasksLeftAlone DEF SetpointsInvariant
  <1>6. CASE HandleBlocks
    <2>1. /\ UNCHANGED <<boardVars, resending, done, sent, faults>>
          /\ data' = [data EXCEPT !.blocks = e.names]
      BY <1>6 DEF HandleBlocks, e
    <2>2. /\ data' \in [sp : [Scalar -> Int], vetoes : Seq(VetoValue), blocks : Nat]
          /\ data'.vetoes = data.vetoes
      BY <1>1, <1>3, <1>6, <2>1 DEF SetpointsInvariant, SetpointsTypeOK
    <2>3. SetpointsTypeOK'
      BY <1>2, <2>1, <2>2 DEF SetpointsInvariant, SetpointsTypeOK, boardVars
    <2> QED
      BY <1>4, <2>1, <2>2, <2>3, MasksLeftAlone DEF SetpointsInvariant, boardVars
  <1> QED
    BY <1>5, <1>6

\* Monitored PVs change, and callbacks queue events of their own.
LEMMA MonitorsKeep ==
  ASSUME SetpointsInvariant,
         InRangeChanges \/ BlockNamesChange \/ RunControlCallback \/ BlocksCallback
  PROVE  SetpointsInvariant'
  <1> USE SetpointAssumptions
  <1>1. UNCHANGED <<boardVars, data, resending, done, sent, faults, clientVars>>
    BY DEF InRangeChanges, BlockNamesChange, RunControlCallback, BlocksCallback, Changed, Delivered
  <1>2. /\ inRange' \in BOOLEAN /\ blockNames' \in Nat /\ changes' \in 0..MaxChanges
        /\ notify' \subseteq {"run_control", "blocks"}
    <2>1. inRange \in BOOLEAN /\ (UNCHANGED inRange \/ inRange' = ~inRange)
      BY Zenon DEF InRangeChanges, BlockNamesChange, RunControlCallback, BlocksCallback, Changed,
         Delivered, SetpointsInvariant, SetpointsTypeOK
    <2>2. inRange' \in BOOLEAN
      BY <2>1
    <2>3. /\ blockNames' = blockNames \/ blockNames' = blockNames + 1
          /\ changes' = changes \/ (changes < MaxChanges /\ changes' = changes + 1)
          /\ notify' \subseteq notify \cup {"run_control", "blocks"}
      BY DEF InRangeChanges, BlockNamesChange, RunControlCallback, BlocksCallback, Changed, Delivered
    <2> QED
      BY <2>2, <2>3 DEF SetpointsInvariant, SetpointsTypeOK, Assumptions
  <1>3. CASE InRangeChanges \/ BlockNamesChange
    <2>1. UNCHANGED queue
      BY <1>3 DEF InRangeChanges, BlockNamesChange, Changed
    <2>2. SetpointsTypeOK'
      BY <1>1, <1>2, <2>1 DEF SetpointsInvariant, SetpointsTypeOK, boardVars, clientVars
    <2> QED
      BY <1>1, <2>1, <2>2, MasksLeftAlone DEF SetpointsInvariant, boardVars, Resent, VetoesAt
  <1>4. CASE RunControlCallback \/ BlocksCallback
    <2>1. PICK pr \in Priority, event \in Event : queue' = PutItem(queue, pr, event)
      <3>1. RunControlUpdateEvent(~inRange) \in Event /\ BlocksUpdateEvent(blockNames) \in Event
        BY DEF RunControlUpdateEvent, BlocksUpdateEvent, Event, SetpointsInvariant, SetpointsTypeOK
      <3>2. "HIGH" \in Priority /\ "LOW" \in Priority
        BY DEF Priority
      <3> QED
        BY <1>4, <3>1, <3>2 DEF RunControlCallback, BlocksCallback
    <2>2. queue' \in [Priority -> Seq(Event)]
      BY <2>1, PutItemType DEF SetpointsInvariant, SetpointsTypeOK
    <2>3. SetpointsTypeOK'
      BY <1>1, <1>2, <2>2 DEF SetpointsInvariant, SetpointsTypeOK, boardVars, clientVars
    <2>4. Resent => Resent'
      BY <1>1, <2>1, PutKeepsResent DEF SetpointsInvariant
    <2> QED
      BY <1>1, <2>3, <2>4, MasksLeftAlone DEF SetpointsInvariant, boardVars
  <1> QED
    BY <1>3, <1>4

\* A restart sends the vetoes it loads.
LEMMA RestartResends == ASSUME SetpointsInvariant, Restart PROVE SetpointsInvariant'
  <1> USE SetpointAssumptions
  <1>1. data.vetoes \in Seq(VetoValue) /\ HardMaskFits(data.vetoes)
    BY DEF SetpointsInvariant, SetpointsTypeOK, VetoesOnTheWay
  <1>2. /\ data' \in [sp : [Scalar -> Int], vetoes : Seq(VetoValue), blocks : Nat]
        /\ data'.vetoes = data.vetoes
    BY <1>1, InitSettings DEF Restart, NewData
  <1>3. queue' = BootQueue(data.vetoes) /\ queue' \in [Priority -> Seq(Event)]
    BY <1>1, BootQueueResends DEF Restart
  <1>4. SetpointsTypeOK'
    BY <1>2, <1>3 DEF Restart, Fault, SetpointsInvariant, SetpointsTypeOK, boardVars
  <1>5. Resent'
    <2> DEFINE event == VetoesUpdateEvent(data.vetoes, NoPut)
    <2>1. event.type = "vetoes" /\ event.array = data.vetoes
      BY DEF VetoesUpdateEvent
    <2> HIDE DEF event
    <2>2. queue'["HIGH"] = <<event>>
      BY <1>1, <1>3, BootQueueResends DEF event
    <2>3. Len(queue'["HIGH"]) = 1 /\ queue'["HIGH"][1] = event
      BY <2>2
    <2> QED
      BY <1>2, <2>1, <2>3 DEF Resent, VetoesAt
  <1>6. VetoesOnTheWay'
    BY <1>1, <1>2, <1>5 DEF VetoesOnTheWay, HardMaskFits
  <1> QED
    BY <1>4, <1>6 DEF SetpointsInvariant

LEMMA SetpointsStep == SetpointsInvariant /\ [Next]_vars => SetpointsInvariant'
  <1> SUFFICES ASSUME SetpointsInvariant, [Next]_vars PROVE SetpointsInvariant'
    OBVIOUS
  <1>1. CASE UNCHANGED vars
    <2>1. SetpointsTypeOK'
      BY <1>1 DEF vars, boardVars, clientVars, monitorVars, SetpointsInvariant, SetpointsTypeOK
    <2> QED
      BY <1>1, <2>1, MasksLeftAlone
         DEF vars, boardVars, SetpointsInvariant, Resent, VetoesAt
  <1>2. CASE ClientRequest \/ \E p \in PutId : Answer(p)
    BY <1>2, ClientKeeps DEF ClientRequest
  <1>3. CASE WorkerStep \/ SetpointFails \/ VetoesFail \/ BeginFails \/ RunControlFails
    BY <1>3, SetpointKeeps, VetoesKeep, BeginKeeps, ResendKeeps, MonitorHandlersKeep DEF WorkerStep
  <1> QED
    BY <1>1, <1>2, <1>3, MonitorsKeep, RestartResends DEF Next

LEMMA SetpointsInvariantHolds == Spec => []SetpointsInvariant
  BY SetpointsInit, SetpointsStep, PTL DEF Spec

\* Whatever clients put, a register only gets values that fit it, and the frame
\* sync delay none above its limit (static_pvs.py, worker_event_handlers.py).
THEOREM RegistersHoldWhatFits == Spec => []SetpointsTypeOK
  <1>1. SetpointsInvariant => SetpointsTypeOK
    BY DEF SetpointsInvariant
  <1> QED
    BY <1>1, SetpointsInvariantHolds, PTL

\* With no veto change queued, board and Kafka have each veto at its bit, after
\* any number of restarts (serve, handle_vetoes_change, array_to_mask).
THEOREM EveryVetoAtItsBit == Spec => []VetoBitsInPlace
  BY SetpointsInvariantHolds, InvariantGivesBits, PTL
------------------------------------------------------------------------------
\* Monitors: the change that is dealt with last is the latest one.

LacksType(s, type) == \A i \in 1..Len(s) : s[i].type # type

\* Event e is in the queue, and nothing of its type comes after it.
LastIs(s, e) ==
    \E i \in 1..Len(s) : s[i] = e /\ \A j \in (i + 1)..Len(s) : s[j].type # e.type

\* LOW is for the block names.
NamesAreLow ==
    /\ LacksType(queue["HIGH"], "blocks")
    /\ \A i \in 1..Len(queue["LOW"]) : queue["LOW"][i].type = "blocks"

VetoComes ==
    faults \subseteq {"restart"} /\ "run_control" \notin notify =>
        \/ LastIs(queue["HIGH"], RunControlUpdateEvent(~inRange))
        \/ LacksType(queue["HIGH"], "run_control") /\ rcVeto = ~inRange

NamesCome ==
    "blocks" \notin notify =>
        \/ LastIs(queue["LOW"], BlocksUpdateEvent(blockNames))
        \/ LacksType(queue["LOW"], "blocks") /\ data.blocks = blockNames

\* When a monitor has nothing to deliver, the last of its events in the queue is
\* the latest change, or that has been dealt with.
MonitorsInvariant == NamesAreLow /\ VetoComes /\ NamesCome

LEMMA AppendIsLast ==
  ASSUME NEW S, NEW s \in Seq(S), NEW e \in S
  PROVE  LastIs(Append(s, e), e)
  <1>1. /\ Len(s) + 1 \in 1..Len(Append(s, e)) /\ Append(s, e)[Len(s) + 1] = e
        /\ Len(Append(s, e)) = Len(s) + 1 /\ Len(s) \in Nat
    OBVIOUS
  <1>2. \A j \in ((Len(s) + 1) + 1)..Len(Append(s, e)) : Append(s, e)[j].type # e.type
    BY <1>1
  <1> QED
    BY <1>1, <1>2 DEF LastIs

\* An event of another type may come after it.
LEMMA AppendOther ==
  ASSUME NEW S, NEW s \in Seq(S), NEW x \in S, NEW type, x.type # type
  PROVE  /\ LacksType(s, type) => LacksType(Append(s, x), type)
         /\ \A e : e.type = type /\ LastIs(s, e) => LastIs(Append(s, x), e)
  <1> DEFINE t == Append(s, x)
  <1>1. /\ Len(s) \in Nat /\ Len(t) = Len(s) + 1 /\ t[Len(s) + 1] = x
        /\ \A i \in 1..Len(s) : i \in 1..Len(t) /\ t[i] = s[i]
    OBVIOUS
  <1> HIDE DEF t
  <1>2. LacksType(s, type) => LacksType(t, type)
    BY <1>1 DEF LacksType
  <1>3. ASSUME NEW e, e.type = type, LastIs(s, e) PROVE LastIs(t, e)
    <2>1. PICK i \in 1..Len(s) : s[i] = e /\ \A j \in (i + 1)..Len(s) : s[j].type # type
      BY <1>3 DEF LastIs
    <2>2. \A j \in (i + 1)..Len(t) : t[j].type # e.type
      BY <1>1, <1>3, <2>1
    <2>3. i \in 1..Len(t) /\ t[i] = e
      BY <1>1, <2>1
    <2> QED
      BY <2>2, <2>3 DEF LastIs
  <1> QED
    BY <1>2, <1>3 DEF t

\* Taking the first event leaves the last one, or was taking it.
LEMMA TailLast ==
  ASSUME NEW S, NEW s \in Seq(S), s # << >>
  PROVE  /\ \A type : LacksType(s, type) => LacksType(Tail(s), type)
         /\ \A e : LastIs(s, e) =>
                LastIs(Tail(s), e) \/ (Head(s) = e /\ LacksType(Tail(s), e.type))
  <1> DEFINE t == Tail(s)
  <1>1. /\ Len(s) \in Nat /\ Len(t) = Len(s) - 1 /\ Head(s) = s[1]
        /\ \A i \in 1..Len(t) : i + 1 \in 1..Len(s) /\ t[i] = s[i + 1]
    BY HeadTailProperties
  <1> HIDE DEF t
  <1>2. \A type : LacksType(s, type) => LacksType(t, type)
    BY <1>1 DEF LacksType
  <1>3. ASSUME NEW e, LastIs(s, e)
        PROVE  LastIs(t, e) \/ (Head(s) = e /\ LacksType(t, e.type))
    <2>1. PICK i \in 1..Len(s) : s[i] = e /\ \A j \in (i + 1)..Len(s) : s[j].type # e.type
      BY <1>3 DEF LastIs
    <2>2. \A j \in i..Len(t) : t[j].type # e.type
      BY <1>1, <2>1
    <2>3. CASE i = 1
      BY <1>1, <2>1, <2>2, <2>3 DEF LacksType
    <2>4. CASE i # 1
      <3>1. i - 1 \in 1..Len(t) /\ t[i - 1] = e /\ (i - 1) + 1 = i
        BY <1>1, <2>1, <2>4
      <3> QED
        BY <2>2, <3>1 DEF LastIs
    <2> QED
      BY <2>3, <2>4
  <1> QED
    BY <1>2, <1>3 DEF t

LEMMA InvariantGivesMonitors ==
  ASSUME SetpointsInvariant, MonitorsInvariant PROVE MonitorsAgree
  <1>1. "HIGH" \in Priority /\ "LOW" \in Priority
    BY DEF Priority
  <1>2. ASSUME NEW pr \in Priority, NEW type, \A x \in Items(queue) : x.type # type
        PROVE  LacksType(queue[pr], type)
    BY <1>2, ItemsMembership DEF LacksType
  <1>3. ASSUME NEW pr \in Priority, NEW e, LastIs(queue[pr], e)
        PROVE  ~LacksType(queue[pr], e.type)
    BY <1>3 DEF LastIs, LacksType
  <1>4. /\ RunControlUpdateEvent(~inRange).type = "run_control"
        /\ BlocksUpdateEvent(blockNames).type = "blocks"
    BY DEF RunControlUpdateEvent, BlocksUpdateEvent
  <1>5. ASSUME faults \subseteq {"restart"}, ~OnItsWay("run_control")
        PROVE  rcVeto = ~inRange
    <2>1. LacksType(queue["HIGH"], "run_control") /\ "run_control" \notin notify
      BY <1>1, <1>2, <1>5 DEF OnItsWay
    <2>2. ~LastIs(queue["HIGH"], RunControlUpdateEvent(~inRange))
      BY <1>1, <1>3, <1>4, <2>1
    <2> QED
      BY <1>5, <2>1, <2>2 DEF MonitorsInvariant, VetoComes
  <1>6. ASSUME ~OnItsWay("blocks")
        PROVE  data.blocks = blockNames
    <2>1. LacksType(queue["LOW"], "blocks") /\ "blocks" \notin notify
      BY <1>1, <1>2, <1>6 DEF OnItsWay
    <2>2. ~LastIs(queue["LOW"], BlocksUpdateEvent(blockNames))
      BY <1>1, <1>3, <1>4, <2>1
    <2> QED
      BY <2>1, <2>2 DEF MonitorsInvariant, NamesCome
  <1> QED
    BY <1>5, <1>6 DEF MonitorsAgree

\* A queue of nothing but the veto configuration.
LEMMA BootQueueItems ==
  ASSUME NEW vetoes \in Seq(VetoValue)
  PROVE  LET q == BootQueue(vetoes)
         IN  /\ Len(q["HIGH"]) = 1 /\ q["HIGH"][1] = VetoesUpdateEvent(vetoes, NoPut)
             /\ Len(q["LOW"]) = 0
  <1> DEFINE event == VetoesUpdateEvent(vetoes, NoPut)
             q == BootQueue(vetoes)
  <1> HIDE DEF event
  <1>1. q["HIGH"] = <<event>>
    BY BootQueueResends DEF event
  <1>2. q["LOW"] = << >>
    BY DEF BootQueue, PutItem, EmptyQueue, Priority
  <1> HIDE DEF q
  <1>3. Len(q["HIGH"]) = 1 /\ q["HIGH"][1] = event /\ Len(q["LOW"]) = 0
    BY <1>1, <1>2
  <1> QED
    BY <1>3 DEF event, q

\* A start: every monitor has a value to deliver.
LEMMA MonitorsStart ==
  ASSUME NEW vetoes \in Seq(VetoValue), queue = BootQueue(vetoes),
         notify = {"run_control", "blocks"}
  PROVE  MonitorsInvariant
  <1> DEFINE event == VetoesUpdateEvent(vetoes, NoPut)
  <1>1. event.type # "blocks"
    BY DEF VetoesUpdateEvent
  <1> HIDE DEF event
  <1>2. Len(queue["HIGH"]) = 1 /\ queue["HIGH"][1] = event /\ Len(queue["LOW"]) = 0
    BY BootQueueItems DEF event
  <1>3. NamesAreLow
    BY <1>1, <1>2 DEF NamesAreLow, LacksType
  <1> QED
    BY <1>3 DEF MonitorsInvariant, VetoComes, NamesCome

\* Puts are no news of a monitor.
LEMMA PutKeepsMonitors ==
  ASSUME SetpointsTypeOK, MonitorsInvariant, NEW event \in Event, event.type \in PutType,
         queue' = PutItem(queue, "HIGH", event),
         UNCHANGED <<rcVeto, data, inRange, blockNames, notify, faults>>
  PROVE  MonitorsInvariant'
  <1>1. /\ queue["HIGH"] \in Seq(Event)
        /\ queue'["HIGH"] = Append(queue["HIGH"], event) /\ queue'["LOW"] = queue["LOW"]
    BY DEF SetpointsTypeOK, PutItem, Priority
  <1>2. event.type # "blocks" /\ event.type # "run_control"
    BY DEF PutType, SetpointPV, Scalar
  <1>3. RunControlUpdateEvent(~inRange).type = "run_control"
    BY DEF RunControlUpdateEvent
  <1>4. NamesAreLow'
    BY <1>1, <1>2, AppendOther DEF MonitorsInvariant, NamesAreLow
  <1>5. VetoComes'
    <2>1. LacksType(queue["HIGH"], "run_control") => LacksType(queue'["HIGH"], "run_control")
      BY <1>1, <1>2, AppendOther
    <2>2. LastIs(queue["HIGH"], RunControlUpdateEvent(~inRange))
            => LastIs(queue'["HIGH"], RunControlUpdateEvent(~inRange))
      BY <1>1, <1>2, <1>3, AppendOther
    <2> QED
      BY <2>1, <2>2 DEF MonitorsInvariant, VetoComes
  <1>6. NamesCome'
    BY <1>1 DEF MonitorsInvariant, NamesCome
  <1> QED
    BY <1>4, <1>5, <1>6 DEF MonitorsInvariant

\* A handler deals with the last news of a monitor, or leaves it in the queue.
LEMMA TakeKeepsMonitors ==
  ASSUME SetpointsTypeOK, MonitorsInvariant, NEW types, Take(types),
         faults \subseteq faults',
         \/ rcVeto' = IF NextItem(queue).type = "run_control" THEN NextItem(queue).veto ELSE rcVeto
         \/ ~(faults' \subseteq {"restart"}),
         data'.blocks = IF NextItem(queue).type = "blocks" THEN NextItem(queue).names
                        ELSE data.blocks
  PROVE  MonitorsInvariant'
  <1> DEFINE e == NextItem(queue)
             veto == RunControlUpdateEvent(~inRange)
             names == BlocksUpdateEvent(blockNames)
  <1>1. UNCHANGED <<inRange, blockNames, notify>> /\ queue' = WithoutNext(queue)
        /\ ~IsEmpty(queue)
    BY DEF Take, monitorVars
  <1>2. queue["HIGH"] \in Seq(Event) /\ queue["LOW"] \in Seq(Event)
    BY DEF SetpointsTypeOK, Priority
  <1>3. veto.type = "run_control" /\ veto.veto = ~inRange
        /\ names.type = "blocks" /\ names.names = blockNames
    BY DEF RunControlUpdateEvent, BlocksUpdateEvent
  <1> HIDE DEF e, veto, names
  <1>4. CASE queue["HIGH"] # << >>
    <2>1. /\ queue'["HIGH"] = Tail(queue["HIGH"]) /\ queue'["LOW"] = queue["LOW"]
          /\ e = Head(queue["HIGH"])
      BY <1>1, <1>4 DEF WithoutNext, NextItem, NextPriority, SetpointsTypeOK, Priority, e
    <2>2. e.type # "blocks"
      BY <1>2, <1>4, <2>1, HeadTailProperties, EmptySeq
         DEF MonitorsInvariant, NamesAreLow, LacksType
    <2>3. LacksType(queue["HIGH"], "run_control") => e.type # "run_control"
      BY <1>2, <1>4, <2>1, HeadTailProperties, EmptySeq DEF LacksType
    <2>4. NamesAreLow'
      BY <1>2, <1>4, <2>1, TailLast DEF MonitorsInvariant, NamesAreLow
    <2>5. NamesCome'
      BY <1>1, <2>1, <2>2 DEF MonitorsInvariant, NamesCome, e
    <2>6. VetoComes'
      <3>1. SUFFICES ASSUME faults' \subseteq {"restart"}, "run_control" \notin notify
                     PROVE  \/ LastIs(queue'["HIGH"], veto)
                            \/ LacksType(queue'["HIGH"], "run_control") /\ rcVeto' = ~inRange
        BY <1>1 DEF VetoComes, veto
      <3>2. \/ LastIs(queue["HIGH"], veto)
            \/ LacksType(queue["HIGH"], "run_control") /\ rcVeto = ~inRange
        BY <3>1 DEF MonitorsInvariant, VetoComes, veto
      <3>3. rcVeto' = IF e.type = "run_control" THEN e.veto ELSE rcVeto
        BY <3>1 DEF e
      <3>4. CASE LastIs(queue["HIGH"], veto)
        BY <1>2, <1>3, <1>4, <2>1, <3>3, <3>4, TailLast
      <3>5. CASE LacksType(queue["HIGH"], "run_control") /\ rcVeto = ~inRange
        BY <1>2, <1>4, <2>1, <2>3, <3>3, <3>5, TailLast
      <3> QED
        BY <3>2, <3>4, <3>5
    <2> QED
      BY <2>4, <2>5, <2>6 DEF MonitorsInvariant
  <1>5. CASE queue["HIGH"] = << >>
    <2>1. /\ queue'["LOW"] = Tail(queue["LOW"]) /\ queue'["HIGH"] = queue["HIGH"]
          /\ e = Head(queue["LOW"]) /\ queue["LOW"] # << >>
      BY <1>1, <1>5 DEF WithoutNext, NextItem, NextPriority, IsEmpty, SetpointsTypeOK, Priority, e
    <2>2. e.type = "blocks"
      BY <1>2, <2>1, HeadTailProperties, EmptySeq DEF MonitorsInvariant, NamesAreLow
    <2>3. ~LacksType(queue["LOW"], "blocks")
      BY <1>2, <2>1, <2>2, HeadTailProperties, EmptySeq DEF LacksType
    <2>4. NamesAreLow'
      BY <1>2, <2>1, HeadTailProperties DEF MonitorsInvariant, NamesAreLow
    <2>5. VetoComes'
      BY <1>1, <2>1, <2>2 DEF MonitorsInvariant, VetoComes, e
    <2>6. NamesCome'
      <3>1. SUFFICES ASSUME "blocks" \notin notify
                     PROVE  \/ LastIs(queue'["LOW"], names)
                            \/ LacksType(queue'["LOW"], "blocks") /\ data'.blocks = blockNames
        BY <1>1 DEF NamesCome, names
      <3>2. LastIs(queue["LOW"], names)
        BY <2>3, <3>1 DEF MonitorsInvariant, NamesCome, names
      <3>3. data'.blocks = e.names
        BY <2>2 DEF e
      <3> QED
        BY <1>2, <1>3, <2>1, <3>2, <3>3, TailLast
    <2> QED
      BY <2>4, <2>5, <2>6 DEF MonitorsInvariant
  <1> QED
    BY <1>4, <1>5

\* A callback queues the latest value at the end of its priority.
LEMMA CallbacksKeepMonitors ==
  ASSUME SetpointsTypeOK, MonitorsInvariant, RunControlCallback \/ BlocksCallback
  PROVE  MonitorsInvariant'
  <1> DEFINE veto == RunControlUpdateEvent(~inRange)
             names == BlocksUpdateEvent(blockNames)
  <1>1. /\ veto \in Event /\ veto.type = "run_control"
        /\ names \in Event /\ names.type = "blocks"
    BY DEF RunControlUpdateEvent, BlocksUpdateEvent, Event, SetpointsTypeOK
  <1>2. queue["HIGH"] \in Seq(Event) /\ queue["LOW"] \in Seq(Event)
    BY DEF SetpointsTypeOK, Priority
  <1>3. UNCHANGED <<rcVeto, data, faults, inRange, blockNames>>
    BY DEF RunControlCallback, BlocksCallback, Delivered, boardVars
  <1> HIDE DEF veto, names
  <1>4. CASE RunControlCallback
    <2>1. /\ queue'["HIGH"] = Append(queue["HIGH"], veto) /\ queue'["LOW"] = queue["LOW"]
          /\ "blocks" \notin notify' => "blocks" \notin notify
      BY <1>4 DEF RunControlCallback, Delivered, PutItem, SetpointsTypeOK, Priority, veto
    <2>2. LastIs(queue'["HIGH"], veto)
      BY <1>1, <1>2, <2>1, AppendIsLast
    <2>3. NamesAreLow'
      BY <1>1, <1>2, <2>1, AppendOther DEF MonitorsInvariant, NamesAreLow
    <2> QED
      BY <1>3, <2>1, <2>2, <2>3 DEF MonitorsInvariant, VetoComes, NamesCome, veto
  <1>5. CASE BlocksCallback
    <2>1. /\ queue'["LOW"] = Append(queue["LOW"], names) /\ queue'["HIGH"] = queue["HIGH"]
          /\ "run_control" \notin notify' => "run_control" \notin notify
      BY <1>5 DEF BlocksCallback, Delivered, PutItem, SetpointsTypeOK, Priority, names
    <2>2. LastIs(queue'["LOW"], names)
      BY <1>1, <1>2, <2>1, AppendIsLast
    <2>3. NamesAreLow'
      BY <1>1, <1>2, <2>1 DEF MonitorsInvariant, NamesAreLow
    <2> QED
      BY <1>3, <2>1, <2>2, <2>3 DEF MonitorsInvariant, VetoComes, NamesCome, names
  <1> QED
    BY <1>4, <1>5

LEMMA MonitorsStep ==
  ASSUME SetpointsInvariant, MonitorsInvariant, [Next]_vars
  PROVE  MonitorsInvariant'
  <1>0. SetpointsTypeOK
    BY DEF SetpointsInvariant
  <1>1. CASE UNCHANGED vars
    BY <1>1 DEF vars, boardVars, monitorVars, MonitorsInvariant, NamesAreLow, VetoComes, NamesCome,
       LacksType, LastIs
  <1>2. ASSUME NEW p \in PutId, NEW event \in Event, event.type \in PutType,
               Start(p, event), Queued(p, event)
        PROVE  MonitorsInvariant'
    BY <1>0, <1>2, PutKeepsMonitors DEF Start, Queued, boardVars, monitorVars
  <1>3. ASSUME UNCHANGED <<boardVars, data, queue, faults, monitorVars>>
        PROVE  MonitorsInvariant'
    BY <1>3 DEF boardVars, monitorVars, MonitorsInvariant, NamesAreLow, VetoComes, NamesCome,
       LacksType, LastIs
  <1>4. CASE ClientRequest
    <2>1. ASSUME NEW p \in PutId, NEW r \in Requests, RequestSetpoint(p, r)
          PROVE  MonitorsInvariant'
      <3> DEFINE event == SetEvent(r.field, r.value, p)
      <3>1. r.field \in Scalar /\ r.value \in Int
        BY SetpointAssumptions DEF Assumptions
      <3>2. /\ ~Refused(r.field, r.value) => event \in Event
            /\ event.type \in PutType
        BY <3>1 DEF Event, SetEvent, SetpointPV, PutType
      <3> HIDE DEF event
      <3>3. Start(p, event) /\ (Refused(r.field, r.value) => UNCHANGED queue)
            /\ (~Refused(r.field, r.value) => Queued(p, event))
        BY <2>1 DEF RequestSetpoint, event
      <3> QED
        BY <1>2, <1>3, <3>2, <3>3 DEF Start
    <2>2. ASSUME NEW p \in PutId, NEW array \in VetoRequests, RequestVetoes(p, array)
          PROVE  MonitorsInvariant'
      <3> DEFINE event == VetoesUpdateEvent(array, p)
      <3>1. event \in Event /\ event.type \in PutType
        BY SetpointAssumptions DEF VetoesUpdateEvent, Event, Assumptions, SetpointPV, PutType
      <3> HIDE DEF event
      <3>2. Start(p, event) /\ Queued(p, event)
        BY <2>2 DEF RequestVetoes, event
      <3> QED
        BY <1>2, <3>1, <3>2
    <2>3. ASSUME NEW p \in PutId, RequestBegin(p)
          PROVE  MonitorsInvariant'
      <3>1. BeginEvent(p) \in Event /\ BeginEvent(p).type \in PutType
        BY DEF BeginEvent, Event, PutType
      <3> QED
        BY <1>2, <2>3, <3>1 DEF RequestBegin
    <2> QED
      BY <1>4, <2>1, <2>2, <2>3 DEF ClientRequest
  <1>5. CASE \E p \in PutId : Answer(p)
    BY <1>3, <1>5 DEF Answer
  <1>6. CASE HandleSetpoint \/ SetpointOverflows \/ SetpointFails
    <2>1. /\ Take(Scalar) /\ rcVeto' = rcVeto /\ data'.blocks = data.blocks
          /\ faults \subseteq faults'
      BY <1>0, <1>6 DEF HandleSetpoint, SetpointOverflows, SetpointFails, boardVars, Fault,
         SetpointsTypeOK
    <2>2. NextItem(queue).type # "run_control" /\ NextItem(queue).type # "blocks"
      BY <2>1 DEF Take, Scalar
    <2> QED
      BY <1>0, <2>1, <2>2, TakeKeepsMonitors
  <1>7. CASE HandleVetoes \/ VetoesOverflow \/ VetoesFail
    <2>1. /\ Take({"vetoes"}) /\ rcVeto' = rcVeto /\ data'.blocks = data.blocks
          /\ faults \subseteq faults'
      BY <1>0, <1>7 DEF HandleVetoes, VetoesOverflow, VetoesFail, boardVars, Fault,
         SetpointsTypeOK
    <2>2. NextItem(queue).type # "run_control" /\ NextItem(queue).type # "blocks"
      BY <2>1 DEF Take
    <2> QED
      BY <1>0, <2>1, <2>2, TakeKeepsMonitors
  <1>12. CASE HandleBegin \/ RefuseBegin \/ BeginFails
    <2>1. /\ Take({"begin"}) /\ rcVeto' = rcVeto /\ faults \subseteq faults'
          /\ data' = data \/ data' = [data EXCEPT !.sp = FirstPeriod(@, 1)]
      BY <1>12 DEF HandleBegin, RefuseBegin, BeginFails, boardVars, Fault
    <2>2. NextItem(queue).type = "begin"
      BY <2>1 DEF Take
    <2>3. data'.blocks = data.blocks
      BY <1>0, <2>1, FirstPeriodType, SetpointAssumptions
    <2> QED
      BY <1>0, <2>1, <2>2, <2>3, TakeKeepsMonitors
  <1>13. CASE ResendVetoes
    <2> DEFINE event == VetoesUpdateEvent(data.vetoes, NoPut)
    <2>1. event \in Event /\ event.type \in PutType
      BY <1>0 DEF VetoesUpdateEvent, Event, PutType, SetpointPV, SetpointsTypeOK
    <2>2. /\ queue' = PutItem(queue, "HIGH", event)
          /\ UNCHANGED <<rcVeto, data, inRange, blockNames, notify, faults>>
      BY <1>13 DEF ResendVetoes, boardVars, monitorVars
    <2> QED
      BY <1>0, <2>1, <2>2, PutKeepsMonitors
  <1>8. CASE HandleRunControl \/ RunControlFails
    <2>1. /\ Take({"run_control"}) /\ UNCHANGED data
          /\ faults \subseteq faults'
          /\ rcVeto' = NextItem(queue).veto \/ ~(faults' \subseteq {"restart"})
      BY <1>8 DEF HandleRunControl, RunControlFails, Fault
    <2>2. NextItem(queue).type = "run_control"
      BY <2>1 DEF Take
    <2> QED
      BY <1>0, <2>1, <2>2, TakeKeepsMonitors
  <1>9. CASE HandleBlocks
    <2>1. /\ Take({"blocks"}) /\ rcVeto' = rcVeto /\ faults' = faults
          /\ data'.blocks = NextItem(queue).names
      BY <1>0, <1>9 DEF HandleBlocks, boardVars, SetpointsTypeOK
    <2>2. NextItem(queue).type = "blocks"
      BY <2>1 DEF Take
    <2> QED
      BY <1>0, <2>1, <2>2, TakeKeepsMonitors
  <1>10. CASE InRangeChanges \/ BlockNamesChange
    <2>1. /\ UNCHANGED <<queue, rcVeto, data, faults>> /\ notify \subseteq notify'
          /\ "run_control" \notin notify' => inRange' = inRange
          /\ "blocks" \notin notify' => blockNames' = blockNames
      BY <1>10 DEF InRangeChanges, BlockNamesChange, Changed, boardVars
    <2> QED
      BY <2>1 DEF MonitorsInvariant, NamesAreLow, VetoComes, NamesCome
  <1>11. CASE Restart
    <2>1. MonitorsInvariant'
      <3>1. data.vetoes \in Seq(VetoValue)
        BY <1>0 DEF SetpointsTypeOK
      <3> DEFINE event == VetoesUpdateEvent(data.vetoes, NoPut)
      <3>2. event.type # "blocks"
        BY DEF VetoesUpdateEvent
      <3> HIDE DEF event
      <3>3. queue' = BootQueue(data.vetoes) /\ notify' = {"run_control", "blocks"}
        BY <1>11 DEF Restart
      <3>4. Len(queue'["HIGH"]) = 1 /\ queue'["HIGH"][1] = event /\ Len(queue'["LOW"]) = 0
        BY <3>1, <3>3, BootQueueItems DEF event
      <3>5. NamesAreLow'
        BY <3>2, <3>4 DEF NamesAreLow, LacksType
      <3> QED
        BY <3>3, <3>5 DEF MonitorsInvariant, VetoComes, NamesCome
    <2> QED
      BY <2>1
  <1> QED
    BY <1>1, <1>4, <1>5, <1>6, <1>7, <1>8, <1>9, <1>10, <1>11, <1>12, <1>13,
       CallbacksKeepMonitors, <1>0
       DEF Next, WorkerStep

\* With no change of a monitored PV on its way, the board has the run control
\* veto that INRANGE asks for and the next run the block names of the block
\* server, after any number of changes and restarts (camonitor_callbacks.py).
THEOREM MonitorsAlwaysAgree == Spec => []MonitorsAgree
  <1>1. Init => MonitorsInvariant
    <2>1. DefaultVetoes \in Seq(VetoValue)
      BY SetpointAssumptions DEF Assumptions
    <2> QED
      BY <2>1, MonitorsStart DEF Init
  <1>2. SetpointsInvariant /\ MonitorsInvariant /\ [Next]_vars => MonitorsInvariant'
    BY MonitorsStep
  <1>3. SetpointsInvariant /\ MonitorsInvariant => MonitorsAgree
    BY InvariantGivesMonitors
  <1> QED
    BY <1>1, <1>2, <1>3, SetpointsInvariantHolds, PTL DEF Spec
------------------------------------------------------------------------------
\* Puts: each has one event, and no other put of its PV is waiting unless the PV
\* is in overlapped.

PutsTyped ==
    /\ wanted = [p \in PutId |-> wanted[p]]
    /\ spPvs = [pv \in SetpointPV |-> spPvs[pv]]
    /\ \A p \in PutId : puts[p] = "unused" => done[p] = "clear" /\ wanted[p].type = "none"

\* The event of a put that no handler has dealt with.
IsPending(e) ==
    e.put \in PutId /\ puts[e.put] = "waiting" /\ done[e.put] = "clear" /\ wanted[e.put] = e

IsPut(e) == e.type \in PutType /\ e.put # NoPut

IsPutAt(i) == i \in 1..Len(queue["HIGH"]) /\ IsPut(queue["HIGH"][i])

EventsArePuts ==
    /\ \A i \in 1..Len(queue["HIGH"]) : IsPutAt(i) => IsPending(queue["HIGH"][i])
    /\ \A i, j \in 1..Len(queue["HIGH"]) :
          i # j /\ IsPutAt(i) /\ IsPutAt(j) => queue["HIGH"][i].put # queue["HIGH"][j].put

\* Veto changes that clients put, and the configuration that a start or a begin
\* sends again.
IsVetoPut(e) == e.type = "vetoes" /\ e.put # NoPut
IsSentAgain(e) == e.type = "vetoes" /\ e.put = NoPut

\* In a queue where no put of the vetoes comes behind a begin, what is sent again
\* is the array there is, and comes before any put that changes it.
Ordered(s, array) ==
    /\ \A i \in 1..Len(s) : IsSentAgain(s[i]) => s[i].array = array
    /\ \A i \in 1..Len(s) : \A j \in (i + 1)..Len(s) :
          /\ IsVetoPut(s[i]) => ~IsSentAgain(s[j])
          /\ s[i].type = "begin" => ~IsVetoPut(s[j])

NoVetoPuts(s) == \A i \in 1..Len(s) : ~IsVetoPut(s[i])

VetoOrder ==
    "vetoes" \notin overlapped =>
        Ordered(queue["HIGH"], data.vetoes) /\ (resending => NoVetoPuts(queue["HIGH"]))

OnePutAtATime ==
    \A p, q \in Waiting :
        wanted[p].type = wanted[q].type /\ wanted[p].type \in SetpointPV \ overlapped => p = q

Excused(pv) == pv = "period" /\ PeriodReset

\* Between its handling and its answer a put is ahead of its PV; a begin may set
\* the period back to 1 at any time.
PvsFollow ==
    \A pv \in SetpointPV \ overlapped :
        \/ Excused(pv)
        \/ /\ \A p \in Waiting :
                wanted[p].type = pv /\ done[p] = "set" => Setpoint(pv) = Asked(wanted[p])
           /\ (\A p \in Waiting : wanted[p].type = pv => done[p] # "set") =>
                spPvs[pv] = Setpoint(pv)

\* A put that has been written: its client knows, or is about to.
IsWritten(p) == puts[p] = "ok" \/ (puts[p] = "waiting" /\ done[p] = "set")

ReadsBackAs(pv) == Shown(pv, registers[pv]) = data.sp[pv]

ReadsBack ==
    faults = {} =>
        \A p \in PutId : wanted[p].type \in Scalar /\ IsWritten(p) => ReadsBackAs(wanted[p].type)

PutsInvariant ==
    PutsTyped /\ EventsArePuts /\ VetoOrder /\ OnePutAtATime /\ PvsFollow /\ ReadsBack

LEMMA InvariantGivesSetpoints ==
  ASSUME PutsInvariant PROVE SetpointsAgree
  <1>1. ASSUME NEW pv \in SetpointPV \ overlapped, \A p \in Waiting : wanted[p].type # pv
        PROVE  spPvs[pv] = Setpoint(pv) \/ (pv = "period" /\ PeriodReset)
    BY <1>1 DEF PutsInvariant, PvsFollow, Excused
  <1>2. ASSUME faults = {}, NEW pv \in Scalar, Acknowledged(pv)
        PROVE  Shown(pv, registers[pv]) = data.sp[pv]
    BY <1>2 DEF PutsInvariant, ReadsBack, IsWritten, ReadsBackAs, Acknowledged
  <1> QED
    BY <1>1, <1>2 DEF SetpointsAgree

\* A queue of nothing but the configuration that is sent again.
LEMMA BootKeepsOrder ==
  ASSUME NEW s, NEW array, Len(s) = 1, s[1].type = "vetoes", s[1].put = NoPut, s[1].array = array
  PROVE  Ordered(s, array)
  BY DEF Ordered, IsVetoPut, IsSentAgain

LEMMA PutsStart == Init => PutsInvariant
  <1> SUFFICES ASSUME Init PROVE PutsInvariant
    OBVIOUS
  <1> DEFINE event == VetoesUpdateEvent(DefaultVetoes, NoPut)
  <1>1. DefaultVetoes \in Seq(VetoValue)
    BY SetpointAssumptions DEF Assumptions
  <1>2. event.type = "vetoes" /\ event.put = NoPut /\ event.array = DefaultVetoes
    BY DEF VetoesUpdateEvent
  <1> HIDE DEF event
  <1>3. Len(queue["HIGH"]) = 1 /\ queue["HIGH"][1] = event
    BY <1>1, BootQueueItems DEF Init, event
  <1>4. data.vetoes = DefaultVetoes /\ data.sp = DefaultSetting
    BY DEF Init, NewData
  <1>5. EventsArePuts
    BY <1>2, <1>3 DEF EventsArePuts, IsPutAt, IsPut
  <1>6. Waiting = {}
    BY DEF Init, Waiting
  <1>7. PutsTyped
    BY DEF Init, PutsTyped, NewSpPvs, NothingWanted
  <1>8. PvsFollow
    <2>1. \A pv \in SetpointPV : spPvs[pv] = Setpoint(pv)
      BY <1>4 DEF Init, NewSpPvs, Setpoint, SetpointPV
    <2> QED
      BY <1>6, <2>1 DEF PvsFollow
  <1>9. ReadsBack
    BY DEF Init, ReadsBack, IsWritten
  <1>10. VetoOrder
    <2>1. Ordered(queue["HIGH"], data.vetoes)
      BY <1>2, <1>3, <1>4, BootKeepsOrder
    <2> QED
      BY <2>1 DEF Init, VetoOrder
  <1> QED
    BY <1>5, <1>6, <1>7, <1>8, <1>9, <1>10 DEF PutsInvariant, OnePutAtATime

------------------------------------------------------------------------------
\* The events of the queue.

\* An event that enters is that of a put which has no other, or no put's.
LEMMA AppendKeepsEvents ==
  ASSUME SetpointsTypeOK, EventsArePuts, NEW event \in Event,
         queue'["HIGH"] = Append(queue["HIGH"], event),
         \A x : IsPending(x) => IsPending(x)',
         IsPut(event) =>
             /\ IsPending(event)'
             /\ \A i \in 1..Len(queue["HIGH"]) : IsPutAt(i) => queue["HIGH"][i].put # event.put
  PROVE  EventsArePuts'
  <1> DEFINE high == queue["HIGH"]
             n == Len(high)
  <1>1. /\ n \in Nat /\ Len(high') = n + 1 /\ high'[n + 1] = event
        /\ \A i \in 1..n : high'[i] = high[i]
    <2>1. high \in Seq(Event)
      BY DEF SetpointsTypeOK, Priority
    <2> QED
      BY <2>1
  <1>2. \A i \in 1..n : IsPutAt(i)' <=> IsPutAt(i)
    BY <1>1 DEF IsPutAt, IsPut
  <1>3. ASSUME NEW i \in 1..(n + 1), IsPutAt(i)'
        PROVE  IsPending(high[i])'
    <2>1. CASE i = n + 1
      <3>1. high'[i] = event /\ IsPut(event)
        BY <1>1, <1>3, <2>1 DEF IsPutAt, IsPut
      <3> QED
        BY <3>1 DEF IsPending
    <2>2. CASE i # n + 1
      <3>1. i \in 1..n
        BY <1>1, <2>2
      <3>2. IsPending(high[i])
        BY <1>2, <1>3, <3>1 DEF EventsArePuts
      <3> QED
        BY <1>1, <3>1, <3>2 DEF IsPending
    <2> QED
      BY <2>1, <2>2
  <1>4. ASSUME NEW i \in 1..n, NEW j \in 1..(n + 1), i # j, IsPutAt(i)', IsPutAt(j)'
        PROVE  high'[i].put # high'[j].put
    <2>1. CASE j = n + 1
      <3>1. IsPutAt(i) /\ IsPut(event)
        BY <1>1, <1>2, <1>4, <2>1 DEF IsPutAt, IsPut
      <3> QED
        BY <1>1, <2>1, <3>1
    <2>2. CASE j # n + 1
      BY <1>1, <1>2, <1>4, <2>2 DEF EventsArePuts
    <2> QED
      BY <2>1, <2>2
  <1>5. ASSUME NEW i \in 1..(n + 1), NEW j \in 1..(n + 1), i # j, IsPutAt(i)', IsPutAt(j)'
        PROVE  high'[i].put # high'[j].put
    <2>1. i \in 1..n \/ j \in 1..n
      BY <1>1, <1>5
    <2> QED
      BY <1>4, <1>5, <2>1
  <1> QED
    BY <1>1, <1>3, <1>5 DEF EventsArePuts

\* When the first event is taken, the others are still pending.
LEMMA TakeKeepsEvents ==
  ASSUME SetpointsTypeOK, EventsArePuts, NEW e, queue["HIGH"] # << >>,
         e = Head(queue["HIGH"]), queue'["HIGH"] = Tail(queue["HIGH"]),
         \A x : IsPending(x) /\ (IsPut(e) => x.put # e.put) => IsPending(x)'
  PROVE  EventsArePuts'
  <1> DEFINE high == queue["HIGH"]
             n == Len(high)
  <1>1. /\ n \in Nat /\ n > 0 /\ Len(high') = n - 1 /\ high[1] = e
        /\ \A i \in 1..(n - 1) : high'[i] = high[i + 1]
    <2>1. high \in Seq(Event)
      BY DEF SetpointsTypeOK, Priority
    <2> QED
      BY <2>1, HeadTailProperties, EmptySeq
  <1>2. \A i \in 1..(n - 1) : i + 1 \in 1..n /\ (IsPutAt(i)' <=> IsPutAt(i + 1))
    BY <1>1 DEF IsPutAt, IsPut
  <1>3. ASSUME NEW i \in 1..(n - 1), IsPutAt(i)'
        PROVE  IsPending(high[i])'
    <2>1. IsPutAt(i + 1) /\ i + 1 \in 1..n /\ high'[i] = high[i + 1]
      BY <1>1, <1>2, <1>3
    <2>2. IsPending(high[i + 1])
      BY <2>1 DEF EventsArePuts
    <2>3. IsPut(e) => high[i + 1].put # e.put
      <3>1. 1 \in 1..n /\ i + 1 # 1
        BY <1>1, <1>3
      <3>2. IsPut(e) => IsPutAt(1)
        BY <1>1, <3>1 DEF IsPutAt
      <3> QED
        BY <1>1, <2>1, <3>1, <3>2 DEF EventsArePuts
    <2> QED
      BY <2>1, <2>2, <2>3 DEF IsPending
  <1>4. ASSUME NEW i \in 1..(n - 1), NEW j \in 1..(n - 1), i # j, IsPutAt(i)', IsPutAt(j)'
        PROVE  high'[i].put # high'[j].put
    <2>1. i + 1 # j + 1
      BY <1>1, <1>4
    <2> QED
      BY <1>1, <1>2, <1>4, <2>1 DEF EventsArePuts
  <1> QED
    BY <1>1, <1>3, <1>4 DEF EventsArePuts

\* A step that leaves pending what is pending keeps the events that stay.
LEMMA SameEvents ==
  ASSUME EventsArePuts, queue'["HIGH"] = queue["HIGH"], \A x : IsPending(x) => IsPending(x)'
  PROVE  EventsArePuts'
  <1>1. \A i \in 1..Len(queue["HIGH"]) : IsPutAt(i)' <=> IsPutAt(i)
    BY DEF IsPutAt, IsPut
  <1>2. ASSUME NEW i \in 1..Len(queue["HIGH"]), IsPending(queue["HIGH"][i])
        PROVE  IsPending(queue["HIGH"][i])'
    BY <1>2 DEF IsPending
  <1> QED
    BY <1>1, <1>2 DEF EventsArePuts

\* What enters behind keeps the order when it is no veto change; or the array
\* there is, behind no put that changes it; or a put of the vetoes behind no begin.
LEMMA AppendKeepsOrder ==
  ASSUME NEW S, NEW s \in Seq(S), NEW e \in S, NEW array, Ordered(s, array),
         IsSentAgain(e) => e.array = array /\ NoVetoPuts(s),
         IsVetoPut(e) => \A i \in 1..Len(s) : s[i].type # "begin"
  PROVE  Ordered(Append(s, e), array)
  <1> DEFINE t == Append(s, e)
  <1>1. /\ Len(s) \in Nat /\ Len(t) = Len(s) + 1 /\ t[Len(s) + 1] = e
        /\ \A i \in 1..Len(s) : t[i] = s[i]
    OBVIOUS
  <1> HIDE DEF t
  <1>2. ASSUME NEW i \in 1..Len(t), IsSentAgain(t[i]) PROVE t[i].array = array
    <2>1. i = Len(s) + 1 \/ (i \in 1..Len(s) /\ t[i] = s[i])
      BY <1>1
    <2> QED
      BY <1>1, <1>2, <2>1 DEF Ordered
  <1>3. ASSUME NEW i \in 1..Len(t), NEW j \in (i + 1)..Len(t)
        PROVE  /\ IsVetoPut(t[i]) => ~IsSentAgain(t[j])
               /\ t[i].type = "begin" => ~IsVetoPut(t[j])
    <2>1. i \in 1..Len(s) /\ t[i] = s[i]
      BY <1>1, <1>3
    <2>2. CASE j = Len(s) + 1
      BY <1>1, <2>1, <2>2 DEF NoVetoPuts
    <2>3. CASE j # Len(s) + 1
      <3>1. j \in (i + 1)..Len(s) /\ j \in 1..Len(s) /\ t[j] = s[j]
        BY <1>1, <1>3, <2>3
      <3> QED
        BY <2>1, <3>1 DEF Ordered
    <2> QED
      BY <2>2, <2>3
  <1> QED
    BY <1>2, <1>3 DEF Ordered, t

\* Taking the first event keeps the order, also when it is a put of the vetoes
\* and changes the array; behind a begin there is none.
LEMMA TailKeepsOrder ==
  ASSUME NEW S, NEW s \in Seq(S), s # << >>, NEW array, NEW next, Ordered(s, array),
         next = array \/ IsVetoPut(Head(s))
  PROVE  /\ Ordered(Tail(s), next)
         /\ Head(s).type = "begin" \/ NoVetoPuts(s) => NoVetoPuts(Tail(s))
         /\ IsSentAgain(Head(s)) => Head(s).array = array
  <1> DEFINE t == Tail(s)
  <1>1. /\ Len(s) \in Nat /\ 1 \in 1..Len(s) /\ Len(t) = Len(s) - 1 /\ Head(s) = s[1]
        /\ \A i \in 1..Len(t) : i + 1 \in (1 + 1)..Len(s) /\ t[i] = s[i + 1]
    BY HeadTailProperties, EmptySeq
  <1> HIDE DEF t
  <1>2. ASSUME NEW i \in 1..Len(t), IsSentAgain(t[i]) PROVE t[i].array = next
    <2>1. i + 1 \in 1..Len(s) /\ i + 1 \in (1 + 1)..Len(s) /\ t[i] = s[i + 1]
      BY <1>1
    <2>2. ~IsVetoPut(s[1])
      BY <1>1, <1>2, <2>1 DEF Ordered
    <2> QED
      BY <1>1, <1>2, <2>1, <2>2 DEF Ordered
  <1>3. ASSUME NEW i \in 1..Len(t), NEW j \in (i + 1)..Len(t)
        PROVE  /\ IsVetoPut(t[i]) => ~IsSentAgain(t[j])
               /\ t[i].type = "begin" => ~IsVetoPut(t[j])
    <2>1. /\ i + 1 \in 1..Len(s) /\ t[i] = s[i + 1]
          /\ j + 1 \in ((i + 1) + 1)..Len(s) /\ t[j] = s[j + 1]
      BY <1>1
    <2> QED
      BY <2>1 DEF Ordered
  <1>4. ASSUME Head(s).type = "begin" \/ NoVetoPuts(s) PROVE NoVetoPuts(t)
    <2> SUFFICES ASSUME NEW i \in 1..Len(t) PROVE ~IsVetoPut(t[i])
      BY DEF NoVetoPuts
    <2>1. i + 1 \in 1..Len(s) /\ i + 1 \in (1 + 1)..Len(s) /\ t[i] = s[i + 1]
      BY <1>1
    <2> QED
      BY <1>1, <1>4, <2>1 DEF Ordered, NoVetoPuts
  <1>5. IsSentAgain(Head(s)) => Head(s).array = array
    BY <1>1 DEF Ordered
  <1> QED
    BY <1>2, <1>3, <1>4, <1>5 DEF Ordered, t

------------------------------------------------------------------------------
\* The steps.

\* A new put is the first with its number, and makes its PV overlapped when
\* another put of it is waiting.
LEMMA StartKeepsPuts ==
  ASSUME SetpointsInvariant, PutsInvariant, NEW p \in PutId, NEW event,
         event.type \in PutType, event.put = p, Start(p, event),
         \/ puts' = [puts EXCEPT ![p] = "error"] /\ UNCHANGED queue
         \/ event \in Event /\ Queued(p, event)
  PROVE  PutsInvariant'
  <1>1. /\ puts[p] = "unused" /\ wanted' = [wanted EXCEPT ![p] = event]
        /\ overlapped' = overlapped \cup {pv \in SetpointPV \cap {event.type} : Overlaps(pv)}
        /\ UNCHANGED <<registers, data, spPvs, resending, done, faults>>
    BY DEF Start, boardVars
  <1>2. /\ DOMAIN wanted = PutId /\ DOMAIN puts = PutId
        /\ done[p] = "clear" /\ wanted[p].type = "none"
        /\ spPvs = [pv \in SetpointPV |-> spPvs[pv]]
    BY <1>1 DEF PutsInvariant, PutsTyped, SetpointsInvariant, SetpointsTypeOK
  <1>3. /\ puts'[p] \in {"waiting", "error"} /\ wanted'[p] = event
        /\ \A q \in PutId : q # p => puts'[q] = puts[q] /\ wanted'[q] = wanted[q]
    BY <1>1, <1>2 DEF Queued
  <1>4. p \notin Waiting /\ Waiting' \subseteq Waiting \cup {p}
    BY <1>1, <1>3 DEF Waiting
  <1>5. PutsTyped'
    <2>1. wanted' = [q \in PutId |-> wanted'[q]]
      BY <1>1, <1>2
    <2> QED
      BY <1>1, <1>2, <1>3, <2>1 DEF PutsInvariant, PutsTyped
  <1>6. \A x : IsPending(x) => IsPending(x)' /\ x.put # p
    BY <1>1, <1>3 DEF IsPending
  <1>7. EventsArePuts' /\ VetoOrder'
    <2>1. CASE UNCHANGED queue
      <3>1. EventsArePuts'
        BY <1>1, <1>6, <2>1, SameEvents DEF PutsInvariant
      <3> QED
        BY <1>1, <2>1, <3>1 DEF PutsInvariant, VetoOrder
    <2>2. CASE event \in Event /\ Queued(p, event)
      <3> DEFINE high == queue["HIGH"]
      <3>1. high \in Seq(Event) /\ high' = Append(high, event)
        BY <2>2 DEF Queued, PutItem, SetpointsInvariant, SetpointsTypeOK, Priority
      <3>2. IsPending(event)'
        BY <1>1, <1>2, <1>3, <2>2 DEF IsPending, Queued
      <3>3. p # NoPut
        BY SetpointAssumptions DEF PutId, NoPut, Assumptions
      <3>4. \A i \in 1..Len(high) : IsPutAt(i) => high[i].put # event.put
        BY <1>6, <3>3 DEF PutsInvariant, EventsArePuts
      <3>5. EventsArePuts'
        BY <1>1, <1>6, <2>2, <3>1, <3>2, <3>4, AppendKeepsEvents
           DEF SetpointsInvariant, PutsInvariant
      <3>6. ASSUME "vetoes" \notin overlapped'
            PROVE  Ordered(high', data.vetoes) /\ (resending => NoVetoPuts(high'))
        <4>1. Ordered(high, data.vetoes) /\ (resending => NoVetoPuts(high)) /\ ~IsSentAgain(event)
          BY <1>1, <3>3, <3>6 DEF PutsInvariant, VetoOrder, IsSentAgain
        <4>2. IsVetoPut(event) => ~Overlaps("vetoes")
          BY <1>1, <3>6 DEF IsVetoPut, SetpointPV
        <4>3. ASSUME IsVetoPut(event), NEW i \in 1..Len(high) PROVE high[i].type # "begin"
          <5> SUFFICES ASSUME high[i].type = "begin" PROVE FALSE
            OBVIOUS
          <5>1. high[i] \in Event
            BY <3>1
          <5>2. IsPutAt(i)
            BY <5>1, EventTypes, SetpointAssumptions
               DEF IsPutAt, IsPut, PutType, PutId, NoPut, Assumptions
          <5>3. IsPending(high[i])
            BY <5>2 DEF PutsInvariant, EventsArePuts
          <5> QED
            BY <4>2, <4>3, <5>3 DEF Overlaps, IsPending, Waiting
        <4>4. IsVetoPut(event) => ~resending
          BY <4>2 DEF Overlaps
        <4> HIDE DEF high
        <4>5. Ordered(high', data.vetoes)
          BY <2>2, <3>1, <4>1, <4>3, AppendKeepsOrder
        <4>6. resending => NoVetoPuts(high')
          <5> SUFFICES ASSUME resending, NEW i \in 1..Len(high') PROVE ~IsVetoPut(high'[i])
            BY DEF NoVetoPuts
          <5>1. (i \in 1..Len(high) /\ high'[i] = high[i]) \/ high'[i] = event
            BY <2>2, <3>1
          <5> QED
            BY <4>1, <4>4, <5>1 DEF NoVetoPuts
        <4> QED
          BY <4>5, <4>6
      <3> QED
        BY <1>1, <3>5, <3>6 DEF VetoOrder
    <2> QED
      BY <2>1, <2>2
  <1>8. ASSUME NEW q \in Waiting', wanted'[q].type \in SetpointPV \ overlapped'
        PROVE  wanted'[q].type \notin overlapped /\ (q # p => wanted'[q].type # event.type)
    <2>1. q # p => q \in Waiting /\ wanted'[q] = wanted[q]
      BY <1>3, <1>4 DEF Waiting
    <2>2. q # p /\ wanted'[q].type = event.type => Overlaps(event.type)
      BY <2>1 DEF Overlaps
    <2> QED
      BY <1>1, <1>8, <2>1, <2>2
  <1>9. OnePutAtATime'
    <2> SUFFICES ASSUME NEW q \in Waiting', NEW r \in Waiting',
                        wanted'[q].type = wanted'[r].type,
                        wanted'[q].type \in SetpointPV \ overlapped'
                 PROVE  q = r
      BY DEF OnePutAtATime
    <2>1. CASE q = p \/ r = p
      BY <1>3, <1>8, <2>1
    <2>2. CASE q # p /\ r # p
      <3>1. /\ q \in Waiting /\ r \in Waiting /\ wanted[q].type = wanted[r].type
            /\ wanted[q].type \in SetpointPV \ overlapped
        BY <1>3, <1>4, <1>8, <2>2 DEF Waiting
      <3> QED
        BY <3>1 DEF PutsInvariant, OnePutAtATime
    <2> QED
      BY <2>1, <2>2
  <1>12. ASSUME NEW pv, Excused(pv) PROVE Excused(pv)'
    <2>1. PICK q \in PutId : wanted[q].type = "begin"
      BY <1>12 DEF Excused, PeriodReset
    <2>2. wanted'[q] = wanted[q]
      BY <1>2, <1>3, <2>1
    <2> QED
      BY <1>1, <1>12, <2>1, <2>2 DEF Excused, PeriodReset
  <1>10. PvsFollow'
    <2> SUFFICES ASSUME NEW pv \in SetpointPV \ overlapped', ~Excused(pv)
                 PROVE  /\ \A q \in Waiting' : wanted'[q].type = pv /\ done'[q] = "set" =>
                              Setpoint(pv)' = Asked(wanted'[q])
                        /\ (\A q \in Waiting' : wanted'[q].type = pv => done'[q] # "set") =>
                              spPvs'[pv] = Setpoint(pv)'
      BY <1>12 DEF PvsFollow
    <2>1. Setpoint(pv)' = Setpoint(pv) /\ spPvs' = spPvs /\ done' = done
          /\ pv \in SetpointPV \ overlapped
      BY <1>1 DEF Setpoint
    <2>2. ASSUME NEW q \in Waiting', wanted'[q].type = pv, done'[q] = "set"
          PROVE  Setpoint(pv)' = Asked(wanted'[q])
      <3>1. q \in Waiting /\ wanted'[q] = wanted[q]
        BY <1>2, <1>3, <1>4, <2>1, <2>2 DEF Waiting
      <3>2. Setpoint(pv) = Asked(wanted[q])
        BY <2>1, <2>2, <3>1 DEF PutsInvariant, PvsFollow
      <3> QED
        BY <2>1, <3>1, <3>2
    <2>3. ASSUME \A q \in Waiting' : wanted'[q].type = pv => done'[q] # "set"
          PROVE  spPvs'[pv] = Setpoint(pv)'
      <3>1. \A q \in Waiting : q \in Waiting' /\ wanted'[q] = wanted[q]
        BY <1>3, <1>4 DEF Waiting
      <3>2. \A q \in Waiting : wanted[q].type = pv => done[q] # "set"
        BY <2>1, <2>3, <3>1
      <3>3. spPvs[pv] = Setpoint(pv)
        BY <2>1, <3>2 DEF PutsInvariant, PvsFollow
      <3> QED
        BY <2>1, <3>3
    <2> QED
      BY <2>2, <2>3
  <1>11. ReadsBack'
    <2>1. ASSUME NEW q \in PutId, IsWritten(q)'
          PROVE  IsWritten(q) /\ wanted'[q] = wanted[q]
      BY <1>1, <1>2, <1>3, <2>1 DEF IsWritten
    <2> QED
      BY <1>1, <2>1 DEF PutsInvariant, ReadsBack, ReadsBackAs
  <1> QED
    BY <1>5, <1>7, <1>9, <1>10, <1>11 DEF PutsInvariant

\* An answer posts what was done, and leaves the PV alone when it was not.
LEMMA AnswerKeepsPuts ==
  ASSUME SetpointsInvariant, PutsInvariant, NEW p \in PutId, Answer(p)
  PROVE  PutsInvariant'
  <1>1. /\ puts[p] = "waiting" /\ done[p] \in {"set", "err"}
        /\ puts' = [puts EXCEPT ![p] = IF done[p] = "err" THEN "error" ELSE "ok"]
        /\ spPvs' = IF done[p] = "err" \/ wanted[p].type = "begin" THEN spPvs
                    ELSE [spPvs EXCEPT ![wanted[p].type] = Asked(wanted[p])]
        /\ UNCHANGED <<registers, data, queue, resending, wanted, done, overlapped, faults>>
    BY DEF Answer, boardVars, SetpointsInvariant, SetpointsTypeOK
  <1>2. DOMAIN puts = PutId /\ spPvs = [pv \in SetpointPV |-> spPvs[pv]]
    BY DEF PutsInvariant, PutsTyped, SetpointsInvariant, SetpointsTypeOK
  <1>3. /\ puts'[p] = (IF done[p] = "err" THEN "error" ELSE "ok")
        /\ \A q \in PutId : q # p => puts'[q] = puts[q]
    BY <1>1, <1>2
  <1>4. p \in Waiting /\ Waiting' = Waiting \ {p}
    BY <1>1, <1>3 DEF Waiting
  <1>5. PutsTyped'
    <2>1. spPvs' = [pv \in SetpointPV |-> spPvs'[pv]]
      BY <1>1, <1>2
    <2> QED
      BY <1>1, <1>3, <2>1 DEF PutsInvariant, PutsTyped
  <1>6. EventsArePuts' /\ VetoOrder'
    <2>1. \A x : IsPending(x) => IsPending(x)'
      BY <1>1, <1>3 DEF IsPending
    <2>2. EventsArePuts'
      BY <1>1, <2>1, SameEvents DEF PutsInvariant
    <2> QED
      BY <1>1, <2>2 DEF PutsInvariant, VetoOrder
  <1>7. OnePutAtATime'
    BY <1>1, <1>4 DEF PutsInvariant, OnePutAtATime
  <1>8. PvsFollow'
    <2> SUFFICES ASSUME NEW pv \in SetpointPV \ overlapped, ~Excused(pv)
                 PROVE  /\ \A q \in Waiting' : wanted[q].type = pv /\ done[q] = "set" =>
                              Setpoint(pv) = Asked(wanted[q])
                        /\ (\A q \in Waiting' : wanted[q].type = pv => done[q] # "set") =>
                              spPvs'[pv] = Setpoint(pv)
      BY <1>1 DEF PvsFollow, Setpoint, Excused, PeriodReset
    <2>3. pv # "begin"
      BY DEF SetpointPV, Scalar
    <2>1. \A q \in Waiting' : wanted[q].type = pv /\ done[q] = "set" =>
              Setpoint(pv) = Asked(wanted[q])
      BY <1>4 DEF PutsInvariant, PvsFollow
    <2>2. ASSUME \A q \in Waiting' : wanted[q].type = pv => done[q] # "set"
          PROVE  spPvs'[pv] = Setpoint(pv)
      <3>1. CASE done[p] = "set" /\ wanted[p].type = pv
        <4>1. spPvs'[pv] = Asked(wanted[p])
          BY <1>1, <1>2, <2>3, <3>1
        <4> QED
          BY <1>4, <3>1, <4>1 DEF PutsInvariant, PvsFollow
      <3>2. CASE ~(done[p] = "set" /\ wanted[p].type = pv)
        <4>1. spPvs'[pv] = spPvs[pv]
          BY <1>1, <1>2, <3>2
        <4>2. \A q \in Waiting : wanted[q].type = pv => done[q] # "set"
          BY <1>4, <2>2, <3>2
        <4> QED
          BY <4>1, <4>2 DEF PutsInvariant, PvsFollow
      <3> QED
        BY <3>1, <3>2
    <2> QED
      BY <2>1, <2>2
  <1>9. ReadsBack'
    <2>1. \A q \in PutId : IsWritten(q)' => IsWritten(q)
      BY <1>1, <1>3 DEF IsWritten
    <2> QED
      BY <1>1, <2>1 DEF PutsInvariant, ReadsBack, ReadsBackAs
  <1> QED
    BY <1>5, <1>6, <1>7, <1>8, <1>9 DEF PutsInvariant
\* The events of puts are taken from HIGH; they are the first event there.
LEMMA PutTaken ==
  ASSUME SetpointsTypeOK, NamesAreLow, NEW types, Take(types),
         NextItem(queue).type \in PutType
  PROVE  /\ queue["HIGH"] \in Seq(Event)
         /\ queue["HIGH"] # << >> /\ NextItem(queue) = Head(queue["HIGH"])
         /\ queue'["HIGH"] = Tail(queue["HIGH"])
         /\ 1 \in 1..Len(queue["HIGH"]) /\ NextItem(queue) = queue["HIGH"][1]
  <1>1. queue["HIGH"] \in Seq(Event) /\ queue["LOW"] \in Seq(Event)
    BY DEF SetpointsTypeOK, Priority
  <1>2. queue["HIGH"] # << >>
    <2> SUFFICES ASSUME queue["HIGH"] = << >> PROVE FALSE
      OBVIOUS
    <2>1. NextItem(queue) = Head(queue["LOW"]) /\ queue["LOW"] # << >>
      BY DEF Take, IsEmpty, Priority, NextItem, NextPriority
    <2>2. NextItem(queue).type = "blocks"
      BY <1>1, <2>1, HeadTailProperties, EmptySeq DEF NamesAreLow
    <2> QED
      BY <2>2 DEF PutType, SetpointPV, Scalar
  <1>3. NextItem(queue) = Head(queue["HIGH"]) /\ queue'["HIGH"] = Tail(queue["HIGH"])
    BY <1>2 DEF Take, NextItem, WithoutNext, NextPriority, SetpointsTypeOK, Priority
  <1>4. 1 \in 1..Len(queue["HIGH"]) /\ Head(queue["HIGH"]) = queue["HIGH"][1]
    BY <1>1, <1>2, HeadTailProperties, EmptySeq
  <1> QED
    BY <1>1, <1>2, <1>3, <1>4

\* The handlers of set points: the put is done and data has what it asked for,
\* or it failed and data is as it was.
LEMMA HandlersKeepPuts ==
  ASSUME SetpointsInvariant, NamesAreLow, PutsInvariant,
         \/ HandleSetpoint \/ SetpointOverflows \/ SetpointFails
         \/ HandleVetoes \/ VetoesOverflow \/ VetoesFail
  PROVE  PutsInvariant'
  <1> DEFINE e == NextItem(queue)
             Handled == HandleSetpoint \/ HandleVetoes
  <1>1. PICK types \in {Scalar, {"vetoes"}} :
            /\ Take(types)
            /\ HandleSetpoint => types = Scalar
            /\ HandleVetoes => types = {"vetoes"}
    BY DEF HandleSetpoint, SetpointOverflows, SetpointFails, HandleVetoes, VetoesOverflow, VetoesFail,
       Take, Scalar
  <1>2. e \in Event /\ e.type \in SetpointPV
        /\ UNCHANGED <<spPvs, wanted, puts, overlapped>>
        /\ (HandleSetpoint => e.type \in Scalar) /\ (HandleVetoes => e.type = "vetoes")
    BY <1>1, TakenType DEF SetpointsInvariant, SetpointPV
  <1>3. /\ queue["HIGH"] # << >> /\ e = Head(queue["HIGH"])
        /\ queue'["HIGH"] = Tail(queue["HIGH"]) /\ queue["HIGH"] \in Seq(Event)
        /\ 1 \in 1..Len(queue["HIGH"]) /\ e = queue["HIGH"][1]
    BY <1>1, <1>2, PutTaken DEF SetpointsInvariant, PutType
  <1>4. /\ IsPending(e) \/ IsSentAgain(e)
        /\ IsSentAgain(e) /\ "vetoes" \notin overlapped => e.array = data.vetoes
    <2>1. IsPut(e) => IsPending(e)
      BY <1>3 DEF PutsInvariant, EventsArePuts, IsPutAt
    <2>2. e.type \in Scalar => e.put # NoPut
      BY <1>2, EventTypes, SetpointAssumptions DEF PutId, NoPut, Assumptions
    <2>3. IsPut(e) \/ IsSentAgain(e)
      BY <1>2, <2>2 DEF IsPut, IsSentAgain, PutType, SetpointPV
    <2>4. "vetoes" \notin overlapped => Ordered(queue["HIGH"], data.vetoes)
      BY DEF PutsInvariant, VetoOrder
    <2>5. IsSentAgain(e) /\ "vetoes" \notin overlapped => e.array = data.vetoes
      BY <1>3, <2>4 DEF Ordered
    <2> QED
      BY <2>1, <2>3, <2>5
  <1>5. /\ Handled => SetDone(e.put) /\ UNCHANGED faults
        /\ ~Handled => UNCHANGED data /\ SetErr(e.put)
        /\ ~Handled /\ faults' = {} => UNCHANGED <<faults, registers>>
    BY DEF HandleSetpoint, SetpointOverflows, SetpointFails, HandleVetoes, VetoesOverflow, VetoesFail,
       Fault, boardVars
  <1>6. ASSUME Handled, NEW pv \in SetpointPV
        PROVE  Setpoint(pv)' = IF pv = e.type THEN Asked(e) ELSE Setpoint(pv)
    <2>1. CASE HandleSetpoint
      <3>1. data' = [data EXCEPT !.sp[e.type] = e.value]
        BY <2>1 DEF HandleSetpoint
      <3>2. /\ data'.vetoes = data.vetoes
            /\ \A field \in Scalar : data'.sp[field] = IF field = e.type THEN e.value ELSE data.sp[field]
        BY <3>1 DEF SetpointsInvariant, SetpointsTypeOK
      <3>3. e.type \in Scalar /\ e.type # "vetoes"
        BY <1>2, <2>1 DEF Scalar
      <3> QED
        BY <2>1, <3>2, <3>3 DEF Setpoint, Asked, SetpointPV
    <2>2. CASE HandleVetoes
      <3>1. data' = [data EXCEPT !.vetoes = e.array] /\ e.type = "vetoes"
        BY <1>2, <2>2 DEF HandleVetoes
      <3>2. data'.vetoes = e.array /\ data'.sp = data.sp
        BY <3>1 DEF SetpointsInvariant, SetpointsTypeOK
      <3> QED
        BY <2>2, <3>1, <3>2 DEF Setpoint, Asked, SetpointPV
    <2> QED
      BY <1>6, <2>1, <2>2
  <1>7. e.put \in PutId => IsPending(e)
    BY <1>4, SetpointAssumptions DEF PutId, NoPut, Assumptions, IsSentAgain
  <1> HIDE DEF e
  <1>8. /\ \A q \in PutId : q # e.put => done'[q] = done[q]
        /\ IsPending(e) => done'[e.put] = IF Handled THEN "set" ELSE "err"
    <2>1. DOMAIN done = PutId
      BY DEF SetpointsInvariant, SetpointsTypeOK
    <2> QED
      BY <1>5, <2>1 DEF SetDone, SetErr, IsPending
  <1>9. ReadsBack'
    <2> SUFFICES ASSUME faults' = {}, NEW p \in PutId, wanted[p].type \in Scalar, IsWritten(p)'
                 PROVE  ReadsBackAs(wanted[p].type)'
      BY <1>2 DEF ReadsBack
    <2>1. faults = {} /\ (~Handled => UNCHANGED <<registers, data>>)
      BY <1>5
    <2>2. IsWritten(p) \/ (p = e.put /\ IsPending(e) /\ Handled)
      BY <1>2, <1>7, <1>8 DEF IsWritten
    <2>3. IsWritten(p) => ReadsBackAs(wanted[p].type)
      BY <2>1 DEF PutsInvariant, ReadsBack
    <2>4. CASE HandleSetpoint
      <3>1. /\ registers' = Written(e) /\ data' = [data EXCEPT !.sp[e.type] = e.value]
            /\ e.type \in Scalar
        BY <1>2, <2>4 DEF HandleSetpoint, e
      <3>2. /\ \A pv \in Scalar : pv # e.type =>
                  registers'[pv] = registers[pv] /\ data'.sp[pv] = data.sp[pv]
            /\ registers'[e.type] = Raw(e.type, e.value) /\ data'.sp[e.type] = e.value
        BY <3>1 DEF Written, SetpointsInvariant, SetpointsTypeOK
      <3>3. e.value \in Int /\ ~Refused(e.type, e.value)
        BY <1>2, <3>1, EventTypes
      <3>4. Shown(e.type, Raw(e.type, e.value)) = e.value
        BY <3>1, <3>3, ReadBackWhatWasPut, SetpointAssumptions
      <3>5. CASE wanted[p].type = e.type
        BY <3>2, <3>4, <3>5, <1>2 DEF ReadsBackAs
      <3>6. CASE wanted[p].type # e.type
        <4>1. IsWritten(p)
          BY <2>2, <3>6 DEF IsPending
        <4> QED
          BY <1>2, <2>3, <3>2, <3>6, <4>1 DEF ReadsBackAs
      <3> QED
        BY <3>5, <3>6
    <2>5. CASE HandleVetoes
      <3>1. registers' = registers /\ data'.sp = data.sp /\ e.type = "vetoes"
        BY <1>2, <2>5 DEF HandleVetoes, SetpointsInvariant, SetpointsTypeOK, e
      <3>2. wanted[p].type # e.type
        BY <3>1 DEF Scalar
      <3>3. IsWritten(p)
        BY <2>2, <3>2 DEF IsPending
      <3> QED
        BY <1>2, <2>3, <3>1, <3>3 DEF ReadsBackAs
    <2>6. CASE ~Handled
      BY <1>2, <2>1, <2>2, <2>3, <2>6 DEF ReadsBackAs
    <2> QED
      BY <2>4, <2>5, <2>6
  <1>10. EventsArePuts' /\ VetoOrder'
    <2>1. \A x : IsPending(x) /\ (IsPut(e) => x.put # e.put) => IsPending(x)'
      <3>1. e.put \in PutId => IsPut(e)
        BY <1>2, SetpointAssumptions DEF IsPut, PutType, PutId, NoPut, Assumptions
      <3> QED
        BY <1>2, <1>8, <3>1 DEF IsPending
    <2>2. EventsArePuts'
      BY <1>3, <2>1, TakeKeepsEvents DEF SetpointsInvariant, PutsInvariant
    <2>3. ASSUME "vetoes" \notin overlapped
          PROVE  data'.vetoes = data.vetoes \/ IsVetoPut(e)
      <3>1. CASE HandleVetoes
        <4>1. data'.vetoes = e.array /\ e.type = "vetoes"
          BY <1>2, <3>1 DEF HandleVetoes, SetpointsInvariant, SetpointsTypeOK, e
        <4> QED
          BY <1>4, <2>3, <4>1 DEF IsVetoPut, IsSentAgain
      <3>2. CASE HandleSetpoint
        BY <3>2 DEF HandleSetpoint, SetpointsInvariant, SetpointsTypeOK
      <3> QED
        BY <1>5, <3>1, <3>2
    <2>4. "vetoes" \notin overlapped =>
              Ordered(queue'["HIGH"], data'.vetoes)
              /\ (NoVetoPuts(queue["HIGH"]) => NoVetoPuts(queue'["HIGH"]))
      BY <1>3, <2>3, TailKeepsOrder DEF PutsInvariant, VetoOrder
    <2>5. UNCHANGED <<overlapped, resending>>
      BY <1>2 DEF HandleSetpoint, SetpointOverflows, SetpointFails, HandleVetoes, VetoesOverflow,
         VetoesFail
    <2>6. VetoOrder'
      BY <2>4, <2>5 DEF PutsInvariant, VetoOrder
    <2> QED
      BY <2>2, <2>6
  <1>11. PutsTyped' /\ OnePutAtATime'
    <2>1. \A p \in PutId : puts[p] = "unused" => done'[p] = done[p]
      BY <1>7, <1>8 DEF IsPending
    <2> QED
      BY <1>2, <2>1 DEF PutsInvariant, PutsTyped, OnePutAtATime, Waiting
  <1> HIDE DEF Handled
  <1>12. /\ Waiting' = Waiting
         /\ \A q \in Waiting : done'[q] # done[q] =>
               IsPending(e) /\ q = e.put /\ (done'[q] = "set" => Handled)
    BY <1>2, <1>7, <1>8 DEF Waiting
  <1>13. PvsFollow'
    <2> SUFFICES ASSUME NEW pv \in SetpointPV \ overlapped, ~Excused(pv)'
                 PROVE  /\ \A q \in Waiting : wanted[q].type = pv /\ done'[q] = "set" =>
                              Setpoint(pv)' = Asked(wanted[q])
                        /\ (\A q \in Waiting : wanted[q].type = pv => done'[q] # "set") =>
                              spPvs[pv] = Setpoint(pv)'
      BY <1>2, <1>12 DEF PvsFollow
    <2>1. CASE IsPending(e) /\ e.type = pv /\ Handled
      <3>1. e.put \in Waiting /\ wanted[e.put] = e
        BY <2>1 DEF IsPending, Waiting
      <3>2. \A q \in Waiting : wanted[q].type = pv => q = e.put
        BY <2>1, <3>1 DEF PutsInvariant, OnePutAtATime
      <3>3. done'[e.put] = "set"
        BY <1>8, <2>1
      <3>4. Setpoint(pv)' = Asked(e)
        BY <1>6, <2>1
      <3> QED
        BY <2>1, <3>1, <3>2, <3>3, <3>4
    <2>2. CASE ~(IsPending(e) /\ e.type = pv /\ Handled)
      <3>1. Setpoint(pv)' = Setpoint(pv)
        <4>1. CASE Handled /\ pv = e.type
          BY <1>4, <1>6, <2>2, <4>1 DEF Setpoint, Asked, IsSentAgain
        <4>2. CASE Handled /\ pv # e.type
          BY <1>6, <4>2
        <4>3. CASE ~Handled
          BY <1>5, <4>3 DEF Setpoint
        <4> QED
          BY <4>1, <4>2, <4>3
      <3>2. \A q \in Waiting : wanted[q].type = pv => (done'[q] = "set" <=> done[q] = "set")
        BY <1>12, <2>2 DEF IsPending
      <3>3. ~Excused(pv)
        BY <1>2, <3>1 DEF Excused, PeriodReset, Setpoint
      <3> QED
        BY <3>1, <3>2, <3>3 DEF PutsInvariant, PvsFollow
    <2> QED
      BY <2>1, <2>2
  <1> QED
    BY <1>9, <1>10, <1>11, <1>13 DEF PutsInvariant
\* Monitors and their handlers touch no put; a fault of theirs excuses the board.
LEMMA OthersKeepPuts ==
  ASSUME SetpointsInvariant, PutsInvariant,
         \/ HandleRunControl \/ RunControlFails \/ HandleBlocks
         \/ InRangeChanges \/ BlockNamesChange \/ RunControlCallback \/ BlocksCallback
         \/ UNCHANGED vars
  PROVE  PutsInvariant'
  <1>1. /\ UNCHANGED <<registers, resending, done, spPvs, wanted, puts, overlapped>>
        /\ data'.sp = data.sp /\ data'.vetoes = data.vetoes
        /\ faults \subseteq faults'
    BY DEF HandleRunControl, RunControlFails, HandleBlocks, InRangeChanges, BlockNamesChange,
       RunControlCallback, BlocksCallback, Changed, Delivered, Take, Fault, vars, boardVars,
       clientVars, SetpointsInvariant, SetpointsTypeOK
  <1>2. \A x : IsPending(x) => IsPending(x)'
    BY <1>1 DEF IsPending
  <1>3. queue["HIGH"] \in Seq(Event)
    BY DEF SetpointsInvariant, SetpointsTypeOK, Priority
  <1>4. EventsArePuts' /\ VetoOrder'
    <2>1. ASSUME queue'["HIGH"] = queue["HIGH"]
          PROVE  EventsArePuts' /\ VetoOrder'
      <3>1. EventsArePuts'
        BY <1>2, <2>1, SameEvents DEF PutsInvariant
      <3> QED
        BY <1>1, <2>1, <3>1 DEF PutsInvariant, VetoOrder
    <2>2. CASE RunControlCallback
      <3> DEFINE event == RunControlUpdateEvent(~inRange)
                 high == queue["HIGH"]
      <3>1. event \in Event /\ event.type = "run_control"
        BY DEF RunControlUpdateEvent, Event, SetpointsInvariant, SetpointsTypeOK
      <3> HIDE DEF event
      <3>2. high' = Append(high, event)
        BY <2>2 DEF RunControlCallback, PutItem, SetpointsInvariant, SetpointsTypeOK, Priority, event
      <3>3. ~IsPut(event) /\ ~IsSentAgain(event) /\ ~IsVetoPut(event)
        BY <3>1 DEF IsPut, IsSentAgain, IsVetoPut, PutType, SetpointPV, Scalar
      <3>4. EventsArePuts'
        BY <1>2, <3>1, <3>2, <3>3, AppendKeepsEvents DEF SetpointsInvariant, PutsInvariant
      <3>5. Ordered(high, data.vetoes) => Ordered(high', data.vetoes)
        BY <1>3, <3>1, <3>2, <3>3, AppendKeepsOrder
      <3>6. NoVetoPuts(high) => NoVetoPuts(high')
        <4> SUFFICES ASSUME NoVetoPuts(high), NEW i \in 1..Len(high') PROVE ~IsVetoPut(high'[i])
          BY DEF NoVetoPuts
        <4> HIDE DEF high
        <4>1. (i \in 1..Len(high) /\ high'[i] = high[i]) \/ high'[i] = event
          BY <1>3, <3>1, <3>2 DEF high
        <4> QED
          BY <3>3, <4>1 DEF NoVetoPuts
      <3> QED
        BY <1>1, <3>4, <3>5, <3>6 DEF PutsInvariant, VetoOrder
    <2>3. CASE BlocksCallback
      BY <2>1, <2>3 DEF BlocksCallback, PutItem, SetpointsInvariant, SetpointsTypeOK, Priority
    <2>4. CASE HandleRunControl \/ RunControlFails \/ HandleBlocks
      <3>1. /\ queue' = WithoutNext(queue)
            /\ NextItem(queue).type = "run_control" \/ NextItem(queue).type = "blocks"
        BY <2>4 DEF HandleRunControl, RunControlFails, HandleBlocks, Take
      <3>2. CASE queue["HIGH"] # << >>
        <4> DEFINE e == Head(queue["HIGH"])
        <4>1. e = NextItem(queue) /\ queue'["HIGH"] = Tail(queue["HIGH"])
          BY <3>1, <3>2 DEF NextItem, WithoutNext, NextPriority, SetpointsInvariant,
             SetpointsTypeOK, Priority
        <4>2. ~IsPut(e) /\ ~IsVetoPut(e)
          BY <3>1, <4>1 DEF IsPut, IsVetoPut, PutType, SetpointPV, Scalar
        <4> HIDE DEF e
        <4>3. EventsArePuts'
          BY <1>2, <3>2, <4>1, <4>2, TakeKeepsEvents DEF SetpointsInvariant, PutsInvariant, e
        <4>4. "vetoes" \notin overlapped =>
                  Ordered(queue'["HIGH"], data.vetoes)
                  /\ (NoVetoPuts(queue["HIGH"]) => NoVetoPuts(queue'["HIGH"]))
          BY <1>3, <3>2, <4>1, TailKeepsOrder DEF PutsInvariant, VetoOrder
        <4> QED
          BY <1>1, <4>3, <4>4 DEF PutsInvariant, VetoOrder
      <3>3. CASE queue["HIGH"] = << >>
        <4>1. queue'["HIGH"] = queue["HIGH"]
          BY <3>1, <3>3 DEF WithoutNext, NextPriority, SetpointsInvariant, SetpointsTypeOK, Priority
        <4> QED
          BY <2>1, <4>1
      <3> QED
        BY <3>2, <3>3
    <2>5. CASE InRangeChanges \/ BlockNamesChange \/ UNCHANGED vars
      BY <2>1, <2>5 DEF InRangeChanges, BlockNamesChange, Changed, vars
    <2> QED
      BY <2>2, <2>3, <2>4, <2>5
  <1>5. PutsTyped' /\ OnePutAtATime'
    BY <1>1 DEF PutsInvariant, PutsTyped, OnePutAtATime, Waiting
  <1>6. PvsFollow'
    <2>1. \A pv : Setpoint(pv)' = Setpoint(pv) /\ (Excused(pv) => Excused(pv)')
      BY <1>1 DEF Setpoint, Excused, PeriodReset
    <2> QED
      BY <1>1, <2>1 DEF PutsInvariant, PvsFollow, Waiting
  <1>7. ReadsBack'
    BY <1>1 DEF PutsInvariant, ReadsBack, IsWritten, ReadsBackAs
  <1> QED
    BY <1>4, <1>5, <1>6, <1>7 DEF PutsInvariant

\* A begin changes no set point but the period, and leaves no put of the vetoes
\* behind it, so that what it sends again is what there is then.
LEMMA BeginKeepsPuts ==
  ASSUME SetpointsInvariant, NamesAreLow, PutsInvariant,
         HandleBegin \/ RefuseBegin \/ BeginFails
  PROVE  PutsInvariant'
  <1> DEFINE e == NextItem(queue)
             high == queue["HIGH"]
  <1>1. Take({"begin"})
    BY DEF HandleBegin, RefuseBegin, BeginFails
  <1>2. /\ e \in Event /\ e.type = "begin" /\ e.put \in PutId
        /\ UNCHANGED <<spPvs, wanted, puts, overlapped>>
    BY <1>1, TakenType, EventTypes DEF SetpointsInvariant
  <1>3. /\ high # << >> /\ e = Head(high) /\ high' = Tail(high) /\ high \in Seq(Event)
        /\ 1 \in 1..Len(high) /\ e = high[1]
    BY <1>1, <1>2, PutTaken DEF SetpointsInvariant, PutType
  <1>4. IsPut(e) /\ IsPending(e)
    <2>1. IsPut(e)
      BY <1>2, SetpointAssumptions DEF IsPut, PutType, PutId, NoPut, Assumptions
    <2> QED
      BY <1>3, <2>1 DEF PutsInvariant, EventsArePuts, IsPutAt
  <1>5. /\ registers' = registers \/ registers' = FirstPeriod(registers, Raw("period", 1))
        /\ data' = data \/ data' = [data EXCEPT !.sp = FirstPeriod(@, 1)]
        /\ HandleBegin \/ RefuseBegin \/ faults' # {}
        /\ HandleBegin => /\ registers' = FirstPeriod(registers, Raw("period", 1))
                          /\ data' = [data EXCEPT !.sp = FirstPeriod(@, 1)]
                          /\ faults' = faults
        /\ RefuseBegin => UNCHANGED <<registers, data, faults>>
        /\ ~HandleBegin => resending' = resending
        /\ SetDone(e.put) \/ SetErr(e.put)
    BY DEF HandleBegin, RefuseBegin, BeginFails, boardVars, Fault
  <1>6. /\ data'.vetoes = data.vetoes
        /\ data'.sp = data.sp \/ data'.sp = FirstPeriod(data.sp, 1)
        /\ HandleBegin => data'.sp = FirstPeriod(data.sp, 1)
    BY <1>5, FirstPeriodType, SetpointAssumptions DEF SetpointsInvariant
  <1> HIDE DEF e, high
  <1>7. DOMAIN done = PutId /\ data.sp \in [Scalar -> Int] /\ registers \in [Scalar -> Word]
    BY DEF SetpointsInvariant, SetpointsTypeOK
  <1>8. \A q \in PutId : q # e.put => done'[q] = done[q]
    BY <1>5, <1>7 DEF SetDone, SetErr
  <1>9. EventsArePuts'
    <2>1. \A x : IsPending(x) /\ x.put # e.put => IsPending(x)'
      BY <1>2, <1>8 DEF IsPending
    <2> QED
      BY <1>3, <1>4, <2>1, TakeKeepsEvents DEF SetpointsInvariant, PutsInvariant, high
  <1>10. VetoOrder'
    <2> SUFFICES ASSUME "vetoes" \notin overlapped
                 PROVE  Ordered(high', data.vetoes) /\ NoVetoPuts(high')
      BY <1>2, <1>6 DEF VetoOrder, high
    <2>1. Ordered(high, data.vetoes)
      BY DEF PutsInvariant, VetoOrder, high
    <2> QED
      BY <1>2, <1>3, <2>1, TailKeepsOrder
  <1>11. PutsTyped' /\ OnePutAtATime'
    <2>1. \A p \in PutId : puts[p] = "unused" => done'[p] = done[p]
      BY <1>4, <1>8 DEF IsPending
    <2> QED
      BY <1>2, <2>1 DEF PutsInvariant, PutsTyped, OnePutAtATime, Waiting
  <1>12. PvsFollow'
    <2> SUFFICES ASSUME NEW pv \in SetpointPV \ overlapped, ~Excused(pv)'
                 PROVE  /\ \A q \in Waiting : wanted[q].type = pv /\ done'[q] = "set" =>
                              Setpoint(pv)' = Asked(wanted[q])
                        /\ (\A q \in Waiting : wanted[q].type = pv => done'[q] # "set") =>
                              spPvs[pv] = Setpoint(pv)'
      BY <1>2 DEF PvsFollow, Waiting
    <2>1. Setpoint(pv)' = Setpoint(pv)
      <3>1. CASE pv = "vetoes"
        BY <1>6, <3>1 DEF Setpoint
      <3>2. CASE pv \in Scalar /\ pv # "period"
        BY <1>6, <1>7, <3>2 DEF Setpoint, FirstPeriod
      <3>3. CASE pv = "period"
        <4>1. wanted'[e.put].type = "begin" /\ e.put \in PutId
          BY <1>2, <1>4 DEF IsPending
        <4>2. data'.sp["period"] # 1
          BY <3>3, <4>1 DEF Excused, PeriodReset
        <4>3. "period" \in Scalar
          BY DEF Scalar
        <4>4. data'.sp = data.sp
          BY <1>6, <1>7, <4>2, <4>3 DEF FirstPeriod
        <4> QED
          BY <1>6, <4>4 DEF Setpoint
      <3> QED
        BY <3>1, <3>2, <3>3 DEF SetpointPV
    <2>2. \A q \in Waiting : wanted[q].type = pv => done'[q] = done[q]
      <3>1. wanted[e.put].type = "begin" /\ pv # "begin"
        BY <1>2, <1>4 DEF IsPending, SetpointPV, Scalar
      <3> QED
        BY <1>8, <3>1 DEF Waiting
    <2>3. ~Excused(pv)
      BY <1>2, <2>1 DEF Excused, PeriodReset, Setpoint
    <2> QED
      BY <2>1, <2>2, <2>3 DEF PutsInvariant, PvsFollow
  <1>13. ReadsBack'
    <2> SUFFICES ASSUME faults' = {}, NEW p \in PutId, wanted[p].type \in Scalar, IsWritten(p)'
                 PROVE  ReadsBackAs(wanted[p].type)'
      BY <1>2 DEF ReadsBack
    <2>1. p # e.put
      BY <1>2, <1>4 DEF IsPending, Scalar
    <2>2. faults = {} /\ IsWritten(p)
      BY <1>2, <1>5, <1>8, <2>1 DEF IsWritten
    <2>3. ReadsBackAs(wanted[p].type)
      BY <2>2 DEF PutsInvariant, ReadsBack
    <2>4. CASE RefuseBegin
      BY <1>2, <1>5, <2>3, <2>4 DEF ReadsBackAs
    <2>5. CASE HandleBegin
      <3>1. /\ registers' = FirstPeriod(registers, 0) /\ data'.sp = FirstPeriod(data.sp, 1)
            /\ wanted' = wanted
        BY <1>2, <1>5, <1>6, <2>5 DEF Raw
      <3>2. CASE SetsPeriod /\ wanted[p].type = "period"
        BY <1>7, <3>1, <3>2 DEF FirstPeriod, ReadsBackAs, Shown
      <3>3. CASE ~(SetsPeriod /\ wanted[p].type = "period")
        <4>1. registers'[wanted[p].type] = registers[wanted[p].type]
              /\ data'.sp[wanted[p].type] = data.sp[wanted[p].type]
          BY <1>7, <3>1, <3>3 DEF FirstPeriod
        <4> QED
          BY <2>3, <3>1, <4>1 DEF ReadsBackAs
      <3> QED
        BY <3>2, <3>3
    <2> QED
      BY <1>5, <2>4, <2>5
  <1> QED
    BY <1>9, <1>10, <1>11, <1>12, <1>13 DEF PutsInvariant

LEMMA ResendKeepsPuts ==
  ASSUME SetpointsInvariant, PutsInvariant, ResendVetoes
  PROVE  PutsInvariant'
  <1> DEFINE event == VetoesUpdateEvent(data.vetoes, NoPut)
             high == queue["HIGH"]
  <1>1. event \in Event
    BY DEF VetoesUpdateEvent, Event, SetpointsInvariant, SetpointsTypeOK
  <1>2. event.type = "vetoes" /\ event.put = NoPut /\ event.array = data.vetoes
    BY DEF VetoesUpdateEvent
  <1>3. /\ queue' = PutItem(queue, "HIGH", event) /\ resending /\ ~resending'
        /\ UNCHANGED <<registers, data, done, faults, spPvs, wanted, puts, overlapped>>
    BY DEF ResendVetoes, boardVars, clientVars
  <1> HIDE DEF event
  <1>4. high \in Seq(Event) /\ high' = Append(high, event)
    BY <1>3 DEF PutItem, SetpointsInvariant, SetpointsTypeOK, Priority
  <1>5. ~IsPut(event) /\ ~IsVetoPut(event)
    BY <1>2 DEF IsPut, IsVetoPut
  <1>6. EventsArePuts'
    <2>1. \A x : IsPending(x) => IsPending(x)'
      BY <1>3 DEF IsPending
    <2> QED
      BY <1>1, <1>4, <1>5, <2>1, AppendKeepsEvents DEF SetpointsInvariant, PutsInvariant
  <1>7. VetoOrder'
    <2> SUFFICES ASSUME "vetoes" \notin overlapped PROVE Ordered(high', data.vetoes)
      BY <1>3 DEF VetoOrder
    <2>1. Ordered(high, data.vetoes) /\ NoVetoPuts(high)
      BY <1>3 DEF PutsInvariant, VetoOrder
    <2> HIDE DEF high
    <2> QED
      BY <1>1, <1>2, <1>4, <1>5, <2>1, AppendKeepsOrder
  <1>8. \A pv : Setpoint(pv)' = Setpoint(pv) /\ Excused(pv)' = Excused(pv)
    BY <1>3 DEF Setpoint, Excused, PeriodReset
  <1>9. PvsFollow'
    BY <1>3, <1>8 DEF PutsInvariant, PvsFollow, Waiting
  <1>10. PutsTyped' /\ OnePutAtATime' /\ ReadsBack'
    BY <1>3 DEF PutsInvariant, PutsTyped, OnePutAtATime, Waiting, ReadsBack, IsWritten, ReadsBackAs
  <1> QED
    BY <1>6, <1>7, <1>9, <1>10 DEF PutsInvariant

\* A process that starts again knows of no put, and has PVs and Data in step.
LEMMA RestartKeepsPuts == ASSUME SetpointsInvariant, PutsInvariant, Restart PROVE PutsInvariant'
  <1> DEFINE event == VetoesUpdateEvent(data.vetoes, NoPut)
  <1>1. data.vetoes \in Seq(VetoValue)
    BY DEF SetpointsInvariant, SetpointsTypeOK
  <1>2. event.type = "vetoes" /\ event.put = NoPut /\ event.array = data.vetoes
    BY DEF VetoesUpdateEvent
  <1> HIDE DEF event
  <1>3. Len(queue'["HIGH"]) = 1 /\ queue'["HIGH"][1] = event
    <2>1. queue' = BootQueue(data.vetoes)
      BY DEF Restart
    <2> QED
      BY <1>1, <2>1, BootQueueItems DEF event
  <1>4. data'.vetoes = data.vetoes /\ data'.sp = DefaultSetting
    BY DEF Restart, NewData
  <1>5. EventsArePuts' /\ VetoOrder'
    <2>1. EventsArePuts'
      BY <1>2, <1>3 DEF EventsArePuts, IsPutAt, IsPut
    <2>2. Ordered(queue'["HIGH"], data'.vetoes) /\ ~resending'
      BY <1>2, <1>3, <1>4, BootKeepsOrder DEF Restart
    <2> QED
      BY <2>1, <2>2 DEF VetoOrder
  <1>6. Waiting' = {}
    BY DEF Restart, Waiting
  <1>7. PutsTyped'
    BY DEF Restart, PutsTyped, NewSpPvs, PutsInvariant
  <1>8. PvsFollow'
    <2>1. \A pv \in SetpointPV : spPvs'[pv] = Setpoint(pv)'
      BY <1>4 DEF Restart, NewSpPvs, Setpoint, SetpointPV
    <2> QED
      BY <1>6, <2>1 DEF PvsFollow
  <1>9. ReadsBack'
    BY DEF Restart, Fault, ReadsBack
  <1> QED
    BY <1>5, <1>6, <1>7, <1>8, <1>9 DEF PutsInvariant, OnePutAtATime

LEMMA PutsStep ==
  ASSUME SetpointsInvariant, MonitorsInvariant, PutsInvariant, [Next]_vars
  PROVE  PutsInvariant'
  <1>1. ASSUME NEW p \in PutId, NEW r \in Requests, RequestSetpoint(p, r)
        PROVE  PutsInvariant'
    <2> DEFINE event == SetEvent(r.field, r.value, p)
    <2>1. r.field \in Scalar /\ r.value \in Int
      BY SetpointAssumptions DEF Assumptions
    <2>2. /\ ~Refused(r.field, r.value) => event \in Event
          /\ event.type \in PutType /\ event.put = p
      BY <2>1 DEF Event, SetEvent, SetpointPV, PutType
    <2> HIDE DEF event
    <2>3. /\ Start(p, event)
          /\ \/ puts' = [puts EXCEPT ![p] = "error"] /\ UNCHANGED queue
             \/ ~Refused(r.field, r.value) /\ Queued(p, event)
      BY <1>1 DEF RequestSetpoint, event
    <2> QED
      BY <2>2, <2>3, StartKeepsPuts
  <1>2. ASSUME NEW p \in PutId, NEW array \in VetoRequests, RequestVetoes(p, array)
        PROVE  PutsInvariant'
    <2> DEFINE event == VetoesUpdateEvent(array, p)
    <2>1. event \in Event /\ event.type \in PutType /\ event.put = p
      BY SetpointAssumptions DEF VetoesUpdateEvent, Event, Assumptions, SetpointPV, PutType
    <2> HIDE DEF event
    <2>2. Start(p, event) /\ Queued(p, event)
      BY <1>2 DEF RequestVetoes, event
    <2> QED
      BY <2>1, <2>2, StartKeepsPuts
  <1>6. ASSUME NEW p \in PutId, RequestBegin(p)
        PROVE  PutsInvariant'
    <2>1. BeginEvent(p) \in Event /\ BeginEvent(p).type \in PutType /\ BeginEvent(p).put = p
      BY DEF BeginEvent, Event, PutType
    <2> QED
      BY <1>6, <2>1, StartKeepsPuts DEF RequestBegin
  <1>3. CASE ClientRequest \/ \E p \in PutId : Answer(p)
    BY <1>1, <1>2, <1>3, <1>6, AnswerKeepsPuts DEF ClientRequest
  <1>4. CASE HandleSetpoint \/ SetpointOverflows \/ SetpointFails
             \/ HandleVetoes \/ VetoesOverflow \/ VetoesFail
    BY <1>4, HandlersKeepPuts DEF MonitorsInvariant
  <1>5. CASE HandleRunControl \/ RunControlFails \/ HandleBlocks
             \/ InRangeChanges \/ BlockNamesChange \/ RunControlCallback \/ BlocksCallback
             \/ UNCHANGED vars
    BY <1>5, OthersKeepPuts
  <1>7. CASE HandleBegin \/ RefuseBegin \/ BeginFails \/ ResendVetoes
    BY <1>7, BeginKeepsPuts, ResendKeepsPuts DEF MonitorsInvariant
  <1> QED
    BY <1>3, <1>4, <1>5, <1>7, RestartKeepsPuts DEF Next, WorkerStep

\* A set-point PV that no client waits for shows what Data has, unless puts of it
\* overlapped, or a begin in COMPUTER mode has set the period back; and while
\* nothing has failed, the board reads back what every client was told to have
\* set, or what a begin has set since.  This is so for any requests, begins, puts,
\* pool threads and restarts (StaticPVs, the set-point handlers, handle_begin,
\* save_restore.py).
THEOREM SetpointsAlwaysAgree == Spec => []SetpointsAgree
  <1>1. Init => MonitorsInvariant
    <2>1. DefaultVetoes \in Seq(VetoValue)
      BY SetpointAssumptions DEF Assumptions
    <2> QED
      BY <2>1, MonitorsStart DEF Init
  <1>2. SetpointsInvariant /\ MonitorsInvariant /\ [Next]_vars => MonitorsInvariant'
    BY MonitorsStep
  <1>3. SetpointsInvariant /\ MonitorsInvariant /\ PutsInvariant /\ [Next]_vars => PutsInvariant'
    BY PutsStep
  <1>4. PutsInvariant => SetpointsAgree
    BY InvariantGivesSetpoints
  <1> QED
    BY <1>1, <1>2, <1>3, <1>4, PutsStart, SetpointsInvariantHolds, PTL DEF Spec
=============================================================================
