--------------------------- MODULE BoardLinkProofs ---------------------------
(***************************************************************************)
(* What BoardLink guarantees for every set of operations, every sequence   *)
(* of registers a poll reads and any number of attempts and faults.        *)
(***************************************************************************)
EXTENDS BoardLinkRefinement, WorkerQueueProofs, SequenceTheorems, TLAPS

LinkAssumptions ==
    /\ Operations \subseteq Operation
    /\ PollSequence \in Seq(Address) /\ PollSequence # << >>
    /\ WriteAttempts \in Nat \ {0} /\ VerifyAttempts \in Nat \ {0} /\ ResendAfter \in Nat \ {0}
    /\ MaxOperations \in Nat /\ MaxWaiting \in Nat \ {0} /\ MaxFaults \in Nat

\* The assumptions on the constants, under one name.
LEMMA LinkConstants == LinkAssumptions
  BY OperationsAssumption, PollSequenceAssumption, AttemptsAssumption, LinkBoundsAssumption
     DEF LinkAssumptions

------------------------------------------------------------------------------
\* Types, whatever fails.
\*
\* The attempts of write_verify stay within their limits because each loop
\* counts from 0; the polling thread asks for a register of its sequence because
\* it reads one fewer than there are until it is done.

OneOperation == step # "idle" => \E o \in Operation : op = {o}
AttemptsInv ==
    /\ step \in {"idle", "lock", "read"} => writes = 0
    /\ step = "write" => writes < WriteAttempts
    /\ step = "verify" => verifies < VerifyAttempts
ReadingsInv ==
    /\ pollPc = "sleeping" => readings = << >>
    /\ pollPc = "reading" => Len(readings) < Len(PollSequence)

TypeInv == LinkTypeOK /\ OneOperation /\ AttemptsInv /\ ReadingsInv

\* What an operation writes is a value of a register.
LEMMA WrittenType ==
  ASSUME NEW o \in Operation, NEW value \in SUBSET Flag
  PROVE  Written(o, value) \in SUBSET Flag
  BY DEF Written, Operation

\* What waits in the queue are updates and operations.
LEMMA ItemTypes ==
  /\ Update \in Item
  /\ \A o \in Operation : Wanted(o) \in Item /\ Wanted(o).op = o
  /\ \A item \in Item : item.type = "operation" => \E o \in Operation : item = Wanted(o)
  /\ SetIP \in Operation
  <1>1. Update \in Item
    BY DEF Item
  <1>2. \A o \in Operation : Wanted(o) \in Item /\ Wanted(o).op = o
    BY DEF Item, Wanted
  <1>3. \A item \in Item : item.type = "operation" => \E o \in Operation : item = Wanted(o)
    BY DEF Item, Update
  <1>4. SetIP \in Operation
    BY DEF SetIP, Operation, Address, Flag
  <1> QED
    BY <1>1, <1>2, <1>3, <1>4

\* An empty queue is a queue of anything.
LEMMA EmptyQueueType == ASSUME NEW S PROVE EmptyQueue \in [Priority -> Seq(S)]
  BY DEF EmptyQueue

\* Putting an operation or an update keeps the type of the queue.
LEMMA PutTypes ==
  ASSUME NEW q \in [Priority -> Seq(Item)]
  PROVE  /\ \A o \in Operation : PutItem(q, "HIGH", Wanted(o)) \in [Priority -> Seq(Item)]
         /\ PutItem(q, "LOW", Update) \in [Priority -> Seq(Item)]
  BY PutItemType, ItemTypes DEF Priority

\* A fresh board is a board, and its replies are replies.
LEMMA ReplyType ==
  /\ FreshBoard \in BoardState
  /\ board \in BoardState => \A address \in Address : ReplyTo(address) \in Reply
  BY DEF FreshBoard, BoardState, ReplyTo, Reply

\* The link starts well-typed.
LEMMA LinkInitType == Init => TypeInv
  <1> SUFFICES ASSUME Init PROVE TypeInv
    OBVIOUS
  <1>1. queue \in [Priority -> Seq(Item)]
    BY EmptyQueueType, PutTypes, ItemTypes DEF Init
  <1>2. board \in BoardState
    BY ReplyType DEF Init
  <1>3. /\ inbox \in Seq(Reply) /\ late \in Seq(Reply)
        /\ readings \in Seq(SUBSET Flag) /\ Len(readings) = 0
    BY DEF Init
  <1>4. /\ 0 \in 0..WriteAttempts /\ 0 \in 0..VerifyAttempts /\ 0 \in 0..ResendAfter
        /\ 0 \in 0..MaxOperations /\ 0 \in 0..MaxFaults
        /\ 0 <= Len(PollSequence)
    BY LinkConstants, LenProperties DEF LinkAssumptions
  <1>5. op \subseteq Operation /\ current \in SUBSET Flag /\ (op = {} <=> step = "idle")
    BY DEF Init
  <1>6. LinkTypeOK
    BY <1>1, <1>2, <1>3, <1>4, <1>5 DEF Init, LinkTypeOK
  <1> QED
    BY <1>6 DEF Init, TypeInv, OneOperation, AttemptsInv, ReadingsInv

\* A fault keeps the count of faults within its bound.
LEMMA LinkFaultType ==
  ASSUME LinkTypeOK, NEW kind, Fault(kind)
  PROVE  faults' \in 0..MaxFaults
  BY LinkConstants DEF LinkTypeOK, Fault, LinkAssumptions

\* Sending a request and taking or missing its reply keep the types.
LEMMA SocketTypes ==
  ASSUME LinkTypeOK
  PROVE  /\ \A address \in Address : SendRead(address) =>
                /\ inbox' \in Seq(Reply) /\ late' \in Seq(Reply)
                /\ awaiting' \in Address /\ faults' \in 0..MaxFaults
         /\ \A value : ReadGets(value) =>
                /\ inbox' \in Seq(Reply) /\ late' \in Seq(Reply) /\ awaiting' = "nothing"
         /\ ReadRaises =>
                /\ inbox' \in Seq(Reply) /\ late' \in Seq(Reply) /\ awaiting' = "nothing"
  <1>1. \A address \in Address : ReplyTo(address) \in Reply
    BY ReplyType DEF LinkTypeOK
  <1>2. inbox \in Seq(Reply) /\ late \in Seq(Reply) /\ faults \in 0..MaxFaults
    BY DEF LinkTypeOK
  <1>3. ASSUME NEW address \in Address, SendRead(address)
        PROVE  /\ inbox' \in Seq(Reply) /\ late' \in Seq(Reply)
               /\ awaiting' \in Address /\ faults' \in 0..MaxFaults
    <2>1. Append(inbox, ReplyTo(address)) \in Seq(Reply) /\ Append(late, ReplyTo(address)) \in Seq(Reply)
      BY <1>1, <1>2, AppendProperties
    <2> QED
      BY <1>2, <1>3, <2>1, LinkFaultType DEF SendRead
  <1>4. inbox # << >> => Tail(inbox) \in Seq(Reply)
    BY <1>2, HeadTailProperties
  <1> QED
    BY <1>2, <1>3, <1>4 DEF ReadGets, ReadRaises

\* The worker's steps outside its reads keep the types.
LEMMA WorkerTypes ==
  ASSUME TypeInv, Ask \/ TakeOperation \/ TakeUpdate \/ Lock \/ SendWrite
  PROVE  TypeInv'
  <1> USE LinkConstants DEF TypeInv, LinkTypeOK, OneOperation, AttemptsInv, ReadingsInv,
          LinkAssumptions, socketVars, workerVars, pollVars
  <1>1. CASE Ask
    <2>1. queue' \in [Priority -> Seq(Item)]
      BY <1>1, PutTypes DEF Ask
    <2>2. asked' \in 0..MaxOperations
      BY <1>1 DEF Ask
    <2> QED
      BY <1>1, <2>1, <2>2 DEF Ask
  <1>2. CASE TakeOperation
    <2>1. queue' \in [Priority -> Seq(Item)] /\ NextItem(queue) \in Item
      BY <1>2, TakeItemType DEF TakeOperation
    <2>2. PICK o \in Operation : NextItem(queue) = Wanted(o)
      BY <1>2, <2>1, ItemTypes DEF TakeOperation
    <2>3. op' = {o}
      BY <1>2, <2>2, ItemTypes DEF TakeOperation
    <2> QED
      BY <1>2, <2>1, <2>3 DEF TakeOperation
  <1>3. CASE TakeUpdate
    <2>1. queue' \in [Priority -> Seq(Item)]
      BY <1>3, TakeItemType DEF TakeUpdate
    <2> QED
      BY <1>3, <2>1 DEF TakeUpdate
  <1>4. CASE Lock
    BY <1>4 DEF Lock
  <1>5. CASE SendWrite
    <2>1. PICK o \in Operation : op = {o}
      BY <1>5 DEF SendWrite
    <2>2. Written(o, current) \in SUBSET Flag /\ o.address \in Address
      BY <2>1, WrittenType DEF Operation
    <2>3. board' \in BoardState
      BY <1>5, <2>1, <2>2 DEF SendWrite, BoardState
    <2>4. faults' \in 0..MaxFaults
      BY <1>5, LinkFaultType DEF SendWrite
    <2>5. writes' = writes + 1 /\ writes < WriteAttempts /\ verifies' = 0
      BY <1>5 DEF SendWrite
    <2> QED
      BY <1>5, <2>1, <2>3, <2>4, <2>5 DEF SendWrite
  <1> QED
    BY <1>1, <1>2, <1>3, <1>4, <1>5

\* The worker's reads keep the types.
LEMMA WorkerReadTypes ==
  ASSUME TypeInv,
         WorkerSends \/ ReadsCurrent \/ VerifySucceeds \/ VerifyDiffers \/ WorkerRaises
  PROVE  TypeInv'
  <1> USE LinkConstants DEF TypeInv, LinkTypeOK, OneOperation, AttemptsInv, ReadingsInv,
          LinkAssumptions, socketVars, workerVars, pollVars
  <1>1. CASE WorkerSends
    <2>1. PICK o \in Operation : op = {o} /\ SendRead(o.address) /\ o.address \in Address
      BY <1>1 DEF WorkerSends, Operation
    <2>2. /\ inbox' \in Seq(Reply) /\ late' \in Seq(Reply)
          /\ awaiting' \in Address /\ faults' \in 0..MaxFaults
      BY <2>1, SocketTypes
    <2> QED
      BY <1>1, <2>2 DEF WorkerSends
  <1>2. CASE ReadsCurrent
    <2>1. PICK value \in SUBSET Flag : ReadGets(value) /\ current' = value
      BY <1>2 DEF ReadsCurrent
    <2>2. inbox' \in Seq(Reply) /\ late' \in Seq(Reply) /\ awaiting' = "nothing"
      BY <2>1, SocketTypes
    <2> QED
      BY <1>2, <2>1, <2>2 DEF ReadsCurrent
  <1>3. CASE VerifySucceeds
    <2>1. inbox' \in Seq(Reply) /\ late' \in Seq(Reply) /\ awaiting' = "nothing"
      BY <1>3, SocketTypes DEF VerifySucceeds
    <2> QED
      BY <1>3, <2>1 DEF VerifySucceeds, End
  <1>4. CASE VerifyDiffers
    <2>1. inbox' \in Seq(Reply) /\ late' \in Seq(Reply) /\ awaiting' = "nothing"
      BY <1>4, SocketTypes DEF VerifyDiffers
    <2>2. CASE verifies + 1 < VerifyAttempts /\ verifies' = verifies + 1
               /\ UNCHANGED <<holder, step, op, current, writes, outcome>>
      BY <1>4, <2>1, <2>2 DEF VerifyDiffers
    <2>3. CASE writes < WriteAttempts /\ step' = "write"
               /\ UNCHANGED <<holder, op, current, writes, verifies, outcome>>
      BY <1>4, <2>1, <2>3 DEF VerifyDiffers
    <2>4. CASE End("failed")
      BY <1>4, <2>1, <2>4 DEF VerifyDiffers, End
    <2> QED
      BY <1>4, <2>2, <2>3, <2>4 DEF VerifyDiffers
  <1>5. CASE WorkerRaises
    <2>1. inbox' \in Seq(Reply) /\ late' \in Seq(Reply) /\ awaiting' = "nothing"
      BY <1>5, SocketTypes DEF WorkerRaises
    <2> QED
      BY <1>5, <2>1 DEF WorkerRaises, End
  <1> QED
    BY <1>1, <1>2, <1>3, <1>4, <1>5

\* The polling thread's steps keep the types.
LEMMA PollTypes ==
  ASSUME TypeInv, PollStep
  PROVE  TypeInv'
  <1> USE LinkConstants DEF TypeInv, LinkTypeOK, OneOperation, AttemptsInv, ReadingsInv,
          LinkAssumptions, socketVars, workerVars, pollVars
  <1>1. CASE PollStarts
    <2>1. Len(PollSequence) > 0
      BY EmptySeq, LenProperties
    <2> QED
      BY <1>1, <2>1 DEF PollStarts
  <1>2. CASE PollSends
    <2>1. PollSequence[Len(readings) + 1] \in Address
      BY <1>2, ElementOfSeq, LenProperties DEF PollSends
    <2>2. /\ inbox' \in Seq(Reply) /\ late' \in Seq(Reply)
          /\ awaiting' \in Address /\ faults' \in 0..MaxFaults
      BY <1>2, <2>1, SocketTypes DEF PollSends
    <2> QED
      BY <1>2, <2>2 DEF PollSends
  <1>3. CASE PollReads
    <2>1. PICK value \in SUBSET Flag : ReadGets(value) /\ readings' = Append(readings, value)
      BY <1>3 DEF PollReads
    <2>2. inbox' \in Seq(Reply) /\ late' \in Seq(Reply) /\ awaiting' = "nothing"
      BY <2>1, SocketTypes
    <2>3. /\ readings' \in Seq(SUBSET Flag)
          /\ Len(readings') = Len(readings) + 1
          /\ Len(readings) < Len(PollSequence)
      BY <1>3, <2>1, AppendProperties DEF PollReads
    <2>4. Len(readings') <= Len(PollSequence)
      BY <2>3, LenProperties
    <2>5. /\ pollPc' \in {"reading", "putting"} /\ holder' \in {"nobody", "worker", "poller"}
          /\ pollPc' = "reading" => Len(readings') < Len(PollSequence)
      BY <1>3, <2>3, <2>4, LenProperties DEF PollReads
    <2> QED
      BY <1>3, <2>2, <2>3, <2>4, <2>5 DEF PollReads
  <1>4. CASE PollPuts
    <2>1. queue' \in [Priority -> Seq(Item)]
      BY <1>4, PutTypes DEF PollPuts
    <2> QED
      BY <1>4, <2>1 DEF PollPuts
  <1>5. CASE PollRaises
    <2>1. inbox' \in Seq(Reply) /\ late' \in Seq(Reply) /\ awaiting' = "nothing"
      BY <1>5, SocketTypes DEF PollRaises
    <2>2. queue' \in [Priority -> Seq(Item)]
      BY <1>5, PutTypes, ItemTypes DEF PollRaises
    <2>3. errors' \in 0..ResendAfter
      BY <1>5 DEF PollRaises
    <2> QED
      BY <1>5, <2>1, <2>2, <2>3 DEF PollRaises
  <1> QED
    BY <1>1, <1>2, <1>3, <1>4, <1>5 DEF PollStep

\* The network and the power keep the types.
LEMMA WorldTypes ==
  ASSUME TypeInv, LateReplyArrives \/ PowerCycle
  PROVE  TypeInv'
  <1> USE DEF TypeInv, LinkTypeOK, OneOperation, AttemptsInv, ReadingsInv,
          socketVars, workerVars, pollVars
  <1>1. CASE LateReplyArrives
    <2>1. Head(late) \in Reply /\ Tail(late) \in Seq(Reply)
      BY <1>1, HeadTailProperties DEF LateReplyArrives
    <2>2. Append(inbox, Head(late)) \in Seq(Reply)
      BY <2>1, AppendProperties
    <2> QED
      BY <1>1, <2>1, <2>2 DEF LateReplyArrives
  <1>2. CASE PowerCycle
    <2>1. faults' \in 0..MaxFaults
      BY <1>2, LinkFaultType DEF PowerCycle
    <2> QED
      BY <1>2, <2>1, ReplyType DEF PowerCycle
  <1> QED
    BY <1>1, <1>2

\* Every step keeps the types.
LEMMA LinkStepType == TypeInv /\ [Next]_vars => TypeInv'
  <1> SUFFICES ASSUME TypeInv, [Next]_vars PROVE TypeInv'
    OBVIOUS
  <1>1. CASE UNCHANGED vars
    BY <1>1 DEF vars, socketVars, workerVars, pollVars,
                TypeInv, LinkTypeOK, OneOperation, AttemptsInv, ReadingsInv
  <1>2. CASE Next
    BY <1>2, WorkerTypes, WorkerReadTypes, PollTypes, WorldTypes DEF Next, WorkerStep
  <1> QED
    BY <1>1, <1>2

\* The link keeps its types whatever is lost, late or switched off: write_verify
\* stays within its attempts, and the worker has exactly one operation.
THEOREM LinkTypeCorrect == Spec => []LinkTypeOK
  <1>1. TypeInv => LinkTypeOK
    BY DEF TypeInv
  <1> QED
    BY <1>1, LinkInitType, LinkStepType, PTL DEF Spec

------------------------------------------------------------------------------
\* The lock and the socket, when datagrams are lost but never late and the board
\* stays on.
\*
\* A thread that reads holds the lock, what the socket holds is the reply to the
\* request it waits for, and no register changes while it waits.  So a read
\* returns the register as it is; what the worker read before it writes is
\* still so when it writes, and what a poll has read is so until it ends.

LossesOnly == FaultKinds \subseteq {"lost"}

LockInv ==
    /\ step \in {"read", "write", "verify"} <=> holder = "worker"
    /\ pollPc = "reading" <=> holder = "poller"
AwaitInv ==
    awaiting # "nothing" =>
        \/ step \in {"read", "verify"} /\ \A o \in op : awaiting = o.address
        \/ pollPc = "reading" /\ awaiting = PollSequence[Len(readings) + 1]
\* What the worker writes is what the operation makes of the register.
CurrentInv ==
    step \in {"write", "verify"} =>
        \A o \in op : Written(o, current) = Written(o, board[o.address])

WireInv ==
    /\ TypeInv
    /\ LockInv /\ AwaitInv /\ CurrentInv
    /\ SocketInStep /\ PollIsASnapshot

\* The wire invariant holds at the start.
LEMMA InitWire == Init => WireInv
  BY LinkInitType
     DEF Init, WireInv, LockInv, AwaitInv, CurrentInv, SocketInStep, PollIsASnapshot

\* Nobody waits: the socket is as empty as it was, the rest is what it was.
LEMMA QuietWire ==
  ASSUME WireInv, UNCHANGED <<board, inbox, late, awaiting>>, awaiting = "nothing"
  PROVE  AwaitInv' /\ SocketInStep'
  BY DEF WireInv, AwaitInv, SocketInStep

\* A request finds an empty socket, and at most its reply is in it afterwards.
LEMMA SendsInStep ==
  ASSUME LossesOnly, WireInv, NEW address \in Address, SendRead(address), UNCHANGED board
  PROVE  SocketInStep' /\ awaiting' = address
  <1>1. inbox = << >> /\ late = << >>
    BY DEF WireInv, SocketInStep, SendRead
  <1>2. awaiting' = address /\ ReplyTo(address)' = ReplyTo(address)
    BY DEF SendRead, ReplyTo
  <1>3. late' = << >> /\ (inbox' = << >> \/ inbox' = <<ReplyTo(address)>>)
    BY <1>1 DEF SendRead, LossesOnly, Fault
  <1>4. address # "nothing"
    BY DEF Address
  <1>5. ReplyTo(awaiting)' = ReplyTo(address)
    BY <1>2 DEF ReplyTo
  <1>6. CASE inbox' = << >>
    BY <1>2, <1>3, <1>4, <1>6 DEF SocketInStep
  <1>7. CASE inbox' = <<ReplyTo(address)>>
    <2>1. Len(<<ReplyTo(address)>>) = 1 /\ Head(<<ReplyTo(address)>>) = ReplyTo(address)
      OBVIOUS
    <2>2. Len(inbox') <= 1 /\ Head(inbox') = ReplyTo(address)
      BY <1>7, <2>1
    <2> QED
      BY <1>2, <1>3, <1>4, <1>5, <2>2 DEF SocketInStep
  <1> QED
    BY <1>2, <1>3, <1>6, <1>7

\* A read that ends leaves an empty socket, and a value it gets is the register's.
LEMMA ReadsInStep ==
  ASSUME WireInv, UNCHANGED board
  PROVE  /\ \A value : ReadGets(value) =>
                SocketInStep' /\ awaiting' = "nothing" /\ value = board[awaiting]
         /\ ReadRaises => SocketInStep' /\ awaiting' = "nothing"
  <1>1. inbox \in Seq(Reply) /\ Len(inbox) <= 1 /\ late = << >>
    BY DEF WireInv, TypeInv, LinkTypeOK, SocketInStep
  <1>2. inbox # << >> => Tail(inbox) = << >>
    <2>1. SUFFICES ASSUME inbox # << >> PROVE Tail(inbox) = << >>
      OBVIOUS
    <2>2. Tail(inbox) \in Seq(Reply) /\ Len(Tail(inbox)) = Len(inbox) - 1
      BY <1>1, <2>1, HeadTailProperties
    <2>3. Len(inbox) \in Nat /\ Len(Tail(inbox)) \in Nat
      BY <1>1, <2>2, LenProperties
    <2>4. Len(Tail(inbox)) = 0
      BY <1>1, <2>2, <2>3
    <2> QED
      BY <2>2, <2>4, EmptySeq
  <1>3. inbox # << >> => Head(inbox) = [address |-> awaiting, value |-> board[awaiting]]
    BY DEF WireInv, SocketInStep, ReplyTo
  <1>4. ASSUME NEW value, ReadGets(value)
        PROVE  SocketInStep' /\ awaiting' = "nothing" /\ value = board[awaiting]
    BY <1>1, <1>2, <1>3, <1>4 DEF ReadGets, SocketInStep
  <1>5. ASSUME ReadRaises
        PROVE  SocketInStep' /\ awaiting' = "nothing"
    BY <1>1, <1>2, <1>5 DEF ReadRaises, SocketInStep
  <1> QED
    BY <1>4, <1>5

\* Writing the same again changes nothing.
LEMMA WrittenAgain ==
  ASSUME NEW o \in Operation, NEW value \in SUBSET Flag
  PROVE  Written(o, Written(o, value)) = Written(o, value)
  BY DEF Written

\* Events for the worker, and taking them, keep the wire invariant.
LEMMA EventWire ==
  ASSUME WireInv, TypeInv', Ask \/ TakeOperation \/ TakeUpdate
  PROVE  WireInv'
  <1> USE DEF WireInv, TypeInv, LinkTypeOK, LockInv, AwaitInv, CurrentInv, SocketInStep, PollIsASnapshot,
              ReplyTo, socketVars, workerVars, pollVars
  <1>1. CASE Ask
    BY <1>1 DEF Ask
  <1>2. CASE TakeOperation
    BY <1>2 DEF TakeOperation
  <1>3. CASE TakeUpdate
    BY <1>3 DEF TakeUpdate
  <1> QED
    BY <1>1, <1>2, <1>3

\* Getting the lock and writing keep the wire invariant: nobody waits for a reply.
LEMMA WriteWire ==
  ASSUME WireInv, TypeInv', Lock \/ SendWrite
  PROVE  WireInv'
  <1>1. CASE Lock
    <2>1. /\ step = "lock" /\ holder = "nobody" /\ holder' = "worker"
          /\ step' \in {"read", "write"}
          /\ step' = "write" => \E o \in op : o.mode = "assign"
          /\ UNCHANGED <<board, inbox, late, awaiting, op, current, pollPc, readings>>
      BY <1>1 DEF Lock, socketVars, pollVars
    <2>2. awaiting = "nothing" /\ pollPc # "reading"
      BY <2>1 DEF WireInv, LockInv, AwaitInv
    <2>3. AwaitInv' /\ SocketInStep'
      BY <2>1, <2>2, QuietWire
    <2>4. LockInv' /\ PollIsASnapshot'
      BY <2>1, <2>2 DEF WireInv, LockInv, PollIsASnapshot
    <2>5. PICK o \in Operation : op = {o}
      BY <2>1 DEF WireInv, TypeInv, OneOperation
    <2>6. CurrentInv'
      BY <2>1, <2>5 DEF CurrentInv, Written
    <2> QED
      BY <2>3, <2>4, <2>6 DEF WireInv
  <1>2. CASE SendWrite
    <2>1. PICK o \in Operation : op = {o}
      BY <1>2 DEF SendWrite, WireInv, TypeInv, OneOperation
    <2>2. /\ step = "write" /\ step' = "verify" /\ holder = "worker" /\ pollPc # "reading"
          /\ awaiting = "nothing"
          /\ UNCHANGED <<holder, inbox, late, awaiting, op, current, pollPc, readings>>
      BY <1>2 DEF SendWrite, socketVars, pollVars, WireInv, LockInv, AwaitInv
    <2>3. SocketInStep' /\ AwaitInv'
      BY <2>2 DEF WireInv, SocketInStep, AwaitInv
    <2>4. LockInv' /\ PollIsASnapshot'
      BY <2>2 DEF WireInv, LockInv, PollIsASnapshot
    <2>5. CurrentInv'
      <3>1. Written(o, current) = Written(o, board[o.address])
        BY <2>1, <2>2 DEF WireInv, CurrentInv
      <3>2. o.address \in Address /\ board \in BoardState /\ current \in SUBSET Flag
        BY DEF WireInv, TypeInv, LinkTypeOK, Operation
      <3>3. board'[o.address] = Written(o, current) \/ board' = board
        BY <1>2, <2>1, <3>2 DEF SendWrite, BoardState
      <3>4. Written(o, board'[o.address]) = Written(o, current)
        BY <3>1, <3>2, <3>3, WrittenAgain
      <3> QED
        BY <2>1, <2>2, <3>4 DEF CurrentInv
    <2> QED
      BY <2>3, <2>4, <2>5 DEF WireInv
  <1> QED
    BY <1>1, <1>2

\* The worker's reads keep the wire invariant.
LEMMA WorkerReadWire ==
  ASSUME LossesOnly, WireInv, TypeInv',
         WorkerSends \/ ReadsCurrent \/ VerifySucceeds \/ VerifyDiffers \/ WorkerRaises
  PROVE  WireInv'
  <1>1. PICK o \in Operation : op = {o}
    BY DEF WireInv, TypeInv, OneOperation, WorkerSends, ReadsCurrent, VerifySucceeds,
           VerifyDiffers, WorkerRaises
  <1>2. /\ step \in {"read", "verify"} /\ holder = "worker" /\ pollPc # "reading"
        /\ UNCHANGED <<board, pollPc, readings>>
        /\ o.address \in Address
        /\ awaiting # "nothing" => awaiting = o.address
    BY <1>1 DEF WorkerSends, ReadsCurrent, VerifySucceeds, VerifyDiffers, WorkerRaises,
           pollVars, WireInv, LockInv, AwaitInv, Operation
  <1>3. PollIsASnapshot'
    BY <1>2 DEF PollIsASnapshot
  <1>4. CASE WorkerSends
    <2>1. SendRead(o.address) /\ UNCHANGED <<holder, step, op, current>>
      BY <1>1, <1>4 DEF WorkerSends, workerVars
    <2>2. SocketInStep' /\ awaiting' = o.address
      BY <1>2, <2>1, SendsInStep
    <2>3. LockInv' /\ AwaitInv' /\ CurrentInv'
      BY <1>1, <1>2, <2>1, <2>2 DEF WireInv, LockInv, AwaitInv, CurrentInv
    <2> QED
      BY <1>3, <2>2, <2>3 DEF WireInv
  <1>5. CASE ReadsCurrent
    <2>1. PICK value \in SUBSET Flag : ReadGets(value) /\ current' = value
      BY <1>5 DEF ReadsCurrent
    <2>2. SocketInStep' /\ awaiting' = "nothing" /\ value = board[o.address]
      BY <1>2, <2>1, ReadsInStep DEF ReadGets
    <2>3. step' = "write" /\ UNCHANGED <<holder, op>>
      BY <1>5 DEF ReadsCurrent
    <2>4. LockInv' /\ AwaitInv' /\ CurrentInv'
      BY <1>1, <1>2, <2>1, <2>2, <2>3 DEF WireInv, LockInv, AwaitInv, CurrentInv
    <2> QED
      BY <1>3, <2>2, <2>4 DEF WireInv
  <1>6. CASE VerifySucceeds \/ VerifyDiffers \/ WorkerRaises
    <2>1. SocketInStep' /\ awaiting' = "nothing"
      BY <1>2, <1>6, ReadsInStep DEF VerifySucceeds, VerifyDiffers, WorkerRaises
    <2>2. \/ step' = "idle" /\ holder' = "nobody"
          \/ step' \in {"write", "verify"} /\ step = "verify" /\ UNCHANGED <<holder, op, current>>
      BY <1>2, <1>6 DEF VerifySucceeds, VerifyDiffers, WorkerRaises, End
    <2>3. LockInv' /\ AwaitInv'
      BY <1>2, <2>1, <2>2 DEF WireInv, LockInv, AwaitInv
    <2>4. CurrentInv'
      BY <1>2, <2>2 DEF WireInv, CurrentInv
    <2> QED
      BY <1>3, <2>1, <2>3, <2>4 DEF WireInv
  <1> QED
    BY <1>4, <1>5, <1>6

\* Polls keep the wire invariant: they only read, and only with the lock.
LEMMA PollWire ==
  ASSUME LossesOnly, WireInv, TypeInv', PollStep
  PROVE  WireInv'
  <1>1. UNCHANGED <<board, step, op, current>>
    BY DEF PollStep, PollStarts, PollSends, PollReads, PollPuts, PollRaises, workerVars
  <1>2. CurrentInv'
    BY <1>1 DEF WireInv, CurrentInv
  <1>3. CASE PollStarts
    <2>1. /\ holder = "nobody" /\ holder' = "poller" /\ pollPc = "sleeping"
          /\ pollPc' = "reading" /\ UNCHANGED <<inbox, late, awaiting, readings>>
      BY <1>3 DEF PollStarts, socketVars
    <2>2. awaiting = "nothing" /\ readings = << >>
      BY <2>1 DEF WireInv, LockInv, AwaitInv, TypeInv, ReadingsInv
    <2>3. AwaitInv' /\ SocketInStep'
      BY <1>1, <2>1, <2>2, QuietWire
    <2>4. LockInv' /\ PollIsASnapshot'
      BY <1>1, <2>1, <2>2 DEF WireInv, LockInv, PollIsASnapshot
    <2> QED
      BY <1>2, <2>3, <2>4 DEF WireInv
  <1>4. CASE PollSends
    <2>1. PollSequence[Len(readings) + 1] \in Address
      BY <1>4, LinkConstants, ElementOfSeq, LenProperties
         DEF PollSends, WireInv, TypeInv, LinkTypeOK, ReadingsInv, LinkAssumptions
    <2>2. pollPc = "reading" /\ SendRead(PollSequence[Len(readings) + 1])
          /\ UNCHANGED <<holder, pollPc, readings>>
      BY <1>4 DEF PollSends, pollVars
    <2>3. SocketInStep' /\ awaiting' = PollSequence[Len(readings) + 1]
      BY <1>1, <2>1, <2>2, SendsInStep
    <2>4. LockInv' /\ AwaitInv' /\ PollIsASnapshot'
      BY <1>1, <2>2, <2>3 DEF WireInv, LockInv, AwaitInv, PollIsASnapshot
    <2> QED
      BY <1>2, <2>3, <2>4 DEF WireInv
  <1>5. CASE PollReads
    <2>1. PICK value \in SUBSET Flag : ReadGets(value) /\ readings' = Append(readings, value)
      BY <1>5 DEF PollReads
    <2>2. /\ pollPc = "reading" /\ holder = "poller"
          /\ awaiting = PollSequence[Len(readings) + 1]
      BY <1>5, <2>1 DEF PollReads, ReadGets, WireInv, LockInv, AwaitInv
    <2>3. /\ SocketInStep' /\ awaiting' = "nothing"
          /\ value = board[PollSequence[Len(readings) + 1]]
      BY <1>1, <2>1, <2>2, ReadsInStep
    <2>4. LockInv' /\ AwaitInv'
      BY <1>1, <1>5, <2>2, <2>3 DEF PollReads, WireInv, LockInv, AwaitInv
    <2>5. PollIsASnapshot'
      <3>1. readings \in Seq(SUBSET Flag)
        BY DEF WireInv, TypeInv, LinkTypeOK
      <3>2. ASSUME NEW i \in 1..Len(readings')
            PROVE  readings'[i] = board[PollSequence[i]]
        <4>1. i \in 1..Len(readings) \/ i = Len(readings) + 1
          BY <2>1, <3>1, <3>2, AppendProperties, LenProperties
        <4>2. CASE i \in 1..Len(readings)
          BY <2>1, <2>2, <3>1, <4>2, AppendProperties DEF WireInv, PollIsASnapshot
        <4>3. CASE i = Len(readings) + 1
          BY <2>1, <2>3, <3>1, <4>3, AppendProperties
        <4> QED
          BY <4>1, <4>2, <4>3
      <3> QED
        BY <1>1, <3>2 DEF PollIsASnapshot
    <2> QED
      BY <1>2, <2>3, <2>4, <2>5 DEF WireInv
  <1>6. CASE PollPuts
    <2>1. /\ pollPc = "putting" /\ pollPc' = "sleeping"
          /\ UNCHANGED <<holder, inbox, late, awaiting>>
      BY <1>6 DEF PollPuts, socketVars
    <2> QED
      BY <1>1, <1>2, <2>1
         DEF WireInv, LockInv, AwaitInv, SocketInStep, PollIsASnapshot, ReplyTo
  <1>7. CASE PollRaises
    <2>1. /\ pollPc = "reading" /\ pollPc' = "sleeping"
          /\ holder' = "nobody" /\ ReadRaises
      BY <1>7 DEF PollRaises
    <2>2. SocketInStep' /\ awaiting' = "nothing"
      BY <1>1, <2>1, ReadsInStep
    <2> QED
      BY <1>1, <1>2, <2>1, <2>2 DEF WireInv, LockInv, AwaitInv, PollIsASnapshot
  <1> QED
    BY <1>3, <1>4, <1>5, <1>6, <1>7 DEF PollStep

\* Every step keeps the wire invariant: no reply is late, the board stays on.
LEMMA StepWire == LossesOnly => (WireInv /\ [Next]_vars => WireInv')
  <1> SUFFICES ASSUME LossesOnly, WireInv, [Next]_vars PROVE WireInv'
    OBVIOUS
  <1>1. TypeInv'
    BY LinkStepType DEF WireInv
  <1>2. CASE UNCHANGED vars
    BY <1>1, <1>2 DEF vars, socketVars, workerVars, pollVars, WireInv, LockInv, AwaitInv,
                      CurrentInv, SocketInStep, PollIsASnapshot, ReplyTo
  <1>3. CASE LateReplyArrives \/ PowerCycle
    BY <1>3 DEF LateReplyArrives, PowerCycle, Fault, LossesOnly, WireInv, SocketInStep
  <1>4. CASE Ask \/ WorkerStep \/ Lock \/ PollStep
    BY <1>1, <1>4, EventWire, WriteWire, WorkerReadWire, PollWire DEF WorkerStep
  <1> QED
    BY <1>2, <1>3, <1>4 DEF Next

\* As long as no reply is late, the socket never holds anything but the reply to
\* the request that is waited for, however worker and polls interleave and
\* whatever is lost.
THEOREM RepliesAnswerTheirRequest ==
  ASSUME LossesOnly
  PROVE  Spec => []SocketInStep
  <1>1. WireInv => SocketInStep
    BY DEF WireInv
  <1>2. WireInv /\ [Next]_vars => WireInv'
    BY StepWire
  <1> QED
    BY <1>1, <1>2, InitWire, PTL DEF Spec

\* As long as the board stays on and no reply is late, a hardware update is a
\* state the board was in, with any number of registers read for it.
THEOREM PollsAreSnapshots ==
  ASSUME LossesOnly
  PROVE  Spec => []PollIsASnapshot
  <1>1. WireInv => PollIsASnapshot
    BY DEF WireInv
  <1>2. WireInv /\ [Next]_vars => WireInv'
    BY StepWire
  <1> QED
    BY <1>1, <1>2, InitWire, PTL DEF Spec

------------------------------------------------------------------------------
\* The link implements verified writes.

\* The operators of the abstract specification are those of the link.
LEMMA SameRegisters ==
  /\ Abstract!Operation = Operation
  /\ Abstract!FreshBoard = FreshBoard
  /\ \A o, value : /\ Abstract!Written(o, value) = Written(o, value)
                   /\ Abstract!Verifies(o, value) <=> Verifies(o, value)
  BY DEF Abstract!Operation, Operation, Abstract!FreshBoard, FreshBoard, Abstract!Written, Written,
         Abstract!Verifies, Verifies, Abstract!Address, Address, Abstract!Flag, Flag

\* A step that leaves the board, the operation and its outcome alone is a stutter.
\* Any other starts an operation, applies it or ends it.
LEMMA StepImplements ==
  ASSUME LossesOnly, WireInv, [Next]_vars
  PROVE  [Abstract!Next]_<<board, op, outcome>>
  <1>1. CASE TakeOperation
    <2>1. NextItem(queue) \in Item
      BY <1>1, TakeItemType DEF TakeOperation, WireInv, TypeInv, LinkTypeOK
    <2>2. PICK o \in Operation : op' = {o}
      BY <1>1, <2>1, ItemTypes DEF TakeOperation
    <2>3. op = {} /\ UNCHANGED <<board, outcome>>
      BY <1>1 DEF TakeOperation, WireInv, TypeInv, LinkTypeOK
    <2>4. Abstract!Start(o)
      BY <2>2, <2>3 DEF Abstract!Start
    <2> QED
      BY <2>4, SameRegisters DEF Abstract!Next
  <1>2. CASE SendWrite
    <2>1. PICK o \in Operation : op = {o}
      BY <1>2 DEF SendWrite, WireInv, TypeInv, OneOperation
    <2>2. Written(o, current) = Written(o, board[o.address])
      BY <1>2, <2>1 DEF SendWrite, WireInv, CurrentInv
    <2>3. UNCHANGED <<op, outcome>>
      BY <1>2 DEF SendWrite
    <2>4. CASE board' = [board EXCEPT ![o.address] = Written(o, current)]
      <3>1. Abstract!Apply(o)
        BY <2>1, <2>2, <2>3, <2>4, SameRegisters DEF Abstract!Apply
      <3> QED
        BY <3>1, SameRegisters DEF Abstract!Next
    <2>5. CASE UNCHANGED board
      BY <2>3, <2>5
    <2> QED
      BY <1>2, <2>1, <2>4, <2>5 DEF SendWrite
  <1>3. CASE VerifySucceeds
    <2>1. PICK o \in Operation : op = {o}
      BY <1>3 DEF VerifySucceeds, WireInv, TypeInv, OneOperation
    <2>2. PICK value \in SUBSET Flag : ReadGets(value) /\ Verifies(o, value)
      BY <1>3, <2>1 DEF VerifySucceeds
    <2>3. op' = {} /\ outcome' = "done" /\ UNCHANGED board
      BY <1>3 DEF VerifySucceeds, End
    <2>4. value = board[awaiting] /\ awaiting = o.address
      BY <1>3, <2>1, <2>2, <2>3, ReadsInStep
         DEF VerifySucceeds, ReadGets, WireInv, AwaitInv, LockInv
    <2>5. Abstract!Done(o)
      BY <2>1, <2>2, <2>3, <2>4, SameRegisters DEF Abstract!Done
    <2> QED
      BY <2>5, SameRegisters DEF Abstract!Next
  <1>4. CASE VerifyDiffers \/ WorkerRaises
    <2>1. PICK o \in Operation : op = {o}
      BY <1>4 DEF VerifyDiffers, WorkerRaises, WireInv, TypeInv, OneOperation
    <2>2. CASE End("failed") /\ UNCHANGED board
      <3>1. Abstract!Failed(o)
        BY <2>1, <2>2 DEF End, Abstract!Failed
      <3> QED
        BY <3>1, SameRegisters DEF Abstract!Next
    <2>3. CASE UNCHANGED <<board, op, outcome>>
      BY <2>3
    <2> QED
      BY <1>4, <2>2, <2>3 DEF VerifyDiffers, WorkerRaises
  <1>5. CASE Ask \/ TakeUpdate \/ Lock \/ WorkerSends \/ ReadsCurrent \/ PollStep
             \/ LateReplyArrives \/ UNCHANGED vars
    BY <1>5 DEF Ask, TakeUpdate, Lock, WorkerSends, ReadsCurrent, PollStep, PollStarts, PollSends,
                PollReads, PollPuts, PollRaises, LateReplyArrives, vars, workerVars
  <1>6. CASE PowerCycle
    BY <1>6 DEF PowerCycle, Fault, LossesOnly
  <1> QED
    BY <1>1, <1>2, <1>3, <1>4, <1>5, <1>6 DEF Next, WorkerStep

\* As long as the board stays on and no reply is late, the datagrams, retries and
\* locking of comms.py give every handler the verified write it counts on.
THEOREM LinkImplementsVerifiedWrites ==
  ASSUME LossesOnly
  PROVE  Spec => ImplementsVerifiedWrites
  <1>1. Init => Abstract!Init
    BY SameRegisters DEF Init, Abstract!Init
  <1>2. WireInv /\ [Next]_vars => [Abstract!Next]_<<board, op, outcome>>
    BY StepImplements
  <1>3. WireInv /\ [Next]_vars => WireInv'
    BY StepWire
  <1> QED
    BY <1>1, <1>2, <1>3, InitWire, PTL DEF Spec, ImplementsVerifiedWrites, Abstract!Spec
------------------------------------------------------------------------------
\* Operations run out of attempts, under all faults.

LEMMA InitLock == Init => LockInv
  BY DEF Init, LockInv

\* Only the thread that holds the lock uses the socket, whatever fails.
LEMMA StepLock == TypeInv /\ LockInv /\ [Next]_vars => LockInv'
  <1> SUFFICES ASSUME TypeInv, LockInv, [Next]_vars PROVE LockInv'
    OBVIOUS
  <1>1. CASE UNCHANGED vars
    BY <1>1 DEF vars, workerVars, pollVars, LockInv
  <1>2. CASE Ask \/ TakeOperation \/ TakeUpdate
    BY <1>2 DEF Ask, TakeOperation, TakeUpdate, workerVars, pollVars, LockInv
  <1>3. CASE Lock
    <2>1. PICK o \in Operation : op = {o}
      BY <1>3 DEF Lock, TypeInv, OneOperation
    <2>2. step' \in {"write", "read"} /\ holder = "nobody" /\ holder' = "worker"
          /\ UNCHANGED pollVars
      BY <1>3, <2>1 DEF Lock
    <2> QED
      BY <2>2 DEF pollVars, LockInv
  <1>4. CASE WorkerSends \/ ReadsCurrent \/ SendWrite
    BY <1>4 DEF WorkerSends, ReadsCurrent, SendWrite, workerVars, pollVars, LockInv
  <1>5. CASE VerifySucceeds \/ VerifyDiffers \/ WorkerRaises
    BY <1>5 DEF VerifySucceeds, VerifyDiffers, WorkerRaises, End, pollVars, LockInv
  <1>6. CASE PollStarts \/ PollSends \/ PollPuts \/ PollRaises
    BY <1>6 DEF PollStarts, PollSends, PollPuts, PollRaises, workerVars, pollVars, LockInv
  <1>7. CASE PollReads
    BY <1>7 DEF PollReads, workerVars, LockInv
  <1>8. CASE LateReplyArrives \/ PowerCycle
    BY <1>8 DEF LateReplyArrives, PowerCycle, workerVars, pollVars, LockInv
  <1> QED
    BY <1>1, <1>2, <1>3, <1>4, <1>5, <1>6, <1>7, <1>8 DEF Next, WorkerStep, PollStep

\* What the attempts of a write take, and those of all the writes that are left.
PerWrite   == 2 * VerifyAttempts + 1
ForWrites(n) == (WriteAttempts - n) * PerWrite

LEMMA WritesLeft ==
  /\ PerWrite \in Nat
  /\ \A n \in 0..WriteAttempts : ForWrites(n) \in Nat
  /\ \A n \in 0..(WriteAttempts - 1) : ForWrites(n) = ForWrites(n + 1) + PerWrite
  <1>1. WriteAttempts \in Nat /\ VerifyAttempts \in Nat /\ PerWrite \in Nat
    BY LinkConstants DEF LinkAssumptions, PerWrite
  <1> HIDE DEF PerWrite
  <1>2. ASSUME NEW k \in Nat, NEW c \in Nat PROVE k * c \in Nat /\ (k + 1) * c = k * c + c
    OBVIOUS
  <1>3. ASSUME NEW n \in 0..WriteAttempts PROVE ForWrites(n) \in Nat
    <2>1. WriteAttempts - n \in Nat
      BY <1>1
    <2> QED
      BY <1>1, <1>2, <2>1 DEF ForWrites
  <1>4. ASSUME NEW n \in 0..(WriteAttempts - 1)
        PROVE  ForWrites(n) = ForWrites(n + 1) + PerWrite
    <2>1. WriteAttempts - (n + 1) \in Nat /\ (WriteAttempts - (n + 1)) + 1 = WriteAttempts - n
      BY <1>1
    <2> QED
      BY <1>1, <1>2, <2>1 DEF ForWrites
  <1> QED
    BY <1>1, <1>3, <1>4

\* StepsLeft in the values it depends on.
StepsAt(at, w, v, a) ==
    LET Reading(reads) == 2 * reads - (IF a = "nothing" THEN 0 ELSE 1) IN
    (WriteAttempts - w) * (2 * VerifyAttempts + 1)
    + CASE at = "lock"   -> 3
        [] at = "read"   -> Reading(1)
        [] at = "verify" -> Reading(VerifyAttempts - v)
        [] OTHER         -> 0

LEMMA StepsAtEach ==
  ASSUME NEW w \in 0..WriteAttempts, NEW v \in 0..VerifyAttempts, NEW a
  PROVE  LET pending == IF a = "nothing" THEN 0 ELSE 1 IN
         /\ StepsAt("lock", w, v, a) = ForWrites(w) + 3
         /\ StepsAt("read", w, v, a) = ForWrites(w) + 2 - pending
         /\ StepsAt("write", w, v, a) = ForWrites(w)
         /\ StepsAt("verify", w, v, a) = ForWrites(w) + 2 * (VerifyAttempts - v) - pending
  <1> DEFINE pending == IF a = "nothing" THEN 0 ELSE 1
  <1>1. VerifyAttempts \in Nat /\ pending \in 0..1
    BY LinkConstants DEF LinkAssumptions
  <1>2. ForWrites(w) \in Nat /\ ForWrites(w) = (WriteAttempts - w) * PerWrite
    BY WritesLeft DEF ForWrites
  <1>3. PerWrite = 2 * VerifyAttempts + 1
    BY DEF PerWrite
  <1> HIDE DEF ForWrites, PerWrite, pending
  <1>4. /\ StepsAt("lock", w, v, a) = ForWrites(w) + 3
        /\ StepsAt("read", w, v, a) = ForWrites(w) + (2 * 1 - pending)
        /\ StepsAt("write", w, v, a) = ForWrites(w) + 0
        /\ StepsAt("verify", w, v, a) = ForWrites(w) + (2 * (VerifyAttempts - v) - pending)
    BY <1>2, <1>3 DEF StepsAt, pending
  <1>5. /\ StepsAt("read", w, v, a) = ForWrites(w) + 2 - pending
        /\ StepsAt("write", w, v, a) = ForWrites(w)
        /\ StepsAt("verify", w, v, a) = ForWrites(w) + 2 * (VerifyAttempts - v) - pending
    BY <1>1, <1>2, <1>4
  <1> QED
    BY <1>4, <1>5 DEF pending

\* It is never less than what the writes that are left take.
LEMMA StepsAtLeast ==
  ASSUME NEW w \in 0..WriteAttempts, NEW v \in 0..VerifyAttempts, NEW a,
         NEW at \in {"lock", "read", "write", "verify"}, at = "verify" => v < VerifyAttempts
  PROVE  StepsAt(at, w, v, a) \in Nat /\ StepsAt(at, w, v, a) >= ForWrites(w)
  <1>1. VerifyAttempts \in Nat /\ ForWrites(w) \in Nat
    BY WritesLeft, LinkConstants DEF LinkAssumptions
  <1> HIDE DEF ForWrites
  <1> QED
    BY <1>1, StepsAtEach

LEMMA StepsLeftIsStepsAt ==
  /\ StepsLeft = StepsAt(step, writes, verifies, awaiting)
  /\ StepsLeft' = StepsAt(step', writes', verifies', awaiting')
  BY DEF StepsLeft, StepsAt

LEMMA OperationCounts ==
  ASSUME TypeInv, TypeInv', LockInv, [Next]_vars, op # {}, op' = op
  PROVE  StepsLeft' \in 0..StepsLeft /\ (WorkerStep \/ Lock => StepsLeft' < StepsLeft)
  <1> DEFINE before == StepsAt(step, writes, verifies, awaiting)
             after  == StepsAt(step', writes', verifies', awaiting')
  <1>1. /\ WriteAttempts \in Nat /\ VerifyAttempts \in Nat
        /\ writes \in 0..WriteAttempts /\ verifies \in 0..VerifyAttempts
        /\ step = "verify" => verifies < VerifyAttempts
        /\ step = "write" => writes < WriteAttempts
        /\ step \in {"lock", "read", "write", "verify"}
        /\ awaiting \in Address \cup {"nothing"} /\ "nothing" \notin Address
    BY LinkConstants DEF LinkAssumptions, TypeInv, LinkTypeOK, AttemptsInv, Address
  <1>2. /\ writes' \in 0..WriteAttempts /\ verifies' \in 0..VerifyAttempts
        /\ step' = "verify" => verifies' < VerifyAttempts
        /\ step' \in {"lock", "read", "write", "verify"}
    BY DEF TypeInv, LinkTypeOK, AttemptsInv
  <1>3. before \in Nat /\ after \in Nat
    BY <1>1, <1>2, StepsAtLeast
  <1>4. \E o \in Operation : op = {o} /\ o.address \in Address
    BY <1>1 DEF TypeInv, OneOperation, Operation
  <1>5. CASE Lock
    <2>1. step = "lock" /\ step' \in {"read", "write"} /\ writes' = writes
      BY <1>4, <1>5 DEF Lock
    <2>2. after < before
      BY <1>1, <1>2, <2>1, StepsAtEach, WritesLeft
    <2> QED
      BY <1>3, <2>2, StepsLeftIsStepsAt
  <1>6. CASE WorkerSends
    <2>1. /\ step \in {"read", "verify"} /\ UNCHANGED <<step, writes, verifies>>
          /\ awaiting = "nothing" /\ awaiting' # "nothing"
      BY <1>1, <1>4, <1>6 DEF WorkerSends, SendRead, workerVars
    <2>2. after < before
      BY <1>1, <1>2, <2>1, StepsAtEach, WritesLeft
    <2> QED
      BY <1>3, <2>2, StepsLeftIsStepsAt
  <1>7. CASE ReadsCurrent
    <2>1. step = "read" /\ step' = "write" /\ writes' = writes
      BY <1>7 DEF ReadsCurrent
    <2>2. after < before
      BY <1>1, <1>2, <2>1, StepsAtEach, WritesLeft
    <2> QED
      BY <1>3, <2>2, StepsLeftIsStepsAt
  <1>8. CASE SendWrite
    <2>1. step = "write" /\ step' = "verify" /\ writes' = writes + 1 /\ verifies' = 0
      BY <1>8 DEF SendWrite
    <2>2. ForWrites(writes) = ForWrites(writes') + PerWrite /\ ForWrites(writes') \in Nat
      BY <1>1, <2>1, WritesLeft
    <2>3. PerWrite = 2 * VerifyAttempts + 1
      BY DEF PerWrite
    <2>4. before = ForWrites(writes)
      BY <1>1, <2>1, StepsAtEach
    <2>5. after <= ForWrites(writes') + 2 * VerifyAttempts
      BY <1>1, <1>2, <2>1, <2>2, StepsAtEach
    <2> HIDE DEF before, after, ForWrites, PerWrite
    <2>6. after < before
      BY <1>1, <1>3, <2>2, <2>3, <2>4, <2>5
    <2> QED
      BY <1>3, <2>6, StepsLeftIsStepsAt DEF before, after
  <1>9. CASE VerifyDiffers
    <2>1. step = "verify" /\ awaiting # "nothing" /\ awaiting' = "nothing" /\ op' # {}
      BY <1>9 DEF VerifyDiffers, ReadGets
    <2>2. /\ writes' = writes
          /\ \/ step' = "verify" /\ verifies' = verifies + 1
             \/ step' = "write"
      BY <1>9, <2>1 DEF VerifyDiffers, End
    <2>3. before = ForWrites(writes) + 2 * (VerifyAttempts - verifies) - 1
      BY <1>1, <2>1, StepsAtEach
    <2>4. ForWrites(writes) \in Nat
      BY <1>1, WritesLeft
    <2>5. CASE step' = "verify" /\ verifies' = verifies + 1
      <3>1. after = ForWrites(writes) + 2 * (VerifyAttempts - verifies') - 0
        BY <1>2, <2>1, <2>2, <2>5, StepsAtEach
      <3> HIDE DEF before, after, ForWrites
      <3>2. after < before
        BY <1>1, <2>3, <2>4, <2>5, <3>1
      <3> QED
        BY <1>3, <3>2, StepsLeftIsStepsAt DEF before, after
    <2>6. CASE step' = "write"
      <3>1. after = ForWrites(writes)
        BY <1>2, <2>2, <2>6, StepsAtEach
      <3> HIDE DEF before, after, ForWrites
      <3>2. after < before
        BY <1>1, <2>1, <2>3, <2>4, <3>1
      <3> QED
        BY <1>3, <3>2, StepsLeftIsStepsAt DEF before, after
    <2> QED
      BY <2>2, <2>5, <2>6
  <1>10. ~(TakeOperation \/ TakeUpdate \/ VerifySucceeds \/ WorkerRaises)
    BY <1>1 DEF TakeOperation, TakeUpdate, VerifySucceeds, WorkerRaises, End
  <1>11. CASE /\ ~(WorkerStep \/ Lock)
              /\ Ask \/ PollStep \/ LateReplyArrives \/ PowerCycle \/ UNCHANGED vars
    <2>1. UNCHANGED <<step, writes, verifies>>
      BY <1>11 DEF Ask, PollStep, PollStarts, PollSends, PollReads, PollPuts, PollRaises,
         LateReplyArrives, PowerCycle, vars, workerVars
    <2>2. step = "lock" \/ step = "write" \/ awaiting' = awaiting
      <3>1. CASE PollStep
        <4>1. awaiting' = awaiting \/ pollPc = "reading"
          BY <3>1 DEF PollStep, PollStarts, PollSends, PollReads, PollPuts, PollRaises, socketVars
        <4> QED
          BY <1>1, <4>1 DEF LockInv
      <3>2. CASE Ask \/ LateReplyArrives \/ PowerCycle \/ UNCHANGED vars
        BY <3>2 DEF Ask, LateReplyArrives, PowerCycle, vars, socketVars
      <3> QED
        BY <1>11, <3>1, <3>2
    <2>3. after = before
      BY <1>1, <1>2, <2>1, <2>2, StepsAtEach
    <2> QED
      BY <1>3, <1>11, <2>3, StepsLeftIsStepsAt
  <1> QED
    BY <1>5, <1>6, <1>7, <1>8, <1>9, <1>10, <1>11 DEF Next, WorkerStep

\* A verified write is over after as many steps as its attempts take, whatever is
\* lost, late or read, for any numbers of attempts (write_verify, read).
THEOREM EveryOperationRunsOut == Spec => AttemptsRunOut
  <1>1. TypeInv /\ TypeInv' /\ LockInv /\ [Next]_vars =>
            [op # {} /\ op' = op =>
                /\ StepsLeft' \in 0..StepsLeft
                /\ WorkerStep \/ Lock => StepsLeft' < StepsLeft]_vars
    BY OperationCounts
  <1>2. TypeInv /\ [Next]_vars => TypeInv'
    BY LinkStepType
  <1> QED
    BY <1>1, <1>2, LinkInitType, InitLock, StepLock, PTL DEF Spec, AttemptsRunOut
=============================================================================
