------------------------------ MODULE BoardLink ------------------------------
(***************************************************************************)
(* The UDP link to the streaming control board (comms.py) as its two users *)
(* share it: the worker thread, which reads, writes and verifies registers,*)
(* and the polling thread (threads/hardware_polling_thread.py), which      *)
(* reads all of them and asks for the local IP to be sent again when polls *)
(* keep failing.  Both hold sock_lock while they use the socket.           *)
(*                                                                         *)
(* The network loses datagrams ("lost"), a reply may arrive after its read *)
(* has timed out ("late"), and the board may be power cycled ("power").    *)
(***************************************************************************)
EXTENDS WorkerQueue, BoardRegisters, FiniteSets

CONSTANTS
    Operations,         \* what events make the worker do
    PollSequence,       \* the registers a poll reads, in its order
    WriteAttempts,      \* WRITE_ATTEMPTS
    VerifyAttempts,     \* VERIFY_ATTEMPTS
    ResendAfter,        \* resend_ip_after_connection_failures
    MaxOperations,      \* bound: events for the worker
    MaxWaiting,         \* bound: waiting events of each priority before a poll
    MaxFaults,          \* bound: faults of FaultKinds that happen
    FaultKinds          \* the faults that may happen

ASSUME OperationsAssumption   == Operations \subseteq Operation
ASSUME PollSequenceAssumption == PollSequence \in Seq(Address) /\ PollSequence # << >>
ASSUME AttemptsAssumption     ==
    WriteAttempts \in Nat \ {0} /\ VerifyAttempts \in Nat \ {0} /\ ResendAfter \in Nat \ {0}
ASSUME LinkBoundsAssumption   ==
    MaxOperations \in Nat /\ MaxWaiting \in Nat \ {0} /\ MaxFaults \in Nat
ASSUME LinkFaultsAssumption   == FaultKinds \subseteq {"lost", "late", "power"}

VARIABLES
    board,      \* the registers of the board
    inbox,      \* replies in the buffer of the socket
    late,       \* replies still on their way, oldest first
    awaiting,   \* the address the thread that holds the lock has asked for
    holder,     \* who holds sock_lock
    step,       \* where the worker is in its operation
    op,         \* the operation of the worker, a set of at most one
    current,    \* the value write_OR and write_AND_INV have read
    writes,     \* writes sent by write_verify
    verifies,   \* verifications read since the last of them
    outcome,    \* how the last operation ended
    pollPc,     \* where the polling thread is
    readings,   \* what the poll in progress has read
    errors,     \* consecutive_comms_errors, modulo ResendAfter and not 0 when it is not
    queue,      \* the worker's queue
    asked,      \* how many events have been put
    faults      \* how many faults have happened

socketVars == <<inbox, late, awaiting>>
workerVars == <<step, op, current, writes, verifies, outcome>>
pollVars   == <<pollPc, readings, errors>>
vars == <<board, holder, queue, asked, faults, socketVars, workerVars, pollVars>>

Reply == [address : Address, value : SUBSET Flag]

SetIP  == [address |-> "comms", mode |-> "assign", flag |-> "local_ip"]
Update == [type |-> "hardware_update"]
Wanted(o) == [type |-> "operation", op |-> o]
Item == {Update} \cup {Wanted(o) : o \in Operation}

\* serve() queues a SetIPEvent first of all.
Init ==
    /\ board = FreshBoard
    /\ inbox = << >> /\ late = << >> /\ awaiting = "nothing"
    /\ holder = "nobody"
    /\ step = "idle" /\ op = {} /\ current = {} /\ writes = 0 /\ verifies = 0
    /\ outcome = "none"
    /\ pollPc = "sleeping" /\ readings = << >> /\ errors = 0
    /\ queue = PutItem(EmptyQueue, "HIGH", Wanted(SetIP))
    /\ asked = 0 /\ faults = 0

Fault(kind) ==
    /\ kind \in FaultKinds
    /\ faults < MaxFaults
    /\ faults' = faults + 1

------------------------------------------------------------------------------
\* The board and the network.

ReplyTo(address) == [address |-> address, value |-> board[address]]

\* read() sends its request.  The reply comes back to a board that knows the
\* local IP, unless one of the two datagrams is lost or the reply is late.
SendRead(address) ==
    /\ awaiting = "nothing"
    /\ awaiting' = address
    /\ \/ /\ board["comms"] # {}
          /\ inbox' = Append(inbox, ReplyTo(address))
          /\ UNCHANGED <<late, faults>>
       \/ /\ board["comms"] = {}
          /\ UNCHANGED <<inbox, late, faults>>
       \/ /\ Fault("lost")
          /\ UNCHANGED <<inbox, late>>
       \/ /\ board["comms"] # {}
          /\ Fault("late")
          /\ late' = Append(late, ReplyTo(address))
          /\ UNCHANGED inbox

\* recvfrom takes the oldest reply there is, and read() raises when it is not
\* about the address that was asked for.
ReadGets(value) ==
    /\ awaiting # "nothing"
    /\ inbox # << >>
    /\ Head(inbox) = [address |-> awaiting, value |-> value]
    /\ inbox' = Tail(inbox)
    /\ awaiting' = "nothing"
    /\ UNCHANGED late

\* Nothing arrives before the timeout, or what arrives is not for this read.
ReadRaises ==
    /\ awaiting # "nothing"
    /\ \/ inbox = << >> /\ UNCHANGED inbox
       \/ /\ inbox # << >>
          /\ Head(inbox).address # awaiting
          /\ inbox' = Tail(inbox)
    /\ awaiting' = "nothing"
    /\ UNCHANGED late

LateReplyArrives ==
    /\ late # << >>
    /\ late' = Tail(late)
    /\ inbox' = Append(inbox, Head(late))
    /\ UNCHANGED <<board, awaiting, holder, queue, asked, faults, workerVars, pollVars>>

PowerCycle ==
    /\ Fault("power")
    /\ board' = FreshBoard
    /\ UNCHANGED <<holder, queue, asked, socketVars, workerVars, pollVars>>

------------------------------------------------------------------------------
\* The worker.

\* A PV put, or a change of run control, makes an event.
Ask ==
    /\ asked < MaxOperations
    /\ asked' = asked + 1
    /\ \E o \in Operations : queue' = PutItem(queue, "HIGH", Wanted(o))
    /\ UNCHANGED <<board, holder, faults, socketVars, workerVars, pollVars>>

TakeOperation ==
    /\ step = "idle"
    /\ ~IsEmpty(queue) /\ NextItem(queue).type = "operation"
    /\ queue' = WithoutNext(queue)
    /\ op' = {NextItem(queue).op}
    /\ step' = "lock"
    /\ UNCHANGED <<board, holder, asked, faults, current, writes, verifies,
                   outcome, socketVars, pollVars>>

TakeUpdate ==
    /\ step = "idle"
    /\ ~IsEmpty(queue) /\ NextItem(queue).type = "hardware_update"
    /\ queue' = WithoutNext(queue)
    /\ UNCHANGED <<board, holder, asked, faults, socketVars, workerVars, pollVars>>

\* Mutant of Lock: the worker does not wait for the polling thread.
LockAnyway ==
    /\ step = "lock"
    /\ holder' = "worker"
    /\ \E o \in op : step' = IF o.mode = "assign" THEN "write" ELSE "read"
    /\ UNCHANGED <<board, queue, asked, faults, op, current, writes, verifies,
                   outcome, socketVars, pollVars>>

\* An assignment writes at once, the other two read the register first.
Lock ==
    /\ step = "lock"
    /\ holder = "nobody"
    /\ holder' = "worker"
    /\ \E o \in op : step' = IF o.mode = "assign" THEN "write" ELSE "read"
    /\ UNCHANGED <<board, queue, asked, faults, op, current, writes, verifies,
                   outcome, socketVars, pollVars>>

\* The operation ends, and its handler leaves the lock.
End(how) ==
    /\ outcome' = how
    /\ step' = "idle" /\ op' = {} /\ current' = {} /\ writes' = 0 /\ verifies' = 0
    /\ holder' = "nobody"

WorkerSends ==
    /\ step \in {"read", "verify"}
    /\ \E o \in op : SendRead(o.address)
    /\ UNCHANGED <<board, holder, queue, asked, workerVars, pollVars>>

ReadsCurrent ==
    /\ step = "read"
    /\ \E value \in SUBSET Flag : ReadGets(value) /\ current' = value
    /\ step' = "write"
    /\ UNCHANGED <<board, holder, queue, asked, faults, op, writes, verifies,
                   outcome, pollVars>>

\* Mutant of SendWrite: the register is written without the value read before.
SendWriteFlagOnly ==
    /\ step = "write"
    /\ \E o \in op : board' = [board EXCEPT ![o.address] = Written(o, {})]
    /\ step' = "verify"
    /\ writes' = writes + 1
    /\ verifies' = 0
    /\ UNCHANGED <<holder, queue, asked, faults, op, current, outcome, socketVars, pollVars>>

\* write() sends one datagram to the board and waits for nothing.
SendWrite ==
    /\ step = "write"
    /\ \/ /\ \E o \in op : board' = [board EXCEPT ![o.address] = Written(o, current)]
          /\ UNCHANGED faults
       \/ /\ Fault("lost")
          /\ UNCHANGED board
    /\ step' = "verify"
    /\ writes' = writes + 1
    /\ verifies' = 0
    /\ UNCHANGED <<holder, queue, asked, op, current, outcome, socketVars, pollVars>>

VerifySucceeds ==
    /\ step = "verify"
    /\ \E o \in op : \E value \in SUBSET Flag : ReadGets(value) /\ Verifies(o, value)
    /\ End("done")
    /\ UNCHANGED <<board, queue, asked, faults, pollVars>>

\* Mutant of VerifyDiffers: the attempts to verify are never counted.
VerifyDiffersForever ==
    /\ step = "verify"
    /\ \E o \in op : \E value \in SUBSET Flag : ReadGets(value) /\ ~Verifies(o, value)
    /\ UNCHANGED <<board, holder, queue, asked, faults, workerVars, pollVars>>

\* Mutant of VerifyDiffers: one write too many.
VerifyDiffersOnceMore ==
    /\ step = "verify"
    /\ \E o \in op : \E value \in SUBSET Flag : ReadGets(value) /\ ~Verifies(o, value)
    /\ \/ /\ verifies + 1 < VerifyAttempts
          /\ verifies' = verifies + 1
          /\ UNCHANGED <<holder, step, op, current, writes, outcome>>
       \/ /\ verifies + 1 = VerifyAttempts /\ writes <= WriteAttempts
          /\ step' = "write"
          /\ UNCHANGED <<holder, op, current, writes, verifies, outcome>>
       \/ /\ verifies + 1 = VerifyAttempts /\ writes > WriteAttempts
          /\ End("failed")
    /\ UNCHANGED <<board, queue, asked, faults, pollVars>>

\* Another value is read: verify again, then write again, then give up.
VerifyDiffers ==
    /\ step = "verify"
    /\ \E o \in op : \E value \in SUBSET Flag : ReadGets(value) /\ ~Verifies(o, value)
    /\ \/ /\ verifies + 1 < VerifyAttempts
          /\ verifies' = verifies + 1
          /\ UNCHANGED <<holder, step, op, current, writes, outcome>>
       \/ /\ verifies + 1 = VerifyAttempts /\ writes < WriteAttempts
          /\ step' = "write"
          /\ UNCHANGED <<holder, op, current, writes, verifies, outcome>>
       \/ /\ verifies + 1 = VerifyAttempts /\ writes = WriteAttempts
          /\ End("failed")
    /\ UNCHANGED <<board, queue, asked, faults, pollVars>>

\* The exception of a read ends the operation, whatever attempts are left.
WorkerRaises ==
    /\ step \in {"read", "verify"}
    /\ ReadRaises
    /\ End("failed")
    /\ UNCHANGED <<board, queue, asked, faults, pollVars>>

------------------------------------------------------------------------------
\* The polling thread.

\* Mutant of PollStarts: the lock is not taken.
PollStartsUnlocked ==
    /\ pollPc = "sleeping"
    /\ \A priority \in Priority : Len(queue[priority]) < MaxWaiting
    /\ pollPc' = "reading"
    /\ UNCHANGED <<board, holder, readings, errors, queue, asked, faults, socketVars, workerVars>>

PollStarts ==
    /\ pollPc = "sleeping"
    /\ \A priority \in Priority : Len(queue[priority]) < MaxWaiting
    /\ holder = "nobody"
    /\ holder' = "poller"
    /\ pollPc' = "reading"
    /\ UNCHANGED <<board, readings, errors, queue, asked, faults, socketVars, workerVars>>

PollSends ==
    /\ pollPc = "reading"
    /\ SendRead(PollSequence[Len(readings) + 1])
    /\ UNCHANGED <<board, holder, queue, asked, workerVars, pollVars>>

PollReads ==
    /\ pollPc = "reading"
    /\ \E value \in SUBSET Flag : ReadGets(value) /\ readings' = Append(readings, value)
    /\ IF Len(readings') = Len(PollSequence)
       THEN pollPc' = "putting" /\ holder' = "nobody"
       ELSE UNCHANGED <<pollPc, holder>>
    /\ UNCHANGED <<board, errors, queue, asked, faults, workerVars>>

\* The update is put after the lock is released.
PollPuts ==
    /\ pollPc = "putting"
    /\ queue' = PutItem(queue, "LOW", Update)
    /\ pollPc' = "sleeping" /\ readings' = << >> /\ errors' = 0
    /\ UNCHANGED <<board, holder, asked, faults, socketVars, workerVars>>

\* Mutant of PollRaises: the local IP is never sent again.
PollRaisesNoResend ==
    /\ pollPc = "reading"
    /\ ReadRaises
    /\ errors' = (errors % ResendAfter) + 1
    /\ UNCHANGED queue
    /\ pollPc' = "sleeping" /\ readings' = << >>
    /\ holder' = "nobody"
    /\ UNCHANGED <<board, asked, faults, workerVars>>

\* A poll that raises is logged and counted; no event tells the worker, but
\* every ResendAfter failures in a row a SetIPEvent is put.
PollRaises ==
    /\ pollPc = "reading"
    /\ ReadRaises
    /\ errors' = (errors % ResendAfter) + 1
    /\ queue' = IF errors' = ResendAfter THEN PutItem(queue, "HIGH", Wanted(SetIP)) ELSE queue
    /\ pollPc' = "sleeping" /\ readings' = << >>
    /\ holder' = "nobody"
    /\ UNCHANGED <<board, asked, faults, workerVars>>

------------------------------------------------------------------------------
WorkerStep ==
    \/ TakeOperation \/ TakeUpdate
    \/ WorkerSends \/ ReadsCurrent \/ SendWrite
    \/ VerifySucceeds \/ VerifyDiffers \/ WorkerRaises

PollStep == PollStarts \/ PollSends \/ PollReads \/ PollPuts \/ PollRaises

Next == Ask \/ WorkerStep \/ Lock \/ PollStep \/ LateReplyArrives \/ PowerCycle

Spec == Init /\ [][Next]_vars

\* Both threads run.  The polling thread sleeps without the lock between two
\* polls, so the worker gets the lock if it is free again and again.
Fairness == WF_vars(WorkerStep) /\ SF_vars(Lock) /\ WF_vars(PollStep)

FairSpec == Spec /\ Fairness

------------------------------------------------------------------------------
\* Properties.

\* The variables have the shapes the code gives them, the attempts of
\* write_verify stay within their limits, and the worker has an operation
\* exactly while it is not idle.
LinkTypeOK ==
    /\ board \in BoardState
    /\ inbox \in Seq(Reply) /\ late \in Seq(Reply)
    /\ awaiting \in Address \cup {"nothing"}
    /\ holder \in {"nobody", "worker", "poller"}
    /\ step \in {"idle", "lock", "read", "write", "verify"}
    /\ op \subseteq Operation /\ (op = {} <=> step = "idle")
    /\ current \in SUBSET Flag
    /\ writes \in 0..WriteAttempts /\ verifies \in 0..VerifyAttempts
    /\ outcome \in {"none", "done", "failed"}
    /\ pollPc \in {"sleeping", "reading", "putting"}
    /\ readings \in Seq(SUBSET Flag) /\ Len(readings) <= Len(PollSequence)
    /\ errors \in 0..ResendAfter
    /\ queue \in [Priority -> Seq(Item)]
    /\ asked \in 0..MaxOperations /\ faults \in 0..MaxFaults

\* A reply is the reply to the request of the thread that waits for it: there is
\* never another one in the socket or on its way, so no read takes the value of
\* an earlier one (read, under sock_lock; as long as no reply is late).
SocketInStep ==
    /\ awaiting = "nothing" => inbox = << >>
    /\ late = << >>
    /\ Len(inbox) <= 1
    /\ inbox # << >> => Head(inbox) = ReplyTo(awaiting)

\* What the worker's operation can still take at most: for each write that is left
\* its datagram and a request and a reply for each verification, and before the
\* first of them the lock and the read of write_OR and write_AND_INV.
StepsLeft ==
    LET Reading(reads) == 2 * reads - (IF awaiting = "nothing" THEN 0 ELSE 1) IN
    (WriteAttempts - writes) * (2 * VerifyAttempts + 1)
    + CASE step = "lock"   -> 3
        [] step = "read"   -> Reading(1)
        [] step = "verify" -> Reading(VerifyAttempts - verifies)
        [] OTHER           -> 0

\* Every step of the worker in an operation, from the wait for the lock on, is one
\* of those, and no step of anybody else adds to them: write_verify is over after
\* 3 + WRITE_ATTEMPTS * (2 * VERIFY_ATTEMPTS + 1) steps whatever the board answers.
AttemptsRunOut ==
    [][op # {} /\ op' = op =>
          /\ StepsLeft' \in 0..StepsLeft
          /\ WorkerStep \/ Lock => StepsLeft' < StepsLeft]_vars

\* A hardware update is a state the board was in: the registers a poll has read
\* all still have the values it read, although the worker writes between polls
\* (poll_hardware holds sock_lock from its first to its last read).
PollIsASnapshot ==
    pollPc = "reading" =>
        \A i \in 1..Len(readings) : readings[i] = board[PollSequence[i]]

\* Polls succeed again and again: when the board can be reached, sending the
\* local IP again restores communication (hardware_poll_thread).
PollingRecovers == []<>(pollPc = "putting")

\* It does after lost datagrams and after a power cycle, at any point, that made
\* the board forget the local IP, as long as no reply is late.
PollingRecoversFromLoss == [](late = << >>) => PollingRecovers

\* The worker catches up with what it was asked: every operation ends and every
\* event is taken.  Retries end, the polling thread does not keep the worker from
\* the lock, and no lost, late or wrong reply holds up an operation for ever
\* (write_verify, read).
WorkerCatchesUp ==
    /\ []<>(step = "idle")
    /\ \A priority \in Priority : []<>(queue[priority] = << >>)
=============================================================================
