----------------------------- MODULE TimedQueue -----------------------------
(***************************************************************************)
(* The worker's queue with the time stamps it really sorts by              *)
(* (queue_utils.py): threads create a QueueItem, which reads time.time(),  *)
(* and then put it; the worker gets a least item.  WorkerQueue says FIFO   *)
(* per priority: this module says when that is what the stamps give, and   *)
(* TimedQueueProofs proves it, for any number of threads and items.        *)
(*                                                                         *)
(* time.time() may give the same value twice ("tie") and may step back     *)
(* when the system clock is set ("back").                                  *)
(***************************************************************************)
EXTENDS Naturals

CONSTANTS
    Threads,        \* the threads that put items
    Worker,         \* the one of them that also gets items
    ClockFaults     \* what the clock may do besides advancing: "tie", "back"

HIGH == 1
LOW  == 2
QueuePriority == {HIGH, LOW}

VARIABLES
    clock,      \* what time.time() has last returned
    created,    \* how many items have been created
    putting,    \* the item each thread has created and not yet put
    waiting,    \* the items in the queue
    faults      \* the clock faults that have happened

vars == <<clock, created, putting, waiting, faults>>

\* An item.  Of its event, its id is left and seen: the ids of the items that
\* were in the queue when it was created.
QueueItem == [priority : QueuePriority, time : Nat, id : Nat, seen : SUBSET Nat]

Init ==
    /\ clock = 0 /\ created = 0
    /\ putting = [t \in Threads |-> {}]
    /\ waiting = {}
    /\ faults = {}

ReadClock ==
    \/ clock' = clock + 1 /\ UNCHANGED faults
    \/ /\ "tie" \in ClockFaults
       /\ UNCHANGED clock
       /\ faults' = faults \cup {"tie"}
    \/ /\ "back" \in ClockFaults /\ clock > 0
       /\ clock' = clock - 1
       /\ faults' = faults \cup {"back"}

\* QueueItem(...): the constructor stamps the item.
Create(t, priority) ==
    /\ putting[t] = {}
    /\ ReadClock
    /\ created' = created + 1
    /\ putting' = [putting EXCEPT ![t] =
          {[priority |-> priority, time |-> clock', id |-> created',
            seen |-> {item.id : item \in waiting}]}]
    /\ UNCHANGED waiting

\* queue.put, which never blocks.
Put(t) ==
    /\ putting[t] # {}
    /\ waiting' = waiting \cup putting[t]
    /\ putting' = [putting EXCEPT ![t] = {}]
    /\ UNCHANGED <<clock, created, faults>>

\* The order the dataclass gives its items; item is not compared.
Before(a, b) == a.priority < b.priority \/ (a.priority = b.priority /\ a.time < b.time)

\* What get may return: of items that compare equal, any.
Least == {item \in waiting : \A other \in waiting : ~Before(other, item)}

\* The worker is not between the creation and the put of an item of its own.
Get ==
    /\ putting[Worker] = {}
    /\ \E item \in Least : waiting' = waiting \ {item}
    /\ UNCHANGED <<clock, created, putting, faults>>

Next ==
    \/ \E t \in Threads : \E priority \in QueuePriority : Create(t, priority)
    \/ \E t \in Threads : Put(t)
    \/ Get

Spec == Init /\ [][Next]_vars

------------------------------------------------------------------------------
\* Items are stamped records; a thread puts one at a time.
TimedQueueTypeOK ==
    /\ clock \in Nat /\ created \in Nat
    /\ putting \in [Threads -> SUBSET QueueItem]
    /\ waiting \subseteq QueueItem
    /\ faults \subseteq ClockFaults

\* While the clock only advances, the worker never takes an item before one of
\* the same priority that was in the queue when it was created: the end of a
\* run put after its begin is handled after it, whichever threads put them
\* ("it may add items to the end of its queue", doc/threads.md).
RealTimeOrder ==
    faults = {} =>
        \A item \in Least, other \in waiting :
            other.priority = item.priority => other.id \notin item.seen
=============================================================================
