-------------------------- MODULE TimedQueueProofs --------------------------
(***************************************************************************)
(* The order in which the worker takes its events, for every number of     *)
(* threads and items.                                                      *)
(***************************************************************************)
EXTENDS TimedQueue, TLAPS

\* The items there are, put or not.
Existing == waiting \cup UNION {putting[t] : t \in Threads}

\* The items of a state with no clock fault so far were stamped at most at
\* clock, each after the items it has seen.
StampOrder ==
    faults = {} =>
        /\ \A item \in Existing : item.time <= clock
        /\ \A item, other \in Existing : other.id \in item.seen => other.time < item.time

\* An item has seen only items created before it.
SeenBefore == \A item \in Existing : item.id \in 1..created /\ item.seen \subseteq 1..created

QueueInvariant == TimedQueueTypeOK /\ SeenBefore /\ StampOrder

\* Everything there is in the queue or with a thread, and is an item.
LEMMA ExistingItems ==
  ASSUME TimedQueueTypeOK
  PROVE  /\ Existing \subseteq QueueItem
         /\ waiting \subseteq Existing
         /\ \A t \in Threads : putting[t] \subseteq Existing
  BY DEF TimedQueueTypeOK, Existing

\* An empty queue, no stamps.
LEMMA QueueInit == Init => QueueInvariant
  BY DEF Init, QueueInvariant, TimedQueueTypeOK, SeenBefore, StampOrder, Existing

\* Creating an item stamps it after everything it sees, unless the clock fails.
LEMMA CreateKeeps ==
  ASSUME QueueInvariant, NEW t \in Threads, NEW priority \in QueuePriority, Create(t, priority)
  PROVE  QueueInvariant'
  <1> DEFINE new == [priority |-> priority, time |-> clock', id |-> created',
                     seen |-> {item.id : item \in waiting}]
  <1>1. waiting' = waiting /\ putting' = [putting EXCEPT ![t] = {new}] /\ created' = created + 1
    BY DEF Create
  <1>2. clock' \in Nat /\ faults' \subseteq ClockFaults
    BY DEF Create, ReadClock, QueueInvariant, TimedQueueTypeOK
  <1>3. /\ waiting \subseteq Existing /\ Existing \subseteq QueueItem
        /\ created \in Nat /\ created' \in Nat /\ clock \in Nat
        /\ putting \in [Threads -> SUBSET QueueItem]
    BY <1>1, ExistingItems DEF QueueInvariant, TimedQueueTypeOK
  <1>4. new.seen \subseteq 1..created /\ new.id = created' /\ new.time = clock'
    BY <1>3 DEF QueueInvariant, SeenBefore
  <1>5. new \in QueueItem
    BY <1>2, <1>3, <1>4 DEF QueueItem
  <1> HIDE DEF new
  <1>6. TimedQueueTypeOK'
    BY <1>1, <1>2, <1>3, <1>5 DEF QueueInvariant, TimedQueueTypeOK
  <1>7. Existing' \subseteq Existing \cup {new}
    BY <1>1, <1>3 DEF Existing
  <1>8. SeenBefore'
    BY <1>1, <1>3, <1>4, <1>7 DEF QueueInvariant, SeenBefore
  <1>9. StampOrder'
    <2> SUFFICES ASSUME faults' = {} PROVE StampOrder'
      BY DEF StampOrder
    <2>1. faults = {} /\ clock' = clock + 1
      BY DEF Create, ReadClock
    <2>2. \A item \in Existing : item.time < clock' /\ item.time \in Nat
      BY <1>3, <2>1 DEF QueueInvariant, StampOrder, QueueItem
    <2>3. \A item \in Existing : item.seen \subseteq 1..created
      BY DEF QueueInvariant, SeenBefore
    <2>4. \A item \in Existing' : item.time <= clock'
      BY <1>2, <1>4, <1>7, <2>2
    <2>5. ASSUME NEW item \in Existing', NEW other \in Existing', other.id \in item.seen
          PROVE  other.time < item.time
      <3>1. item.seen \subseteq 1..created
        BY <1>4, <1>7, <2>3
      <3>2. other # new
        BY <1>1, <1>3, <1>4, <2>5, <3>1
      <3>3. other \in Existing
        BY <1>7, <3>2
      <3>4. CASE item = new
        BY <1>4, <2>2, <3>3, <3>4
      <3>5. CASE item \in Existing
        BY <2>1, <2>5, <3>3, <3>5 DEF QueueInvariant, StampOrder
      <3> QED
        BY <1>7, <3>4, <3>5
    <2> QED
      BY <2>4, <2>5 DEF StampOrder
  <1> QED
    BY <1>6, <1>8, <1>9 DEF QueueInvariant

\* A put moves an item, a get removes one.
LEMMA MoveKeeps ==
  ASSUME QueueInvariant, Existing' \subseteq Existing, TimedQueueTypeOK',
         UNCHANGED <<clock, created, faults>>
  PROVE  QueueInvariant'
  BY DEF QueueInvariant, SeenBefore, StampOrder

\* Every step keeps the invariant.
LEMMA QueueStep == QueueInvariant /\ [Next]_vars => QueueInvariant'
  <1> SUFFICES ASSUME QueueInvariant, [Next]_vars PROVE QueueInvariant'
    OBVIOUS
  <1>1. ASSUME NEW t \in Threads, NEW priority \in QueuePriority, Create(t, priority)
        PROVE  QueueInvariant'
    BY <1>1, CreateKeeps
  <1>2. ASSUME NEW t \in Threads, Put(t)
        PROVE  QueueInvariant'
    <2>1. TimedQueueTypeOK'
      BY <1>2 DEF QueueInvariant, TimedQueueTypeOK, Put
    <2>2. Existing' \subseteq Existing
      BY <1>2 DEF QueueInvariant, TimedQueueTypeOK, Put, Existing
    <2> QED
      BY <1>2, <2>1, <2>2, MoveKeeps DEF Put
  <1>3. ASSUME Get
        PROVE  QueueInvariant'
    <2>1. TimedQueueTypeOK'
      BY <1>3 DEF QueueInvariant, TimedQueueTypeOK, Get
    <2>2. Existing' \subseteq Existing
      BY <1>3 DEF Get, Existing
    <2> QED
      BY <1>3, <2>1, <2>2, MoveKeeps DEF Get
  <1>4. CASE UNCHANGED vars
    BY <1>4 DEF vars, QueueInvariant, TimedQueueTypeOK, SeenBefore, StampOrder, Existing
  <1> QED
    BY <1>1, <1>2, <1>3, <1>4 DEF Next

LEMMA QueueInvariantHolds == Spec => []QueueInvariant
  BY QueueInit, QueueStep, PTL DEF Spec

\* The invariant orders what the worker takes.
LEMMA InvariantOrders == QueueInvariant => RealTimeOrder
  <1> SUFFICES ASSUME QueueInvariant, faults = {}, NEW item \in Least, NEW other \in waiting,
                      other.priority = item.priority, other.id \in item.seen
               PROVE  FALSE
    BY DEF RealTimeOrder
  <1>1. item \in Existing /\ other \in Existing
    BY DEF Least, Existing
  <1>2. other.time < item.time
    BY <1>1 DEF QueueInvariant, StampOrder
  <1>3. ~Before(other, item)
    BY DEF Least
  <1> QED
    BY <1>2, <1>3 DEF Before

\* Of two items of one priority, the worker takes the one that was in the queue
\* when the other was created first, as long as the clock only advances
\* (QueueItem, time.time).
THEOREM FifoWhileTheClockAdvances == Spec => []RealTimeOrder
  BY QueueInvariantHolds, InvariantOrders, PTL
=============================================================================
