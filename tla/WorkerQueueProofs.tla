------------------------- MODULE WorkerQueueProofs -------------------------
(***************************************************************************)
(* What the operators of the worker's queue keep, for items of any kind.   *)
(***************************************************************************)
EXTENDS WorkerQueue, SequenceTheorems, TLAPS

\* Putting an item leaves a queue of such items.
LEMMA PutItemType ==
  ASSUME NEW S, NEW q \in [Priority -> Seq(S)], NEW pr \in Priority, NEW item \in S
  PROVE  PutItem(q, pr, item) \in [Priority -> Seq(S)]
  BY DEF PutItem

\* A queue that is not empty gives one of its items, and the rest is a queue.
LEMMA TakeItemType ==
  ASSUME NEW S, NEW q \in [Priority -> Seq(S)], ~IsEmpty(q)
  PROVE  /\ NextPriority(q) \in Priority
         /\ q[NextPriority(q)] # << >>
         /\ NextItem(q) \in S
         /\ WithoutNext(q) \in [Priority -> Seq(S)]
  <1>1. NextPriority(q) \in Priority /\ q[NextPriority(q)] # << >>
    BY DEF NextPriority, IsEmpty, Priority
  <1>2. q[NextPriority(q)] \in Seq(S)
    BY <1>1
  <1>3. Head(q[NextPriority(q)]) \in S /\ Tail(q[NextPriority(q)]) \in Seq(S)
    BY <1>1, <1>2, HeadTailProperties
  <1> QED
    BY <1>1, <1>3 DEF NextItem, WithoutNext

\* An item waits in the queue when it is at some place of some priority.
LEMMA ItemsMembership ==
  ASSUME NEW q, NEW e
  PROVE  e \in Items(q) <=> \E pr \in Priority : \E i \in 1..Len(q[pr]) : e = q[pr][i]
  <1> DEFINE At(pr) == {q[pr][i] : i \in 1..Len(q[pr])}
  <1>1. \A pr \in Priority : e \in At(pr) <=> \E i \in 1..Len(q[pr]) : e = q[pr][i]
    OBVIOUS
  <1> HIDE DEF At
  <1>2. e \in UNION {At(pr) : pr \in Priority} <=> \E pr \in Priority : e \in At(pr)
    OBVIOUS
  <1>3. Items(q) = UNION {At(pr) : pr \in Priority}
    BY Zenon DEF Items, At
  <1> QED
    BY <1>1, <1>2, <1>3

\* A put adds its item and nothing else.
LEMMA PutItemItems ==
  ASSUME NEW S, NEW q \in [Priority -> Seq(S)], NEW pr \in Priority, NEW item \in S
  PROVE  Items(PutItem(q, pr, item)) \subseteq Items(q) \cup {item}
  <1> SUFFICES ASSUME NEW pr2 \in Priority,
                      NEW i \in 1..Len(PutItem(q, pr, item)[pr2])
               PROVE  PutItem(q, pr, item)[pr2][i] \in Items(q) \cup {item}
    BY ItemsMembership
  <1>1. CASE pr2 # pr
    BY <1>1, ItemsMembership DEF PutItem
  <1>2. CASE pr2 = pr
    <2>1. PutItem(q, pr, item)[pr2] = Append(q[pr2], item) /\ q[pr2] \in Seq(S)
      BY <1>2 DEF PutItem
    <2>2. i \in 1..Len(q[pr2]) \/ i = Len(q[pr2]) + 1
      BY <2>1
    <2>3. CASE i \in 1..Len(q[pr2])
      <3>1. PutItem(q, pr, item)[pr2][i] = q[pr2][i]
        BY <2>1, <2>3
      <3> QED
        BY <2>3, <3>1, ItemsMembership
    <2>4. CASE i = Len(q[pr2]) + 1
      BY <2>1, <2>4
    <2> QED
      BY <2>2, <2>3, <2>4
  <1> QED
    BY <1>1, <1>2

\* A get gives an item of the queue and adds nothing.
LEMMA TakeItemItems ==
  ASSUME NEW S, NEW q \in [Priority -> Seq(S)], ~IsEmpty(q)
  PROVE  NextItem(q) \in Items(q) /\ Items(WithoutNext(q)) \subseteq Items(q)
  <1> DEFINE pr == NextPriority(q)
  <1>1. pr \in Priority /\ q[pr] # << >> /\ q[pr] \in Seq(S)
    BY TakeItemType
  <1>2. NextItem(q) \in Items(q)
    <2>1. NextItem(q) = q[pr][1] /\ 1 \in 1..Len(q[pr])
      BY <1>1, HeadTailProperties, EmptySeq DEF NextItem
    <2> QED
      BY <1>1, <2>1, ItemsMembership
  <1>3. ASSUME NEW pr2 \in Priority, NEW i \in 1..Len(WithoutNext(q)[pr2])
        PROVE  WithoutNext(q)[pr2][i] \in Items(q)
    <2>1. CASE pr2 # pr
      BY <1>3, <2>1, ItemsMembership DEF WithoutNext
    <2>2. CASE pr2 = pr
      <3>1. WithoutNext(q)[pr2] = Tail(q[pr2])
        BY <1>1, <2>2 DEF WithoutNext
      <3>2. i + 1 \in 1..Len(q[pr2]) /\ Tail(q[pr2])[i] = q[pr2][i + 1]
        BY <1>1, <1>3, <2>2, <3>1, HeadTailProperties
      <3> QED
        BY <3>1, <3>2, ItemsMembership
    <2> QED
      BY <2>1, <2>2
  <1> QED
    BY <1>2, <1>3, ItemsMembership

\* A put leaves what was in the queue, and its item.
LEMMA PutItemKeeps ==
  ASSUME NEW S, NEW q \in [Priority -> Seq(S)], NEW pr \in Priority, NEW item \in S
  PROVE  Items(q) \cup {item} \subseteq Items(PutItem(q, pr, item))
  <1> DEFINE r == PutItem(q, pr, item)
  <1>1. /\ r[pr] = Append(q[pr], item) /\ q[pr] \in Seq(S)
        /\ \A other \in Priority : other # pr => r[other] = q[other]
    BY DEF PutItem
  <1> HIDE DEF r
  <1>2. /\ Len(q[pr]) + 1 \in 1..Len(r[pr]) /\ r[pr][Len(q[pr]) + 1] = item
        /\ \A i \in 1..Len(q[pr]) : i \in 1..Len(r[pr]) /\ r[pr][i] = q[pr][i]
    BY <1>1
  <1>3. item \in Items(r)
    BY <1>2, ItemsMembership
  <1>4. ASSUME NEW e \in Items(q) PROVE e \in Items(r)
    <2>1. PICK other \in Priority : \E i \in 1..Len(q[other]) : e = q[other][i]
      BY ItemsMembership
    <2>2. \E i \in 1..Len(r[other]) : e = r[other][i]
      BY <1>1, <1>2, <2>1
    <2> QED
      BY <2>2, ItemsMembership
  <1> QED
    BY <1>3, <1>4 DEF r

\* A get takes one item only.
LEMMA TakeItemKeeps ==
  ASSUME NEW S, NEW q \in [Priority -> Seq(S)], ~IsEmpty(q)
  PROVE  Items(q) \subseteq Items(WithoutNext(q)) \cup {NextItem(q)}
  <1> DEFINE pr == NextPriority(q)
             r == WithoutNext(q)
  <1>1. /\ pr \in Priority /\ q[pr] # << >> /\ q[pr] \in Seq(S)
        /\ r[pr] = Tail(q[pr]) /\ NextItem(q) = Head(q[pr])
        /\ \A other \in Priority : other # pr => r[other] = q[other]
    BY TakeItemType DEF WithoutNext, NextItem
  <1> HIDE DEF pr, r
  <1>2. ASSUME NEW i \in 1..Len(q[pr])
        PROVE  q[pr][i] = NextItem(q) \/ \E j \in 1..Len(r[pr]) : q[pr][i] = r[pr][j]
    <2>1. CASE i = 1
      BY <1>1, <2>1, HeadTailProperties
    <2>2. CASE i # 1
      <3>1. i - 1 \in 1..Len(r[pr]) /\ r[pr][i - 1] = q[pr][i]
        BY <1>1, <2>2, HeadTailProperties
      <3> QED
        BY <3>1
    <2> QED
      BY <2>1, <2>2
  <1>3. ASSUME NEW e \in Items(q) PROVE e = NextItem(q) \/ e \in Items(r)
    <2>1. PICK other \in Priority : \E i \in 1..Len(q[other]) : e = q[other][i]
      BY ItemsMembership
    <2>2. e = NextItem(q) \/ \E i \in 1..Len(r[other]) : e = r[other][i]
      <3>1. CASE other = pr
        BY <1>2, <2>1, <3>1
      <3>2. CASE other # pr
        BY <1>1, <2>1, <3>2
      <3> QED
        BY <3>1, <3>2
    <2> QED
      BY <2>2, ItemsMembership
  <1> QED
    BY <1>3 DEF r

\* Nothing waits in an empty queue.
LEMMA EmptyQueueItems == Items(EmptyQueue) = {}
  BY ItemsMembership DEF EmptyQueue
=============================================================================
