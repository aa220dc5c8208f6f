---------------------------- MODULE WorkerQueue ----------------------------
(***************************************************************************)
(* The queue between the threads of the IOC and its worker thread: a       *)
(* queue.PriorityQueue of QueueItem (queue_utils.py).  Items compare by    *)
(* priority and then by the time at which they were created, never by      *)
(* their content, so the queue is one FIFO per priority.  It has no bound  *)
(* (serve.py: PriorityQueue(maxsize=0)).                                   *)
(*                                                                         *)
(* The time stamp is taken just before queue.put, by the thread that puts. *)
(* Two threads may therefore stamp in one order and put in the other; each *)
(* such schedule is one of this FIFO in which an item enters at some       *)
(* instant between its stamp and its put.  TimedQueue has the stamps, and  *)
(* what the order is when the clock ties or is set back.                   *)
(***************************************************************************)
EXTENDS Naturals, Sequences

Priority == {"HIGH", "LOW"}

EmptyQueue == [priority \in Priority |-> << >>]

IsEmpty(queue) == \A priority \in Priority : queue[priority] = << >>

PutItem(queue, priority, item) ==
    [queue EXCEPT ![priority] = Append(@, item)]

\* The priority of the least item: HIGH = 1 sorts before LOW = 2.
NextPriority(queue) == IF queue["HIGH"] # << >> THEN "HIGH" ELSE "LOW"

NextItem(queue) == Head(queue[NextPriority(queue)])

\* The queue after get() returned NextItem(queue).
WithoutNext(queue) == [queue EXCEPT ![NextPriority(queue)] = Tail(@)]

\* What waits in the queue.
Items(queue) ==
    UNION {{queue[priority][i] : i \in 1..Len(queue[priority])} : priority \in Priority}
=============================================================================
