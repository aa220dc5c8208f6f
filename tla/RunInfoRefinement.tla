-------------------------- MODULE RunInfoRefinement --------------------------
(***************************************************************************)
(* RunControl keeps the promise of RunInfo to the readers of the run info  *)
(* topic when its clients act one at a time.                               *)
(***************************************************************************)
EXTENDS RunControl

\* A reader of the topic does not see which put a message belongs to.
RunInfoLog ==
    [i \in 1..Len(topic) |->
        [kind |-> topic[i].kind, job |-> topic[i].job, run |-> topic[i].run]]

Promised == INSTANCE RunInfo WITH Job <- PutId, log <- RunInfoLog

\* Starts and stops alternate in the topic, each stop under the job id of its
\* start and each start under a run number that counts the stops before it:
\* what handle_begin and handle_end send, guarded by data.running.
TopicAlternates == Promised!Spec
=============================================================================
