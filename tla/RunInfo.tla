------------------------------- MODULE RunInfo -------------------------------
(***************************************************************************)
(* What the readers of the run info topic (file writers, live views) are   *)
(* promised: runs one at a time, each started with a job id never used     *)
(* before and the number of runs stopped so far, each stopped once under   *)
(* the job id it was started with.                                         *)
(***************************************************************************)
EXTENDS Naturals, Sequences, FiniteSets

CONSTANT Job

VARIABLE log

Latest == log[Len(log)]

RunIsOpen == log # << >> /\ Latest.kind = "start"

StoppedRuns == Cardinality({i \in 1..Len(log) : log[i].kind = "stop"})

Start(job) ==
    /\ ~RunIsOpen
    /\ \A i \in 1..Len(log) : log[i].job # job
    /\ log' = Append(log, [kind |-> "start", job |-> job, run |-> StoppedRuns])

Stop ==
    /\ RunIsOpen
    /\ log' = Append(log, [kind |-> "stop", job |-> Latest.job, run |-> 0])

Init == log = << >>

Next == Stop \/ \E job \in Job : Start(job)

Spec == Init /\ [][Next]_log
=============================================================================
