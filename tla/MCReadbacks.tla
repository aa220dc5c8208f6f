---------------------------- MODULE MCReadbacks ----------------------------
(***************************************************************************)
(* An instance of Readbacks for TLC.                                       *)
(***************************************************************************)
EXTENDS Readbacks

\* The bit, a setting that is counted from 1 and one that has flags besides, in
\* the order of process_worker_event and of update_all.
SomeFields == <<"running", "period", "period_mode">>

\* After power on the period mode has no name, besides one of its flags.
Fresh == [field \in Field |-> IF field = "period_mode" THEN 3 ELSE 0]

\* A board that runs, and one whose settings have been changed besides.
Running == [Fresh EXCEPT !["running"] = 1]
Changed == [Running EXCEPT !["period"] = 1, !["period_mode"] = EXTERNAL + 64]
Boards == {Fresh, Running, Changed}
=============================================================================
