------------------------ MODULE BoardLinkRefinement ------------------------
(***************************************************************************)
(* The datagrams of BoardLink give the handlers the verified writes they   *)
(* count on, as long as datagrams are lost but not late and the board      *)
(* stays on.                                                               *)
(***************************************************************************)
EXTENDS BoardLink

Abstract == INSTANCE VerifiedWrites WITH active <- op

\* An operation changes no flag but its own, also of a register it shares with
\* another (pause and run control), and is reported as done only when the board
\* has the change, whatever datagrams of its reads, writes and retries were lost
\* (write_verify, write_OR_then_verify, write_AND_INV_then_verify).
ImplementsVerifiedWrites == Abstract!Spec
=============================================================================
