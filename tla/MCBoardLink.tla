---------------------------- MODULE MCBoardLink ----------------------------
(***************************************************************************)
(* Instances of BoardLink for TLC.                                         *)
(***************************************************************************)
EXTENDS BoardLinkRefinement

Op(address, mode, flag) == [address |-> address, mode |-> mode, flag |-> flag]

BeginRun == Op("run_register", "assign", "ethernet_override")
EndRun   == Op("run_register", "clear", "ethernet_override")

\* The two bits of the software vetoes, as handle_pause_or_resume and
\* handle_run_control_update change them.
SoftwareVetoes ==
    {Op("vetoes_software", mode, flag) : mode \in {"set", "clear"}, flag \in {"pause", "run_control"}}

AllOperations ==
    SoftwareVetoes \cup {BeginRun, EndRun, Op("vetoes_mask", "assign", "hard_veto")}

RunAndPause ==
    {BeginRun, EndRun, Op("vetoes_software", "set", "pause"),
     Op("vetoes_software", "clear", "pause")}

\* Two of the seven registers poll_hardware reads: what a poll does with a reply
\* depends on whether its address is the one asked for, and two registers can
\* change between two reads.
TwoRegisters == <<"run_register", "vetoes_mask">>
=============================================================================
