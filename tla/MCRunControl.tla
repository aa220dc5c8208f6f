---------------------------- MODULE MCRunControl ----------------------------
(***************************************************************************)
(* Instances of RunControl for TLC: the puts the clients of a run may make *)
(* (the other constants have their values in the .cfg files).              *)
(***************************************************************************)
EXTENDS RunInfoRefinement

Ask(type, value) == [type |-> type, value |-> value]

BeginEnd == {Ask("begin", Off), Ask("end", Off)}

\* BEGINRUNEX may begin paused; 0 is a period the put handler rejects.
AllPuts ==
    BeginEnd \cup
    {Ask("begin", On), Ask("pause", On), Ask("vetoes", 1),
     Ask("current_period", 0), Ask("current_period", 2), Ask("period_mode", Computer)}

BeginEndVeto == BeginEnd \cup {Ask("vetoes", 1)}

BeginEndVetoes == BeginEnd \cup {Ask("vetoes", 0), Ask("vetoes", 1)}
=============================================================================
