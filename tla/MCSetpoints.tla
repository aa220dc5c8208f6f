---------------------------- MODULE MCSetpoints ----------------------------
(***************************************************************************)
(* An instance of Setpoints for TLC.                                       *)
(***************************************************************************)
EXTENDS Setpoints

Ask(field, value) == [field |-> field, value |-> value]

MaxDelay == 3

\* Puts that a register cannot hold or that are refused, and some that are taken:
\* a period that a begin in COMPUTER mode sets back.
SomeRequests ==
    {Ask("period", 3), Ask("period_mode", COMPUTER), Ask("num_periods", -1),
     Ask("frame_sync_delay", MaxDelay + 1)}

\* With bytes of two bits and registers of four: an array of one byte, and one
\* with a hard veto beyond the register.
SomeVetoes == {<<1, 2>>, <<0, 0, 0, 0, 2, 1>>}

\* A period that a begin in COMPUTER mode sets back, and vetoes that a begin
\* sends again, overtakes or takes back.
SomeOrders ==
    << {"period"},
       {"period_mode", "vetoes", "begin"},
       {"period", "num_periods", "frame_sync_delay", "vetoes", "begin"} >>

NoVetoes == <<0, 0>>

\* After power on the board has a run flag besides the period mode, and a frame
\* sync source that has no name.
PowerOnRegisters ==
    [field \in Scalar |->
        IF field = "period_mode" THEN 2 ELSE IF field = "frame_sync_select" THEN 3 ELSE 0]
=============================================================================
