--------------------------- MODULE BoardRegisters ---------------------------
(***************************************************************************)
(* The registers of the streaming control board that the handlers change,  *)
(* and the three ways they change them (comms.py).  A register is the set  *)
(* of the flags it has; an operation assigns one flag, sets it with OR or  *)
(* clears it with AND NOT, and verifies by that flag.  The flag of the run *)
(* register is the Ethernet override with the running status that the      *)
(* handlers verify: on the board the one follows the other.                *)
(***************************************************************************)

Address == {"run_register", "vetoes_mask", "vetoes_software", "comms"}
Flag    == {"ethernet_override", "hard_veto", "pause", "run_control", "local_ip"}

Operation == [address : Address, mode : {"assign", "set", "clear"}, flag : Flag]

BoardState == [Address -> SUBSET Flag]

\* After power on no flag is set: the board does not know whom to reply to.
FreshBoard == [address \in Address |-> {}]

\* The value an operation writes, given the value it read before.
Written(op, current) ==
    IF op.mode = "assign" THEN {op.flag}
    ELSE IF op.mode = "set" THEN current \cup {op.flag}
    ELSE current \ {op.flag}

\* The verify function of an operation.
Verifies(op, value) == (op.flag \in value) <=> (op.mode # "clear")
=============================================================================
