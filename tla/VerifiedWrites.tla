--------------------------- MODULE VerifiedWrites ---------------------------
(***************************************************************************)
(* What the handlers rely on when they change a register of the board: an  *)
(* operation changes nothing but its own flag, is reported as done only    *)
(* while the flag is as it should be, and when it is reported as failed    *)
(* the change may or may not have been made.  A step Write, WriteFails of  *)
(* RunControl is such an operation.                                        *)
(***************************************************************************)
EXTENDS BoardRegisters

VARIABLES board, active, outcome

Init == board = FreshBoard /\ active = {} /\ outcome = "none"

\* The worker handles one operation at a time.
Start(op) ==
    /\ active = {}
    /\ active' = {op}
    /\ UNCHANGED <<board, outcome>>

Apply(op) ==
    /\ op \in active
    /\ board' = [board EXCEPT ![op.address] = Written(op, @)]
    /\ UNCHANGED <<active, outcome>>

Done(op) ==
    /\ op \in active
    /\ Verifies(op, board[op.address])
    /\ active' = {}
    /\ outcome' = "done"
    /\ UNCHANGED board

Failed(op) ==
    /\ op \in active
    /\ active' = {}
    /\ outcome' = "failed"
    /\ UNCHANGED board

Next == \E op \in Operation : Start(op) \/ Apply(op) \/ Done(op) \/ Failed(op)

Spec == Init /\ [][Next]_<<board, active, outcome>>
=============================================================================
