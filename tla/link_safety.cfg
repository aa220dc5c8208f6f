SPECIFICATION Spec
CONSTANTS
    Operations <- AllOperations
    PollSequence <- TwoRegisters
    WriteAttempts = 2
    VerifyAttempts = 2
    ResendAfter = 2
    MaxOperations = 2
    MaxWaiting = 1
    MaxFaults = 3
    FaultKinds = {"lost"}
INVARIANTS SocketInStep PollIsASnapshot
PROPERTIES ImplementsVerifiedWrites
