SPECIFICATION FairSpec
CONSTANTS
    Operations <- RunAndPause
    PollSequence <- TwoRegisters
    WriteAttempts = 2
    VerifyAttempts = 2
    ResendAfter = 2
    MaxOperations = 1
    MaxWaiting = 1
    MaxFaults = 2
    FaultKinds = {"lost", "late", "power"}
INVARIANTS LinkTypeOK
PROPERTIES AttemptsRunOut PollingRecoversFromLoss WorkerCatchesUp
