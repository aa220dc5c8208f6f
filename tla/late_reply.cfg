SPECIFICATION FairSpec
CONSTANTS
    Operations <- RunAndPause
    PollSequence <- TwoRegisters
    WriteAttempts = 2
    VerifyAttempts = 2
    ResendAfter = 2
    MaxOperations = 0
    MaxWaiting = 1
    MaxFaults = 1
    FaultKinds = {"late"}
PROPERTIES PollingRecovers
