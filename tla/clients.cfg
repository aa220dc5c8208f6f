SPECIFICATION FairSpec
CONSTANTS
    MaxPuts = 3
    MaxLow = 1
    MaxFaults = 1
    PoolSize = 2
    MaxPeriod = 2
    Requests <- BeginEndVeto
    FaultKinds = {"comms", "produce", "delivery", "timeout", "disk", "crash"}
    PatientClients = FALSE
INVARIANTS StopNamesAStartedRun StoppedRunNumberNotReused
PROPERTIES EveryPutAnswered SettlesToBoard
\* A torn state file stops the IOC for good.
CHECK_DEADLOCK FALSE
