SPECIFICATION FairSpec
CONSTANTS
    MaxPuts = 1
    MaxLow = 1
    MaxFaults = 3
    PoolSize = 1
    MaxPeriod = 1
    Requests <- BeginEnd
    FaultKinds = {"delivery", "timeout"}
    PatientClients = FALSE
PROPERTIES FailedSendErrorsThePut
CHECK_DEADLOCK FALSE
