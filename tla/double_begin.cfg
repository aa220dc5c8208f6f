SPECIFICATION Spec
CONSTANTS
    MaxPuts = 2
    MaxLow = 1
    MaxFaults = 0
    PoolSize = 2
    MaxPeriod = 2
    Requests <- BeginEnd
    FaultKinds = {}
    PatientClients = FALSE
INVARIANTS BeginOnlyWhenBoardStopped
