SPECIFICATION Spec
CONSTANTS
    MaxPuts = 4
    MaxLow = 1
    MaxFaults = 1
    PoolSize = 2
    MaxPeriod = 2
    Requests <- AllPuts
    FaultKinds = {"disk", "timeout"}
    PatientClients = TRUE
PROPERTIES TopicAlternates
