SPECIFICATION Spec
CONSTANTS
    MaxPuts = 2
    MaxLow = 1
    MaxFaults = 2
    PoolSize = 2
    MaxPeriod = 2
    Requests <- AllPuts
    FaultKinds = {"comms", "produce", "delivery", "timeout", "disk", "crash"}
    PatientClients = FALSE
INVARIANTS TypeOK AckedMeansDelivered AnnouncedBoardIsReady DiskTracksMemory VetoesAgree NoPutIsForgotten
\* A torn state file stops the IOC for good.
CHECK_DEADLOCK FALSE
