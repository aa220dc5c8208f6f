SPECIFICATION FairSpec
CONSTANTS
    ByteBits = 2
    WordBits = 4
    PowerOn <- PowerOnRegisters
    MaxWord = 48
    MAX_FRAME_SYNC_DELAY_US <- MaxDelay
    DefaultVetoes <- NoVetoes
    Requests <- SomeRequests
    VetoRequests <- SomeVetoes
    MaxPuts = 3
    MayAsk <- SomeOrders
    PoolSize = 2
    MaxChanges = 1
    FaultKinds = {"comms", "restart"}
    MaxFaults = 1
INVARIANTS SetpointsTypeOK VetoBitsInPlace  MonitorsAgree
PROPERTIES MonitorsSettle
\* Clients, faults and changes may be over.
CHECK_DEADLOCK FALSE
