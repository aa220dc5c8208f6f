SPECIFICATION FairSpec
CONSTANTS
    MaxWord = 127
    MAX_FRAME_SYNC_DELAY_US = 3
    Looks <- Boards
    PowerOn <- Fresh
    FieldOrder <- SomeFields
    MaxChanges = 2
    DefaultHardVetoes = 65535
    MaxLow = 1
    MaxFaults = 1
    FaultKinds = {"comms", "unreachable", "restart"}
INVARIANTS ReadbacksTypeOK NoAlarmMeansPolled
PROPERTIES SettledStays ReadbacksSettle
