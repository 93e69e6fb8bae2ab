SPECIFICATION Spec
CONSTANTS
    MaxSockets = 3
    MaxMessages = 2
    maxReconnectAttempts = 1
    MaxVersion = 2
    MaxSignalFaults = 1
    Requests = {1, 2}
    MaxToken = 2
    MaxCallFaults = 1
    Imports = {"i1", "i2"}
    Import = "i1"
    Kinds = {"good", "foreign", "corrupt", "garbage"}
    Epochs = {"A", "B"}
    MaxPolls = 2
    MaxFileFaults = 2
INVARIANTS
    TypeOK
    ConnectionKept
    StaleHasCause
    RestoreHolds
PROPERTIES
    DispatchInOrder
    EventuallyRecovers
CHECK_DEADLOCK FALSE
