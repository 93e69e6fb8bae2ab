SPECIFICATION FairSpec
CONSTANTS
    r1 = r1
    r2 = r2
    c1 = c1
    c2 = c2
    None = None
    Requests <- TwoRequests
    Controllers <- TwoControllers
    QueueSize = 1
    MaxGen = 2
INVARIANTS
    TypeOK
    AtMostOneWriter
    ResultMatchesWrite
    StopDrainsAccepted
    StartLeavesLiveWriter
PROPERTIES
    EveryCallReturns
    StopReturns
    ImplementsContract
