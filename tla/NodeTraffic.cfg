SPECIFICATION Spec
CONSTANTS
    Nodes = {n1, n2}
    MaxCount = 2
    MaxEvents = 2
INVARIANTS
    TypeOK
    RowIsSum
    NoDoubleCount
    NothingLost
