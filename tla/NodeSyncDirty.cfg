SPECIFICATION Spec
CONSTANTS
    Tags = {"t1"}
    Contents = {"a", "b"}
    Clashes = {{"a"}, {"b"}}
    MaxEdits = 1
    MaxNodeEdits = 0
    MaxFails = 1
    MaxClock = 1
PROPERTIES
    DirtyNodeKeepsRows
