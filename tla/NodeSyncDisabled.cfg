SPECIFICATION Spec
CONSTANTS
    Tags = {"t1"}
    Contents = {"a"}
    Clashes = {{"a"}, {"b"}}
    MaxEdits = 1
    MaxNodeEdits = 0
    MaxFails = 0
    MaxClock = 0
INVARIANTS
    DisabledInboundKept
