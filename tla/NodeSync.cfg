SPECIFICATION FairSpec
CONSTANTS
    Tags = {"t1", "t2"}
    Contents = {"a", "b"}
    Clashes = {{"a"}, {"b"}}
    MaxEdits = 2
    MaxNodeEdits = 1
    MaxFails = 1
    MaxClock = 1
INVARIANTS
    TypeOK
    EditSurvives
    CleanMeansMirrored
PROPERTIES
    NodeConverges
