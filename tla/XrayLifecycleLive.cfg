SPECIFICATION FairSpec
CONSTANTS
    Tags = {}
    Contents = {"a"}
    Watchers = {"w1", "w2"}
    Forced = {"user", "traffic"}
    MaxFails = 2
    MaxCrashes = 2
INVARIANTS
    TypeOK
    OneCore
PROPERTIES
    CrashIsRepaired
