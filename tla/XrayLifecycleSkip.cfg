SPECIFICATION Spec
CONSTANTS
    Tags = {"t1"}
    Contents = {"a"}
    Watchers = {"w1"}
    Forced = {"user", "traffic"}
    MaxFails = 0
    MaxCrashes = 0
INVARIANTS
    SkippedRestartHarmless
