SPECIFICATION Spec
CONSTANTS
    t1 = t1
    t2 = t2
    Tags = {t1, t2}
    Contents = {"a"}
    Watchers = {}
    Forced = {}
    MaxFails = 1
    MaxCrashes = 0
SYMMETRY TagSymmetry
INVARIANTS
    DivergenceHasCause
