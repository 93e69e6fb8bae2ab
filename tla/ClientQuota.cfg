SPECIFICATION FairSpec
CONSTANTS
    Inbounds = {"i1", "i2"}
    Plans <- ThreePlans
    MaxNow = 3
    MaxUsed = 1
    MaxEdits = 1
    MaxFails = 1
INVARIANTS
    TypeOK
    CoreFollowsDatabase
    PlansAgree
PROPERTIES
    DepletedIsCut
    ExpiredIsRenewed
