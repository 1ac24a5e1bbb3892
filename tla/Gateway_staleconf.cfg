CONSTANTS
    Keys <- MCKeys
    Writers <- MCWriters
    Requests <- MCRequests
    k1 = k1
    w1 = w1
    r1 = r1
    r2 = r2
    NoVal = NoVal
    MaxRev = 3
    InitRacesWrites = FALSE
    AllowMalformed = FALSE
    ForeignIDs = FALSE
    Schema <- MCSchema
    Bodies <- MCBodies
SYMMETRY MCSymmetry
SPECIFICATION Spec
INVARIANT ConfFreshWhenQuiescent
CHECK_DEADLOCK FALSE
