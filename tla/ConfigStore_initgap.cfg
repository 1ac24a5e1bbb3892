CONSTANTS
    Keys <- MCKeys
    Writers <- MCWriters
    k1 = k1
    k2 = k2
    w1 = w1
    w2 = w2
    NoVal = NoVal
    MaxRev = 3
    InitRacesWrites = TRUE
    AllowMalformed = FALSE
    ForeignIDs = TRUE
    Schema <- SchemaFull
    Bodies <- MCBodies
SYMMETRY MCSymmetry
SPECIFICATION Spec
INVARIANT QuiescentConsistency
CHECK_DEADLOCK FALSE
