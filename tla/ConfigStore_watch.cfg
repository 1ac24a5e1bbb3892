\* Watch-driven cache: Init hand-over without racing writes, malformed
\* values allowed, concurrent Create/Update/BatchDelete.
CONSTANTS
    Keys <- MCKeys
    Writers <- MCWriters
    k1 = k1
    k2 = k2
    w1 = w1
    w2 = w2
    NoVal = NoVal
    MaxRev = 4
    InitRacesWrites = FALSE
    AllowMalformed = TRUE
    ForeignIDs = FALSE
    Schema <- SchemaFull
    Bodies <- MCBodies
SPECIFICATION Spec
INVARIANT QuiescentConsistency
INVARIANT WritesValidated
PROPERTY CacheNeverRegresses
PROPERTY WriteEventuallyCached
\* The revision bound ends every behaviour: once MaxRev writes are done
\* and the channel is drained the store idles, waiting for writes.
CHECK_DEADLOCK FALSE
