SPECIFICATION FairSpec
CONSTANTS
    Requests = {r1, r2, f1}
    FaultyRequests = {f1}
    Keys = {k1, k2}
    Hook = "queue"
    Ceilings = {0}
    CsrLifetime = 0
    CredLifetime = 2
    TimeBound = 1
    RotateBound = 1
    RevokeBound = 0
    EpochBound = 5
    MaxIndices = 1
    NoJws = NoJws
INVARIANTS IdempotentIssue ServedIsStored MintedOnlyIfSignedOff
 
