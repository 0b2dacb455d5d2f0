SPECIFICATION Spec
CONSTANTS
    Requests = {r1, r2, f1}
    FaultyRequests = {f1}
    Keys = {k1, k2}
    Hook = "dev"
    Ceilings = {0, 9}
    CsrLifetime = 0
    CredLifetime = 2
    TimeBound = 1
    RotateBound = 2
    RevokeBound = 1
    EpochBound = 6
    MaxIndices = 1
    NoJws = NoJws
SYMMETRY IssuerSymmetry
INVARIANTS OneCredentialPerIndex StatusCoversIssued
