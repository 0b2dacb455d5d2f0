SPECIFICATION FairSpec
CONSTANTS
    Callers = {c1, c2, f1}
    FaultyCallers = {f1}
    NoCaller = NoCaller
    EpochBound = 4
    MaxIndices = 1
    Expiries = {1, 2}
    Ceilings = {0, 2}
INVARIANTS UniqueIndex GrantRecorded
PROPERTIES AbsSpec EveryCallEnds
