SPECIFICATION FairSpec
CONSTANTS
    Spawns = {s1, s2}
    Codes = {c1, c2}
    Inline = Inline
    None = None
    Uris <- MCUris
    PasteBound = 1
    EventBound = 2
    MonitorBound = 1
CHECK_DEADLOCK FALSE
INVARIANTS TokenOfOwnUrl RedeemedTokenKept 
 
