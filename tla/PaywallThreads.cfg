SPECIFICATION Spec
CONSTANTS
    Requests = {1, 2, 3, 4}
    Subs = {s1, s2}
    Nonces = {n1, n2}
    NoNonce = NoNonce
    Price = 1
    Cap = 2
    Ttl = 0
    Serial = FALSE
    Truthful = FALSE
    TimeBound = 1
SYMMETRY PaywallSymmetry
CONSTRAINT OneOutsider
ACTION_CONSTRAINT BeginInOrder
INVARIANTS
    BarredNeverPays
    NonceBuysOnce
    NeverOvercounted
