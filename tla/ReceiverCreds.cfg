SPECIFICATION Spec
CONSTANTS
    Deliveries = {d1, d2}
    Envelopes = {e1, e2}
    Senders = {s1}
    MessageIds = {m1, m2}
    Contexts = {}
    Credentials = {c1, c2}
    NoContext = NoContext
    BadContext = BadContext
    ContextIds = {NoContext}
    NoCredential = NoCredential
    SameOrg = {}
    Trusted = {c1}
    AskStrangers = TRUE
    Interleaved = TRUE
    IatRange = {0}
    CredExps = {2}
    Lifetimes = {3}
    MaxLifetime = 3
    Leeway = 1
    Retention = 7
    MaxDelay = 1
    CacheLeeway = 1
    CacheTtl = 1
    Lookback = 0
    TimeBound = 4
    Peers = {}
SYMMETRY ReceiverSymmetry
INVARIANTS StrangersAreVetted
