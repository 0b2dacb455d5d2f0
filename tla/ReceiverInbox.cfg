SPECIFICATION Spec
CONSTANTS
    Deliveries = {d1, d2}
    Envelopes = {e1, e2}
    Senders = {s1, s2, s3}
    MessageIds = {m1}
    Contexts = {x1}
    Credentials = {}
    NoContext = NoContext
    BadContext = BadContext
    ContextIds = {x1, NoContext, BadContext}
    NoCredential = NoCredential
    SameOrg = {s2}
    Trusted = {}
    AskStrangers = FALSE
    Interleaved = FALSE
    IatRange = {0}
    CredExps = {}
    Lifetimes = {2}
    MaxLifetime = 2
    Leeway = 1
    Retention = 6
    MaxDelay = 1
    CacheLeeway = 1
    CacheTtl = 3
    Lookback = 1
    TimeBound = 4
    Peers = {s1}
SYMMETRY ReceiverSymmetry
INVARIANTS InboxIsForTheKnown AtMostOnce ReplayedOnlyIfSeen
