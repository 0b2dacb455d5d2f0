SPECIFICATION FairSpec
CONSTANTS
    a = a
    b = b
    Agents = {a, b}
    Contexts = {x1}
    NoContext = NoContext
    Statuses = {s1}
    Setups <- MCSetups
    SendCooldown = 1
    NotifyCooldown = 1
    InboxLimit = 1
    ConnectBound = 3
CHECK_DEADLOCK FALSE
INVARIANTS ConfirmedByBoth InboxInOrder OnePerWindow
 
