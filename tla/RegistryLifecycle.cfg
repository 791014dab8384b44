SPECIFICATION LiveSpec
CONSTANTS
    IDs = {e1}
    Hosts = {a}
    h1 = h1
    h2 = h2
    c1 = c1
    c2 = c2
    Handlers = {h1}
    Admins = {ctl}
    Timer = Timer
    Conns = {c1}
    MaxConnections = 1
    SessionTTL = 2
    BootstrapTTL = 1
    Kinds = {"exchange", "proxy"}
    MaxGen = 2
    MaxCreds = 3
    MaxTime = 2
INVARIANTS
    NoOrphanConnection
    ClosedIsEmpty
PROPERTIES
    EndedForCause
    ConnectionsEnd
