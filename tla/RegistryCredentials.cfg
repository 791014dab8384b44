SPECIFICATION Spec
CONSTANTS
    IDs = {e1, e2}
    Hosts = {a}
    h1 = h1
    h2 = h2
    c1 = c1
    c2 = c2
    Handlers = {h1, h2}
    Admins = {ctl}
    Timer = Timer
    Conns = {}
    MaxConnections = 1
    SessionTTL = 2
    BootstrapTTL = 1
    Kinds = {"exchange", "proxy"}
    MaxGen = 2
    MaxCreds = 4
    MaxTime = 1
SYMMETRY Symmetric
INVARIANTS
    SingleUse
    AuthorityIsLive
    SlotsAccounted
    SessionsStayBound
