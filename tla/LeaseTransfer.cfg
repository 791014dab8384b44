SPECIFICATION Spec
CONSTANTS
    Scopes = {s1, s2}
    Keys = {k1}
    LeaseIDs = {l1}
    Handlers = {h1, h2}
    Sweeper = main
    None = None
    TTLs = {1}
    MaxTTL = 2
    MaxTransfers = 2
    MaxTransfersPerLease = 1
    TransferTimeout = 1
    Operations = {"acquire", "release", "transfer", "get", "exec"}
    Faults = {"crash", "sigterm", "late"}
    ClusterExpiry = TRUE
    MaxTime = 2
SYMMETRY Symmetry
INVARIANTS
    ReleaseIsFinal
    DeleteIsQuiet
    TransferAuthorised
