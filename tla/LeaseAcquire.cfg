SPECIFICATION Spec
CONSTANTS
    Scopes = {s1, s2}
    Keys = {k1}
    LeaseIDs = {l1, l2}
    Handlers = {h1, h2}
    Sweeper = main
    None = None
    TTLs = {0, 1}
    MaxTTL = 2
    MaxTransfers = 2
    MaxTransfersPerLease = 1
    TransferTimeout = 1
    Operations = {"acquire"}
    Faults = {"crash"}
    ClusterExpiry = FALSE
    MaxTime = 1
SYMMETRY Symmetry
INVARIANTS
    OneActiveLeasePerKey
    AcquireStaysInScope
PROPERTY
    ImplementsLeaseService
