SPECIFICATION LiveSpec
CONSTANTS
    Scopes = {s1}
    Keys = {k1}
    LeaseIDs = {l1}
    Handlers = {h1, h2}
    Sweeper = main
    None = None
    TTLs = {1}
    MaxTTL = 2
    MaxTransfers = 2
    MaxTransfersPerLease = 1
    TransferTimeout = 1
    Operations = {"acquire", "transfer"}
    Faults = {"crash", "sigterm"}
    ClusterExpiry = FALSE
    MaxTime = 1
PROPERTIES
    ExpiredAreDeleted
    AcquireIsServed
