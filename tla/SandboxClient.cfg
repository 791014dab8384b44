SPECIFICATION LiveSpec
CONSTANTS
    Leases = {1, 2, 3}
    ScopeOf <- Scope
    PoolOf <- Pool
    ExpiresAt <- Expiry
    AnyPool = "any"
    Queries <- Lists
    Held = 1
    Callers = {c1, c2}
    None = None
    MaxTime = 1
INVARIANTS
    TraversalComplete
    EndedMeansEnded
PROPERTIES
    PagersEnd
    JoinersReturn
