SPECIFICATION ServerLiveSpec
CONSTANTS
    IDs = {c1}
    Reqs = {r1}
    Specs = {s1}
    Handlers = {h1, h2}
    None = None
    MaxCommands = 1
    MaxClients = 2
    DiskFaults = FALSE
    MaxEvents = 0
INVARIANTS
    SlotsHeld
    KillAllReaches
PROPERTIES
    ManagerSteps
    NoneDetached
    ShutdownEnds
    StdinEnds
CHECK_DEADLOCK FALSE
