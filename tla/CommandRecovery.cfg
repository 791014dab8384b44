SPECIFICATION Spec
CONSTANTS
    c1 = c1
    c2 = c2
    h1 = h1
    h2 = h2
    r1 = r1
    r2 = r2
    r3 = r3
    IDs = {c1}
    Reqs = {r1}
    Specs = {s1}
    Handlers = {h1}
    None = None
    MaxCommands = 1
    DiskFaults = FALSE
    MaxEvents = 1
INVARIANT
    RecoverySucceeds
