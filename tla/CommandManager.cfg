SPECIFICATION Spec
CONSTANTS
    c1 = c1
    c2 = c2
    h1 = h1
    h2 = h2
    r1 = r1
    r2 = r2
    r3 = r3
    IDs = {c1, c2}
    Reqs = {r1, r2, r3}
    Specs = {s1}
    Handlers = {h1, h2}
    None = None
    MaxCommands = 2
    DiskFaults = TRUE
    MaxEvents = 2
SYMMETRY Symmetric
INVARIANTS
    AtMostOnce
    TerminalIsDurable
    NoLostWakeup
    OutputComplete
    CursorsStayValid
    CollectGoesOn
