SPECIFICATION StreamSpec
CONSTANTS
    o1 = o1
    o2 = o2
    Ops = {o1}
    Callers = {release}
    LeaseIDs = {l1}
    MaxTransfers = 1
    MaxTransfersPerLease = 1
    TransferTimeout = 1
    Expiries = {1}
    MaxTime = 0
    Contents <- After
    Bodies <- Arriving
    Original <- Empty
    MaxBytes = 2
    Initial = Initial
    Absent = Absent
    Directory = Directory
    None = None
    MaxEdits = 0
PROPERTY
    AbortedForCause
