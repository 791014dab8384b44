SPECIFICATION Spec
CONSTANTS
    HeaderBytes = 2
    RecordSizes = {2, 3, 4}
    SegmentBytes = 7
    Budget = 15
    MaxSeq = 8
INVARIANTS
    BudgetKept
PROPERTIES
    ImplementsEventLog
