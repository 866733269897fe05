SPECIFICATION Spec
CONSTANTS
    Addresses = {a1, a2}
    NoAddress = NoAddress
    MaxRows = 3
    MaxBatch = 3
    MaxEvents = 2
    DayLength = 3
    StartHour = 2
    EndHour = 1
    Interval = 1
    DailyCap = 1
SYMMETRY Symmetry
INVARIANTS TypeOK CopiesWithinPuts SentContactMarked DedupePerAddress SentTodayUnderCap
PROPERTY ClosedRowsRest
