SPECIFICATION FairSpec
CONSTANTS
    Addresses = {a1}
    NoAddress = NoAddress
    MaxRows = 2
    MaxBatch = 2
    MaxEvents = 2
    DayLength = 2
    StartHour = 0
    EndHour = 1
    Interval = 1
    DailyCap = 1
PROPERTY QueuedMoves
