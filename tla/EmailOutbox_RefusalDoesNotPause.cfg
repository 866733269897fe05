SPECIFICATION Spec
CONSTANTS
    Addresses = {a1}
    NoAddress = NoAddress
    MaxRows = 2
    MaxBatch = 2
    MaxEvents = 3
    DayLength = 2
    StartHour = 0
    EndHour = 1
    Interval = 1
    DailyCap = 1
INVARIANT RefusalDoesNotPause
