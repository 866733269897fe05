SPECIFICATION Spec
CONSTANTS
    Schedules = {s1, s2}
    Loops = {l1, l2, l3}
    Requests = {q1}
    Restarts = {w1, w2}
    NoJob = NoJob
    NoLoop = NoLoop
    Lease = 2
    Delays = {1}
    MaxEvents = 3
SYMMETRY Symmetry
INVARIANTS TypeOK OneRun LeaseHasRun LoopsOneByOne
