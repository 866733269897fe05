SPECIFICATION FairSpec
CONSTANTS
    Schedules = {s1, s2}
    Loops = {l1}
    Requests = {q1}
    Restarts = {w1}
    NoJob = NoJob
    NoLoop = NoLoop
    Lease = 2
    Delays = {1}
    MaxEvents = 2
PROPERTY DueRuns
