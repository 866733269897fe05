SPECIFICATION Spec
CONSTANTS
    MaxJobs = 2
    JobTypes = {"lookup", "lead_discover", "pi_agent"}
    MaxSteps = 1
    MaxEvents = 2
    UtcNowIsText = TRUE
PROPERTY SnapshotsStored
\* The run stops: every job is settled and no event is left.
CHECK_DEADLOCK FALSE
