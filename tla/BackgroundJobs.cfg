SPECIFICATION FairSpec
CONSTANTS
    MaxJobs = 2
    JobTypes = {"lookup", "lead_discover", "pi_agent"}
    MaxSteps = 1
    MaxEvents = 2
    UtcNowIsText = FALSE
INVARIANTS TypeOK HitNeverDone NoOrphans CancelledForAReason
PROPERTIES ImplementsLifecycle ActiveSettles
\* The run stops: every job is settled and no event is left.
CHECK_DEADLOCK FALSE
