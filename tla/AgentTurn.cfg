SPECIFICATION FairSpec
CONSTANTS
    AskedTurns <- MCAskedTurns
    RawCalls <- MCRawCalls
    MaxRounds = 3
    MaxAsks = 4
    ToolBudget = 3
    MaxBatch = 2
    MaxQueries = 2
    MaxNudges = 1
INVARIANTS WellFormed ResultsKept Guardrails
PROPERTY ImplementsTurnStream
\* The run stops: the turn is over and no worker is left.
CHECK_DEADLOCK FALSE
