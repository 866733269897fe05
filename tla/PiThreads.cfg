SPECIFICATION FairSpec
CONSTANTS
    Chats = {1, 2}
    Jobs = {j1}
    Puts = {p1}
    Recent = 1
    Gap = 0
    Batch = 1
    Limit = 3
    MaxEntries = 3
    MaxEvents = 2
INVARIANTS NothingLost ContextComplete BranchForgets
PROPERTIES ImplementsThreadOwner ThreadFreed
\* The run stops: every turn is over and no entry or event is left.
CHECK_DEADLOCK FALSE
