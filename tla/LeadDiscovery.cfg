SPECIFICATION FairSpec
CONSTANTS
    e1 = e1
    e2 = e2
    Emails = {e1, e2}
    Known = {e2}
    Leads = {}
    Filters <- MCFilters
    Runs = {r1}
    Users = {u1}
    AvoidLimit = 1
    MaxRequests = 1
    MaxFaults = 1
    ASNs = {1, 2}
    Registered <- MCRegistered
INVARIANTS TypeOK ImportedIsContact OnePending RejectionKept LeadsArrive
PROPERTIES ImplementsLeadSearch RunsEnd
CHECK_DEADLOCK FALSE
