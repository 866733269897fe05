CONSTANTS
    MaxRetries = 1  MaxPieces = 2  MaxCalls = 2
    Rirs <- MCRirs  Entities <- MCEntities  Lists <- MCLists  Streams = {s1}  Jobs = {j1}  BatchSize = 2  Ttl = 1  MaxTime = 1
    QueueSize = 1  MaxOnWire = 1  MaxUpdates = 3  MaxBreaks = 2
    Addresses = {1, 2}  Present <- MCPresent  Refusable = {1}  MaxRows = 3  MaxCards = 2  MaxConfirms = 2  MaxDeeds = 1
    e1 = e1  e2 = e2  e3 = e3
    Emails = {e1, e2, e3}  Known = {e1, e2}  Leads = {e2}  Filters <- MCFilters  Runs = {r1}  Users = {u1}  AvoidLimit = 1  MaxRequests = 1
    Anchor = e1  Related = {e2, e3}  ASNs = {1}  Registered <- MCRegistered  MaxFaults = 1
    Keys = {k1, k2}  Requests = {t1, t2}  MaxFailures = 1  Window = 1  MaxKeys = 1  MaxClock = 2  MaxGuesses = 3
SPECIFICATION Spec
INVARIANTS DestroyedIsOffered EnrichmentOnlyAdds GuessesBounded
PROPERTIES ImplementsLlmReply LookupServed EndIsShown
CHECK_DEADLOCK FALSE
