CONSTANTS
    w1 = w1
    w2 = w2
    ledger = ledger
    stray = stray
    memory = memory
    c1 = c1
    Worlds <- MCWorlds
    Ledger = ledger
    Stray = stray
    MemoryWorld = memory
    Callers = {c1}
    Tokens <- MCTokens
    MaxListed = 1
    Name <- MCName
    Begins <- MCBegins
    Scopes <- MCScopes
    Quotas = {3, 5}
    MaxBody = 3
    MaxRows = 4
    CounterMax = 9
    MaxStarts = 2
CHECK_DEADLOCK FALSE
SPECIFICATION Spec
INVARIANTS BytesAccounted DiskWithinQuota ListingTells DuTells FailureHasCause
 
