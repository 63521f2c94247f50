SPECIFICATION Spec
CONSTANTS
    c1 = c1
    c2 = c2
    Workers <- MCWorkers
    DurableWorlds <- MCDurableWorlds
    MemoryWorlds <- MCMemoryWorlds
    Shard <- MCShard
    EntryOverhead = 2
    Tokens <- MCTokens
    MaxWorldBytes = 3
    Keep = 1
    Scopes <- MCScopes
INVARIANTS
    MemoryAccounted
    ConditionsHoldAtCommit
    
    ValidatedBodyIsTrue
    HeadersRoundTrip
