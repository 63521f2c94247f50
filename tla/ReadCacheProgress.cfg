SPECIFICATION FairSpec
CONSTANTS
    Worlds = {"w1", "w2"}
    Readers = {r1, r2}
    Slots <- MCSlots
    NoSlot = NoSlot
    MaxEntries = 1
    RetryBudget = 2
    MaxWriteConns = 1
    Scopes <- ProgressScopes
PROPERTY CallsEnd
