SPECIFICATION Spec
CONSTANTS
    Worlds = {"w1", "w2"}
    Readers = {r1, r2}
    Slots <- MCSlots
    NoSlot = NoSlot
    MaxEntries = 1
    RetryBudget = 1
    MaxWriteConns = 1
    Scopes <- SafetyScopes
SYMMETRY Interchangeable
INVARIANTS NoFdUnlessWritten ReadLinearizes PoolTells
