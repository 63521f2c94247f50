CONSTANTS
    Procs = {d1, d2}
    Durable = {w1}
    Memory = {m1}
    Nobody = Nobody
    MaxGen = 2
    MaxSeq = 2
    MaxFaults = 3
CHECK_DEADLOCK FALSE
SPECIFICATION FairSpec
INVARIANTS RemovalHasIntent LedgerIsCoherent
PROPERTY DeleteEnds
