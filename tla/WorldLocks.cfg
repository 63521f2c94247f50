CONSTANTS
    Procs = {p1, p2, p3}
    Worlds = {w1, w2}
    Locks = {l1, l2, l3, l4}
    NoWorld = NoWorld
    NoLock = NoLock
    Nobody = Nobody
    SweepInterval = 2
SPECIFICATION FairSpec
PROPERTIES Implements EveryRequestProceeds
