SPECIFICATION FairSpec
CONSTANTS
    Workers = {w1, w2, w3}
    Closers = {c1, c2}
    Handles = {h1, h2}
    Nobody = Nobody
    MaxSpurious = 1
INVARIANT HandlesClosed
PROPERTY ShutdownCompletes
