SPECIFICATION Spec
CONSTANTS
  Handles = {"h1", "h2", "h3"}
  Threads = {"t1", "t2", "t3"}
  Subs = {"s1", "s2"}
  Scopes <- AppendScopes
  Buffer = 1
  Ring = 1
  Defaults <- MCDefaults
  MaxUsize = 8
INVARIANTS AppendedBytesKept
