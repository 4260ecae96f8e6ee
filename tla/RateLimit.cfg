SPECIFICATION Spec
CONSTANTS
  Address = {i1, i2, i3}
  Client = {c1}
  NoAuth = NoAuth
  NoPromise = NoPromise
  Window = 3
  Limit = 2
  PruneAt = 2
  TicksPerSecond = 2
  MaxTime = 7
  MaxBack = 1
SYMMETRY Symmetry
INVARIANTS WindowLimit
PROPERTIES MemoryBound RetryHonored
