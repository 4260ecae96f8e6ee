SPECIFICATION FairSpec
CONSTANTS
  Slot = {s1, s2}
  Player = {p1}
  PoolSize = 1
INVARIANTS EnqueueByAdmin CommitReported ServedWhileOpen PoolNeverStuck
PROPERTIES RequestsEnd ShutdownEnds
CHECK_DEADLOCK FALSE
