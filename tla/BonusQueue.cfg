SPECIFICATION FairSpec
CONSTANTS
  Uuid = {u1}
  Foreign = {}
  Worker = {w1, w2}
  None = None
  Attempts = 2
  KeepCompleted = 1
  MaxStalls = 1
  MaxHour = 1
  MaxRestarts = 0
INVARIANTS AcceptedKept RetryBudget
PROPERTIES JobsSettle
