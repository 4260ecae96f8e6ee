SPECIFICATION Spec
CONSTANTS
  Uuid = {u1}
  Foreign = {f1}
  Worker = {w1, w2}
  None = None
  Attempts = 1
  KeepCompleted = 1
  MaxStalls = 1
  MaxHour = 0
  MaxRestarts = 1
SYMMETRY Symmetry
INVARIANTS PaidOnce CompletedPaid
