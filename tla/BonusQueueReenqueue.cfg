SPECIFICATION Spec
CONSTANTS
  Uuid = {u1}
  Foreign = {}
  Worker = {w1, w2}
  None = None
  Attempts = 2
  KeepCompleted = 1
  MaxStalls = 3
  MaxHour = 0
  MaxRestarts = 0
PROPERTIES ReenqueueRuns
