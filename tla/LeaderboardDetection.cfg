SPECIFICATION Spec
CONSTANTS
  Player = {p1}
  Syncer = {s1}
  Reconciler = {r1}
  NoMarker = NoMarker
  NoSync = NoSync
  MaxScore = 1
  MaxAge = 2
  BatchSize = 1
  Unit = 2
  Fault = {}
  MaxFaults = 0
  MaxTotal = 2
  MaxDeleted = 1
  MaxClock = 1
INVARIANTS DetectionInvalidates
