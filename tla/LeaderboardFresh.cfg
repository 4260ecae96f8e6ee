SPECIFICATION Spec
CONSTANTS
  Player = {p1}
  Syncer = {s1}
  Reconciler = {r1, r2}
  NoMarker = NoMarker
  NoSync = NoSync
  MaxScore = 2
  MaxAge = 2
  BatchSize = 1
  Unit = 2
  Fault = {}
  MaxFaults = 0
  MaxTotal = 3
  MaxDeleted = 1
  MaxClock = 3
SYMMETRY Symmetry
INVARIANTS TypeOK FreshPage NoInflation
