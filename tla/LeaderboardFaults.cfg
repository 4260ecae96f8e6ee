SPECIFICATION FairSpec
CONSTANTS
  Player = {p1, p2}
  Syncer = {s1}
  Reconciler = {r1}
  NoMarker = NoMarker
  NoSync = NoSync
  MaxScore = 0
  MaxAge = 1
  BatchSize = 1
  Unit = 2
  Fault = {"restart", "clock"}
  MaxFaults = 1
  MaxTotal = 0
  MaxDeleted = 1
  MaxClock = 1
INVARIANTS FreshPage
PROPERTIES CatchesUp
