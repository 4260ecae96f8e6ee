SPECIFICATION BackendSpec
CONSTANTS
  Player = {1}
  Key = {k1}
  Occurrence = {o1}
  Api = {a1}
  Worker = {w1}
  Nobody = Nobody
  NoOrder = NoOrder
  NoOccurrence = NoOccurrence
  NoCommand = NoCommand
  BasePrice <- MCBasePrice
  RateIncrease <- MCRateIncrease
  MaxLevel = 1
  InitialRate = 1
  BonusAmount = 1
  OfflineTicks = 1
  TicksPerSecond = 1
  MaxAmount = 2
  MaxClock = 1
  Syncer = {s1}
  Reconciler = {r1}
  NoMarker = NoMarker
  NoSync = NoSync
  MaxScore = 2
  MaxAge = 1
  BatchSize = 1
  Unit = 2
  Fault = {}
  MaxFaults = 0
  MaxTicks = 1
INVARIANTS ShownAccounted
PROPERTIES ProjectionSound
