SPECIFICATION FairSpec
CONSTANTS
  Player = {1, 2}
  Key = {k1}
  Occurrence = {o1, o2}
  Api = {a1}
  Worker = {w1, w2}
  Nobody = Nobody
  NoOrder = NoOrder
  NoOccurrence = NoOccurrence
  NoCommand = NoCommand
  BasePrice <- MCBasePrice
  RateIncrease <- MCRateIncrease
  MaxLevel = 0
  InitialRate = 1
  BonusAmount = 1
  OfflineTicks = 1
  TicksPerSecond = 1
  MaxAmount = 2
  MaxClock = 0
INVARIANTS LocksProtect NoCircularWait
PROPERTIES EveryEligiblePaid TransactionsEnd
