SPECIFICATION Spec
CONSTANTS
  Player = {1}
  Key = {k1, k2}
  Occurrence = {o1}
  Api = {a1, a2}
  Worker = {w1}
  Nobody = Nobody
  NoOrder = NoOrder
  NoOccurrence = NoOccurrence
  NoCommand = NoCommand
  BasePrice <- MCBasePrice
  RateIncrease <- MCRateIncrease
  MaxLevel = 2
  InitialRate = 1
  BonusAmount = 2
  OfflineTicks = 2
  TicksPerSecond = 1
  MaxAmount = 5
  MaxClock = 3
SYMMETRY Symmetry
INVARIANTS TypeOK Conservation OneCommandPerLevel NeverOverpaid WithinNumeric DraftsCurrent ReplyMatchesRecord
PROPERTIES LedgerSpec Monotone Permanent
