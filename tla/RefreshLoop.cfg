SPECIFICATION FairSpec
CONSTANTS
  MaxEarned = 3
CHECK_DEADLOCK FALSE
INVARIANTS QuietStop
PROPERTIES JobReflected ShownAtLast JobFinishes ShutdownEnds
