SPECIFICATION FairViewSpec
CONSTANTS
  MaxRetries = 2
  MaxBreaks = 3
INVARIANTS ViewTypeOK RunningIsShown
PROPERTIES NoZombieCard
CHECK_DEADLOCK FALSE
