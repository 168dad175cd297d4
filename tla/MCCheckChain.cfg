SPECIFICATION FairSpec
CONSTANTS
  Rows = {1, 2, 3}
  Limit = 1
  Kinds = {"subscription", "system"}
  MaxCrashes = 1
  Faults = TRUE
INVARIANTS OneBody ChainAlive
PROPERTIES Lively
