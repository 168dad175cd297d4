SPECIFICATION FairSpec
CONSTANTS
  Rows = {1, 2}
  Checkers = {"check"}
  Sources = {"rss", "flat", "feed"}
INVARIANTS TypeOK FutureOnly OnlyDeadRowsDropped
PROPERTIES NewVideoArrives
