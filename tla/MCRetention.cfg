SPECIFICATION FairSpec
CONSTANTS
  Viewers = {u1, u2}
  CacheDays = 1
  LibraryDays = 1
  Grace = 1
  MaxAge = 1
  MaxFaults = 1
INVARIANTS TypeOK KeptSurvives
PROPERTIES AgesOut
