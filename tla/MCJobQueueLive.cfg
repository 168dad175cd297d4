SPECIFICATION FairSpec
CONSTANTS
  d1 = d1  d2 = d2  d3 = d3  m1 = m1  m2 = m2
  Jobs = {d1, d2}
  Types <- MCTypes
  DownloadType = "download"
  JobType <- MCJobType
  Priority <- MCPriority
  InitialLimit <- MCLimit
  LimitRequests = {}
  Take = 2
  MaxClock = 1
  MaxCrashes = 1
  DbFaults = FALSE
INVARIANTS RunningRowsOwned OneSlotSurvives
PROPERTIES DueJobFinishes
