SPECIFICATION Spec
CONSTANTS
  d1 = d1  d2 = d2  d3 = d3  m1 = m1  m2 = m2
  Jobs = {d1, d2, m1}
  Types <- MCTypes
  DownloadType = "download"
  JobType <- MCJobType
  Priority <- MCPriority
  InitialLimit <- MCLimit
  LimitRequests = {0}
  Take = 2
  MaxClock = 0
  MaxCrashes = 1
  DbFaults = TRUE
SYMMETRY Symmetry
INVARIANTS SlotsCoverExecutions NoDoubleStart
PROPERTIES ClaimWithinLimit ImplementsContract
