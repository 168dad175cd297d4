SPECIFICATION Spec
CONSTANTS
  MaxJobs = 4
  MaxRetries = 1
  MaxCrashes = 0
  DownloadLimit = 2
  Requests = {"cancel", "delete", "retry", "heal"}
  MayStall = TRUE
  Prompt = {"timer", "request", "exit"}
INVARIANTS TypeOK OneWriter ActiveIsDriven
CHECK_DEADLOCK FALSE
