SPECIFICATION FairSpec
CONSTANTS
  MaxJobs = 4
  MaxRetries = 1
  MaxCrashes = 1
  DownloadLimit = 2
  Requests = {"retry"}
  MayStall = TRUE
  Prompt = {"timer", "request", "exit"}
PROPERTIES Settles
CHECK_DEADLOCK FALSE
