SPECIFICATION FairSpec
CONSTANTS
  ana = ana
  ben = ben
  NoUser = NoUser
  NoQuota = NoQuota
  Downloads = {1, 2, 3}
  Users = {ana, ben}
  Owner <- MCOwner
  Size <- MCSize
  UserQuota <- MCUserQuota
  DefaultQuota = 2
  TotalCap = 1
  Disk = 5
  Required = 2
  Kinds = {"user", "total", "job", "disk", "clear"}
  MaxPasses = 2
  MaxMishaps = 1
INVARIANTS OneEvictor StopsWithinQuota MissingFilesHaveARemover
PROPERTIES EvictsOldestFirst QuotasRestored
