SPECIFICATION SyncSpec
CONSTANTS
  Videos = {v1}
  Syncs = {"job", "manual"}
  MaxNow = 6
INVARIANTS SyncTypeOK WatermarkCovers
