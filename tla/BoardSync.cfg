SPECIFICATION Spec
CONSTANTS
  Old = 4
  MaxPosts = 3
  MayDelete = TRUE
  PageSize = 2
  LatestMax = 2
  Target = 3
  Batch = 2
  Retries = 2
  MaxFailures = 2
  Programs = {"daily", "backfill"}
INVARIANTS TypeOK NothingLost
PROPERTIES BackfillNeverRewinds BackfillEnds
CHECK_DEADLOCK FALSE
