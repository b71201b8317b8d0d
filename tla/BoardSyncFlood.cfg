SPECIFICATION Spec
CONSTANTS
  Old = 4
  MaxPosts = 5
  MayDelete = FALSE
  PageSize = 2
  LatestMax = 4
  Target = 3
  Batch = 2
  Retries = 2
  MaxFailures = 1
  Programs = {"daily", "backfill"}
INVARIANTS NothingLost
CHECK_DEADLOCK FALSE
