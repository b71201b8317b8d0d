SPECIFICATION Spec
CONSTANTS
  Old = 4
  MaxPosts = 3
  MayDelete = FALSE
  PageSize = 2
  LatestMax = 2
  Target = 3
  Batch = 2
  Retries = 2
  MaxFailures = 2
  Programs = {"daily", "backfill"}
PROPERTIES BoundaryIsSound
CHECK_DEADLOCK FALSE
