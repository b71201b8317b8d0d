SPECIFICATION Spec
CONSTANTS
  NoTxn = NoTxn
  Count = 2
  MaxEdits = 1
  MaxRevision = 2
  Indexers = {idx}
  Sync = Sync
  BatchSize = 1
  MaxAborts = 1
  MaxDenials = 1
INVARIANTS TypeOK SearchFollowsRows
PROPERTIES EditsReachSearch
CHECK_DEADLOCK FALSE
