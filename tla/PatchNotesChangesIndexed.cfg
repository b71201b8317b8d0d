SPECIFICATION Spec
CONSTANTS
  NoTxn = NoTxn
  Count = 2
  MaxEdits = 1
  MaxRevision = 1
  Indexers = {idx}
  Sync = Sync
  BatchSize = 1
  MaxAborts = 1
  MaxDenials = 1
INVARIANTS ChangesIndexed
CHECK_DEADLOCK FALSE
