SPECIFICATION RestartingSpec
CONSTANTS
  Workers = {w1, w2}
  Callers = {c1}
  Keys = {k1, k2}
  Handled = {k1}
  Priorities = {0}
  MaxJobs = 2
  Limit = 2
  MaxAttempts = 2
  LeaseTime = 1
  DelayBase = 2
  DelayCap = 1
  NoWorker = NoWorker
  NoKey = NoKey
INVARIANTS TypeOK AttemptIdentifiesLease OwnerHasLatestLease QueuedHasAttempts ActiveKeyUnique
PROPERTIES ImplementsLedger EveryJobEnds
