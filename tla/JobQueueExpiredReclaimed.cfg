SPECIFICATION FairSpec
CONSTANTS
  Workers = {w1, w2}
  Callers = {c1}
  Keys = {k1}
  Handled = {k1}
  Priorities = {0}
  MaxJobs = 1
  Limit = 1
  MaxAttempts = 2
  LeaseTime = 1
  DelayBase = 1
  DelayCap = 1
  NoWorker = NoWorker
  NoKey = NoKey
PROPERTIES ExpiredLeaseReclaimed
