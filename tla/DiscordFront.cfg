SPECIFICATION Spec
CONSTANTS
  b1 = b1
  b2 = b2
  Bots = {b1, b2}
  Messages = {m1, m2}
  MaxDeliveries = 3
  MaxWaiting <- WaitingLimits
  Parts = 2
  MaxCrashes = 1
  None = None
INVARIANTS TypeOK WaitingCountsTasks PostedIsStored ButtonServed
PROPERTIES EveryCallEnds
CHECK_DEADLOCK FALSE
