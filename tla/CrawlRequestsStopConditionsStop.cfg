SPECIFICATION Spec
CONSTANTS
  MinDelay = 1
  Threshold = 2
  MaxHops = 4
  Cap = 2
  Asked = {0, 1, 3}
  Retries = 3
  RetryDelay = 1
  MaxRequests = 4
  MaxCommands = 2
PROPERTIES StopConditionsStop
CHECK_DEADLOCK FALSE
