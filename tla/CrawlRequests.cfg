SPECIFICATION Spec
CONSTANTS
  MinDelay = 1
  Threshold = 2
  MaxHops = 4
  Cap = 4
  Asked = {0, 1, 5}
  Retries = 3
  RetryDelay = 1
  MaxRequests = 4
  MaxCommands = 2
PROPERTIES RequestsAreApproved RefusalsHonoured ScriptEnds
CHECK_DEADLOCK FALSE
