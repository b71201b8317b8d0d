SPECIFICATION Spec
CONSTANTS
  Bots = {bot1}
  Ask = ask
  Resumes = {res1, res2, other}
  Strangers = {other}
  Calls = {A, B}
  MaxCalls = 2
  MaxDeliveries = 2
  NoCall = NoCall
INVARIANTS TypeOK BudgetRespected RecordedNotRepeated RepliedOnce
PROPERTIES SucceededIsFinal HandlerReturns
CHECK_DEADLOCK FALSE
