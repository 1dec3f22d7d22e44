SPECIFICATION Spec
CONSTANTS
  Calls = {c1}
  Game = Game
  MaxTokens = 2
  MaxRequests = 1
  MaxConnects = 2
INVARIANT FailedRetryReturns
CHECK_DEADLOCK FALSE
