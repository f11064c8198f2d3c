SPECIFICATION PageSpec
CONSTANTS
  MaxCalls = 4
  MaxSockets = 3
INVARIANTS
  RightAnswer
  CalledOncePerCall
