SPECIFICATION Spec
CONSTANTS
  r1 = r1
  r2 = r2
  Requests <- TwoRequests
  WindowSize = 4
  MaxTools = 2
  MaxTurns = 3
CHECK_DEADLOCK FALSE
INVARIANTS TypeOK SentIsAnswerable
