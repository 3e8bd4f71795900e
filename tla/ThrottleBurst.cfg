SPECIFICATION Spec
CONSTANTS
  c1 = c1
  c2 = c2
  Callers <- TwoCallers
  Interval = 2
  Attempts = 3
  Backoff = 1
  MaxTime = 3
CHECK_DEADLOCK FALSE
INVARIANTS AllCallsSpaced
