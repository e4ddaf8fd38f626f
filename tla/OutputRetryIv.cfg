SPECIFICATION RetrySpec
CONSTANTS
  Timeout = 6
  Interval = 2
  MaxAttempt = 1
INVARIANT NothingIsGarbled
CHECK_DEADLOCK FALSE
