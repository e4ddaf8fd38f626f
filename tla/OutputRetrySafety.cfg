SPECIFICATION RetryFairSpec
CONSTANTS
  Timeout = 9
  Interval = 2
  MaxAttempt = 3
INVARIANTS DecryptedOnce ResultMatchesBuffer OverrunIsBounded
PROPERTY CallReturns
CHECK_DEADLOCK FALSE
