SPECIFICATION Spec
CONSTANTS
  a = a
  aTwin = aTwin
  b = b
  bTwin = bTwin
  Ids <- MCIds
  Twin <- MCTwin
  InitData <- OneKey
  Reported = {usable, expired}
  Pending = Pending
  None = None
INVARIANT StatusIsCurrent
CHECK_DEADLOCK FALSE
