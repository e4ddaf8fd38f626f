SPECIFICATION FairSpec
CONSTANTS
  a = a
  aTwin = aTwin
  b = b
  bTwin = bTwin
  Ids <- MCIds
  Twin <- MCTwin
  InitData <- MCInitData
  Reported = {usable, expired}
  Pending = Pending
  None = None
INVARIANTS KeysOfInitData ClientKeepsUp ToldTheLatest
PROPERTY ReportsArrive
CHECK_DEADLOCK FALSE
