SPECIFICATION FairSpec
CONSTANTS
  Objects = {o1, o2}
  Ids = {i1, i2}
  Callers = {c1, c2}
  NoId = NoId
  None = None
INVARIANTS RegistryIsRight ReferencesCounted SerializedReturnsAlive
PROPERTY GetSessionReturns
