SPECIFICATION FairSpec
CONSTANTS
  NumSlots = 2
  NoSlot = NoSlot
  Sessions = {s1, s2, s3}
  NoSession = NoSession
  MortalClients = {s3}
INVARIANTS SlotBookkeeping ListedSessionsAreWhole CdmAliveWhileDecrypting
PROPERTIES PoolSpec DestructionCompletes
