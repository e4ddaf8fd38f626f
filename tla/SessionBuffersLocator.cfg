SPECIFICATION Spec
CONSTANTS
  NumSlots = 2
  NoSlot = NoSlot
  Sessions = {s1, s2}
  NoSession = NoSession
  MortalClients = {}
INVARIANT LocatorsDiffer
