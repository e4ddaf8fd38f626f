SPECIFICATION FairSpec
CONSTANTS
  NumSlots = 2
  NoSlot = NoSlot
  Threads = {t1, t2, t3}
INVARIANTS OneOpens ExchangeIsServers
PROPERTY CallsComeBack
