SPECIFICATION FairSpec
CONSTANTS
  Threads = {t1, t2}
  Sessions = {batch, fps}
  FpsSessions = {fps}
  BatchSessions = {batch}
  None = None
  p1 = p1
  p2 = p2
  q1 = q1
  q2 = q2
  Calls <- KindsOfCalls
INVARIANTS TurnsExclude OwnAnswer SecureIsOwn
PROPERTY AtomicSpec
