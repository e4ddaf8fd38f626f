CONSTANTS
  playready = playready
  other = other
  o1 = o1
  Systems <- MCSystems
  Offered <- MCOffered
  Objects = {o1}
  MaxStarts = 3
SPECIFICATION Spec
INVARIANTS ProxiesAreHeld FailureIsTold AskingReaches
PROPERTY Recovers
\* the client may dispose of its accessor and stop
CHECK_DEADLOCK FALSE
