SPECIFICATION Spec
CONSTANTS
  Frames <- MCFrames
  MaxFrames = 2
  MaxClear = 3
  Word = 16
  MaxCount = 3
  None = None
INVARIANTS DecryptedExactly AllOrNothing MapsReleased SvpKnows
