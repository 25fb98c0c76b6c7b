SPECIFICATION FairSpec
CONSTANTS
  MaxBytes = 5
  MboxSize = 3
  PendingMax = 2
  Window = 4
  Shapes <- SomeShapes
  Lengths <- SomeLengths
INVARIANTS TypeOK BytesInOrder PbufsOwned WindowExact EofNotLost
PROPERTY CallsReturn
CHECK_DEADLOCK FALSE
