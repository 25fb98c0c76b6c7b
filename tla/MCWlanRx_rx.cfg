\* Two interfaces; large frames are not duplicated for the buddy.
SPECIFICATION FairSpec
CONSTANTS
  RingSize = 2
  NumHeap = 3
  NumPool = 1
  NumWrappers = 2
  Ifaces <- BothIfaces
  MaxFrames = 2
  LargeMulticast = FALSE
INVARIANTS
  TypeOK
  DmaExclusive
  BlocksHeld
  QuiescedIsDrained
  SelfTestGuards
PROPERTY RingServed
