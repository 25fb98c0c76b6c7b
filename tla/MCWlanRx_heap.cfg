\* Two interfaces; a long multicast frame is duplicated for the buddy.
SPECIFICATION Spec
CONSTANTS
  RingSize = 2
  NumHeap = 3
  NumPool = 1
  NumWrappers = 2
  Ifaces <- BothIfaces
  MaxFrames = 2
  LargeMulticast = TRUE
INVARIANT PayloadLive
