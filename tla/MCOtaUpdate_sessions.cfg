SPECIFICATION Spec
CONSTANTS
  Versions = {v1, v2}
  v1 = v1
  v2 = v2
  Erased = Erased
  Torn = Torn
  FwLen = 4
  FsLen = 1
  SectorCells = 3
  MaxChunk = 2
INVARIANT SuccessIsReal
PROPERTY CommitLast
PROPERTY ImplementsSlots
PROPERTY SessionsEnd
