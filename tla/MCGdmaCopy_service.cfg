CONSTANTS
  t1 = t1
  t2 = t2
  t3 = t3
  NoTask = NoTask
  Tasks = {t1}
  NumContexts = 1
  Segments = 2
  DCache = TRUE
  ErrorHalts = FALSE
SPECIFICATION FairSpec
INVARIANTS
  AcceptedIsWritten
  NeighbourKept
PROPERTIES
  ImplementsService
  CallsReturn
