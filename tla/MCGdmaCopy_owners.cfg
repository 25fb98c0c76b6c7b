CONSTANTS
  t1 = t1
  t2 = t2
  t3 = t3
  NoTask = NoTask
  Tasks = {t1, t2, t3}
  NumContexts = 2
  Segments = 1
  DCache = FALSE
  ErrorHalts = FALSE
SYMMETRY Sym
SPECIFICATION Spec
INVARIANTS
  OneOwner
  DmaOnlyInsideCall
