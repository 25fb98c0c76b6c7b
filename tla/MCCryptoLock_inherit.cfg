\* Two AES tasks of different priorities: the first inherits from the second.
SPECIFICATION Spec
CONSTANTS
  a1 = a1
  a2 = a2
  c1 = c1
  c2 = c2
  n1 = n1
  NoTask = NoTask
  AesTasks = {a1, a2}
  ChaChaTasks = {}
  NetTasks = {}
  Boost = 11
  NumSlots = 2
  BasePriority <- MixedPriorities
INVARIANT BoostRestored
