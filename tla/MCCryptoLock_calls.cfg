SPECIFICATION FairSpec
CONSTANTS
  a1 = a1
  a2 = a2
  c1 = c1
  c2 = c2
  n1 = n1
  NoTask = NoTask
  AesTasks = {a1, a2}
  ChaChaTasks = {c1}
  NetTasks = {n1}
  Boost = 11
  NumSlots = 1
  BasePriority <- PeerPriorities
INVARIANTS TypeOK BoostRestored OwnerBoosted SlotsOwned NoLostWakeup
PROPERTY EngineReleased
