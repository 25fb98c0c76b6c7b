SPECIFICATION Spec
CONSTANTS
  Versions = {"v1", "v2"}
  NoImage = NoImage
  Frames <- Announcements
  Free = Free
  QueueSize = 1
  MaxRetries = 2
  Period = 3
INVARIANTS
  MessagesOwned
  FrameEffects
PROPERTIES
  FramesServed
  UpgradeResets
