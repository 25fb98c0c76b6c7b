SPECIFICATION FairSpec
CONSTANTS
  Setups <- SoundSetups
  MaxOps = 3
INVARIANTS BuffersQuiet SubmittedArmed
PROPERTY CallsEnd
