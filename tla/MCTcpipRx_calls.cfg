\* Two WLAN producers on three entries and a mailbox of two messages.
SPECIFICATION FairSpec
CONSTANTS
  w1 = w1
  w2 = w2
  Nil = Nil
  WlanTasks = {w1, w2}
  PoolSize = 3
  MaxBatch = 2
  NcmSize = 1
  MboxSize = 2
  MaxWlan = 4
  MaxNcm = 2
  MaxOther = 1
INVARIANTS TypeOK EntriesOwned PacketsKept
PROPERTY AcceptedDelivered
\* The traffic is bounded, so it ends.
CHECK_DEADLOCK FALSE
