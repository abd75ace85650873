SPECIFICATION FairSpec
CONSTANTS
  Ctxs = {x1, x2}
  Tasks = {k1, k2}
  Bare = {k1}
  Threads = {h1, h2}
  MaxAwaits = 2
  None = None
INVARIANTS NoRace NoOrphanLock
PROPERTY StuckOnlyBySpinning
CHECK_DEADLOCK FALSE
