CONSTANTS
  j1 = j1
  j2 = j2
  Job <- TwoJobs
  Worlds <- AllWorlds
SPECIFICATION FairSpec
INVARIANTS
  TypeOK
  QuietAgrees
  NoOrphan
PROPERTIES
  KeepsPromise
  StoppedGoesDown
  StartsEnd
