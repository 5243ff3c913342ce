CONSTANTS
  j1 = j1
  j2 = j2
  Job <- TwoJobs
  Worlds <- FailingWorlds
SPECIFICATION FairSpec
PROPERTIES
  FailedStartStopsCore
