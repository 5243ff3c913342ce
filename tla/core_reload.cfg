CONSTANTS
  c1 = c1
  c2 = c2
  i1 = i1
  i2 = i2
  i3 = i3
  s1 = s1
  s2 = s2
  s3 = s3
  Nil = Nil
  Caller <- OneCaller
  Instance <- TwoInstances
  Server <- TwoServers
  EntryPoint <- ReloadEntries
  Requests <- Request
  Serialised = TRUE
  OutsideBuilds = FALSE
  MayFail = {FALSE}
SPECIFICATION FairSpec
PROPERTIES
  ReloadKeepsService
CHECK_DEADLOCK FALSE
