CONSTANTS
  m = m
  g1 = g1
  g2 = g2
  i1 = i1
  i2 = i2
  i3 = i3
  s1 = s1
  s2 = s2
  s3 = s3
  Nil = Nil
  Main = m
  Caller <- Goroutines
  Instance <- ThreeInstances
  Server <- Servers
  EntryPoint <- Entries
  Requests <- Raw
  Serialised = FALSE
  OutsideBuilds = TRUE
  MayFail = {TRUE}
  ConfigResult <- Results
  Drawn <- DrawnOnes
SPECIFICATION RunSpec
INVARIANTS
  RunTypeOK
  BoxIsCurrent
  NoTunnelLeft
PROPERTIES
  Undisturbed
  OnlyBuildsPanic
CHECK_DEADLOCK FALSE
