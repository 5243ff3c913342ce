CONSTANTS
  c1 = c1
  c2 = c2
  i1 = i1
  i2 = i2
  i3 = i3
  s1 = s1
  s2 = s2
  s3 = s3
  Nil = Nil
  Caller <- TwoCallers
  Instance <- ThreeInstances
  Server <- ThreeServers
  EntryPoint <- RacingEntries
  Requests <- RawWithServer
  Serialised = FALSE
  OutsideBuilds = FALSE
  MayFail = {TRUE}
SPECIFICATION Spec
SYMMETRY SlotSymmetry
INVARIANTS
  NoStrandedStarting
  NoStrandedStopping
  BoxRuns
CHECK_DEADLOCK FALSE
