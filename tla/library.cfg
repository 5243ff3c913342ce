CONSTANTS
  t = t
  i1 = i1
  i2 = i2
  s1 = s1
  s2 = s2
  Nil = Nil
  Null = Null
  Thread = t
  Caller <- Threads
  Instance <- Instances
  Server <- Servers
  EntryPoint <- Entries
  Requests <- StartRequests
  Serialised = TRUE
  OutsideBuilds = TRUE
  MayFail = {TRUE}
  VMs <- DartVMs
  Hosts <- AllHosts
SPECIFICATION LibrarySpec
SYMMETRY Slots
INVARIANTS
  LibraryTypeOK
  NoNullCall
  SuccessIsTrue
  ClientFollowsServer
CHECK_DEADLOCK FALSE
