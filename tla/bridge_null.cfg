CONSTANTS
  t = t
  i1 = i1
  i2 = i2
  s1 = s1
  s2 = s2
  Nil = Nil
  Null = Null
  Thread = t
  Caller <- Threads
  Instance <- Instances
  Server <- Servers
  EntryPoint <- Entries
  Requests <- StartRequests
  Serialised = TRUE
  OutsideBuilds = TRUE
  MayFail = {FALSE}
  VMs <- OneVM
  Hosts <- ExportsOnly
SPECIFICATION LibrarySpec
INVARIANTS
  PostsFindFunction
CHECK_DEADLOCK FALSE
