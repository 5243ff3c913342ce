CONSTANTS
  c1 = c1
  c2 = c2
  Caller <- OneCaller
  Jobs <- WarpJobs
  Together <- WarpJobs
SPECIFICATION Spec
INVARIANTS
  OverEntersWarp
