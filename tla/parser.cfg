CONSTANTS
  c1 = c1
  d1 = d1
  d2 = d2
  d3 = d3
  None = None
  Client <- OneClient
  Documents <- AllDocuments
  Places <- ThreePlaces
  Device <- ThreeDevices
SYMMETRY Interchangeable
SPECIFICATION Spec
INVARIANTS PatchedByTag DevicesAreHeld
CHECK_DEADLOCK FALSE
