CONSTANTS
  c1 = c1
  l1 = l1
  g1 = g1
  b1 = b1
  b2 = b2
  d1 = d1
  d2 = d2
  None = None
  Stream <- AllStreams
  kind <- Kinds
  BoxService <- Boxes
  CommandServer <- Servers
SPECIFICATION ClientsSpec
INVARIANT MobileServes
PROPERTY ListenersReturn
CHECK_DEADLOCK FALSE
