SPECIFICATION Spec
CONSTANTS
  c = c
  n1 = n1
  n2 = n2
  n3 = n3
  Nodes = {c, n1, n2, n3}
  Controller = c
  Links <- TreeLinks
  Parent <- TreeParent
  NextHop <- TreeNextHop
  MaxPath = 1
  NumberMod = 2
  MaxSeqnos = 2
  Ttl = 4
  Kinds = {"SETUP", "ACK", "MNGT", "MULT"}
  MaxSent <- TreeSent
  MaxAir = 2
  MaxRepeats = 1
  MaxRestarts <- TreeRestarts
INVARIANTS
  RouteIsFollowed
  AtMostOnce
  
CHECK_DEADLOCK FALSE
