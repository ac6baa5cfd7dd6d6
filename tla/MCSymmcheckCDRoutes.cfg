SPECIFICATION Spec
CONSTANTS
  ctl = ctl
  n1 = n1
  n2 = n2
  Nodes = {ctl, n1, n2}
  Controller = ctl
  Links <- Triangle
  MaxMetric = 3
  MaxTransit = 1
  MaxRestarts = 1
INVARIANTS
  TreeUntilRestart
  SymmetricNextHop
CHECK_DEADLOCK FALSE
