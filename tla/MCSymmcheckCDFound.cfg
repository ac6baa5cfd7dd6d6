SPECIFICATION FairSpec
CONSTANTS
  ctl = ctl
  n1 = n1
  n2 = n2
  Nodes = {ctl, n1, n2}
  Controller = ctl
  Links <- Line
  MaxMetric = 3
  MaxTransit = 1
  MaxRestarts = 0
PROPERTIES
  AllFound
CHECK_DEADLOCK FALSE
