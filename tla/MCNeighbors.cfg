SPECIFICATION MCSpec
CONSTANTS
  root = root
  n1 = n1
  n2 = n2
  Motes = {root, n1, n2}
  Sink = root
  NoNode = NoNode
  LinkUnit = 2
  RtmetricMax = 10
  BadLink = 6
  QueueSize = 2
  MinAvailable = 2
  MacTries = 1
  Rexmits = 2
  Hops = 3
  NumRecent = 2
  IdMod = 4
  MaxSent <- Sents
  MaxProbes <- Probed
  MaxAnnounced <- Announced
  MaxUsed = 4
  MaxFaults = 2
  Neighbors = {x1, x2, x3}
  TableSize = 2
  Delta = 1
  MetricMod = 8
  Estimates = {4, 9}
  MaxList = 3
  MaxPasses = 3
  Unit = 2
  MaxInterval = 6
  Missable = 3
  Bits = 2
  MacMod = 3
  CountMod = 256
  Near = 48
SYMMETRY Symmetry
INVARIANTS
  DeliveredOnce
  AckedWasTaken
  
  
  
PROPERTIES
  TableSettles
  NotRemovedEarly
CHECK_DEADLOCK FALSE
