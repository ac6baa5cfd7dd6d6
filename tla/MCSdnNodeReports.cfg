SPECIFICATION FairSpec
CONSTANTS
  ctrl = ctrl
  f1 = f1
  self = self
  n1 = n1
  MaxTxWindow = 2
  PoolSize = 4
  SendMax = 2
  RecvMax = 1
  KeepMax = 1
  TableSize = 2
  Flows <- MCFlows
  Addrs <- MCAddrs
  CtrlFlow = ctrl
  Self = self
  AppFlows = {}
  Inputs <- AddressInputs
  HasCd = TRUE
  MaxReports = 2
  MaxOnAir = 1
INVARIANTS
  OneReport
  HeadIsHandedOver
PROPERTIES
  QueuesDrain
