SPECIFICATION Spec
CONSTANTS
  ctrl = ctrl
  f1 = f1
  self = self
  n1 = n1
  MaxTxWindow = 2
  PoolSize = 4
  SendMax = 2
  RecvMax = 1
  KeepMax = 1
  TableSize = 3
  Flows <- MCFlows
  Addrs <- MCAddrs
  CtrlFlow = ctrl
  Self = self
  AppFlows = {}
  Inputs <- ReportInputs
  HasCd = TRUE
  MaxReports = 3
  MaxOnAir = 1
PROPERTIES
  AckedAsSent
