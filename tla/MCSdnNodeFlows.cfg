SPECIFICATION Spec
CONSTANTS
  ctrl = ctrl
  f1 = f1
  self = self
  n1 = n1
  MaxTxWindow = 2
  PoolSize = 3
  SendMax = 2
  RecvMax = 1
  KeepMax = 1
  TableSize = 3
  Flows <- MCFlows
  Addrs <- MCAddrs
  CtrlFlow = ctrl
  Self = self
  AppFlows = {f1}
  Inputs <- FlowInputs
  HasCd = FALSE
  MaxReports = 0
  MaxOnAir = 0
INVARIANTS
  BufferConservation
  WakeUps
  KeptHaveNoRoute
  SteadyHasRoute
PROPERTIES
  ImplementsWindow
