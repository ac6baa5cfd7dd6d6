SPECIFICATION MCSpec
CONSTANTS
  MaxTxWindow = 3
  Keys = {ctrl, f1}
  CtrlFlow = ctrl
  Seqs = {q1, q2, q3}
  Vers = {1}
  Flows = {f1}
  Settings = {s1, s2, s3}
  RetxTime = 2
  TableSize = 1
  MaxChanges = 3
  MaxTransit = 2
  MaxRestarts = 1
INVARIANTS
  OfflineArmed
  OnlineIsInstalled
PROPERTIES
  ImplementsPendingRequests
  
  Converges
  
SYMMETRY SeqSymmetry
CHECK_DEADLOCK FALSE
