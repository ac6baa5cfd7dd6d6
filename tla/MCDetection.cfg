SPECIFICATION MCSpec
CONSTANTS
  n1 = n1
  s1 = s1
  s2 = s2
  sink = sink
  mote = mote
  NoAddr = NoAddr
  Nodes = {n1}
  Senders = {s1, s2}
  MWin = 3
  DWin = 1
  SusBuff = 3
  AlarmWidth = 256
  Degrees = {0, 3}
  MaxSamples = 7
  MaxRestarts = 2
  EnabledNodes = {n1}
  Sinks = {sink}
  Mote = mote
  SSkip = 1
  CentralMWin = 2
  MaxCounted = 1
  MaxReports = 2
  MaxCentral = 3
SYMMETRY Symmetry
INVARIANTS
  WindowsMatch
  BlockedByMany
  CountsAddUp
PROPERTIES
  NamesTheMostFrequent
CHECK_DEADLOCK FALSE
