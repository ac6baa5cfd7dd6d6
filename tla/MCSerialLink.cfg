SPECIFICATION MCSpec
CONSTANTS
  PcMax = 3
  MoteMax = 2
  HeardMax = 1
  MotePool = 2
  MaxFailed = 1
  MaxLost = 1
  Contents <- MCContents
  Texts <- MCTexts
  HeaderLen = 2
  MaxLen = 4
  MaxFrames = 3
  MaxAsked = 1
  MaxPrinted = 1
  MaxHits = 2
INVARIANTS
  StopAndWait
  AnswersMatch
  LossIsLocal
  FramesAreRead
PROPERTIES
  PcGoesOn
CHECK_DEADLOCK FALSE
