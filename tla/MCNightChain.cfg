CONSTANTS
  Readings <- SomeReadings
  JitterPercent = 3
  SecWait = 2
  Eq1Exposure = 120
  Eq2Exposure = 93
  Eq2Iridix = 19
  Eq2Count = 2
  Eq3Wb = 30
  Eq3Iridix = 17
  Eq3Count = 1
SPECIFICATION ChainSpec
INVARIANT FileAsDecided
INVARIANT PictureAsDecided
PROPERTY SwitchesApart
PROPERTY DayNeedsRun
PROPERTY FollowsLight
PROPERTY PictureFollowsLight
