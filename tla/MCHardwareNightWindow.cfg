CONSTANTS
  Values <- Readings
  Sizes <- AnySize
  ThresholdOn = 40
  ThresholdOff = 45
SPECIFICATION FairSpec
INVARIANT TypeOK
INVARIANT Settled
PROPERTY NoFlapping
PROPERTY FollowsLight
