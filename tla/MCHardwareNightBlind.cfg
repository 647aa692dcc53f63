CONSTANTS
  Values <- TwoReadings
  Sizes <- SmallSize
  ThresholdOn = 40
  ThresholdOff = 45
SPECIFICATION Spec
PROPERTY BlindKeepsMode
