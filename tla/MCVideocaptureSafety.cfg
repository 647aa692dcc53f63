CONSTANTS
  NumEncoders = 1
  BufCap = 2
  Faults <- AllFaults
  AudioSettings = {TRUE, FALSE}
  TimestampSettings = {TRUE, FALSE}
SPECIFICATION Spec
INVARIANT TypeOK
INVARIANT JoinedBeforeTeardown
INVARIANT PromptStop
