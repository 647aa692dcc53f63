SPECIFICATION StartupSpec
CONSTANTS
  MAX_FRAMESOURCES = 4
  MAX_ENCODERS = 10
  MAX_BINDINGS = 10
  NumSources = 2
  NumEncoders = 2
  NumBindings = 3
  Ids = {0, 1}
  Garbage = 9
  SourceLists <- MCSourceLists
  BindingLists <- MCBindingLists
  Faults <- AllFaults
  AudioSettings = {TRUE}
  TimestampSettings = {TRUE, FALSE}
  OsdFaults = {"osd"}
  MaxRounds = 2
INVARIANTS
  TypeOK
  BoundInOrder
  EnabledAsCreated
  TimestampDrawn
PROPERTIES
  LoadsAsVideocapture
CHECK_DEADLOCK FALSE
