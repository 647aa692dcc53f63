CONSTANTS
  NumEncoders = 1
  BufCap = 1
  Faults <- NoFaults
  AudioSettings <- On
  TimestampSettings <- On
SPECIFICATION Spec
INVARIANT AllThreadsCompleted
