CONSTANTS
  NumEncoders = 2
  BufCap = 1
  Faults <- NeighbourFaults
  AudioSettings <- On
  TimestampSettings <- On
SPECIFICATION FairSpec
INVARIANT ReceiverStopped
INVARIANT CleanTeardown
 
 
