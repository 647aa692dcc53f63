SPECIFICATION SnapshotSpec
CONSTANTS
  MaxFrames = 2
  Slots <- MCSlots
  Packs <- MCPacks
  Faults <- MCFaults
  Images = {p1, p2}
  ImageFaults <- MCImageFaults
INVARIANTS
  SnapshotTypeOK
  DeliveredWhole
  
PROPERTIES
  ImplementsFifo
  StepsAsVideocapture
  NothingStuck
  KeepsLastImage
  SnapshotCompletes
CHECK_DEADLOCK FALSE
