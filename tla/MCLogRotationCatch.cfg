CONSTANTS
  main = main
  encoder = encoder
  osd = osd
  NoThread = NoThread
  Main = main
  Threads <- OneThread
  MaxCallbacks = 2
  Signals = 2
SPECIFICATION FairSpec
PROPERTY CatchesNext
CHECK_DEADLOCK FALSE
