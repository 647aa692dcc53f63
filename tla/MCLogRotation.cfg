CONSTANTS
  main = main
  encoder = encoder
  osd = osd
  NoThread = NoThread
  Main = main
  Threads <- ThreeThreads
  MaxCallbacks = 2
  Signals = 4
SPECIFICATION Spec
SYMMETRY Symmetric
INVARIANT TypeOK
INVARIANT OneAtATime
INVARIANT NoWriteToClosed
INVARIANT WrittenOnce
INVARIANT NothingLeft
CHECK_DEADLOCK FALSE
