SPECIFICATION CtrlFairSpec
CONSTANTS
  N = 2
  ErrInit = 1
  SizeMax = 2
  PollingModes = {TRUE, FALSE}
  Relatch = FALSE
  FrameEnds = {TRUE}
  Alignments = {TRUE}
  Resets = {}
  Faults = {}
  Depth = 3
  MaxPost <- TwoAndThree
  MaxLines = 2
  bufSamples = 1
  Behind = {{}, {1}}
  Wides = {{1}}
INVARIANTS
  BuffersQuiet
  ThrowsAfterTimeouts
  OnlyWideHeld
PROPERTIES
  ImplementsRxStream
  ImplementsTxStream
  PrintedOnceNextArrives
CHECK_DEADLOCK FALSE
