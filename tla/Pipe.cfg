SPECIFICATION PipeFairSpec
CONSTANTS
  N = 2
  ErrInit = 1
  SizeMax = 2
  PollingModes = {TRUE, FALSE}
  Relatch = FALSE
  FrameEnds = {TRUE, FALSE}
  Alignments = {TRUE}
  Resets = {}
  Faults = {"open", "marked"}
  Depth = 3
  MaxPost <- ThreeEach
  Programs = {"memcpy", "pipe"}
  Lengths = {1, 2}
INVARIANTS
  NothingStranded
  CopyHonest
PROPERTIES
  CompletionReturns
  ImplementsPipeStream
CHECK_DEADLOCK FALSE
