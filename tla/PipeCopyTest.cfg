SPECIFICATION PipeFairSpec
CONSTANTS
  N = 2
  ErrInit = 1
  SizeMax = 2
  PollingModes = {TRUE}
  Relatch = FALSE
  FrameEnds = {TRUE, FALSE}
  Alignments = {TRUE}
  Resets = {}
  Faults = {}
  Depth = 3
  MaxPost <- ThreeEach
  Programs = {"memcpy"}
  Lengths = {2}
PROPERTIES
  CopySucceeds
CHECK_DEADLOCK FALSE
