SPECIFICATION FairSpec
CONSTANTS
  N = 2
  ErrInit = 1
  SizeMax = 2
  PollingModes = {FALSE}
  Relatch = FALSE
  FrameEnds = {TRUE}
  Alignments = {TRUE}
  Resets = {TRUE}
  Faults = {}
  Depth = 1
  MaxPost <- OneEach
PROPERTIES
  UsableAfterReset
CHECK_DEADLOCK FALSE
