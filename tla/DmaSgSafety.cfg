SPECIFICATION Spec
CONSTANTS
  N = 2
  ErrInit = 1
  SizeMax = 2
  PollingModes = {TRUE, FALSE}
  Relatch = FALSE
  FrameEnds = {TRUE, FALSE}
  Alignments = {TRUE, FALSE}
  Resets = {TRUE, FALSE}
  Faults = {}
  Depth = 3
  MaxPost <- TwoAndThree
INVARIANTS
  TypeOK
  RingsOrdered
  IocExpected
  NoWedge
  LockReleased
CHECK_DEADLOCK FALSE
