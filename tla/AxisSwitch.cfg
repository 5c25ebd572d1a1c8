SPECIFICATION Spec
CONSTANTS
  Channels = {ch0, ch1}
  PortNumbers = {ch0, ch1, ch2}
  Wired = {ch0, ch1, "dma"}
  Disabled = Disabled
INVARIANTS
  TypeOK
  ShadowExact
  RequestServed
PROPERTIES
  OthersUndisturbed
  ImplementsCrossbar
