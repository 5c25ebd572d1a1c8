SPECIFICATION CardFairSpec
CONSTANTS
  IPs = {"pcie", "intc", "switch", "switch2", "i2c", "dma", "dino", "other"}
  NoIp = "no IP"
  VlnvOf <- Vlnvs
  IrqOf <- Irqs
  I2cUsers = {"dino"}
  InitFirst <- Order
  I2cVlnv <- IicTag
  BridgeVlnv <- BridgeTag
  MemoryMapped <- MappedIps
  Factories <- Plugins
  Configs <- Both
  Dmas = {"dma"}
  SgDmas = {"dma"}
  UserBlocks <- TwoBlocks
  Programs = {"ctrl", "pipe", "api"}
  MaxPaths = 1
INVARIANTS
  CardTypeOK
  SinglesInOrder
  DependenciesMet
  NoStrayDma
  CleanTeardown

  
CHECK_DEADLOCK FALSE
