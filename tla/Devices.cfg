SPECIFICATION DevicesSpec
CONSTANTS
  Designs <- Cards
  Timers <- TwoTimers
  Irqs <- Interrupts
  Vacancy = 3
  FrameLengths = {1, 2}
  BufferLengths = {1, 2}
  MaxStarts = 2
  MaxFrames = 2
  SimpleUsers = {"threads", "memcpy"}
  SimplePolling = {TRUE, FALSE}
  MaxTransfers = 3
  WaitFor = {"doorbell", "finished"}
  MaxRtdsFrames = 3
  MaxLives = 2
  FlashBlocks = 3
  BlockSize = 2
  Images <- Bitstreams
  Locking = {TRUE, FALSE}
  MaxFlashes = 2
  registerNum = 4
  MaxUses = 2
  Configurations <- ConfigFiles
  FpgaName = "asked"
  ConnectLists <- StringLists
  NodeFactories <- StreamPlugins
  MaxPortNum = 7
  Channels <- ChannelNames
  PipeChannels <- PipeNames
INVARIANTS
  FlashHonest
  RegistersHonest
  RoutesAsWired
  InterruptWaits
  TimerHonest
  FifoHonest
  SimpleHonest
  KernelsHonest
CHECK_DEADLOCK FALSE
