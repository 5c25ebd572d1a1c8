SPECIFICATION Spec
CONSTANTS
  Threads = {t1}
  NoThread = NoThread
  Tries = 3
  CHANNEL_MAP <- TwoChannels
  Noise <- OtherByte
  PowerUp <- AllFields
  MaxTrouble = 1
  ChannelOf <- Boards
  CallsMade <- Calls
  MaxCalls = 2
PROPERTIES
  ReadbackChecked
CHECK_DEADLOCK FALSE
