SPECIFICATION FairSpec
CONSTANTS
  Threads = {t1, t2}
  NoThread = NoThread
  Tries = 3
  CHANNEL_MAP <- TwoChannels
  Noise = {}
  PowerUp <- AllFields
  MaxTrouble = 2
  ChannelOf <- Boards
  CallsMade <- Calls
  MaxCalls = 2
INVARIANTS
  TypeOK
  ChannelSelected
  CallsEffective
  LeaksNeedTrouble
PROPERTIES
  GainOnly
  CallsReturn
CHECK_DEADLOCK FALSE
