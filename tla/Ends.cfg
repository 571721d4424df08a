SPECIFICATION FairSpec
CONSTANTS
  NSlots = 1
  MaxOpen = 1
  WindowMax = 2
  MaxPacket = 2
  MaxRead <- OneWindow
  MaxErr = 0
  MaxAlive = 0
  AliveCountMax = 1
  Complaint = 1
  WritesFail = TRUE
  ReadsEnd = TRUE
  Kinds <- EndKinds
INVARIANT WindowsAgree
PROPERTY ChannelsEnd
CHECK_DEADLOCK FALSE
