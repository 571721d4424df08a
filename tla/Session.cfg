SPECIFICATION Spec
CONSTANTS
  NSlots = 1
  MaxOpen = 1
  WindowMax = 2
  MaxPacket = 2
  MaxRead <- OneByte
  MaxErr = 1
  MaxAlive = 1
  AliveCountMax = 1
  Complaint = 1
  WritesFail = TRUE
  ReadsEnd = TRUE
  Kinds <- MuxKind
INVARIANTS
  SessionComplete
  SentFlagsMatchState
CHECK_DEADLOCK FALSE
