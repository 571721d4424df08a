SPECIFICATION Spec
CONSTANTS
  NSlots = 2
  MaxOpen = 2
  WindowMax = 2
  MaxPacket = 2
  MaxRead <- NoReads
  MaxErr = 0
  MaxAlive = 0
  AliveCountMax = 1
  Complaint = 1
  WritesFail = TRUE
  ReadsEnd = TRUE
  Kinds <- AllKinds
INVARIANT ProtocolKept
CHECK_DEADLOCK FALSE
