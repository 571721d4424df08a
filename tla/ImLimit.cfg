SPECIFICATION Spec
CONSTANTS
  SeqMod = 64
  MaxPackets = 32
  CipherBlocks = 30
  RekeyBlocks = 2
  ImBlocks = 30
  BlockSize = 1
  InterMac = TRUE
  Compress = TRUE
  Gex = FALSE
  Privsep = FALSE
  Interval = FALSE
  MaxData = 3
  MaxManual = 0
PROPERTIES
  LimitHonoured
CHECK_DEADLOCK FALSE
