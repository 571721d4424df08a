SPECIFICATION FairSpec
CONSTANTS
  SeqMod = 64
  MaxPackets = 32
  CipherBlocks = 30
  RekeyBlocks = 3
  ImBlocks = 30
  BlockSize = 1
  InterMac = FALSE
  Compress = TRUE
  Gex = TRUE
  Privsep = TRUE
  Interval = TRUE
  MaxData = 3
  MaxManual = 1
INVARIANT RekeySound
PROPERTIES
  ImplementsStream
  LimitHonoured
  TransportLive
CHECK_DEADLOCK FALSE
