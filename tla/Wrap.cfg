SPECIFICATION Spec
CONSTANTS
  SeqMod = 8
  MaxPackets = 1
  CipherBlocks = 1000
  RekeyBlocks = 0
  ImBlocks = 30
  BlockSize = 1
  InterMac = FALSE
  Compress = TRUE
  Gex = FALSE
  Privsep = TRUE
  Interval = FALSE
  MaxData = 8
  MaxManual = 0
INVARIANT NoNonceReuse
CHECK_DEADLOCK FALSE
