SPECIFICATION Spec
CONSTANTS
  ClientProposals <- MCClientProposals
  ServerProposals <- MCServerProposals
  ClientRanges <- MCClientRanges
  ModuliFiles <- MCModuliFiles
  TrustedHostKeys = {"ED25519", "RSA"}
  MaxExchanges = 2
  SSHBUF_SIZE_MAX = 12
  SSHBUF_SIZE_INIT = 4
  SSHBUF_SIZE_INC = 4
  SSHBUF_PACK_MIN = 2
  Buffers = {1, 2, 3}
  MaxSizes = {3, 6}
  MaxBufferOps = 5
  OfferedKeys <- MCOfferedKeys
  MaxSerial = 1000
  MAX_BIGNUM = 2048
  MaxKrlWrites = 2
  KeyNames = {"id", "host"}
  HostKeyNames <- MCHostKeyNames
  Passphrases = {"", "abc", "secret"}
  ShortPhrases = {"abc"}
  B64Lengths = {140}
  MaxKeys = 2
  MaxCommands = 3
  MaxFaults = 1
  UserName <- MCUserName
  RemoteHost <- MCRemoteHost
  RemoteAddr <- MCRemoteAddr
  UserKeys <- MCUserKeys
  KeyConfigs <- MCKeyConfigs
  MaxQuestions = 3
  ConfigFiles <- MCConfigFiles
  CommandLines <- MCCommandLines
  HostArg = "h"
  Canonical <- MCCanonical
  LocalUser = "me"
  READCONF_MAX_DEPTH = 2
  ServerFiles <- MCServerFiles
  ServerCommandLines <- MCServerCommandLines
  Connections <- MCConnections
  HostFiles <- MCHostFiles
  HostOptions <- MCHostOptions
  Peers <- MCPeers
  ConnectionAttempts = 1
  MaxRekeys = 1
  MaxUpdates = 2
  SieveStarts <- MCStarts
  largebits = 24
  TINY_NUMBER = 8
  SMALL_MAXIMUM = 40
  QSIZE_MINIMUM = 5
  OtherLines <- MCOtherModuli
  Screens <- MCScreens
  MaxInterrupts = 2
  PioModes = {"none", "cbc", "ctr", "etm", "aead", "im", "mux"}
  PioPackets <- MCPioPackets
  LenField = 1
  Block = 2
  MinPad = 1
  MacLen = 1
  Chunk = 2
  PACKET_MAX_SIZE = 8
  MaxPiece = 4
  MaxChanges = 1
  ScanHosts <- MCScanHosts
  KeyTypes <- MCScanTypes
  MaxFd = 3
  KeepFree = 1
  ScanTimeout = 1
  MaxScanTime = 2
INVARIANTS RevocationExact KeyFilesSound KexAgrees BuffersAreQueues ConfigurationRight ModuliRight PacketsSound
PROPERTIES HostKeysSound AccessSound
CHECK_DEADLOCK FALSE
