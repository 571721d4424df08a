SPECIFICATION MCSpec
CONSTANTS
  Names <- MCNames
  Locals <- MCLocals
  Commands <- MCCommands
  ReadMax = 2
  Refused = {}
  Reorder = TRUE
  ShortReads = TRUE
  MaxFaults = 2
  MaxCommands = 2
  BufLen = 2
  MinReadSize = 1
  NumRequests = 2
  Argv <- MCArgv
  PFlag = TRUE
  MaxFailures = 2
  Entries <- MCEntries
  Folders <- MCFolders
  Pwd <- MCPwd
  MaxArgs = 4
  Lines <- MCLines
INVARIANTS SftpSound TransfersWhole ScpSound CommandsMeant
PROPERTY FilesEnd
CHECK_DEADLOCK FALSE
