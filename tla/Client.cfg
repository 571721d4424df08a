SPECIFICATION MCSpec
CONSTANTS
  Clients = {ssh, add}
  ssh = ssh
  Requests <- Few
  Tables <- Loaded
  CardKeys <- Card
  lifetime = 0
  MaxTime = 2
  MaxRequests = 1
  Options <- Usual
  AuthLists <- Lists
  MaxReplies = 3
  Slaves = {1}
  Libraries = {"l1", "l2"}
  Pins = {"no pin", "", "good", "bad"}
  GoodPin = "good"
  MaxCardCalls = 3
  MaxSwaps = 1
  LoopConfs <- MCLoopConfs
  OneTypist = TRUE
  AliveCountMax = 1
  MaxClock = 3
  MaxAsides = 2
INVARIANTS
  KeysTried
  LoopSound
  CardKeysSound
PROPERTIES
  AgentSound
  ClientEnds
CHECK_DEADLOCK FALSE
