SPECIFICATION Spec
CONSTANTS
  FreePorts = {40000}
  Families = {"v4", "v6"}
  GatewayPorts = 0
  AllowRemote = TRUE
  AllowLocal = TRUE
  PermitOpen = {"web"}
  ExitOnFailure = FALSE
  MaxAddrs = 2
  MaxConns = 2
  MaxAlive = 1
  MaxRequests = 5
  SocksRequests <- MCSocks
  MuxClients = {"m1", "m2"}
  AskMaster = TRUE
  TtyMayFail = TRUE
  CmdlineForwards <- MCCmdline
  Scenarios = {"sessions", "tty", "forwards", "shared", "listen", "remote", "cmdline", "again"}
INVARIANTS ForwardsRight MuxSound
PROPERTY SharingProgress
