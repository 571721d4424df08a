SPECIFICATION Spec
CONSTANTS
  Configs <- Usual
  ClientKeys = {"k1", "k2"}
  ClientHostKeys = {"h1"}
  MaxSessions = 2
  MaxChannels = 4
  MaxFd = 8
  MaxPids = 2
  MaxFailures = 1
  MaxEnv = 1
  Ptys = {0, 1}
  Displays = {10, 11}
  Families = {"v4", "v6"}
  BusyPorts = {}
  Systems <- MCSystems
  Terminals <- MCTerminals
  ModeStrings <- MCModeStrings
INVARIANTS AuthSound Agreement SessionsSound Confined ModesArrive
