SPECIFICATION AppSpec
CONSTANTS
  ByteMod = 3
  Self = 1
  Peers = {2}
  Configs <- MCConfigs
  Names = {1, 2, 3, 4}
  PeerNames = {1, 4}
  MyName = 2
  Stoppers = {s1, s2}
  MaxSent = 2
  MaxFails = 1
CHECK_DEADLOCK FALSE
INVARIANTS NothingLeftRunning CrashOnlyAtEdges DispatchFate
PROPERTY StopEndsStart
