CONSTANTS
  MaxThreads = 2
  MaxPeers = 3
  MaxFds = 3
SPECIFICATION Spec

PROPERTIES DestroyedDisconnected
CHECK_DEADLOCK FALSE
