CONSTANTS
  MaxThreads = 2
  MaxPeers = 3
  MaxFds = 3
SPECIFICATION Spec
INVARIANTS UsedIsAlive
PROPERTIES NoEarlyDestruction ClosedEventually BacklogDrains DestructorReturns
CHECK_DEADLOCK FALSE
