CONSTANTS
  Fds = {4, 5}
  Threads = {t1}
  RetryCounts <- MCRetryCounts
  Timeouts = {TRUE, FALSE}
  MaxCalls = 3
SPECIFICATION Spec
INVARIANTS NoSocketLeak WatchedIsCurrent ConnectionHeld StoppedStaysStopped
PROPERTIES ConnectIsAnswered
