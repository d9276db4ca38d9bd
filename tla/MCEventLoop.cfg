CONSTANTS
  t1 = t1
  t2 = t2
  Threads <- MCThreads
  Owner = owner
  MaxTasks = 4
  MaxEarly = 0
SPECIFICATION Spec
INVARIANTS TypeOK FifoExactlyOnce NoLostWakeup
PROPERTIES QuitStops ImplementsTaskQueue
