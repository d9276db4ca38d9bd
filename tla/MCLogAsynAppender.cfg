CONSTANTS
  Cap = 2
  Limit = 4
  MaxAppends = 11
  MaxStarts = 2
SPECIFICATION Spec
INVARIANTS TypeOK InOrderOnce EnoughBuffers
PROPERTIES EventuallyWritten StopEnds
