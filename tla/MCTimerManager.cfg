CONSTANTS
  Timers = {t1, t2, t3}
  Delays = {0, 1}
  Intervals = {0, 1}
  Late = 2
  MaxJump = 1
  MaxJumps = 1
SPECIFICATION Spec
INVARIANTS TypeOK Armed RunsWhenDue
PROPERTIES TimersRun
