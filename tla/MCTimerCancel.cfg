CONSTANTS
  Timers = {t1, t2}
  Delays = {0}
  Intervals = {0, 1}
  Late = 2
  MaxJump = 1
  MaxJumps = 0
SPECIFICATION Spec
INVARIANTS CancelledIsGone
