CONSTANTS
  Chs = {c1, c2, c3}
  Fds = {4, 5, 6}
SPECIFICATION Spec
INVARIANTS IndexIsRight
