SPECIFICATION Spec
CONSTANTS
  s1 = s1
  a1 = a1
  Servers = {s1, s2}
  Addrs = {a1, a2}
  None = None
  Polls = 2
  MaxChanges = 1
  MaxForeign = 1
  MaxReboots = 1
SYMMETRY MCSymmetry
INVARIANTS Granted
\* With its address the program leaves this part of start for good.
CHECK_DEADLOCK FALSE
