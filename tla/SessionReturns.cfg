SPECIFICATION FairSpec
CONSTANTS
  a = a
  b = b
  Sessions <- Pair
  Kinds <- WriteKinds
  Leavers = {a}
  Foreign = FALSE
  RingCap = 2
  SockCap = 1
  MaxOps = 2
  MaxStarts = 1
  MaxEntries = 1
  MaxReboots = 0
PROPERTIES MsgReturns
\* The guest need not call INT 13h again; whoever waits then waits.
CHECK_DEADLOCK FALSE
