SPECIFICATION Spec
CONSTANTS
  a = a
  b = b
  Sessions <- Pair
  Kinds <- PairKinds
  Leavers = {a}
  Foreign = FALSE
  RingCap = 3
  SockCap = 2
  MaxOps = 2
  MaxStarts = 1
  MaxEntries = 1
  MaxReboots = 1
INVARIANTS ResetDamage
PROPERTIES ImplementsRpcUntilReset
\* The guest need not call INT 13h again; whoever waits then waits.
CHECK_DEADLOCK FALSE
