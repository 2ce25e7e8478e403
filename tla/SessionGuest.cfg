SPECIFICATION Spec
CONSTANTS
  a = a
  b = b
  Sessions <- Single
  Kinds <- SingleKinds
  Leavers <- Single
  Foreign = TRUE
  RingCap = 4
  SockCap = 3
  MaxOps = 4
  MaxStarts = 2
  MaxEntries = 2
  MaxReboots = 0
INVARIANTS NoSilentHang
PROPERTIES ImplementsRpc ReplyIsMine NoSpuriousWakeup
\* The guest need not call INT 13h again; whoever waits then waits.
CHECK_DEADLOCK FALSE
