SPECIFICATION MCFairSpec
CONSTANTS
  Ports = 1
  MaxWait = 2
  TxPages = 1
  BufPages = 3
  MaxBoots = 2
  MaxCalls = 2
  MaxByHand = 2
  MaxInts = 2
  MaxDepth = 3
INVARIANTS BootTypeOK Ready HaltsForAReason ChainEndsAtBios ServedWhenHooked
PROPERTIES SetUpEnds BootGoesOn Int13Returns AnswersAreNew
\* The machine may halt, and the guest need not call anything.
CHECK_DEADLOCK FALSE
