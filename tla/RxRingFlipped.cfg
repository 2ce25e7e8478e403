SPECIFICATION Spec
CONSTANTS
  PageSize = 256
  HdrSize = 4
  CrcSize = 4
  MinCount = 64
  MaxCount = 1522
  RxStart = 70
  RxStop = 78
  Counts <- MCFlippedCounts
  Commands <- MCFlippedCommands
  Paddings <- MCFlippedPaddings
  Flips = {TRUE}
  MaxFrames = 4
INVARIANTS FlippedComplete
