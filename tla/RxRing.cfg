SPECIFICATION FairSpec
CONSTANTS
  PageSize = 256
  HdrSize = 4
  CrcSize = 4
  MinCount = 64
  MaxCount = 1522
  RxStart = 70
  RxStop = 78
  Counts <- MCCounts
  Commands <- MCCommands
  Paddings <- MCPaddings
  Flips = {FALSE}
  MaxFrames = 4
INVARIANTS RingInv BytesIntact PasteComplete
PROPERTIES DeliversInOrder DeliversAll OverrunRecovers RejectedFrameBlocksRing
