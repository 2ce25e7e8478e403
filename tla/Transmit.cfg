SPECIFICATION FairSpec
CONSTANTS
  TxSize = 1536
  MinFrame = 60
  PingLens <- MCPingLens
  GetLens <- MCGetLens
  Lags <- MCLags
  MaxPackets = 3
INVARIANTS BufferOwned
PROPERTIES SendsInOrder SendCompletes TxErrorBlocks
\* No caller has to send another packet.
CHECK_DEADLOCK FALSE
