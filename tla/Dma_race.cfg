CONSTANTS
  Size <- Two
  MaxPackets <- LoopOnly
  NumBuf = 8
SPECIFICATION DmaSpec
PROPERTY NextReturned
CHECK_DEADLOCK FALSE
