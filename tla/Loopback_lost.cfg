CONSTANTS
  Size <- Two
  MaxPackets <- LoopOnly
  NULL = NULL
  USB_MAX_PACKET0 = 64
  Descriptors <- TwoConfigurations
  Requests = {}
SPECIFICATION BulkSpec
INVARIANT SameContents
CHECK_DEADLOCK FALSE
