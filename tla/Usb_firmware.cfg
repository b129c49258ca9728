CONSTANTS
  Size <- Two
  MaxPackets <- MostlyLoop
  NULL = NULL
  USB_MAX_PACKET0 = 64
  Descriptors <- TwoConfigurations
  Requests <- AllAndLong
SPECIFICATION UsbLiveSpec
INVARIANTS BlocksAccounted NumbersInSequence AnswersExact AcknowledgedDone ConfiguredTogether
PROPERTIES ImplementsEcho EchoReturns AcceptsAgain TransfersEnd
CHECK_DEADLOCK FALSE
