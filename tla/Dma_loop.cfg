CONSTANTS
  Size <- Two
  MaxPackets <- MostlyLoop
  NumBuf = 8
SPECIFICATION DmaLiveSpec
INVARIANTS ArmedHasBlock OverwrittenUnused
PROPERTIES EchoUnlessOvertaken AllReturned
CHECK_DEADLOCK FALSE
