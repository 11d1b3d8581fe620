SPECIFICATION Spec
CONSTANTS
  Streams <- TypicalStreams
  LastFragment = 5
  TopProfile = 2
  MaxSegFail = 2
  MaxRetry = 0
  MaxFaults = 2
PROPERTIES NextFragmentOnly InitMatches PeriodsMarked PlayedToTheEnd
CHECK_DEADLOCK FALSE
