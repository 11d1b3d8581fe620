SPECIFICATION FairSpec
CONSTANTS
  Streams <- MCStreams
INVARIANTS
  PeriodIntact
PROPERTIES
  AudioReleased
  StopEnds
CHECK_DEADLOCK FALSE
