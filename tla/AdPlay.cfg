SPECIFICATION Spec
CONSTANTS
  Streams <- MCStreams
  Align = 2
  MaxAdSegFail = 2
INVARIANTS
  ContentKept
  EventsPaired
  PlayingAdAlive
  FailureCostsNeighbour
PROPERTIES
  ReachesEnd
