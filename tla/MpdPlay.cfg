SPECIFICATION Spec
CONSTANTS
  Streams <- MCStreams
  RingSize = 2
  MaxSegFail = 4
  ResetDiff = 50
  TopProfile = 2
  MaxTime = 1000
INVARIANTS InOrder NothingLeftOut InitFirst CulledBounded
PROPERTY ReachesEnd
