SPECIFICATION Spec
CONSTANTS
    Scenarios <- PlaySet
    CacheMax = 2
    CacheMin = 3
    SourceMax = 1
    DecoderMax = 2
    DecoderMin = 1
    BufferingCnt = 1
    MaxFragments = 3
    MaxUnderflows = 1
    MaxCalls = 2
PROPERTIES PauseKept PlaybackResumesWithoutUnderflow UnderflowEnds EosReported
CHECK_DEADLOCK FALSE
