SPECIFICATION FairSpec
CONSTANTS
    maxCachedFragmentsPerTrack = 2
    NumFragments = 3
    Discontinuities <- NoDiscontinuities
    EmptyBodies <- NoEmptyBodies
    Lives <- VodOnly
    NormalRate = TRUE
    segInjectFailLimit = 2
    preplaybuffercount = 1
    MaxRestarts = 1
    SpuriousWakeups <- NoSpuriousWakeups

PROPERTY StopCompletes
CHECK_DEADLOCK FALSE
