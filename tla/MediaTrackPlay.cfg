SPECIFICATION FairSpec
CONSTANTS
    maxCachedFragmentsPerTrack = 2
    NumFragments = 3
    Discontinuities <- MCDiscontinuities
    EmptyBodies <- LastBodyEmpty
    Lives <- LiveAndVod
    NormalRate = TRUE
    segInjectFailLimit = 2
    preplaybuffercount = 1
    MaxRestarts = 1
    SpuriousWakeups <- StateCondOnly
INVARIANTS RingOK FetchSlotFree NothingLost
PROPERTIES EosAfterLastFragment ImplementsFifo StopsEnd
CHECK_DEADLOCK FALSE
