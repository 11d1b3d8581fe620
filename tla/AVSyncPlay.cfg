SPECIFICATION FairSpec
CONSTANTS
    Streams <- PlayedThrough
    Capacity = 3
    AbortAllFirst = FALSE
INVARIANTS NeverBothWaiting AudioLeadBounded
PROPERTIES FlushedAtDiscontinuity DiscontinuityEnds
CHECK_DEADLOCK FALSE
