SPECIFICATION Spec
CONSTANTS
    Scenarios <- PlaySet
    MaxCalls = 3
    MaxDiscs = 2
    MaxUnderflows = 1
INVARIANT DiscontinuityIdLive
PROPERTIES TeardownAwaitsDiscontinuity StopAwaitsRetune CallsReturn
CHECK_DEADLOCK FALSE
