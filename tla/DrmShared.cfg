SPECIFICATION FairSpec
CONSTANTS
    video = video
    audio = audio
    k1 = k1
    k2 = k2
    k3 = k3
    NoKey = NoKey
    NoTrack = NoTrack
    Tracks <- TwoTracks
    Keys <- ThreeKeys
    KeysOf <- KeyRotation
    dash_MaxDRMSessions = 2
    MaxTunes = 2
    MaxRequests = 3
INVARIANTS OneSlotPerKey InUseEvictedLast FailedKeyNotRetried
PROPERTIES NothingAfterStop StopCompletes
CHECK_DEADLOCK FALSE
