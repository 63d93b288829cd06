CONSTANTS
    Hashes = {0, 1}
    NumSamples = 2
    Capacity = 1
    MaxSamplesPerSend = 2
    MaxShards = 2
SPECIFICATION SidecarFairSpec
INVARIANTS
    ShutdownFlushes
    AtMostOneLateAppend
PROPERTY ShutdownEnds
CHECK_DEADLOCK FALSE
