CONSTANTS
    Hashes = {0, 1}
    NumSamples = 2
    Capacity = 1
    MaxSamplesPerSend = 2
    MaxShards = 2
SPECIFICATION SidecarSpec
INVARIANT NoAppendAfterClose
CHECK_DEADLOCK FALSE
