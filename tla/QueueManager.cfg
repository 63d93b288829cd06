CONSTANTS
    Hashes = {0, 1, 2}
    NumSamples = 3
    Capacity = 2
    MaxSamplesPerSend = 2
    MaxShards = 2
SPECIFICATION FairSpec
INVARIANTS
    BatchesWellFormed
    NothingLost
    NothingTwice
    StopFlushes
    QueueLengthExact
PROPERTIES
    DeliveredInOrder
    ImplementsInOrderDelivery
    EventuallyResolved
    StopReturns
