CONSTANTS
    MaxTimeseriesesPerRequest = 2
    MaxBatch = 5
    MaxBatches = 2
    MaxRetries = 1
SPECIFICATION FairSpec
INVARIANTS
    RequestsPartition
    ErrorsNeverBlock
    SucceededIsStored
    QuietBetweenStores
PROPERTY
    SendReturns
