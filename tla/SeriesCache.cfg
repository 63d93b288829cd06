CONSTANTS
    Refs = {r1, r2}
    Exported = {r1}
    NumRecords = 2
    MaxSegment = 3
SPECIFICATION FairSpec
INVARIANTS
    LiveSeriesKept
    UnreadSamplesKept
    PanicOnlyIfTruncated
PROPERTIES
    ObsoleteCollected
    ReaderProceeds
