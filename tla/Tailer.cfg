CONSTANTS
    MaxSegment = 2
    SegmentSize = 2
    MaxCheckpoint = 5
SPECIFICATION FairSpec
INVARIANTS
    SkipsOnlyByRace
PROPERTIES
    OffsetInStep
    DataIsRead
    CancelEnds
