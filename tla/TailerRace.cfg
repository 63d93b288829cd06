CONSTANTS
    MaxSegment = 3
    SegmentSize = 2
    MaxCheckpoint = 3
SPECIFICATION Spec
INVARIANT
    LeavesOnlyDoneSegments
