CONSTANTS
    Refs = {a, b}
    NumRecords = 4
    Margin = 1
    QueueBound = 2
    MaxRestarts = 2
SPECIFICATION FairSpec
INVARIANTS
    LossOnlyByOverrun
PROPERTIES
    ProgressForward
    EventuallyDone
