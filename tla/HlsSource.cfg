SPECIFICATION FairSpec
CONSTANTS
    QueueCap = 2
    HighMark = 2
    Rounds = 1
    Duration = 1
    MaxFrames = 2
    Window = 2
    KeepAfterEnd = FALSE
    Steps <- MCSteps
INVARIANTS MediaInOrder SegmentBoundary 
PROPERTIES SenderEnds
CHECK_DEADLOCK FALSE
