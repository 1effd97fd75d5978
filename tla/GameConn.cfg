SPECIFICATION LiveSpec
CONSTANTS
    MaxFrames = 3
    MaxBody = 1
    HeaderLens = {4, 5}
    QueueCap = 1
INVARIANTS TypeOK ExactlyOnce NoiseOnlyAfterSplit
PROPERTIES ImplementsStream DropEndsRun CancelEndsRun ReaderEnds
