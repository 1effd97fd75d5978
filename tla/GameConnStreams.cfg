SPECIFICATION Spec
CONSTANTS
    MaxFrames = 3
    MaxBody = 1
    HeaderLens = {4, 5}
    QueueCap = 1
INVARIANT StreamsAgree
