CONSTANTS
    FrameLayouts <- MCFrameLayouts
    MaxFrames = 3
    SocketBuffer = 6
    ReadSizes <- MCReadSizes
    ChunkSize = 6
    SmallLimit = 2
    MediumLimit = 4
SPECIFICATION Spec
INVARIANTS FramesDecode
CHECK_DEADLOCK FALSE
