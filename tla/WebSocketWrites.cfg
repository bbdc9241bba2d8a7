CONSTANTS
    FrameLayouts <- MCFrameLayouts
    MaxFrames = 3
    SocketBuffer = 6
    ReadSizes <- MCReadSizes
    ChunkSize = 6
    SmallLimit = 2
    MediumLimit = 4
SPECIFICATION FairSpec
INVARIANTS OneOperation AloneStaysWhole
PROPERTIES ImplementsChannel EveryFrameTaken
CHECK_DEADLOCK FALSE
