CONSTANTS
    PayloadSizes <- MCPayloadSizes
    StrayHeaders <- MCStrayHeaders
    Reservable = 20
    MaxFrames <- MCOneFrame
    ReceptionBufferSize = 16
    SmallLimit = 6
    MediumLimit = 9
SPECIFICATION Spec
INVARIANTS TrueMeansComplete
CHECK_DEADLOCK FALSE
