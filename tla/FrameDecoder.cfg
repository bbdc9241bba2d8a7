CONSTANTS
    PayloadSizes <- MCPayloadSizes
    StrayHeaders <- MCStrayHeaders
    Reservable = 20
    MaxFrames <- MCMaxFrames
    ReceptionBufferSize = 16
    SmallLimit = 6
    MediumLimit = 9
SPECIFICATION FairSpec
INVARIANTS TypeOK BuffersInBounds SpansHalfReceived
PROPERTIES ImplementsChannel EveryFrameDelivered
CHECK_DEADLOCK FALSE
