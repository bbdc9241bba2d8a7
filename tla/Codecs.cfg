CONSTANTS
    Layouts <- MCLayouts
    MaxCalls = 4
    BufferSize = 20
    Contents <- MCContents
    PageCalls <- MCPageCalls
    SmallString = 4
    FileSizes = {0, 1, 2, 3, 4, 5, 6, 7, 8, 9, 13}
    BlockSizes = {2, 3, 4}
    BytesPerInt = 2
    Bytes = {0, 37, 43, 50, 66, 97, 127, 255}
    MaxText = 5
    DigestSizes = {0, 1, 54, 55, 56, 63, 64, 119, 120, 128}
SPECIFICATION MCSpec
INVARIANTS ParametersStayPut HeaderTellsCall DecodesBack ContentIsFile UriRoundTrip Base64Right PaddingRight
CHECK_DEADLOCK FALSE
