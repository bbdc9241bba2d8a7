CONSTANTS
    BufferSize = 3
    MaxBytes = 9
SPECIFICATION FairSpec
INVARIANTS ParsedInOrder NeverStale ReadsBalanced
PROPERTIES EveryByteParsed
CHECK_DEADLOCK FALSE
