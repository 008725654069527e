SPECIFICATION ReadingSpec
CONSTANTS
    Streams <- MCStreams
    Sizes = {16, 32}
    MinimumSize = 32
    SmallFraction = 32
    Chunks = {3, 100}
    Pieces = {17}
    TargetSizes = {2, 64}
    Bounds <- MCBounds
    Limits = {1, 3, 20}
    Keys <- MCKeys
    UIntKeys = 128
    SignedChar = FALSE
INVARIANTS ReaderInv
PROPERTIES CallsKeepContract
\* No call follows a call on the wrong reader.
CHECK_DEADLOCK FALSE
