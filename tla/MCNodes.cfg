SPECIFICATION NodesSpec
CONSTANTS
    Messages <- MCMessages
    PoolSizes = {0, 5, 12}
    NodeLimits = {4, 20}
    SizeLimits = {100}
    Depth = 4
    Rooms = {0, 1, 2, 4}
    Indices = {0, 1, 3, 5}
    IntKeys <- MCIntKeys
    TextKeys <- MCTextKeys
INVARIANTS TreeInv NodesInv
PROPERTIES NodesKeepContract ParseReturns
