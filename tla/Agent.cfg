\* Three requests over a socket that holds two messages; sendto may fail.
\* The system may stop: the program ended, or the loop did and nobody asks.
CONSTANTS
    MaxRequests = 3
    RcvBuf = 2
    SendFaults = TRUE
    NULL = NULL
SPECIFICATION FairSpec
INVARIANTS LoopInv AnswersInOrder
PROPERTIES ServesRequests StopsUnlessRobbed KeepsService
CHECK_DEADLOCK FALSE
