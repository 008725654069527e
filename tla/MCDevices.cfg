\* Two device ids for three agents, so that ids run out and are used again;
\* every fault.  The system may stop: every agent ended or shut out.
CONSTANTS
    p1 = p1
    p2 = p2
    p3 = p3
    alice = alice
    bob = bob
    NULL = NULL
    Agents = {p1, p2, p3}
    Names = {alice, bob}
    NameOf <- MCNameOf
    MinorMin = 0
    MinorMax = 1
    MaxToots = 1
    MaxElements = 1
    RcvBuf = 2
    Faults <- AllFaults
SPECIFICATION DevFairSpec
INVARIANTS DevTypeOK UpIsServed HandlerOwnsDevice  NoFalseAlarm FailureLeavesNothing
PROPERTIES HandlerReturns KeepsNode
CHECK_DEADLOCK FALSE
