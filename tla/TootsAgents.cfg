\* Two users with a device each and a file that either device is opened through;
\* sends fail because a one-message socket is full, devices are removed in use.
\* The system may stop: every agent ended, or its device locked.
CONSTANTS
    p1 = p1
    p2 = p2
    t1 = t1
    t2 = t2
    f1 = f1
    f2 = f2
    o1 = o1
    o2 = o2
    alice = alice
    bob = bob
    NULL = NULL
    Agents = {p1, p2}
    Names = {alice, bob}
    NameOf <- MCNameOf
    MinorMin = 0
    MinorMax = 1
    MaxToots = 1
    MaxElements = 1
    RcvBuf = 1
    Faults <- NoFaults
    Threads = {t1}
    Files = {f1}
    TootObjs = {o1}
SPECIFICATION Spec
SYMMETRY Sym
INVARIANTS CreateAnswerFirst RequestsToOwner
CHECK_DEADLOCK FALSE
