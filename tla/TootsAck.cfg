\* The answer to one write completes another.
\* The system may stop: every agent ended, or its device locked.
CONSTANTS
    p1 = p1
    p2 = p2
    t1 = t1
    t2 = t2
    f1 = f1
    f2 = f2
    o1 = o1
    o2 = o2
    alice = alice
    bob = bob
    NULL = NULL
    Agents = {p1}
    Names = {alice, bob}
    NameOf <- MCNameOf
    MinorMin = 0
    MinorMax = 0
    MaxToots = 2
    MaxElements = 2
    RcvBuf = 2
    Faults <- NoFaults
    Threads = {t1, t2}
    Files = {f1, f2}
    TootObjs = {o1, o2}
SPECIFICATION Spec
SYMMETRY Sym
PROPERTIES AckNamesElement
CHECK_DEADLOCK FALSE
