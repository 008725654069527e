\* Two threads and two files on one device, every fault.  Room for two toots and
\* one element, so that ids, elements and addresses run out and are reused.
\* The system may stop: every agent ended, or its device locked.
CONSTANTS
    p1 = p1
    p2 = p2
    t1 = t1
    t2 = t2
    f1 = f1
    f2 = f2
    o1 = o1
    o2 = o2
    alice = alice
    bob = bob
    NULL = NULL
    Agents = {p1}
    Names = {alice, bob}
    NameOf <- MCNameOf
    MinorMin = 0
    MinorMax = 0
    MaxToots = 2
    MaxElements = 1
    RcvBuf = 2
    Faults <- AllFaults
    Threads = {t1, t2}
    Files = {f1, f2}
    TootObjs = {o1, o2}
SPECIFICATION Spec
SYMMETRY Sym
INVARIANTS TypeOK FileOwnsToot TableSound SleepersSafe  ElementsHaveToot
CHECK_DEADLOCK FALSE
