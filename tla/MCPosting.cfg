\* Two threads write to one file, which is opened and closed twice, in the
\* memory of one toot; indexes are taken modulo 4.
\* The system may stop: every agent ended, or its device locked.
CONSTANTS
    p1 = p1
    t1 = t1
    t2 = t2
    f1 = f1
    f2 = f2
    o1 = o1
    o2 = o2
    alice = alice
    bob = bob
    NULL = NULL
    Agents = {p1}
    Names = {alice, bob}
    NameOf <- MCNameOf
    MinorMin = 0
    MinorMax = 0
    MaxToots = 1
    MaxElements = 2
    RcvBuf = 2
    Faults <- NoFaults
    Threads = {t1, t2}
    Files = {f1}
    TootObjs = {o1}
    IndexCount = 4
    AnyCount <- MCAnyCount
    MaxOpens = 2
    MaxWrites = 2
SPECIFICATION PostSpec
SYMMETRY Sym
INVARIANTS PostingInv SuccessIsPosted PostedInOrder
CHECK_DEADLOCK FALSE
