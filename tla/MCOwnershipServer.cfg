SPECIFICATION FairSpec
CONSTANTS
    c1 = c1
    c2 = c2
    s1 = s1
    t1 = t1
    t2 = t2
    Clis = {}
    Servers = {s1}
    Threads = {t1, t2}
    ServerOf <- MCServerOf
    GateUsed = TRUE
    MaxGen = 6
    MaxHead = 2
    MaxDeaths = 1
INVARIANTS CrashIsAdopted
PROPERTIES ApprovedGateIsLeft
CHECK_DEADLOCK FALSE
