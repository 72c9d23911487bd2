SPECIFICATION AppsSpec
CONSTANTS
    Parts = {"receiver", "sender", "downloads", "sends", "incoming", "shares", "list", "phone", "computer", "folder", "processes"}
    Threads = {t1, t2, t3}
    Reporter = reporter
    Nobody = nobody
    Kind = "receiver"
    Operations = {"start", "finish", "abort", "close"}
    MaxAborts = 2
    d1 = d1
    d2 = d2
    s1 = s1
    s2 = s2
    e1 = e1
    e2 = e2
    l1 = l1
    l2 = l2
    i1 = i1
    i2 = i2
    p1 = p1
    c1 = c1
    r1 = r1
    r2 = r2
    r3 = r3
    none = none
    StoppedSides = {d1, d2, "share"}
INVARIANT NoUseAfterFree
INVARIANT EndIsLast
INVARIANT AbortTakesEffect
INVARIANT ClientStops
INVARIANT ScreenIsRight
INVARIANT PresentIsListed
INVARIANT NothingOverwritten
CHECK_DEADLOCK FALSE
