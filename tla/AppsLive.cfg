SPECIFICATION AppsSpec
CONSTANTS
    Parts = {"receiver", "downloads", "sends", "stops", "processes"}
    Threads = {t1, t2}
    Reporter = reporter
    Nobody = nobody
    Kind = "receiver"
    Operations = {"start", "finish", "abort", "close"}
    MaxAborts = 2
    d1 = d1
    d2 = d2
    s1 = s1
    s2 = s2
    e1 = e1
    e2 = e2
    l1 = l1
    l2 = l2
    i1 = i1
    i2 = i2
    p1 = p1
    c1 = c1
    r1 = r1
    r2 = r2
    r3 = r3
    none = none
    StoppedSides = {d1, "share"}
PROPERTY EverythingEnds
CHECK_DEADLOCK FALSE
