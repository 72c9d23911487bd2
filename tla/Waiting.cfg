SPECIFICATION Spec
CONSTANTS
    Parts = {"generator", "links", "plain", "list", "newer", "old", "allocation", "namespaces", "stream"}
    fa = fa
    fb = fb
    fc = fc
    t1 = t1
    t2 = t2
    t3 = t3
INVARIANT EveryFileFound
INVARIANT ListBeforeBlocks
INVARIANT VersionsAgree
PROPERTY EveryWaitEnds
CHECK_DEADLOCK FALSE
