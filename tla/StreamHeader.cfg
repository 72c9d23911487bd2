SPECIFICATION ProtocolSpec
CONSTANTS
    Parts = {"long_header"}
    fa = fa
    fb = fb
    fx = fx
    Threads = {q1, q2}
    FileSize <- TreeFiles
    Batches <- TreeBatch
    Explore = TRUE
    BlockSize = 2
    Resume = TRUE
    Previous <- Received
    DeleteExtra = TRUE
    MaxReturns = 1
    MaxDrops = 1
    Failures = FALSE
    t1 = t1
    t2 = t2
    t3 = t3
CHECK_DEADLOCK FALSE
INVARIANT NeverMisread
