SPECIFICATION ProtocolSpec
CONSTANTS
    Parts = {"resume", "versions", "stream", "chunks", "encoding"}
    fa = fa
    fb = fb
    fx = fx
    Threads = {q1, q2}
    FileSize <- TreeFiles
    Batches <- TreeBatch
    Explore = TRUE
    BlockSize = 2
    Resume = TRUE
    Previous <- Received
    DeleteExtra = TRUE
    MaxReturns = 1
    MaxDrops = 1
    Failures = FALSE
    t1 = t1
    t2 = t2
    t3 = t3
SYMMETRY ThreadSymmetry
INVARIANT EveryBlockOnce
INVARIANT FilesComplete
INVARIANT SeqIdsDistinct
INVARIANT AllWaitForNegotiation
INVARIANT NeverMisread
INVARIANT RoundTrip
PROPERTY ImplementsPool
CHECK_DEADLOCK FALSE
