SPECIFICATION Spec
CONSTANTS
    fa = fa
    fb = fb
    t0 = t0
    t1 = t1
    t2 = t2
    t3 = t3
SYMMETRY ThreadSymmetry
INVARIANT ClaimsOnDisk
INVARIANT LogStaysValid
INVARIANT BlocksSurvive
INVARIANT SuccessLeavesFiles
INVARIANT NoThreadFails
INVARIANT ChunksExact
CHECK_DEADLOCK FALSE
