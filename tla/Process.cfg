SPECIFICATION Spec
CONSTANTS
    Parts = {"counting", "limits", "sending", "replacing", "receiving", "rates", "peak"}
    p1 = p1
    p2 = p2
    p3 = p3
    q1 = q1
    q2 = q2
SYMMETRY Symmetry
INVARIANT CountsMatch
INVARIANT TransfersTracked
INVARIANT RatesRespected
CHECK_DEADLOCK FALSE
