SPECIFICATION Spec
CONSTANTS
    p1 = p1
    p2 = p2
    p3 = p3
    Blocks = {b0, b1}
    ZeroBlock = b0
    MaxTransferRetries = 2
    PromptAddSource = TRUE
SYMMETRY PortSymmetry
INVARIANT SuccessMeansDelivered
INVARIANT SkippedBytesDelivered
INVARIANT RefusalsExplained
