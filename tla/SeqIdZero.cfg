\* a checkpoint without a last block against one for the first block
SPECIFICATION Spec
CONSTANTS
    Ports = {p1, p2}
    Blocks = {b0}
    ZeroBlock = b0
    BlockSize = 2
    FooterType = "NO_FOOTER"
    MaxConns = 3
    MaxBreaks = 2
    MaxDiskErrors = 0
    MaxTransferRetries = 2
    SendSize = FALSE
    PromptAddSource = TRUE
INVARIANT SuccessMeansDelivered
