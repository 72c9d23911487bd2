\* a thread ends well while the blocks of another were never confirmed
SPECIFICATION Spec
CONSTANTS
    Ports = {p1, p2}
    Blocks = {b0, b1}
    ZeroBlock = b0
    BlockSize = 1
    FooterType = "TAG"
    MaxConns = 2
    MaxBreaks = 1
    MaxDiskErrors = 0
    MaxTransferRetries = 2
    SendSize = FALSE
    PromptAddSource = TRUE
INVARIANT SuccessMeansDelivered
