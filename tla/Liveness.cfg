\* every thread ends, under the fairness of FairSpec
SPECIFICATION FairSpec
CONSTANTS
    Ports = {p1, p2}
    Blocks = {b0}
    ZeroBlock = b0
    BlockSize = 1
    FooterType = "CHECKSUM_FOOTER"
    MaxConns = 2
    MaxBreaks = 1
    MaxDiskErrors = 1
    MaxTransferRetries = 2
    SendSize = FALSE
    PromptAddSource = TRUE
PROPERTY Termination
