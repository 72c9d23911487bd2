\* checksum footers, two connections per port, one network failure, one disk error
SPECIFICATION Spec
CONSTANTS
    Ports = {p1, p2}
    Blocks = {b0, b1}
    ZeroBlock = b0
    BlockSize = 1
    FooterType = "CHECKSUM_FOOTER"
    MaxConns = 2
    MaxBreaks = 1
    MaxDiskErrors = 1
    MaxTransferRetries = 2
    SendSize = FALSE
    PromptAddSource = TRUE
INVARIANT TypeOK
INVARIANT EveryBlockOwned
INVARIANT OwnedOnce
INVARIANT DequeuedExact
INVARIANT AckedDelivered
INVARIANT SuccessMeansDelivered
INVARIANT ReceiverChecks
PROPERTY AckedKept
