SPECIFICATION Spec
CONSTANTS
    TreeCapacity = 4
    SendQueueCapacity = 2
    MinWindow = 1
    TxCountLimit = 2
    MaxFragments = 1
    MaxWrites <- UploadOne
    MaxInFlight = 2
    MaxSeqUsed = 4
    Closers = {"client"}
    QuotaOK = {TRUE}
    SocketFails = {}
INVARIANTS
    CloseRequestSent
CHECK_DEADLOCK FALSE
