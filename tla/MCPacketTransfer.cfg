SPECIFICATION MCSpec
CONSTANTS
    TreeCapacity = 3
    SendQueueCapacity = 3
    MinWindow = 1
    TxCountLimit = 2
    MaxFragments = 2
    MaxWrites <- UploadWrites
    MaxInFlight = 2
    MaxSeqUsed = 2
    Closers = {}
    QuotaOK = {TRUE}
    SocketFails = {}
INVARIANTS
    TypeOK
    InOrderDelivery
    NothingLost
    NoEarlyData
    
    
CHECK_DEADLOCK FALSE
