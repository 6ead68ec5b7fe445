SPECIFICATION MCSpec
CONSTANTS
    TreeCapacity = 2
    SendQueueCapacity = 2
    MinWindow = 1
    TxCountLimit = 1
    MaxFragments = 1
    MaxWrites <- UploadWrites
    MaxInFlight = 2
    MaxSeqUsed = 3
    Closers = {}
    QuotaOK = {TRUE, FALSE}
    SocketFails = {"server"}
INVARIANTS
    
    Understood
    CodeRoundTrips
    

    
CHECK_DEADLOCK FALSE
