SPECIFICATION MCSpec
CONSTANTS
    s1 = s1
    Sessions = {s1}
    SendQueueCapacity = 2
    TreeCapacity = 1
    ChanCapacity = 1
    ConnCapacity = 1
    MaxWrites <- DownloadOne
    QuotaOK = {TRUE}
    FaultChoices = {{"clientClose"}, {"network"}, {"idle"}, {"underlayClose"}}
    Ids = {1}
    MaxIncarnations = 2
    RecvChanCapacity = 1
    ReadyCapacity = 1
    MaxArrivals = 3
    MaxSilences = 1
    SocketFails = TRUE
CHECK_DEADLOCK FALSE
INVARIANT
    OneIncarnation
PROPERTIES
    WrittenIsRead
    ClosingEnds
