SPECIFICATION MCSpec
CONSTANTS
    s1 = s1
    AckDelay = 2
    MinInterval = 1
    Heartbeat = 6
    Rto = 2
    Cwnd = 2
    BufCapacity = 3
    Windows = {2}
    StartsOpening = {FALSE}
    Reordering = FALSE
    Latency = 1
    MaxTime = 8
    MaxInputs = 3
    MaxQueued = 0
    Sessions = {s1}
    SendQueueCapacity = 3
    TreeCapacity = 1
    ChanCapacity = 1
    ConnCapacity = 1
    MaxWrites <- DownloadOne
    QuotaOK = {TRUE, FALSE}
    FaultChoices = {{"clientClose", "serverClose"}}
INVARIANTS
    AckKept
    NoWakeUpLost
    NothingCutOff

    
CHECK_DEADLOCK FALSE
