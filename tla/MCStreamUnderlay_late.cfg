SPECIFICATION Spec
CONSTANTS
    s1 = s1
    Sessions = {s1}
    SendQueueCapacity = 3
    TreeCapacity = 1
    ChanCapacity = 1
    ConnCapacity = 1
    MaxWrites <- UploadOne
    QuotaOK = {TRUE}
    FaultChoices = {{"clientClose"}}
CHECK_DEADLOCK FALSE
INVARIANT
    LateSegmentTolerated
