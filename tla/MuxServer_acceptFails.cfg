CONSTANTS
    tcp = tcp
    s1 = s1
    starter = starter
    c1 = c1
    StreamEndpoints = {tcp}
    PacketEndpoints = {}
    FirstEndpoints = {tcp}
    StreamUnderlays = {s1}
    PacketUnderlays = {}
    Callers = {starter, c1}
    Starter = starter
    MaxUpdates = 0
    ChanCapacity = 1
    MaxSessions = 0
SPECIFICATION FairSpec
PROPERTIES
    AcceptFailureCloses
CHECK_DEADLOCK FALSE
