CONSTANTS
    tcp = tcp
    udp = udp
    s1 = s1
    p1 = p1
    starter = starter
    c1 = c1
    c2 = c2
    StreamEndpoints = {tcp}
    PacketEndpoints = {udp}
    FirstEndpoints = {tcp}
    StreamUnderlays = {s1}
    PacketUnderlays = {p1}
    Callers = {starter, c1, c2}
    Starter = starter
    MaxUpdates = 1
    ChanCapacity = 1
    MaxSessions = 1
SPECIFICATION FairSpec
INVARIANTS
    NoneLeftOpen
    FinalPublication
    UpdateHarmless
PROPERTIES
    ShutsDown
CHECK_DEADLOCK FALSE
