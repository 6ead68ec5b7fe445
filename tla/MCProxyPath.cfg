CONSTANTS
    d1 = d1
    d2 = d2
    u1 = u1
    u2 = u2
    Dialers = {d1, d2}
    Underlays = {u1, u2}
    IdleTime = 1
    Callers = {g1, g2}
    MaxCalls = 2
    MaxDown = 1
    MaxData = 2
    Window = 1
    MaxSent = 2
    MaxAnswers = 1
SPECIFICATION MCSpec
INVARIANTS
    NoSessionOnCleaned
    RelayIntact
    RequestAllowed
    AssociationKept
    ConnectionSound
PROPERTY
    AllGivenUp
CHECK_DEADLOCK FALSE
