SPECIFICATION ApiSpec
CONSTANTS
    Callers = {"g1", "g2"}
    MaxCalls = 1
    MaxDown = 1
PROPERTY
    StopKeepsConnections
CHECK_DEADLOCK FALSE
