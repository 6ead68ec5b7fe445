CONSTANTS
    a1 = a1
    a2 = a2
    t1 = t1
    t2 = t2
    Admins = {a1, a2}
    Patches <- MCPatches
    Deletions <- MCDeletions
    MaxProxies = 2
    MaxCommands = 3
    MaxFaults = 1
    Terminals = {t1, t2}
    ClientPatches <- MCClientPatches
    MaxDaemons = 2
    MaxRuns = 3
    MaxPort = 3
    MaxUserNameLen = 3
    MaxPasswordLen = 3
SPECIFICATION MCSpec
INVARIANTS
    
    AckedIsStored
    StatusTruthful
    ClientFileUsable
    
PROPERTY
    ControlEnds
CHECK_DEADLOCK FALSE
