\* The terminal: a second request while the first one runs.
CONSTANTS
    t1 = t1
    t2 = t2
    Threads <- MCThreads
    Real = Real
    Desktop = FALSE
    Profiles <- MCProfiles
    Unset = Unset
    MaxFiles = 2
    MaxStarts = 2
    MaxToggles = 0
    MaxEscapes = 0
    Faults <- MCNoFaults
SPECIFICATION Spec
INVARIANTS
    OfflineRunGuarded
CHECK_DEADLOCK FALSE
