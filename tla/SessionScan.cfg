\* An analysis, a change of the network mode, and a deep scan.
CONSTANTS
    t1 = t1
    t2 = t2
    Threads <- MCThreads
    Real = Real
    Desktop = TRUE
    Profiles <- MCProfiles
    Unset = Unset
    MaxFiles = 2
    MaxStarts = 3
    MaxToggles = 2
    MaxEscapes = 0
    Faults <- MCNoFaults
SPECIFICATION Spec
INVARIANTS
    OfflinePlugins
CHECK_DEADLOCK FALSE
