\* The desktop window: one request at a time, with every fault.
CONSTANTS
    t1 = t1
    t2 = t2
    Threads <- MCThreads
    Real = Real
    Desktop = TRUE
    Profiles <- MCProfiles
    Unset = Unset
    MaxFiles = 2
    MaxStarts = 3
    MaxToggles = 2
    MaxEscapes = 2
    Faults <- MCFaults
SPECIFICATION Spec
INVARIANTS
    OfflineRunGuarded
    NetworkBack
    RunsAsAsked
    CutIsTold
PROPERTIES
    SerialGuard
CHECK_DEADLOCK FALSE
