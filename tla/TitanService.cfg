\* Leases are three times the longest analysis, as 900 s are of 300 s.
CONSTANTS
    d1 = d1
    d2 = d2
    w1 = w1
    w2 = w2
    s1 = s1
    Digests <- MCDigests
    Workers <- MCWorkers
    Submitters <- MCSubmitters
    LeaseTimeout = 3
    MaxAnalysis = 1
    MaxSubmits = 3
    MaxCrashes = 1
    Faults <- MCAllFaults
    None = None
SPECIFICATION Spec
INVARIANTS
    TypeOK
    Durable
    QueueConsistent
    ExclusiveUnlessOverlong
PROPERTIES
    ReportFrozen
    LifecycleSpec
CHECK_DEADLOCK FALSE
