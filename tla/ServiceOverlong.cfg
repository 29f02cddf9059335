\* An analysis may outlive its lease, as one handler that hangs does.
CONSTANTS
    d1 = d1
    d2 = d2
    w1 = w1
    w2 = w2
    s1 = s1
    Digests <- MCDigests
    Workers <- MCWorkers
    Submitters <- MCSubmitters
    LeaseTimeout = 1
    MaxAnalysis = 2
    MaxSubmits = 3
    MaxCrashes = 1
    Faults <- MCAnalysisFaults
    None = None
SPECIFICATION Spec
INVARIANTS
    SomeWorkerSurvives
PROPERTIES
    EveryJobSettles
CHECK_DEADLOCK FALSE
