\* Another program may rewrite one file once.
CONSTANTS
    c1 = c1
    c2 = c2
    p1 = p1
    p2 = p2
    x = x
    y = y
    z = z
    Clients <- MCClients
    Paths <- MCPaths
    Content <- MCContent
    InitialFiles <- MCFiles
    Absent = Absent
    MaxOps = 4
    MaxKills = 1
    MaxWrites = 1
    Faults <- MCFaults
SYMMETRY MCSymmetry
SPECIFICATION Spec
INVARIANTS
    EvidenceKeptUnlessRewritten
    RecordsRestorableUnlessWithdrawn
    RemovalsTold
    FailedCopyRemoved
PROPERTIES
    RestoreKeepsExisting
CHECK_DEADLOCK FALSE
