\* Another program rewrites a source while it is quarantined.
CONSTANTS
    c1 = c1
    c2 = c2
    p1 = p1
    p2 = p2
    x = x
    y = y
    z = z
    Clients <- MCClients
    Paths <- MCPaths
    Content <- MCMoreContent
    InitialFiles <- MCFiles
    Absent = Absent
    MaxOps = 3
    MaxKills = 0
    MaxWrites = 1
    Faults <- MCNoFaults
SPECIFICATION Spec
INVARIANTS
    EvidenceKept
CHECK_DEADLOCK FALSE
