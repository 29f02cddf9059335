\* A client is interrupted while it copies.
CONSTANTS
    c1 = c1
    c2 = c2
    p1 = p1
    p2 = p2
    x = x
    y = y
    z = z
    Clients <- MCClients
    Paths <- MCPaths
    Content <- MCContent
    InitialFiles <- MCFiles
    Absent = Absent
    MaxOps = 3
    MaxKills = 1
    MaxWrites = 0
    Faults <- MCNoFaults
SPECIFICATION Spec
INVARIANTS
    InterruptedCopyRemoved
CHECK_DEADLOCK FALSE
