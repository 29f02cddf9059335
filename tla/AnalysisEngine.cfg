\* The archive unfolds to more than MaxNodes nodes and deeper than MaxDepth.
CONSTANTS
    Content <- MCContent
    Empty = ""
    Opaque <- MCOpaque
    Analyzers <- MCAnalyzers
    Decoders <- MCDecoders
    Baseline <- MCBaseline
    Rank <- MCRank
    Detects <- MCDetects
    Extract <- MCExtract
    Decode <- MCDecode
    MinScore = 2
    MaxNodes = 6
    MaxDepth = 2
    MaxRuns = 2
    Faults <- MCFaults
    None = None
SPECIFICATION Spec
INVARIANTS
    TypeOK
    Bounded
    ExploredOnce
    RetraceableUnlessMatcherRaises
    CompleteMeansExplored
    Repeatable
PROPERTIES
    NeverReclassified
    RunsEnd
CHECK_DEADLOCK FALSE
