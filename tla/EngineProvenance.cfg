\* A plugin's can_analyze or can_decode may raise.
CONSTANTS
    Content <- MCContent
    Empty = ""
    Opaque <- MCOpaque
    Analyzers <- MCAnalyzers
    Decoders <- MCDecoders
    Baseline <- MCBaseline
    Rank <- MCRank
    Detects <- MCDetects
    Extract <- MCExtract
    Decode <- MCDecode
    MinScore = 2
    MaxNodes = 6
    MaxDepth = 2
    MaxRuns = 1
    Faults <- MCFaults
    None = None
SPECIFICATION Spec
INVARIANTS
    Retraceable
CHECK_DEADLOCK FALSE
