CONSTANTS
    small = small
    big = big
    Gone = Gone
    Bodies = {small, big}
    BodySize <- MCSize
    BodyFacts <- MCFacts
    Discovered = 3
    MaxFiles = 2
    MaxFile = 3
    MaxScanTotal = 4
    Providers = {"sandbox", "authenticode"}
    MaxRewrites = 1
    Packages = {1, 2, 3}
    Catalogs <- MCCatalogs
    SingleFiles <- MCSingleFiles
    MaxLines = 2
    MaxAnalyses = 2
    MaxCancels = 2
    first = first
    second = second
    older = older
    Contents = {first, second}
    Nothing = Nothing
    Sources = {older}
    MaxSamples = 2
    MaxRestarts = 1
    MaxOvertakings = 1
    Runs = {1, 2}
    Indicators = {"i", "j"}
    FoundIn <- MCFoundIn
    Recording <- MCRecording
    MaxPrunes = 2
    MaxItem = 2
    MaxBlocks = 2
    MaxArtifacts = 3
    MaxTotal = 5
    Inputs <- MCInputs
    Encoded <- MCEncoded
    MaxOutput = 3
    MaxNumber = 4
    Reports <- MCReports
    Packs <- MCPacks
    PluginRules <- MCPlugin
    YaraHits <- MCYara
    MaxMatches = 3
    MaxFindings = 1
    Invocations <- MCInvocations
    BatchFiles <- MCFiles
    Addresses <- MCAddresses
    Domains <- MCDomains
    PerKind = 2
    Cooldown = 2
    Providers_ = {"geo", "whois"}
    MaxRuns = 2
    DecoderIds = {0, 1}
    InitialDecoder = 0
    MaxRequests = 2
    Dossiers <- MCDossiers
    Asked <- MCAsked
    ModelTexts <- MCModelTexts
    MaxLedger = 7
    MaxEvidence = 3
    MaxContext = 3
    MaxAnswerLines = 3
    EvidenceSpecs <- MCSpecs
    MaxVisits = 1
    Aliases = {"c"}
SYMMETRY MCSymmetry
INIT MCInit
NEXT MCNext
INVARIANTS
    LosingEvidenceNeverHelps
    ScanAccounts
    ActivationSound
    SnapshotIsAsked
    CasesConnected
    HistoryKept
    NothingLostWithinLimits
    DecodesHonestly
    JudgedSoundly
    ExitTellsTruth
    EnrichmentKept
    ScreenAgrees
    AnswersGrounded
    EvidenceFaithful
CHECK_DEADLOCK FALSE
