SPECIFICATION KnowledgeSpec
CONSTANTS
    d1 = d1
    d2 = d2
    v1 = v1
    v2 = v2
    w1 = w1
    Documents = {d1, d2}
    Versions = {v1, v2, w1}
    Chunks = {1, 2, 3, 4}
    DocumentOf <- MCDocumentOf
    VersionOf <- MCVersionOf
    Length <- MCLength
    None = None
    TopK = 2
    TopN = 2
    CandidateTopK = 3
    FinalTopK = 2
    RerankCount = 3
    PerDocumentLimit = 1
    Multiplier = 2
    Threshold = 6
    ThresholdFloor = 4
    MaxFallback = 4
    RrfK = 1
    Scale = 12
    MaxVariants = 2
    MaxContext = 3
    Scores = {1, 2}
    RerankScores = {3, 5, 7}
    MaxChanges = 1
    NoParser = None
    Parsers <- MCParsers
    Overrides = {"unheard"}
    Sources <- MCSources
    Strategies = {"paper", "book", "laws", "qa", "table", "picture", "general"}
    Media = {"plain", "markup", "page", "letter", "talk", "sheet", "print", "scan", "video"}
    MaxPages = 1
    MaxSheets = 2
    MaxRows = 2
    MaxCells = 4
    ColumnGap = 2
    Limits = {1, 3}
    Overlap = 1
    Absent = None
    Inputs <- MCInputs
    Series <- MCSeries
    Bases <- MCBases
    Offers <- MCOffers
    Active = {v1, w1}
    TopMerged = 2
    MaxLevels = 3
    MaxChunks = 5
    MaxEntities = 3
    MaxEdges = 2
    PerChunk = 3
    MaxTokens = 4
    Window = 2
    Builders = {b1, b2}
INVARIANTS
    KnowledgeTypeOK
    EvidenceIsCurrent
    EmptyIsHonest
    RankingIsSound
    ChunksCoverSource
    BlocksShowSource
    DerivedKeepsSources
CHECK_DEADLOCK FALSE
