SPECIFICATION TextsSpec
CONSTANTS
    Tabs = {t1, t2}
    MaxPairs = 2
    MaxCalls = 1
    MaxFaults = 1
    SettingsTabs = {"a"}
    MaxPrompts = 1
    MaxActs = 2
    MaxLost = 1
    MaxText = 6
    ChunkSizes = {2, 3, 4}
    MaxWords = 2
    MaxSeconds = 4
    MergeGap = 1
    ShortText = 3
    LongWord = 5
    Offsets = {2, NoOffset}
    NoOffset = NoOffset
    MaxTokens = 3
    SourceChunkChars = 3
    LowDetailChars = 2
    MinSplitChars = 1
    MaxSplitDepth = 2
    MaxAttempts = 2
    ThrottleMaxRetries = 1
    OverviewRounds = 2
    MaxOverviewChunks = 2
    MaxSource = 4
    KeywordLimit = 1
    MaxEntries = 2
    MaxItems = 2
    MaxParts = 2
    MaxLines = 3
    MaxPieces = 2
    MaxCells = 2
    Backends = {"i", "j"}
    MaxSaves = 1
    MaxKeyChanges = 2
    MaxDamages = 1
    LastMeeting = 2
    Scopes = {"title", "note", "transcript"}
    PageSize = 1
    Queried = {"all"}
    Pages = {2}
    CoverageBatch = 1
    MaxChanges = 2
    MaxRefreshes = 2
    MaxRefreshFaults = 1
INVARIANTS
    SessionLostHasCause
    ShownIsStored
    SplitIsLossless
    WordsReachTheModel
    MinutesCoverSource
    AnswersAreShown
    MinutesAreExported
    SearchFindsWhatIsStored
PROPERTIES
    ReadsBack
CHECK_DEADLOCK FALSE
