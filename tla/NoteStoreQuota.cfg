SPECIFICATION EditorSpec
CONSTANTS
    Tabs = {t1}
    Texts = {empty, a}
    TooLong = {}
    EmptyText = empty
    MaxSessions = 2
    MaxEdits = 1
    MaxFaults = 1
    StorageMayFail = TRUE
    NoSession = NoSession
    NoDraft = NoDraft
    NoRow = NoRow
    Nothing = Nothing
    ConflictReply = ConflictReply
    Retryable = Retryable
    Fatal = Fatal
INVARIANTS
    CopySurvivesNavigation
CHECK_DEADLOCK FALSE
