SPECIFICATION PageSpec
CONSTANTS
    Viewed = {"m", "n"}
    MaxSteps = 2
    Tabs = {t1}
    Texts = {empty, a, b}
    TooLong = {b}
    EmptyText = empty
    MaxSessions = 2
    MaxEdits = 1
    MaxFaults = 1
    StorageMayFail = FALSE
    NoSession = NoSession
    NoDraft = NoDraft
    NoRow = NoRow
    Nothing = Nothing
    ConflictReply = ConflictReply
    Retryable = Retryable
    Fatal = Fatal
PROPERTIES
    WaitingEnds
    EditsSettle
    AbandonedSessionsRest
CHECK_DEADLOCK FALSE
