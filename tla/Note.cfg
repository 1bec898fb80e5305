SPECIFICATION NoteSpec
CONSTANTS
    Requests = {r1, r2, r3}
    Contents = {c1, c2, c3}
    MaxRevision = 2
    NoNote = NoNote
    NoRequest = NoRequest
    NoDocument = NoDocument
    r1 = r1
    r2 = r2
    c1 = c1
    c2 = c2
    empty = empty
    a = a
    b = b
    long = long
    t1 = t1
    t2 = t2
    Tabs = {t1, t2}
    Texts = {empty, a, b, long}
    TooLong = {long}
    EmptyText = empty
    MaxSessions = 2
    MaxEdits = 2
    MaxFaults = 1
    StorageMayFail = FALSE
    NoSession = NoSession
    NoDraft = NoDraft
    NoRow = NoRow
    Nothing = Nothing
    ConflictReply = ConflictReply
    Retryable = Retryable
    Fatal = Fatal
INVARIANTS
    NoLostUpdate
    SuccessMeansStored
    SearchShowsSavedText
    NoEditLost
    NoSilentOverwrite
    CleanMeansStored
    ConflictBlocksSaving
PROPERTIES
    ImplementsVersionedNote
CHECK_DEADLOCK FALSE
