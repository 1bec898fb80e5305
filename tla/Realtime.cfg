SPECIFICATION Spec
CONSTANTS
    m1 = m1
    s1 = s1
    s2 = s2
    Meetings = {m1}
    Sockets = {s1, s2}
    SocketMeeting <- SocketMeetings
    MaxConcurrent = 2
    CircuitThreshold = 1
    Sessions = {1, 2}
    MaxFinals = 1
    NoSocket = NoSocket
    NoTime = NoTime
    MaxStarts = 2
    MaxCaptured = 2
    MaxStale = 2
    BufferLimit = 1
    MaxRetries = 1
    MaxTimeouts = 2
    MaxBackpressure = 2
    MaxSessions = 2
    MaxChunks = 1
    MaxRequests = 3
    MaxReloads = 1
    Finals = {1, 2}
    TextOf <- FinalTexts
    StartOf <- FinalStarts
    EndOf <- FinalEnds
    Legacy = {1}
    Foreign = {2}
    MaxSockets = 2
    MaxLosses = 2
SYMMETRY Symmetry
INVARIANTS
    TypesOK
    OpenSessionInMap
    AcceptedWasHeard
    FilesAreWhole
    OneMicrophone
    RecoveredStaysShown
    NoSegmentTwice
    ExpelledRecovers
PROPERTIES
    TimelineExtends
    HearsInOrder
    ClearedWhenUploaded
CHECK_DEADLOCK FALSE
