SPECIFICATION RealtimeSpec
CONSTANTS
    m1 = m1
    Meetings = {m1}
    Sockets = {s1}
    SocketMeeting <- SocketMeetings
    MaxConcurrent = 2
    CircuitThreshold = 2
    Sessions = {1, 2, 3}
    MaxFinals = 1
    NoSocket = NoSocket
    NoTime = NoTime
INVARIANT CircuitBreakerOpens
CHECK_DEADLOCK FALSE
