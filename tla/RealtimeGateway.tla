---------------------------- MODULE RealtimeGateway ----------------------------
(***************************************************************************)
(* Live transcription on the server: TranscriptionGateway, the realtime    *)
(* part of TranscriptionService, and AwsStreamingTranscriptionProvider     *)
(* (backend/src/domain/transcription).                                     *)
(*                                                                         *)
(* Handlers interleave at every await on the database; what they do        *)
(* between two awaits is one action.  A socket is used once: socket.io     *)
(* gives a reconnecting client a new id, and Nest delivers its messages    *)
(* and its disconnect while handleConnection is still waiting.             *)
(***************************************************************************)
EXTENDS Integers, FiniteSets

CONSTANTS
    Meetings, Sockets,
    SocketMeeting,      \* the meetingId in the handshake of each socket
    MaxConcurrent,      \* REALTIME_MAX_CONCURRENT_SESSIONS
    CircuitThreshold,   \* CIRCUIT_FAILURE_THRESHOLD
    Sessions,           \* AWS sessions, numbered as they start: a bound
    MaxFinals,          \* bound on the final results of one session
    NoSocket, NoTime

ASSUME RealtimeAssumption ==
    /\ Meetings # {} /\ SocketMeeting \in [Sockets -> Meetings]
    /\ Sessions \subseteq Nat \ {0} /\ MaxFinals \in Nat
    /\ NoTime \notin Nat

VARIABLES
    mode,           \* meeting.transcriptionMode in the database
    stored,         \* end of the meeting's last stored segment
    sock,           \* sock[s]: "new", "up", "down"
    joining,        \* sockets whose handleConnection awaits
    clients,        \* meetingClients
    producer,       \* meetingProducers
    stopTimer,      \* meetings with a timer in pendingSessionStops
    failures,       \* sessionFailures: the count within the last minute
    audio,          \* audio[s]: the await handleAudio is in
    stopping,       \* sockets whose handleStopSession awaits
    starting,       \* startingSession
    current,        \* the provider's map of sessions, 0 for none
    session,        \* session[k]: the session object and its result loop
    offset,         \* realtimeTimeOffsets
    lastEnd,        \* realtimeLastEndTimes
    streak          \* auxiliary: sessions that failed in a row, none of them
                    \* accepted by AWS

connections == <<sock, joining, clients, producer, stopTimer>>
handlers == <<failures, audio, stopping, starting, streak>>
provider == <<current, session, offset, lastEnd>>
realtimeVars == <<mode, stored, connections, handlers, provider>>

Times == 0..(Cardinality(Sessions) * MaxFinals)
Session == [meeting : Meetings, loop : {"none", "sending", "streaming", "ended"},
            closed : BOOLEAN, ready : BOOLEAN, offset : Times, finals : 0..MaxFinals]

RealtimeTypeOK ==
    /\ mode \in [Meetings -> {"REALTIME", "BATCH"}] /\ stored \in [Meetings -> Times]
    /\ sock \in [Sockets -> {"new", "up", "down"}] /\ joining \subseteq Sockets
    /\ clients \in [Meetings -> SUBSET Sockets]
    /\ producer \in [Meetings -> Sockets \cup {NoSocket}]
    /\ stopTimer \subseteq Meetings /\ starting \subseteq Meetings
    /\ failures \in [Meetings -> 0..CircuitThreshold]
    /\ audio \in [Sockets -> {"idle", "finding", "offset", "falling"}]
    /\ stopping \subseteq Sockets
    /\ current \in [Meetings -> Sessions \cup {0}] /\ session \in [Sessions -> Session]
    /\ offset \in [Meetings -> Times \cup {NoTime}]
    /\ lastEnd \in [Meetings -> Times \cup {NoTime}]

Unused == [meeting |-> CHOOSE m \in Meetings : TRUE, loop |-> "none", closed |-> FALSE,
           ready |-> FALSE, offset |-> 0, finals |-> 0]

RealtimeInit ==
    /\ mode = [m \in Meetings |-> "REALTIME"] /\ stored = [m \in Meetings |-> 0]
    /\ sock = [s \in Sockets |-> "new"] /\ joining = {} /\ stopTimer = {}
    /\ clients = [m \in Meetings |-> {}] /\ producer = [m \in Meetings |-> NoSocket]
    /\ failures = [m \in Meetings |-> 0] /\ streak = [m \in Meetings |-> 0]
    /\ audio = [s \in Sockets |-> "idle"] /\ stopping = {} /\ starting = {}
    /\ current = [m \in Meetings |-> 0] /\ session = [k \in Sessions |-> Unused]
    /\ offset = [m \in Meetings |-> NoTime] /\ lastEnd = [m \in Meetings |-> NoTime]

(***************************************************************************)
(* The provider's view of a meeting                                        *)
(***************************************************************************)
hasActiveSession(m) == current[m] # 0 /\ ~session[current[m]].closed
getActiveSessionCount == Cardinality({m \in Meetings : current[m] # 0})
Fresh == {k \in Sessions : session[k].loop = "none"}

\* stopSession: no more audio; the loop goes on for the remaining finals.
Closed(ss, m) == IF current[m] = 0 THEN ss ELSE [ss EXCEPT ![current[m]].closed = TRUE]

(***************************************************************************)
(* Connections                                                             *)
(***************************************************************************)
\* A socket connects and handleConnection waits for the token verifier, the
\* meeting and the room.
Connect(s) ==
    /\ sock[s] = "new"
    /\ sock' = [sock EXCEPT ![s] = "up"]
    /\ joining' = joining \cup {s}
    /\ UNCHANGED <<mode, stored, clients, producer, stopTimer, handlers, provider>>

\* The rest of handleConnection, whether the socket is still there or not.
Register(s) ==
    LET m == SocketMeeting[s]
    IN  /\ s \in joining
        /\ joining' = joining \ {s}
        /\ clients' = [clients EXCEPT ![m] = @ \cup {s}]
        /\ stopTimer' = stopTimer \ {m}
        /\ UNCHANGED <<mode, stored, sock, producer, handlers, provider>>

\* handleDisconnect: of a registered socket, the last one starts the timer.
Leave(s) ==
    LET m == SocketMeeting[s]
        left == clients[m] \ {s}
    IN  /\ sock' = [sock EXCEPT ![s] = "down"]
        /\ producer' = IF producer[m] = s THEN [producer EXCEPT ![m] = NoSocket] ELSE producer
        /\ clients' = [clients EXCEPT ![m] = left]
        /\ stopTimer' = IF clients[m] # {} /\ left = {} THEN stopTimer \cup {m} ELSE stopTimer

\* The client goes, the network fails, or the access token expires.
Disconnect(s) ==
    /\ sock[s] = "up"
    /\ Leave(s)
    /\ UNCHANGED <<mode, stored, joining, handlers, provider>>

\* The token or the meeting is refused: error, then disconnect.
Refuse(s) ==
    /\ s \in joining
    /\ joining' = joining \ {s}
    /\ IF sock[s] = "up" THEN Leave(s) ELSE UNCHANGED <<sock, producer, clients, stopTimer>>
    /\ UNCHANGED <<mode, stored, handlers, provider>>

\* The grace period is over and nobody came back.
GraceEnds(m) ==
    LET empty == clients[m] = {}
    IN  /\ m \in stopTimer
        /\ stopTimer' = stopTimer \ {m}
        /\ failures' = IF empty THEN [failures EXCEPT ![m] = 0] ELSE failures
        /\ producer' = IF empty THEN [producer EXCEPT ![m] = NoSocket] ELSE producer
        /\ streak' = IF empty THEN [streak EXCEPT ![m] = 0] ELSE streak
        /\ session' = IF empty THEN Closed(session, m) ELSE session
        /\ UNCHANGED <<mode, stored, sock, joining, clients, audio, stopping, starting,
                       current, offset, lastEnd>>

(***************************************************************************)
(* Audio                                                                   *)
(***************************************************************************)
\* Counted up to the threshold it is compared with.
recordSessionFailure(m) ==
    failures' = [failures EXCEPT ![m] = IF @ < CircuitThreshold THEN @ + 1 ELSE @]

\* handleAudio up to its first await: the producer lock, then
\* ensureRealtimeSessionStarted.  With a session, or one that starts, the
\* chunk is fed or refused at once, which changes nothing here.
Audio(s) ==
    LET m == SocketMeeting[s]
        p == producer[m]
        another == p # NoSocket /\ p # s /\ p \in clients[m]
        running == hasActiveSession(m) \/ m \in starting
        refused == \/ failures[m] >= CircuitThreshold
                   \/ getActiveSessionCount >= MaxConcurrent
    IN  /\ sock[s] = "up" /\ audio[s] = "idle" /\ ~another
        /\ producer' = [producer EXCEPT ![m] = s]
        /\ \/ /\ running
              /\ UNCHANGED <<audio, starting>>
           \/ /\ ~running /\ refused
              /\ audio' = [audio EXCEPT ![s] = "falling"] /\ UNCHANGED starting
           \/ /\ ~running /\ ~refused
              /\ starting' = starting \cup {m}
              /\ audio' = [audio EXCEPT ![s] = "finding"]
        /\ UNCHANGED <<mode, stored, sock, joining, clients, stopTimer, failures,
                       stopping, streak, provider>>

\* A minute without a failure: the count starts again.
FailuresExpire(m) ==
    /\ failures[m] > 0
    /\ failures' = [failures EXCEPT ![m] = 0]
    /\ streak' = [streak EXCEPT ![m] = 0]
    /\ UNCHANGED <<mode, stored, connections, audio, stopping, starting, provider>>

\* switchMeetingToBatchFallback: of a realtime meeting, unless it fails.
FallBack(s) ==
    /\ audio[s] = "falling"
    /\ audio' = [audio EXCEPT ![s] = "idle"]
    /\ \/ mode' = [mode EXCEPT ![SocketMeeting[s]] = "BATCH"]
       \/ UNCHANGED mode
    /\ UNCHANGED <<stored, connections, failures, stopping, starting, streak, provider>>

\* The finally of ensureRealtimeSessionStarted.
StartOver(s, ok) ==
    /\ starting' = starting \ {SocketMeeting[s]}
    /\ audio' = [audio EXCEPT ![s] = "idle"]

\* Mutant of BeginSession: a session that drains is not replaced but kept.
BeginBesideDraining(m, from, k) ==
    /\ session' = [session EXCEPT
                     ![k] = [meeting |-> m, loop |-> "sending", closed |-> FALSE,
                             ready |-> FALSE, offset |-> from, finals |-> 0]]
    /\ current' = IF current[m] = 0 THEN [current EXCEPT ![m] = k] ELSE current
    /\ offset' = [offset EXCEPT ![m] = from]
    /\ lastEnd' = [lastEnd EXCEPT ![m] = from]

\* The rest of startRealtimeSession, then startSession of the provider: it
\* closes and replaces a session that is left, and starts the result loop.
\* The offset of the session is fixed here.
BeginSession(m, from, k) ==
    /\ session' = [Closed(session, m) EXCEPT
                     ![k] = [meeting |-> m, loop |-> "sending", closed |-> FALSE,
                             ready |-> FALSE, offset |-> from, finals |-> 0]]
    /\ current' = [current EXCEPT ![m] = k]
    /\ offset' = [offset EXCEPT ![m] = from]
    /\ lastEnd' = [lastEnd EXCEPT ![m] = from]

\* A start that returns forgets the failures, although AWS has not answered.
StartReturns(s, from) ==
    LET m == SocketMeeting[s]
    IN  /\ \E k \in Fresh :
             (\A j \in Fresh : k <= j) /\ BeginSession(m, from, k)
        /\ failures' = [failures EXCEPT ![m] = 0]
        /\ StartOver(s, TRUE)
        /\ UNCHANGED streak

StartThrows(s) ==
    /\ recordSessionFailure(SocketMeeting[s])
    /\ StartOver(s, FALSE)
    /\ UNCHANGED <<provider, streak>>

\* startRealtimeSession has read the meeting; a batch meeting is refused.
StartFindsMeeting(s) ==
    LET m == SocketMeeting[s]
    IN  /\ audio[s] = "finding"
        /\ \/ StartThrows(s)
           \/ /\ mode[m] = "REALTIME" /\ lastEnd[m] # NoTime
              /\ StartReturns(s, lastEnd[m])
           \/ /\ mode[m] = "REALTIME" /\ lastEnd[m] = NoTime
              /\ audio' = [audio EXCEPT ![s] = "offset"]
              /\ UNCHANGED <<failures, starting, streak, provider>>
        /\ UNCHANGED <<mode, stored, connections, stopping>>

\* The offset of the first session comes from the last stored segment.
StartReadsSegment(s) ==
    /\ audio[s] = "offset"
    /\ StartThrows(s) \/ StartReturns(s, stored[SocketMeeting[s]])
    /\ UNCHANGED <<mode, stored, connections, stopping>>

(***************************************************************************)
(* transcript:stop                                                         *)
(***************************************************************************)
Stop(s) ==
    /\ sock[s] = "up" /\ s \notin stopping
    /\ stopping' = stopping \cup {s}
    /\ UNCHANGED <<mode, stored, connections, failures, audio, starting, streak, provider>>

\* clearRealtimeTimeOffset.
ForgetOffset(m) ==
    /\ offset' = [offset EXCEPT ![m] = NoTime]
    /\ lastEnd' = [lastEnd EXCEPT ![m] = NoTime]

StopFoundMeeting(s) ==
    LET m == SocketMeeting[s]
    IN  /\ s \in stopping
        /\ stopping' = stopping \ {s}
        /\ \/ /\ session' = Closed(session, m)
              /\ ForgetOffset(m)
           \/ UNCHANGED <<session, offset, lastEnd>>    \* findById throws
        /\ UNCHANGED <<mode, stored, connections, failures, audio, starting, streak, current>>

(***************************************************************************)
(* The result loop of a session                                            *)
(***************************************************************************)
\* The finally of runResultLoop: the map entry goes when it is this session's.
EndOfLoop(k) ==
    LET m == session[k].meeting
    IN  /\ session' = [session EXCEPT ![k].loop = "ended", ![k].closed = TRUE,
                                      ![k].ready = FALSE]
        /\ current' = IF current[m] = k THEN [current EXCEPT ![m] = 0] ELSE current

\* AWS accepts the stream.
LoopAccepted(k) ==
    LET m == session[k].meeting
    IN  /\ session[k].loop = "sending"
        /\ session' = [session EXCEPT ![k].loop = "streaming", ![k].ready = (current[m] = k)]
        /\ streak' = [streak EXCEPT ![m] = 0]
        /\ UNCHANGED <<mode, stored, connections, failures, audio, stopping, starting,
                       current, offset, lastEnd>>

\* AWS refuses or breaks the stream: onError, then the finally.
LoopFails(k) ==
    LET m == session[k].meeting
    IN  /\ session[k].loop \in {"sending", "streaming"}
        /\ recordSessionFailure(m)
        /\ streak' = IF session[k].loop = "sending" THEN [streak EXCEPT ![m] = @ + 1] ELSE streak
        /\ EndOfLoop(k)
        /\ UNCHANGED <<mode, stored, connections, audio, stopping, starting, offset, lastEnd>>

\* The drain of a closed session is over, or forced after five seconds; a
\* replaced session leaves at its next event.
LoopEnds(k) ==
    /\ session[k].loop \in {"sending", "streaming"} /\ session[k].closed
    /\ EndOfLoop(k)
    /\ UNCHANGED <<mode, stored, connections, handlers, offset, lastEnd>>

\* Mutant of Listens: results of a replaced session are taken too.
ListensAlways(k) == session[k].loop = "streaming" /\ session[k].finals < MaxFinals

\* The loop hands over results while its session is in the map.
Listens(k) ==
    /\ session[k].loop = "streaming" /\ session[k].finals < MaxFinals
    /\ current[session[k].meeting] = k

\* saveFinalSegment: an insert that fails is logged and the final is lost.
saveFinalSegment(m, end) == stored' \in {stored, [stored EXCEPT ![m] = end]}

\* handleTranscriptEvent of a final: session time plus the session's offset;
\* the segment is stored unless the insert fails; the last end is kept while
\* the meeting has an offset.
Final(k) ==
    LET m == session[k].meeting
        end == session[k].offset + session[k].finals + 1
    IN  /\ Listens(k)
        /\ session' = [session EXCEPT ![k].finals = @ + 1]
        /\ saveFinalSegment(m, end)
        /\ lastEnd' = IF offset[m] = NoTime THEN lastEnd
                      ELSE [lastEnd EXCEPT ![m] = IF lastEnd[m] # NoTime /\ @ > end THEN @ ELSE end]
        /\ UNCHANGED <<mode, connections, handlers, current, offset>>

LoopStep(k) == LoopAccepted(k) \/ LoopFails(k) \/ LoopEnds(k)

RealtimeNext ==
    \/ \E s \in Sockets :
         \/ Connect(s) \/ Register(s) \/ Refuse(s) \/ Disconnect(s) \/ Audio(s)
         \/ FallBack(s) \/ StartFindsMeeting(s) \/ StartReadsSegment(s)
         \/ Stop(s) \/ StopFoundMeeting(s)
    \/ \E m \in Meetings : GraceEnds(m) \/ FailuresExpire(m)
    \/ \E k \in Sessions : LoopStep(k) \/ Final(k)

RealtimeSpec == RealtimeInit /\ [][RealtimeNext]_realtimeVars

(***************************************************************************)
(* Properties                                                              *)
(***************************************************************************)
\* A session that takes audio is the one in the map, so it can be fed and
\* stopped: a loop that ends late never removes the session that replaced its
\* own, nor is an open session ever replaced by another
\* (aws-streaming-transcription.provider.ts:282-288).
OpenSessionInMap ==
    \A k \in Sessions : session[k].loop \in {"sending", "streaming"} /\ ~session[k].closed
        => current[session[k].meeting] = k

\* The sockets whose audio starts a session of the meeting.
StartsOf(m) == {s \in Sockets : SocketMeeting[s] = m /\ audio[s] \in {"finding", "offset"}}

\* startingSession has a meeting exactly as long as one start of it runs: two
\* chunks never start two sessions, and no failure leaves the meeting locked,
\* which would answer every chunk "warming" for ever
\* (transcription.gateway.ts:511-514, 582-639).
StartLockHeld ==
    \A m \in Meetings : /\ m \in starting <=> StartsOf(m) # {}
                       /\ \A s, t \in StartsOf(m) : s = t

\* As long as the server remembers the meeting's offset, each final extends the
\* transcript exactly by its own length: reconnects and replaced sessions
\* neither repeat, overlap nor add up time (transcription.service.ts:203-213,
\* 232-245, 570-582).
TimelineExtends ==
    [][\A k \in Sessions : session'[k].finals > session[k].finals
         => LET m == session[k].meeting
            IN  offset[m] # NoTime => lastEnd'[m] = lastEnd[m] + 1]_realtimeVars

\* "When sessions keep failing (credentials, region), the audio that arrives
\* every 200 ms must not repeat starting and failing for ever and flood the AWS
\* API; after consecutive failures the meeting falls back to batch"
\* (transcription.gateway.ts:517-519).  Sessions that AWS refuses one after the
\* other are at most as many as the threshold.
CircuitBreakerOpens == \A m \in Meetings : streak[m] <= CircuitThreshold
=============================================================================
