----------------------------- MODULE TranscriptView -----------------------------
(***************************************************************************)
(* The live transcript of the page: transcriptionStore, useTranscription   *)
(* and transcriptionSocketSession (frontend/domains/transcription).        *)
(*                                                                         *)
(* The server emits a final before it has stored it, and to whoever is     *)
(* connected then.  After a reconnect the page reads the stored segments   *)
(* and merges them with what it shows.  Finals are numbered in the order   *)
(* of their start times; times are tenths of a second.                     *)
(***************************************************************************)
EXTENDS Integers, Sequences, FiniteSets

CONSTANTS
    Finals,         \* 1..n, the final results of the meeting
    TextOf,         \* the text of each, normalized for comparison
    StartOf, EndOf, \* their times
    Legacy,         \* finals whose row has no providerResultId
    Foreign,        \* finals that are translated
    MaxSockets,     \* bound on the sockets the page opens
    MaxLosses       \* bound on lost connections and refusals

ASSUME TranscriptAssumption ==
    /\ IsFiniteSet(Finals) /\ Finals = 1..Cardinality(Finals)
    /\ Legacy \subseteq Finals /\ Foreign \subseteq Finals
    /\ \A f \in Finals : StartOf[f] \in Nat /\ EndOf[f] \in Nat
    /\ MaxSockets \in Nat /\ MaxLosses \in Nat

VARIABLES
    segments,       \* the store's segments: [id, tr]
    partial,        \* the final whose partial is shown, 0 for none
    link,           \* the socket, the refs of the hook and the flags it shows
    recoveries,     \* sockets whose recoverTranscriptionSocketAuth waits
    resync,         \* resyncGenerationRef and the list requests under way
    wire,           \* payloads on their way to the page
    backend,        \* finals emitted, stored, translated, stored translated
    recovered,      \* auxiliary: the rows of the last merge
    losses          \* bound

transcriptVars == <<segments, partial, link, recoveries, resync, wire, backend,
                    recovered, losses>>
connection == <<link, recoveries, resync, losses>>

\* A segment of a row without providerResultId gets the id "server-<row>".
ServerId(f) == -f
FinalOf(entry) == IF entry.id < 0 THEN -entry.id ELSE entry.id
Translations == {"none", "pending", "done", "failed"}
Link == [socket : 0..MaxSockets, conn : {"none", "connecting", "up", "off"},
         once : BOOLEAN,        \* hasConnectedOnce
         expelled : {"no", "auth", "other"},    \* error sent, disconnect follows
         authPending : BOOLEAN, isRecovering : BOOLEAN,
         error : {"none", "auth", "lost", "other"}, fellBack : BOOLEAN]

TranscriptTypeOK ==
    /\ \A k \in 1..Len(segments) :
         segments[k] \in [id : Finals \cup {ServerId(f) : f \in Finals}, tr : Translations]
    /\ partial \in Finals \cup {0} /\ link \in Link
    /\ recoveries \subseteq 1..MaxSockets /\ recovered \subseteq Finals
    /\ backend \in [emitted : Finals \cup {0}, rows : SUBSET Finals,
                   outcome : [Foreign -> {"none", "translated", "failed"}],
                   translated : SUBSET Finals]

NoLink == [socket |-> 0, conn |-> "none", once |-> FALSE, expelled |-> "no",
           authPending |-> FALSE, isRecovering |-> FALSE, error |-> "none",
           fellBack |-> FALSE]

TranscriptInit ==
    /\ segments = <<>> /\ partial = 0 /\ link = NoLink /\ recoveries = {}
    /\ resync = [generation |-> 0, requests |-> {}]
    /\ wire = <<>>
    /\ backend = [emitted |-> 0, rows |-> {}, translated |-> {},
                 outcome |-> [f \in Foreign |-> "none"]]
    /\ recovered = {} /\ losses = 0

(***************************************************************************)
(* The store                                                               *)
(***************************************************************************)
distance(a, b) == IF a < b THEN b - a ELSE a - b
sameText(f, g) == TextOf[f] = TextOf[g]

isEquivalentSegment(f, g) ==
    sameText(f, g) /\ distance(StartOf[f], StartOf[g]) <= 10
                   /\ distance(EndOf[f], EndOf[g]) <= 10

\* Mutant of recentDuplicate: only the result id tells repeated finals apart.
neverDuplicate(f) == FALSE

\* The same text within 2.5 s among the last three segments (the narrower test
\* against the last one is part of it).
recentDuplicate(f) ==
    \E k \in 1..Len(segments) :
        /\ k > Len(segments) - 3
        /\ sameText(FinalOf(segments[k]), f)
        /\ distance(EndOf[FinalOf(segments[k])], EndOf[f]) < 25

\* handlePayload of a final.
showFinal(f) ==
    /\ partial' = 0
    /\ segments' = IF recentDuplicate(f) \/ \E k \in 1..Len(segments) : segments[k].id = f
                   THEN segments
                   ELSE Append(segments,
                               [id |-> f, tr |-> IF f \in Foreign THEN "pending" ELSE "none"])

showTranslation(f, failed) ==
    segments' = [k \in 1..Len(segments) |->
                    IF segments[k].id # f THEN segments[k]
                    ELSE [segments[k] EXCEPT !.tr = IF failed THEN "failed" ELSE "done"]]

\* The members of S in an order that is given by its pairs.  (SortSeq chooses
\* a permutation that does not exist when two different entries tie.)
inOrder(S, order) ==
    [k \in 1..Cardinality(S) |->
        CHOOSE x \in S : Cardinality({y \in S : <<y, x>> \in order}) = k]

ascending(S) == inOrder(S, {p \in S \X S : p[1] <= p[2]})

\* The segments shown that are taken for the row of f.
matches(f) ==
    {k \in 1..Len(segments) : \/ f \notin Legacy /\ segments[k].id = f
                             \/ isEquivalentSegment(FinalOf(segments[k]), f)}

\* The row of f as a segment: its id is the provider's, that of the segment
\* shown already, or the row's.
rowSegment(f, isTranslated) ==
    LET match == segments[CHOOSE k \in matches(f) : \A j \in matches(f) : k <= j]
    IN  [id |-> IF f \notin Legacy THEN f
                ELSE IF matches(f) # {} THEN match.id ELSE ServerId(f),
         tr |-> IF isTranslated THEN "done"
                ELSE IF matches(f) # {} THEN match.tr ELSE "none"]

synced(rows, translated) ==
    [k \in 1..Cardinality(rows) |->
        rowSegment(ascending(rows)[k], ascending(rows)[k] \in translated)]

\* Shown segments more than half a second after the last row.
localTail(fromServer) ==
    LET maxServerEndTime == EndOf[FinalOf(fromServer[Len(fromServer)])]
        kept == {j \in 1..Len(segments) :
                   /\ EndOf[FinalOf(segments[j])] > maxServerEndTime + 5
                   /\ \A k \in 1..Len(fromServer) :
                        /\ fromServer[k].id # segments[j].id
                        /\ ~isEquivalentSegment(FinalOf(fromServer[k]), FinalOf(segments[j]))}
    IN  [k \in 1..Cardinality(kept) |-> segments[ascending(kept)[k]]]

\* A stable sort: entries of one start time keep their order.
byStart(entries) ==
    LET start(k) == StartOf[FinalOf(entries[k])]
        places == 1..Len(entries)
        order == {p \in places \X places :
                    \/ start(p[1]) < start(p[2])
                    \/ start(p[1]) = start(p[2]) /\ p[1] <= p[2]}
    IN  [k \in places |-> entries[inOrder(places, order)[k]]]

\* An empty answer changes nothing.
syncSegmentsFromServer(rows, translated) ==
    LET fromServer == synced(rows, translated)
    IN  segments' = IF rows = {} THEN segments
                    ELSE byStart(fromServer \o localTail(fromServer))

(***************************************************************************)
(* The server (handleTranscriptEvent, saveFinalSegment,                    *)
(* translateAndPatchSegment)                                               *)
(***************************************************************************)
\* What is emitted reaches the sockets in the meeting's room only.
ToRoom(payload) ==
    wire' = IF link.conn = "up" /\ link.expelled = "no" THEN Append(wire, payload) ELSE wire

\* One partial on its way at a time, a bound.
EmitPartial ==
    /\ backend.emitted + 1 \in Finals /\ link.conn = "up" /\ wire = <<>>
    /\ partial # backend.emitted + 1
    /\ ToRoom([type |-> "partial", id |-> backend.emitted + 1])
    /\ UNCHANGED <<segments, partial, connection, backend, recovered>>

EmitFinal ==
    /\ backend.emitted + 1 \in Finals
    /\ backend' = [backend EXCEPT !.emitted = @ + 1]
    /\ ToRoom([type |-> "final", id |-> backend.emitted + 1])
    /\ UNCHANGED <<segments, partial, connection, recovered>>

\* The inserts of two finals are not ordered.
StoreFinal(f) ==
    /\ f <= backend.emitted /\ f \notin backend.rows
    /\ backend' = [backend EXCEPT !.rows = @ \cup {f}]
    /\ UNCHANGED <<segments, partial, connection, wire, recovered>>

\* The translation is emitted, or its failure ...
Translate(f, outcome) ==
    /\ f \in Foreign /\ f <= backend.emitted /\ backend.outcome[f] = "none"
    /\ backend' = [backend EXCEPT !.outcome[f] = outcome]
    /\ ToRoom([type |-> outcome, id |-> f])
    /\ UNCHANGED <<segments, partial, connection, recovered>>

\* ... and added to the row once that is stored.
StoreTranslation(f) ==
    /\ f \in (Foreign \cap backend.rows) \ backend.translated
    /\ backend.outcome[f] = "translated"
    /\ backend' = [backend EXCEPT !.translated = @ \cup {f}]
    /\ UNCHANGED <<segments, partial, connection, wire, recovered>>

\* handlePayload.
Deliver ==
    LET payload == wire[1]
    IN  /\ wire # <<>>
        /\ wire' = Tail(wire)
        /\ \/ /\ payload.type = "partial"
              /\ partial' = payload.id /\ UNCHANGED segments
           \/ /\ payload.type = "final"
              /\ showFinal(payload.id)
           \/ /\ payload.type \in {"translated", "failed"}
              /\ showTranslation(payload.id, payload.type = "failed")
              /\ UNCHANGED partial
        /\ UNCHANGED <<connection, backend, recovered>>

(***************************************************************************)
(* The socket                                                              *)
(***************************************************************************)
Lose == losses < MaxLosses /\ losses' = losses + 1
noPayload == <<segments, partial, backend, recovered>>

\* The effect of useTranscription creates a socket for a realtime meeting.
OpenSocket ==
    /\ link.conn = "none" /\ link.socket < MaxSockets /\ ~link.fellBack
    /\ link' = [NoLink EXCEPT !.socket = link.socket + 1, !.conn = "connecting"]
    /\ UNCHANGED <<noPayload, recoveries, resync, wire, losses>>

\* Its cleanup, when the page is left, the session changes or the meeting has
\* become a batch meeting.
CloseSocket ==
    /\ link.conn # "none"
    /\ link' = [NoLink EXCEPT !.socket = link.socket, !.fellBack = link.fellBack]
    /\ resync' = [resync EXCEPT !.generation = @ + 1]
    /\ segments' = <<>> /\ partial' = 0 /\ wire' = <<>> /\ recovered' = {}
    /\ UNCHANGED <<recoveries, backend, losses>>

\* 'connect': not the first time, the stored segments are asked for.
Connected ==
    /\ link.conn = "connecting"
    /\ link' = [link EXCEPT !.conn = "up", !.once = TRUE, !.authPending = FALSE,
                            !.error = "none"]
    /\ resync' = IF ~link.once THEN resync
                 ELSE [generation |-> resync.generation + 1,
                       requests |-> resync.requests \cup
                          {[generation |-> resync.generation + 1, socket |-> link.socket,
                            read |-> FALSE, rows |-> {}, translated |-> {}]}]
    /\ UNCHANGED <<noPayload, recoveries, wire, losses>>

\* The SELECT of a list request.
ReadRows(request) ==
    /\ request \in resync.requests /\ ~request.read
    /\ resync' = [resync EXCEPT !.requests = (@ \ {request}) \cup
                    {[request EXCEPT !.read = TRUE, !.rows = backend.rows,
                                     !.translated = backend.translated]}]
    /\ UNCHANGED <<noPayload, link, recoveries, wire, losses>>

\* Mutant of isLastRequest: answers are merged as they come.
isAnyRequest(request) == request.socket = link.socket /\ link.conn # "none"

isLastRequest(request) ==
    request.generation = resync.generation /\ request.socket = link.socket

\* Its answer, merged when it is the last request's and the socket is the same.
RowsArrive(request) ==
    /\ request \in resync.requests /\ request.read
    /\ resync' = [resync EXCEPT !.requests = @ \ {request}]
    /\ IF isLastRequest(request)
       THEN /\ syncSegmentsFromServer(request.rows, request.translated)
            /\ recovered' = recovered \cup request.rows
       ELSE UNCHANGED <<segments, recovered>>
    /\ UNCHANGED <<partial, link, recoveries, wire, backend, losses>>

RequestFails(request) ==
    /\ request \in resync.requests
    /\ Lose
    /\ resync' = [resync EXCEPT !.requests = @ \ {request}]
    /\ UNCHANGED <<noPayload, link, recoveries, wire>>

\* recoverTranscriptionSocketAuth up to its await: one at a time.
Recovering(next) ==
    /\ link' = [next EXCEPT !.isRecovering = TRUE]
    /\ recoveries' = IF next.isRecovering THEN recoveries ELSE recoveries \cup {next.socket}

\* The transport breaks: socket.io reconnects by itself.
TransportLost ==
    /\ link.conn = "up"
    /\ Lose
    /\ link' = [link EXCEPT !.conn = "connecting", !.expelled = "no"]
    /\ wire' = <<>>
    /\ UNCHANGED <<noPayload, recoveries, resync>>

\* ... but not for ever.
ReconnectFailed ==
    /\ link.conn = "connecting" /\ losses > 0
    /\ link' = [link EXCEPT !.conn = "off", !.error = "lost", !.fellBack = TRUE]
    /\ UNCHANGED <<noPayload, recoveries, resync, wire, losses>>

\* 'error': the token has expired or is refused, or something else.  The server has no middleware
\* that refuses a handshake, it answers a refused client on the open connection: 'connect_error'
\* then only says that an attempt to connect failed (conn stays "connecting") and is left out.
ErrorEvent(kind) ==
    /\ link.conn = "up" /\ link.expelled = "no"
    /\ Lose
    /\ IF kind = "auth"
       THEN Recovering([link EXCEPT !.expelled = kind, !.error = "auth", !.authPending = TRUE])
       ELSE /\ link' = [link EXCEPT !.expelled = kind, !.error = "other"]
            /\ UNCHANGED recoveries
    /\ UNCHANGED <<noPayload, resync, wire>>

\* Mutant of ServerDisconnects: the recovery begun at the error is relied on.
ServerDisconnectsOnly ==
    /\ link.conn = "up" /\ link.expelled # "no" /\ wire = <<>>
    /\ link' = [link EXCEPT !.conn = "off", !.expelled = "no", !.authPending = FALSE]
    /\ UNCHANGED <<noPayload, recoveries, resync, wire, losses>>

\* 'disconnect' by the server: socket.io stays off; after an authentication
\* error the token is renewed once more.
ServerDisconnects ==
    LET off == [link EXCEPT !.conn = "off", !.expelled = "no", !.authPending = FALSE]
    IN  /\ link.conn = "up" /\ link.expelled # "no" /\ wire = <<>>
        /\ IF link.authPending THEN Recovering(off)
           ELSE link' = off /\ UNCHANGED recoveries
        /\ UNCHANGED <<noPayload, resync, wire, losses>>

\* getSession answers with a token: connect again, unless connected still.
TokenRenewed(k) ==
    /\ k \in recoveries
    /\ recoveries' = recoveries \ {k}
    /\ link' = [link EXCEPT !.isRecovering = FALSE,
                            !.conn = IF k = link.socket /\ @ = "off" THEN "connecting" ELSE @]
    /\ UNCHANGED <<noPayload, resync, wire, losses>>

\* The refresh token has expired too: the rest is left to batch transcription.
TokenLost(k) ==
    /\ k \in recoveries
    /\ recoveries' = recoveries \ {k}
    /\ link' = [link EXCEPT !.isRecovering = FALSE, !.error = "auth", !.fellBack = TRUE]
    /\ UNCHANGED <<noPayload, resync, wire, losses>>

TranscriptNext ==
    \/ EmitPartial \/ EmitFinal \/ Deliver
    \/ \E f \in Finals : StoreFinal(f)
    \/ \E f \in Foreign, outcome \in {"translated", "failed"} : Translate(f, outcome)
    \/ \E f \in Foreign : StoreTranslation(f)
    \/ OpenSocket \/ CloseSocket \/ Connected \/ TransportLost \/ ReconnectFailed
    \/ \E kind \in {"auth", "other"} : ErrorEvent(kind)
    \/ ServerDisconnects
    \/ \E request \in resync.requests :
         ReadRows(request) \/ RowsArrive(request) \/ RequestFails(request)
    \/ \E k \in recoveries : TokenRenewed(k) \/ TokenLost(k)

TranscriptSpec == TranscriptInit /\ [][TranscriptNext]_transcriptVars

(***************************************************************************)
(* Properties                                                              *)
(***************************************************************************)
\* What a merge has brought back stays on the screen until the transcript is
\* cleared: an older answer that comes late takes nothing away
\* (useTranscription.ts:113-127).
RecoveredStaysShown ==
    recovered \subseteq {FinalOf(segments[k]) : k \in 1..Len(segments)}

\* No utterance is shown twice, in whatever order its live event and its row
\* arrive (transcriptionStore.ts:191-218, 249-258, 278-289).  A row without
\* providerResultId is recognized while it is among the last three segments.
NoSegmentTwice ==
    \A j, k \in 1..Len(segments) : FinalOf(segments[j]) = FinalOf(segments[k]) => j = k

\* After the server has thrown the page out for its token, the page is never
\* left without a socket that connects, a renewal under way, or the switch to
\* batch (transcriptionSocketSession.ts:123-155, 65-78).
ExpelledRecovers ==
    (link.conn = "off" /\ link.error = "auth")
        => link.fellBack \/ link.socket \in recoveries
=============================================================================
