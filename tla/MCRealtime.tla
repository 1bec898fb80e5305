------------------------------ MODULE MCRealtime ------------------------------
(***************************************************************************)
(* The path of the audio of a meeting, for TLC: the gateway, the stream of  *)
(* a client, the recorder and the transcript on the screen.  One run checks *)
(* the four beside each other: a behaviour moves one of them, its part.     *)
(***************************************************************************)
EXTENDS RealtimeGateway, AudioStreaming, MeetingRecorder, TranscriptView, TLC

CONSTANTS m1, s1, s2

VARIABLE part

\* Two sockets of one meeting: two tabs, or a client that connects again.
SocketMeetings == [s \in Sockets |-> m1]

\* The second final repeats the first one soon after it.
FinalTexts == <<"a", "a">>
FinalStarts == <<0, 9>>
FinalEnds == <<3, 24>>

\* The two sockets of the meeting are interchangeable.
Symmetry == Permutations({s1, s2})

partVars == <<part, realtimeVars, audioVars, recorderVars, transcriptVars>>

Init ==
    /\ part \in {"gateway", "stream", "recorder", "view"}
    /\ RealtimeInit /\ AudioInit /\ RecorderInit /\ TranscriptInit
    /\ part # "recorder" => pageMode = "REALTIME"

\* What a step of a part leaves alone.
GatewayAlone == UNCHANGED <<part, audioVars, recorderVars, transcriptVars>>
StreamAlone == UNCHANGED <<part, realtimeVars, recorderVars, transcriptVars>>
RecorderAlone == UNCHANGED <<part, realtimeVars, audioVars, transcriptVars>>
ViewAlone == UNCHANGED <<part, realtimeVars, audioVars, recorderVars>>

Next ==
    \/ \E s \in Sockets :
         \/ part = "gateway" /\ Connect(s) /\ GatewayAlone
         \/ part = "gateway" /\ Register(s) /\ GatewayAlone
         \/ part = "gateway" /\ Refuse(s) /\ GatewayAlone
         \/ part = "gateway" /\ Disconnect(s) /\ GatewayAlone
         \/ part = "gateway" /\ Audio(s) /\ GatewayAlone
         \/ part = "gateway" /\ FallBack(s) /\ GatewayAlone
         \/ part = "gateway" /\ StartFindsMeeting(s) /\ GatewayAlone
         \/ part = "gateway" /\ StartReadsSegment(s) /\ GatewayAlone
         \/ part = "gateway" /\ Stop(s) /\ GatewayAlone
         \/ part = "gateway" /\ StopFoundMeeting(s) /\ GatewayAlone
    \/ \E m \in Meetings : part = "gateway" /\ GraceEnds(m) /\ GatewayAlone
    \/ \E m \in Meetings : part = "gateway" /\ FailuresExpire(m) /\ GatewayAlone
    \/ \E k \in Sessions : part = "gateway" /\ LoopStep(k) /\ GatewayAlone
    \/ \E k \in Sessions : part = "gateway" /\ Final(k) /\ GatewayAlone
    \/ part = "stream" /\ StartStreaming /\ StreamAlone
    \/ part = "stream" /\ StopStreaming /\ StreamAlone
    \/ part = "stream" /\ Capture /\ StreamAlone
    \/ part = "stream" /\ BackoffEnds /\ StreamAlone
    \/ part = "stream" /\ RetryTimer /\ StreamAlone
    \/ \E g \in opening : part = "stream" /\ Opened(g) /\ StreamAlone
    \/ \E g \in opening : part = "stream" /\ OpenFails(g) /\ StreamAlone
    \/ \E a \in acks : part = "stream" /\ AckArrives(a) /\ StreamAlone
    \/ \E t \in queue.sent : part = "stream" /\ AckTimesOut(t) /\ StreamAlone
    \/ part = "stream" /\ ConnectionDrops /\ StreamAlone
    \/ part = "stream" /\ Reconnects /\ StreamAlone
    \/ part = "stream" /\ Serve /\ StreamAlone
    \/ part = "stream" /\ SessionDecided /\ StreamAlone
    \/ part = "recorder" /\ RequestMicrophone /\ RecorderAlone
    \/ part = "recorder" /\ DeviceLost /\ RecorderAlone
    \/ part = "recorder" /\ ChangeDevice /\ RecorderAlone
    \/ part = "recorder" /\ AskForDevice /\ RecorderAlone
    \/ \E g \in mic.requests : part = "recorder" /\ MicrophoneAnswers(g) /\ RecorderAlone
    \/ part = "recorder" /\ StartRecording /\ RecorderAlone
    \/ part = "recorder" /\ Timeslice /\ RecorderAlone
    \/ part = "recorder" /\ RecorderFails /\ RecorderAlone
    \/ \E s \in rec.finishing : part = "recorder" /\ LastData(s) /\ RecorderAlone
    \/ \E c \in saves : part = "recorder" /\ SaveSettles(c) /\ RecorderAlone
    \/ \E o \in rec.onstops : part = "recorder" /\ RecorderStopped(o) /\ RecorderAlone
    \/ part = "recorder" /\ SocketChanges /\ RecorderAlone
    \/ part = "recorder" /\ StreamChanges /\ RecorderAlone
    \/ part = "recorder" /\ FallBackToBatch /\ RecorderAlone
    \/ part = "recorder" /\ ModePatched /\ RecorderAlone
    \/ part = "recorder" /\ EndConfirm /\ RecorderAlone
    \/ part = "recorder" /\ NoteRefused /\ RecorderAlone
    \/ part = "recorder" /\ CollectSessions /\ RecorderAlone
    \/ part = "recorder" /\ CollectFails /\ RecorderAlone
    \/ part = "recorder" /\ EndRefused /\ RecorderAlone
    \/ part = "recorder" /\ EndAccepted /\ RecorderAlone
    \/ part = "recorder" /\ Upload /\ RecorderAlone
    \/ part = "recorder" /\ RetryUpload /\ RecorderAlone
    \/ part = "recorder" /\ ContinueWithoutAudio /\ RecorderAlone
    \/ part = "recorder" /\ Reload /\ RecorderAlone
    \/ part = "view" /\ EmitPartial /\ ViewAlone
    \/ part = "view" /\ EmitFinal /\ ViewAlone
    \/ part = "view" /\ Deliver /\ ViewAlone
    \/ \E f \in Finals : part = "view" /\ StoreFinal(f) /\ ViewAlone
    \/ \E f \in Foreign, outcome \in {"translated", "failed"} :
         part = "view" /\ Translate(f, outcome) /\ ViewAlone
    \/ \E f \in Foreign : part = "view" /\ StoreTranslation(f) /\ ViewAlone
    \/ part = "view" /\ OpenSocket /\ ViewAlone
    \/ part = "view" /\ CloseSocket /\ ViewAlone
    \/ part = "view" /\ Connected /\ ViewAlone
    \/ part = "view" /\ TransportLost /\ ViewAlone
    \/ part = "view" /\ ReconnectFailed /\ ViewAlone
    \/ \E kind \in {"auth", "other"} : part = "view" /\ ErrorEvent(kind) /\ ViewAlone
    \/ part = "view" /\ ServerDisconnects /\ ViewAlone
    \/ \E request \in resync.requests : part = "view" /\ ReadRows(request) /\ ViewAlone
    \/ \E request \in resync.requests : part = "view" /\ RowsArrive(request) /\ ViewAlone
    \/ \E request \in resync.requests : part = "view" /\ RequestFails(request) /\ ViewAlone
    \/ \E k \in recoveries : part = "view" /\ TokenRenewed(k) /\ ViewAlone
    \/ \E k \in recoveries : part = "view" /\ TokenLost(k) /\ ViewAlone

Spec == Init /\ [][Next]_partVars

-----------------------------------------------------------------------------
(***************************************************************************)
(* Every variable of the part keeps its type.                               *)
(***************************************************************************)
TypesOK ==
    CASE part = "gateway" -> RealtimeTypeOK
      [] part = "stream" -> AudioTypeOK
      [] part = "recorder" -> RecorderTypeOK
      [] part = "view" -> TranscriptTypeOK
=============================================================================
