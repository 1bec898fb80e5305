--------------------------- MODULE MeetingRecorder ---------------------------
(***************************************************************************)
(* The page of a meeting in progress: useAudioCapture, useMediaRecorder,   *)
(* audioChunkDB, the effects of useInProgressMeetingPageController and the *)
(* way useInProgressEndMeetingFlow collects the recording.  Audio          *)
(* streaming is one state here (see AudioStreaming), and uploading one     *)
(* step that may fail (see BatchPipeline).                                 *)
(*                                                                         *)
(* An effect is an action that is enabled while its conditions hold; a     *)
(* handler uses the values of the render it was created in, kept in        *)
(* "click".  A recorder that stopped delivers its last events before a     *)
(* microphone asked for afterwards is granted, and before the server has   *)
(* saved a note or ended the meeting.                                      *)
(***************************************************************************)
EXTENDS Integers, FiniteSets

CONSTANTS
    MaxSessions,    \* recordings started: a bound
    MaxChunks,      \* chunks of a recording: a bound
    MaxRequests,    \* microphone requests: a bound
    MaxReloads      \* reloads of the page: a bound

ASSUME RecorderAssumption == {MaxSessions, MaxChunks, MaxRequests, MaxReloads} \subseteq Nat

VARIABLES
    server,     \* the meeting row: its mode, and whether it still records
    meeting,    \* currentMeeting of the page: none, recording, ended
    pageMode,       \* its transcriptionMode
    live,       \* the transcription socket, the streaming, the fallback
    mic,        \* useAudioCapture and handleDeviceChange
    rec,        \* useMediaRecorder
    saves,      \* pendingSavesRef
    db,         \* the chunks in IndexedDB
    ending,     \* where useInProgressEndMeetingFlow is
    click,      \* the recorder's state and the mode when the end was confirmed
    taken,      \* the chunks of the sessions it collected
    recorders,  \* auxiliary: recorders made, over all loads of the page
    produced,   \* auxiliary: every chunk a recorder made
    spoiled,    \* auxiliary: the browser's storage or a recorder has failed, or a
                \* recorder was started beside an onstop that still waits
    uploaded,   \* auxiliary: chunks uploaded, or given up by the user
    reloads     \* auxiliary: reloads so far

flow == <<ending, click, taken>>
auxiliary == <<recorders, produced, spoiled, uploaded, reloads>>
recorderVars == <<server, meeting, pageMode, live, mic, rec, saves, db, flow, auxiliary>>

RecordedChunk == [session : 1..MaxSessions, index : 0..MaxChunks, by : 1..MaxSessions]
Modes == {"REALTIME", "BATCH"}

RecorderTypeOK ==
    /\ server \in [mode : Modes, open : BOOLEAN] /\ pageMode \in Modes
    /\ meeting \in {"none", "recording", "ended"}
    /\ live \in [up : BOOLEAN, streaming : BOOLEAN, fed : 0..MaxRequests, fallenBack : BOOLEAN,
                 patching : BOOLEAN]
    /\ mic \in [permission : {"prompt", "granted", "denied"}, stream : 0..MaxRequests,
                asked : BOOLEAN, requests : SUBSET (1..MaxRequests), gen : Nat,
                recovered : BOOLEAN, changing : BOOLEAN]
    /\ rec.state \in {"idle", "recording", "stopping"} /\ rec.session \in 0..MaxSessions
    /\ rec.finishing \subseteq 1..MaxSessions
    /\ (saves \cup db \cup taken) \subseteq RecordedChunk
    /\ ending \in {"no", "note", "stop", "end", "upload", "failed", "skip", "over"}

NoStreaming == [up |-> FALSE, streaming |-> FALSE, fed |-> 0, fallenBack |-> FALSE,
                patching |-> FALSE]
NoMicrophone == [permission |-> "prompt", stream |-> 0, asked |-> FALSE, requests |-> {},
                 gen |-> 0, recovered |-> FALSE, changing |-> FALSE]
NoRecorder == [state |-> "idle", active |-> FALSE, session |-> 0, number |-> 0, index |-> 0, knows |-> FALSE,
               finishing |-> {}, onstops |-> {}, resolve |-> FALSE]
NoClick == [recorder |-> "idle", mode |-> "BATCH"]

RecorderInit ==
    /\ pageMode \in Modes /\ server = [mode |-> pageMode, open |-> TRUE] /\ meeting = "recording"
    /\ live = NoStreaming /\ mic = NoMicrophone /\ rec = NoRecorder
    /\ saves = {} /\ db = {} /\ ending = "no" /\ click = NoClick /\ taken = {}
    /\ recorders = 0 /\ produced = {} /\ spoiled = FALSE /\ uploaded = {} /\ reloads = 0

isEnding == ending \in {"note", "stop", "end"}

(***************************************************************************)
(* The microphone                                                          *)
(***************************************************************************)
\* The tracks end under a recorder: it stops, and its last events follow.
TracksEnded(r) ==
    [r EXCEPT !.active = FALSE,
              !.finishing = IF r.active THEN @ \cup {r.number} ELSE @]

\* requestPermission up to getUserMedia.
Asking(m) ==
    [m EXCEPT !.gen = @ + 1, !.requests = @ \cup {m.gen + 1}, !.stream = 0]

MayAsk == mic.gen < MaxRequests

\* The effect of the first render with a meeting.
RequestMicrophone ==
    /\ meeting = "recording" /\ ~mic.asked /\ mic.permission = "prompt" /\ MayAsk
    /\ mic' = [Asking(mic) EXCEPT !.asked = TRUE]
    /\ UNCHANGED <<server, meeting, pageMode, live, rec, saves, db, flow, auxiliary>>

\* Mutant of Overtaken: the answer to an older request is taken too.
NeverOvertaken(g) == FALSE

Overtaken(g) == g # mic.gen

\* getUserMedia answers; the stream of a request that was overtaken is stopped.
MicrophoneAnswers(g) ==
    LET rest == [mic EXCEPT !.requests = @ \ {g}]
    IN  /\ g \in mic.requests /\ rec.finishing = {}
        /\ mic' \in IF Overtaken(g) THEN {rest}
                    ELSE {[rest EXCEPT !.permission = "granted", !.stream = g,
                                       !.recovered = FALSE],
                          [rest EXCEPT !.permission = "denied"],
                          [rest EXCEPT !.permission = "prompt"]}
        /\ UNCHANGED <<server, meeting, pageMode, live, rec, saves, db, flow, auxiliary>>

\* The device is taken away: one attempt to get it back per outage.
DeviceLost ==
    /\ mic.stream # 0 /\ MayAsk
    /\ rec' = TracksEnded(rec)
    /\ mic' = IF mic.recovered THEN [mic EXCEPT !.stream = 0]
              ELSE [Asking(mic) EXCEPT !.recovered = TRUE]
    /\ UNCHANGED <<server, meeting, pageMode, live, saves, db, flow, auxiliary>>

\* handleDeviceChange: stopCapture, then the streaming or the recorder is
\* stopped; the recorder is inactive by then, or is told to stop.
ChangeDevice ==
    /\ meeting = "recording" /\ ~mic.changing /\ mic.stream # 0 /\ ~isEnding
    /\ mic.gen + 1 < MaxRequests
    /\ mic' = [mic EXCEPT !.stream = 0, !.gen = @ + 1, !.changing = TRUE]
    /\ \/ /\ pageMode = "REALTIME"
          /\ live' = [live EXCEPT !.streaming = FALSE] /\ rec' = TracksEnded(rec)
       \/ /\ pageMode = "BATCH" /\ UNCHANGED live
          /\ \/ rec' = [TracksEnded(rec) EXCEPT !.state = "idle"]
             \/ /\ rec.active
                /\ rec' = [TracksEnded(rec) EXCEPT !.state = "stopping", !.resolve = TRUE]
    /\ UNCHANGED <<server, meeting, pageMode, saves, db, flow, auxiliary>>

\* ...and once it has stopped, the new device is asked for.
AskForDevice ==
    /\ mic.changing /\ (pageMode = "REALTIME" \/ (~rec.resolve /\ saves = {})) /\ MayAsk
    /\ mic' = [Asking(mic) EXCEPT !.changing = FALSE]
    /\ UNCHANGED <<server, meeting, pageMode, live, rec, saves, db, flow, auxiliary>>

(***************************************************************************)
(* The recorder                                                            *)
(***************************************************************************)
Used == {c.session : c \in produced} \cup {rec.session}

\* Mutant of NewSession: a page numbers its recordings from one.
SessionOfPage == rec.session + 1

\* createSessionId: never used before, not even by an earlier load of the page.
NewSession == 1 + (CHOOSE n \in Used : \A o \in Used : o <= n)

\* The effect that starts the recorder, when a stream is there.
StartRecording ==
    /\ meeting = "recording" /\ mic.stream # 0 /\ ~isEnding
    /\ pageMode = "BATCH" /\ rec.state = "idle" /\ ~rec.active
    /\ recorders < MaxSessions
    /\ rec' = [rec EXCEPT !.session = NewSession, !.number = recorders + 1, !.index = 0, !.knows = TRUE,
                          !.active = TRUE, !.state = "recording"]
    /\ live' = [live EXCEPT !.fed = 0]
    /\ spoiled' = (spoiled \/ rec.onstops # {})
    /\ recorders' = recorders + 1
    /\ UNCHANGED <<server, meeting, pageMode, mic, saves, db, flow, produced, uploaded, reloads>>

\* ondataavailable of recorder "by": under the session and the index of now.
Produce(by) ==
    LET c == [session |-> rec.session, index |-> rec.index, by |-> by]
    IN  produced' = produced \cup {c} /\ saves' = saves \cup {c}

\* Every ten seconds.
Timeslice ==
    /\ rec.active /\ rec.index < MaxChunks
    /\ Produce(rec.number)
    /\ rec' = [rec EXCEPT !.index = @ + 1]
    /\ UNCHANGED <<server, meeting, pageMode, live, mic, db, flow, spoiled, uploaded, reloads, recorders>>

\* The last data of recorder s, if there is any, and onstop up to its await.
LastEvents(s, r) ==
    \/ /\ rec.index < MaxChunks
       /\ Produce(s)
       /\ rec' = [r EXCEPT !.index = @ + 1, !.onstops = @ \cup {[number |-> s, waits |-> saves']}]
    \/ /\ rec' = [r EXCEPT !.onstops = @ \cup {[number |-> s, waits |-> saves]}]
       /\ UNCHANGED <<produced, saves>>

\* A recorder that was stopped, or whose tracks ended.
LastData(s) ==
    /\ s \in rec.finishing
    /\ LastEvents(s, [rec EXCEPT !.finishing = @ \ {s}])
    /\ UNCHANGED <<server, meeting, pageMode, live, mic, db, flow, spoiled, uploaded, reloads, recorders>>

\* Puts by the id of a chunk.
Put(S) == {d \in db : \A c \in S : d.session # c.session \/ d.index # c.index} \cup S

\* saveChunk, unless the storage is full.
SaveSettles(c) ==
    /\ c \in saves
    /\ saves' = saves \ {c}
    /\ \/ db' = Put({c}) /\ UNCHANGED spoiled
       \/ spoiled' = TRUE /\ UNCHANGED db
    /\ UNCHANGED <<server, meeting, pageMode, live, mic, rec, flow, produced, uploaded, reloads, recorders>>

\* The rest of onstop; when IndexedDB cannot be read, stopRecording never ends.
RecorderStopped(o) ==
    /\ o \in rec.onstops /\ o.waits \cap saves = {}
    /\ \/ /\ rec' = [rec EXCEPT !.onstops = @ \ {o}, !.state = "idle", !.resolve = FALSE]
          /\ IF rec.resolve /\ ending = "stop"
             THEN taken' = db /\ ending' = "end"
             ELSE UNCHANGED <<taken, ending>>
          /\ UNCHANGED spoiled
       \/ /\ rec' = [rec EXCEPT !.onstops = @ \ {o}]
          /\ spoiled' = TRUE /\ UNCHANGED <<taken, ending>>
    /\ UNCHANGED <<server, meeting, pageMode, live, mic, saves, db, click, produced, uploaded, reloads, recorders>>

\* onerror: the hook is idle; the last data and onstop come in the same task.
RecorderFails ==
    /\ rec.active
    /\ LastEvents(rec.number, [rec EXCEPT !.active = FALSE, !.state = "idle"])
    /\ spoiled' = TRUE
    /\ UNCHANGED <<server, meeting, pageMode, live, mic, db, flow, uploaded, reloads, recorders>>

(***************************************************************************)
(* Realtime mode                                                           *)
(***************************************************************************)
SocketChanges ==
    /\ pageMode = "REALTIME" /\ meeting = "recording"
    /\ live' = [live EXCEPT !.up = ~@]
    /\ UNCHANGED <<server, meeting, pageMode, mic, rec, saves, db, flow, auxiliary>>

\* The streaming effects: a stream that is gone or replaced is stopped first.
StreamChanges ==
    /\ pageMode = "REALTIME" /\ meeting = "recording"
    /\ \/ /\ live.fed # 0 /\ live.fed # mic.stream
          /\ live' = [live EXCEPT !.fed = 0, !.streaming = FALSE]
       \/ /\ live.fed = 0 /\ mic.stream # 0 /\ ~live.streaming /\ live.up /\ ~isEnding
          /\ live' = [live EXCEPT !.fed = mic.stream, !.streaming = TRUE]
    /\ UNCHANGED <<server, meeting, pageMode, mic, rec, saves, db, flow, auxiliary>>

\* handleRealtimeFallbackToBatch, for whatever reason: once per meeting.
FallBackToBatch ==
    /\ meeting = "recording" /\ pageMode = "REALTIME" /\ ~live.fallenBack
    /\ live' = [live EXCEPT !.fallenBack = TRUE, !.streaming = FALSE, !.patching = TRUE,
                            !.up = FALSE]
    /\ pageMode' = "BATCH"
    /\ UNCHANGED <<server, meeting, mic, rec, saves, db, flow, auxiliary>>

\* PATCH of the mode: done, or failed and forgotten.
ModePatched ==
    /\ live.patching
    /\ live' = [live EXCEPT !.patching = FALSE]
    /\ server' \in {server, [server EXCEPT !.mode = IF server.open THEN "BATCH" ELSE @]}
    /\ UNCHANGED <<meeting, pageMode, mic, rec, saves, db, flow, auxiliary>>

(***************************************************************************)
(* The end of the meeting                                                  *)
(***************************************************************************)
EndConfirm ==
    /\ meeting = "recording" /\ ending = "no"
    /\ ending' = "note" /\ click' = [recorder |-> rec.state, mode |-> pageMode]
    /\ UNCHANGED <<server, meeting, pageMode, live, mic, rec, saves, db, taken, auxiliary>>

NoteRefused ==
    /\ ending = "note"
    /\ ending' = "no"
    /\ UNCHANGED <<server, meeting, pageMode, live, mic, rec, saves, db, click, taken, auxiliary>>

\* assembleSessions: nothing, unless this page has started a recording.
Assembled == IF rec.knows THEN db ELSE {}

Collected(chunks) == ending' = "end" /\ taken' = chunks

\* The note is saved and the streaming stopped: stopRecording of a recorder
\* that runs, one that has stopped already, or none by the clicked render.
CollectSessions ==
    /\ ending = "note"
    /\ live' = [live EXCEPT !.streaming = (@ /\ click.mode = "BATCH")]
    /\ \/ /\ click.recorder # "idle" /\ rec.active
          /\ rec' = [TracksEnded(rec) EXCEPT !.state = "stopping", !.resolve = TRUE]
          /\ ending' = "stop" /\ UNCHANGED taken
       \/ /\ click.recorder # "idle" /\ ~rec.active /\ rec.finishing = {} /\ saves = {}
          /\ rec' = [rec EXCEPT !.state = "idle"]
          /\ Collected(Assembled)
       \/ /\ click.recorder = "idle" /\ rec.finishing = {}
          /\ Collected(Assembled) /\ UNCHANGED rec
    /\ UNCHANGED <<server, meeting, pageMode, mic, saves, db, click, auxiliary>>

\* IndexedDB cannot be read: the end goes on without a recording.
CollectFails ==
    /\ ending = "note" /\ (click.recorder = "idle" \/ ~rec.active)
    /\ Collected({}) /\ spoiled' = TRUE
    /\ UNCHANGED <<server, meeting, pageMode, live, mic, rec, saves, db, click, produced, uploaded,
                   reloads, recorders>>

runsBatch == click.mode = "BATCH" /\ taken # {}

\* cleanupChunks: of the meeting this page recorded; it may fail.
CleanupChunks(r) ==
    \/ db' = (IF rec.knows THEN {} ELSE db) /\ rec' = [r EXCEPT !.state = "idle"]
    \/ db' = db /\ rec' = r

EndRefused ==
    /\ ending = "end" /\ rec.finishing = {}
    /\ ending' = "no"
    /\ UNCHANGED <<server, meeting, pageMode, live, mic, rec, saves, db, click, taken, auxiliary>>

\* endMeeting succeeds: stopCapture, then the upload, or nothing to upload.
EndAccepted ==
    /\ ending = "end" /\ rec.finishing = {}
    /\ server' = [server EXCEPT !.open = FALSE]
    /\ mic' = [mic EXCEPT !.stream = 0, !.gen = @ + 1]
    /\ IF runsBatch
       THEN ending' = "upload" /\ meeting' = "ended" /\ rec' = TracksEnded(rec) /\ UNCHANGED db
       ELSE ending' = "over" /\ meeting' = "none" /\ CleanupChunks(TracksEnded(rec))
    /\ UNCHANGED <<pageMode, live, saves, click, taken, auxiliary>>

\* Mutant of UploadDone: the chunks go whether the upload succeeds or not.
UploadTried(ok) ==
    /\ ending' = IF ok THEN "over" ELSE "failed"
    /\ uploaded' = IF ok THEN uploaded \cup taken ELSE uploaded
    /\ CleanupChunks(rec)

\* uploadSessions: all of them, then the chunks are cleared.
UploadDone(ok) ==
    /\ ending' = IF ok THEN "over" ELSE "failed"
    /\ uploaded' = IF ok THEN uploaded \cup taken ELSE uploaded
    /\ IF ok THEN CleanupChunks(rec) ELSE UNCHANGED <<db, rec>>

Upload ==
    /\ ending = "upload"
    /\ \E ok \in BOOLEAN : UploadDone(ok)
    /\ UNCHANGED <<server, meeting, pageMode, live, mic, saves, click, taken, produced, spoiled, reloads, recorders>>

RetryUpload ==
    /\ ending = "failed"
    /\ taken' = Assembled /\ ending' = IF Assembled = {} THEN "skip" ELSE "upload"
    /\ UNCHANGED <<server, meeting, pageMode, live, mic, rec, saves, db, click, auxiliary>>

\* handleContinueWithoutAudio: the recording is given up.
ContinueWithoutAudio ==
    /\ ending \in {"failed", "skip"}
    /\ \/ ending' = "over" /\ uploaded' = uploaded \cup db /\ CleanupChunks(rec)
       \/ ending' = "failed" /\ UNCHANGED <<db, rec, uploaded>>
    /\ UNCHANGED <<server, meeting, pageMode, live, mic, saves, click, taken, produced, spoiled, reloads, recorders>>

(***************************************************************************)
(* The page                                                                *)
(***************************************************************************)
\* A reload: what is stored stays, a save under way may have come through, and
\* the meeting is read again from the server.
Reload ==
    /\ reloads < MaxReloads /\ meeting = "recording"
    /\ reloads' = reloads + 1
    /\ live' = NoStreaming /\ mic' = NoMicrophone /\ rec' = NoRecorder /\ saves' = {}
    /\ ending' = "no" /\ click' = NoClick /\ taken' = {}
    /\ \E S \in SUBSET saves : db' = Put(S) /\ spoiled' = (spoiled \/ S # saves)
    /\ pageMode' = server.mode /\ meeting' = IF server.open THEN "recording" ELSE "none"
    /\ UNCHANGED <<server, produced, uploaded, recorders>>

RecorderNext ==
    \/ RequestMicrophone \/ DeviceLost \/ ChangeDevice \/ AskForDevice
    \/ \E g \in mic.requests : MicrophoneAnswers(g)
    \/ StartRecording \/ Timeslice \/ RecorderFails
    \/ \E s \in rec.finishing : LastData(s)
    \/ \E c \in saves : SaveSettles(c)
    \/ \E o \in rec.onstops : RecorderStopped(o)
    \/ SocketChanges \/ StreamChanges \/ FallBackToBatch \/ ModePatched
    \/ EndConfirm \/ NoteRefused \/ CollectSessions \/ CollectFails \/ EndRefused \/ EndAccepted
    \/ Upload \/ RetryUpload \/ ContinueWithoutAudio \/ Reload

RecorderSpec == RecorderInit /\ [][RecorderNext]_recorderVars

(***************************************************************************)
(* Properties                                                              *)
(***************************************************************************)
\* A file holds the data of one recorder, and no chunk overwrites another:
\* restarts, other microphones and reloads never mix WebM files
\* (useMediaRecorder.ts:73-80).
FilesAreWhole ==
    /\ \A c, d \in db : (c.session = d.session) = (c.by = d.by)
    /\ ~spoiled /\ saves = {} /\ ending # "over" => produced \subseteq db

\* A recorded chunk leaves the browser's database only when it was uploaded or
\* the user gave the recording up: stopRecording waits for the last chunk
\* (useInProgressEndMeetingFlow.ts:134, 146).  Not so when the end was confirmed
\* while the hook was idle, because nothing is waited for then.
ClearedWhenUploaded ==
    [][~spoiled /\ click.recorder # "idle" => db \ db' \subseteq uploaded']_recorderVars

\* No stream is left open by a request that was overtaken, and the page never
\* records one (useAudioCapture.ts:150-153).
OneMicrophone == mic.stream # 0 => mic.stream = mic.gen
=============================================================================
