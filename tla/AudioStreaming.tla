--------------------------- MODULE AudioStreaming ---------------------------
(***************************************************************************)
(* The microphone's way to the server: useAudioStreaming,                  *)
(* audioStreamingRuntime and audioStreamingPolicy                          *)
(* (frontend/domains/transcription), against the handler of "audio" in     *)
(* TranscriptionGateway, of which only the order of its answers matters    *)
(* here: while the chunk that starts a session waits, the others are told  *)
(* "session-warming" (StartLockHeld of RealtimeGateway).                   *)
(*                                                                         *)
(* Times are events: an acknowledgement's timeout, the end of a backoff,   *)
(* ten seconds of saturation and 45 of absence may come at any moment.     *)
(***************************************************************************)
EXTENDS Integers, Sequences, FiniteSets

CONSTANTS
    MaxStarts,          \* starts, each with the end of the one before it: a bound
    MaxCaptured,        \* chunks captured per stream: a bound
    MaxStale,           \* messages on the wire together: a bound
    BufferLimit,        \* MAX_PENDING_CHUNKS
    MaxRetries,         \* MAX_CHUNK_RETRIES
    MaxTimeouts,        \* MAX_CONSECUTIVE_TIMEOUTS
    MaxBackpressure     \* MAX_CONSECUTIVE_BACKPRESSURE

ASSUME AudioAssumption ==
    /\ {MaxStarts, MaxCaptured, MaxStale, MaxRetries} \subseteq Nat
    /\ {BufferLimit, MaxTimeouts, MaxBackpressure} \subseteq Nat \ {0}

VARIABLES
    phase,          \* state of the hook
    opening,        \* starts that wait for the worklet module
    generation,     \* startGenerationRef
    startPending,       \* startingRef
    context,        \* audioContextRef: the start it belongs to, or 0
    worklet,        \* workletNodeRef: the start it belongs to, or 0
    attached,       \* socketRef is set
    guard,          \* stoppedByGuardRef
    queue,          \* the references clearAudioAckTrackers resets, and nextAckId
    epoch,          \* auxiliary: times the sequence numbers began again
    connected,      \* socket.connected
    audioWire,           \* "audio" messages on the way to the server
    held,           \* the chunk that starts a session, at most one
    acks,           \* answers on the way to the browser
    heard           \* the last chunk fed to AWS

hook == <<phase, opening, generation, startPending, context, worklet, attached, guard>>
serverSide == <<held, heard>>
audioVars == <<hook, queue, epoch, connected, audioWire, acks, serverSide>>

Chunk == [seq : 1..MaxCaptured + 1, retries : 0..MaxRetries]

EmptyQueue ==
    [pending |-> {}, sent |-> {}, nextSeq |-> 1, lastAccepted |-> 0, backoff |-> FALSE,
     timer |-> FALSE, timeouts |-> 0, pressure |-> 0, saturated |-> FALSE, away |-> FALSE,
     nextAckId |-> 1]

AudioTypeOK ==
    /\ phase \in {"idle", "streaming", "stopped", "error"}
    /\ opening \subseteq 1..generation /\ generation \in Nat
    /\ {startPending, attached, guard, connected} \subseteq BOOLEAN
    /\ context \in 0..generation /\ worklet \in 0..generation
    /\ queue.pending \subseteq Chunk /\ Cardinality(queue.pending) <= BufferLimit
    /\ \A t \in queue.sent : t.id < queue.nextAckId /\ t.chunk \in Chunk
    /\ Cardinality(held) <= 1 /\ epoch \in Nat

AudioInit ==
    /\ phase = "idle" /\ opening = {} /\ generation = 0 /\ startPending = FALSE
    /\ context = 0 /\ worklet = 0 /\ attached = FALSE /\ guard = FALSE
    /\ queue = EmptyQueue /\ epoch = 0 /\ connected = TRUE
    /\ audioWire = <<>> /\ held = {} /\ acks = {} /\ heard = [stream |-> 0, seq |-> 0]

(***************************************************************************)
(* The queue                                                               *)
(***************************************************************************)
\* Mutant of Cleared: the acknowledgement ids begin again too.
ClearedIds(q) == EmptyQueue

\* clearAudioAckTrackers: everything but the next acknowledgement id.
Cleared(q) == [EmptyQueue EXCEPT !.nextAckId = q.nextAckId]

First(S) == CHOOSE c \in S : \A d \in S : c.seq <= d.seq

\* Mutant of Buffered: room is made only when the limit is passed already.
BufferedThenTrimmed(q, c) ==
    [q EXCEPT !.pending = IF Cardinality(@) > BufferLimit THEN (@ \ {First(@)}) \cup {c} ELSE @ \cup {c}]

\* bufferPendingChunk: in order of capture, the oldest goes over the limit.
Buffered(q, c) ==
    LET all == q.pending \cup {c}
    IN  [q EXCEPT !.pending = IF Cardinality(all) > BufferLimit THEN all \ {First(all)} ELSE all]

\* Mutant of MaySend: the next chunk does not wait for the acknowledgement.
MaySendAhead(q) == Cardinality(q.sent) < 2

MaySend(q) == q.sent = {}

Result(q, out, stop) == [queue |-> q, out |-> out, stop |-> stop]

\* drainPendingChunks of a connected socket: the queue, the message sent, and
\* whether the saturation guard stops the stream.  Chunks up to the last one
\* accepted are dropped.
Drained(q) ==
    LET ready == [q EXCEPT !.backoff = FALSE, !.timer = FALSE]
        fresh == {c \in q.pending : c.seq > q.lastAccepted}
        head == First(fresh)
        sent == IF MaySend(q) /\ fresh # {}
                THEN [ready EXCEPT !.pending = fresh \ {head}, !.nextAckId = @ + 1,
                                   !.sent = @ \cup {[id |-> q.nextAckId, chunk |-> head]}]
                ELSE IF MaySend(q) THEN [ready EXCEPT !.pending = {}] ELSE ready
        out == IF sent.nextAckId = q.nextAckId THEN <<>>
               ELSE <<[id |-> q.nextAckId, stream |-> epoch, seq |-> head.seq]>>
        full == sent.pending # {} /\ sent.sent # {}
    IN  IF ~attached \/ ~connected THEN {Result(q, <<>>, FALSE)}
        ELSE IF q.backoff THEN {Result([q EXCEPT !.timer = TRUE], <<>>, FALSE)}
        ELSE {Result([sent EXCEPT !.saturated = full], out, FALSE)}
             \cup {Result(sent, out, TRUE) : x \in {y \in {1} : full /\ q.saturated}}

(***************************************************************************)
(* The pipeline                                                            *)
(***************************************************************************)
\* cleanupAudioStreamingRuntime, of the queue as it is by then.
Cleanup(q) ==
    /\ queue' = Cleared(q) /\ epoch' = epoch + 1
    /\ context' = 0 /\ worklet' = 0 /\ attached' = FALSE

Unstarted == UNCHANGED <<opening, generation, startPending>>

\* stopForRealtimeInstability: once per start, and then the stream is over.
\* The page's onFallbackToBatch is outside.
StopForInstability(q) ==
    IF guard THEN UNCHANGED <<hook, epoch>> /\ queue' = q
    ELSE guard' = TRUE /\ Cleanup(q) /\ phase' = "stopped" /\ Unstarted

\* The queue becomes one of the results, its message goes on the wire, and the
\* guard acts when it asks for it.
Proceed(results) ==
    \E r \in results :
        /\ audioWire' = audioWire \o r.out
        /\ Len(audioWire') <= MaxStale
        /\ IF r.stop THEN StopForInstability(r.queue)
           ELSE queue' = r.queue /\ UNCHANGED <<hook, epoch>>

\* startStreaming up to the await of the worklet module.
StartStreaming ==
    /\ ~startPending /\ context = 0
    /\ epoch < 2 * MaxStarts - 1
    /\ generation' = generation + 1 /\ startPending' = TRUE
    /\ opening' = opening \cup {generation + 1}
    /\ context' = generation + 1 /\ attached' = TRUE /\ guard' = FALSE
    /\ queue' = Cleared(queue) /\ epoch' = epoch + 1
    /\ UNCHANGED <<phase, worklet, connected, audioWire, acks, serverSide>>

\* The module is there.  A start that was overtaken cleans up, and what it
\* cleans up may belong to the start after it.
Opened(g) ==
    /\ g \in opening
    /\ opening' = opening \ {g}
    /\ IF g = generation
       THEN /\ phase' = "streaming" /\ worklet' = g /\ startPending' = FALSE
            /\ UNCHANGED <<queue, epoch, context, attached>>
       ELSE Cleanup(queue) /\ UNCHANGED <<phase, startPending>>
    /\ UNCHANGED <<generation, guard, connected, audioWire, acks, serverSide>>

\* It is not: an overtaken start leaves everything alone.
OpenFails(g) ==
    /\ g \in opening
    /\ opening' = opening \ {g}
    /\ IF g = generation
       THEN Cleanup(queue) /\ phase' = "error" /\ startPending' = FALSE
       ELSE UNCHANGED <<queue, epoch, context, worklet, attached, phase, startPending>>
    /\ UNCHANGED <<generation, guard, connected, audioWire, acks, serverSide>>

\* stopStreaming, of a stream or of a start; leaving the page does the same.
StopStreaming ==
    /\ startPending \/ phase = "streaming"
    /\ generation' = generation + 1 /\ startPending' = FALSE /\ phase' = "stopped"
    /\ Cleanup(queue)
    /\ UNCHANGED <<opening, guard, connected, audioWire, acks, serverSide>>

\* handleAudioChunk: the worklet of an open context posts 200 ms of audio.
Capture ==
    LET chunk == [seq |-> queue.nextSeq, retries |-> 0]
        kept == [Buffered(queue, chunk) EXCEPT !.nextSeq = @ + 1]
    IN  /\ worklet # 0 /\ context = worklet /\ queue.nextSeq <= MaxCaptured
        /\ IF attached /\ connected
           THEN Proceed(Drained([kept EXCEPT !.away = FALSE]))
           ELSE Proceed({Result([kept EXCEPT !.away = TRUE], <<>>, FALSE)}
                        \cup {Result(kept, <<>>, TRUE) : x \in {y \in {1} : queue.away}})
        /\ UNCHANGED <<connected, acks, serverSide>>

(***************************************************************************)
(* Acknowledgements                                                        *)
(***************************************************************************)
Tracked(id) == {t \in queue.sent : t.id = id}

\* What handleAudioAckResponse makes of the queue.
Answered(q, t, answer) ==
    LET done == [q EXCEPT !.sent = @ \ {t}, !.timeouts = 0]
        again == /\ answer \in {"warming", "backpressure"}
                 /\ t.chunk.seq > q.lastAccepted /\ t.chunk.retries < MaxRetries
        kept == IF again
                THEN [Buffered(done, [t.chunk EXCEPT !.retries = @ + 1]) EXCEPT !.backoff = TRUE]
                ELSE done
    IN  CASE answer = "ok" ->
               [done EXCEPT !.pressure = 0,
                            !.lastAccepted = IF t.chunk.seq > @ THEN t.chunk.seq ELSE @]
          [] answer = "backpressure" -> [kept EXCEPT !.pressure = @ + 1]
          [] OTHER -> [kept EXCEPT !.pressure = 0]

\* processAck: the answer, then the drain; an id nobody waits for only drains.
AckArrives(a) ==
    /\ a \in acks
    /\ acks' = acks \ {a}
    /\ IF Tracked(a.id) = {} THEN Proceed(Drained(queue))
       ELSE LET t == CHOOSE u \in Tracked(a.id) : TRUE
                q == Answered(queue, t, a.answer)
            IN  IF a.answer = "capacity"
                THEN Cleanup(queue) /\ phase' = "stopped" /\ Unstarted /\ UNCHANGED <<guard, audioWire>>
                ELSE IF q.pressure >= MaxBackpressure
                THEN Proceed({Result(q, <<>>, TRUE)})
                ELSE Proceed(Drained(q))
    /\ UNCHANGED <<connected, serverSide>>

\* createAudioAckTimeout: the chunk is not sent again, and nothing is drained.
AckTimesOut(t) ==
    LET q == [queue EXCEPT !.sent = @ \ {t}, !.timeouts = @ + 1]
    IN  /\ t \in queue.sent
        /\ Proceed({Result(q, <<>>, q.timeouts >= MaxTimeouts)})
        /\ UNCHANGED <<connected, acks, serverSide>>

BackoffEnds ==
    /\ queue.backoff
    /\ queue' = [queue EXCEPT !.backoff = FALSE]
    /\ UNCHANGED <<hook, epoch, connected, audioWire, acks, serverSide>>

RetryTimer ==
    /\ queue.timer /\ ~queue.backoff
    /\ Proceed(Drained([queue EXCEPT !.timer = FALSE]))
    /\ UNCHANGED <<connected, acks, serverSide>>

(***************************************************************************)
(* The connection and the server                                           *)
(***************************************************************************)
\* What was sent last may be lost, and the answers are.
ConnectionDrops ==
    /\ connected
    /\ connected' = FALSE /\ acks' = {}
    /\ \E n \in 0..Len(audioWire) : audioWire' = SubSeq(audioWire, 1, n)
    /\ UNCHANGED <<hook, queue, epoch, serverSide>>

Reconnects ==
    /\ ~connected
    /\ connected' = TRUE
    /\ UNCHANGED <<hook, queue, epoch, audioWire, acks, serverSide>>

Answers == {"ok", "warming", "backpressure", "capacity", "refused"}

\* The server feeds a chunk or not; while it has a connection it says so.
Reply(m, answer) ==
    /\ heard' = IF answer = "ok" THEN [stream |-> m.stream, seq |-> m.seq] ELSE heard
    /\ acks' = IF connected THEN acks \cup {[id |-> m.id, answer |-> answer]} ELSE acks

\* handleAudio: "warming" while another chunk starts the session; else the
\* chunk starts one, or is fed or refused at once.
Serve ==
    /\ audioWire # <<>>
    /\ audioWire' = Tail(audioWire)
    /\ \/ held = {} /\ held' = {Head(audioWire)} /\ UNCHANGED <<acks, heard>>
       \/ /\ \E answer \in IF held = {} THEN Answers ELSE {"warming"} : Reply(Head(audioWire), answer)
          /\ UNCHANGED held
    /\ UNCHANGED <<hook, queue, epoch, connected>>

\* The session started, or did not, and the chunk that waited is answered.
SessionDecided ==
    /\ \E m \in held, answer \in Answers : Reply(m, answer)
    /\ held' = {}
    /\ UNCHANGED <<hook, queue, epoch, connected, audioWire>>

AudioNext ==
    \/ StartStreaming \/ StopStreaming \/ Capture \/ BackoffEnds \/ RetryTimer
    \/ \E g \in opening : Opened(g) \/ OpenFails(g)
    \/ \E a \in acks : AckArrives(a)
    \/ \E t \in queue.sent : AckTimesOut(t)
    \/ ConnectionDrops \/ Reconnects \/ Serve \/ SessionDecided

AudioSpec == AudioInit /\ [][AudioNext]_audioVars

(***************************************************************************)
(* Properties                                                              *)
(***************************************************************************)
Ordered == INSTANCE OrderedAudio WITH stream <- epoch, captured <- queue.nextSeq - 1

\* Timeouts, retries, reconnects and restarts never make AWS hear a chunk twice
\* or after a later one: one chunk is sent at a time, a chunk that timed out is
\* not sent again, and one older than the last accepted is dropped
\* (audioStreamingRuntime.ts:262-272, 506-507).
HearsInOrder == Ordered!OrderedSpec

\* What the browser takes for accepted was fed to AWS: an answer to a stream
\* that is over never counts for a chunk of the present one
\* (audioStreamingRuntime.ts:138-156, 413-415).
AcceptedWasHeard ==
    queue.lastAccepted > 0 =>
        ~Ordered!Later([stream |-> epoch, seq |-> queue.lastAccepted], heard)
=============================================================================
