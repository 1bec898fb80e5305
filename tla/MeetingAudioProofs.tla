-------------------------- MODULE MeetingAudioProofs --------------------------
(***************************************************************************)
(* Proofs about the audio of a meeting: the chunks that are streamed to the *)
(* server (AudioStreaming) and the ones that are recorded (MeetingRecorder). *)
(***************************************************************************)
EXTENDS AudioStreaming, MeetingRecorder, FiniteSetTheorems, SequenceTheorems, WellFoundedInduction,
        NaturalsInduction, TLAPS

(***************************************************************************)
(* Proofs about AudioStreaming for any number of starts, chunks, retries   *)
(* and messages on the wire.                                               *)
(*                                                                         *)
(* That the server hears the chunks in order rests on where a chunk can    *)
(* be: waiting in the browser (pending), sent (at most one), on the wire   *)
(* or held by the server, heard.  The inductive invariant orders the four  *)
(* places: within a stream, what was heard is older than what is under     *)
(* way, that is not newer than the chunk that is sent, and that is older   *)
(* than what waits.  Acknowledgement ids tie the chunk that is sent to its *)
(* message or to its answer; they are never given out again, so an answer  *)
(* to a stream that is over finds no chunk of the present one.             *)
(***************************************************************************)

Message == [id : Nat \ {0}, stream : Nat, seq : Nat \ {0}]

Queue ==
    [pending : SUBSET Chunk, sent : SUBSET [id : Nat \ {0}, chunk : Chunk],
     nextSeq : 1..MaxCaptured + 1, lastAccepted : Nat, backoff : BOOLEAN, timer : BOOLEAN,
     timeouts : Nat, pressure : Nat, saturated : BOOLEAN, away : BOOLEAN, nextAckId : Nat \ {0}]

\* The chunks the server has not decided about.
Flying == held \cup {audioWire[i] : i \in 1..Len(audioWire)}

Before(m, n) == m.id < n.id /\ Ordered!Later(n, m)

\* The chunks wait in the order of capture, and the one that is sent is older
\* than every one that waits.
QueueInv(q) ==
    /\ q \in Queue
    /\ IsFiniteSet(q.pending) /\ Cardinality(q.pending) <= BufferLimit
    /\ \A c, d \in q.pending : c.seq = d.seq => c = d
    /\ \A c \in q.pending : c.seq < q.nextSeq
    /\ \A t, u \in q.sent : t = u
    /\ \A t \in q.sent :
         /\ t.id < q.nextAckId /\ t.chunk.seq < q.nextSeq
         /\ \A c \in q.pending : t.chunk.seq < c.seq

\* A chunk the server has not decided about is older than the chunks that wait
\* and is the one that is sent, or is older than that.
FlyingInv(q, e, m) ==
    /\ m.id < q.nextAckId
    /\ m.stream = e => m.seq < q.nextSeq /\ \A c \in q.pending : m.seq < c.seq
    /\ \A t \in q.sent :
         IF m.id = t.id THEN m.stream = e /\ m.seq = t.chunk.seq
         ELSE m.stream = e => m.seq < t.chunk.seq

\* So is the last chunk that was heard, and what counts as accepted is not after it.
HeardInv(q, e, h) ==
    /\ h.stream = e =>
         /\ h.seq < q.nextSeq /\ \A c \in q.pending : h.seq < c.seq
         /\ \A t \in q.sent : h.seq <= t.chunk.seq
    /\ q.lastAccepted > 0 => h.stream = e /\ q.lastAccepted <= h.seq

\* The answer to the chunk that is sent says whether it was heard.
AnswerInv(q, e, h, a) ==
    /\ a.id < q.nextAckId
    /\ \A t \in q.sent : a.id = t.id =>
         (a.answer = "ok" <=> h.stream = e /\ h.seq = t.chunk.seq)

TracksInv(q) ==
    /\ QueueInv(q)
    /\ \A m \in Flying : FlyingInv(q, epoch, m)
    /\ HeardInv(q, epoch, heard)
    /\ \A a \in acks : AnswerInv(q, epoch, heard, a)

WireInv ==
    /\ audioWire \in Seq(Message) /\ held \subseteq Message
    /\ acks \subseteq [id : Nat \ {0}, answer : Answers]
    /\ heard \in [stream : Nat, seq : Nat]
    /\ \A m, n \in held : m = n
    /\ heard.stream <= epoch
    /\ \A m \in Flying : m.stream <= epoch /\ Ordered!Later(m, heard)
    /\ \A m \in held, i \in 1..Len(audioWire) : Before(m, audioWire[i])
    /\ \A i, j \in 1..Len(audioWire) : i < j => Before(audioWire[i], audioWire[j])
    /\ \A m \in Flying, a \in acks : m.id # a.id

HookInv ==
    /\ phase \in {"idle", "streaming", "stopped", "error"}
    /\ opening \subseteq 1..generation /\ generation \in Nat
    /\ {startPending, attached, guard, connected} \subseteq BOOLEAN
    /\ context \in 0..generation /\ worklet \in 0..generation
    /\ epoch \in Nat

StreamInv == HookInv /\ WireInv /\ TracksInv(queue)

-----------------------------------------------------------------------------
(***************************************************************************)
(* The queue                                                               *)
(***************************************************************************)
LEMMA MessagesTyped ==
    ASSUME WireInv
    PROVE  Flying \subseteq Message
BY DEF WireInv, Flying

\* A set of chunks that is not empty has an oldest one.
LEMMA FirstIsLeast ==
    ASSUME NEW S \in SUBSET Chunk, S # {}
    PROVE  First(S) \in S /\ \A d \in S : First(S).seq <= d.seq
<1> DEFINE Seqs == {c.seq : c \in S}
<1>1. Seqs \subseteq Nat /\ Seqs # {}
  BY AudioAssumption DEF Chunk
<1>2. \E x \in Seqs : \A y \in Seqs : <<y, x>> \notin OpToRel(<, Nat)
  <2> HIDE DEF Seqs
  <2> QED
    BY <1>1, WFMin, NatLessThanWellFounded
<1>3. PICK x \in Seqs : \A y \in Seqs : <<y, x>> \notin OpToRel(<, Nat)
  BY <1>2
<1>4. \A y \in Seqs : x <= y
  <2>1. ASSUME NEW y \in Seqs PROVE ~ (y < x)
    <3>1. x \in Nat /\ y \in Nat
      BY <1>1
    <3>2. <<y, x>> \in Nat \X Nat /\ <<y, x>>[1] = y /\ <<y, x>>[2] = x
      BY <3>1
    <3>3. <<y, x>> \notin OpToRel(<, Nat)
      BY <1>3
    <3>4. y < x => <<y, x>> \in OpToRel(<, Nat)
      BY <3>2, Zenon DEF OpToRel
    <3> QED
      BY <3>3, <3>4
  <2>2. ASSUME NEW y \in Seqs PROVE x <= y
    <3>1. x \in Nat /\ y \in Nat
      BY <1>1
    <3> QED
      BY <3>1, <2>1
  <2> QED
    BY <2>2
<1>5. \E c \in S : \A d \in S : c.seq <= d.seq
  BY <1>4
<1> QED
  BY <1>5 DEF First

\* The queue p is the queue q with chunks forgotten, or other timers and counts.
Shrinks(q, p) ==
    /\ p \in Queue
    /\ p.pending \subseteq q.pending /\ p.sent \subseteq q.sent
    /\ p.nextSeq = q.nextSeq /\ p.lastAccepted = q.lastAccepted
    /\ p.nextAckId = q.nextAckId

LEMMA ShrinksKeeps ==
    ASSUME NEW q, NEW p, TracksInv(q), Shrinks(q, p)
    PROVE  TracksInv(p)
<1> USE DEF Shrinks
<1>1. QueueInv(p)
  <2>1. IsFiniteSet(p.pending) /\ Cardinality(p.pending) <= Cardinality(q.pending)
    BY FS_Subset DEF TracksInv, QueueInv
  <2>2. Cardinality(p.pending) \in Nat /\ Cardinality(q.pending) \in Nat
    BY <2>1, FS_CardinalityType DEF TracksInv, QueueInv
  <2> QED
    BY <2>1, <2>2, AudioAssumption DEF TracksInv, QueueInv
<1>2. \A m \in Flying : FlyingInv(p, epoch, m)
  BY DEF TracksInv, FlyingInv
<1>3. HeardInv(p, epoch, heard)
  BY DEF TracksInv, HeardInv
<1>4. \A a \in acks : AnswerInv(p, epoch, heard, a)
  BY DEF TracksInv, AnswerInv
<1> QED
  BY <1>1, <1>2, <1>3, <1>4 DEF TracksInv

\* A chunk that is newer than everything sent finds its place in the queue.
LEMMA BufferedKeeps ==
    ASSUME NEW q, NEW c \in Chunk, TracksInv(q), c.seq < q.nextSeq,
           \A d \in q.pending : c.seq # d.seq,
           \A t \in q.sent : t.chunk.seq < c.seq,
           \A m \in Flying : m.stream = epoch => m.seq < c.seq,
           heard.stream = epoch => heard.seq < c.seq
    PROVE  /\ TracksInv(Buffered(q, c))
           /\ Buffered(q, c) = [q EXCEPT !.pending = Buffered(q, c).pending]
<1> DEFINE all == q.pending \cup {c}
           P == IF Cardinality(all) > BufferLimit THEN all \ {First(all)} ELSE all
<1>1. q \in Queue /\ all \in SUBSET Chunk /\ all # {}
  BY DEF TracksInv, QueueInv, Queue
<1>2. First(all) \in all
  BY <1>1, FirstIsLeast
<1>3. IsFiniteSet(all) /\ Cardinality(all) \in Nat /\ Cardinality(all) <= BufferLimit + 1
  <2>1. IsFiniteSet(q.pending) /\ Cardinality(q.pending) \in Nat /\ Cardinality(q.pending) <= BufferLimit
    BY FS_CardinalityType DEF TracksInv, QueueInv
  <2> QED
    <3>1. /\ IsFiniteSet(all)
          /\ Cardinality(all) = IF c \in q.pending THEN Cardinality(q.pending)
                               ELSE Cardinality(q.pending) + 1
      BY <2>1, FS_AddElement
    <3> HIDE DEF all
    <3> QED
      BY <2>1, <3>1, AudioAssumption
<1>4. IsFiniteSet(P) /\ Cardinality(P) <= BufferLimit /\ P \subseteq all
  <2>1. CASE Cardinality(all) > BufferLimit
    <3>1. IsFiniteSet(all \ {First(all)}) /\ Cardinality(all \ {First(all)}) = Cardinality(all) - 1
      BY <1>2, <1>3, FS_RemoveElement
    <3> QED
      BY <2>1, <3>1, <1>3, AudioAssumption
  <2>2. CASE ~(Cardinality(all) > BufferLimit)
    BY <2>2, <1>3, AudioAssumption
  <2> QED
    BY <2>1, <2>2
<1> DEFINE p == [q EXCEPT !.pending = P]
<1>5. Buffered(q, c) = p
  BY DEF Buffered
<1>6. /\ p \in Queue /\ p.pending = P /\ p.sent = q.sent /\ p.nextSeq = q.nextSeq
      /\ p.lastAccepted = q.lastAccepted /\ p.nextAckId = q.nextAckId
  <2> HIDE DEF P
  <2> QED
    BY <1>1, <1>4 DEF Queue
<1> HIDE DEF P, p
<1>7. QueueInv(p)
  BY <1>4, <1>6 DEF TracksInv, QueueInv
<1>8. \A m \in Flying : FlyingInv(p, epoch, m)
  BY <1>4, <1>6 DEF TracksInv, FlyingInv
<1>9. HeardInv(p, epoch, heard)
  BY <1>4, <1>6 DEF TracksInv, HeardInv
<1>10. \A a \in acks : AnswerInv(p, epoch, heard, a)
  BY <1>6 DEF TracksInv, AnswerInv
<1>11. TracksInv(p)
  BY <1>7, <1>8, <1>9, <1>10 DEF TracksInv
<1> QED
  BY <1>5, <1>6, <1>11 DEF p

\* The next chunk on the wire: newer than everything the server has had.
NextOnWire(q, m) ==
    /\ m \in Message /\ m.stream = epoch
    /\ FlyingInv(q, epoch, m)
    /\ Ordered!Later(m, heard)
    /\ \A n \in Flying : Before(n, m)
    /\ \A a \in acks : a.id # m.id

\* What a step makes of the queue, with what it sends.
ResultInv(r) ==
    /\ TracksInv(r.queue)
    /\ r.out = <<>> \/ \E m \in Message : r.out = <<m>> /\ NextOnWire(r.queue, m)

LEMMA QueueFields ==
    ASSUME NEW q \in Queue
    PROVE  /\ q.pending \in SUBSET Chunk /\ q.sent \subseteq [id : Nat \ {0}, chunk : Chunk]
           /\ q.nextSeq \in 1..MaxCaptured + 1 /\ q.lastAccepted \in Nat
           /\ q.timeouts \in Nat /\ q.pressure \in Nat /\ q.nextAckId \in Nat \ {0}
           /\ q.backoff \in BOOLEAN /\ q.timer \in BOOLEAN
           /\ q.saturated \in BOOLEAN /\ q.away \in BOOLEAN
BY DEF Queue

\* The drain sends the oldest chunk that waits, when none is sent.
Sends(q, p, head) ==
    /\ q.sent = {} /\ p.sent = {[id |-> q.nextAckId, chunk |-> head]}
    /\ p \in Queue
    /\ head \notin p.pending /\ p.pending \subseteq q.pending
    /\ \A c \in p.pending : head.seq <= c.seq
    /\ p.nextSeq = q.nextSeq /\ p.lastAccepted = q.lastAccepted
    /\ p.nextAckId = q.nextAckId + 1

LEMMA DrainedCases ==
    ASSUME NEW q \in Queue, NEW r \in Drained(q)
    PROVE  \/ r.out = <<>> /\ Shrinks(q, r.queue)
           \/ \E head \in q.pending :
                /\ r.out = <<[id |-> q.nextAckId, stream |-> epoch, seq |-> head.seq]>>
                /\ Sends(q, r.queue, head)
<1> DEFINE ready == [q EXCEPT !.backoff = FALSE, !.timer = FALSE]
           fresh == {c \in q.pending : c.seq > q.lastAccepted}
           head == First(fresh)
           sends == MaySend(q) /\ fresh # {}
           sentq == [ready EXCEPT !.pending = fresh \ {head}, !.nextAckId = @ + 1,
                                  !.sent = @ \cup {[id |-> q.nextAckId, chunk |-> head]}]
           sent == IF sends THEN sentq
                   ELSE IF MaySend(q) THEN [ready EXCEPT !.pending = {}] ELSE ready
           out == IF sent.nextAckId = q.nextAckId THEN <<>>
                  ELSE <<[id |-> q.nextAckId, stream |-> epoch, seq |-> head.seq]>>
           full == sent.pending # {} /\ sent.sent # {}
<1>1. \/ r = Result(q, <<>>, FALSE)
      \/ r = Result([q EXCEPT !.timer = TRUE], <<>>, FALSE)
      \/ r = Result([sent EXCEPT !.saturated = full], out, FALSE)
      \/ r = Result(sent, out, TRUE)
  BY Zenon DEF Drained
<1>2. \/ r.out = <<>> /\ (r.queue = q \/ r.queue = [q EXCEPT !.timer = TRUE])
      \/ r.out = out /\ (r.queue = sent \/ r.queue = [sent EXCEPT !.saturated = full])
  <2>1. CASE r = Result(q, <<>>, FALSE)
    BY <2>1 DEF Result
  <2>2. CASE r = Result([q EXCEPT !.timer = TRUE], <<>>, FALSE)
    BY <2>2 DEF Result
  <2> HIDE DEF sent, out, full
  <2>3. CASE r = Result([sent EXCEPT !.saturated = full], out, FALSE)
    BY <2>3 DEF Result
  <2>4. CASE r = Result(sent, out, TRUE)
    BY <2>4 DEF Result
  <2> QED
    BY <1>1, <2>1, <2>2, <2>3, <2>4
<1>3. full \in BOOLEAN
  OBVIOUS
<1> HIDE DEF full
<1>4. CASE r.out = <<>> /\ (r.queue = q \/ r.queue = [q EXCEPT !.timer = TRUE])
  <2>1. Shrinks(q, q)
    BY DEF Shrinks
  <2>2. Shrinks(q, [q EXCEPT !.timer = TRUE])
    BY DEF Shrinks, Queue
  <2> QED
    BY <1>4, <2>1, <2>2
<1>5. /\ ready \in Queue /\ ready.pending = q.pending /\ ready.sent = q.sent
      /\ ready.nextSeq = q.nextSeq /\ ready.lastAccepted = q.lastAccepted
      /\ ready.nextAckId = q.nextAckId
  BY DEF Queue
<1> HIDE DEF ready
<1>6. ASSUME ~sends, r.out = out, r.queue = sent \/ r.queue = [sent EXCEPT !.saturated = full]
      PROVE  r.out = <<>> /\ Shrinks(q, r.queue)
  <2>1. /\ sent \in Queue /\ sent.pending \subseteq q.pending /\ sent.sent = q.sent
        /\ sent.nextSeq = q.nextSeq /\ sent.lastAccepted = q.lastAccepted
        /\ sent.nextAckId = q.nextAckId
    BY <1>5, <1>6 DEF Queue
  <2> HIDE DEF sent
  <2>2. Shrinks(q, sent) /\ Shrinks(q, [sent EXCEPT !.saturated = full])
    BY <1>3, <2>1 DEF Shrinks, Queue
  <2> QED
    BY <1>6, <2>1, <2>2
<1>7. ASSUME sends, r.out = out, r.queue = sent \/ r.queue = [sent EXCEPT !.saturated = full]
      PROVE  \E c \in q.pending :
                /\ r.out = <<[id |-> q.nextAckId, stream |-> epoch, seq |-> c.seq]>>
                /\ Sends(q, r.queue, c)
  <2>1. head \in fresh /\ \A c \in fresh : head.seq <= c.seq
    BY <1>7, QueueFields, FirstIsLeast
  <2>2. head \in Chunk /\ q.sent = {} /\ fresh \subseteq q.pending
    BY <2>1, <1>7, QueueFields DEF MaySend
  <2> HIDE DEF head, fresh
  <2>n. q.nextAckId \in Nat \ {0} /\ fresh \ {head} \subseteq Chunk
    BY <2>2, QueueFields
  <2>t. [id |-> q.nextAckId, chunk |-> head] \in [id : Nat \ {0}, chunk : Chunk]
    BY <2>2, <2>n
  <2>3. /\ sentq \in Queue /\ sentq.pending = fresh \ {head}
        /\ sentq.sent = {[id |-> q.nextAckId, chunk |-> head]}
        /\ sentq.nextSeq = q.nextSeq /\ sentq.lastAccepted = q.lastAccepted
        /\ sentq.nextAckId = q.nextAckId + 1
    <3> HIDE DEF First
    <3> DEFINE tracked == [id |-> q.nextAckId, chunk |-> head]
    <3>1. tracked \in [id : Nat \ {0}, chunk : Chunk]
      BY <2>t
    <3> HIDE DEF tracked
    <3>2. sentq = [ready EXCEPT !.pending = fresh \ {head}, !.nextAckId = q.nextAckId + 1,
                                !.sent = {tracked}]
      BY <1>5, <2>2 DEF tracked
    <3> HIDE DEF sentq
    <3>3. /\ sentq \in Queue /\ sentq.pending = fresh \ {head}
          /\ sentq.sent = {tracked}
          /\ sentq.nextSeq = q.nextSeq /\ sentq.lastAccepted = q.lastAccepted
          /\ sentq.nextAckId = q.nextAckId + 1
      <4>1. fresh \ {head} \in SUBSET Chunk /\ {tracked} \in SUBSET [id : Nat \ {0}, chunk : Chunk]
        BY <2>n, <3>1
      <4>2. q.nextAckId + 1 \in Nat \ {0}
        BY <2>n
      <4> QED
        BY <1>5, <3>2, <4>1, <4>2 DEF Queue
    <3> QED
      BY <3>3 DEF tracked
  <2>4. sent = sentq
    BY <1>7 DEF sent, sentq, head, fresh
  <2> HIDE DEF sentq
  <2>5. Sends(q, sentq, head) /\ Sends(q, [sentq EXCEPT !.saturated = full], head)
    BY <1>3, <2>1, <2>2, <2>3 DEF Sends, Queue
  <2> HIDE DEF sent
  <2>6. sent.nextAckId # q.nextAckId
    BY <2>n, <2>3, <2>4
  <2>7. out = <<[id |-> q.nextAckId, stream |-> epoch, seq |-> head.seq]>>
    BY <2>6
  <2> HIDE DEF out
  <2> QED
    BY <1>7, <2>1, <2>2, <2>4, <2>5, <2>7
<1> QED
  <2> HIDE DEF sent, out, full, sends
  <2> QED
    BY <1>2, <1>4, <1>6, <1>7

LEMMA DrainKeeps ==
    ASSUME WireInv, epoch \in Nat, NEW q, TracksInv(q), NEW r \in Drained(q)
    PROVE  ResultInv(r)
<1>0. q \in Queue
  BY DEF TracksInv, QueueInv
<1>1. CASE r.out = <<>> /\ Shrinks(q, r.queue)
  BY <1>1, ShrinksKeeps DEF ResultInv
<1>2. ASSUME NEW head \in q.pending,
             r.out = <<[id |-> q.nextAckId, stream |-> epoch, seq |-> head.seq]>>,
             Sends(q, r.queue, head)
      PROVE  ResultInv(r)
  <2> DEFINE m == [id |-> q.nextAckId, stream |-> epoch, seq |-> head.seq]
             p == r.queue
  <2>1. /\ p \in Queue /\ head \in Chunk /\ head.seq \in Nat \ {0}
        /\ q.nextAckId \in Nat \ {0} /\ q.nextSeq \in Nat
        /\ \A c \in q.pending : c.seq \in Nat
    BY <1>0, <1>2, QueueFields, AudioAssumption DEF Sends, Chunk
  <2>2. \A n \in Flying : n.id \in Nat /\ n.stream \in Nat /\ n.seq \in Nat /\ n.stream <= epoch
    BY MessagesTyped DEF Message, WireInv
  <2>3. m \in Message /\ m.id = q.nextAckId /\ m.stream = epoch /\ m.seq = head.seq
    BY <2>1 DEF Message
  <2> HIDE DEF m
  <2>4. \A c \in p.pending : head.seq < c.seq
    BY <1>2, <2>1 DEF Sends, TracksInv, QueueInv
  <2>5. QueueInv(p)
    <3>1. IsFiniteSet(p.pending) /\ Cardinality(p.pending) <= Cardinality(q.pending)
      BY <1>2, FS_Subset DEF Sends, TracksInv, QueueInv
    <3>2. Cardinality(p.pending) \in Nat /\ Cardinality(q.pending) \in Nat
      BY <3>1, FS_CardinalityType DEF TracksInv, QueueInv
    <3>3. Cardinality(p.pending) <= BufferLimit
      BY <3>1, <3>2, AudioAssumption DEF TracksInv, QueueInv
    <3> QED
      BY <1>2, <2>1, <2>4, <3>1, <3>3 DEF Sends, TracksInv, QueueInv
  <2>6. \A n \in Flying : FlyingInv(p, epoch, n)
    BY <1>2, <2>1, <2>2 DEF Sends, TracksInv, FlyingInv
  <2>7. HeardInv(p, epoch, heard)
    BY <1>2, <2>1 DEF Sends, TracksInv, HeardInv, WireInv
  <2>8. \A a \in acks : AnswerInv(p, epoch, heard, a)
    BY <1>2, <2>1 DEF Sends, TracksInv, AnswerInv, WireInv
  <2>9. NextOnWire(p, m)
    <3>1. FlyingInv(p, epoch, m)
      BY <1>2, <2>1, <2>3, <2>4 DEF Sends, FlyingInv, TracksInv, QueueInv
    <3>2. Ordered!Later(m, heard)
      BY <2>1, <2>3 DEF Ordered!Later, TracksInv, HeardInv, WireInv
    <3>3. \A n \in Flying : Before(n, m)
      BY <2>1, <2>2, <2>3 DEF Before, Ordered!Later, TracksInv, FlyingInv
    <3>4. \A a \in acks : a.id # m.id
      BY <2>1, <2>3 DEF TracksInv, AnswerInv, WireInv
    <3> QED
      BY <2>3, <3>1, <3>2, <3>3, <3>4 DEF NextOnWire
  <2>10. TracksInv(p)
    BY <2>5, <2>6, <2>7, <2>8 DEF TracksInv
  <2> QED
    BY <1>2, <2>3, <2>9, <2>10 DEF ResultInv, m
<1> QED
  BY <1>0, <1>1, <1>2, DrainedCases

-----------------------------------------------------------------------------
(***************************************************************************)
(* Steps                                                                   *)
(***************************************************************************)
\* The server and the wire have at most lost answers.
SameWire == audioWire' = audioWire /\ held' = held /\ heard' = heard /\ acks' \subseteq acks

LEMMA WireStays ==
    ASSUME WireInv, SameWire, epoch \in Nat, epoch' \in {epoch, epoch + 1}
    PROVE  WireInv'
<1>1. Flying' = Flying
  BY DEF SameWire, Flying
<1>2. heard.stream \in Nat /\ heard'.stream <= epoch'
  BY DEF SameWire, WireInv
<1>3. ASSUME NEW m \in Flying
      PROVE  m.stream <= epoch' /\ Ordered!Later(m, heard)
  <2>1. m.stream <= epoch /\ Ordered!Later(m, heard)
    BY DEF WireInv
  <2>2. m \in Message
    BY MessagesTyped
  <2>3. m.stream \in Nat
    BY <2>2 DEF Message
  <2> QED BY <2>1, <2>3
<1>4. \A m \in Flying, a \in acks' : m.id # a.id
  BY DEF WireInv, SameWire
<1> QED
  BY <1>1, <1>2, <1>3, <1>4 DEF WireInv, SameWire, Ordered!Later, Before

LEMMA TracksStay ==
    ASSUME NEW q, TracksInv(q), SameWire, queue' = q, epoch' = epoch
    PROVE  TracksInv(queue)'
<1>1. Flying' = Flying
  BY DEF SameWire, Flying
<1>2. QueueInv(queue)'
  BY DEF TracksInv, QueueInv
<1>3. \A m \in Flying' : FlyingInv(queue, epoch, m)'
  BY <1>1 DEF TracksInv, FlyingInv
<1>4. HeardInv(queue, epoch, heard)'
  BY DEF TracksInv, HeardInv, SameWire
<1>5. \A a \in acks' : AnswerInv(queue, epoch, heard, a)'
  BY DEF TracksInv, AnswerInv, SameWire
<1> QED
  BY <1>2, <1>3, <1>4, <1>5 DEF TracksInv

\* A queue that is reset belongs to a stream nothing was sent of.
LEMMA ClearedKeeps ==
    ASSUME NEW q \in Queue, queue' = Cleared(q), heard'.stream # epoch',
           \A m \in Flying' : m.id < q.nextAckId /\ m.stream # epoch',
           \A a \in acks' : a.id < q.nextAckId
    PROVE  TracksInv(queue)'
<1>2. /\ queue'.pending = {} /\ queue'.sent = {} /\ queue'.nextSeq = 1
      /\ queue'.lastAccepted = 0 /\ queue'.nextAckId = q.nextAckId
  BY DEF Cleared, EmptyQueue
<1>3. queue' \in Queue
  <2>1. 1 \in 1..MaxCaptured + 1
    BY AudioAssumption
  <2>2. EmptyQueue \in Queue
    BY <2>1 DEF EmptyQueue, Queue
  <2>3. q.nextAckId \in Nat \ {0}
    BY QueueFields
  <2> QED
    BY <2>2, <2>3 DEF Cleared, Queue
<1>4. QueueInv(queue')
  BY <1>2, <1>3, FS_EmptySet, AudioAssumption DEF QueueInv
<1>5. \A m \in Flying' : FlyingInv(queue', epoch', m)
  BY <1>2 DEF FlyingInv
<1>6. HeardInv(queue', epoch', heard')
  BY <1>2 DEF HeardInv
<1>7. \A a \in acks' : AnswerInv(queue', epoch', heard', a)
  BY <1>2 DEF AnswerInv
<1> QED
  BY <1>4, <1>5, <1>6, <1>7 DEF TracksInv

\* Nothing on the wire, heard or answered is of a stream that is still to come.
LEMMA OldStreams ==
    ASSUME WireInv, epoch \in Nat, NEW q, TracksInv(q)
    PROVE  /\ q \in Queue /\ heard.stream # epoch + 1
           /\ \A m \in Flying : m.id < q.nextAckId /\ m.stream # epoch + 1
           /\ \A a \in acks : a.id < q.nextAckId
BY MessagesTyped DEF TracksInv, QueueInv, FlyingInv, AnswerInv, WireInv, Message

\* What is sent goes behind everything that is under way.
LEMMA WireGrows ==
    ASSUME WireInv, epoch \in Nat, NEW q, NEW m \in Message, NextOnWire(q, m),
           audioWire' = audioWire \o <<m>>, held' = held, heard' = heard, acks' \subseteq acks,
           epoch' \in {epoch, epoch + 1}
    PROVE  WireInv' /\ Flying' = Flying \cup {m}
<1> DEFINE n == Len(audioWire)
<1>1. /\ audioWire \in Seq(Message) /\ n \in Nat
      /\ audioWire' \in Seq(Message) /\ Len(audioWire') = n + 1
      /\ \A i \in 1..n : audioWire'[i] = audioWire[i]
      /\ audioWire'[n + 1] = m
  <2>1. audioWire \in Seq(Message)
    BY DEF WireInv
  <2> QED
    BY <2>1
<1>2. \A i \in 1..Len(audioWire') : i \in 1..n \/ i = n + 1
  BY <1>1
<1>3. Flying' = Flying \cup {m}
  BY <1>1, <1>2 DEF Flying
<1>4. \A i \in 1..n : audioWire[i] \in Flying
  BY DEF Flying
<1> HIDE DEF n
<1>5. WireInv'
  <2>0. m.stream <= epoch' /\ \A k \in Flying : k.stream <= epoch'
    BY MessagesTyped DEF WireInv, NextOnWire, Message
  <2>1. \A k \in Flying' : k.stream <= epoch' /\ Ordered!Later(k, heard')
    BY <1>3, <2>0 DEF WireInv, NextOnWire
  <2>2. \A k \in held', i \in 1..Len(audioWire') : Before(k, audioWire'[i])
    <3>1. held \subseteq Flying
      BY DEF Flying
    <3> QED
      BY <1>1, <1>2, <3>1 DEF WireInv, NextOnWire, n
  <2>3. \A i, j \in 1..Len(audioWire') : i < j => Before(audioWire'[i], audioWire'[j])
    <3>1. ASSUME NEW i \in 1..Len(audioWire'), NEW j \in 1..Len(audioWire'), i < j
          PROVE  i \in 1..n /\ (j \in 1..n \/ j = n + 1)
      BY <1>1, <1>2, <3>1
    <3>2. \A i, j \in 1..n : i < j => Before(audioWire[i], audioWire[j])
      BY DEF WireInv, n
    <3>3. \A i \in 1..n : Before(audioWire[i], m)
      BY <1>4 DEF NextOnWire
    <3>4. ASSUME NEW i \in 1..Len(audioWire'), NEW j \in 1..Len(audioWire'), i < j
          PROVE  Before(audioWire'[i], audioWire'[j])
      <4>1. audioWire'[i] = audioWire[i]
        BY <1>1, <3>1, <3>4
      <4>2. CASE j \in 1..n
        BY <1>1, <3>1, <3>2, <3>4, <4>1, <4>2
      <4>3. CASE j = n + 1
        BY <1>1, <3>1, <3>3, <3>4, <4>1, <4>3
      <4> QED
        BY <3>1, <3>4, <4>2, <4>3
    <3> QED
      BY <3>4
  <2>4. \A k \in Flying', a \in acks' : k.id # a.id
    BY <1>3 DEF WireInv, NextOnWire
  <2>5. \A i, j \in 1..Len(audioWire') : i < j => Before(audioWire[i], audioWire[j])' 
    BY <2>3 DEF Before, Ordered!Later
  <2>6. \A k \in held', i \in 1..Len(audioWire') : Before(k, audioWire[i])'
    BY <2>2 DEF Before, Ordered!Later
  <2>7. \A k \in Flying' : k.stream <= epoch' /\ Ordered!Later(k, heard)'
    BY <2>1 DEF Ordered!Later
  <2> QED
    BY <1>1, <2>4, <2>5, <2>6, <2>7 DEF WireInv
<1> QED
  BY <1>3, <1>5

LEMMA SentKeeps ==
    ASSUME NEW q, TracksInv(q), NEW m \in Message, NextOnWire(q, m), Flying' = Flying \cup {m},
           heard' = heard, acks' \subseteq acks, queue' = q, epoch' = epoch
    PROVE  TracksInv(queue)'
<1>1. QueueInv(queue)'
  BY DEF TracksInv, QueueInv
<1>2. \A k \in Flying' : FlyingInv(queue, epoch, k)'
  BY DEF TracksInv, NextOnWire, FlyingInv
<1>3. HeardInv(queue, epoch, heard)'
  BY DEF TracksInv, HeardInv
<1>4. \A a \in acks' : AnswerInv(queue, epoch, heard, a)'
  BY DEF TracksInv, AnswerInv
<1> QED
  BY <1>1, <1>2, <1>3, <1>4 DEF TracksInv

LEMMA CleanupHook ==
    ASSUME HookInv, NEW q, Cleanup(q), phase' \in {"idle", "streaming", "stopped", "error"},
           generation' \in {generation, generation + 1}, opening' \subseteq opening,
           {startPending, guard, connected}' \subseteq BOOLEAN
    PROVE  HookInv'
<1>1. generation \in Nat /\ generation' \in Nat /\ generation <= generation' /\ epoch' \in Nat
  BY DEF HookInv, Cleanup
<1>2. attached' \in BOOLEAN /\ context' = 0 /\ worklet' = 0
  BY DEF Cleanup
<1>3. opening' \subseteq 1..generation'
  BY <1>1 DEF HookInv
<1>4. {startPending, attached, guard, connected}' \subseteq BOOLEAN
  BY <1>2
<1> QED
  BY <1>1, <1>2, <1>3, <1>4 DEF HookInv

\* A step that proceeds with results that keep the order keeps it.
LEMMA ProceedKeeps ==
    ASSUME StreamInv, NEW R, Proceed(R), \A r \in R : ResultInv(r),
           connected' = connected, held' = held, heard' = heard, acks' \subseteq acks
    PROVE  StreamInv'
<1> USE DEF StreamInv
<1>0. epoch \in Nat
  BY DEF HookInv
<1>1. PICK r \in R :
        /\ audioWire' = audioWire \o r.out
        /\ IF r.stop THEN StopForInstability(r.queue)
           ELSE queue' = r.queue /\ UNCHANGED <<hook, epoch>>
  BY DEF Proceed
<1>2. ResultInv(r) /\ TracksInv(r.queue) /\ r.queue \in Queue
  BY <1>1 DEF ResultInv, TracksInv, QueueInv
<1>3. \/ queue' = r.queue /\ UNCHANGED <<hook, epoch>>
      \/ guard' = TRUE /\ Cleanup(r.queue) /\ phase' = "stopped" /\ Unstarted
  BY <1>1 DEF StopForInstability
<1>4. HookInv'
  <2>1. CASE UNCHANGED <<hook, epoch>>
    BY <2>1 DEF HookInv, hook
  <2>2. CASE guard' = TRUE /\ Cleanup(r.queue) /\ phase' = "stopped" /\ Unstarted
    <3>1. {startPending, guard, connected}' \subseteq BOOLEAN
      BY <2>2 DEF Unstarted, HookInv
    <3> QED
      BY <2>2, <3>1, CleanupHook DEF Unstarted
  <2> QED
    BY <1>3, <2>1, <2>2
<1>5. CASE r.out = <<>>
  <2>1. audioWire' = audioWire /\ SameWire
    BY <1>1, <1>5 DEF SameWire, WireInv
  <2>2. WireInv'
    BY <1>0, <1>3, <2>1, WireStays DEF Cleanup
  <2>3. TracksInv(queue)'
    <3>1. CASE queue' = r.queue /\ epoch' = epoch
      BY <1>2, <2>1, <3>1, TracksStay
    <3>2. CASE Cleanup(r.queue)
      <4>1. Flying' = Flying /\ heard' = heard /\ acks' \subseteq acks
        BY <2>1 DEF SameWire, Flying
      <4> QED
        BY <1>0, <1>2, <3>2, <4>1, OldStreams, ClearedKeeps DEF Cleanup
    <3> QED
      BY <1>3, <3>1, <3>2
  <2> QED
    BY <1>4, <2>2, <2>3
<1>6. ASSUME NEW m \in Message, r.out = <<m>>, NextOnWire(r.queue, m)
      PROVE  StreamInv'
  <2>0. WireInv' /\ Flying' = Flying \cup {m}
    BY <1>0, <1>1, <1>3, <1>6, WireGrows DEF Cleanup
  <2>1. CASE queue' = r.queue /\ epoch' = epoch
    BY <1>2, <1>4, <1>6, <2>0, <2>1, SentKeeps
  <2>2. CASE Cleanup(r.queue)
    <3>1. m.id < r.queue.nextAckId /\ m.stream # epoch + 1
      BY <1>0, <1>6 DEF NextOnWire, FlyingInv
    <3> QED
      BY <1>0, <1>2, <1>4, <2>0, <2>2, <3>1, OldStreams, ClearedKeeps DEF Cleanup
  <2> QED
    BY <1>3, <2>1, <2>2
<1> QED
  BY <1>2, <1>5, <1>6 DEF ResultInv

LEMMA BecomesKeeps ==
    ASSUME StreamInv, HookInv', SameWire, NEW q, TracksInv(q),
           (queue' = q /\ epoch' = epoch) \/ (queue' = Cleared(q) /\ epoch' = epoch + 1)
    PROVE  StreamInv'
<1> USE DEF StreamInv
<1>0. epoch \in Nat
  BY DEF HookInv
<1>1. WireInv'
  BY <1>0, WireStays
<1>2. CASE queue' = q /\ epoch' = epoch
  BY <1>1, <1>2, TracksStay
<1>3. CASE queue' = Cleared(q) /\ epoch' = epoch + 1
  <2>1. Flying' = Flying /\ heard' = heard /\ acks' \subseteq acks
    BY DEF SameWire, Flying
  <2> QED
    BY <1>0, <1>1, <1>3, <2>1, OldStreams, ClearedKeeps
<1> QED
  BY <1>2, <1>3

\* A result that sends nothing.
LEMMA SilentResult ==
    ASSUME NEW q, TracksInv(q), NEW stop
    PROVE  ResultInv(Result(q, <<>>, stop))
BY DEF ResultInv, Result

\* The answer to the chunk that is sent: nothing is sent now, and a chunk the
\* server did not feed goes back before the ones that wait.
LEMMA AnsweredKeeps ==
    ASSUME StreamInv, NEW a \in acks, NEW t \in queue.sent, t.id = a.id
    PROVE  TracksInv(Answered(queue, t, a.answer))
<1> DEFINE q == queue
           done == [q EXCEPT !.sent = @ \ {t}, !.timeouts = 0]
           back == [t.chunk EXCEPT !.retries = @ + 1]
           again == /\ a.answer \in {"warming", "backpressure"}
                    /\ t.chunk.seq > q.lastAccepted /\ t.chunk.retries < MaxRetries
           kept == IF again THEN [Buffered(done, back) EXCEPT !.backoff = TRUE] ELSE done
<1>1. TracksInv(q) /\ q \in Queue
  BY DEF StreamInv, TracksInv, QueueInv
<1>2. /\ t.chunk \in Chunk /\ t.chunk.seq \in Nat /\ \A d \in q.pending : d.seq \in Nat
      /\ q.nextSeq \in Nat /\ q.lastAccepted \in Nat
  BY <1>1, QueueFields, AudioAssumption DEF Chunk
<1>3. /\ Shrinks(q, done) /\ done.pending = q.pending /\ done.sent = q.sent \ {t}
  BY <1>1 DEF Shrinks, Queue
<1>4. TracksInv(done)
  BY <1>1, <1>3, ShrinksKeeps
<1>5. done.sent = {}
  BY <1>1, <1>3 DEF TracksInv, QueueInv
<1>6. a.answer = "ok" <=> heard.stream = epoch /\ heard.seq = t.chunk.seq
  BY <1>1 DEF TracksInv, AnswerInv
<1> HIDE DEF done
<1>7. TracksInv(kept) /\ kept \in Queue
  <2>1. CASE again
    <3>1. back \in Chunk /\ back.seq = t.chunk.seq
      BY <1>2, <2>1, AudioAssumption DEF Chunk
    <3> HIDE DEF back
    <3>2. back.seq < done.nextSeq /\ \A d \in done.pending : back.seq < d.seq
      BY <1>1, <1>3, <3>1 DEF Shrinks, TracksInv, QueueInv
    <3>3. \A m \in Flying : m.stream = epoch => m.seq < back.seq
      BY <1>1, <3>1 DEF StreamInv, WireInv, TracksInv, FlyingInv
    <3>4. heard.stream = epoch => heard.seq < back.seq
      <4>1. heard.stream = epoch => heard.seq <= t.chunk.seq /\ heard.seq # t.chunk.seq
        BY <1>1, <1>6, <2>1 DEF TracksInv, HeardInv
      <4> QED
        BY <1>2, <3>1, <4>1 DEF StreamInv, WireInv
    <3>5. \A d \in done.pending : back.seq # d.seq
      BY <1>2, <1>3, <3>1, <3>2
    <3>6. TracksInv(Buffered(done, back))
      BY <1>4, <1>5, <3>1, <3>2, <3>3, <3>4, <3>5, BufferedKeeps
    <3> DEFINE b == Buffered(done, back)
    <3>7. b \in Queue
      BY <3>6 DEF TracksInv, QueueInv
    <3> HIDE DEF b
    <3>8. Shrinks(b, [b EXCEPT !.backoff = TRUE])
      BY <3>7 DEF Shrinks, Queue
    <3>9. TracksInv([b EXCEPT !.backoff = TRUE]) /\ [b EXCEPT !.backoff = TRUE] \in Queue
      BY <3>6, <3>8, ShrinksKeeps DEF b, Shrinks
    <3> QED
      BY <2>1, <3>9 DEF b
  <2>2. CASE ~again
    BY <1>4, <2>2 DEF TracksInv, QueueInv
  <2> QED
    BY <2>1, <2>2
<1>8. CASE a.answer = "ok"
  <2> DEFINE l == IF t.chunk.seq > q.lastAccepted THEN t.chunk.seq ELSE q.lastAccepted
             p == [done EXCEPT !.pressure = 0, !.lastAccepted = l]
  <2>1. l \in Nat /\ l <= heard.seq /\ heard.stream = epoch
    BY <1>1, <1>2, <1>6, <1>8 DEF TracksInv, HeardInv
  <2> HIDE DEF l
  <2>2. /\ p \in Queue /\ p.pending = done.pending /\ p.sent = done.sent
        /\ p.nextSeq = done.nextSeq /\ p.nextAckId = done.nextAckId /\ p.lastAccepted = l
    BY <1>3, <2>1 DEF Shrinks, Queue
  <2> HIDE DEF p
  <2>3. QueueInv(p)
    BY <1>4, <2>2 DEF TracksInv, QueueInv
  <2>4. \A m \in Flying : FlyingInv(p, epoch, m)
    BY <1>4, <2>2 DEF TracksInv, FlyingInv
  <2>5. HeardInv(p, epoch, heard)
    BY <1>4, <2>1, <2>2 DEF TracksInv, HeardInv
  <2>6. \A b \in acks : AnswerInv(p, epoch, heard, b)
    BY <1>4, <2>2 DEF TracksInv, AnswerInv
  <2>7. done.lastAccepted = q.lastAccepted
    BY <1>3 DEF Shrinks
  <2>8. Answered(queue, t, a.answer) = p
    BY <1>8, <2>7 DEF Answered, done, p, l
  <2> QED
    BY <2>3, <2>4, <2>5, <2>6, <2>8 DEF TracksInv
<1>9. CASE a.answer # "ok"
  <2> HIDE DEF kept
  <2>1. Answered(queue, t, a.answer) \in
          {[kept EXCEPT !.pressure = @ + 1], [kept EXCEPT !.pressure = 0]}
    BY <1>9 DEF Answered, kept, done
  <2>2. Shrinks(kept, [kept EXCEPT !.pressure = @ + 1]) /\ Shrinks(kept, [kept EXCEPT !.pressure = 0])
    BY <1>7 DEF Shrinks, Queue
  <2> QED
    BY <1>7, <2>1, <2>2, ShrinksKeeps
<1> QED
  BY <1>8, <1>9

\* The pipeline

LEMMA StartKeeps == ASSUME StreamInv, StartStreaming PROVE StreamInv'
<1>1. HookInv'
  <2>1. generation \in Nat /\ generation' = generation + 1 /\ epoch' \in Nat
    BY DEF StreamInv, HookInv, StartStreaming
  <2>2. opening' \subseteq 1..generation'
    BY <2>1 DEF StreamInv, HookInv, StartStreaming
  <2>3. context' \in 0..generation' /\ worklet' \in 0..generation'
    BY <2>1 DEF StreamInv, HookInv, StartStreaming
  <2>4. {startPending, attached, guard, connected}' \subseteq BOOLEAN
    BY DEF StreamInv, HookInv, StartStreaming
  <2> QED
    BY <2>1, <2>2, <2>3, <2>4 DEF StreamInv, HookInv, StartStreaming
<1> QED
  BY <1>1, BecomesKeeps DEF StreamInv, StartStreaming, SameWire, serverSide

LEMMA OpenedKeeps == ASSUME StreamInv, NEW g \in opening, Opened(g) PROVE StreamInv'
<1>1. HookInv'
  <2>1. CASE g = generation
    <3>1. generation \in Nat /\ generation' = generation /\ worklet' = g /\ g \in 0..generation
      BY <2>1 DEF StreamInv, HookInv, Opened
    <3>2. {startPending, attached, guard, connected}' \subseteq BOOLEAN
      BY <2>1 DEF StreamInv, HookInv, Opened
    <3>3. /\ phase' = "streaming" /\ opening' \subseteq 1..generation
          /\ context' = context /\ epoch' = epoch
      BY <2>1 DEF StreamInv, HookInv, Opened
    <3> QED
      BY <3>1, <3>2, <3>3 DEF StreamInv, HookInv
  <2>2. CASE g # generation
    BY <2>2, CleanupHook DEF StreamInv, HookInv, Opened
  <2> QED
    BY <2>1, <2>2
<1>2. TracksInv(queue) /\ SameWire
  BY DEF StreamInv, Opened, SameWire, serverSide
<1> QED
  BY <1>1, <1>2, BecomesKeeps DEF Opened, Cleanup

LEMMA OpenFailsKeeps == ASSUME StreamInv, NEW g \in opening, OpenFails(g) PROVE StreamInv'
<1>1. HookInv'
  <2>1. CASE g = generation
    BY <2>1, CleanupHook DEF StreamInv, HookInv, OpenFails
  <2>2. CASE g # generation
    BY <2>2 DEF StreamInv, HookInv, OpenFails
  <2> QED
    BY <2>1, <2>2
<1>2. TracksInv(queue) /\ SameWire
  BY DEF StreamInv, OpenFails, SameWire, serverSide
<1> QED
  BY <1>1, <1>2, BecomesKeeps DEF OpenFails, Cleanup

LEMMA StopKeeps == ASSUME StreamInv, StopStreaming PROVE StreamInv'
<1>1. HookInv'
  BY CleanupHook DEF StreamInv, HookInv, StopStreaming
<1> QED
  BY <1>1, BecomesKeeps DEF StreamInv, StopStreaming, Cleanup, SameWire, serverSide

\* What Capture makes of the queue before the drain.
LEMMA CapturedKeeps ==
    ASSUME StreamInv, queue.nextSeq <= MaxCaptured
    PROVE  LET chunk == [seq |-> queue.nextSeq, retries |-> 0]
               kept == [Buffered(queue, chunk) EXCEPT !.nextSeq = @ + 1]
           IN  /\ kept \in Queue /\ TracksInv(kept)
               /\ kept.nextSeq = queue.nextSeq + 1
<1> DEFINE chunk == [seq |-> queue.nextSeq, retries |-> 0]
           wide == [queue EXCEPT !.nextSeq = @ + 1]
<1>1. TracksInv(queue) /\ queue \in Queue /\ queue.nextSeq \in 1..MaxCaptured + 1
  BY DEF StreamInv, TracksInv, QueueInv, Queue
<1>2. chunk \in Chunk /\ queue.nextSeq + 1 \in 1..MaxCaptured + 1
  BY <1>1, AudioAssumption DEF Chunk
<1>3. /\ wide \in Queue /\ wide.pending = queue.pending /\ wide.sent = queue.sent
      /\ wide.nextSeq = queue.nextSeq + 1 /\ wide.lastAccepted = queue.lastAccepted
      /\ wide.nextAckId = queue.nextAckId
  BY <1>1, <1>2 DEF Queue
<1>4. \A c \in queue.pending : c.seq \in Nat
  BY <1>1, QueueFields, AudioAssumption DEF Chunk
<1>5. \A t \in queue.sent : t.chunk.seq \in Nat
  BY <1>1, QueueFields, AudioAssumption DEF Chunk
<1>6. \A m \in Flying : m.seq \in Nat
  BY MessagesTyped DEF StreamInv, Message
<1>7. heard.seq \in Nat
  BY DEF StreamInv, WireInv
<1>8. queue.nextSeq \in Nat
  BY <1>1, AudioAssumption
<1> HIDE DEF wide
<1>9. TracksInv(wide)
  <2>1. QueueInv(wide)
    BY <1>1, <1>3, <1>4, <1>5, <1>8 DEF TracksInv, QueueInv
  <2>2. \A m \in Flying : FlyingInv(wide, epoch, m)
    BY <1>1, <1>3, <1>6, <1>8 DEF TracksInv, FlyingInv
  <2>3. HeardInv(wide, epoch, heard)
    BY <1>1, <1>3, <1>7, <1>8 DEF TracksInv, HeardInv
  <2>4. \A a \in acks : AnswerInv(wide, epoch, heard, a)
    BY <1>1, <1>3 DEF TracksInv, AnswerInv
  <2> QED
    BY <2>1, <2>2, <2>3, <2>4 DEF TracksInv
<1>10. /\ chunk.seq < wide.nextSeq
       /\ \A d \in wide.pending : chunk.seq # d.seq
       /\ \A t \in wide.sent : t.chunk.seq < chunk.seq
       /\ \A m \in Flying : m.stream = epoch => m.seq < chunk.seq
       /\ heard.stream = epoch => heard.seq < chunk.seq
  BY <1>1, <1>3, <1>4, <1>8 DEF TracksInv, QueueInv, FlyingInv, HeardInv
<1> HIDE DEF chunk
<1>11. TracksInv(Buffered(wide, chunk)) /\ Buffered(wide, chunk) \in Queue
  BY <1>2, <1>9, <1>10, BufferedKeeps DEF TracksInv, QueueInv
<1>12. [Buffered(queue, chunk) EXCEPT !.nextSeq = @ + 1] = Buffered(wide, chunk)
  <2> DEFINE P == LET all == queue.pending \cup {chunk}
                  IN  IF Cardinality(all) > BufferLimit THEN all \ {First(all)} ELSE all
  <2>1. Buffered(queue, chunk) = [queue EXCEPT !.pending = P]
    BY DEF Buffered
  <2>2. Buffered(wide, chunk) = [wide EXCEPT !.pending = P]
    BY <1>3 DEF Buffered
  <2> HIDE DEF P
  <2> QED
    BY <1>1, <2>1, <2>2 DEF wide, Queue
<1>13. Buffered(wide, chunk).nextSeq = queue.nextSeq + 1
  <2>1. Buffered(wide, chunk) = [wide EXCEPT !.pending = Buffered(wide, chunk).pending]
    BY <1>2, <1>9, <1>10, BufferedKeeps
  <2> QED
    BY <1>3, <2>1 DEF Queue
<1> QED
  BY <1>11, <1>12, <1>13 DEF chunk

LEMMA CaptureKeeps == ASSUME StreamInv, Capture PROVE StreamInv'
<1> DEFINE chunk == [seq |-> queue.nextSeq, retries |-> 0]
           kept == [Buffered(queue, chunk) EXCEPT !.nextSeq = @ + 1]
           here == [kept EXCEPT !.away = FALSE]
           away == [kept EXCEPT !.away = TRUE]
<1>1. kept \in Queue /\ TracksInv(kept)
  BY CapturedKeeps DEF Capture
<1>2. /\ connected' = connected /\ held' = held /\ heard' = heard /\ acks' \subseteq acks
  BY DEF Capture, serverSide
<1>3. \/ Proceed(Drained(here))
      \/ Proceed({Result(away, <<>>, FALSE)}
                 \cup {Result(kept, <<>>, TRUE) : x \in {y \in {1} : queue.away}})
  BY DEF Capture
<1> HIDE DEF kept
<1>4. Shrinks(kept, here) /\ Shrinks(kept, away)
  BY <1>1 DEF Shrinks, Queue
<1>5. TracksInv(here) /\ TracksInv(away)
  BY <1>1, <1>4, ShrinksKeeps
<1> HIDE DEF here, away
<1>6. \A r \in Drained(here) : ResultInv(r)
  BY <1>5, DrainKeeps DEF StreamInv, HookInv
<1>7. ResultInv(Result(away, <<>>, FALSE)) /\ ResultInv(Result(kept, <<>>, TRUE))
  BY <1>1, <1>5, SilentResult
<1>8. CASE Proceed(Drained(here))
  BY <1>2, <1>6, <1>8, ProceedKeeps
<1>9. CASE Proceed({Result(away, <<>>, FALSE)}
                 \cup {Result(kept, <<>>, TRUE) : x \in {y \in {1} : queue.away}})
  BY <1>2, <1>7, <1>9, ProceedKeeps
<1> QED
  BY <1>3, <1>8, <1>9

\* Acknowledgements

LEMMA AckArrivesKeeps == ASSUME StreamInv, NEW a \in acks, AckArrives(a) PROVE StreamInv'
<1>1. connected' = connected /\ held' = held /\ heard' = heard /\ acks' \subseteq acks
  BY DEF AckArrives, serverSide
<1>2. TracksInv(queue) /\ epoch \in Nat /\ WireInv
  BY DEF StreamInv, HookInv
<1>3. CASE Tracked(a.id) = {}
  <2>1. Proceed(Drained(queue))
    BY <1>3 DEF AckArrives
  <2> QED
    BY <1>1, <1>2, <2>1, DrainKeeps, ProceedKeeps
<1>4. CASE Tracked(a.id) # {}
  <2> DEFINE t == CHOOSE u \in Tracked(a.id) : TRUE
             q == Answered(queue, t, a.answer)
  <2>1. t \in queue.sent /\ t.id = a.id
    BY <1>4 DEF Tracked
  <2>2. \/ Cleanup(queue) /\ phase' = "stopped" /\ Unstarted /\ UNCHANGED <<guard, audioWire>>
        \/ Proceed({Result(q, <<>>, TRUE)})
        \/ Proceed(Drained(q))
    BY <1>4, Zenon DEF AckArrives
  <2> HIDE DEF t
  <2>3. TracksInv(q)
    BY <2>1, AnsweredKeeps
  <2> HIDE DEF q
  <2>4. CASE Cleanup(queue) /\ phase' = "stopped" /\ Unstarted /\ UNCHANGED <<guard, audioWire>>
    <3>1. HookInv'
      BY <1>1, <2>4, CleanupHook DEF StreamInv, HookInv, Unstarted
    <3> QED
      BY <1>1, <1>2, <2>4, <3>1, BecomesKeeps DEF Cleanup, SameWire
  <2>5. CASE Proceed({Result(q, <<>>, TRUE)})
    BY <1>1, <2>3, <2>5, SilentResult, ProceedKeeps
  <2>6. CASE Proceed(Drained(q))
    BY <1>1, <1>2, <2>3, <2>6, DrainKeeps, ProceedKeeps
  <2> QED
    BY <2>2, <2>4, <2>5, <2>6
<1> QED
  BY <1>3, <1>4

LEMMA AckTimesOutKeeps == ASSUME StreamInv, NEW t \in queue.sent, AckTimesOut(t) PROVE StreamInv'
<1> DEFINE q == [queue EXCEPT !.sent = @ \ {t}, !.timeouts = @ + 1]
<1>1. TracksInv(queue) /\ queue \in Queue
  BY DEF StreamInv, TracksInv, QueueInv
<1>2. Shrinks(queue, q)
  <2>1. queue.sent \ {t} \subseteq queue.sent /\ queue.timeouts + 1 \in Nat
    BY <1>1, QueueFields
  <2>2. /\ q \in Queue /\ q.pending = queue.pending /\ q.sent = queue.sent \ {t}
        /\ q.nextSeq = queue.nextSeq /\ q.lastAccepted = queue.lastAccepted
        /\ q.nextAckId = queue.nextAckId
    BY <1>1, <2>1 DEF Queue
  <2> QED
    BY <2>1, <2>2 DEF Shrinks
<1>3. TracksInv(q)
  BY <1>1, <1>2, ShrinksKeeps
<1>4. PICK stop : Proceed({Result(q, <<>>, stop)})
  BY DEF AckTimesOut
<1>5. connected' = connected /\ held' = held /\ heard' = heard /\ acks' \subseteq acks
  BY DEF AckTimesOut, serverSide
<1> HIDE DEF q
<1> QED
  BY <1>3, <1>4, <1>5, SilentResult, ProceedKeeps

LEMMA BackoffEndsKeeps == ASSUME StreamInv, BackoffEnds PROVE StreamInv'
<1>1. TracksInv(queue) /\ queue \in Queue
  BY DEF StreamInv, TracksInv, QueueInv
<1>2. Shrinks(queue, queue') /\ SameWire /\ epoch' = epoch
  BY <1>1 DEF Shrinks, Queue, BackoffEnds, SameWire, serverSide
<1>3. TracksInv(queue')
  BY <1>1, <1>2, ShrinksKeeps
<1>4. HookInv'
  BY DEF StreamInv, HookInv, BackoffEnds, hook
<1> QED
  BY <1>2, <1>3, <1>4, BecomesKeeps

LEMMA RetryTimerKeeps == ASSUME StreamInv, RetryTimer PROVE StreamInv'
<1> DEFINE q == [queue EXCEPT !.timer = FALSE]
<1>1. TracksInv(queue) /\ queue \in Queue
  BY DEF StreamInv, TracksInv, QueueInv
<1>2. Shrinks(queue, q)
  BY <1>1 DEF Shrinks, Queue
<1>3. TracksInv(q)
  BY <1>1, <1>2, ShrinksKeeps
<1>4. /\ Proceed(Drained(q))
      /\ connected' = connected /\ held' = held /\ heard' = heard /\ acks' \subseteq acks
  BY DEF RetryTimer, serverSide
<1> HIDE DEF q
<1> QED
  BY <1>3, <1>4, DrainKeeps, ProceedKeeps DEF StreamInv, HookInv

\* The connection and the server

LEMMA HookStays ==
    ASSUME HookInv, connected' \in BOOLEAN, UNCHANGED <<hook, epoch>>
    PROVE  HookInv'
BY DEF HookInv, hook

\* A chunk the server decides about is older than the others under way; its
\* answer is the one to the chunk that is sent if their ids agree.
LEMMA ReplyKeeps ==
    ASSUME StreamInv, NEW m \in Flying, NEW answer \in Answers, Reply(m, answer),
           UNCHANGED <<queue, epoch>>, audioWire' \in Seq(Message), held' \subseteq Message,
           Flying' \subseteq Flying, \A n \in Flying' : n.id # m.id,
           answer = "ok" => \A n \in Flying' : Ordered!Later(n, m),
           \A n, k \in held' : n = k,
           \A n \in held', i \in 1..Len(audioWire') : Before(n, audioWire'[i]),
           \A i, j \in 1..Len(audioWire') : i < j => Before(audioWire'[i], audioWire'[j])
    PROVE  WireInv' /\ TracksInv(queue)'
<1>1. /\ m \in Message /\ m.id \in Nat \ {0} /\ m.stream \in Nat /\ m.seq \in Nat
      /\ m.stream <= epoch /\ epoch \in Nat /\ Ordered!Later(m, heard)
  BY MessagesTyped DEF StreamInv, HookInv, WireInv, Message
<1>2. heard \in [stream : Nat, seq : Nat] /\ heard.stream \in Nat /\ heard.seq \in Nat
  BY DEF StreamInv, WireInv
<1>3. heard' = IF answer = "ok" THEN [stream |-> m.stream, seq |-> m.seq] ELSE heard
  BY DEF Reply
<1>4. acks' \subseteq acks \cup {[id |-> m.id, answer |-> answer]}
  BY DEF Reply
<1>5. heard' \in [stream : Nat, seq : Nat] /\ heard'.stream <= epoch
  BY <1>1, <1>2, <1>3 DEF StreamInv, WireInv
<1>6. WireInv'
  <2>1. acks' \subseteq [id : Nat \ {0}, answer : Answers]
    BY <1>1, <1>4 DEF StreamInv, WireInv
  <2>2. \A n \in Flying' : n.stream <= epoch /\ Ordered!Later(n, heard)'
    BY <1>3 DEF StreamInv, WireInv, Ordered!Later
  <2>3. \A n \in Flying', a \in acks' : n.id # a.id
    BY <1>4 DEF StreamInv, WireInv
  <2>4. \A n \in held', i \in 1..Len(audioWire') : Before(n, audioWire[i])'
    BY DEF Before, Ordered!Later
  <2>5. \A i, j \in 1..Len(audioWire') : i < j => Before(audioWire[i], audioWire[j])'
    BY DEF Before, Ordered!Later
  <2> QED
    BY <1>5, <2>1, <2>2, <2>3, <2>4, <2>5 DEF WireInv
<1>7. TracksInv(queue) /\ QueueInv(queue) /\ FlyingInv(queue, epoch, m) /\ HeardInv(queue, epoch, heard)
  BY DEF StreamInv, TracksInv
<1>8. \A t \in queue.sent : t.chunk.seq \in Nat
  BY <1>7, QueueFields, AudioAssumption DEF QueueInv, Chunk
<1>9. queue.lastAccepted \in Nat
  BY <1>7, QueueFields DEF QueueInv
<1>10. HeardInv(queue, epoch, heard)'
  <2>1. CASE answer = "ok"
    <3>1. heard'.stream = m.stream /\ heard'.seq = m.seq
      BY <1>3, <2>1
    <3>2. m.stream = epoch => \A t \in queue.sent : m.seq <= t.chunk.seq
      BY <1>1, <1>7, <1>8 DEF FlyingInv
    <3>3. queue.lastAccepted > 0 => m.stream = epoch /\ queue.lastAccepted <= m.seq
      BY <1>1, <1>2, <1>7, <1>9 DEF HeardInv, Ordered!Later
    <3> QED
      BY <1>7, <3>1, <3>2, <3>3 DEF HeardInv, FlyingInv
  <2>2. CASE answer # "ok"
    BY <1>3, <1>7, <2>2 DEF HeardInv
  <2> QED
    BY <2>1, <2>2
<1>11. ASSUME NEW a \in acks'
       PROVE  AnswerInv(queue, epoch, heard', a)
  <2>1. CASE a \in acks
    <3>1. AnswerInv(queue, epoch, heard, a) /\ a.id # m.id
      BY <2>1 DEF StreamInv, TracksInv, WireInv
    <3>2. CASE answer # "ok"
      BY <1>3, <3>1, <3>2
    <3>3. CASE answer = "ok"
      <4>1. heard'.stream = m.stream /\ heard'.seq = m.seq
        BY <1>3, <3>3
      <4>2. ASSUME NEW t \in queue.sent, a.id = t.id
            PROVE  /\ ~(m.stream = epoch /\ m.seq = t.chunk.seq)
                   /\ ~(heard.stream = epoch /\ heard.seq = t.chunk.seq)
        <5>1. m.stream = epoch => m.seq < t.chunk.seq
          BY <1>7, <3>1, <4>2 DEF FlyingInv
        <5> QED
          BY <1>1, <1>2, <1>8, <5>1 DEF Ordered!Later
      <4> QED
        BY <3>1, <4>1, <4>2 DEF AnswerInv
    <3> QED
      BY <3>2, <3>3
  <2>2. CASE a = [id |-> m.id, answer |-> answer]
    <3>1. a.id = m.id /\ a.answer = answer /\ a.id < queue.nextAckId
      BY <1>7, <2>2 DEF FlyingInv
    <3>2. ASSUME NEW t \in queue.sent, a.id = t.id
          PROVE  answer = "ok" <=> heard'.stream = epoch /\ heard'.seq = t.chunk.seq
      <4>1. m.stream = epoch /\ m.seq = t.chunk.seq
        BY <1>7, <3>1, <3>2 DEF FlyingInv
      <4>2. ~(heard.stream = epoch /\ heard.seq = t.chunk.seq)
        BY <1>1, <1>2, <4>1 DEF Ordered!Later
      <4>3. CASE answer = "ok"
        BY <1>3, <4>1, <4>3
      <4>4. CASE answer # "ok"
        BY <1>3, <4>2, <4>4
      <4> QED
        BY <4>3, <4>4
    <3> QED
      BY <3>1, <3>2 DEF AnswerInv
  <2> QED
    BY <1>4, <2>1, <2>2
<1>12. \A n \in Flying' : FlyingInv(queue, epoch, n)
  BY DEF StreamInv, TracksInv
<1> QED
  BY <1>6, <1>7, <1>10, <1>11, <1>12 DEF TracksInv

LEMMA TailOfWire ==
    ASSUME audioWire \in Seq(Message), audioWire # <<>>, audioWire' = Tail(audioWire)
    PROVE  /\ Len(audioWire) \in Nat \ {0} /\ Head(audioWire) = audioWire[1]
           /\ audioWire' \in Seq(Message) /\ Len(audioWire') = Len(audioWire) - 1
           /\ \A i \in 1..Len(audioWire') :
                i + 1 \in 2..Len(audioWire) /\ audioWire'[i] = audioWire[i + 1]
<1>1. Len(audioWire) \in Nat \ {0}
  OBVIOUS
<1>2. /\ audioWire' \in Seq(Message) /\ Len(audioWire') = Len(audioWire) - 1
      /\ \A i \in 1..Len(audioWire') : audioWire'[i] = audioWire[i + 1]
  BY HeadTailProperties
<1> QED
  BY <1>1, <1>2

LEMMA ServeKeeps == ASSUME StreamInv, Serve PROVE StreamInv'
<1> DEFINE m == Head(audioWire)
           n == Len(audioWire)
<1>1. WireInv /\ TracksInv(queue) /\ HookInv /\ epoch \in Nat
  BY DEF StreamInv, HookInv
<1>2. /\ n \in Nat \ {0} /\ m = audioWire[1]
      /\ audioWire' \in Seq(Message) /\ Len(audioWire') = n - 1
      /\ \A i \in 1..Len(audioWire') : i + 1 \in 2..n /\ audioWire'[i] = audioWire[i + 1]
  BY <1>1, TailOfWire DEF WireInv, Serve
<1>3. /\ \A i \in 2..n : Before(m, audioWire[i])
      /\ \A i, j \in 1..n : i < j => Before(audioWire[i], audioWire[j])
  BY <1>1, <1>2 DEF WireInv
<1>4. m \in Message /\ m \in Flying
  BY <1>1, <1>2 DEF WireInv, Flying
<1> HIDE DEF m, n
<1>5. \A i, j \in 1..Len(audioWire') : i < j => Before(audioWire'[i], audioWire'[j])
  <2>1. ASSUME NEW i \in 1..Len(audioWire'), NEW j \in 1..Len(audioWire'), i < j
        PROVE  Before(audioWire'[i], audioWire'[j])
    <3>1. i + 1 \in 1..n /\ j + 1 \in 1..n /\ i + 1 < j + 1
      BY <1>2, <2>1
    <3> QED
      BY <1>2, <1>3, <3>1
  <2> QED
    BY <2>1
<1>6. \A i \in 1..Len(audioWire') : Before(m, audioWire'[i])
  BY <1>2, <1>3
<1>7. {audioWire'[i] : i \in 1..Len(audioWire')} \subseteq {audioWire[i] : i \in 1..n}
  <2>1. \A i \in 1..Len(audioWire') : i + 1 \in 1..n /\ audioWire'[i] = audioWire[i + 1]
    BY <1>2
  <2> QED
    BY <2>1
<1>8. HookInv'
  BY <1>1, HookStays DEF Serve, HookInv
<1>9. CASE held = {} /\ held' = {m} /\ UNCHANGED <<acks, heard>>
  <2>1. Flying' \subseteq Flying
    BY <1>4, <1>7, <1>9 DEF Flying, n
  <2>2. WireInv'
    <3>1. \A i, j \in 1..Len(audioWire') : i < j => Before(audioWire[i], audioWire[j])'
      BY <1>5 DEF Before, Ordered!Later
    <3>2. \A k \in held', i \in 1..Len(audioWire') : Before(k, audioWire[i])'
      BY <1>6, <1>9 DEF Before, Ordered!Later
    <3>3. \A k \in Flying' : k.stream <= epoch' /\ Ordered!Later(k, heard)'
      BY <1>1, <1>9, <2>1 DEF Serve, WireInv, Ordered!Later
    <3>4. \A k \in Flying', a \in acks' : k.id # a.id
      BY <1>1, <1>9, <2>1 DEF WireInv
    <3> QED
      BY <1>1, <1>2, <1>4, <1>9, <3>1, <3>2, <3>3, <3>4 DEF Serve, WireInv
  <2>3. TracksInv(queue)'
    <3>1. queue' = queue /\ epoch' = epoch /\ acks' = acks /\ heard' = heard
      BY <1>9 DEF Serve
    <3>2. QueueInv(queue)' /\ HeardInv(queue, epoch, heard)'
      BY <1>1, <3>1 DEF TracksInv, QueueInv, HeardInv
    <3>3. \A k \in Flying' : FlyingInv(queue, epoch, k)'
      BY <1>1, <2>1, <3>1 DEF TracksInv, FlyingInv
    <3>4. \A a \in acks' : AnswerInv(queue, epoch, heard, a)'
      BY <1>1, <3>1 DEF TracksInv, AnswerInv
    <3> QED
      BY <3>2, <3>3, <3>4 DEF TracksInv
  <2> QED
    BY <1>8, <2>2, <2>3 DEF StreamInv
<1>10. ASSUME NEW answer \in (IF held = {} THEN Answers ELSE {"warming"}),
              Reply(m, answer), held' = held
       PROVE  StreamInv'
  <2>1. answer \in Answers /\ (answer = "ok" => held = {})
    BY <1>10 DEF Answers
  <2>2. Flying' \subseteq Flying
    BY <1>7, <1>10 DEF Flying, n
  <2>3. \A k \in held : Before(k, m) /\ k \in Message
    BY <1>1, <1>2 DEF WireInv, n
  <2>4. \A k \in Flying' : k.id # m.id
    <3>1. \A k \in held : k.id # m.id
      BY <1>4, <2>3 DEF Before, Message
    <3>2. \A i \in 1..Len(audioWire') : audioWire'[i].id # m.id
      <4>1. \A i \in 1..Len(audioWire') : audioWire'[i] \in Message /\ Before(m, audioWire'[i])
        BY <1>2, <1>6
      <4> HIDE DEF Message
      <4>2. \A k \in Message : Before(m, k) => k.id # m.id
        BY <1>4 DEF Before, Message
      <4> QED
        BY <4>1, <4>2
    <3> QED
      BY <1>10, <3>1, <3>2 DEF Flying
  <2>5. answer = "ok" => \A k \in Flying' : Ordered!Later(k, m)
    BY <1>6, <1>10, <2>1 DEF Flying, Before
  <2>6. \A k \in held', i \in 1..Len(audioWire') : Before(k, audioWire'[i])
    <3>1. \A i \in 1..Len(audioWire') : i + 1 \in 1..n /\ audioWire'[i] = audioWire[i + 1]
      BY <1>2
    <3> QED
      BY <1>1, <1>10, <3>1 DEF WireInv, n
  <2>7. UNCHANGED <<queue, epoch>>
    BY DEF Serve
  <2>8. WireInv' /\ TracksInv(queue)'
    BY <1>1, <1>2, <1>4, <1>5, <1>10, <2>1, <2>2, <2>4, <2>5, <2>6, <2>7, ReplyKeeps DEF WireInv
  <2> QED
    BY <1>8, <2>8 DEF StreamInv
<1> QED
  BY <1>9, <1>10 DEF Serve, m

LEMMA SessionDecidedKeeps == ASSUME StreamInv, SessionDecided PROVE StreamInv'
<1>1. PICK m \in held, answer \in Answers : Reply(m, answer)
  BY DEF SessionDecided
<1>2. /\ held' = {} /\ UNCHANGED <<hook, queue, epoch, connected, audioWire>>
  BY DEF SessionDecided
<1>3. WireInv /\ TracksInv(queue) /\ HookInv
  BY DEF StreamInv
<1>4. m \in Flying /\ m \in Message /\ Flying' \subseteq Flying
  BY <1>2, <1>3 DEF Flying, WireInv
<1>5. \A n \in Flying' : Before(m, n)
  BY <1>2, <1>3 DEF Flying, WireInv
<1>6. \A n \in Flying' : n.id # m.id /\ Ordered!Later(n, m)
  BY <1>3, <1>4, <1>5, MessagesTyped DEF Before, Message
<1>7. WireInv' /\ TracksInv(queue)'
  <2>1. audioWire \in Seq(Message) /\ held' \subseteq Message
    BY <1>2, <1>3 DEF WireInv
  <2>2. \A i, j \in 1..Len(audioWire') : i < j => Before(audioWire'[i], audioWire'[j])
    BY <1>2, <1>3 DEF WireInv
  <2> QED
    BY <1>1, <1>2, <1>4, <1>6, <2>1, <2>2, ReplyKeeps
<1>8. HookInv'
  BY <1>2, <1>3, HookStays DEF HookInv
<1> QED
  BY <1>7, <1>8 DEF StreamInv

LEMMA DropKeeps == ASSUME StreamInv, ConnectionDrops PROVE StreamInv'
<1>1. WireInv /\ TracksInv(queue) /\ HookInv
  BY DEF StreamInv
<1>2. /\ connected' = FALSE /\ acks' = {}
      /\ UNCHANGED <<hook, queue, epoch>> /\ held' = held /\ heard' = heard
  BY DEF ConnectionDrops, serverSide
<1>3. PICK n \in 0..Len(audioWire) : audioWire' = SubSeq(audioWire, 1, n)
  BY DEF ConnectionDrops
<1>4. /\ audioWire' \in Seq(Message) /\ Len(audioWire') = n
      /\ \A i \in 1..n : i \in 1..Len(audioWire) /\ audioWire'[i] = audioWire[i]
  <2>1. audioWire \in Seq(Message) /\ Len(audioWire) \in Nat
    BY <1>1 DEF WireInv
  <2>2. \A i \in 1..n : i \in 1..Len(audioWire) /\ audioWire[i] \in Message
    BY <2>1
  <2>3. /\ SubSeq(audioWire, 1, n) \in Seq(Message)
        /\ Len(SubSeq(audioWire, 1, n)) = IF 1 <= n THEN n - 1 + 1 ELSE 0
        /\ \A i \in 1..n - 1 + 1 : SubSeq(audioWire, 1, n)[i] = audioWire[1 + i - 1]
    BY <2>1, <2>2, SubSeqProperties
  <2> QED
    BY <1>3, <2>1, <2>2, <2>3
<1>5. Flying' \subseteq Flying
  BY <1>2, <1>4 DEF Flying
<1>6. WireInv'
  <2>1. \A i, j \in 1..Len(audioWire') : i < j => Before(audioWire[i], audioWire[j])'
    <3>1. \A i, j \in 1..Len(audioWire) : i < j => Before(audioWire[i], audioWire[j])
      BY <1>1 DEF WireInv
    <3>2. \A i, j \in 1..Len(audioWire') : i < j => Before(audioWire'[i], audioWire'[j])
      BY <1>4, <3>1
    <3> QED
      BY <3>2 DEF Before, Ordered!Later
  <2>2. \A k \in held', i \in 1..Len(audioWire') : Before(k, audioWire[i])'
    BY <1>1, <1>2, <1>4 DEF WireInv, Before, Ordered!Later
  <2>3. \A k \in Flying' : k.stream <= epoch' /\ Ordered!Later(k, heard)'
    BY <1>1, <1>2, <1>5 DEF WireInv, Ordered!Later
  <2> QED
    BY <1>1, <1>2, <1>4, <2>1, <2>2, <2>3 DEF WireInv
<1>7. TracksInv(queue)'
  <2>1. QueueInv(queue)' /\ HeardInv(queue, epoch, heard)'
    BY <1>1, <1>2 DEF TracksInv, QueueInv, HeardInv
  <2>2. \A k \in Flying' : FlyingInv(queue, epoch, k)'
    BY <1>1, <1>2, <1>5 DEF TracksInv, FlyingInv
  <2> QED
    BY <1>2, <2>1, <2>2 DEF TracksInv
<1>8. HookInv'
  BY <1>1, <1>2, HookStays
<1> QED
  BY <1>6, <1>7, <1>8 DEF StreamInv

-----------------------------------------------------------------------------
(***************************************************************************)
(* Theorems                                                                *)
(***************************************************************************)
LEMMA InitStreamInv == AudioInit => StreamInv
<1> SUFFICES ASSUME AudioInit PROVE StreamInv
  OBVIOUS
<1> USE DEF AudioInit
<1>1. HookInv
  <2>1. opening \subseteq 1..generation /\ generation \in Nat /\ 0 \in 0..generation
    OBVIOUS
  <2> QED
    BY <2>1 DEF HookInv
<1>2. Flying = {}
  BY DEF Flying
<1>3. WireInv
  BY <1>2 DEF WireInv
<1>4. QueueInv(queue)
  <2>1. 1 \in 1..MaxCaptured + 1
    BY AudioAssumption
  <2>2. EmptyQueue \in Queue
    BY <2>1 DEF EmptyQueue, Queue
  <2> QED
    BY <2>2, FS_EmptySet, AudioAssumption DEF QueueInv, EmptyQueue
<1>5. HeardInv(queue, epoch, heard)
  BY DEF HeardInv, EmptyQueue
<1> QED
  BY <1>1, <1>2, <1>3, <1>4, <1>5 DEF StreamInv, TracksInv

LEMMA NextStreamInv == StreamInv /\ [AudioNext]_audioVars => StreamInv'
<1> SUFFICES ASSUME StreamInv, [AudioNext]_audioVars PROVE StreamInv'
  OBVIOUS
<1>1. CASE StartStreaming
  BY <1>1, StartKeeps
<1>2. CASE StopStreaming
  BY <1>2, StopKeeps
<1>3. CASE Capture
  BY <1>3, CaptureKeeps
<1>4. CASE BackoffEnds
  BY <1>4, BackoffEndsKeeps
<1>5. CASE RetryTimer
  BY <1>5, RetryTimerKeeps
<1>6. CASE \E g \in opening : Opened(g) \/ OpenFails(g)
  BY <1>6, OpenedKeeps, OpenFailsKeeps
<1>7. CASE \E a \in acks : AckArrives(a)
  BY <1>7, AckArrivesKeeps
<1>8. CASE \E t \in queue.sent : AckTimesOut(t)
  BY <1>8, AckTimesOutKeeps
<1>9. CASE ConnectionDrops
  BY <1>9, DropKeeps
<1>10. CASE Reconnects
  <2>1. HookInv' /\ SameWire
    BY <1>10, HookStays DEF StreamInv, Reconnects, SameWire, serverSide
  <2> QED
    BY <1>10, <2>1, BecomesKeeps DEF StreamInv, Reconnects
<1>11. CASE Serve
  BY <1>11, ServeKeeps
<1>12. CASE SessionDecided
  BY <1>12, SessionDecidedKeeps
<1>13. CASE UNCHANGED audioVars
  <2>1. HookInv' /\ SameWire /\ UNCHANGED <<queue, epoch>>
    BY <1>13, HookStays DEF StreamInv, HookInv, audioVars, SameWire, serverSide
  <2> QED
    BY <2>1, BecomesKeeps DEF StreamInv
<1> QED
  BY <1>1, <1>2, <1>3, <1>4, <1>5, <1>6, <1>7, <1>8, <1>9, <1>10, <1>11, <1>12, <1>13 DEF AudioNext

\* Where a chunk can be, and in which order: the inductive invariant.
THEOREM ChunksInOrder == AudioSpec => []StreamInv
BY InitStreamInv, NextStreamInv, PTL DEF AudioSpec

\* The state of the hook and its queue keeps its type: the buffer never passes
\* MAX_PENDING_CHUNKS, and no chunk is retried more often than MAX_CHUNK_RETRIES.
THEOREM AudioTypes == AudioSpec => []AudioTypeOK
<1>1. StreamInv => AudioTypeOK
  <2> SUFFICES ASSUME StreamInv PROVE AudioTypeOK
    OBVIOUS
  <2>1. Cardinality(held) <= 1
    <3>1. CASE held = {}
      BY <3>1, FS_EmptySet
    <3>2. CASE held # {}
      <4>1. PICK m \in held : held = {m}
        BY <3>2 DEF StreamInv, WireInv
      <4> QED
        BY <4>1, FS_Singleton
    <3> QED
      BY <3>1, <3>2
  <2>2. \A t \in queue.sent : t.id < queue.nextAckId /\ t.chunk \in Chunk
    BY QueueFields DEF StreamInv, TracksInv, QueueInv
  <2>3. queue.pending \subseteq Chunk /\ Cardinality(queue.pending) <= BufferLimit
    BY QueueFields DEF StreamInv, TracksInv, QueueInv
  <2> QED
    BY <2>1, <2>2, <2>3 DEF StreamInv, HookInv, AudioTypeOK
<1> QED
  BY <1>1, ChunksInOrder, PTL

\* An answer that counts for a chunk of the present stream is the answer the
\* server gave to that chunk.
THEOREM AcceptedIsHeard == AudioSpec => []AcceptedWasHeard
<1>1. StreamInv => AcceptedWasHeard
  <2> SUFFICES ASSUME StreamInv, queue.lastAccepted > 0
               PROVE  ~Ordered!Later([stream |-> epoch, seq |-> queue.lastAccepted], heard)
    BY DEF AcceptedWasHeard
  <2>1. heard.stream = epoch /\ queue.lastAccepted <= heard.seq
    BY DEF StreamInv, TracksInv, HeardInv
  <2>2. epoch \in Nat /\ queue.lastAccepted \in Nat /\ heard.seq \in Nat
    BY QueueFields DEF StreamInv, HookInv, WireInv, TracksInv, QueueInv
  <2> QED
    BY <2>1, <2>2 DEF Ordered!Later
<1> QED
  BY <1>1, ChunksInOrder, PTL

\* What a step of the queue is to the promise: nothing, a chunk captured, or a
\* stream that begins.
LEMMA ProceedMaps ==
    ASSUME NEW R, Proceed(R), heard' = heard,
           \A r \in R : r.queue.nextSeq \in {queue.nextSeq, queue.nextSeq + 1},
           queue.nextSeq \in Int
    PROVE  [Ordered!OrderedNext]_(Ordered!orderedVars)
<1>1. PICK r \in R : IF r.stop THEN StopForInstability(r.queue)
                     ELSE queue' = r.queue /\ UNCHANGED <<hook, epoch>>
  BY DEF Proceed
<1>2. CASE queue' = r.queue /\ epoch' = epoch
  BY <1>2 DEF Ordered!OrderedNext, Ordered!CaptureChunk, Ordered!orderedVars
<1>3. CASE Cleanup(r.queue)
  BY <1>3 DEF Cleanup, Cleared, EmptyQueue, Ordered!OrderedNext, Ordered!NewStream
<1> QED
  BY <1>1, <1>2, <1>3 DEF StopForInstability

LEMMA ClearedMaps ==
    ASSUME NEW q, queue' = Cleared(q), epoch' = epoch + 1, heard' = heard
    PROVE  Ordered!OrderedNext
BY DEF Cleared, EmptyQueue, Ordered!OrderedNext, Ordered!NewStream

LEMMA DrainedSeq ==
    ASSUME NEW q \in Queue, NEW r \in Drained(q)
    PROVE  r.queue.nextSeq = q.nextSeq
BY DrainedCases DEF Shrinks, Sends

LEMMA AnsweredSeq ==
    ASSUME NEW q \in Queue, NEW t, NEW answer
    PROVE  Answered(q, t, answer).nextSeq = q.nextSeq
<1> DEFINE done == [q EXCEPT !.sent = @ \ {t}, !.timeouts = 0]
           back == [t.chunk EXCEPT !.retries = @ + 1]
           P == LET all == done.pending \cup {back}
                IN  IF Cardinality(all) > BufferLimit THEN all \ {First(all)} ELSE all
           again == /\ answer \in {"warming", "backpressure"}
                    /\ t.chunk.seq > q.lastAccepted /\ t.chunk.retries < MaxRetries
           kept == IF again THEN [Buffered(done, back) EXCEPT !.backoff = TRUE] ELSE done
           l == IF t.chunk.seq > done.lastAccepted THEN t.chunk.seq ELSE done.lastAccepted
<1>1. DOMAIN done = DOMAIN q /\ DOMAIN q = {"pending", "sent", "nextSeq", "lastAccepted", "backoff",
         "timer", "timeouts", "pressure", "saturated", "away", "nextAckId"}
      /\ done.nextSeq = q.nextSeq
  BY DEF Queue
<1>2. Buffered(done, back) = [done EXCEPT !.pending = P]
  BY DEF Buffered
<1> HIDE DEF P, back, done
<1>3. kept.nextSeq = q.nextSeq
  BY <1>1, <1>2
<1> HIDE DEF l, again
<1>4. \/ Answered(q, t, answer) = [done EXCEPT !.pressure = 0, !.lastAccepted = l]
      \/ Answered(q, t, answer) = [kept EXCEPT !.pressure = @ + 1]
      \/ Answered(q, t, answer) = [kept EXCEPT !.pressure = 0]
  BY DEF Answered, done, l, again, back
<1>5. [done EXCEPT !.pressure = 0, !.lastAccepted = l].nextSeq = done.nextSeq
  BY <1>1
<1> HIDE DEF kept
<1>6. /\ [kept EXCEPT !.pressure = @ + 1].nextSeq = kept.nextSeq
      /\ [kept EXCEPT !.pressure = 0].nextSeq = kept.nextSeq
  OBVIOUS
<1> QED
  BY <1>1, <1>3, <1>4, <1>5, <1>6

\* A chunk that is heard is later than the last one, and was captured.
LEMMA ReplyMaps ==
    ASSUME StreamInv, NEW m \in Flying, NEW answer, Reply(m, answer), UNCHANGED <<queue, epoch>>
    PROVE  [Ordered!OrderedNext]_(Ordered!orderedVars)
<1>1. CASE answer # "ok"
  BY <1>1 DEF Reply, Ordered!orderedVars
<1>2. CASE answer = "ok"
  <2>1. heard' = [stream |-> m.stream, seq |-> m.seq]
    BY <1>2 DEF Reply
  <2>2. m.seq \in Nat \ {0} /\ m.stream <= epoch /\ Ordered!Later(m, heard)
    BY MessagesTyped DEF StreamInv, WireInv, Message
  <2>3. m.stream = epoch => m.seq < queue.nextSeq
    BY DEF StreamInv, TracksInv, FlyingInv
  <2>4. queue.nextSeq \in Int
    BY QueueFields, AudioAssumption DEF StreamInv, TracksInv, QueueInv
  <2>5. Ordered!Later(heard', heard)
    BY <2>1, <2>2 DEF Ordered!Later
  <2> QED
    BY <2>1, <2>2, <2>3, <2>4, <2>5 DEF Ordered!OrderedNext, Ordered!HearChunk
<1> QED
  BY <1>1, <1>2

LEMMA StepMaps ==
    ASSUME StreamInv, [AudioNext]_audioVars
    PROVE  [Ordered!OrderedNext]_(Ordered!orderedVars)
<1>1. TracksInv(queue) /\ queue \in Queue /\ queue.nextSeq \in Int /\ epoch \in Nat /\ WireInv
  BY QueueFields, AudioAssumption DEF StreamInv, HookInv, TracksInv, QueueInv
<1>2. CASE StartStreaming
  BY <1>2, ClearedMaps DEF StartStreaming, serverSide
<1>3. CASE StopStreaming
  BY <1>3, ClearedMaps DEF StopStreaming, Cleanup, serverSide
<1>4. CASE Capture
  <2> DEFINE chunk == [seq |-> queue.nextSeq, retries |-> 0]
             kept == [Buffered(queue, chunk) EXCEPT !.nextSeq = @ + 1]
             here == [kept EXCEPT !.away = FALSE]
             away == [kept EXCEPT !.away = TRUE]
  <2>1. kept \in Queue /\ kept.nextSeq = queue.nextSeq + 1
    BY <1>4, CapturedKeeps DEF Capture
  <2>2. \/ Proceed(Drained(here))
        \/ Proceed({Result(away, <<>>, FALSE)}
                   \cup {Result(kept, <<>>, TRUE) : x \in {y \in {1} : queue.away}})
    BY <1>4 DEF Capture
  <2> HIDE DEF kept
  <2>3. /\ here \in Queue /\ here.nextSeq = queue.nextSeq + 1
        /\ away \in Queue /\ away.nextSeq = queue.nextSeq + 1
    BY <2>1 DEF Queue
  <2> HIDE DEF here, away
  <2>4. \A r \in Drained(here) : r.queue.nextSeq = queue.nextSeq + 1
    BY <2>3, DrainedSeq
  <2>5. /\ Result(away, <<>>, FALSE).queue = away
        /\ Result(kept, <<>>, TRUE).queue = kept
    BY DEF Result
  <2>6. heard' = heard
    BY <1>4 DEF Capture, serverSide
  <2>7. CASE Proceed(Drained(here))
    BY <1>1, <2>4, <2>6, <2>7, ProceedMaps
  <2>8. CASE Proceed({Result(away, <<>>, FALSE)}
                   \cup {Result(kept, <<>>, TRUE) : x \in {y \in {1} : queue.away}})
    BY <1>1, <2>1, <2>3, <2>5, <2>6, <2>8, ProceedMaps
  <2> QED
    BY <2>2, <2>7, <2>8
<1>5. CASE BackoffEnds
  BY <1>1, <1>5 DEF BackoffEnds, Queue, serverSide, Ordered!orderedVars
<1>6. CASE RetryTimer
  <2> DEFINE q == [queue EXCEPT !.timer = FALSE]
  <2>1. q \in Queue /\ q.nextSeq = queue.nextSeq
    BY <1>1 DEF Queue
  <2>2. Proceed(Drained(q)) /\ heard' = heard
    BY <1>6 DEF RetryTimer, serverSide
  <2> HIDE DEF q
  <2> QED
    BY <1>1, <2>1, <2>2, DrainedSeq, ProceedMaps
<1>7. ASSUME NEW g \in opening, Opened(g) \/ OpenFails(g)
      PROVE  [Ordered!OrderedNext]_(Ordered!orderedVars)
  <2>1. heard' = heard /\ (Cleanup(queue) \/ UNCHANGED <<queue, epoch>>)
    BY <1>7 DEF Opened, OpenFails, serverSide
  <2>2. CASE Cleanup(queue)
    BY <2>1, <2>2, ClearedMaps DEF Cleanup
  <2>3. CASE UNCHANGED <<queue, epoch>>
    BY <2>1, <2>3 DEF Ordered!orderedVars
  <2> QED
    BY <2>1, <2>2, <2>3
<1>8. ASSUME NEW a \in acks, AckArrives(a)
      PROVE  [Ordered!OrderedNext]_(Ordered!orderedVars)
  <2>1. heard' = heard
    BY <1>8 DEF AckArrives, serverSide
  <2>2. CASE Tracked(a.id) = {}
    <3>1. Proceed(Drained(queue))
      BY <1>8, <2>2 DEF AckArrives
    <3> QED
      BY <1>1, <2>1, <3>1, DrainedSeq, ProceedMaps
  <2>3. CASE Tracked(a.id) # {}
    <3> DEFINE t == CHOOSE u \in Tracked(a.id) : TRUE
               q == Answered(queue, t, a.answer)
    <3>1. t \in queue.sent /\ t.id = a.id
      BY <2>3 DEF Tracked
    <3>2. Cleanup(queue) \/ Proceed({Result(q, <<>>, TRUE)}) \/ Proceed(Drained(q))
      BY <1>8, <2>3, Zenon DEF AckArrives
    <3> HIDE DEF t
    <3>3. q \in Queue /\ q.nextSeq = queue.nextSeq
      BY <1>1, <3>1, AnsweredKeeps, AnsweredSeq DEF TracksInv, QueueInv
    <3> HIDE DEF q
    <3>4. CASE Cleanup(queue)
      BY <2>1, <3>4, ClearedMaps DEF Cleanup
    <3>5. CASE Proceed({Result(q, <<>>, TRUE)})
      <4>1. Result(q, <<>>, TRUE).queue = q
        BY DEF Result
      <4> QED
        BY <1>1, <2>1, <3>3, <3>5, <4>1, ProceedMaps
    <3>6. CASE Proceed(Drained(q))
      BY <1>1, <2>1, <3>3, <3>6, DrainedSeq, ProceedMaps
    <3> QED
      BY <3>2, <3>4, <3>5, <3>6
  <2> QED
    BY <2>2, <2>3
<1>9. ASSUME NEW t \in queue.sent, AckTimesOut(t)
      PROVE  [Ordered!OrderedNext]_(Ordered!orderedVars)
  <2> DEFINE q == [queue EXCEPT !.sent = @ \ {t}, !.timeouts = @ + 1]
  <2>1. q.nextSeq = queue.nextSeq
    BY <1>1 DEF Queue
  <2>2. PICK stop : Proceed({Result(q, <<>>, stop)})
    BY <1>9 DEF AckTimesOut
  <2>3. heard' = heard
    BY <1>9 DEF AckTimesOut, serverSide
  <2> HIDE DEF q
  <2>4. Result(q, <<>>, stop).queue = q
    BY DEF Result
  <2> QED
    BY <1>1, <2>1, <2>2, <2>3, <2>4, ProceedMaps
<1>10. CASE ConnectionDrops \/ Reconnects \/ UNCHANGED audioVars
  BY <1>10 DEF ConnectionDrops, Reconnects, audioVars, serverSide, Ordered!orderedVars
<1>11. CASE Serve
  <2>1. UNCHANGED <<queue, epoch>>
    BY <1>11 DEF Serve
  <2>2. CASE heard' = heard
    BY <2>1, <2>2 DEF Ordered!orderedVars
  <2>3. ASSUME NEW answer, Reply(Head(audioWire), answer)
        PROVE  [Ordered!OrderedNext]_(Ordered!orderedVars)
    <3>1. audioWire \in Seq(Message) /\ audioWire # <<>>
      BY <1>1, <1>11 DEF Serve, WireInv
    <3>2. Head(audioWire) = audioWire[1] /\ 1 \in 1..Len(audioWire)
      BY <3>1
    <3>3. Head(audioWire) \in Flying
      BY <3>2 DEF Flying
    <3> QED
      BY <2>1, <2>3, <3>3, ReplyMaps
  <2> QED
    BY <1>11, <2>2, <2>3 DEF Serve
<1>12. CASE SessionDecided
  <2>1. PICK m \in held, answer \in Answers : Reply(m, answer)
    BY <1>12 DEF SessionDecided
  <2>2. m \in Flying /\ UNCHANGED <<queue, epoch>>
    BY <1>12 DEF SessionDecided, Flying
  <2> QED
    BY <2>1, <2>2, ReplyMaps
<1> QED
  BY <1>2, <1>3, <1>4, <1>5, <1>6, <1>7, <1>8, <1>9, <1>10, <1>11, <1>12 DEF AudioNext

\* Whatever times out, is answered late, is retried, is lost or starts again,
\* AWS hears the chunks in the order of capture, each at most once: the stream
\* implements OrderedAudio.
THEOREM StreamImplementsOrderedAudio == AudioSpec => HearsInOrder
<1>1. AudioInit => Ordered!OrderedInit
  BY DEF AudioInit, EmptyQueue, Ordered!OrderedInit
<1>2. StreamInv /\ [AudioNext]_audioVars => [Ordered!OrderedNext]_(Ordered!orderedVars)
  BY StepMaps
<1> QED
  BY <1>1, <1>2, ChunksInOrder, PTL DEF AudioSpec, HearsInOrder, Ordered!OrderedSpec

-----------------------------------------------------------------------------
(***************************************************************************)
(* Proofs about MeetingRecorder, for every number of recordings, chunks,   *)
(* microphone requests and reloads.  The inductive invariant follows a     *)
(* chunk on its way: a recorder that may still deliver is the last one     *)
(* made and has its session for itself (ProducerInv), so no two chunks     *)
(* have one id (FilesInv); what was made is stored or being saved          *)
(* (StoredInv); an onstop waits for every save (ChainInv), and what the    *)
(* end collects is therefore all there is (CollectedInv).                  *)
(***************************************************************************)

Waits == SUBSET RecordedChunk
Numbers == SUBSET (1..MaxSessions)
Onstop == [number : 1..MaxSessions, waits : Waits]
Onstops == SUBSET Onstop
RecorderStates == {"idle", "recording", "stopping"}

Recorder == [state : RecorderStates, active : BOOLEAN, session : 0..MaxSessions,
             number : 0..MaxSessions, index : 0..MaxChunks, knows : BOOLEAN,
             finishing : Numbers, onstops : Onstops, resolve : BOOLEAN]

TypeInv ==
    /\ RecorderTypeOK /\ rec \in Recorder
    /\ click \in [recorder : RecorderStates, mode : Modes]
    /\ recorders \in 0..MaxSessions /\ reloads \in Nat
    /\ produced \subseteq RecordedChunk /\ uploaded \subseteq RecordedChunk
    /\ spoiled \in BOOLEAN

Producing(r) == r.active \/ r.finishing # {}

\* The recorder that may still deliver data is the last one, alone under its
\* session, at an index that is not taken.
ProducerInv(r) ==
    /\ r.session \in 0..recorders
    /\ \A c \in produced : c.session \in 1..recorders /\ c.by \in 1..recorders
    /\ r.active => r.finishing = {}
    /\ r.finishing \subseteq {r.number}
    /\ Producing(r) =>
         /\ r.session # 0 /\ r.number = recorders /\ recorders # 0
         /\ \A c \in produced : /\ c.session = r.session <=> c.by = r.number
                                /\ c.session = r.session => c.index < r.index
    /\ r.finishing # {} => mic.stream = 0 \/ ending \in {"stop", "end"}

\* One recorder to a session, one chunk to an id.
Sound(S) == \A c, d \in S : /\ c.session = d.session <=> c.by = d.by
                            /\ c.session = d.session /\ c.index = d.index => c = d

FilesInv == Sound(produced) /\ db \subseteq produced /\ saves \subseteq produced
            /\ taken \subseteq produced

\* Where the flow can be once the server has ended the meeting.
After == {"upload", "failed", "skip", "over"}

\* A chunk that was made is stored or being saved, until the end is over.
StoredInv ==
    /\ ~spoiled /\ ending # "over" => produced \subseteq db \cup saves
    /\ ending \in After => meeting # "recording"

\* A recorder whose onstop waits was the last one, and it waits for every save.
ChainInv(r) ==
    ~spoiled => \A o \in r.onstops : saves \subseteq o.waits /\ ~r.active /\ r.finishing = {}

\* A recording is the business of a page in batch mode that knows of it.
ClickInv(r) ==
    /\ r.active => pageMode = "BATCH" /\ r.knows
    /\ r.state # "idle" => pageMode = "BATCH" /\ r.knows
    /\ click.recorder # "idle" => click.mode = "BATCH" /\ r.knows

\* What is collected is all there is, unless the end was confirmed while idle.
CollectedInv(r) ==
    ~spoiled /\ click.recorder # "idle" /\ ending \in {"end"} \cup (After \ {"over"}) =>
      ~r.active /\ r.finishing = {} /\ saves = {} /\ taken = db

RecorderInv == /\ TypeInv /\ OneMicrophone /\ ProducerInv(rec) /\ FilesInv /\ StoredInv
        /\ ChainInv(rec) /\ ClickInv(rec) /\ CollectedInv(rec)

Server == [mode : Modes, open : BOOLEAN]
Live == [up : BOOLEAN, streaming : BOOLEAN, fed : 0..MaxRequests, fallenBack : BOOLEAN,
         patching : BOOLEAN]
Permissions == {"prompt", "granted", "denied"}
Microphone == [permission : Permissions, stream : 0..MaxRequests, asked : BOOLEAN,
               requests : SUBSET (1..MaxRequests), gen : Nat, recovered : BOOLEAN,
               changing : BOOLEAN]
MeetingStates == {"none", "recording", "ended"}
Endings == {"no", "note", "stop", "end", "upload", "failed", "skip", "over"}
Click == [recorder : RecorderStates, mode : Modes]

LEMMA Types ==
    RecorderInv => /\ server \in Server /\ pageMode \in Modes /\ meeting \in MeetingStates
            /\ live \in Live /\ mic \in Microphone /\ rec \in Recorder /\ click \in Click
            /\ saves \in Waits /\ db \in Waits /\ taken \in Waits
            /\ produced \in Waits /\ uploaded \in Waits
            /\ ending \in Endings /\ recorders \in 0..MaxSessions /\ reloads \in Nat
            /\ spoiled \in BOOLEAN
BY DEF RecorderInv, TypeInv, RecorderTypeOK, Server, Live, Microphone, Permissions, MeetingStates,
   Click, Waits, Endings

LEMMA TypesNext ==
    ASSUME server' \in Server, pageMode' \in Modes, meeting' \in MeetingStates,
           live' \in Live, mic' \in Microphone, rec' \in Recorder, click' \in Click,
           saves' \in Waits, db' \in Waits, taken' \in Waits,
           produced' \in Waits, uploaded' \in Waits,
           ending' \in Endings, recorders' \in 0..MaxSessions, reloads' \in Nat,
           spoiled' \in BOOLEAN
    PROVE  TypeInv'
<1>1. /\ rec'.state \in {"idle", "recording", "stopping"} /\ rec'.session \in 0..MaxSessions
      /\ rec'.finishing \subseteq 1..MaxSessions
  BY DEF Recorder, RecorderStates, Numbers
<1>2. QED
  BY <1>1 DEF TypeInv, RecorderTypeOK, Server, Live, Microphone, Permissions, MeetingStates,
     Click, Waits, Endings

LEMMA AskingTypes ==
    ASSUME NEW m \in Microphone, m.gen < MaxRequests
    PROVE  /\ Asking(m) \in Microphone /\ Asking(m).stream = 0
           /\ [Asking(m) EXCEPT !.asked = TRUE] \in Microphone
           /\ [Asking(m) EXCEPT !.asked = TRUE].stream = 0
           /\ [Asking(m) EXCEPT !.recovered = TRUE] \in Microphone
           /\ [Asking(m) EXCEPT !.recovered = TRUE].stream = 0
           /\ [Asking(m) EXCEPT !.changing = FALSE] \in Microphone
           /\ [Asking(m) EXCEPT !.changing = FALSE].stream = 0
<1>1. /\ m.gen + 1 \in Nat /\ 0 \in 0..MaxRequests
      /\ m.requests \cup {m.gen + 1} \in SUBSET (1..MaxRequests)
  BY RecorderAssumption DEF Microphone
<1>2. QED
  BY <1>1 DEF Asking, Microphone

LEMMA EndedTypes ==
    ASSUME NEW r \in Recorder, r.active => r.number # 0
    PROVE  /\ TracksEnded(r) \in Recorder /\ ~TracksEnded(r).active
           /\ TracksEnded(r).session = r.session /\ TracksEnded(r).number = r.number
           /\ TracksEnded(r).index = r.index /\ TracksEnded(r).knows = r.knows
           /\ TracksEnded(r).state = r.state /\ TracksEnded(r).onstops = r.onstops
           /\ TracksEnded(r).finishing = IF r.active THEN r.finishing \cup {r.number} ELSE r.finishing
<1>1. r.active => r.number \in 1..MaxSessions
  BY RecorderAssumption DEF Recorder
<1>2. (IF r.active THEN r.finishing \cup {r.number} ELSE r.finishing) \in Numbers
  BY <1>1 DEF Recorder, Numbers
<1>3. QED
  BY <1>2 DEF TracksEnded, Recorder

\* The recorder goes on, or it is stopped: its data stays the data of the last
\* one.
Follows(r, q) ==
    /\ q.session = r.session /\ q.number = r.number /\ q.index = r.index
    /\ q.knows = r.knows /\ q.onstops = r.onstops
    /\ \/ q.active = r.active /\ q.finishing = r.finishing
       \/ /\ ~q.active
          /\ q.finishing = IF r.active THEN r.finishing \cup {r.number} ELSE r.finishing

LEMMA FollowsKeeps ==
    ASSUME RecorderInv, UNCHANGED <<saves, produced, recorders, spoiled>>, Follows(rec, rec'),
           rec'.finishing # {} => mic'.stream = 0 \/ ending' \in {"stop", "end"}
    PROVE  ProducerInv(rec)' /\ ChainInv(rec)'
<1>1. ProducerInv(rec)'
  BY DEF RecorderInv, ProducerInv, Producing, Follows
<1>2. ChainInv(rec)'
  BY DEF RecorderInv, ProducerInv, ChainInv, Follows
<1>3. QED
  BY <1>1, <1>2

LEMMA EndedFollows ==
    ASSUME RecorderInv
    PROVE  /\ Follows(rec, TracksEnded(rec)) /\ TracksEnded(rec) \in Recorder
           /\ TracksEnded(rec).state = rec.state
<1>1. rec \in Recorder /\ (rec.active => rec.number # 0)
  BY Types DEF RecorderInv, ProducerInv, Producing
<1>2. QED
  BY <1>1, EndedTypes DEF Follows

\* Steps of the microphone, the socket and the server.
LEMMA OutsideKeeps ==
    ASSUME RecorderInv, UNCHANGED <<meeting, pageMode, rec, saves, db, flow, auxiliary>>,
           server' \in Server, live' \in Live, mic' \in Microphone, OneMicrophone',
           rec.finishing = {} \/ mic'.stream \in {0, mic.stream}
    PROVE  RecorderInv'
<1>1. UNCHANGED <<ending, click, taken, produced, recorders, spoiled, uploaded, reloads>>
  BY DEF flow, auxiliary
<1>2. TypeInv'
  BY <1>1, Types, TypesNext
<1>3. Follows(rec, rec') /\ (rec.finishing # {} => mic'.stream = 0 \/ ending \in {"stop", "end"})
  BY DEF Follows, RecorderInv, ProducerInv
<1>4. ProducerInv(rec)' /\ ChainInv(rec)'
  BY <1>1, <1>3, FollowsKeeps
<1>5. FilesInv' /\ StoredInv' /\ ClickInv(rec)' /\ CollectedInv(rec)'
  BY <1>1 DEF RecorderInv, FilesInv, StoredInv, ClickInv, CollectedInv
<1>6. QED
  BY <1>2, <1>4, <1>5 DEF RecorderInv

LEMMA RequestMicrophoneKeeps ==
    ASSUME RecorderInv, RequestMicrophone
    PROVE  RecorderInv'
<1>1. /\ mic' \in Microphone /\ mic'.stream = 0
  BY Types, AskingTypes DEF RequestMicrophone, MayAsk
<1>2. OneMicrophone'
  BY <1>1 DEF OneMicrophone
<1>3. QED
  BY <1>1, <1>2, Types, OutsideKeeps DEF RequestMicrophone

LEMMA MicrophoneAnswersKeeps ==
    ASSUME RecorderInv, NEW g \in mic.requests, MicrophoneAnswers(g)
    PROVE  RecorderInv'
<1> DEFINE rest == [mic EXCEPT !.requests = @ \ {g}]
<1>1. rest \in Microphone /\ g \in 0..MaxRequests /\ rest.stream = mic.stream /\ rest.gen = mic.gen
  BY Types DEF Microphone
<1>2. /\ [rest EXCEPT !.permission = "granted", !.stream = g, !.recovered = FALSE] \in Microphone
      /\ [rest EXCEPT !.permission = "granted", !.stream = g, !.recovered = FALSE].stream = g
      /\ [rest EXCEPT !.permission = "granted", !.stream = g, !.recovered = FALSE].gen = mic.gen
  BY <1>1 DEF Microphone, Permissions
<1>3. ASSUME NEW p \in Permissions
      PROVE  /\ [rest EXCEPT !.permission = p] \in Microphone
             /\ [rest EXCEPT !.permission = p].stream = mic.stream
             /\ [rest EXCEPT !.permission = p].gen = mic.gen
  BY <1>1 DEF Microphone
<1>4. "denied" \in Permissions /\ "prompt" \in Permissions
  BY DEF Permissions
<1>5. mic' \in IF Overtaken(g) THEN {rest}
               ELSE {[rest EXCEPT !.permission = "granted", !.stream = g, !.recovered = FALSE],
                     [rest EXCEPT !.permission = "denied"],
                     [rest EXCEPT !.permission = "prompt"]}
  BY DEF MicrophoneAnswers
<1> HIDE DEF rest
<1>6. mic' \in Microphone /\ mic'.gen = mic.gen /\ (mic'.stream = mic.stream \/ mic'.stream = mic.gen)
  BY <1>1, <1>2, <1>3, <1>4, <1>5 DEF Overtaken
<1>7. OneMicrophone'
  BY <1>6 DEF OneMicrophone, RecorderInv
<1>8. QED
  BY <1>6, <1>7, Types, OutsideKeeps DEF MicrophoneAnswers

LEMMA AskForDeviceKeeps ==
    ASSUME RecorderInv, AskForDevice
    PROVE  RecorderInv'
<1>1. mic' \in Microphone /\ mic'.stream = 0
  BY Types, AskingTypes DEF AskForDevice, MayAsk
<1>2. OneMicrophone'
  BY <1>1 DEF OneMicrophone
<1>3. QED
  BY <1>1, <1>2, Types, OutsideKeeps DEF AskForDevice

LEMMA LiveKeeps ==
    ASSUME RecorderInv, SocketChanges \/ StreamChanges \/ ModePatched
    PROVE  RecorderInv'
<1>1. live' \in Live
  <2>1. live \in Live /\ mic.stream \in 0..MaxRequests /\ 0 \in 0..MaxRequests
    BY Types, RecorderAssumption DEF Microphone
  <2>2. ASSUME SocketChanges PROVE live' \in Live
    BY <2>1, <2>2 DEF SocketChanges, Live
  <2>3. ASSUME StreamChanges PROVE live' \in Live
    BY <2>1, <2>3 DEF StreamChanges, Live
  <2>4. ASSUME ModePatched PROVE live' \in Live
    BY <2>1, <2>4 DEF ModePatched, Live
  <2>5. QED
    BY <2>2, <2>3, <2>4
<1>2. server' \in Server
  BY Types DEF SocketChanges, StreamChanges, ModePatched, Server, Modes
<1>3. UNCHANGED <<meeting, pageMode, rec, saves, db, flow, auxiliary, mic>>
  BY DEF SocketChanges, StreamChanges, ModePatched
<1>4. OneMicrophone'
  BY <1>3 DEF OneMicrophone, RecorderInv
<1>5. QED
  BY <1>1, <1>2, <1>3, <1>4, Types, OutsideKeeps

\* Steps that stop the recorder and close the stream.
LEMMA StreamEndsKeeps ==
    ASSUME RecorderInv, UNCHANGED <<server, meeting, pageMode, saves, db, flow, auxiliary>>,
           live' \in Live, mic' \in Microphone, mic'.stream = 0, rec' \in Recorder,
           Follows(rec, rec'),
           rec'.state # "idle" => rec.state # "idle" \/ (pageMode = "BATCH" /\ rec.knows)
    PROVE  RecorderInv'
<1>1. UNCHANGED <<ending, click, taken, produced, recorders, spoiled, uploaded, reloads>>
  BY DEF flow, auxiliary
<1>2. TypeInv'
  BY <1>1, Types, TypesNext
<1>3. ProducerInv(rec)' /\ ChainInv(rec)'
  BY <1>1, FollowsKeeps
<1>4. OneMicrophone' /\ FilesInv' /\ StoredInv'
  BY <1>1 DEF RecorderInv, FilesInv, StoredInv, OneMicrophone
<1>5. ClickInv(rec)'
  BY <1>1 DEF RecorderInv, ClickInv, Follows
<1>6. CollectedInv(rec)'
  BY <1>1 DEF RecorderInv, CollectedInv, Follows
<1>7. QED
  BY <1>2, <1>3, <1>4, <1>5, <1>6 DEF RecorderInv

LEMMA DeviceLostKeeps ==
    ASSUME RecorderInv, DeviceLost
    PROVE  RecorderInv'
<1>1. mic' \in Microphone /\ mic'.stream = 0
  <2>1. [mic EXCEPT !.stream = 0] \in Microphone /\ [mic EXCEPT !.stream = 0].stream = 0
    BY Types, RecorderAssumption DEF Microphone
  <2>2. QED
    BY <2>1, Types, AskingTypes DEF DeviceLost, MayAsk
<1>2. QED
  BY <1>1, Types, EndedFollows, StreamEndsKeeps DEF DeviceLost

LEMMA ChangeDeviceKeeps ==
    ASSUME RecorderInv, ChangeDevice
    PROVE  RecorderInv'
<1>1. mic' \in Microphone /\ mic'.stream = 0
  <2>1. mic \in Microphone /\ mic.gen + 1 \in Nat /\ 0 \in 0..MaxRequests
    BY Types, RecorderAssumption DEF Microphone
  <2>2. mic' = [mic EXCEPT !.stream = 0, !.gen = @ + 1, !.changing = TRUE]
    BY DEF ChangeDevice
  <2>3. QED
    BY <2>1, <2>2 DEF Microphone
<1>2. live' \in Live
  BY Types DEF ChangeDevice, Live
<1>3. rec' \in Recorder /\ Follows(rec, rec')
      /\ (rec'.state # "idle" => rec.state # "idle" \/ (pageMode = "BATCH" /\ rec.knows))
  <2> DEFINE q == TracksEnded(rec)
  <2>1. q \in Recorder /\ Follows(rec, q) /\ q.state = rec.state
    BY EndedFollows
  <2>2. CASE rec' = q
    BY <2>1, <2>2
  <2>3. CASE rec' = [q EXCEPT !.state = "idle"]
    BY <2>1, <2>3 DEF Recorder, RecorderStates, Follows
  <2>4. CASE pageMode = "BATCH" /\ rec.active
             /\ rec' = [q EXCEPT !.state = "stopping", !.resolve = TRUE]
    BY <2>1, <2>4 DEF Recorder, RecorderStates, Follows, RecorderInv, ClickInv
  <2>5. QED
    BY <2>2, <2>3, <2>4, Zenon DEF ChangeDevice
<1>4. QED
  BY <1>1, <1>2, <1>3, StreamEndsKeeps DEF ChangeDevice

\* A non-empty set of numbers below a bound has a greatest element.
LEMMA GreatestNumber ==
    ASSUME NEW k \in Nat, NEW S \in SUBSET (0..k), S # {}
    PROVE  \E n \in S : \A o \in S : o <= n
<1> DEFINE T == {k - n : n \in S}
<1>1. T \in SUBSET Nat /\ T # {}
  <2>1. \A n \in S : k - n \in Nat
    OBVIOUS
  <2>2. QED
    BY <2>1
<1> HIDE DEF T
<1>2. PICK x \in T : \A y \in T : <<y, x>> \notin OpToRel(<, Nat)
  BY <1>1, WFMin, NatLessThanWellFounded
<1>3. ASSUME NEW y \in T PROVE x <= y
  <2>1. x \in Nat /\ y \in Nat
    BY <1>1
  <2>2. <<y, x>> \in Nat \X Nat /\ <<y, x>>[1] = y /\ <<y, x>>[2] = x
    BY <2>1
  <2>3. y < x => <<y, x>> \in OpToRel(<, Nat)
    BY <2>2, Zenon DEF OpToRel
  <2>4. ~(y < x)
    BY <1>2, <2>3
  <2>5. QED
    BY <2>1, <2>4
<1>4. PICK n \in S : x = k - n
  BY DEF T
<1>5. ASSUME NEW o \in S PROVE o <= n
  <2>1. k - o \in T
    BY DEF T
  <2>2. k - n <= k - o
    BY <1>3, <1>4, <2>1
  <2>3. QED
    BY <2>2
<1>6. QED
  BY <1>5

\* A recording gets a session that no chunk has and no recorder had.
LEMMA SessionIsNew ==
    ASSUME RecorderInv
    PROVE  /\ NewSession \in 1..(recorders + 1)
           /\ \A c \in produced : c.session # NewSession
<1>1. recorders \in Nat /\ rec.session \in 0..recorders
  BY Types, RecorderAssumption DEF RecorderInv, ProducerInv
<1>2. \A c \in produced : c.session \in 1..recorders
  BY DEF RecorderInv, ProducerInv
<1>3. Used \in SUBSET (0..recorders) /\ Used # {} /\ \A c \in produced : c.session \in Used
  BY <1>1, <1>2 DEF Used
<1>4. \E n \in Used : \A o \in Used : o <= n
  BY <1>1, <1>3, GreatestNumber
<1> DEFINE g == CHOOSE n \in Used : \A o \in Used : o <= n
<1>5. g \in Used /\ \A o \in Used : o <= g
  BY <1>4
<1>6. NewSession = 1 + g
  BY DEF NewSession
<1> HIDE DEF g
<1>7. QED
  BY <1>1, <1>3, <1>5, <1>6

LEMMA StartRecordingKeeps ==
    ASSUME RecorderInv, StartRecording
    PROVE  RecorderInv'
<1>1. UNCHANGED <<server, meeting, pageMode, mic, saves, db, ending, click, taken, produced,
                  uploaded, reloads>>
  BY DEF StartRecording, flow
<1>2. /\ recorders \in Nat /\ recorders + 1 \in 1..MaxSessions /\ recorders' = recorders + 1
      /\ MaxSessions \in Nat /\ 0 \in 0..MaxChunks /\ 0 \in 0..MaxRequests
  BY Types, RecorderAssumption DEF StartRecording
<1>3. NewSession \in 1..(recorders + 1) /\ NewSession \in 0..MaxSessions
      /\ \A c \in produced : c.session # NewSession
  BY <1>2, SessionIsNew
<1>4. rec.finishing = {}
  BY DEF RecorderInv, ProducerInv, StartRecording, isEnding
<1>5. /\ rec' \in Recorder /\ rec'.session = NewSession /\ rec'.number = recorders + 1
      /\ rec'.index = 0 /\ rec'.knows /\ rec'.active /\ rec'.finishing = {}
      /\ rec'.state = "recording" /\ rec'.onstops = rec.onstops
  <2>1. rec \in Recorder /\ recorders + 1 \in 0..MaxSessions /\ "recording" \in RecorderStates
    BY <1>2, Types DEF RecorderStates
  <2>2. rec' = [rec EXCEPT !.session = NewSession, !.number = recorders + 1, !.index = 0,
                           !.knows = TRUE, !.active = TRUE, !.state = "recording"]
    BY DEF StartRecording
  <2>3. QED
    BY <1>2, <1>3, <1>4, <2>1, <2>2 DEF Recorder
<1>6. live' \in Live
  BY <1>2, Types DEF StartRecording, Live
<1>7. spoiled' \in BOOLEAN /\ (~spoiled' => ~spoiled /\ rec.onstops = {})
  BY Types, Zenon DEF StartRecording
<1>8. TypeInv'
  BY <1>1, <1>2, <1>5, <1>6, <1>7, Types, TypesNext
<1>9. OneMicrophone' /\ FilesInv' /\ StoredInv'
  BY <1>1, <1>7 DEF RecorderInv, OneMicrophone, FilesInv, StoredInv
<1>10. ProducerInv(rec)'
  <2>1. \A c \in produced : c.session \in 1..recorders /\ c.by \in 1..recorders
    BY DEF RecorderInv, ProducerInv
  <2>2. QED
    BY <1>1, <1>2, <1>3, <1>5, <2>1 DEF ProducerInv
<1>11. ChainInv(rec)'
  BY <1>5, <1>7 DEF ChainInv
<1>12. ClickInv(rec)'
  BY <1>1, <1>5 DEF ClickInv, RecorderInv, StartRecording
<1>13. CollectedInv(rec)'
  BY <1>1 DEF CollectedInv, RecorderInv, StoredInv, StartRecording, isEnding, After
<1>14. QED
  BY <1>8, <1>9, <1>10, <1>11, <1>12, <1>13 DEF RecorderInv

\* The data a recorder delivers is a chunk of its own.
LEMMA NewChunk ==
    ASSUME RecorderInv, Producing(rec), rec.index < MaxChunks,
           NEW c, c = [session |-> rec.session, index |-> rec.index, by |-> rec.number]
    PROVE  /\ c \in RecordedChunk /\ rec.index + 1 \in 0..MaxChunks
           /\ Sound(produced \cup {c})
           /\ \A d \in produced \cup {c} :
                /\ d.session \in 1..recorders /\ d.by \in 1..recorders
                /\ d.session = rec.session <=> d.by = rec.number
                /\ d.session = rec.session => d.index < rec.index + 1
<1>1. /\ rec.session \in 1..recorders /\ rec.number = recorders /\ recorders \in 1..MaxSessions
      /\ rec.index \in 0..MaxChunks /\ MaxChunks \in Nat /\ MaxSessions \in Nat
  BY Types, RecorderAssumption DEF RecorderInv, ProducerInv, Recorder
<1>2. c.session = rec.session /\ c.index = rec.index /\ c.by = rec.number
  OBVIOUS
<1>3. c \in RecordedChunk
  BY <1>1 DEF RecordedChunk
<1>4. ASSUME NEW d \in produced
      PROVE  /\ d.session \in 1..recorders /\ d.by \in 1..recorders /\ d.index \in Nat
             /\ d.session = rec.session <=> d.by = rec.number
             /\ d.session = rec.session => d.index < rec.index
  BY Types DEF RecorderInv, ProducerInv, Waits, RecordedChunk
<1>5. Sound(produced)
  BY DEF RecorderInv, FilesInv
<1>6. Sound(produced \cup {c})
  BY <1>1, <1>2, <1>4, <1>5 DEF Sound
<1>7. QED
  BY <1>1, <1>2, <1>3, <1>4, <1>6

LEMMA TimesliceKeeps ==
    ASSUME RecorderInv, Timeslice
    PROVE  RecorderInv'
<1> DEFINE c == [session |-> rec.session, index |-> rec.index, by |-> rec.number]
<1>1. UNCHANGED <<server, meeting, pageMode, live, mic, db, ending, click, taken, spoiled,
                  uploaded, reloads, recorders>>
  BY DEF Timeslice, flow
<1>2. produced' = produced \cup {c} /\ saves' = saves \cup {c}
  BY DEF Timeslice, Produce
<1>3. rec.active /\ rec.finishing = {} /\ Producing(rec)
  BY DEF Timeslice, RecorderInv, ProducerInv, Producing
<1>4. /\ c \in RecordedChunk /\ rec.index + 1 \in 0..MaxChunks
      /\ Sound(produced \cup {c})
      /\ \A d \in produced \cup {c} :
                /\ d.session \in 1..recorders /\ d.by \in 1..recorders
                /\ d.session = rec.session <=> d.by = rec.number
                /\ d.session = rec.session => d.index < rec.index + 1
  BY <1>3, NewChunk DEF Timeslice
<1> HIDE DEF c
<1>5. /\ rec' \in Recorder /\ rec'.index = rec.index + 1 /\ rec'.session = rec.session
      /\ rec'.number = rec.number /\ rec'.active = rec.active /\ rec'.finishing = rec.finishing
      /\ rec'.knows = rec.knows /\ rec'.state = rec.state /\ rec'.onstops = rec.onstops
  BY <1>4, Types DEF Timeslice, Recorder
<1>6. TypeInv'
  <2>1. produced' \in Waits /\ saves' \in Waits
    BY <1>2, <1>4, Types DEF Waits
  <2>2. QED
    BY <1>1, <1>5, <2>1, Types, TypesNext
<1>7. OneMicrophone' /\ FilesInv' /\ StoredInv'
  BY <1>1, <1>2, <1>4 DEF RecorderInv, OneMicrophone, FilesInv, StoredInv
<1>8. ProducerInv(rec)'
  BY <1>1, <1>2, <1>3, <1>4, <1>5 DEF RecorderInv, ProducerInv, Producing
<1>9. ChainInv(rec)' /\ ClickInv(rec)' /\ CollectedInv(rec)'
  BY <1>1, <1>3, <1>5 DEF RecorderInv, ChainInv, ClickInv, CollectedInv
<1>10. QED
  BY <1>6, <1>7, <1>8, <1>9 DEF RecorderInv

\* The last data of a recorder and its onstop.
LEMMA LastEventsKeep ==
    ASSUME RecorderInv, Producing(rec), NEW r \in Recorder, LastEvents(rec.number, r),
           ~r.active, r.finishing = {}, r.session = rec.session, r.number = rec.number,
           r.index = rec.index, r.knows = rec.knows, r.onstops = rec.onstops,
           r.state = rec.state \/ r.state = "idle",
           UNCHANGED <<server, meeting, pageMode, live, mic, db, flow, uploaded, reloads, recorders>>,
           spoiled' \in BOOLEAN, spoiled => spoiled'
    PROVE  RecorderInv'
<1> DEFINE c == [session |-> rec.session, index |-> rec.index, by |-> rec.number]
<1>1. UNCHANGED <<server, meeting, pageMode, live, mic, db, ending, click, taken,
                  uploaded, reloads, recorders>>
  BY DEF flow
<1>2. rec.number \in 1..MaxSessions
  BY Types, RecorderAssumption DEF RecorderInv, ProducerInv
<1>3. /\ saves \subseteq saves' /\ saves' \in Waits /\ produced' \in Waits
      /\ saves' \subseteq produced' /\ produced \subseteq produced' /\ Sound(produced')
      /\ produced' \subseteq produced \cup saves'
      /\ \A d \in produced' : d.session \in 1..recorders /\ d.by \in 1..recorders
  <2>1. CASE UNCHANGED <<produced, saves>>
    BY <2>1, Types DEF RecorderInv, FilesInv, ProducerInv
  <2>2. CASE rec.index < MaxChunks /\ Produce(rec.number)
    BY <2>2, NewChunk, Types DEF RecorderInv, FilesInv, Produce, Waits
  <2>3. QED
    BY <2>1, <2>2, Zenon DEF LastEvents
<1>4. /\ rec' \in Recorder /\ rec'.session = rec.session /\ ~rec'.active /\ rec'.finishing = {}
      /\ rec'.knows = rec.knows /\ (rec'.state = rec.state \/ rec'.state = "idle")
      /\ rec'.onstops = rec.onstops \cup {[number |-> rec.number, waits |-> saves']}
  <2> DEFINE onstops == r.onstops \cup {[number |-> rec.number, waits |-> saves']}
  <2>1. onstops \in Onstops
    BY <1>2, <1>3, Types DEF Recorder, Onstops, Onstop
  <2>2. CASE /\ rec.index < MaxChunks
             /\ rec' = [r EXCEPT !.index = r.index + 1, !.onstops = onstops]
    <3>1. r.index + 1 \in 0..MaxChunks
      BY <2>2, Types, RecorderAssumption DEF Recorder
    <3> HIDE DEF onstops
    <3>2. /\ rec' \in Recorder /\ rec'.session = r.session /\ rec'.active = r.active
          /\ rec'.finishing = r.finishing /\ rec'.knows = r.knows /\ rec'.state = r.state
          /\ rec'.onstops = onstops
      BY <2>1, <2>2, <3>1 DEF Recorder
    <3>3. QED
      BY <3>2 DEF onstops
  <2>3. CASE rec' = [r EXCEPT !.onstops = onstops]
    <3> HIDE DEF onstops
    <3>2. /\ rec' \in Recorder /\ rec'.session = r.session /\ rec'.active = r.active
          /\ rec'.finishing = r.finishing /\ rec'.knows = r.knows /\ rec'.state = r.state
          /\ rec'.onstops = onstops
      BY <2>1, <2>3 DEF Recorder
    <3>3. QED
      BY <3>2 DEF onstops
  <2>4. QED
    BY <2>2, <2>3 DEF LastEvents
<1>5. TypeInv'
  BY <1>1, <1>3, <1>4, Types, TypesNext
<1>6. OneMicrophone' /\ FilesInv'
  BY <1>1, <1>3 DEF RecorderInv, OneMicrophone, FilesInv
<1>7. StoredInv'
  BY <1>1, <1>3 DEF RecorderInv, StoredInv
<1>8. ProducerInv(rec)'
  BY <1>1, <1>3, <1>4 DEF RecorderInv, ProducerInv, Producing
<1>9. ChainInv(rec)'
  <2>1. ~spoiled => rec.onstops = {}
    BY DEF RecorderInv, ChainInv, Producing
  <2>2. [number |-> rec.number, waits |-> saves'].waits = saves'
    OBVIOUS
  <2>3. QED
    BY <1>4, <2>1, <2>2 DEF ChainInv
<1>10. ClickInv(rec)' /\ CollectedInv(rec)'
  BY <1>1, <1>4 DEF RecorderInv, ClickInv, CollectedInv, Producing
<1>11. QED
  BY <1>5, <1>6, <1>7, <1>8, <1>9, <1>10 DEF RecorderInv

LEMMA LastDataKeeps ==
    ASSUME RecorderInv, NEW s \in rec.finishing, LastData(s)
    PROVE  RecorderInv'
<1> DEFINE r == [rec EXCEPT !.finishing = @ \ {s}]
<1>1. s = rec.number /\ rec.finishing = {s} /\ ~rec.active /\ Producing(rec)
  BY DEF RecorderInv, ProducerInv, Producing
<1>2. /\ r \in Recorder /\ r.finishing = {} /\ r.active = rec.active /\ r.session = rec.session
      /\ r.number = rec.number /\ r.index = rec.index /\ r.knows = rec.knows
      /\ r.onstops = rec.onstops /\ r.state = rec.state
  BY <1>1, Types DEF Recorder, Numbers
<1>3. LastEvents(rec.number, r)
  BY <1>1 DEF LastData
<1> HIDE DEF r
<1>4. QED
  BY <1>1, <1>2, <1>3, Types, LastEventsKeep DEF LastData

LEMMA RecorderFailsKeeps ==
    ASSUME RecorderInv, RecorderFails
    PROVE  RecorderInv'
<1> DEFINE r == [rec EXCEPT !.active = FALSE, !.state = "idle"]
<1>1. rec.finishing = {} /\ rec.active /\ Producing(rec)
  BY DEF RecorderInv, ProducerInv, Producing, RecorderFails
<1>2. /\ r \in Recorder /\ r.finishing = {} /\ ~r.active /\ r.session = rec.session
      /\ r.number = rec.number /\ r.index = rec.index /\ r.knows = rec.knows
      /\ r.onstops = rec.onstops /\ r.state = "idle"
  BY <1>1, Types DEF Recorder, RecorderStates
<1>3. LastEvents(rec.number, r)
  BY DEF RecorderFails
<1> HIDE DEF r
<1>4. QED
  BY <1>1, <1>2, <1>3, LastEventsKeep DEF RecorderFails

LEMMA SpoiledNext ==
    ASSUME RecorderInv, spoiled' = spoiled \/ spoiled' = TRUE
    PROVE  spoiled' \in BOOLEAN /\ (~spoiled' => ~spoiled)
<1>1. spoiled \in BOOLEAN
  BY Types
<1>2. CASE spoiled' = spoiled
  BY <1>1, <1>2, Zenon
<1>3. CASE spoiled' = TRUE
  BY <1>3, Zenon
<1>4. QED
  BY <1>2, <1>3

\* No chunk is stored over another.
LEMMA PutAdds ==
    ASSUME RecorderInv, NEW S \in SUBSET saves
    PROVE  Put(S) = db \cup S
<1>1. S \subseteq produced /\ db \subseteq produced /\ Sound(produced)
  BY DEF RecorderInv, FilesInv
<1>2. \A d \in db, c \in S : d.session # c.session \/ d.index # c.index \/ d = c
  BY <1>1 DEF Sound
<1>3. QED
  BY <1>2 DEF Put

LEMMA SaveSettlesKeeps ==
    ASSUME RecorderInv, NEW c \in saves, SaveSettles(c)
    PROVE  RecorderInv'
<1>1. UNCHANGED <<server, meeting, pageMode, live, mic, rec, ending, click, taken, produced,
                  uploaded, reloads, recorders>>
  BY DEF SaveSettles, flow
<1>2. /\ saves' = saves \ {c} /\ saves' \in Waits /\ saves' \subseteq saves
      /\ db' \in Waits /\ db' \subseteq db \cup saves /\ db \subseteq db'
      /\ spoiled' \in BOOLEAN /\ (~spoiled' => ~spoiled /\ db' = db \cup {c})
  <2>1. /\ saves' = saves \ {c}
        /\ \/ db' = Put({c}) /\ spoiled' = spoiled
           \/ spoiled' = TRUE /\ db' = db
    <3>1. saves' = saves \ {c}
      BY DEF SaveSettles
    <3>2. \/ db' = Put({c}) /\ UNCHANGED spoiled
          \/ spoiled' = TRUE /\ UNCHANGED db
      BY Zenon DEF SaveSettles
    <3>3. QED
      BY <3>1, <3>2, Zenon
  <2>2. Put({c}) = db \cup {c}
    BY PutAdds
  <2>3. spoiled' \in BOOLEAN /\ (~spoiled' => ~spoiled)
    BY <2>1, SpoiledNext
  <2>4. ~spoiled' => db' = db \cup {c}
    BY <2>1, <2>2, Zenon
  <2>5. /\ saves' = saves \ {c} /\ saves' \in Waits /\ saves' \subseteq saves
        /\ db' \in Waits /\ db' \subseteq db \cup saves /\ db \subseteq db'
    BY <2>1, <2>2, Types DEF Waits
  <2>6. QED
    BY <2>3, <2>4, <2>5
<1>3. TypeInv'
  BY <1>1, <1>2, Types, TypesNext
<1>4. OneMicrophone' /\ ProducerInv(rec)' /\ ClickInv(rec)'
  BY <1>1 DEF RecorderInv, OneMicrophone, ProducerInv, Producing, ClickInv
<1>5. FilesInv' /\ StoredInv'
  BY <1>1, <1>2 DEF RecorderInv, FilesInv, StoredInv
<1>6. ChainInv(rec)' /\ CollectedInv(rec)'
  BY <1>1, <1>2 DEF RecorderInv, ChainInv, CollectedInv
<1>7. QED
  BY <1>3, <1>4, <1>5, <1>6 DEF RecorderInv

LEMMA RecorderStoppedKeeps ==
    ASSUME RecorderInv, NEW o \in rec.onstops, RecorderStopped(o)
    PROVE  RecorderInv'
<1>1. /\ UNCHANGED <<server, meeting, pageMode, live, mic, saves, db, click, produced,
                     uploaded, reloads, recorders>>
      /\ o.waits \cap saves = {}
  BY DEF RecorderStopped
<1>2. /\ rec' \in Recorder /\ rec'.session = rec.session /\ rec'.number = rec.number
      /\ rec'.index = rec.index /\ rec'.knows = rec.knows /\ rec'.active = rec.active
      /\ rec'.finishing = rec.finishing /\ rec'.onstops = rec.onstops \ {o}
      /\ rec'.state \in {rec.state, "idle"}
  <2>1. rec.onstops \ {o} \in Onstops
    BY Types DEF Recorder, Onstops
  <2>2. CASE rec' = [rec EXCEPT !.onstops = @ \ {o}, !.state = "idle", !.resolve = FALSE]
    BY <2>1, <2>2, Types DEF Recorder, RecorderStates
  <2>3. CASE rec' = [rec EXCEPT !.onstops = @ \ {o}]
    BY <2>1, <2>3, Types DEF Recorder
  <2>4. QED
    BY <2>2, <2>3, Zenon DEF RecorderStopped
<1>3. spoiled' \in BOOLEAN /\ (~spoiled' => ~spoiled)
  <2>1. spoiled' = spoiled \/ spoiled' = TRUE
    BY Zenon DEF RecorderStopped
  <2>2. QED
    BY <2>1, SpoiledNext
<1>4. \/ ending = "stop" /\ ending' = "end" /\ taken' = db
      \/ UNCHANGED <<ending, taken>>
  BY Zenon DEF RecorderStopped
<1>5. TypeInv'
  <2>1. ending' \in Endings /\ taken' \in Waits
    BY <1>4, Types DEF Endings
  <2>2. QED
    BY <1>1, <1>2, <1>3, <2>1, Types, TypesNext
<1>6. OneMicrophone' /\ FilesInv' /\ StoredInv'
  BY <1>1, <1>3, <1>4 DEF RecorderInv, OneMicrophone, FilesInv, StoredInv, After
<1>7. ProducerInv(rec)'
  BY <1>1, <1>2, <1>4 DEF RecorderInv, ProducerInv, Producing
<1>8. ChainInv(rec)' /\ ClickInv(rec)'
  BY <1>1, <1>2, <1>3 DEF RecorderInv, ChainInv, ClickInv
<1>9. CollectedInv(rec)'
  <2>1. ~spoiled => saves = {} /\ ~rec.active /\ rec.finishing = {}
    BY <1>1 DEF RecorderInv, ChainInv
  <2>2. QED
    BY <1>1, <1>2, <1>3, <1>4, <2>1 DEF RecorderInv, CollectedInv
<1>10. QED
  BY <1>5, <1>6, <1>7, <1>8, <1>9 DEF RecorderInv

\* The recorder, the microphone and the chunks are left alone.
LEMMA FlowKeeps ==
    ASSUME RecorderInv, UNCHANGED <<server, mic, saves, db, produced, recorders, reloads, spoiled>>,
           UNCHANGED rec, meeting' = meeting, pageMode' \in Modes, live' \in Live,
           click' \in Click, ending' \in Endings, taken' \in Waits, uploaded' \in Waits,
           taken' \subseteq produced,
           pageMode' = pageMode \/ pageMode' = "BATCH",
           rec.finishing # {} => mic.stream = 0 \/ ending' \in {"stop", "end"},
           ending' \in After => meeting # "recording",
           ending = "over" => ending' = "over",
           click'.recorder # "idle" => click'.mode = "BATCH" /\ rec.knows,
           CollectedInv(rec)'
    PROVE  RecorderInv'
<1>1. TypeInv'
  BY Types, TypesNext
<1>2. OneMicrophone' /\ FilesInv' /\ StoredInv'
  BY DEF RecorderInv, OneMicrophone, FilesInv, StoredInv
<1>3. ProducerInv(rec)' /\ ChainInv(rec)' /\ ClickInv(rec)'
  BY DEF RecorderInv, ProducerInv, Producing, ChainInv, ClickInv
<1>4. QED
  BY <1>1, <1>2, <1>3 DEF RecorderInv

LEMMA FallBackToBatchKeeps ==
    ASSUME RecorderInv, FallBackToBatch
    PROVE  RecorderInv'
<1>1. UNCHANGED <<server, meeting, mic, rec, saves, db, ending, click, taken, recorders,
                  produced, spoiled, uploaded, reloads>>
      /\ pageMode' = "BATCH"
  BY DEF FallBackToBatch, flow, auxiliary
<1>2. live' \in Live /\ pageMode' \in Modes
  BY <1>1, Types DEF FallBackToBatch, Live, Modes
<1>3. CollectedInv(rec)'
  BY <1>1 DEF RecorderInv, CollectedInv
<1>4. QED
  BY <1>1, <1>2, <1>3, Types, FlowKeeps
     DEF RecorderInv, ProducerInv, ClickInv, StoredInv, FilesInv

LEMMA EndConfirmKeeps ==
    ASSUME RecorderInv, EndConfirm
    PROVE  RecorderInv'
<1>1. /\ UNCHANGED <<server, meeting, pageMode, live, mic, rec, saves, db, taken, recorders,
                     produced, spoiled, uploaded, reloads>>
      /\ ending = "no" /\ ending' = "note" /\ click' = [recorder |-> rec.state, mode |-> pageMode]
  BY DEF EndConfirm, auxiliary
<1>2. click' \in Click /\ ending' \in Endings /\ ending' \notin After
      /\ click'.recorder = rec.state /\ click'.mode = pageMode
  BY <1>1, Types DEF Click, Recorder, Endings, After
<1>3. CollectedInv(rec)'
  BY <1>1, <1>2 DEF CollectedInv
<1>4. QED
  BY <1>1, <1>2, <1>3, Types, FlowKeeps DEF RecorderInv, ProducerInv, ClickInv, FilesInv

LEMMA NoteRefusedKeeps ==
    ASSUME RecorderInv, NoteRefused
    PROVE  RecorderInv'
<1>1. /\ UNCHANGED <<server, meeting, pageMode, live, mic, rec, saves, db, click, taken,
                     recorders, produced, spoiled, uploaded, reloads>>
      /\ ending = "note" /\ ending' = "no"
  BY DEF NoteRefused, auxiliary
<1>2. ending' \in Endings /\ ending' \notin After /\ ending' # "end"
  BY <1>1 DEF Endings, After
<1>3. CollectedInv(rec)'
  BY <1>1, <1>2 DEF CollectedInv
<1>4. QED
  BY <1>1, <1>2, <1>3, Types, FlowKeeps DEF RecorderInv, ProducerInv, ClickInv, FilesInv

LEMMA EndRefusedKeeps ==
    ASSUME RecorderInv, EndRefused
    PROVE  RecorderInv'
<1>1. /\ UNCHANGED <<server, meeting, pageMode, live, mic, rec, saves, db, click, taken,
                     recorders, produced, spoiled, uploaded, reloads>>
      /\ ending = "end" /\ ending' = "no" /\ rec.finishing = {}
  BY DEF EndRefused, auxiliary
<1>2. ending' \in Endings /\ ending' \notin After /\ ending' # "end"
  BY <1>1 DEF Endings, After
<1>3. CollectedInv(rec)'
  BY <1>1, <1>2 DEF CollectedInv
<1>4. QED
  BY <1>1, <1>2, <1>3, Types, FlowKeeps DEF RecorderInv, ProducerInv, ClickInv, FilesInv

LEMMA CollectSessionsKeeps ==
    ASSUME RecorderInv, CollectSessions
    PROVE  RecorderInv'
<1>1. /\ UNCHANGED <<server, meeting, pageMode, mic, saves, db, click, recorders, produced,
                     spoiled, uploaded, reloads>>
      /\ ending = "note"
  BY DEF CollectSessions, auxiliary
<1>2. live' \in Live
  BY Types DEF CollectSessions, Live
<1>3. Assembled \in Waits /\ Assembled \subseteq produced /\ (rec.knows => Assembled = db)
  BY Types DEF Assembled, RecorderInv, FilesInv, Waits
<1>4. CASE /\ click.recorder # "idle" /\ rec.active
           /\ rec' = [TracksEnded(rec) EXCEPT !.state = "stopping", !.resolve = TRUE]
           /\ ending' = "stop" /\ UNCHANGED taken
  <2> DEFINE q == TracksEnded(rec)
  <2>1. Follows(rec, q) /\ q \in Recorder
    BY EndedFollows
  <2> HIDE DEF q
  <2>2. rec' = [q EXCEPT !.state = "stopping", !.resolve = TRUE]
    BY <1>4 DEF q
  <2>3. rec' \in Recorder /\ Follows(rec, rec')
    BY <2>1, <2>2 DEF Recorder, RecorderStates, Follows
  <2>4. TypeInv'
    BY <1>1, <1>2, <1>4, <2>3, Types, TypesNext DEF Endings
  <2>5. ProducerInv(rec)' /\ ChainInv(rec)'
    BY <1>1, <1>4, <2>3, FollowsKeeps
  <2>6. OneMicrophone' /\ FilesInv' /\ StoredInv'
    BY <1>1, <1>4 DEF RecorderInv, OneMicrophone, FilesInv, StoredInv, After
  <2>7. ClickInv(rec)' /\ CollectedInv(rec)'
    BY <1>1, <1>4, <2>3 DEF RecorderInv, ClickInv, CollectedInv, Follows, After
  <2>8. QED
    BY <2>4, <2>5, <2>6, <2>7 DEF RecorderInv
<1>5. CASE /\ rec.finishing = {} /\ Collected(Assembled)
           /\ \/ click.recorder # "idle" /\ ~rec.active /\ saves = {}
                 /\ rec' = [rec EXCEPT !.state = "idle"]
              \/ click.recorder = "idle" /\ UNCHANGED rec
  <2>1. rec' \in Recorder /\ Follows(rec, rec') /\ (rec'.state = rec.state \/ rec'.state = "idle")
        /\ rec'.finishing = {} /\ rec'.active = rec.active
    BY <1>5, Types DEF Recorder, RecorderStates, Follows
  <2>2. ending' = "end" /\ taken' = Assembled
    BY <1>5 DEF Collected
  <2>3. TypeInv'
    BY <1>1, <1>2, <1>3, <2>1, <2>2, Types, TypesNext DEF Endings
  <2>4. ProducerInv(rec)' /\ ChainInv(rec)'
    BY <1>1, <2>1, <2>2, FollowsKeeps
  <2>5. OneMicrophone' /\ FilesInv' /\ StoredInv'
    BY <1>1, <1>3, <2>2 DEF RecorderInv, OneMicrophone, FilesInv, StoredInv, After
  <2>6. ClickInv(rec)'
    BY <1>1, <2>1 DEF RecorderInv, ClickInv, Follows
  <2>7. CollectedInv(rec)'
    BY <1>1, <1>3, <1>5, <2>1, <2>2 DEF RecorderInv, ClickInv, CollectedInv
  <2>8. QED
    BY <2>3, <2>4, <2>5, <2>6, <2>7 DEF RecorderInv
<1>6. QED
  BY <1>4, <1>5, Zenon DEF CollectSessions

LEMMA CollectFailsKeeps ==
    ASSUME RecorderInv, CollectFails
    PROVE  RecorderInv'
<1>1. /\ UNCHANGED <<server, meeting, pageMode, live, mic, rec, saves, db, click, recorders,
                     produced, uploaded, reloads>>
      /\ ending = "note" /\ ending' = "end" /\ taken' = {} /\ spoiled' = TRUE
  BY DEF CollectFails, Collected
<1>2. ending' \in Endings /\ taken' \in Waits /\ spoiled' \in BOOLEAN
  BY <1>1 DEF Endings, Waits
<1>3. TypeInv'
  BY <1>1, <1>2, Types, TypesNext
<1>4. OneMicrophone' /\ FilesInv' /\ StoredInv'
  BY <1>1 DEF RecorderInv, OneMicrophone, FilesInv, StoredInv, After
<1>5. ProducerInv(rec)' /\ ClickInv(rec)'
  BY <1>1 DEF RecorderInv, ProducerInv, Producing, ClickInv
<1>6. ChainInv(rec)' /\ CollectedInv(rec)'
  BY <1>1 DEF ChainInv, CollectedInv
<1>7. QED
  BY <1>3, <1>4, <1>5, <1>6 DEF RecorderInv

\* The end is over: the chunks are gone, or they could not be cleared.
LEMMA OverKeeps ==
    ASSUME RecorderInv, NEW r \in Recorder, Follows(rec, r), r.state = rec.state, CleanupChunks(r),
           UNCHANGED <<pageMode, live, saves, click, taken, produced, spoiled, reloads, recorders>>,
           server' \in Server, meeting' \in MeetingStates \ {"recording"}, mic' \in Microphone,
           OneMicrophone', r.finishing # {} => mic'.stream = 0,
           ending' = "over", uploaded' \in Waits
    PROVE  RecorderInv'
<1>1. /\ rec' \in Recorder /\ Follows(rec, rec') /\ rec'.finishing = r.finishing
      /\ rec'.state = rec.state \/ rec'.state = "idle"
  BY DEF CleanupChunks, Recorder, RecorderStates, Follows
<1>2. db' \in Waits /\ db' \subseteq db
  BY Types DEF CleanupChunks, Waits
<1>3. TypeInv'
  BY <1>1, <1>2, Types, TypesNext DEF Endings
<1>4. ProducerInv(rec)' /\ ChainInv(rec)'
  BY <1>1, FollowsKeeps
<1>5. FilesInv' /\ StoredInv'
  BY <1>2 DEF RecorderInv, FilesInv, StoredInv
<1>6. ClickInv(rec)' /\ CollectedInv(rec)'
  BY <1>1 DEF RecorderInv, ClickInv, CollectedInv, Follows, After
<1>7. QED
  BY <1>3, <1>4, <1>5, <1>6 DEF RecorderInv

LEMMA EndAcceptedKeeps ==
    ASSUME RecorderInv, EndAccepted
    PROVE  RecorderInv'
<1> DEFINE q == TracksEnded(rec)
<1>1. /\ UNCHANGED <<pageMode, live, saves, click, taken, recorders, produced, spoiled,
                     uploaded, reloads>>
      /\ ending = "end" /\ rec.finishing = {}
  BY DEF EndAccepted, auxiliary
<1>2. server' \in Server /\ mic' \in Microphone /\ mic'.stream = 0
  <2>1. mic \in Microphone /\ mic.gen + 1 \in Nat /\ 0 \in 0..MaxRequests /\ server \in Server
    BY Types, RecorderAssumption DEF Microphone
  <2>2. mic' = [mic EXCEPT !.stream = 0, !.gen = @ + 1] /\ server' = [server EXCEPT !.open = FALSE]
    BY DEF EndAccepted
  <2>3. QED
    BY <2>1, <2>2 DEF Microphone, Server
<1>3. OneMicrophone'
  BY <1>2 DEF OneMicrophone
<1>4. Follows(rec, q) /\ q \in Recorder /\ q.state = rec.state
  BY EndedFollows
<1> HIDE DEF q
<1>5. CASE ending' = "upload" /\ meeting' = "ended" /\ rec' = q /\ UNCHANGED db
  <2>1. TypeInv'
    BY <1>1, <1>2, <1>4, <1>5, Types, TypesNext DEF Endings, MeetingStates
  <2>2. ProducerInv(rec)' /\ ChainInv(rec)'
    BY <1>1, <1>2, <1>4, <1>5, FollowsKeeps
  <2>3. FilesInv' /\ StoredInv'
    BY <1>1, <1>5 DEF RecorderInv, FilesInv, StoredInv
  <2>4. ClickInv(rec)'
    BY <1>1, <1>4, <1>5 DEF RecorderInv, ClickInv, Follows
  <2>5. CollectedInv(rec)'
    BY <1>1, <1>4, <1>5 DEF RecorderInv, CollectedInv, Follows
  <2>6. QED
    BY <1>3, <2>1, <2>2, <2>3, <2>4, <2>5 DEF RecorderInv
<1>6. CASE ending' = "over" /\ meeting' = "none" /\ CleanupChunks(q)
  BY <1>1, <1>2, <1>3, <1>4, <1>6, Types, OverKeeps DEF MeetingStates
<1>7. QED
  BY <1>5, <1>6 DEF EndAccepted, q

LEMMA UploadKeeps ==
    ASSUME RecorderInv, Upload
    PROVE  RecorderInv'
<1>1. /\ UNCHANGED <<server, meeting, pageMode, live, mic, saves, click, taken, produced,
                     spoiled, reloads, recorders>>
      /\ ending = "upload"
  BY DEF Upload
<1>2. meeting # "recording" /\ (rec.finishing # {} => mic.stream = 0)
  BY <1>1 DEF RecorderInv, StoredInv, After, ProducerInv
<1>3. CASE UploadDone(TRUE)
  <2>1. ending' = "over" /\ uploaded' = uploaded \cup taken /\ CleanupChunks(rec)
    BY <1>3 DEF UploadDone
  <2>2. OneMicrophone' /\ uploaded' \in Waits /\ Follows(rec, rec)
    BY <1>1, <2>1, Types DEF RecorderInv, OneMicrophone, Waits, Follows
  <2>3. QED
    BY <1>1, <1>2, <2>1, <2>2, Types, OverKeeps
<1>4. CASE UploadDone(FALSE)
  <2>1. ending' = "failed" /\ UNCHANGED <<uploaded, db, rec>>
    BY <1>4 DEF UploadDone
  <2>2. CollectedInv(rec)'
    BY <1>1, <2>1 DEF RecorderInv, CollectedInv, After
  <2>3. QED
    BY <1>1, <1>2, <2>1, <2>2, Types, FlowKeeps DEF Endings, RecorderInv, FilesInv, ClickInv
<1>5. QED
  BY <1>3, <1>4 DEF Upload

LEMMA RetryUploadKeeps ==
    ASSUME RecorderInv, RetryUpload
    PROVE  RecorderInv'
<1>1. /\ UNCHANGED <<server, meeting, pageMode, live, mic, rec, saves, db, click, recorders,
                     produced, spoiled, uploaded, reloads>>
      /\ ending = "failed" /\ ending' \in {"skip", "upload"} /\ taken' = Assembled
  BY DEF RetryUpload, auxiliary
<1>2. Assembled \in Waits /\ Assembled \subseteq produced /\ (rec.knows => Assembled = db)
  BY Types DEF Assembled, RecorderInv, FilesInv, Waits
<1>3. meeting # "recording" /\ (rec.finishing # {} => mic.stream = 0)
  BY <1>1 DEF RecorderInv, StoredInv, After, ProducerInv
<1>4. CollectedInv(rec)'
  BY <1>1, <1>2 DEF RecorderInv, CollectedInv, ClickInv, After
<1>5. QED
  BY <1>1, <1>2, <1>3, <1>4, Types, FlowKeeps DEF Endings, RecorderInv, ClickInv

LEMMA ContinueWithoutAudioKeeps ==
    ASSUME RecorderInv, ContinueWithoutAudio
    PROVE  RecorderInv'
<1>1. /\ UNCHANGED <<server, meeting, pageMode, live, mic, saves, click, taken, produced,
                     spoiled, reloads, recorders>>
      /\ ending \in {"failed", "skip"}
  BY DEF ContinueWithoutAudio
<1>2. meeting # "recording" /\ (rec.finishing # {} => mic.stream = 0)
  BY <1>1 DEF RecorderInv, StoredInv, After, ProducerInv
<1>3. CASE ending' = "over" /\ uploaded' = uploaded \cup db /\ CleanupChunks(rec)
  <2>1. OneMicrophone' /\ uploaded' \in Waits /\ Follows(rec, rec)
    BY <1>1, <1>3, Types DEF RecorderInv, OneMicrophone, Waits, Follows
  <2>2. QED
    BY <1>1, <1>2, <1>3, <2>1, Types, OverKeeps
<1>4. CASE ending' = "failed" /\ UNCHANGED <<db, rec, uploaded>>
  <2>1. CollectedInv(rec)'
    BY <1>1, <1>4 DEF RecorderInv, CollectedInv, After
  <2>2. QED
    BY <1>1, <1>2, <1>4, <2>1, Types, FlowKeeps DEF Endings, RecorderInv, FilesInv, ClickInv
<1>5. QED
  BY <1>3, <1>4 DEF ContinueWithoutAudio

LEMMA ReloadKeeps ==
    ASSUME RecorderInv, Reload
    PROVE  RecorderInv'
<1>1. /\ UNCHANGED <<server, produced, uploaded, recorders>>
      /\ reloads' = reloads + 1 /\ live' = NoStreaming /\ mic' = NoMicrophone
      /\ rec' = NoRecorder /\ saves' = {} /\ ending' = "no" /\ click' = NoClick /\ taken' = {}
      /\ pageMode' = server.mode /\ meeting = "recording"
      /\ meeting' \in {"recording", "none"}
  BY DEF Reload
<1>2. PICK S \in SUBSET saves : db' = Put(S) /\ spoiled' = (spoiled \/ S # saves)
  BY DEF Reload
<1>3. db' = db \cup S
  BY <1>2, PutAdds
<1>4. spoiled' \in BOOLEAN /\ (~spoiled' => ~spoiled /\ S = saves)
  BY <1>2, Types, Zenon
<1>5. 0 \in 0..MaxRequests /\ 0 \in 0..MaxSessions /\ 0 \in 0..MaxChunks /\ reloads' \in Nat
  BY <1>1, Types, RecorderAssumption
<1>6. /\ NoStreaming \in Live /\ NoMicrophone \in Microphone /\ NoRecorder \in Recorder
      /\ NoClick \in Click /\ {} \in Waits /\ "no" \in Endings
  BY <1>5 DEF NoStreaming, Live, NoMicrophone, Microphone, Permissions, NoRecorder, Recorder,
     RecorderStates, Numbers, Onstops, NoClick, Click, Modes, Waits, Endings
<1>7. TypeInv'
  <2>1. db' \in Waits /\ pageMode' \in Modes /\ meeting' \in MeetingStates
    BY <1>1, <1>3, Types DEF Waits, Server, MeetingStates
  <2>2. QED
    BY <1>1, <1>4, <1>5, <1>6, <2>1, Types, TypesNext
<1>8. OneMicrophone' /\ FilesInv'
  BY <1>1, <1>3 DEF RecorderInv, OneMicrophone, FilesInv, NoMicrophone
<1>9. StoredInv'
  BY <1>1, <1>3, <1>4 DEF RecorderInv, StoredInv, After
<1>10. ProducerInv(rec)'
  <2>1. recorders \in Nat
    BY Types
  <2>2. QED
    BY <1>1, <2>1 DEF RecorderInv, ProducerInv, Producing, NoRecorder
<1>11. ChainInv(rec)' /\ ClickInv(rec)' /\ CollectedInv(rec)'
  BY <1>1 DEF ChainInv, ClickInv, CollectedInv, NoRecorder, NoClick, After
<1>12. QED
  BY <1>7, <1>8, <1>9, <1>10, <1>11 DEF RecorderInv

LEMMA InitRecorderInv == RecorderInit => RecorderInv
<1> SUFFICES ASSUME RecorderInit PROVE RecorderInv
  OBVIOUS
<1>1. 0 \in 0..MaxRequests /\ 0 \in 0..MaxSessions /\ 0 \in 0..MaxChunks
  BY RecorderAssumption
<1>2. /\ NoStreaming \in Live /\ NoMicrophone \in Microphone /\ NoRecorder \in Recorder
      /\ NoClick \in Click /\ [mode |-> pageMode, open |-> TRUE] \in Server
  BY <1>1 DEF RecorderInit, NoStreaming, Live, NoMicrophone, Microphone, Permissions, NoRecorder,
     Recorder, RecorderStates, Numbers, Onstops, NoClick, Click, Modes, Server
<1>3. RecorderTypeOK
  <2>1. /\ live \in Live /\ mic \in Microphone /\ rec \in Recorder /\ server \in Server
    BY <1>2 DEF RecorderInit
  <2>2. /\ rec.state \in {"idle", "recording", "stopping"} /\ rec.session \in 0..MaxSessions
        /\ rec.finishing \subseteq 1..MaxSessions
    BY <2>1 DEF Recorder, RecorderStates, Numbers
  <2>3. QED
    BY <2>1, <2>2 DEF RecorderInit, RecorderTypeOK, Live, Microphone, Permissions, Server
<1>4. TypeInv
  BY <1>1, <1>2, <1>3 DEF RecorderInit, TypeInv, Click
<1>5. OneMicrophone /\ FilesInv /\ StoredInv
  BY DEF RecorderInit, OneMicrophone, NoMicrophone, FilesInv, Sound, StoredInv, After
<1>6. ProducerInv(rec) /\ ChainInv(rec) /\ ClickInv(rec) /\ CollectedInv(rec)
  BY DEF RecorderInit, ProducerInv, Producing, ChainInv, ClickInv, CollectedInv, NoRecorder,
     NoClick, After
<1>7. QED
  BY <1>4, <1>5, <1>6 DEF RecorderInv

LEMMA NextRecorderInv == RecorderInv /\ [RecorderNext]_recorderVars => RecorderInv'
<1> SUFFICES ASSUME RecorderInv, [RecorderNext]_recorderVars PROVE RecorderInv'
  OBVIOUS
<1>1. CASE UNCHANGED recorderVars
  <2>1. /\ UNCHANGED <<server, meeting, pageMode, live, mic, rec, saves, db, flow, auxiliary>>
        /\ OneMicrophone'
    BY <1>1 DEF recorderVars, RecorderInv, OneMicrophone
  <2>2. QED
    BY <2>1, Types, OutsideKeeps
<1>2. CASE RequestMicrophone
  BY <1>2, RequestMicrophoneKeeps
<1>3. CASE DeviceLost
  BY <1>3, DeviceLostKeeps
<1>4. CASE ChangeDevice
  BY <1>4, ChangeDeviceKeeps
<1>5. CASE AskForDevice
  BY <1>5, AskForDeviceKeeps
<1>6. ASSUME NEW g \in mic.requests, MicrophoneAnswers(g) PROVE RecorderInv'
  BY <1>6, MicrophoneAnswersKeeps
<1>7. CASE StartRecording
  BY <1>7, StartRecordingKeeps
<1>8. CASE Timeslice
  BY <1>8, TimesliceKeeps
<1>9. CASE RecorderFails
  BY <1>9, RecorderFailsKeeps
<1>10. ASSUME NEW s \in rec.finishing, LastData(s) PROVE RecorderInv'
  BY <1>10, LastDataKeeps
<1>11. ASSUME NEW c \in saves, SaveSettles(c) PROVE RecorderInv'
  BY <1>11, SaveSettlesKeeps
<1>12. ASSUME NEW o \in rec.onstops, RecorderStopped(o) PROVE RecorderInv'
  BY <1>12, RecorderStoppedKeeps
<1>13. CASE SocketChanges \/ StreamChanges \/ ModePatched
  BY <1>13, LiveKeeps
<1>14. CASE FallBackToBatch
  BY <1>14, FallBackToBatchKeeps
<1>15. CASE EndConfirm
  BY <1>15, EndConfirmKeeps
<1>16. CASE NoteRefused
  BY <1>16, NoteRefusedKeeps
<1>17. CASE CollectSessions
  BY <1>17, CollectSessionsKeeps
<1>18. CASE CollectFails
  BY <1>18, CollectFailsKeeps
<1>19. CASE EndRefused
  BY <1>19, EndRefusedKeeps
<1>20. CASE EndAccepted
  BY <1>20, EndAcceptedKeeps
<1>21. CASE Upload
  BY <1>21, UploadKeeps
<1>22. CASE RetryUpload
  BY <1>22, RetryUploadKeeps
<1>23. CASE ContinueWithoutAudio
  BY <1>23, ContinueWithoutAudioKeeps
<1>24. CASE Reload
  BY <1>24, ReloadKeeps
<1>25. QED
  BY <1>1, <1>2, <1>3, <1>4, <1>5, <1>6, <1>7, <1>8, <1>9, <1>10, <1>11, <1>12, <1>13,
     <1>14, <1>15, <1>16, <1>17, <1>18, <1>19, <1>20, <1>21, <1>22, <1>23, <1>24
     DEF RecorderNext

\* In every run: a recorder that may still deliver data is the last one made,
\* alone under its session; chunks have ids of their own; a chunk that was made
\* is stored or being saved (useMediaRecorder.ts:73-80, audioChunkDB.ts).
THEOREM RecordersAreAlone == RecorderSpec => []RecorderInv
BY InitRecorderInv, NextRecorderInv, PTL DEF RecorderSpec

\* No stream is left open by a request that was overtaken
\* (useAudioCapture.ts:150-153).
THEOREM MicrophoneIsTheLastAsked == RecorderSpec => []OneMicrophone
<1>1. RecorderInv => OneMicrophone
  BY DEF RecorderInv
<1>2. QED
  BY <1>1, RecordersAreAlone, PTL

\* Restarts, other microphones and reloads never mix the WebM files of two
\* recorders, and no chunk overwrites another (useMediaRecorder.ts:73-80).
THEOREM FilesStayWhole == RecorderSpec => []FilesAreWhole
<1>1. RecorderInv => FilesAreWhole
  <2> SUFFICES ASSUME RecorderInv PROVE FilesAreWhole
    OBVIOUS
  <2>1. ASSUME NEW c \in db, NEW d \in db
        PROVE  (c.session = d.session) = (c.by = d.by)
    <3>1. c.session = d.session <=> c.by = d.by
      BY DEF RecorderInv, FilesInv, Sound
    <3>2. QED
      BY <3>1
  <2>2. ~spoiled /\ saves = {} /\ ending # "over" => produced \subseteq db
    BY DEF RecorderInv, StoredInv
  <2>3. QED
    BY <2>1, <2>2 DEF FilesAreWhole
<1>2. QED
  BY <1>1, RecordersAreAlone, PTL

\* Only the end of the meeting clears chunks.
LEMMA ChunksStay ==
    ASSUME RecorderInv, [RecorderNext]_recorderVars
    PROVE  db \subseteq db' \/ EndAccepted \/ Upload \/ ContinueWithoutAudio
<1>1. ASSUME NEW c \in saves, SaveSettles(c) PROVE db \subseteq db'
  <2>1. Put({c}) = db \cup {c}
    BY PutAdds
  <2>2. db' = Put({c}) \/ db' = db
    BY <1>1, Zenon DEF SaveSettles
  <2>3. QED
    BY <2>1, <2>2
<1>2. ASSUME Reload PROVE db \subseteq db'
  <2>1. PICK S \in SUBSET saves : db' = Put(S)
    BY <1>2 DEF Reload
  <2>2. QED
    BY <2>1, PutAdds
<1>3. CASE RequestMicrophone \/ DeviceLost \/ ChangeDevice \/ AskForDevice
           \/ \E g \in mic.requests : MicrophoneAnswers(g)
  BY <1>3 DEF RequestMicrophone, DeviceLost, ChangeDevice, AskForDevice, MicrophoneAnswers
<1>4. CASE \/ StartRecording \/ Timeslice \/ RecorderFails
           \/ \E s \in rec.finishing : LastData(s)
           \/ \E o \in rec.onstops : RecorderStopped(o)
  BY <1>4 DEF StartRecording, Timeslice, RecorderFails, LastData, RecorderStopped
<1>5. CASE SocketChanges \/ StreamChanges \/ FallBackToBatch \/ ModePatched \/ EndConfirm
           \/ NoteRefused \/ CollectSessions \/ CollectFails \/ EndRefused \/ RetryUpload
  BY <1>5 DEF SocketChanges, StreamChanges, FallBackToBatch, ModePatched, EndConfirm,
     NoteRefused, CollectSessions, CollectFails, EndRefused, RetryUpload
<1>6. CASE UNCHANGED recorderVars
  BY <1>6 DEF recorderVars
<1>7. QED
  BY <1>1, <1>2, <1>3, <1>4, <1>5, <1>6 DEF RecorderNext

\* Unless the browser's storage or a recorder failed, and if the end was
\* confirmed while a recorder ran, no chunk is cleared that was neither uploaded
\* nor given up (useInProgressEndMeetingFlow.ts:134, 146).
THEOREM OnlyUploadedIsCleared == RecorderSpec => ClearedWhenUploaded
<1>1. ASSUME RecorderInv, [RecorderNext]_recorderVars, ~spoiled, click.recorder # "idle"
      PROVE  db \ db' \subseteq uploaded'
  <2>1. CASE db \subseteq db'
    BY <2>1
  <2>2. CASE EndAccepted
    <3>1. taken = db /\ click.mode = "BATCH"
      BY <1>1, <2>2 DEF EndAccepted, RecorderInv, CollectedInv, ClickInv
    <3>2. CASE runsBatch
      BY <2>2, <3>2 DEF EndAccepted
    <3>3. CASE ~runsBatch
      BY <3>1, <3>3 DEF runsBatch
    <3>4. QED
      BY <3>2, <3>3
  <2>3. CASE Upload
    <3>1. taken = db
      BY <1>1, <2>3 DEF Upload, RecorderInv, CollectedInv, After
    <3>2. CASE UploadDone(TRUE)
      BY <3>1, <3>2 DEF UploadDone
    <3>3. CASE UploadDone(FALSE)
      BY <3>3 DEF UploadDone
    <3>4. QED
      BY <2>3, <3>2, <3>3 DEF Upload
  <2>4. CASE ContinueWithoutAudio
    BY <2>4 DEF ContinueWithoutAudio
  <2>5. QED
    BY <1>1, <2>1, <2>2, <2>3, <2>4, ChunksStay
<1>2. RecorderInv /\ [RecorderNext]_recorderVars =>
        [~spoiled /\ click.recorder # "idle" => db \ db' \subseteq uploaded']_recorderVars
  BY <1>1
<1>3. QED
  BY <1>2, RecordersAreAlone, PTL DEF RecorderSpec, ClearedWhenUploaded
=============================================================================
