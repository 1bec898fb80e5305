-------------------------- MODULE NoteServiceProofs --------------------------
(***************************************************************************)
(* Proofs about NoteService for every set of requests and texts.           *)
(*                                                                         *)
(* The inductive invariant adds to the properties what each program point  *)
(* knows: which requests have an answer, that an INSERT is only attempted  *)
(* by a request that quoted revision 0, and that a meeting that is not     *)
(* purged has an empty history exactly while it has no row.                *)
(***************************************************************************)
EXTENDS NoteService, SequenceTheorems, TLAPS

Undecided == {"idle", "findMeeting", "findNote", "update", "insert", "reread"}

\* What request r knows at its program point.
StepInv(r) ==
    /\ pc[r] = "idle" <=> dto[r] = NoRequest
    /\ pc[r] \in Undecided => reply[r] = NoReply
    /\ pc[r] \in {"insert", "reread"} => dto[r].expectedRevision = 0
    /\ pc[r] = "update" => dto[r].expectedRevision # 0
    /\ pc[r] = "readProjection" => reply[r].status = "ok"
    /\ pc[r] = "saveProjection" => \E n \in DOMAIN history :
                                      history[n].content = projected[r]

\* A meeting that still exists has a row as soon as anything was written.
RowKept == note = NoNote /\ meeting # "purged" => history = <<>>

SearchInv == searchDoc # NoDocument => \E n \in DOMAIN history :
                                          history[n].content = searchDoc


StoreInv == RowIsLastWrite /\ NoLostUpdate /\ PurgedStaysEmpty /\ RowKept

ReplyInv == SuccessMeansStored /\ WrittenOnceAndAdmitted

IInv ==
    /\ TypeOK
    /\ StoreInv
    /\ ReplyInv
    /\ SearchInv
    /\ \A r \in Requests : StepInv(r)

LEMMA InitIInv == Init => IInv
<1> SUFFICES ASSUME Init PROVE IInv
  OBVIOUS
<1>0. history = <<>>
  BY DEF Init
<1>1. TypeOK
  <2>1. history \in Seq(Write)
    BY <1>0, EmptySeq
  <2>2. dto \in [Requests -> Dto \cup {NoRequest}]
    BY DEF Init
  <2>3. reply \in [Requests -> Replies]
    BY DEF Init, Replies, NoReply
  <2> QED
    BY <2>1, <2>2, <2>3 DEF Init, TypeOK, Steps
<1>2. ASSUME NEW r \in Requests PROVE StepInv(r)
  BY DEF Init, StepInv, Undecided
<1>3. SuccessMeansStored
  BY DEF Init, SuccessMeansStored, NoReply
<1>4. DOMAIN history = {}
  <2>1. Len(history) = 0
    BY <1>0, EmptySeq
  <2>2. DOMAIN history = 1..Len(history)
    BY <1>1, LenProperties DEF TypeOK
  <2> QED
    BY <2>1, <2>2
<1>5. WrittenOnceAndAdmitted /\ NoLostUpdate
  BY <1>4 DEF WrittenOnceAndAdmitted, NoLostUpdate
<1> QED
  BY <1>1, <1>2, <1>3, <1>5
  DEF Init, IInv, StoreInv, ReplyInv, RowIsLastWrite, PurgedStaysEmpty,
      RowKept, SearchInv

\* What appending one write does to the history.
LEMMA AppendWrite ==
  ASSUME NEW s \in Seq(Write), NEW w \in Write
  PROVE  /\ Append(s, w) \in Seq(Write)
         /\ Len(Append(s, w)) = Len(s) + 1
         /\ Len(s) \in Nat
         /\ DOMAIN s = 1..Len(s)
         /\ DOMAIN Append(s, w) = 1..(Len(s) + 1)
         /\ Append(s, w)[Len(s) + 1] = w
         /\ \A n \in 1..Len(s) : Append(s, w)[n] = s[n]
BY AppendProperties, LenProperties

(***************************************************************************)
(* Steps that only answer: nothing is written, and a success names a       *)
(* revision that holds the text that was asked for.                        *)
(***************************************************************************)
LEMMA AnswerKeepsReplyInv ==
  ASSUME IInv, NEW r \in Requests, pc[r] \in Undecided,
         NEW response \in Replies, NEW step,
         Answer(r, response, step), UNCHANGED <<dto, history>>,
         response.status = "ok" =>
            /\ response.revision \in DOMAIN history
            /\ history[response.revision].content = dto[r].content
  PROVE  ReplyInv'
<1>1. reply[r] = NoReply
  BY DEF IInv, StepInv
<1>2. /\ reply'[r] = response
      /\ \A q \in Requests \ {r} : reply'[q] = reply[q]
  BY DEF Answer, IInv, TypeOK
<1>3. SuccessMeansStored'
  BY <1>2 DEF IInv, ReplyInv, SuccessMeansStored
<1>4. \A n \in DOMAIN history : history[n].by \in Requests \ {r}
  <2> SUFFICES ASSUME NEW n \in DOMAIN history
               PROVE  history[n].by \in Requests \ {r}
    OBVIOUS
  <2>1. history[n] \in Write
    BY ElementOfSeq, LenProperties DEF IInv, TypeOK
  <2>2. reply[history[n].by] = Ok(n)
    BY DEF IInv, ReplyInv, WrittenOnceAndAdmitted
  <2> QED
    BY <1>1, <2>1, <2>2 DEF Write, Ok, NoReply
<1>5. WrittenOnceAndAdmitted'
  BY <1>2, <1>4 DEF IInv, ReplyInv, WrittenOnceAndAdmitted
<1> QED
  BY <1>3, <1>5 DEF ReplyInv

\* The stored row, if there is one, is the last element of the history.
LEMMA RowInHistory ==
  ASSUME IInv, note # NoNote
  PROVE  /\ note.revision \in DOMAIN history
         /\ note.revision \in Nat \ {0}
         /\ history[note.revision].content = note.content
         /\ Ok(note.revision) \in Replies
<1>1. note \in Row
  BY DEF IInv, TypeOK
<1>2. note.revision \in Nat \ {0} /\ note.revision = Len(history)
  BY <1>1 DEF Row, IInv, StoreInv, RowIsLastWrite
<1>3. DOMAIN history = 1..Len(history)
  BY LenProperties DEF IInv, TypeOK
<1> QED
  BY <1>2, <1>3 DEF IInv, StoreInv, RowIsLastWrite, Ok, Replies

(***************************************************************************)
(* A request that writes: it extends the history by one entry, made on top *)
(* of the revision the row had.                                            *)
(***************************************************************************)
LEMMA CommitKeepsIInv ==
  ASSUME IInv, NEW r \in Requests, pc[r] \in {"update", "insert"}, Commit(r),
         dto[r].expectedRevision = Len(history), meeting # "purged",
         UNCHANGED <<meeting, searchDoc, dto, projected>>
  PROVE  IInv'
<1> DEFINE n == Len(history) + 1
           w == [content |-> dto[r].content,
                 expected |-> dto[r].expectedRevision, by |-> r]
<1>1. /\ history \in Seq(Write)
      /\ dto[r] \in Dto
      /\ w \in Write
  <2>1. dto[r] # NoRequest
    BY DEF IInv, StepInv
  <2>2. history \in Seq(Write) /\ dto[r] \in Dto
    BY <2>1 DEF IInv, TypeOK
  <2>3. dto[r].content \in Contents /\ dto[r].expectedRevision \in Nat
    BY <2>2, MaxRevisionAssumption DEF Dto
  <2> QED
    BY <2>2, <2>3 DEF Write
<1>2. /\ history' \in Seq(Write)
      /\ Len(history') = n
      /\ Len(history) \in Nat
      /\ DOMAIN history = 1..Len(history)
      /\ DOMAIN history' = 1..n
      /\ history'[n] = w
      /\ \A m \in 1..Len(history) : history'[m] = history[m]
  BY <1>1, AppendWrite DEF Commit
<1>3. /\ note' = [content |-> dto[r].content, revision |-> n]
      /\ reply' = [reply EXCEPT ![r] = Ok(n)]
      /\ pc' = [pc EXCEPT ![r] = "readProjection"]
  BY DEF Commit, Answer, Goto
<1>4. reply[r] = NoReply
  BY DEF IInv, StepInv, Undecided
<1>5. note' \in Row /\ note' # NoNote
  BY <1>1, <1>2, <1>3, SentinelAssumption DEF Row, Dto
<1>6. TypeOK'
  <2>1. Ok(n) \in Replies
    BY <1>2 DEF Ok, Replies
  <2> QED
    BY <1>2, <1>3, <1>5, <2>1 DEF IInv, TypeOK, Steps
<1>7. StoreInv'
  <2>1. RowIsLastWrite'
    BY <1>2, <1>3 DEF RowIsLastWrite
  <2>2. NoLostUpdate'
    BY <1>2 DEF NoLostUpdate, IInv, StoreInv
  <2> QED
    BY <1>5, <2>1, <2>2 DEF StoreInv, PurgedStaysEmpty, RowKept
<1>8. ReplyInv'
  <2>1. SuccessMeansStored'
    <3> SUFFICES ASSUME NEW q \in Requests, reply'[q].status = "ok"
                 PROVE  /\ reply'[q].revision \in DOMAIN history'
                        /\ history'[reply'[q].revision].content = dto[q].content
      BY DEF SuccessMeansStored
    <3>1. CASE q = r
      <4>1. reply'[q] = Ok(n)
        BY <3>1, <1>3 DEF IInv, TypeOK
      <4> QED
        BY <3>1, <4>1, <1>2 DEF Ok
    <3>2. CASE q # r
      <4>1. reply'[q] = reply[q]
        BY <3>2, <1>3 DEF IInv, TypeOK
      <4>2. /\ reply[q].revision \in DOMAIN history
            /\ history[reply[q].revision].content = dto[q].content
        BY <4>1 DEF IInv, ReplyInv, SuccessMeansStored
      <4> QED
        BY <4>1, <4>2, <1>2
    <3> QED
      BY <3>1, <3>2
  <2>2. \A m \in DOMAIN history : history[m].by \in Requests \ {r}
    <3> SUFFICES ASSUME NEW m \in DOMAIN history
                 PROVE  history[m].by \in Requests \ {r}
      OBVIOUS
    <3>1. history[m] \in Write
      BY ElementOfSeq, <1>1, <1>2
    <3>2. reply[history[m].by] = Ok(m)
      BY DEF IInv, ReplyInv, WrittenOnceAndAdmitted
    <3> QED
      BY <1>4, <3>1, <3>2 DEF Write, Ok, NoReply
  <2>3. \A l, m \in DOMAIN history' :
           history'[l].by = history'[m].by => l = m
    BY <1>2, <2>2 DEF IInv, ReplyInv, WrittenOnceAndAdmitted
  <2>4. ASSUME NEW m \in DOMAIN history'
        PROVE  reply'[history'[m].by] = Ok(m)
    <3>1. CASE m = n
      <4>1. history'[m].by = r
        BY <3>1, <1>2
      <4>2. reply'[r] = Ok(n)
        BY <1>3 DEF IInv, TypeOK
      <4> QED
        BY <3>1, <4>1, <4>2
    <3>2. CASE m # n
      <4>1. m \in DOMAIN history /\ history'[m] = history[m]
        BY <3>2, <1>2
      <4>2. reply'[history[m].by] = reply[history[m].by]
        BY <4>1, <2>2, <1>3 DEF IInv, TypeOK
      <4> QED
        BY <4>1, <4>2 DEF IInv, ReplyInv, WrittenOnceAndAdmitted
    <3> QED
      BY <3>1, <3>2
  <2> QED
    BY <2>1, <2>3, <2>4 DEF ReplyInv, WrittenOnceAndAdmitted
<1>9. SearchInv'
  BY <1>2 DEF IInv, SearchInv
<1>10. ASSUME NEW q \in Requests PROVE StepInv(q)'
  <2>1. CASE q = r
    BY <2>1, <1>3 DEF IInv, TypeOK, StepInv, Undecided, Ok
  <2>2. CASE q # r
    <3>1. pc'[q] = pc[q] /\ reply'[q] = reply[q]
      BY <2>2, <1>3 DEF IInv, TypeOK
    <3>2. StepInv(q)
      BY DEF IInv
    <3>3. ASSUME pc[q] = "saveProjection"
          PROVE  \E m \in DOMAIN history' : history'[m].content = projected[q]
      <4>1. PICK m \in DOMAIN history : history[m].content = projected[q]
        BY <3>2, <3>3 DEF StepInv
      <4>2. m \in DOMAIN history' /\ history'[m] = history[m]
        BY <1>2
      <4> QED
        BY <4>1, <4>2
    <3> QED
      BY <3>1, <3>2, <3>3 DEF StepInv
  <2> QED
    BY <2>1, <2>2
<1> QED
  BY <1>6, <1>7, <1>8, <1>9, <1>10 DEF IInv

(***************************************************************************)
(* A step that answers keeps the whole invariant.                          *)
(***************************************************************************)
LEMMA AnswerKeepsIInv ==
  ASSUME IInv, NEW r \in Requests, pc[r] \in Undecided \ {"idle"},
         NEW response \in Replies, Answer(r, response, "done"),
         UNCHANGED <<meeting, note, searchDoc, dto, projected, history>>,
         response.status = "ok" =>
            /\ response.revision \in DOMAIN history
            /\ history[response.revision].content = dto[r].content
  PROVE  IInv'
<1>1. ReplyInv'
  BY AnswerKeepsReplyInv
<1>2. /\ reply' = [reply EXCEPT ![r] = response]
      /\ pc' = [pc EXCEPT ![r] = "done"]
  BY DEF Answer, Goto
<1>3. TypeOK'
  BY <1>2 DEF IInv, TypeOK, Steps
<1>4. StoreInv' /\ SearchInv'
  BY DEF IInv, StoreInv, SearchInv, RowIsLastWrite, NoLostUpdate,
         PurgedStaysEmpty, RowKept
<1>5. ASSUME NEW q \in Requests PROVE StepInv(q)'
  BY <1>2 DEF IInv, TypeOK, StepInv, Undecided
<1> QED
  BY <1>1, <1>3, <1>4, <1>5 DEF IInv

\* A step that moves r on within its undecided part changes nothing else.
LEMMA GotoKeepsIInv ==
  ASSUME IInv, NEW r \in Requests, NEW step, step \in Steps,
         Goto(r, step),
         UNCHANGED <<meeting, note, searchDoc, dto, projected, reply, history>>,
         \/ pc[r] \in Undecided \ {"idle"} /\ step \in Undecided \ {"idle"}
         \/ pc[r] # "idle" /\ step \in {"done", "lost"},
         step \in {"insert", "reread"} => dto[r].expectedRevision = 0,
         step = "update" => dto[r].expectedRevision # 0
  PROVE  IInv'
<1>1. pc' = [pc EXCEPT ![r] = step]
  BY DEF Goto
<1>2. TypeOK'
  BY <1>1 DEF IInv, TypeOK
<1>3. StoreInv' /\ SearchInv' /\ ReplyInv'
  BY DEF IInv, StoreInv, SearchInv, RowIsLastWrite, NoLostUpdate, ReplyInv,
         PurgedStaysEmpty, RowKept, SuccessMeansStored, WrittenOnceAndAdmitted
<1>4. ASSUME NEW q \in Requests PROVE StepInv(q)'
  BY <1>1 DEF IInv, TypeOK, StepInv, Undecided
<1> QED
  BY <1>2, <1>3, <1>4 DEF IInv

(***************************************************************************)
(* Every action keeps the invariant                                        *)
(***************************************************************************)
LEMMA NextKeepsIInv == IInv /\ [Next]_vars => IInv'
<1> SUFFICES ASSUME IInv, [Next]_vars PROVE IInv'
  OBVIOUS
<1> USE DEF Steps, Undecided
<1>1. ASSUME NEW r \in Requests, Submit(r) PROVE IInv'
  <2>1. PICK d \in Dto : dto' = [dto EXCEPT ![r] = d]
    BY <1>1 DEF Submit
  <2>2. pc[r] = "idle" /\ pc' = [pc EXCEPT ![r] = "findMeeting"]
    BY <1>1 DEF Submit, Goto
  <2>3. reply[r] = NoReply /\ d # NoRequest
    BY <2>2, SentinelAssumption DEF IInv, StepInv, Dto
  <2>4. TypeOK'
    BY <1>1, <2>1, <2>2 DEF Submit, IInv, TypeOK
  <2>5. StoreInv' /\ SearchInv'
    BY <1>1 DEF Submit, IInv, StoreInv, SearchInv, RowIsLastWrite,
                NoLostUpdate, PurgedStaysEmpty, RowKept
  <2>6. ReplyInv'
    <3>1. reply[r].status # "ok"
      BY <2>3 DEF NoReply
    <3>2. \A q \in Requests : reply[q].status = "ok" => dto'[q] = dto[q]
      BY <2>1, <3>1 DEF IInv, TypeOK
    <3> QED
      BY <1>1, <3>2 DEF Submit, IInv, ReplyInv, SuccessMeansStored,
         WrittenOnceAndAdmitted
  <2>7. ASSUME NEW q \in Requests PROVE StepInv(q)'
    BY <1>1, <2>1, <2>2, <2>3 DEF Submit, IInv, TypeOK, StepInv
  <2> QED
    BY <2>4, <2>5, <2>6, <2>7 DEF IInv
<1>2. ASSUME NEW r \in Requests, FindMeeting(r) PROVE IInv'
  <2>1. NotFound \in Replies /\ NotFound.status # "ok"
    BY DEF NotFound, Replies
  <2> QED
    BY <1>2, <2>1, AnswerKeepsIInv, GotoKeepsIInv DEF FindMeeting
<1>3. ASSUME NEW r \in Requests, FindNote(r) PROVE IInv'
  <2>1. Conflict \in Replies /\ Conflict.status # "ok"
    BY DEF Conflict, Replies
  <2>2. CASE note # NoNote /\ note.content = dto[r].content
    BY <1>3, <2>2, RowInHistory, AnswerKeepsIInv DEF FindNote, Ok
  <2>3. CASE /\ ~(note # NoNote /\ note.content = dto[r].content)
             /\ RevisionOf(note) # dto[r].expectedRevision
    BY <1>3, <2>1, <2>3, AnswerKeepsIInv DEF FindNote
  <2>4. CASE /\ ~(note # NoNote /\ note.content = dto[r].content)
             /\ RevisionOf(note) = dto[r].expectedRevision
    <3>1. CASE note = NoNote
      BY <1>3, <2>4, <3>1, GotoKeepsIInv DEF FindNote, RevisionOf
    <3>2. CASE note # NoNote
      <4>1. dto[r].expectedRevision # 0
        BY <2>4, <3>2, RowInHistory DEF RevisionOf
      <4> QED
        BY <1>3, <2>4, <3>2, <4>1, GotoKeepsIInv DEF FindNote
    <3> QED
      BY <3>1, <3>2
  <2> QED
    BY <2>2, <2>3, <2>4
<1>4. ASSUME NEW r \in Requests, UpdateNote(r) PROVE IInv'
  <2>1. CASE RowAt(dto[r].expectedRevision) /\ Commit(r)
    <3>1. dto[r].expectedRevision = Len(history) /\ meeting # "purged"
      BY <2>1 DEF RowAt, IInv, StoreInv, RowIsLastWrite, PurgedStaysEmpty
    <3> QED
      BY <1>4, <2>1, <3>1, CommitKeepsIInv DEF UpdateNote
  <2>2. CASE ~RowAt(dto[r].expectedRevision) /\ Answer(r, Conflict, "done")
    <3>1. Conflict \in Replies /\ Conflict.status # "ok"
      BY DEF Conflict, Replies
    <3> QED
      BY <1>4, <2>2, <3>1, AnswerKeepsIInv DEF UpdateNote
  <2> QED
    BY <1>4, <2>1, <2>2 DEF UpdateNote
<1>5. ASSUME NEW r \in Requests, InsertNote(r) PROVE IInv'
  <2>1. pc[r] = "insert" /\ dto[r].expectedRevision = 0
    BY <1>5 DEF InsertNote, IInv, StepInv
  <2>2. CASE note = NoNote /\ meeting # "purged" /\ Commit(r)
    <3>1. Len(history) = 0
      BY <2>2, EmptySeq DEF IInv, StoreInv, RowKept
    <3> QED
      BY <1>5, <2>1, <2>2, <3>1, CommitKeepsIInv DEF InsertNote
  <2>3. CASE Goto(r, "reread") /\ UNCHANGED <<note, history, reply>>
    BY <1>5, <2>1, <2>3, GotoKeepsIInv DEF InsertNote
  <2>4. CASE Answer(r, Failed, "done") /\ UNCHANGED <<note, history>>
    <3>1. Failed \in Replies /\ Failed.status # "ok"
      BY DEF Failed, Replies
    <3> QED
      BY <1>5, <2>4, <3>1, AnswerKeepsIInv DEF InsertNote
  <2> QED
    BY <1>5, <2>2, <2>3, <2>4 DEF InsertNote
<1>6. ASSUME NEW r \in Requests, RereadNote(r) PROVE IInv'
  <2>1. /\ Failed \in Replies /\ Failed.status # "ok"
        /\ Conflict \in Replies /\ Conflict.status # "ok"
    BY DEF Failed, Conflict, Replies
  <2>2. CASE note # NoNote /\ note.content = dto[r].content
    <3>1. Answer(r, Ok(note.revision), "done")
      BY <1>6, <2>2 DEF RereadNote
    <3> QED
      BY <1>6, <2>2, <3>1, RowInHistory, AnswerKeepsIInv DEF RereadNote, Ok
  <2>3. CASE note = NoNote \/ note.content # dto[r].content
    <3>1. Answer(r, Failed, "done") \/ Answer(r, Conflict, "done")
      BY <1>6, <2>3 DEF RereadNote
    <3> QED
      BY <1>6, <2>1, <3>1, AnswerKeepsIInv DEF RereadNote
  <2> QED
    BY <2>2, <2>3
<1>7. ASSUME NEW r \in Requests, ReadProjection(r) PROVE IInv'
  <2>1. pc[r] = "readProjection" /\ r \in DOMAIN pc
    BY <1>7 DEF ReadProjection, IInv, TypeOK
  <2>2. reply[r].revision \in DOMAIN history
    BY <2>1 DEF IInv, StepInv, ReplyInv, SuccessMeansStored
  <2>3. history # <<>>
    <3>1. history \in Seq(Write) /\ DOMAIN history = 1..Len(history)
      BY LenProperties DEF IInv, TypeOK
    <3>2. Len(history) # 0
      BY <2>2, <3>1
    <3> QED
      BY <3>2, EmptySeq
  <2>4. TypeOK'
    BY <1>7 DEF ReadProjection, Goto, IInv, TypeOK, Row
  <2>5. StoreInv' /\ ReplyInv' /\ SearchInv'
    BY <1>7 DEF ReadProjection, IInv, StoreInv, ReplyInv, SearchInv,
       RowIsLastWrite, NoLostUpdate, PurgedStaysEmpty, RowKept,
       SuccessMeansStored, WrittenOnceAndAdmitted
  <2>6. ASSUME NEW q \in Requests PROVE StepInv(q)'
    <3>1. CASE q = r /\ meeting = "live"
      <4>1. note # NoNote
        BY <2>3, <3>1 DEF IInv, StoreInv, RowKept
      <4>2. pc'[q] = "saveProjection" /\ projected'[q] = note.content
        BY <1>7, <3>1, <4>1 DEF ReadProjection, Goto, IInv, TypeOK
      <4>3. history[note.revision].content = projected'[q]
        BY <4>1, <4>2, RowInHistory
      <4> QED
        BY <1>7, <2>1, <3>1, <4>1, <4>2, <4>3, RowInHistory
        DEF ReadProjection, IInv, StepInv
    <3>2. CASE q = r /\ meeting # "live"
      BY <1>7, <2>1, <3>2 DEF ReadProjection, Goto, IInv, TypeOK, StepInv
    <3>3. CASE q # r
      <4>1. pc'[q] = pc[q] /\ projected'[q] = projected[q]
        BY <1>7, <3>3 DEF ReadProjection, Goto, IInv, TypeOK
      <4> QED
        BY <1>7, <4>1 DEF ReadProjection, IInv, StepInv
    <3> QED
      BY <3>1, <3>2, <3>3
  <2> QED
    BY <2>4, <2>5, <2>6 DEF IInv
<1>8. ASSUME NEW r \in Requests, SaveProjection(r) PROVE IInv'
  <2>1. pc[r] = "saveProjection" /\ pc' = [pc EXCEPT ![r] = "done"]
    BY <1>8 DEF SaveProjection, Goto
  <2>2. TypeOK'
    BY <1>8, <2>1 DEF SaveProjection, IInv, TypeOK
  <2>3. SearchInv'
    BY <1>8, <2>1 DEF SaveProjection, IInv, StepInv, SearchInv
  <2>4. StoreInv' /\ ReplyInv'
    BY <1>8 DEF SaveProjection, IInv, StoreInv, ReplyInv, RowIsLastWrite,
       NoLostUpdate, PurgedStaysEmpty, RowKept, SuccessMeansStored,
       WrittenOnceAndAdmitted
  <2>5. ASSUME NEW q \in Requests PROVE StepInv(q)'
    BY <1>8, <2>1 DEF SaveProjection, IInv, TypeOK, StepInv
  <2> QED
    BY <2>2, <2>3, <2>4, <2>5 DEF IInv
<1>9. ASSUME NEW r \in Requests, DatabaseError(r) PROVE IInv'
  <2>1. Failed \in Replies /\ Failed.status # "ok"
    BY DEF Failed, Replies
  <2> QED
    BY <1>9, <2>1, AnswerKeepsIInv DEF DatabaseError
<1>10. ASSUME NEW r \in Requests, LoseRequest(r) PROVE IInv'
  BY <1>10, GotoKeepsIInv DEF LoseRequest
<1>11. ASSUME Trash \/ Restore \/ Purge PROVE IInv'
  <2>1. /\ meeting # "purged"
        /\ UNCHANGED <<dto, pc, projected, reply, history>>
        /\ \/ meeting' # "purged" /\ UNCHANGED <<note, searchDoc>>
           \/ note' = NoNote /\ meeting' = "purged" /\ searchDoc' = NoDocument
    BY <1>11 DEF Trash, Restore, Purge, requestVars
  <2>2. TypeOK'
    BY <1>11 DEF Trash, Restore, Purge, requestVars, IInv, TypeOK
  <2>3. StoreInv' /\ SearchInv' /\ ReplyInv'
    BY <2>1 DEF IInv, StoreInv, ReplyInv, SearchInv, RowIsLastWrite,
       NoLostUpdate, PurgedStaysEmpty, RowKept, SuccessMeansStored,
       WrittenOnceAndAdmitted
  <2>4. ASSUME NEW q \in Requests PROVE StepInv(q)'
    BY <2>1 DEF IInv, StepInv
  <2> QED
    BY <2>2, <2>3, <2>4 DEF IInv
<1>12. ASSUME UNCHANGED vars PROVE IInv'
  <2>1. UNCHANGED <<meeting, note, searchDoc, dto, pc, projected, reply, history>>
    BY <1>12 DEF vars, requestVars
  <2>2. TypeOK'
    BY <2>1 DEF IInv, TypeOK
  <2>3. StoreInv' /\ SearchInv' /\ ReplyInv'
    BY <2>1 DEF IInv, StoreInv, ReplyInv, SearchInv, RowIsLastWrite,
       NoLostUpdate, PurgedStaysEmpty, RowKept, SuccessMeansStored,
       WrittenOnceAndAdmitted
  <2>4. ASSUME NEW q \in Requests PROVE StepInv(q)'
    BY <2>1 DEF IInv, StepInv
  <2> QED
    BY <2>2, <2>3, <2>4 DEF IInv
<1> QED
  BY <1>1, <1>2, <1>3, <1>4, <1>5, <1>6, <1>7, <1>8, <1>9, <1>10, <1>11,
     <1>12 DEF Next, Serve

THEOREM Inductive == Spec => []IInv
BY InitIInv, NextKeepsIInv, PTL DEF Spec

(***************************************************************************)
(* The theorems                                                            *)
(***************************************************************************)
\* Every variable keeps its type, for any number of requests and texts.
THEOREM TypeCorrect == Spec => []TypeOK
BY Inductive, PTL DEF IInv

\* upsert loses no update: each revision was written on top of the one its
\* client had seen, whatever the interleaving of the database statements.
THEOREM NoUpdateIsLost == Spec => [](NoLostUpdate /\ RowIsLastWrite)
<1>1. IInv => NoLostUpdate /\ RowIsLastWrite
  BY DEF IInv, StoreInv
<1> QED
  BY <1>1, Inductive, PTL

\* A success answer names a revision that holds the text of the request, and
\* a request is written at most once and only if it is answered with success.
THEOREM SuccessIsDurable == Spec => [](SuccessMeansStored /\ WrittenOnceAndAdmitted)
<1>1. IInv => SuccessMeansStored /\ WrittenOnceAndAdmitted
  BY DEF IInv, ReplyInv
<1> QED
  BY <1>1, Inductive, PTL

\* A write that was under way cannot revive the note of a purged meeting.
THEOREM PurgeIsFinal == Spec => []PurgedStaysEmpty
<1>1. IInv => PurgedStaysEmpty
  BY DEF IInv, StoreInv
<1> QED
  BY <1>1, Inductive, PTL

\* The search projection holds only texts that were saved.
THEOREM SearchIsSound == Spec => []SearchShowsSavedText
<1>1. IInv => SearchShowsSavedText
  BY SentinelAssumption DEF IInv, SearchInv, SearchShowsSavedText
<1> QED
  BY <1>1, Inductive, PTL

(***************************************************************************)
(* Refinement: statement by statement, upsert is a compare-and-swap        *)
(***************************************************************************)
LEMMA InitRefines == Init => VN!Init
BY DEF Init, VN!Init, NoReply, VN!Undecided

\* An answer without a write is the Confirm, Reject or Fail of the register.
LEMMA AnswerRefines ==
  ASSUME IInv, NEW r \in Requests, pc[r] \in Undecided \ {"idle"},
         NEW response, NEW step, Answer(r, response, step),
         UNCHANGED <<note, dto>>,
         \/ response = Conflict /\ RevisionOf(note) # dto[r].expectedRevision
         \/ /\ note # NoNote /\ note.content = dto[r].content
            /\ response = Ok(note.revision)
         \/ response \in {NotFound, Failed}
  PROVE  VN!Next
<1>1. VN!Pending(r)
  BY DEF IInv, StepInv, VN!Pending, VN!Undecided, NoReply, Undecided
<1>2. reply' = [reply EXCEPT ![r] = response]
  BY DEF Answer
<1>3. CASE response = Conflict /\ RevisionOf(note) # dto[r].expectedRevision
  <2>1. VN!Reject(r)
    BY <1>1, <1>2, <1>3 DEF VN!Reject, VN!RevisionOf, RevisionOf, Conflict,
                            VN!Conflict
  <2> QED
    BY <2>1 DEF VN!Next
<1>4. CASE /\ note # NoNote /\ note.content = dto[r].content
           /\ response = Ok(note.revision)
  <2>1. VN!Confirm(r)
    BY <1>1, <1>2, <1>4 DEF VN!Confirm, VN!Stored, Ok
  <2> QED
    BY <2>1 DEF VN!Next
<1>5. CASE response \in {NotFound, Failed}
  <2>1. response \in VN!Failures
    BY <1>5 DEF VN!Failures, NotFound, Failed
  <2>2. VN!Fail(r)
    BY <1>1, <1>2, <2>1 DEF VN!Fail
  <2> QED
    BY <2>2 DEF VN!Next
<1> QED
  BY <1>3, <1>4, <1>5

\* A write is the Store of the register: the row has the quoted revision.
LEMMA CommitRefines ==
  ASSUME IInv, NEW r \in Requests, pc[r] \in {"update", "insert"}, Commit(r),
         RevisionOf(note) = dto[r].expectedRevision, UNCHANGED dto
  PROVE  VN!Next
<1>1. VN!Pending(r)
  BY DEF IInv, StepInv, VN!Pending, VN!Undecided, NoReply, Undecided
<1>2. VN!Store(r)
  BY <1>1 DEF Commit, Answer, VN!Store, VN!RevisionOf, RevisionOf, VN!Stored, Ok
<1> QED
  BY <1>2 DEF VN!Next

LEMMA StepRefines == IInv /\ [Next]_vars => [VN!Next]_VN!vars
<1> SUFFICES ASSUME IInv, [Next]_vars PROVE VN!Next \/ UNCHANGED VN!vars
  OBVIOUS
<1> USE DEF Undecided
<1>1. ASSUME NEW r \in Requests, Submit(r) PROVE VN!Next
  <2>1. PICK d \in Dto : dto' = [dto EXCEPT ![r] = d]
    BY <1>1 DEF Submit
  <2>2. dto[r] = NoRequest /\ UNCHANGED <<note, reply>>
    BY <1>1 DEF Submit, IInv, StepInv
  <2>3. d \in VN!Dto
    BY MaxRevisionAssumption DEF Dto, VN!Dto
  <2>4. dto'[r] = d
    BY <2>1 DEF IInv, TypeOK
  <2>5. VN!Submit(r)
    BY <2>1, <2>2, <2>3, <2>4 DEF VN!Submit
  <2> QED
    BY <2>5 DEF VN!Next
<1>2. ASSUME NEW r \in Requests, FindMeeting(r)
      PROVE  VN!Next \/ UNCHANGED VN!vars
  BY <1>2, AnswerRefines DEF FindMeeting, VN!vars
<1>3. ASSUME NEW r \in Requests, FindNote(r)
      PROVE  VN!Next \/ UNCHANGED VN!vars
  BY <1>3, AnswerRefines DEF FindNote, VN!vars
<1>4. ASSUME NEW r \in Requests, UpdateNote(r) PROVE VN!Next
  <2>1. CASE RowAt(dto[r].expectedRevision) /\ Commit(r)
    BY <1>4, <2>1, CommitRefines DEF UpdateNote, RowAt, RevisionOf
  <2>2. CASE /\ ~RowAt(dto[r].expectedRevision)
             /\ Answer(r, Conflict, "done")
             /\ UNCHANGED note
    <3>1. dto[r].expectedRevision # RevisionOf(note)
      BY <1>4, <2>2 DEF UpdateNote, RowAt, RevisionOf, IInv, StepInv
    <3> QED
      BY <1>4, <2>2, <3>1, AnswerRefines DEF UpdateNote
  <2> QED
    BY <1>4, <2>1, <2>2 DEF UpdateNote
<1>5. ASSUME NEW r \in Requests, InsertNote(r)
      PROVE  VN!Next \/ UNCHANGED VN!vars
  <2>1. pc[r] = "insert" /\ dto[r].expectedRevision = 0
    BY <1>5 DEF InsertNote, IInv, StepInv
  <2>2. CASE note = NoNote /\ Commit(r)
    BY <1>5, <2>1, <2>2, CommitRefines DEF InsertNote, RevisionOf
  <2>3. CASE Goto(r, "reread") /\ UNCHANGED <<note, history, reply>>
    BY <1>5, <2>3 DEF InsertNote, VN!vars
  <2>4. CASE Answer(r, Failed, "done") /\ UNCHANGED note
    BY <1>5, <2>1, <2>4, AnswerRefines DEF InsertNote
  <2> QED
    BY <1>5, <2>2, <2>3, <2>4 DEF InsertNote
<1>6. ASSUME NEW r \in Requests, RereadNote(r) PROVE VN!Next
  <2>1. pc[r] = "reread" /\ dto[r].expectedRevision = 0
    BY <1>6 DEF RereadNote, IInv, StepInv
  <2>2. note # NoNote => RevisionOf(note) # 0
    BY RowInHistory DEF RevisionOf
  <2>3. CASE note = NoNote
    BY <1>6, <2>1, <2>3, AnswerRefines DEF RereadNote
  <2>4. CASE note # NoNote /\ note.content = dto[r].content
    BY <1>6, <2>1, <2>4, AnswerRefines DEF RereadNote
  <2>5. CASE note # NoNote /\ note.content # dto[r].content
    BY <1>6, <2>1, <2>2, <2>5, AnswerRefines DEF RereadNote
  <2> QED
    BY <2>3, <2>4, <2>5
<1>7. ASSUME NEW r \in Requests, ReadProjection(r) \/ SaveProjection(r)
      PROVE  UNCHANGED VN!vars
  BY <1>7 DEF ReadProjection, SaveProjection, VN!vars
<1>8. ASSUME NEW r \in Requests, DatabaseError(r) PROVE VN!Next
  BY <1>8, AnswerRefines DEF DatabaseError
<1>9. ASSUME NEW r \in Requests, LoseRequest(r) PROVE UNCHANGED VN!vars
  BY <1>9 DEF LoseRequest, VN!vars
<1>10. ASSUME Trash \/ Restore \/ Purge PROVE VN!Next \/ UNCHANGED VN!vars
  BY <1>10 DEF Trash, Restore, Purge, requestVars, VN!vars, VN!Next, VN!Purge
<1>11. ASSUME UNCHANGED vars PROVE UNCHANGED VN!vars
  BY <1>11 DEF vars, requestVars, VN!vars
<1> QED
  BY <1>1, <1>2, <1>3, <1>4, <1>5, <1>6, <1>7, <1>8, <1>9, <1>10, <1>11
  DEF Next, Serve

\* NoteService implements the compare-and-swap register of VersionedNote:
\* each request takes effect at one of its statements, or not at all.
THEOREM ImplementsRegister == Spec => ImplementsVersionedNote
<1>1. Init => VN!Init
  BY InitRefines
<1>2. IInv /\ [Next]_vars => [VN!Next]_VN!vars
  BY StepRefines
<1> QED
  BY <1>1, <1>2, Inductive, PTL DEF Spec, VN!Spec, ImplementsVersionedNote

\* upsert answers 409 only to a request whose quoted revision is not the
\* stored one at that moment: nobody is sent to the conflict dialog otherwise.
THEOREM ConflictIsReal == Spec => ConflictOnlyWhenMoved
<1>1. ASSUME IInv, Next, NEW q \in Requests,
             reply'[q] = Conflict, reply[q] # Conflict
      PROVE  RevisionOf(note) # dto[q].expectedRevision
  <2>1. reply' # reply
    BY <1>1
  <2>2. PICK r \in Requests :
           \/ Submit(r) \/ Serve(r) \/ DatabaseError(r) \/ LoseRequest(r)
    BY <1>1, <2>1 DEF Next, Trash, Restore, Purge, requestVars
  <2>3. ASSUME NEW response, NEW step, Answer(r, response, step)
        PROVE  q = r /\ response = Conflict
    BY <1>1, <2>3 DEF Answer, IInv, TypeOK
  <2>4. /\ Conflict # NotFound
        /\ Conflict # Failed
        /\ \A n : Conflict # Ok(n)
    BY DEF Conflict, NotFound, Failed, Ok
  <2>5. CASE FindMeeting(r)
    BY <2>1, <2>3, <2>4, <2>5 DEF FindMeeting
  <2>6. CASE FindNote(r)
    BY <2>1, <2>3, <2>4, <2>6 DEF FindNote
  <2>7. CASE UpdateNote(r)
    <3>1. ~Commit(r)
      BY <2>3, <2>4 DEF Commit
    <3>2. ~RowAt(dto[r].expectedRevision) /\ q = r
      BY <2>3, <2>7, <3>1 DEF UpdateNote
    <3>3. dto[r].expectedRevision # 0
      BY <1>1, <2>7 DEF UpdateNote, IInv, StepInv
    <3> QED
      BY <3>2, <3>3 DEF RowAt, RevisionOf
  <2>8. CASE InsertNote(r)
    <3>1. ~Commit(r)
      BY <2>3, <2>4 DEF Commit
    <3> QED
      BY <2>1, <2>3, <2>4, <2>8, <3>1 DEF InsertNote
  <2>9. CASE RereadNote(r)
    <3>1. q = r /\ note # NoNote /\ dto[r].expectedRevision = 0
      BY <1>1, <2>3, <2>4, <2>9 DEF RereadNote, IInv, StepInv
    <3> QED
      BY <1>1, <3>1, RowInHistory DEF RevisionOf
  <2>10. CASE DatabaseError(r)
    BY <2>3, <2>4, <2>10 DEF DatabaseError
  <2> QED
    BY <2>1, <2>2, <2>5, <2>6, <2>7, <2>8, <2>9, <2>10
    DEF Submit, Serve, ReadProjection, SaveProjection, LoseRequest
<1>2. IInv /\ [Next]_vars =>
        [\A r \in Requests :
            reply'[r] = Conflict /\ reply[r] # Conflict =>
               RevisionOf(note) # dto[r].expectedRevision]_vars
  BY <1>1
<1> QED
  BY <1>2, Inductive, PTL DEF ConflictOnlyWhenMoved, Spec
=============================================================================
