----------------------------- MODULE NoteService -----------------------------
(***************************************************************************)
(* NoteService.upsert (backend/src/domain/note/application), one action    *)
(* per database statement.  The requests are concurrent: any number of     *)
(* tabs and retries of one user may be between two statements at once, and *)
(* the user can trash, restore or purge the meeting under them.  A request *)
(* may die at any point (process crash, lost connection): what it wrote    *)
(* stays, its answer never arrives.                                        *)
(*                                                                         *)
(* One meeting is modelled: a note row belongs to exactly one meeting and  *)
(* no statement touches two.  history is an auxiliary variable: who wrote  *)
(* each revision, and on top of which revision the writer claimed to be.   *)
(***************************************************************************)
EXTENDS Integers, Sequences, FiniteSets

CONSTANTS
    Requests,      \* PUT requests, each sent once; a retry is another request
    Contents,      \* note texts
    MaxRevision,   \* bound on expectedRevision (2^31 - 2 in the DTO)
    NoNote,        \* no row in table note
    NoRequest,     \* the request has not been sent
    NoDocument     \* no row in the search projection

ASSUME MaxRevisionAssumption == MaxRevision \in Nat

\* The sentinels are not values of the domains they complete.
ASSUME SentinelAssumption ==
    /\ NoNote \notin [content : Contents, revision : Nat \ {0}]
    /\ NoRequest \notin [content : Contents, expectedRevision : 0..MaxRevision]
    /\ NoDocument \notin Contents

VARIABLES
    meeting,     \* "live", "trashed" (soft deleted) or "purged"
    note,        \* the note row
    searchDoc,   \* the note text in the meeting's search projection
    dto,         \* dto[r]: body of request r
    pc,          \* pc[r]: the statement request r runs next
    projected,   \* projected[r]: the note text r read for the projection
    reply,       \* reply[r]: the response r has computed
    history      \* history[n]: the write that produced revision n

requestVars == <<dto, pc, projected, reply>>
vars == <<meeting, note, searchDoc, requestVars, history>>

Dto == [content : Contents, expectedRevision : 0..MaxRevision]
Row == [content : Contents, revision : Nat \ {0}]
Write == [content : Contents, expected : Nat, by : Requests]

NoReply   == [status |-> "none", revision |-> 0]
Ok(n)     == [status |-> "ok", revision |-> n]
Conflict  == [status |-> "conflict", revision |-> 0]
NotFound  == [status |-> "notFound", revision |-> 0]
Failed    == [status |-> "error", revision |-> 0]
Replies   == [status : {"none", "ok", "conflict", "notFound", "error"},
              revision : Nat]

Steps == {"idle", "findMeeting", "findNote", "update", "insert", "reread",
          "readProjection", "saveProjection", "done", "lost"}

TypeOK ==
    /\ meeting \in {"live", "trashed", "purged"}
    /\ note \in Row \cup {NoNote}
    /\ searchDoc \in Contents \cup {NoDocument, ""}
    /\ dto \in [Requests -> Dto \cup {NoRequest}]
    /\ pc \in [Requests -> Steps]
    /\ projected \in [Requests -> Contents \cup {""}]
    /\ reply \in [Requests -> Replies]
    /\ history \in Seq(Write)

Init ==
    /\ meeting = "live"
    /\ note = NoNote
    /\ searchDoc = NoDocument
    /\ dto = [r \in Requests |-> NoRequest]
    /\ pc = [r \in Requests |-> "idle"]
    /\ projected = [r \in Requests |-> ""]
    /\ reply = [r \in Requests |-> NoReply]
    /\ history = <<>>

(***************************************************************************)
(* Steps of one request                                                    *)
(***************************************************************************)
Goto(r, step) == pc' = [pc EXCEPT ![r] = step]

\* GET answers a meeting without a note with a virtual note of revision 0.
RevisionOf(row) == IF row = NoNote THEN 0 ELSE row.revision

\* The response is fixed; it is sent at once, or after the projection refresh.
Answer(r, response, step) ==
    /\ reply' = [reply EXCEPT ![r] = response]
    /\ Goto(r, step)

Submit(r) ==
    /\ pc[r] = "idle"
    /\ \E d \in Dto : dto' = [dto EXCEPT ![r] = d]
    /\ Goto(r, "findMeeting")
    /\ UNCHANGED <<meeting, note, searchDoc, projected, reply, history>>

\* meetingService.findById: soft-deleted rows are invisible to findOne.
FindMeeting(r) ==
    /\ pc[r] = "findMeeting"
    /\ \/ /\ meeting = "live"
          /\ Goto(r, "findNote")
          /\ UNCHANGED reply
       \/ /\ meeting # "live"
          /\ Answer(r, NotFound, "done")
    /\ UNCHANGED <<meeting, note, searchDoc, dto, projected, history>>

\* The first findOne decides which statement follows.
FindNote(r) ==
    LET ask == dto[r]
        same == note # NoNote /\ note.content = ask.content
        current == RevisionOf(note)
    IN  /\ pc[r] = "findNote"
        /\ \/ /\ same
              /\ Answer(r, Ok(note.revision), "done")
           \/ /\ ~same /\ current # ask.expectedRevision
              /\ Answer(r, Conflict, "done")
           \/ /\ ~same /\ current = ask.expectedRevision
              /\ Goto(r, IF note = NoNote THEN "insert" ELSE "update")
              /\ UNCHANGED reply
        /\ UNCHANGED <<meeting, note, searchDoc, dto, projected, history>>

\* What a successful UPDATE or INSERT of request r leaves in the database.
Commit(r) ==
    LET revision == dto[r].expectedRevision + 1
    IN  /\ note' = [content |-> dto[r].content, revision |-> revision]
        /\ history' = Append(history, [content |-> dto[r].content,
                                       expected |-> dto[r].expectedRevision,
                                       by |-> r])
        /\ Answer(r, Ok(revision), "readProjection")

\* Mutant of RowAt: the WHERE clause forgets the revision.
RowAtAnyRevision(revision) == note # NoNote

RowAt(revision) == note # NoNote /\ note.revision = revision

\* Mutant of UpdateNote: the projection is written from the request.
UpdateNoteProjectingRequest(r) ==
    /\ pc[r] = "update"
    /\ \/ RowAt(dto[r].expectedRevision) /\ Commit(r)
       \/ /\ ~RowAt(dto[r].expectedRevision)
          /\ Answer(r, Conflict, "done")
          /\ UNCHANGED <<note, history>>
    /\ searchDoc' = dto[r].content
    /\ UNCHANGED <<meeting, dto, projected>>

\* UPDATE note ... WHERE meeting_id = :m AND revision = :expectedRevision
UpdateNote(r) ==
    /\ pc[r] = "update"
    /\ \/ /\ RowAt(dto[r].expectedRevision)
          /\ Commit(r)
       \/ /\ ~RowAt(dto[r].expectedRevision)
          /\ Answer(r, Conflict, "done")
          /\ UNCHANGED <<note, history>>
    /\ UNCHANGED <<meeting, searchDoc, dto, projected>>

\* INSERT with revision 1: the unique index on meeting_id rejects a second
\* row, the foreign key rejects a row of a purged meeting.
InsertNote(r) ==
    /\ pc[r] = "insert"
    /\ \/ /\ note = NoNote /\ meeting # "purged"
          /\ Commit(r)
       \/ /\ note # NoNote
          /\ Goto(r, "reread")
          /\ UNCHANGED <<note, history, reply>>
       \/ /\ meeting = "purged"
          /\ Answer(r, Failed, "done")
          /\ UNCHANGED <<note, history>>
    /\ UNCHANGED <<meeting, searchDoc, dto, projected>>

\* Mutants of RereadNote: the texts are not compared; a vanished row is a
\* conflict; a lost race is not answered.
RereadNoteWithoutCompare(r) ==
    /\ pc[r] = "reread"
    /\ Answer(r, IF note = NoNote THEN Failed ELSE Ok(note.revision), "done")
    /\ UNCHANGED <<meeting, note, searchDoc, dto, projected, history>>

\* After a unique violation: the row that won the race decides.
RereadNote(r) ==
    /\ pc[r] = "reread"
    /\ Answer(r, IF note = NoNote THEN Failed
                 ELSE IF note.content = dto[r].content THEN Ok(note.revision)
                 ELSE Conflict, "done")
    /\ UNCHANGED <<meeting, note, searchDoc, dto, projected, history>>

\* refreshByMeetingId, first half: read the sources of the projection.
ReadProjection(r) ==
    /\ pc[r] = "readProjection"
    /\ \/ /\ meeting = "live"
          /\ projected' = [projected EXCEPT
                ![r] = IF note = NoNote THEN "" ELSE note.content]
          /\ Goto(r, "saveProjection")
          /\ UNCHANGED searchDoc
       \/ /\ meeting # "live"
          /\ searchDoc' = NoDocument
          /\ Goto(r, "done")
          /\ UNCHANGED projected
    /\ UNCHANGED <<meeting, note, dto, reply, history>>

\* Second half: write the text read before.  A failed refresh deletes the
\* document, and if that fails too it stays as it was; upsert is not told.
SaveProjection(r) ==
    /\ pc[r] = "saveProjection"
    /\ \/ meeting # "purged" /\ searchDoc' = projected[r]
       \/ searchDoc' = NoDocument
       \/ UNCHANGED searchDoc
    /\ Goto(r, "done")
    /\ UNCHANGED <<meeting, note, dto, projected, reply, history>>

\* A statement throws before it has changed anything: the response is a 500.
DatabaseError(r) ==
    /\ pc[r] \in {"findMeeting", "findNote", "update", "insert", "reread"}
    /\ Answer(r, Failed, "done")
    /\ UNCHANGED <<meeting, note, searchDoc, dto, projected, history>>

\* The process or the connection dies under the request.
LoseRequest(r) ==
    /\ pc[r] \notin {"idle", "done", "lost"}
    /\ Goto(r, "lost")
    /\ UNCHANGED <<meeting, note, searchDoc, dto, projected, reply, history>>

(***************************************************************************)
(* The meeting under the note: MeetingService.remove, restore and purge    *)
(***************************************************************************)
Trash ==
    /\ meeting = "live"
    /\ meeting' = "trashed"
    /\ UNCHANGED <<note, searchDoc, requestVars, history>>

Restore ==
    /\ meeting = "trashed"
    /\ meeting' = "live"
    /\ UNCHANGED <<note, searchDoc, requestVars, history>>

\* The foreign keys cascade to the note and to the search document.
Purge ==
    /\ meeting = "trashed"
    /\ meeting' = "purged"
    /\ note' = NoNote
    /\ searchDoc' = NoDocument
    /\ UNCHANGED <<requestVars, history>>

Serve(r) ==
    \/ FindMeeting(r) \/ FindNote(r) \/ UpdateNote(r) \/ InsertNote(r)
    \/ RereadNote(r) \/ ReadProjection(r) \/ SaveProjection(r)

Next ==
    \/ \E r \in Requests :
          \/ Submit(r) \/ Serve(r) \/ DatabaseError(r) \/ LoseRequest(r)
    \/ Trash \/ Restore \/ Purge

Spec == Init /\ [][Next]_vars

(***************************************************************************)
(* Properties                                                              *)
(***************************************************************************)
\* The stored row is the last write, and its revision counts the writes: the
\* revision a client quotes identifies one text for ever.
RowIsLastWrite ==
    note # NoNote =>
        /\ note.revision = Len(history)
        /\ note.content = history[Len(history)].content

\* No lost update: every write was made on top of exactly the revision its
\* client had seen, however the statements of the requests interleave.
NoLostUpdate == \A n \in DOMAIN history : history[n].expected = n - 1

\* A request whose answer is a success has its text stored under the revision
\* in the answer, be it by its own write or by another request's.
SuccessMeansStored ==
    \A r \in Requests : reply[r].status = "ok" =>
        /\ reply[r].revision \in DOMAIN history
        /\ history[reply[r].revision].content = dto[r].content

\* A request is written at most once, and never one that was refused.
WrittenOnceAndAdmitted ==
    /\ \A m, n \in DOMAIN history : history[m].by = history[n].by => m = n
    /\ \A n \in DOMAIN history : reply[history[n].by] = Ok(n)

\* Search never shows a text that was not the note at some time.
SearchShowsSavedText ==
    searchDoc \in Contents => \E n \in DOMAIN history :
                                 history[n].content = searchDoc

\* A 409 is only given to a request that quotes a revision that is not the
\* stored one when the answer is computed.
ConflictOnlyWhenMoved ==
    [][\A r \in Requests :
          reply'[r] = Conflict /\ reply[r] # Conflict =>
             RevisionOf(note) # dto[r].expectedRevision]_vars

\* A purged meeting keeps no note: a write that was under way cannot revive it.
PurgedStaysEmpty == meeting = "purged" => note = NoNote

\* Retrying the same content never creates a conflict (the comment in upsert).
RetryNeverConflicts ==
    [][\A r \in Requests :
          reply'[r] = Conflict /\ reply[r] # Conflict =>
             note = NoNote \/ note.content # dto[r].content]_vars

(***************************************************************************)
(* Refinement: one request, one step                                       *)
(***************************************************************************)
VN == INSTANCE VersionedNote WITH outcome <- reply

\* The statement-level upsert keeps the promise of a request that takes effect in one step.
ImplementsVersionedNote == VN!Spec
=============================================================================
