---------------------------- MODULE VersionedNote ----------------------------
(***************************************************************************)
(* What PUT /meetings/:id/note promises, with every request served in one  *)
(* step: a compare-and-swap register.  A request quotes the revision it    *)
(* started from; it is stored only on top of exactly that revision, it is  *)
(* confirmed without a write when the register already holds its content,  *)
(* and it is rejected otherwise.  NoteService implements this with         *)
(* separate SELECT, UPDATE and INSERT statements.                          *)
(***************************************************************************)
EXTENDS Integers

CONSTANTS
    Requests,     \* PUT requests, each sent once
    Contents,     \* note texts
    NoNote,       \* no row is stored
    NoRequest     \* the request has not been sent

VARIABLES
    note,      \* the register: NoNote or [content, revision]
    dto,       \* dto[r]: what request r asked for
    outcome    \* outcome[r]: what request r is told

vars == <<note, dto, outcome>>

Dto == [content : Contents, expectedRevision : Nat]
Row == [content : Contents, revision : Nat \ {0}]

Undecided == [status |-> "none", revision |-> 0]
Stored(n) == [status |-> "ok", revision |-> n]
Conflict  == [status |-> "conflict", revision |-> 0]
Failures  == [status : {"notFound", "error"}, revision : {0}]

RevisionOf(row) == IF row = NoNote THEN 0 ELSE row.revision

Pending(r) == dto[r] # NoRequest /\ outcome[r] = Undecided

Init ==
    /\ note = NoNote
    /\ dto = [r \in Requests |-> NoRequest]
    /\ outcome = [r \in Requests |-> Undecided]

Submit(r) ==
    /\ dto[r] = NoRequest
    /\ dto'[r] \in Dto
    /\ dto' = [dto EXCEPT ![r] = dto'[r]]
    /\ UNCHANGED <<note, outcome>>

\* The swap: the register still has the revision the request started from.
Store(r) ==
    /\ Pending(r)
    /\ RevisionOf(note) = dto[r].expectedRevision
    /\ LET revision == dto[r].expectedRevision + 1
       IN  /\ note' = [content |-> dto[r].content, revision |-> revision]
           /\ outcome' = [outcome EXCEPT ![r] = Stored(revision)]
    /\ UNCHANGED dto

\* A retry of content that is already there succeeds and writes nothing.
Confirm(r) ==
    /\ Pending(r)
    /\ note # NoNote
    /\ note.content = dto[r].content
    /\ outcome' = [outcome EXCEPT ![r] = Stored(note.revision)]
    /\ UNCHANGED <<note, dto>>

\* Only a request that quotes another revision than the stored one is rejected.
Reject(r) ==
    /\ Pending(r)
    /\ RevisionOf(note) # dto[r].expectedRevision
    /\ outcome' = [outcome EXCEPT ![r] = Conflict]
    /\ UNCHANGED <<note, dto>>

\* The meeting is missing, or the database fails: nothing is written.
Fail(r) ==
    /\ Pending(r)
    /\ \E f \in Failures : outcome' = [outcome EXCEPT ![r] = f]
    /\ UNCHANGED <<note, dto>>

\* Purging the meeting cascades to its note.
Purge ==
    /\ note' = NoNote
    /\ UNCHANGED <<dto, outcome>>

Next ==
    \/ \E r \in Requests :
          \/ Submit(r) \/ Store(r) \/ Confirm(r) \/ Reject(r) \/ Fail(r)
    \/ Purge

Spec == Init /\ [][Next]_vars
=============================================================================
