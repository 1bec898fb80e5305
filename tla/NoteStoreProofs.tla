--------------------------- MODULE NoteStoreProofs ---------------------------
(***************************************************************************)
(* Proofs about NoteStore for any tabs, texts, number of sessions, of      *)
(* keystrokes and of faults, whether or not the storage may fail (but for  *)
(* EditsSurvive, which needs a storage that takes every draft).            *)
(*                                                                         *)
(* The safety properties of the editor follow from one invariant, IInv.    *)
(* Its heart is SessionInv: what a session believes of the server comes    *)
(* from the server (RowsInv), a save only runs from a state in which its   *)
(* base is such a row (OpenInv), and a session that was closed keeps at    *)
(* most the PUT it had sent (RequestInv).  TabInv ties the session a tab   *)
(* shows to the promise of its save: it is what makes a load that starts   *)
(* during a save wait for that very save.                                  *)
(*                                                                         *)
(* A handler is a function from worlds to worlds, so the proofs have three *)
(* layers: the records the handlers build, the worlds they return (Good),  *)
(* and the steps that publish such a world (PublishKeeps).                 *)
(*                                                                         *)
(* The last part is about the drafts: with IInv, DraftsInv is inductive    *)
(* and says that the text typed last in a session is stored or in a draft. *)
(***************************************************************************)
EXTENDS NoteStore, SequenceTheorems, WellFoundedInduction, TLAPS

\* The row x is one the server has had: the note before the first save, or a
\* text it has stored, under the number of that text.
Genuine(texts, x) ==
    \/ x.revision = 0 /\ x.content = EmptyText
    \/ x.revision \in 1..Len(texts) /\ x.content = texts[x.revision]

Judged(r) == r.loaded /\ ~Loading(r) /\ r.errorKind \notin {"load", "conflict"}

\* The rows a session holds are genuine, and its author has seen its base.
RowsInv(texts, r) ==
    /\ r.informed
    /\ r.loadPc = "got" /\ r.got \notin Failures => r.got \in Rows /\ Genuine(texts, r.got)
    /\ r.savePc = "replied" /\ r.reply \notin Failures /\ r.reply # ConflictReply =>
         r.reply \in Rows /\ Genuine(texts, r.reply)
    /\ r.savePc = "regot" /\ r.reply # Retryable => r.reply \in Rows /\ Genuine(texts, r.reply)
    /\ r.conflict # NoRow => r.conflict \in Rows /\ Genuine(texts, r.conflict)

\* A PUT quotes a revision, and nothing is saved while a conflict is shown.
RequestInv(texts, r) ==
    /\ RowsInv(texts, r)
    /\ r.savePc = "put" => r.put \in Puts /\ r.put.base \in 0..Len(texts)
    /\ Saving(r) => r.conflict = NoRow

CleanInv(texts, r) ==
    r.loaded /\ ~r.dirty => Genuine(texts, [content |-> r.content, revision |-> r.base])

\* While its tab is open: a clean text is the revision it is based on; outside
\* a conflict, a failed load and a load, the base is a revision; a save
\* that is not about a conflict runs in such a state, and one that is leaves
\* the session in the conflict, or in a load that waits for the save itself.
OpenInv(texts, s, r) ==
    /\ CleanInv(texts, r)
    /\ Judged(r) /\ r.savePc \notin {"reget", "regot"} =>
         r.base \in 0..Len(texts) /\ r.conflict = NoRow
    /\ r.savePc \in {"wait", "put", "replied"} => Judged(r)
    /\ r.savePc \in {"reget", "regot"} =>
         IF Loading(r) THEN r.loadPc = "wait" /\ r.loadAwaits = s ELSE r.errorKind = "conflict"

SessionInv(texts, s, r) == RequestInv(texts, r) /\ (r.open => OpenInv(texts, s, r))

ServerInv == server.revision = Len(storedTexts) /\ Genuine(storedTexts, server)

\* The session a tab shows is open, and its save is the latest one of the tab.
TabInv ==
    \A t \in Tabs : active[t] # NoSession =>
        /\ TabOf(active[t]) = t /\ sess[active[t]] # NoSession /\ sess[active[t]].open
        /\ Saving(sess[active[t]]) => saves[t] = active[t]

SessionsInv == \A s \in Sessions : sess[s] # NoSession => SessionInv(storedTexts, s, sess[s])

Typed ==
    /\ server \in Rows
    /\ storedTexts \in Seq(Texts)
    /\ DOMAIN sess = Sessions
    /\ \A s \in Sessions : sess[s] = NoSession \/ sess[s] \in Session
    /\ active \in [Tabs -> Sessions \cup {NoSession}]
    /\ saves \in [Tabs -> Sessions \cup {NoSession}]
    /\ disk \in [Sessions -> Drafts \cup {NoDraft}]
    /\ memory \in [Tabs -> Drafts \cup {NoDraft}]
    /\ event \in [Tabs -> BOOLEAN]
    /\ online \in BOOLEAN /\ taken \subseteq Drafts
    /\ edits \in 0..MaxEdits /\ faults \in 0..MaxFaults

Core == Typed /\ ServerInv /\ TabInv /\ SessionsInv

IInv == Core /\ timer \in [Tabs -> BOOLEAN]

-----------------------------------------------------------------------------
(***************************************************************************)
(* The worlds of the handlers                                              *)
(***************************************************************************)
Worlds ==
    [me : Sessions, r : Session, disk : [Sessions -> Drafts \cup {NoDraft}],
     memory : Drafts \cup {NoDraft}]

LEMMA WorldFields ==
    ASSUME NEW w \in Worlds
    PROVE  /\ w.me \in Sessions /\ w.r \in Session
           /\ w.disk \in [Sessions -> Drafts \cup {NoDraft}]
           /\ w.memory \in Drafts \cup {NoDraft}
BY DEF Worlds

LEMMA SessionFields ==
    ASSUME NEW r \in Session
    PROVE  /\ r.open \in BOOLEAN /\ r.content \in Texts /\ r.dirty \in BOOLEAN
           /\ r.loaded \in BOOLEAN /\ r.errorKind \in {"none", "load", "save", "conflict"}
           /\ r.retryable \in BOOLEAN /\ r.conflict \in Rows \cup {NoRow}
           /\ r.base \in Nat \cup {NoRevision}
           /\ r.own \in Drafts \cup {NoDraft} /\ r.restored \in Drafts \cup {NoDraft}
           /\ r.recovery \subseteq Drafts /\ r.backups \in Nat
           /\ r.loadPc \in {"idle", "wait", "got"}
           /\ r.loadAwaits \in Sessions \cup {NoSession} /\ r.got \in EditorReplies
           /\ r.savePc \in {"idle", "wait", "put", "replied", "reget", "regot"}
           /\ r.saveAwaits \in Sessions \cup {NoSession}
           /\ r.put \in Puts \cup {Nothing}
           /\ r.reply \in EditorReplies /\ r.typed \in Texts \cup {Nothing}
           /\ r.informed \in BOOLEAN
BY DEF Session

\* The records r and p are the same but for their drafts.
Alike(r, p) ==
    /\ p \in Session
    /\ p.open = r.open /\ p.content = r.content /\ p.dirty = r.dirty /\ p.loaded = r.loaded
    /\ p.errorKind = r.errorKind /\ p.retryable = r.retryable /\ p.conflict = r.conflict
    /\ p.base = r.base /\ p.loadPc = r.loadPc /\ p.loadAwaits = r.loadAwaits /\ p.got = r.got
    /\ p.savePc = r.savePc /\ p.saveAwaits = r.saveAwaits /\ p.put = r.put
    /\ p.reply = r.reply /\ p.typed = r.typed /\ p.informed = r.informed

LEMMA BackupWorld ==
    ASSUME NEW w \in Worlds, NEW ok \in BOOLEAN
    PROVE  /\ Backup(w, ok) \in Worlds /\ Backup(w, ok).me = w.me
           /\ Alike(w.r, Backup(w, ok).r)
<1> DEFINE draft == [key |-> w.me, content |-> w.r.content, base |-> w.r.base,
                     savedAt |-> w.r.backups]
           r1 == [w.r EXCEPT !.backups = w.r.backups + 1]
           r2 == [r1 EXCEPT !.own = draft]
<1>1. draft \in Drafts
  BY WorldFields, SessionFields DEF Drafts
<1>2. w.r.backups + 1 \in Nat /\ w.r \in Session
  BY WorldFields, SessionFields
<1>3. Alike(w.r, r1)
  BY <1>2 DEF Alike, Session
<1> HIDE DEF draft
<1>4. Alike(w.r, r2)
  BY <1>1, <1>2 DEF Alike, Session
<1>5. Backup(w, ok) = IF ok THEN [w EXCEPT !.r = r2, !.disk = [w.disk EXCEPT ![w.me] = draft], !.memory = NoDraft]
                      ELSE [w EXCEPT !.r = r1, !.memory = draft]
  BY DEF Backup, Worlds, draft
<1> HIDE DEF r1, r2
<1>6. [w.disk EXCEPT ![w.me] = draft] \in [Sessions -> Drafts \cup {NoDraft}]
  BY <1>1, WorldFields
<1>7. r1 \in Session /\ r2 \in Session
  BY <1>3, <1>4 DEF Alike
<1>8. CASE ok
  <2>1. Backup(w, ok) = [w EXCEPT !.r = r2, !.disk = [w.disk EXCEPT ![w.me] = draft], !.memory = NoDraft]
    BY <1>5, <1>8
  <2> QED
    BY <1>4, <1>6, <1>7, <2>1 DEF Worlds
<1>9. CASE ~ok
  <2>1. Backup(w, ok) = [w EXCEPT !.r = r1, !.memory = draft]
    BY <1>5, <1>9
  <2> QED
    BY <1>1, <1>3, <1>7, <2>1 DEF Worlds
<1> QED
  BY <1>8, <1>9

LEMMA RemoveFiles ==
    ASSUME NEW files \in [Sessions -> Drafts \cup {NoDraft}], NEW draft \in Drafts \cup {NoDraft}
    PROVE  Remove(files, draft) \in [Sessions -> Drafts \cup {NoDraft}]
BY DEF Remove, Drafts

LEMMA ClearWorld ==
    ASSUME NEW w \in Worlds
    PROVE  /\ ClearBackups(w) \in Worlds /\ ClearBackups(w).me = w.me
           /\ Alike(w.r, ClearBackups(w).r)
<1> DEFINE d == Remove(Remove(w.disk, w.r.own), w.r.restored)
           r0 == [w.r EXCEPT !.own = NoDraft]
           r1 == [r0 EXCEPT !.restored = NoDraft]
<1>1. d \in [Sessions -> Drafts \cup {NoDraft}]
  BY WorldFields, SessionFields, RemoveFiles
<1>2. Alike(w.r, r1)
  <2>1. w.r \in Session
    BY WorldFields
  <2>2. Alike(w.r, r0)
    BY <2>1 DEF Alike, Session
  <2> HIDE DEF r0
  <2> QED
    BY <2>2 DEF Alike, Session
<1>3. ClearBackups(w) = [w EXCEPT !.r = r1, !.disk = d, !.memory = NoDraft]
  BY DEF ClearBackups, Worlds
<1>4. r1 \in Session
  BY <1>2 DEF Alike
<1> HIDE DEF d, r1
<1> QED
  BY <1>1, <1>2, <1>3, <1>4 DEF Worlds

\* The requests of a session, that acceptServer leaves alone.
SameRequests(r, p) ==
    /\ p.open = r.open /\ p.loadPc = r.loadPc /\ p.loadAwaits = r.loadAwaits /\ p.got = r.got
    /\ p.savePc = r.savePc /\ p.saveAwaits = r.saveAwaits /\ p.put = r.put /\ p.reply = r.reply

LEMMA AcceptWorld ==
    ASSUME NEW w \in Worlds, NEW saved \in Rows, NEW replace \in BOOLEAN, NEW seen \in BOOLEAN,
           NEW ok \in BOOLEAN,
           ~replace /\ ~seen /\ w.r.content # saved.content => saved.revision = w.r.base,
           w.r.informed
    PROVE  LET v == Accept(w, saved, replace, seen, ok)
           IN  /\ v \in Worlds /\ v.me = w.me /\ SameRequests(w.r, v.r)
               /\ v.r.content = IF replace THEN saved.content ELSE w.r.content
               /\ v.r.dirty <=> v.r.content # saved.content
               /\ v.r.base = saved.revision /\ v.r.loaded /\ v.r.informed
               /\ v.r.errorKind = "none" /\ v.r.retryable /\ v.r.conflict = NoRow
<1> DEFINE content == IF replace THEN saved.content ELSE w.r.content
           dirty == ~Agrees(content, saved)
           told == ~dirty \/ seen \/ (saved.revision = w.r.base /\ w.r.informed)
           r1 == [w.r EXCEPT !.content = content, !.dirty = dirty, !.base = saved.revision,
                     !.loaded = TRUE, !.errorKind = "none", !.retryable = TRUE,
                     !.conflict = NoRow, !.informed = told]
           x == [w EXCEPT !.r = r1]
<1>1. content \in Texts /\ saved.revision \in Nat /\ w.r \in Session
  BY WorldFields, SessionFields DEF Rows
<1>2. told = TRUE /\ dirty \in BOOLEAN /\ (dirty <=> content # saved.content)
  BY DEF Agrees
<1>3. Accept(w, saved, replace, seen, ok) = IF dirty THEN Backup(x, ok) ELSE ClearBackups(x)
  BY DEF Accept, BaseAfter, Worlds
<1> HIDE DEF content, dirty, told
<1> DEFINE r == w.r
<1>r. r \in Session /\ r1 = [r EXCEPT !.content = content, !.dirty = dirty, !.base = saved.revision,
                     !.loaded = TRUE, !.errorKind = "none", !.retryable = TRUE,
                     !.conflict = NoRow, !.informed = TRUE]
  BY <1>1, <1>2
<1> HIDE DEF r1, r
<1>4. /\ r1 \in Session /\ SameRequests(r, r1) /\ r1.content = content
      /\ (r1.dirty <=> dirty) /\ r1.base = saved.revision /\ r1.loaded /\ r1.informed
      /\ r1.errorKind = "none" /\ r1.retryable /\ r1.conflict = NoRow
  BY <1>1, <1>2, <1>r DEF Session, SameRequests
<1>5. x \in Worlds /\ x.r = r1 /\ x.me = w.me
  BY <1>4 DEF Worlds
<1> HIDE DEF x
<1>6. CASE dirty
  <2>1. Accept(w, saved, replace, seen, ok) = Backup(x, ok)
    BY <1>3, <1>6
  <2>2. /\ Backup(x, ok) \in Worlds /\ Backup(x, ok).me = w.me /\ Alike(r1, Backup(x, ok).r)
    BY <1>5, BackupWorld
  <2> QED
    BY <1>2, <1>4, <1>6, <2>1, <2>2 DEF Alike, SameRequests, content, r
<1>7. CASE ~dirty
  <2>1. Accept(w, saved, replace, seen, ok) = ClearBackups(x)
    BY <1>3, <1>7
  <2>2. /\ ClearBackups(x) \in Worlds /\ ClearBackups(x).me = w.me
        /\ Alike(r1, ClearBackups(x).r)
    BY <1>5, ClearWorld
  <2> QED
    BY <1>2, <1>4, <1>7, <2>1, <2>2 DEF Alike, SameRequests, content, r
<1> QED
  BY <1>6, <1>7

-----------------------------------------------------------------------------
(***************************************************************************)
(* Sessions and the records the handlers build from a session r.  Naming   *)
(* the sets of the fields keeps them closed to the provers.                *)
(***************************************************************************)
Flags == BOOLEAN
Bases == Nat \cup {NoRevision}
Kinds == {"none", "load", "save", "conflict"}
Conflicts == Rows \cup {NoRow}
OwnDrafts == Drafts \cup {NoDraft}
DraftSets == SUBSET Drafts
Awaited == Sessions \cup {NoSession}
LoadPcs == {"idle", "wait", "got"}
SavePcs == {"idle", "wait", "put", "replied", "reget", "regot"}
SentPuts == Puts \cup {Nothing}
TypedTexts == Texts \cup {Nothing}

LEMMA SessionShape ==
    Session = [open : Flags, content : Texts, dirty : Flags, loaded : Flags,
               errorKind : Kinds, retryable : Flags, conflict : Conflicts, base : Bases,
               own : OwnDrafts, restored : OwnDrafts, recovery : DraftSets, backups : Nat,
               loadPc : LoadPcs, loadAwaits : Awaited, got : EditorReplies,
               savePc : SavePcs, saveAwaits : Awaited, put : SentPuts,
               reply : EditorReplies, typed : TypedTexts, informed : Flags]
BY DEF Session, Flags, Bases, Kinds, Conflicts, OwnDrafts, DraftSets, Awaited, LoadPcs,
       SavePcs, SentPuts, TypedTexts

LEMMA FieldValues ==
    /\ TRUE \in Flags /\ FALSE \in Flags
    /\ "none" \in Kinds /\ "load" \in Kinds /\ "save" \in Kinds /\ "conflict" \in Kinds
    /\ "idle" \in LoadPcs /\ "wait" \in LoadPcs /\ "got" \in LoadPcs
    /\ "idle" \in SavePcs /\ "wait" \in SavePcs /\ "put" \in SavePcs
    /\ "replied" \in SavePcs /\ "reget" \in SavePcs /\ "regot" \in SavePcs
    /\ Nothing \in EditorReplies /\ Nothing \in SentPuts /\ Nothing \in TypedTexts
    /\ NoSession \in Awaited /\ NoRow \in Conflicts /\ NoDraft \in OwnDrafts
    /\ {} \in DraftSets
BY DEF Flags, Kinds, LoadPcs, SavePcs, EditorReplies, SentPuts, TypedTexts, Awaited,
       Conflicts, OwnDrafts, DraftSets

LoadStarted(r, l) ==
    [r EXCEPT !.loadPc = "wait", !.loadAwaits = l, !.errorKind = "none"]
SaveStarted(r, l) ==
    [r EXCEPT !.savePc = "wait", !.saveAwaits = l]
SaveEnded(r, kind, retryable) ==
    [r EXCEPT !.savePc = "idle", !.put = Nothing, !.reply = Nothing,
              !.saveAwaits = NoSession, !.errorKind = kind, !.retryable = retryable]
PutSent(r, put) ==
    [r EXCEPT !.savePc = "put", !.reply = Nothing, !.errorKind = "none", !.put = put]
Edited(r, text) ==
    [r EXCEPT !.content = text, !.dirty = TRUE, !.typed = text,
              !.errorKind = IF r.errorKind = "save" THEN "none" ELSE r.errorKind,
              !.retryable = r.errorKind = "save" \/ r.retryable]
GivenUp(r) ==
    [r EXCEPT !.typed = Nothing]
Restored(r, draft) ==
    [r EXCEPT !.restored = draft, !.base = draft.base, !.content = draft.content,
              !.dirty = TRUE, !.recovery = r.recovery \ {draft}]
Fetched(r, x) ==
    [r EXCEPT !.loadPc = "got", !.got = x, !.loadAwaits = NoSession]
LoadOver(r) ==
    [r EXCEPT !.loadPc = "idle", !.got = Nothing]
LoadFailed(r, saved) ==
    [r EXCEPT !.errorKind = "load", !.retryable = (saved = Retryable)]
Conflicted(r, saved) ==
    [r EXCEPT !.loaded = TRUE, !.conflict = saved, !.errorKind = "conflict",
              !.retryable = FALSE]
Waited(r) ==
    [r EXCEPT !.saveAwaits = NoSession]
Replied(r, x) ==
    [r EXCEPT !.savePc = "replied", !.reply = x]
PutOver(r) ==
    [r EXCEPT !.savePc = "idle", !.put = Nothing]
PutTaken(r) ==
    [r EXCEPT !.put = Nothing]
Refused(r) ==
    [r EXCEPT !.savePc = "reget", !.reply = Nothing, !.put = Nothing,
              !.retryable = FALSE, !.errorKind = "conflict"]
OtherSide(r, x) ==
    [r EXCEPT !.savePc = "regot", !.reply = x]
ConflictShown(r, saved) ==
    [r EXCEPT !.conflict = saved]
Closed(r) ==
    [r EXCEPT !.open = FALSE, !.loadPc = "idle", !.got = Nothing,
              !.loadAwaits = NoSession,
              !.savePc = IF r.savePc = "put" THEN "put" ELSE "idle",
              !.saveAwaits = NoSession, !.reply = Nothing, !.conflict = NoRow,
              !.errorKind = "none", !.retryable = TRUE, !.recovery = {},
              !.own = NoDraft, !.restored = NoDraft]

\* What p and r have in common: the text and its state, the load, the save.
SameText(r, p) ==
    /\ p.open = r.open /\ p.content = r.content /\ p.dirty = r.dirty /\ p.loaded = r.loaded
    /\ p.conflict = r.conflict /\ p.base = r.base /\ p.informed = r.informed
SameLoad(r, p) == p.loadPc = r.loadPc /\ p.loadAwaits = r.loadAwaits /\ p.got = r.got
SameSave(r, p) == p.savePc = r.savePc /\ p.put = r.put /\ p.reply = r.reply

LEMMA LoadStartedRecord ==
    ASSUME NEW r \in Session, NEW l \in Awaited
    PROVE  LET p == LoadStarted(r, l)
           IN  /\ p \in Session /\ SameText(r, p) /\ SameSave(r, p) /\ p.loadPc = "wait"
               /\ p.loadAwaits = l /\ p.got = r.got /\ p.errorKind = "none"
<1>1. LoadStarted(r, l) \in Session
  BY SessionShape, FieldValues DEF LoadStarted
<1>2. LET p == LoadStarted(r, l)
      IN  /\ SameText(r, p) /\ SameSave(r, p)
  BY SessionShape DEF LoadStarted, SameText, SameSave
<1>3. LET p == LoadStarted(r, l)
      IN  /\ p.loadPc = "wait" /\ p.loadAwaits = l /\ p.got = r.got
          /\ p.errorKind = "none"
  BY SessionShape DEF LoadStarted
<1> QED
  BY <1>1, <1>2, <1>3

LEMMA SaveStartedRecord ==
    ASSUME NEW r \in Session, NEW l \in Awaited
    PROVE  LET p == SaveStarted(r, l)
           IN  /\ p \in Session /\ SameText(r, p) /\ SameLoad(r, p) /\ p.savePc = "wait"
               /\ p.put = r.put /\ p.reply = r.reply /\ p.errorKind = r.errorKind
<1>1. SaveStarted(r, l) \in Session
  BY SessionShape, FieldValues DEF SaveStarted
<1>2. LET p == SaveStarted(r, l)
      IN  /\ SameText(r, p) /\ SameLoad(r, p)
  BY SessionShape DEF SaveStarted, SameText, SameLoad
<1>3. LET p == SaveStarted(r, l)
      IN  /\ p.savePc = "wait" /\ p.put = r.put /\ p.reply = r.reply
          /\ p.errorKind = r.errorKind
  BY SessionShape DEF SaveStarted
<1> QED
  BY <1>1, <1>2, <1>3

LEMMA SaveEndedRecord ==
    ASSUME NEW r \in Session, NEW kind \in Kinds, NEW retryable \in BOOLEAN
    PROVE  LET p == SaveEnded(r, kind, retryable)
           IN  /\ p \in Session /\ SameText(r, p) /\ SameLoad(r, p) /\ p.savePc = "idle"
               /\ p.put = Nothing /\ p.reply = Nothing /\ p.errorKind = kind
<1>0. /\ retryable \in Flags
  BY DEF Flags
<1>1. SaveEnded(r, kind, retryable) \in Session
  BY <1>0, SessionShape, FieldValues DEF SaveEnded
<1>2. LET p == SaveEnded(r, kind, retryable)
      IN  /\ SameText(r, p) /\ SameLoad(r, p)
  BY SessionShape DEF SaveEnded, SameText, SameLoad
<1>3. LET p == SaveEnded(r, kind, retryable)
      IN  /\ p.savePc = "idle" /\ p.put = Nothing /\ p.reply = Nothing
          /\ p.errorKind = kind
  BY SessionShape DEF SaveEnded
<1> QED
  BY <1>1, <1>2, <1>3, Zenon

LEMMA PutSentRecord ==
    ASSUME NEW r \in Session, NEW put \in Puts
    PROVE  LET p == PutSent(r, put)
           IN  /\ p \in Session /\ SameText(r, p) /\ SameLoad(r, p) /\ p.savePc = "put"
               /\ p.put = put /\ p.reply = Nothing /\ p.errorKind = "none"
<1>0. /\ put \in SentPuts
  BY DEF SentPuts
<1>1. PutSent(r, put) \in Session
  BY <1>0, SessionShape, FieldValues DEF PutSent
<1>2. LET p == PutSent(r, put)
      IN  /\ SameText(r, p) /\ SameLoad(r, p)
  BY SessionShape DEF PutSent, SameText, SameLoad
<1>3. LET p == PutSent(r, put)
      IN  /\ p.savePc = "put" /\ p.put = put /\ p.reply = Nothing
          /\ p.errorKind = "none"
  BY SessionShape DEF PutSent
<1> QED
  BY <1>1, <1>2, <1>3

LEMMA EditedRecord ==
    ASSUME NEW r \in Session, NEW text \in Texts
    PROVE  LET p == Edited(r, text)
           IN  /\ p \in Session /\ SameLoad(r, p) /\ SameSave(r, p) /\ p.open = r.open
               /\ p.content = text /\ p.dirty /\ p.loaded = r.loaded
               /\ p.conflict = r.conflict /\ p.base = r.base /\ p.informed = r.informed
               /\ p.errorKind = (IF r.errorKind = "save" THEN "none" ELSE r.errorKind)
<1>0. /\ (IF r.errorKind = "save" THEN "none" ELSE r.errorKind) \in Kinds
      /\ (r.errorKind = "save" \/ r.retryable) \in Flags /\ text \in TypedTexts
  BY SessionFields DEF Kinds, Flags, TypedTexts
<1>1. Edited(r, text) \in Session
  BY <1>0, SessionShape, FieldValues DEF Edited
<1>2. LET p == Edited(r, text)
      IN  /\ SameLoad(r, p) /\ SameSave(r, p)
  BY SessionShape DEF Edited, SameLoad, SameSave
<1>3. LET p == Edited(r, text)
      IN  /\ p.open = r.open /\ p.content = text /\ p.dirty /\ p.loaded = r.loaded
          /\ p.conflict = r.conflict /\ p.base = r.base /\ p.informed = r.informed
          /\ p.errorKind = (IF r.errorKind = "save" THEN "none" ELSE r.errorKind)
  BY SessionShape DEF Edited
<1> QED
  BY <1>1, <1>2, <1>3

LEMMA GivenUpRecord ==
    ASSUME NEW r \in Session
    PROVE  LET p == GivenUp(r)
           IN  /\ p \in Session /\ SameText(r, p) /\ SameLoad(r, p) /\ SameSave(r, p)
               /\ p.errorKind = r.errorKind
<1>1. GivenUp(r) \in Session
  BY SessionShape, FieldValues DEF GivenUp
<1>2. LET p == GivenUp(r)
      IN  /\ SameText(r, p) /\ SameLoad(r, p) /\ SameSave(r, p)
  BY SessionShape DEF GivenUp, SameText, SameLoad, SameSave
<1>3. LET p == GivenUp(r)
      IN  /\ p.errorKind = r.errorKind
  BY SessionShape DEF GivenUp
<1> QED
  BY <1>1, <1>2, <1>3

LEMMA RestoredRecord ==
    ASSUME NEW r \in Session, NEW draft \in Drafts
    PROVE  LET p == Restored(r, draft)
           IN  /\ p \in Session /\ SameLoad(r, p) /\ SameSave(r, p) /\ p.open = r.open
               /\ p.content = draft.content /\ p.dirty /\ p.loaded = r.loaded
               /\ p.conflict = r.conflict /\ p.base = draft.base
               /\ p.informed = r.informed /\ p.errorKind = r.errorKind
<1>0. /\ draft \in OwnDrafts /\ draft.base \in Bases /\ draft.content \in Texts
      /\ (r.recovery \ {draft}) \in DraftSets
  BY SessionFields DEF OwnDrafts, Bases, DraftSets, Drafts
<1>1. Restored(r, draft) \in Session
  BY <1>0, SessionShape, FieldValues DEF Restored
<1>2. LET p == Restored(r, draft)
      IN  /\ SameLoad(r, p) /\ SameSave(r, p)
  BY SessionShape DEF Restored, SameLoad, SameSave
<1>3. LET p == Restored(r, draft)
      IN  /\ p.open = r.open /\ p.content = draft.content /\ p.dirty
          /\ p.loaded = r.loaded /\ p.conflict = r.conflict /\ p.base = draft.base
          /\ p.informed = r.informed /\ p.errorKind = r.errorKind
  BY SessionShape DEF Restored
<1> QED
  BY <1>1, <1>2, <1>3

LEMMA FetchedRecord ==
    ASSUME NEW r \in Session, NEW x \in EditorReplies
    PROVE  LET p == Fetched(r, x)
           IN  /\ p \in Session /\ SameText(r, p) /\ SameSave(r, p) /\ p.loadPc = "got"
               /\ p.loadAwaits = NoSession /\ p.got = x /\ p.errorKind = r.errorKind
<1>1. Fetched(r, x) \in Session
  BY SessionShape, FieldValues DEF Fetched
<1>2. LET p == Fetched(r, x)
      IN  /\ SameText(r, p) /\ SameSave(r, p)
  BY SessionShape DEF Fetched, SameText, SameSave
<1>3. LET p == Fetched(r, x)
      IN  /\ p.loadPc = "got" /\ p.loadAwaits = NoSession /\ p.got = x
          /\ p.errorKind = r.errorKind
  BY SessionShape DEF Fetched
<1> QED
  BY <1>1, <1>2, <1>3

LEMMA LoadOverRecord ==
    ASSUME NEW r \in Session
    PROVE  LET p == LoadOver(r)
           IN  /\ p \in Session /\ SameText(r, p) /\ SameSave(r, p) /\ p.loadPc = "idle"
               /\ p.loadAwaits = r.loadAwaits /\ p.got = Nothing
               /\ p.errorKind = r.errorKind
<1>1. LoadOver(r) \in Session
  BY SessionShape, FieldValues DEF LoadOver
<1>2. LET p == LoadOver(r)
      IN  /\ SameText(r, p) /\ SameSave(r, p)
  BY SessionShape DEF LoadOver, SameText, SameSave
<1>3. LET p == LoadOver(r)
      IN  /\ p.loadPc = "idle" /\ p.loadAwaits = r.loadAwaits /\ p.got = Nothing
          /\ p.errorKind = r.errorKind
  BY SessionShape DEF LoadOver
<1> QED
  BY <1>1, <1>2, <1>3

LEMMA LoadFailedRecord ==
    ASSUME NEW r \in Session, NEW saved
    PROVE  LET p == LoadFailed(r, saved)
           IN  /\ p \in Session /\ SameText(r, p) /\ SameLoad(r, p) /\ SameSave(r, p)
               /\ p.errorKind = "load"
<1>0. /\ (saved = Retryable) \in Flags
  BY DEF Flags
<1>1. LoadFailed(r, saved) \in Session
  BY <1>0, SessionShape, FieldValues DEF LoadFailed
<1>2. LET p == LoadFailed(r, saved)
      IN  /\ SameText(r, p) /\ SameLoad(r, p) /\ SameSave(r, p)
  BY SessionShape DEF LoadFailed, SameText, SameLoad, SameSave
<1>3. LET p == LoadFailed(r, saved)
      IN  /\ p.errorKind = "load"
  BY SessionShape DEF LoadFailed
<1> QED
  BY <1>1, <1>2, <1>3

LEMMA ConflictedRecord ==
    ASSUME NEW r \in Session, NEW saved \in Rows
    PROVE  LET p == Conflicted(r, saved)
           IN  /\ p \in Session /\ SameLoad(r, p) /\ SameSave(r, p) /\ p.open = r.open
               /\ p.content = r.content /\ p.dirty = r.dirty /\ p.loaded
               /\ p.conflict = saved /\ p.base = r.base /\ p.informed = r.informed
               /\ p.errorKind = "conflict"
<1>0. /\ saved \in Conflicts
  BY DEF Conflicts
<1>1. Conflicted(r, saved) \in Session
  BY <1>0, SessionShape, FieldValues DEF Conflicted
<1>2. LET p == Conflicted(r, saved)
      IN  /\ SameLoad(r, p) /\ SameSave(r, p)
  BY SessionShape DEF Conflicted, SameLoad, SameSave
<1>3. LET p == Conflicted(r, saved)
      IN  /\ p.open = r.open /\ p.content = r.content /\ p.dirty = r.dirty /\ p.loaded
          /\ p.conflict = saved /\ p.base = r.base /\ p.informed = r.informed
          /\ p.errorKind = "conflict"
  BY SessionShape DEF Conflicted
<1> QED
  BY <1>1, <1>2, <1>3

LEMMA WaitedRecord ==
    ASSUME NEW r \in Session
    PROVE  LET p == Waited(r)
           IN  /\ p \in Session /\ SameText(r, p) /\ SameLoad(r, p) /\ SameSave(r, p)
               /\ p.errorKind = r.errorKind
<1>1. Waited(r) \in Session
  BY SessionShape, FieldValues DEF Waited
<1>2. LET p == Waited(r)
      IN  /\ SameText(r, p) /\ SameLoad(r, p) /\ SameSave(r, p)
  BY SessionShape DEF Waited, SameText, SameLoad, SameSave
<1>3. LET p == Waited(r)
      IN  /\ p.errorKind = r.errorKind
  BY SessionShape DEF Waited
<1> QED
  BY <1>1, <1>2, <1>3

LEMMA RepliedRecord ==
    ASSUME NEW r \in Session, NEW x \in EditorReplies
    PROVE  LET p == Replied(r, x)
           IN  /\ p \in Session /\ SameText(r, p) /\ SameLoad(r, p)
               /\ p.savePc = "replied" /\ p.put = r.put /\ p.reply = x
               /\ p.errorKind = r.errorKind
<1>1. Replied(r, x) \in Session
  BY SessionShape, FieldValues DEF Replied
<1>2. LET p == Replied(r, x)
      IN  /\ SameText(r, p) /\ SameLoad(r, p)
  BY SessionShape DEF Replied, SameText, SameLoad
<1>3. LET p == Replied(r, x)
      IN  /\ p.savePc = "replied" /\ p.put = r.put /\ p.reply = x
          /\ p.errorKind = r.errorKind
  BY SessionShape DEF Replied
<1> QED
  BY <1>1, <1>2, <1>3

LEMMA PutOverRecord ==
    ASSUME NEW r \in Session
    PROVE  LET p == PutOver(r)
           IN  /\ p \in Session /\ SameText(r, p) /\ SameLoad(r, p) /\ p.savePc = "idle"
               /\ p.put = Nothing /\ p.reply = r.reply /\ p.errorKind = r.errorKind
<1>1. PutOver(r) \in Session
  BY SessionShape, FieldValues DEF PutOver
<1>2. LET p == PutOver(r)
      IN  /\ SameText(r, p) /\ SameLoad(r, p)
  BY SessionShape DEF PutOver, SameText, SameLoad
<1>3. LET p == PutOver(r)
      IN  /\ p.savePc = "idle" /\ p.put = Nothing /\ p.reply = r.reply
          /\ p.errorKind = r.errorKind
  BY SessionShape DEF PutOver
<1> QED
  BY <1>1, <1>2, <1>3

LEMMA PutTakenRecord ==
    ASSUME NEW r \in Session
    PROVE  LET p == PutTaken(r)
           IN  /\ p \in Session /\ SameText(r, p) /\ SameLoad(r, p)
               /\ p.savePc = r.savePc /\ p.put = Nothing /\ p.reply = r.reply
               /\ p.errorKind = r.errorKind
<1>1. PutTaken(r) \in Session
  BY SessionShape, FieldValues DEF PutTaken
<1>2. LET p == PutTaken(r)
      IN  /\ SameText(r, p) /\ SameLoad(r, p)
  BY SessionShape DEF PutTaken, SameText, SameLoad
<1>3. LET p == PutTaken(r)
      IN  /\ p.savePc = r.savePc /\ p.put = Nothing /\ p.reply = r.reply
          /\ p.errorKind = r.errorKind
  BY SessionShape DEF PutTaken
<1> QED
  BY <1>1, <1>2, <1>3

LEMMA RefusedRecord ==
    ASSUME NEW r \in Session
    PROVE  LET p == Refused(r)
           IN  /\ p \in Session /\ SameText(r, p) /\ SameLoad(r, p)
               /\ p.savePc = "reget" /\ p.put = Nothing /\ p.reply = Nothing
               /\ p.errorKind = "conflict"
<1>1. Refused(r) \in Session
  BY SessionShape, FieldValues DEF Refused
<1>2. LET p == Refused(r)
      IN  /\ SameText(r, p) /\ SameLoad(r, p)
  BY SessionShape DEF Refused, SameText, SameLoad
<1>3. LET p == Refused(r)
      IN  /\ p.savePc = "reget" /\ p.put = Nothing /\ p.reply = Nothing
          /\ p.errorKind = "conflict"
  BY SessionShape DEF Refused
<1> QED
  BY <1>1, <1>2, <1>3

LEMMA OtherSideRecord ==
    ASSUME NEW r \in Session, NEW x \in EditorReplies
    PROVE  LET p == OtherSide(r, x)
           IN  /\ p \in Session /\ SameText(r, p) /\ SameLoad(r, p)
               /\ p.savePc = "regot" /\ p.put = r.put /\ p.reply = x
               /\ p.errorKind = r.errorKind
<1>1. OtherSide(r, x) \in Session
  BY SessionShape, FieldValues DEF OtherSide
<1>2. LET p == OtherSide(r, x)
      IN  /\ SameText(r, p) /\ SameLoad(r, p)
  BY SessionShape DEF OtherSide, SameText, SameLoad
<1>3. LET p == OtherSide(r, x)
      IN  /\ p.savePc = "regot" /\ p.put = r.put /\ p.reply = x
          /\ p.errorKind = r.errorKind
  BY SessionShape DEF OtherSide
<1> QED
  BY <1>1, <1>2, <1>3

LEMMA ConflictShownRecord ==
    ASSUME NEW r \in Session, NEW saved \in Rows
    PROVE  LET p == ConflictShown(r, saved)
           IN  /\ p \in Session /\ SameLoad(r, p) /\ SameSave(r, p) /\ p.open = r.open
               /\ p.content = r.content /\ p.dirty = r.dirty /\ p.loaded = r.loaded
               /\ p.conflict = saved /\ p.base = r.base /\ p.informed = r.informed
               /\ p.errorKind = r.errorKind
<1>0. /\ saved \in Conflicts
  BY DEF Conflicts
<1>1. ConflictShown(r, saved) \in Session
  BY <1>0, SessionShape, FieldValues DEF ConflictShown
<1>2. LET p == ConflictShown(r, saved)
      IN  /\ SameLoad(r, p) /\ SameSave(r, p)
  BY SessionShape DEF ConflictShown, SameLoad, SameSave
<1>3. LET p == ConflictShown(r, saved)
      IN  /\ p.open = r.open /\ p.content = r.content /\ p.dirty = r.dirty
          /\ p.loaded = r.loaded /\ p.conflict = saved /\ p.base = r.base
          /\ p.informed = r.informed /\ p.errorKind = r.errorKind
  BY SessionShape DEF ConflictShown
<1> QED
  BY <1>1, <1>2, <1>3

LEMMA ClosedRecord ==
    ASSUME NEW r \in Session
    PROVE  LET p == Closed(r)
           IN  /\ p \in Session /\ ~p.open /\ p.content = r.content /\ p.dirty = r.dirty
               /\ p.loaded = r.loaded /\ p.conflict = NoRow /\ p.base = r.base
               /\ p.informed = r.informed /\ p.loadPc = "idle"
               /\ p.loadAwaits = NoSession /\ p.got = Nothing
               /\ p.savePc = (IF r.savePc = "put" THEN "put" ELSE "idle")
               /\ p.put = r.put /\ p.reply = Nothing /\ p.errorKind = "none"
<1>0. /\ (IF r.savePc = "put" THEN "put" ELSE "idle") \in SavePcs
  BY DEF SavePcs
<1>1. Closed(r) \in Session
  BY <1>0, SessionShape, FieldValues DEF Closed
<1>2. LET p == Closed(r)
      IN  /\ ~p.open /\ p.content = r.content /\ p.dirty = r.dirty
          /\ p.loaded = r.loaded /\ p.conflict = NoRow /\ p.base = r.base
          /\ p.informed = r.informed /\ p.loadPc = "idle" /\ p.loadAwaits = NoSession
          /\ p.got = Nothing /\ p.savePc = (IF r.savePc = "put" THEN "put" ELSE "idle")
          /\ p.put = r.put /\ p.reply = Nothing /\ p.errorKind = "none"
  BY SessionShape DEF Closed
<1> QED
  BY <1>1, <1>2

-----------------------------------------------------------------------------
(***************************************************************************)
(* What the handlers do to the session                                     *)
(***************************************************************************)
Good(texts, w) == w \in Worlds /\ SessionInv(texts, w.me, w.r)

LEMMA AlikeKeeps ==
    ASSUME NEW texts, NEW s, NEW r, NEW p, SessionInv(texts, s, r), Alike(r, p)
    PROVE  SessionInv(texts, s, p)
BY DEF Alike, SessionInv, RequestInv, RowsInv, CleanInv, OpenInv, Judged, Loading, Saving

LEMMA GoodBackup ==
    ASSUME NEW texts, NEW w, Good(texts, w), NEW ok \in BOOLEAN
    PROVE  Good(texts, Backup(w, ok))
BY BackupWorld, AlikeKeeps DEF Good

\* acceptServer of a genuine row, when it does not move the base under a text
\* whose author has not seen it.
LEMMA GoodAccept ==
    ASSUME NEW texts, NEW w \in Worlds, RequestInv(texts, w.r),
           NEW saved \in Rows, Genuine(texts, saved),
           NEW replace \in BOOLEAN, NEW seen \in BOOLEAN, NEW ok \in BOOLEAN,
           ~replace /\ ~seen /\ w.r.content # saved.content => saved.revision = w.r.base
    PROVE  LET v == Accept(w, saved, replace, seen, ok)
           IN  /\ v \in Worlds /\ v.me = w.me /\ SameRequests(w.r, v.r) /\ v.r \in Session
               /\ v.r.content = IF replace THEN saved.content ELSE w.r.content
               /\ v.r.base = saved.revision /\ v.r.loaded /\ v.r.informed
               /\ v.r.errorKind = "none" /\ v.r.retryable /\ v.r.conflict = NoRow
               /\ v.r.dirty <=> v.r.content # saved.content
               /\ RequestInv(texts, v.r) /\ CleanInv(texts, v.r)
<1> DEFINE v == Accept(w, saved, replace, seen, ok)
<1>1. w.r.informed
  BY DEF RequestInv, RowsInv
<1>2. /\ v \in Worlds /\ v.me = w.me /\ SameRequests(w.r, v.r)
      /\ v.r.content = IF replace THEN saved.content ELSE w.r.content
      /\ v.r.dirty <=> v.r.content # saved.content
      /\ v.r.base = saved.revision /\ v.r.loaded /\ v.r.informed
      /\ v.r.errorKind = "none" /\ v.r.retryable /\ v.r.conflict = NoRow
  BY <1>1, AcceptWorld
<1>3. v.r \in Session
  BY <1>2, WorldFields
<1> HIDE DEF v
<1>4. CleanInv(texts, v.r)
  BY <1>2 DEF CleanInv, Genuine
<1>5. RequestInv(texts, v.r)
  BY <1>1, <1>2 DEF SameRequests, RequestInv, RowsInv, Saving
<1> QED
  BY <1>2, <1>3, <1>4, <1>5 DEF v

\* The session that results when none of its requests contradicts it.
LEMMA GoodAccepted ==
    ASSUME NEW texts, NEW w \in Worlds, RequestInv(texts, w.r),
           NEW saved \in Rows, Genuine(texts, saved), texts \in Seq(Texts),
           NEW replace \in BOOLEAN, NEW seen \in BOOLEAN, NEW ok \in BOOLEAN,
           ~replace /\ ~seen /\ w.r.content # saved.content => saved.revision = w.r.base,
           w.r.savePc # "reget", w.r.savePc # "regot", Saving(w.r) => ~Loading(w.r)
    PROVE  LET v == Accept(w, saved, replace, seen, ok)
           IN  Good(texts, v) /\ v.me = w.me /\ SameRequests(w.r, v.r)
<1> DEFINE v == Accept(w, saved, replace, seen, ok)
<1>1. /\ v \in Worlds /\ v.me = w.me /\ SameRequests(w.r, v.r) /\ v.r \in Session
      /\ v.r.base = saved.revision /\ v.r.loaded /\ v.r.informed
      /\ v.r.errorKind = "none" /\ v.r.retryable /\ v.r.conflict = NoRow
      /\ RequestInv(texts, v.r) /\ CleanInv(texts, v.r)
  BY GoodAccept
<1> HIDE DEF v
<1>2. saved.revision \in 0..Len(texts)
  <2>1. saved.revision \in Nat /\ Len(texts) \in Nat
    BY DEF Rows
  <2> QED
    BY <2>1 DEF Genuine
<1>3. OpenInv(texts, v.me, v.r)
  BY <1>1, <1>2 DEF SameRequests, OpenInv, Judged, Loading, Saving
<1> QED
  BY <1>1, <1>3 DEF Good, SessionInv, v

LEMMA GoodStartLoad ==
    ASSUME NEW texts, NEW w \in Worlds, RequestInv(texts, w.r), CleanInv(texts, w.r),
           Latest(w.me) \in Awaited,
           w.r.savePc \in {"idle", "reget", "regot"},
           Saving(w.r) => Latest(w.me) = w.me
    PROVE  /\ Good(texts, StartLoad(w)) /\ StartLoad(w).me = w.me
           /\ StartLoad(w).r.savePc = w.r.savePc /\ StartLoad(w).r.open = w.r.open
<1> DEFINE r == w.r
           l == Latest(w.me)
           p == LoadStarted(r, l)
<1>1. r \in Session /\ RequestInv(texts, r) /\ CleanInv(texts, r)
  BY WorldFields
<1>2. StartLoad(w) = [w EXCEPT !.r = p]
  BY DEF StartLoad, LoadStarted, Worlds
<1>l. /\ l \in Awaited /\ (Saving(r) => l = w.me) /\ r.savePc \in {"idle", "reget", "regot"}
  OBVIOUS
<1> HIDE DEF r, l
<1>3. /\ p \in Session /\ SameText(r, p) /\ SameSave(r, p)
      /\ p.loadPc = "wait" /\ p.loadAwaits = l /\ p.errorKind = "none"
  BY <1>1, <1>l, LoadStartedRecord
<1> HIDE DEF p
<1>4. SessionInv(texts, w.me, p)
  BY <1>1, <1>l, <1>3
     DEF SameText, SameSave, SessionInv, RequestInv, RowsInv, CleanInv, OpenInv, Judged,
         Loading, Saving
<1>5. StartLoad(w) \in Worlds /\ StartLoad(w).me = w.me /\ StartLoad(w).r = p
  BY <1>2, <1>3 DEF Worlds
<1> QED
  BY <1>3, <1>4, <1>5 DEF Good, SameText, SameSave, r

LEMMA GoodStartSave ==
    ASSUME NEW texts, NEW w, Good(texts, w), Latest(w.me) \in Awaited, w.r.open
    PROVE  /\ Good(texts, StartSave(w)) /\ StartSave(w).me = w.me
           /\ StartSave(w).r.open = w.r.open
<1> DEFINE r == w.r
           l == Latest(w.me)
           p == SaveStarted(r, l)
<1>1. r \in Session /\ SessionInv(texts, w.me, r) /\ w \in Worlds
  BY WorldFields DEF Good
<1>2. CASE CanSave(r)
  <2>1. StartSave(w) = [w EXCEPT !.r = p]
    BY <1>2 DEF StartSave, SaveStarted, Good, Worlds
  <2>0. r.open /\ l \in Awaited
    OBVIOUS
  <2> HIDE DEF r, l
  <2>2. /\ p \in Session /\ SameText(r, p) /\ SameLoad(r, p)
        /\ p.savePc = "wait" /\ p.errorKind = r.errorKind
    BY <1>1, <2>0, SaveStartedRecord
  <2> HIDE DEF p
  <2>3. SessionInv(texts, w.me, p)
    BY <1>1, <1>2, <2>0, <2>2
       DEF SameText, SameLoad, SessionInv, RequestInv, RowsInv, CleanInv, OpenInv,
           Judged, Loading, Saving, CanSave
  <2>4. StartSave(w) \in Worlds /\ StartSave(w).me = w.me /\ StartSave(w).r = p
    BY <1>1, <2>1, <2>2 DEF Worlds
  <2> QED
    BY <2>2, <2>3, <2>4 DEF Good, SameText, r
<1>3. CASE ~CanSave(r)
  BY <1>3 DEF StartSave
<1> QED
  BY <1>2, <1>3

\* The end of a save, in a state its session may rest in.
LEMMA GoodEndSave ==
    ASSUME NEW texts, NEW w \in Worlds, RowsInv(texts, w.r), CleanInv(texts, w.r), w.r.open,
           NEW kind \in Kinds, NEW retryable \in BOOLEAN,
           kind \in {"load", "conflict"} \/ Loading(w.r) \/
             (w.r.base \in 0..Len(texts) /\ w.r.conflict = NoRow)
    PROVE  LET v == EndSave(w, kind, retryable)
           IN  /\ Good(texts, v) /\ v.me = w.me /\ v.r.open /\ v.r.savePc = "idle"
<1> DEFINE r == w.r
           p == SaveEnded(r, kind, retryable)
           v == EndSave(w, kind, retryable)
<1>1. r \in Session
  BY WorldFields
<1>2. v = [w EXCEPT !.r = p]
  BY DEF EndSave, SaveEnded, Worlds
<1> HIDE DEF r, v
<1>3. /\ p \in Session /\ SameText(r, p) /\ SameLoad(r, p)
      /\ p.savePc = "idle" /\ p.errorKind = kind
  BY <1>1, SaveEndedRecord, Zenon
<1> HIDE DEF p
<1>4. RequestInv(texts, p)
  BY <1>3 DEF SameText, SameLoad, RequestInv, RowsInv, Saving, r
<1>5. OpenInv(texts, w.me, p)
  BY <1>3 DEF SameText, SameLoad, CleanInv, OpenInv, Judged, Loading, r
<1>6. v \in Worlds /\ v.me = w.me /\ v.r = p
  BY <1>2, <1>3 DEF Worlds
<1> QED
  BY <1>3, <1>4, <1>5, <1>6 DEF Good, SessionInv, SameText, r, v

LEMMA GoodSendPut ==
    ASSUME NEW texts, NEW w, Good(texts, w), w.r.open, Judged(w.r),
           w.r.base \in 0..Len(texts), w.r.conflict = NoRow
    PROVE  Good(texts, SendPut(w)) /\ SendPut(w).me = w.me /\ SendPut(w).r.open
<1> DEFINE r == w.r
           put == [content |-> r.content, base |-> r.base]
           p == PutSent(r, put)
<1>1. r \in Session /\ SessionInv(texts, w.me, r) /\ w \in Worlds
  BY WorldFields DEF Good
<1>2. SendPut(w) = [w EXCEPT !.r = p]
  BY <1>1 DEF SendPut, PutSent, Worlds
<1>3. put \in Puts /\ put.base \in 0..Len(texts)
  BY <1>1, SessionFields DEF Puts
<1>4. r.open /\ Judged(r) /\ r.base \in 0..Len(texts) /\ r.conflict = NoRow
  OBVIOUS
<1> HIDE DEF r, put
<1>5. /\ p \in Session /\ SameText(r, p) /\ SameLoad(r, p)
      /\ p.savePc = "put" /\ p.put = put /\ p.errorKind = "none"
  BY <1>1, <1>3, PutSentRecord
<1> HIDE DEF p
<1>6. SessionInv(texts, w.me, p)
  BY <1>1, <1>3, <1>4, <1>5
     DEF SameText, SameLoad, SessionInv, RequestInv, RowsInv, CleanInv, OpenInv, Judged, Loading, Saving
<1>7. SendPut(w) \in Worlds /\ SendPut(w).me = w.me /\ SendPut(w).r = p
  BY <1>1, <1>2, <1>5 DEF Worlds
<1> QED
  BY <1>4, <1>5, <1>6, <1>7 DEF Good, SameText

LEMMA GoodDrain ==
    ASSUME NEW texts, NEW w, Good(texts, w), w.r.open, w.r.savePc \in {"wait", "replied"}
    PROVE  /\ Good(texts, Drain(w)) /\ Drain(w).me = w.me /\ Drain(w).r.open
<1> DEFINE r == w.r
<1>1. r \in Session /\ SessionInv(texts, w.me, r) /\ w \in Worlds
  BY WorldFields DEF Good
<1>2. /\ Judged(r) /\ r.base \in 0..Len(texts) /\ r.conflict = NoRow /\ RowsInv(texts, r)
      /\ CleanInv(texts, r)
  BY <1>1 DEF SessionInv, RequestInv, OpenInv
<1>3. r.errorKind \in Kinds /\ r.retryable \in BOOLEAN /\ "save" \in Kinds
  BY <1>1, SessionFields DEF Kinds
<1>4. ASSUME NEW kind \in Kinds, NEW retryable \in BOOLEAN
      PROVE  LET v == EndSave(w, kind, retryable)
             IN  Good(texts, v) /\ v.me = w.me /\ v.r.open
  BY <1>1, <1>2, GoodEndSave, Zenon
<1>5. Good(texts, SendPut(w)) /\ SendPut(w).me = w.me /\ SendPut(w).r.open
  BY <1>2, GoodSendPut
<1>6. CASE ~w.r.dirty
  <2>1. Drain(w) = EndSave(w, w.r.errorKind, w.r.retryable)
    BY <1>6 DEF Drain
  <2>2. LET v == EndSave(w, w.r.errorKind, w.r.retryable)
        IN  Good(texts, v) /\ v.me = w.me /\ v.r.open
    BY <1>3, <1>4, Zenon
  <2> QED
    BY <2>1, <2>2
<1>7. CASE w.r.dirty
  <2>1. \/ Drain(w) = EndSave(w, "save", FALSE) \/ Drain(w) = EndSave(w, "save", TRUE)
        \/ Drain(w) = SendPut(w)
    BY <1>7 DEF Drain
  <2>2. FALSE \in BOOLEAN /\ TRUE \in BOOLEAN
    OBVIOUS
  <2>3. LET v == EndSave(w, "save", FALSE)
        IN  Good(texts, v) /\ v.me = w.me /\ v.r.open
    BY <1>3, <1>4, <2>2, Zenon
  <2>4. LET v == EndSave(w, "save", TRUE)
        IN  Good(texts, v) /\ v.me = w.me /\ v.r.open
    BY <1>3, <1>4, <2>2, Zenon
  <2> QED
    BY <1>5, <2>1, <2>3, <2>4
<1> QED
  BY <1>6, <1>7

LEMMA GoodReconnect ==
    ASSUME NEW texts, NEW w, Good(texts, w), Latest(w.me) \in Awaited, w.r.open
    PROVE  /\ Good(texts, Reconnect(w)) /\ Reconnect(w).me = w.me
           /\ Reconnect(w).r.open = w.r.open
<1>1. w \in Worlds /\ RequestInv(texts, w.r) /\ CleanInv(texts, w.r)
  BY DEF Good, SessionInv, OpenInv
<1>2. CASE Reconnect(w) = w
  BY <1>2
<1>3. CASE ~Saving(w.r) /\ Reconnect(w) = StartLoad(w)
  BY <1>1, <1>3, GoodStartLoad DEF Saving
<1>4. CASE Reconnect(w) = StartSave(w)
  BY <1>4, GoodStartSave
<1> QED
  BY <1>2, <1>3, <1>4 DEF Reconnect

-----------------------------------------------------------------------------
(***************************************************************************)
(* What a step of one session leaves of the others                         *)
(***************************************************************************)
LEMMA SessionKept ==
    ASSUME NEW texts \in Seq(Texts), NEW text \in Texts, NEW s, NEW r, SessionInv(texts, s, r)
    PROVE  SessionInv(Append(texts, text), s, r)
<1> DEFINE longer == Append(texts, text)
<1>1. /\ Len(texts) \in Nat /\ Len(longer) = Len(texts) + 1
      /\ \A n \in 1..Len(texts) : longer[n] = texts[n]
  OBVIOUS
<1> HIDE DEF longer
<1>2. ASSUME NEW x, Genuine(texts, x) PROVE Genuine(longer, x)
  BY <1>1, <1>2 DEF Genuine
<1>3. \A b : b \in 0..Len(texts) => b \in 0..Len(longer)
  BY <1>1
<1>4. RequestInv(longer, r)
  BY <1>2, <1>3 DEF SessionInv, RequestInv, RowsInv
<1>5. ASSUME r.open PROVE OpenInv(longer, s, r)
  BY <1>2, <1>3, <1>5 DEF SessionInv, OpenInv, CleanInv
<1> QED
  BY <1>4, <1>5 DEF SessionInv, longer

LEMMA GoodWorld ==
    ASSUME Core, NEW s \in Sessions, sess[s] # NoSession
    PROVE  /\ Good(storedTexts, World(s)) /\ World(s).me = s /\ World(s).r = sess[s]
           /\ TabOf(s) \in Tabs /\ Latest(s) \in Awaited
           /\ sess[s] \in Session /\ SessionInv(storedTexts, s, sess[s])
<1>1. TabOf(s) \in Tabs
  BY DEF Sessions, TabOf
<1>2. sess[s] \in Session /\ SessionInv(storedTexts, s, sess[s])
  BY DEF Core, Typed, SessionsInv
<1>3. Latest(s) \in Awaited
  BY <1>1 DEF Core, Typed, Latest, Awaited
<1>4. memory[TabOf(s)] \in Drafts \cup {NoDraft} /\ disk \in [Sessions -> Drafts \cup {NoDraft}]
  BY <1>1 DEF Core, Typed
<1>5. World(s) \in Worlds /\ World(s).me = s /\ World(s).r = sess[s]
  BY <1>2, <1>4 DEF World, Worlds
<1> QED
  BY <1>1, <1>2, <1>3, <1>5 DEF Good

\* What the step of a session does to the bookkeeping of saves.
SavesTracked(w) ==
    \/ TrackSave(w)
    \/ saves' = saves /\ (Saving(w.r) <=> Saving(sess[w.me]))

LEMMA PublishKeeps ==
    ASSUME Core, NEW w, Good(storedTexts', w), sess[w.me] # NoSession, Publish(w),
           server' \in Rows, ServerInv',
           \/ storedTexts' = storedTexts
           \/ \E text \in Texts : storedTexts' = Append(storedTexts, text),
           w.r.open = sess[w.me].open,
           SavesTracked(w),
           active' \in {active, [active EXCEPT ![TabOf(w.me)] = NoSession]},
           Saving(w.r) /\ ~Saving(sess[w.me]) => active[TabOf(w.me)] = w.me,
           online' \in BOOLEAN, event' \in [Tabs -> BOOLEAN], taken' \subseteq Drafts,
           edits' \in 0..MaxEdits, faults' \in 0..MaxFaults
    PROVE  Core'
<1> DEFINE me == w.me
           r == w.r
           tab == TabOf(me)
<1>1. /\ me \in Sessions /\ r \in Session /\ tab \in Tabs
      /\ w.disk \in [Sessions -> Drafts \cup {NoDraft}] /\ w.memory \in Drafts \cup {NoDraft}
      /\ SessionInv(storedTexts', me, r)
  BY WorldFields DEF Good, Sessions, TabOf
<1>2. DOMAIN sess = Sessions /\ sess' = [sess EXCEPT ![me] = r]
  BY DEF Core, Typed, Publish
<1>3. sess'[me] = r /\ \A s \in Sessions : s # me => sess'[s] = sess[s]
  BY <1>1, <1>2
<1>4. r # NoSession
  BY <1>1, NoSessionAssumption
<1>5. storedTexts' \in Seq(Texts) /\ storedTexts \in Seq(Texts)
  <2>1. storedTexts \in Seq(Texts)
    BY DEF Core, Typed
  <2>2. \A text \in Texts : Append(storedTexts, text) \in Seq(Texts)
    BY <2>1
  <2> QED
    BY <2>1, <2>2
<1>6. saves \in [Tabs -> Awaited] /\ saves' \in [Tabs -> Awaited]
  <2>1. saves \in [Tabs -> Awaited]
    BY DEF Core, Typed, Awaited
  <2>2. CASE TrackSave(w)
    <3>1. \E x : saves' = [saves EXCEPT ![tab] = x] /\ x \in {me, NoSession, saves[tab]}
      BY <2>2 DEF TrackSave
    <3> QED
      BY <1>1, <2>1, <3>1 DEF Awaited
  <2> QED
    BY <2>1, <2>2 DEF SavesTracked
<1>7. active \in [Tabs -> Awaited] /\ active' \in [Tabs -> Awaited]
  BY <1>1 DEF Core, Typed, Awaited
<1>8. Typed'
  <2>1. DOMAIN sess' = Sessions
    BY <1>2
  <2>2. \A s \in Sessions : sess'[s] = NoSession \/ sess'[s] \in Session
    BY <1>1, <1>3 DEF Core, Typed
  <2>3. /\ disk' \in [Sessions -> Drafts \cup {NoDraft}]
        /\ memory' \in [Tabs -> Drafts \cup {NoDraft}]
    BY <1>1 DEF Core, Typed, Publish
  <2> QED
    BY <1>5, <1>6, <1>7, <2>1, <2>2, <2>3 DEF Typed, Awaited
<1>9. SessionsInv'
  <2> SUFFICES ASSUME NEW s \in Sessions, sess'[s] # NoSession
               PROVE  SessionInv(storedTexts', s, sess'[s])
    BY DEF SessionsInv
  <2>1. CASE s = me
    BY <1>1, <1>3, <2>1
  <2>2. CASE s # me
    <3>1. SessionInv(storedTexts, s, sess'[s])
      BY <1>3, <2>2 DEF Core, SessionsInv
    <3>2. CASE storedTexts' = storedTexts
      BY <3>1, <3>2
    <3>3. ASSUME NEW text \in Texts, storedTexts' = Append(storedTexts, text)
          PROVE  SessionInv(storedTexts', s, sess'[s])
      <4>1. SessionInv(Append(storedTexts, text), s, sess'[s])
        BY <1>5, <3>1, SessionKept
      <4> QED
        BY <3>3, <4>1
    <3> QED
      BY <3>2, <3>3
  <2> QED
    BY <2>1, <2>2
<1>10. TabInv'
  <2> SUFFICES ASSUME NEW t \in Tabs, active'[t] # NoSession
               PROVE  /\ TabOf(active'[t]) = t /\ sess'[active'[t]] # NoSession
                      /\ sess'[active'[t]].open
                      /\ Saving(sess'[active'[t]]) => saves'[t] = active'[t]
    BY DEF TabInv
  <2> DEFINE a == active[t]
  <2>1. active'[t] = a /\ a \in Sessions
    BY <1>1, <1>7 DEF Awaited
  <2>2. /\ TabOf(a) = t /\ sess[a] # NoSession /\ sess[a].open
        /\ Saving(sess[a]) => saves[t] = a
    BY <2>1 DEF Core, TabInv
  <2>3. ASSUME a = me, Saving(r) PROVE saves'[t] = a
    <3>1. CASE TrackSave(w)
      <4>1. CASE Saving(sess[me])
        BY <1>1, <1>6, <2>2, <2>3, <3>1, <4>1 DEF TrackSave
      <4>2. CASE ~Saving(sess[me])
        BY <1>1, <1>6, <2>2, <2>3, <3>1, <4>2 DEF TrackSave
      <4> QED
        BY <4>1, <4>2
    <3> QED
      BY <2>2, <2>3, <3>1 DEF SavesTracked
  <2>4. ASSUME a # me, Saving(sess[a]) PROVE saves'[t] = a
    <3>1. saves[t] = a
      BY <2>2, <2>4
    <3>2. CASE TrackSave(w)
      <4>1. CASE t # tab
        BY <1>1, <1>6, <3>1, <3>2, <4>1 DEF TrackSave
      <4>2. CASE t = tab
        <5>1. ~(Saving(r) /\ ~Saving(sess[me]))
          BY <2>4, <4>2
        <5> QED
          BY <1>1, <1>6, <2>4, <3>1, <3>2, <4>2, <5>1 DEF TrackSave
      <4> QED
        BY <4>1, <4>2
    <3> QED
      BY <3>1, <3>2 DEF SavesTracked
  <2>5. CASE a = me
    BY <1>3, <1>4, <2>1, <2>2, <2>3, <2>5
  <2>6. CASE a # me
    BY <1>3, <2>1, <2>2, <2>4, <2>6
  <2> QED
    BY <2>5, <2>6
<1> QED
  BY <1>8, <1>9, <1>10 DEF Core

\* A handler of the tab t that works on its session.
LEMMA ActiveKeeps ==
    ASSUME Core, NEW t \in Tabs, active[t] # NoSession,
           NEW w, Good(storedTexts, w), w.me = active[t], w.r.open,
           Publish(w), SavesTracked(w),
           active' \in {active, [active EXCEPT ![t] = NoSession]},
           UNCHANGED <<server, storedTexts, online, faults>>,
           event' \in [Tabs -> BOOLEAN], taken' \subseteq Drafts, edits' \in 0..MaxEdits
    PROVE  Core'
<1>1. active[t] \in Sessions /\ TabOf(w.me) = t /\ sess[w.me] # NoSession /\ sess[w.me].open
  BY DEF Core, TabInv, Typed
<1>2. Good(storedTexts', w) /\ storedTexts' = storedTexts
  OBVIOUS
<1>3. server' \in Rows /\ ServerInv' /\ online' \in BOOLEAN /\ faults' \in 0..MaxFaults
  BY DEF Core, Typed, ServerInv
<1>4. w.r.open = sess[w.me].open
  <2>1. sess[w.me] \in Session /\ w.r \in Session
    BY <1>1, GoodWorld, WorldFields DEF Good
  <2> QED
    BY <1>1, <2>1, SessionFields
<1>5. active' \in {active, [active EXCEPT ![TabOf(w.me)] = NoSession]}
  BY <1>1
<1> QED
  BY <1>1, <1>2, <1>3, <1>4, <1>5, PublishKeeps

\* A step of the requests of a session.
LEMMA InnerKeeps ==
    ASSUME Core, NEW w, Good(storedTexts', w), sess[w.me] # NoSession, Inner(w),
           server' \in Rows, ServerInv', faults' \in 0..MaxFaults,
           \/ storedTexts' = storedTexts
           \/ \E text \in Texts : storedTexts' = Append(storedTexts, text),
           w.r.open = sess[w.me].open, Saving(w.r) => Saving(sess[w.me])
    PROVE  Core'
<1>1. /\ Publish(w) /\ SavesTracked(w) /\ active' \in {active}
      /\ online' = online /\ event' = event /\ taken' = taken /\ edits' = edits
  BY DEF Inner, SavesTracked
<1>2. /\ online' \in BOOLEAN /\ event' \in [Tabs -> BOOLEAN] /\ taken' \subseteq Drafts
      /\ edits' \in 0..MaxEdits
  BY <1>1 DEF Core, Typed
<1> QED
  BY <1>1, <1>2, PublishKeeps

-----------------------------------------------------------------------------
(***************************************************************************)
(* The steps of the user                                                   *)
(***************************************************************************)
LEMMA NewSessionRecord ==
    ASSUME NEW texts, NEW content \in Texts, NEW dirty \in BOOLEAN, NEW restored \in OwnDrafts,
           NEW recovery \in DraftSets
    PROVE  LET r == NewSession(content, dirty, restored, recovery)
           IN  /\ r \in Session /\ RequestInv(texts, r) /\ CleanInv(texts, r)
               /\ r.open /\ r.savePc = "idle"
<1> DEFINE base == IF restored = NoDraft THEN NoRevision ELSE restored.base
           r == NewSession(content, dirty, restored, recovery)
<1>1. base \in Bases /\ dirty \in Flags
  BY DEF OwnDrafts, Drafts, Bases, Flags
<1>2. r = [open |-> TRUE, content |-> content, dirty |-> dirty, loaded |-> FALSE,
     errorKind |-> "none", retryable |-> TRUE, conflict |-> NoRow, base |-> base,
     own |-> NoDraft, restored |-> restored, recovery |-> recovery,
     backups |-> 0, loadPc |-> "idle", loadAwaits |-> NoSession,
     got |-> Nothing, savePc |-> "idle", saveAwaits |-> NoSession,
     put |-> Nothing, reply |-> Nothing,
     typed |-> Nothing, informed |-> TRUE]
  BY DEF NewSession
<1> HIDE DEF base, r
<1>3. r \in Session
  BY <1>1, <1>2, SessionShape, FieldValues
<1>4. /\ r.open /\ r.savePc = "idle" /\ r.loadPc = "idle" /\ r.conflict = NoRow /\ r.informed
      /\ ~r.loaded
  BY <1>2
<1> QED
  BY <1>3, <1>4 DEF RequestInv, RowsInv, CleanInv, Saving, r

\* A non-empty set of numbers has a least element.
LEMMA LeastNumber ==
    ASSUME NEW S \in SUBSET Nat, S # {}
    PROVE  \E n \in S : \A m \in S : n <= m
<1>1. PICK x \in S : \A y \in S : <<y, x>> \notin OpToRel(<, Nat)
  BY WFMin, NatLessThanWellFounded
<1>2. ASSUME NEW y \in S PROVE x <= y
  <2>1. x \in Nat /\ y \in Nat
    OBVIOUS
  <2>2. <<y, x>> \in Nat \X Nat /\ <<y, x>>[1] = y /\ <<y, x>>[2] = x
    BY <2>1
  <2>3. y < x => <<y, x>> \in OpToRel(<, Nat)
    BY <2>2, Zenon DEF OpToRel
  <2>4. ~(y < x)
    BY <1>1, <2>3
  <2> QED
    BY <2>1, <2>4
<1> QED
  BY <1>2

LEMMA EnterKeeps ==
    ASSUME Core, NEW t \in Tabs, Enter(t)
    PROVE  Core'
<1> DEFINE n == CHOOSE n \in Unused(t) : \A m \in Unused(t) : n <= m
           s == <<t, n>>
<1>1. n \in 1..MaxSessions /\ sess[s] = NoSession
  <2>1. Unused(t) \subseteq 1..MaxSessions /\ Unused(t) # {} /\ MaxSessions \in Nat
    BY ParameterAssumption DEF Enter, Unused
  <2>2. \E k \in Unused(t) : \A m \in Unused(t) : k <= m
    BY <2>1, LeastNumber
  <2>3. n \in Unused(t)
    BY <2>2
  <2> QED
    BY <2>1, <2>3 DEF Unused
<1> HIDE DEF n
<1>2. s \in Sessions /\ TabOf(s) = t
  BY <1>1 DEF Sessions, TabOf
<1> HIDE DEF s
<1>3. PICK draft : 
        /\ draft \in (IF memory[t] # NoDraft THEN {memory[t]}
                      ELSE IF Files # {} THEN Files ELSE {NoDraft})
        /\ LET fresh == IF draft = NoDraft
                        THEN NewSession(EmptyText, FALSE, NoDraft, {})
                        ELSE NewSession(draft.content, TRUE, draft, Files \ {draft})
               w == [me |-> s, r |-> fresh]
           IN  /\ sess' = [sess EXCEPT ![s] = StartLoad(w).r]
               /\ active' = [active EXCEPT ![t] = s]
  BY DEF Enter, s, n
<1> DEFINE fresh == IF draft = NoDraft
                    THEN NewSession(EmptyText, FALSE, NoDraft, {})
                    ELSE NewSession(draft.content, TRUE, draft, Files \ {draft})
           l == Latest(s)
           p == LoadStarted(fresh, l)
<1>4. /\ UNCHANGED <<server, storedTexts, saves, disk, memory, online, event, taken, edits, faults>>
      /\ active[t] = NoSession
  BY DEF Enter
<1>5. Files \subseteq Drafts /\ draft \in OwnDrafts
  <2>1. Files \subseteq Drafts /\ memory[t] \in OwnDrafts
    BY DEF Core, Typed, Files, OwnDrafts
  <2> QED
    BY <1>3, <2>1 DEF OwnDrafts
<1>6. /\ fresh \in Session /\ RequestInv(storedTexts, fresh) /\ CleanInv(storedTexts, fresh)
      /\ fresh.open /\ fresh.savePc = "idle"
  <2>1. CASE draft = NoDraft
    <3>1. EmptyText \in Texts /\ NoDraft \in OwnDrafts /\ {} \in DraftSets
      BY ParameterAssumption, FieldValues
    <3> QED
      BY <2>1, <3>1, NewSessionRecord, Zenon
  <2>2. CASE draft # NoDraft
    <3>1. draft.content \in Texts /\ (Files \ {draft}) \in DraftSets
      BY <1>5, <2>2 DEF OwnDrafts, Drafts, DraftSets
    <3> QED
      BY <1>5, <2>2, <3>1, NewSessionRecord, Zenon
  <2> QED
    BY <2>1, <2>2
<1>7. l \in Awaited
  BY <1>2 DEF Core, Typed, Latest, Awaited
<1>8. StartLoad([me |-> s, r |-> fresh]).r = p
  BY DEF StartLoad, LoadStarted
<1> HIDE DEF fresh, l
<1>9. /\ p \in Session /\ SameText(fresh, p) /\ SameSave(fresh, p)
      /\ p.loadPc = "wait" /\ p.loadAwaits = l /\ p.errorKind = "none"
  BY <1>6, <1>7, LoadStartedRecord
<1> HIDE DEF p
<1>10. SessionInv(storedTexts, s, p) /\ p.open /\ ~Saving(p)
  BY <1>6, <1>9
     DEF SameText, SameSave, SessionInv, RequestInv, RowsInv, CleanInv, OpenInv, Judged,
         Loading, Saving
<1>11. sess' = [sess EXCEPT ![s] = p] /\ active' = [active EXCEPT ![t] = s]
  BY <1>3, <1>8 DEF fresh
<1>12. DOMAIN sess = Sessions /\ sess'[s] = p /\ \A x \in Sessions : x # s => sess'[x] = sess[x]
  BY <1>2, <1>11 DEF Core, Typed
<1>13. Typed'
  <2>1. \A x \in Sessions : sess'[x] = NoSession \/ sess'[x] \in Session
    BY <1>9, <1>12 DEF Core, Typed
  <2>2. active' \in [Tabs -> Sessions \cup {NoSession}] /\ DOMAIN sess' = Sessions
    BY <1>2, <1>11, <1>12 DEF Core, Typed
  <2> QED
    BY <1>4, <2>1, <2>2 DEF Core, Typed
<1>14. TabInv'
  <2> SUFFICES ASSUME NEW u \in Tabs, active'[u] # NoSession
               PROVE  /\ TabOf(active'[u]) = u /\ sess'[active'[u]] # NoSession
                      /\ sess'[active'[u]].open
                      /\ Saving(sess'[active'[u]]) => saves'[u] = active'[u]
    BY DEF TabInv
  <2>1. active \in [Tabs -> Sessions \cup {NoSession}]
    BY DEF Core, Typed
  <2>2. CASE u = t
    <3>1. active'[u] = s
      BY <1>11, <2>1, <2>2
    <3> QED
      BY <1>2, <1>9, <1>10, <1>12, <2>2, <3>1, NoSessionAssumption
  <2>3. CASE u # t
    <3>1. active'[u] = active[u] /\ active[u] \in Sessions
      BY <1>11, <2>1, <2>3
    <3>2. TabOf(active[u]) = u
      BY <3>1 DEF Core, TabInv
    <3>3. sess'[active[u]] = sess[active[u]]
      BY <1>2, <1>12, <2>3, <3>1, <3>2
    <3> QED
      BY <1>4, <3>1, <3>3 DEF Core, TabInv
  <2> QED
    BY <2>2, <2>3
<1>15. SessionsInv'
  BY <1>4, <1>10, <1>12 DEF Core, SessionsInv
<1> QED
  BY <1>4, <1>13, <1>14, <1>15 DEF Core, ServerInv

\* The session a tab shows, as its handlers find it.
LEMMA ActiveSession ==
    ASSUME Core, NEW t \in Tabs, active[t] # NoSession
    PROVE  /\ active[t] \in Sessions /\ sess[active[t]] # NoSession /\ sess[active[t]].open
           /\ sess[active[t]] \in Session /\ TabOf(active[t]) = t
           /\ SessionInv(storedTexts, active[t], sess[active[t]])
           /\ OpenInv(storedTexts, active[t], sess[active[t]])
           /\ Good(storedTexts, World(active[t])) /\ World(active[t]).me = active[t]
           /\ World(active[t]).r = sess[active[t]] /\ World(active[t]) \in Worlds
           /\ Latest(active[t]) \in Awaited
           /\ Saving(sess[active[t]]) => Latest(active[t]) = active[t]
<1>1. /\ active[t] \in Sessions /\ sess[active[t]] # NoSession /\ sess[active[t]].open
      /\ TabOf(active[t]) = t /\ (Saving(sess[active[t]]) => saves[t] = active[t])
  BY DEF Core, TabInv, Typed
<1> QED
  BY <1>1, GoodWorld DEF Good, SessionInv, Latest

LEMMA StartSaveKeeps ==
    ASSUME Core, NEW t \in Tabs, OnActive(t, StartSave),
           active' \in {active, [active EXCEPT ![t] = NoSession]},
           event' \in [Tabs -> BOOLEAN], taken' \subseteq Drafts, edits' \in 0..MaxEdits
    PROVE  Core'
<1> DEFINE w == StartSave(World(active[t]))
<1>1. /\ active[t] # NoSession /\ Publish(w) /\ TrackSave(w)
      /\ UNCHANGED <<server, storedTexts, online, faults>>
  BY DEF OnActive
<1>2. Good(storedTexts, w) /\ w.me = active[t] /\ w.r.open
  BY <1>1, ActiveSession, GoodStartSave
<1> HIDE DEF w
<1> QED
  BY <1>1, <1>2, ActiveKeeps DEF SavesTracked

LEMMA ReconnectKeeps ==
    ASSUME Core, NEW t \in Tabs, OnActive(t, Reconnect), active' = active,
           event' \in [Tabs -> BOOLEAN], taken' \subseteq Drafts, edits' \in 0..MaxEdits
    PROVE  Core'
<1> DEFINE w == Reconnect(World(active[t]))
<1>1. /\ active[t] # NoSession /\ Publish(w) /\ TrackSave(w)
      /\ UNCHANGED <<server, storedTexts, online, faults>>
  BY DEF OnActive
<1>2. Good(storedTexts, w) /\ w.me = active[t] /\ w.r.open
  BY <1>1, ActiveSession, GoodReconnect
<1> HIDE DEF w
<1> QED
  BY <1>1, <1>2, ActiveKeeps DEF SavesTracked

LEMMA OtherTyped ==
    ASSUME Core
    PROVE  /\ event \in [Tabs -> BOOLEAN] /\ taken \subseteq Drafts /\ edits \in 0..MaxEdits
           /\ \A t \in Tabs : [event EXCEPT ![t] = FALSE] \in [Tabs -> BOOLEAN]
BY DEF Core, Typed

LEMMA LeaveKeeps ==
    ASSUME Core, NEW t \in Tabs, Leave(t)
    PROVE  Core'
BY OtherTyped, StartSaveKeeps DEF Leave

LEMMA SaveNowKeeps ==
    ASSUME Core, NEW t \in Tabs, SaveNow(t)
    PROVE  Core'
BY OtherTyped, StartSaveKeeps DEF SaveNow

LEMMA AutoSaveKeeps ==
    ASSUME Core, NEW t \in Tabs, AutoSave(t)
    PROVE  Core'
BY OtherTyped, StartSaveKeeps DEF AutoSave

LEMMA FocusKeeps ==
    ASSUME Core, NEW t \in Tabs, Focus(t)
    PROVE  Core'
BY OtherTyped, ReconnectKeeps DEF Focus

LEMMA QuietKeeps ==
    ASSUME Core,
           UNCHANGED <<server, storedTexts, sess, active, saves, disk, memory, taken, edits>>,
           event' \in [Tabs -> BOOLEAN], online' \in BOOLEAN, faults' \in 0..MaxFaults
    PROVE  Core'
BY DEF Core, Typed, ServerInv, TabInv, SessionsInv

LEMMA OnlineEventKeeps ==
    ASSUME Core, NEW t \in Tabs, OnlineEvent(t)
    PROVE  Core'
<1>1. /\ active' = active /\ taken' = taken /\ edits' = edits
      /\ event' \in [Tabs -> BOOLEAN]
  BY OtherTyped DEF OnlineEvent
<1>2. CASE active[t] = NoSession
  BY <1>1, <1>2, QuietKeeps DEF OnlineEvent, Core, Typed
<1>3. CASE active[t] # NoSession
  <2>1. OnActive(t, Reconnect)
    BY <1>3 DEF OnlineEvent
  <2> QED
    BY <1>1, <2>1, OtherTyped, ReconnectKeeps
<1> QED
  BY <1>2, <1>3

LEMMA ReloadKeeps ==
    ASSUME Core, NEW t \in Tabs, Reload(t)
    PROVE  Core'
<1> DEFINE w == StartLoad(World(active[t]))
           r == sess[active[t]]
<1>1. /\ active[t] # NoSession /\ Publish(w) /\ TrackSave(w) /\ active' = active
      /\ UNCHANGED <<server, storedTexts, online, faults, event, taken, edits>>
      /\ r.errorKind \in {"load", "conflict"}
  BY DEF Reload, OnActive
<1>2. /\ r \in Session /\ RequestInv(storedTexts, r) /\ OpenInv(storedTexts, active[t], r)
      /\ CleanInv(storedTexts, r)
      /\ World(active[t]) \in Worlds /\ World(active[t]).me = active[t] /\ World(active[t]).r = r
      /\ Latest(active[t]) \in Awaited /\ (Saving(r) => Latest(active[t]) = active[t]) /\ r.open
  BY <1>1, ActiveSession DEF SessionInv, OpenInv
<1>3. r.savePc \in {"idle", "reget", "regot"}
  BY <1>1, <1>2, SessionFields DEF OpenInv, Judged
<1>4. Good(storedTexts, w) /\ w.me = active[t] /\ w.r.open
  <2> HIDE DEF r
  <2> QED
    BY <1>2, <1>3, GoodStartLoad
<1> HIDE DEF w
<1> QED
  BY <1>1, <1>4, OtherTyped, ActiveKeeps DEF SavesTracked

LEMMA SetContentKeeps ==
    ASSUME Core, NEW t \in Tabs, SetContent(t)
    PROVE  Core'
<1>1. active[t] # NoSession /\ edits' = edits + 1 /\ edits < MaxEdits
  BY DEF SetContent
<1> DEFINE s == active[t]
           r == sess[s]
<1>2. /\ s \in Sessions /\ r \in Session /\ SessionInv(storedTexts, s, r) /\ r.open
      /\ World(s) \in Worlds /\ World(s).me = s /\ World(s).r = r
  BY <1>1, ActiveSession
<1>3. PICK text \in Texts, ok \in StorageOutcomes :
        LET x == [World(s) EXCEPT !.r.content = text, !.r.dirty = TRUE, !.r.typed = text,
                    !.r.errorKind = IF World(s).r.errorKind = "save" THEN "none" ELSE @,
                    !.r.retryable = World(s).r.errorKind = "save" \/ @]
            w == Backup(x, ok)
        IN  Publish(w) /\ TrackSave(w) /\ UNCHANGED <<server, storedTexts, online, faults>>
  BY DEF SetContent, OnActive
<1> DEFINE p == Edited(r, text)
           x == [World(s) EXCEPT !.r = p]
           w == Backup(x, ok)
<1>4. ok \in BOOLEAN
  BY DEF StorageOutcomes
<1>5. Publish(w) /\ TrackSave(w) /\ UNCHANGED <<server, storedTexts, online, faults>>
  <2>1. x = [World(s) EXCEPT !.r.content = text, !.r.dirty = TRUE, !.r.typed = text,
                    !.r.errorKind = IF World(s).r.errorKind = "save" THEN "none" ELSE @,
                    !.r.retryable = World(s).r.errorKind = "save" \/ @]
    BY <1>2 DEF Edited, Worlds
  <2> QED
    BY <1>3, <2>1
<1>6. /\ active' = active /\ event' = event /\ taken' \subseteq Drafts
      /\ edits' \in 0..MaxEdits
  <2>1. taken' = taken \cup ({r.restored} \ {NoDraft})
    BY DEF SetContent, MoveOn
  <2>2. r.restored \in Drafts \cup {NoDraft}
    BY <1>2, SessionFields
  <2>3. edits \in Nat /\ MaxEdits \in Nat
    BY OtherTyped, ParameterAssumption
  <2> QED
    BY <1>1, <2>1, <2>2, <2>3, OtherTyped DEF SetContent
<1> HIDE DEF s, r
<1>7. /\ p \in Session /\ SameLoad(r, p) /\ SameSave(r, p)
      /\ p.open = r.open /\ p.content = text /\ p.dirty /\ p.loaded = r.loaded
      /\ p.conflict = r.conflict /\ p.base = r.base /\ p.informed = r.informed
      /\ p.errorKind = (IF r.errorKind = "save" THEN "none" ELSE r.errorKind)
  BY <1>2, EditedRecord
<1> HIDE DEF p
<1>8. SessionInv(storedTexts, s, p) /\ p.open
  BY <1>2, <1>7
     DEF SameLoad, SameSave, SessionInv, RequestInv, RowsInv, CleanInv, OpenInv, Judged,
         Loading, Saving
<1>9. Good(storedTexts, x) /\ x.me = s /\ x.r = p
  BY <1>2, <1>7, <1>8 DEF Good, Worlds
<1> HIDE DEF x
<1>10. Good(storedTexts, w) /\ w.me = s /\ w.r.open
  BY <1>4, <1>8, <1>9, GoodBackup, BackupWorld DEF Good, Alike
<1> HIDE DEF w
<1> QED
  BY <1>1, <1>5, <1>6, <1>10, OtherTyped, ActiveKeeps DEF SavesTracked, s

LEMMA ResolveKeeps ==
    ASSUME Core, NEW t \in Tabs, Resolve(t)
    PROVE  Core'
<1> DEFINE s == active[t]
           r == sess[s]
           saved == r.conflict
<1>1. active[t] # NoSession /\ saved # NoRow
  BY DEF Resolve
<1>2. /\ s \in Sessions /\ r \in Session /\ SessionInv(storedTexts, s, r) /\ r.open
      /\ World(s) \in Worlds /\ World(s).me = s /\ World(s).r = r
      /\ Latest(s) \in Awaited
  BY <1>1, ActiveSession
<1>3. PICK local \in BOOLEAN, ok \in StorageOutcomes :
        LET chosen == Accept(World(s), World(s).r.conflict, ~local, TRUE, ok)
            w == IF local THEN StartSave(chosen) ELSE [chosen EXCEPT !.r.typed = Nothing]
        IN  /\ Publish(w) /\ TrackSave(w) /\ UNCHANGED <<server, storedTexts, online, faults>>
            /\ IF local THEN UNCHANGED taken ELSE MoveOn(s)
  BY DEF Resolve, OnActive
<1> DEFINE chosen == Accept(World(s), saved, ~local, TRUE, ok)
           w == IF local THEN StartSave(chosen) ELSE [chosen EXCEPT !.r.typed = Nothing]
<1>4. ok \in BOOLEAN
  BY DEF StorageOutcomes
<1>5. Publish(w) /\ TrackSave(w) /\ UNCHANGED <<server, storedTexts, online, faults>>
  BY <1>2, <1>3
<1>6. active' = active /\ event' = event /\ edits' = edits /\ taken' \subseteq Drafts
  <2>1. active' = active /\ event' = event /\ edits' = edits
    BY DEF Resolve
  <2>2. taken' = taken \/ taken' = taken \cup ({r.restored} \ {NoDraft})
    BY <1>3 DEF MoveOn
  <2>3. r.restored \in Drafts \cup {NoDraft}
    BY <1>2, SessionFields
  <2> QED
    BY <2>1, <2>2, <2>3, OtherTyped
<1>7. saved \in Rows /\ Genuine(storedTexts, saved) /\ ~Saving(r) /\ RequestInv(storedTexts, r)
      /\ storedTexts \in Seq(Texts)
  BY <1>1, <1>2 DEF SessionInv, RequestInv, RowsInv, Core, Typed
<1>8. Good(storedTexts, chosen) /\ chosen.me = s /\ SameRequests(r, chosen.r)
  <2>1. /\ World(s) \in Worlds /\ RequestInv(storedTexts, World(s).r) /\ ~Saving(World(s).r)
        /\ World(s).r.savePc # "reget" /\ World(s).r.savePc # "regot"
    BY <1>2, <1>7 DEF Saving
  <2> DEFINE replace == ~local
  <2>2. replace \in BOOLEAN /\ TRUE \in BOOLEAN
    OBVIOUS
  <2>3. World(s).r = r /\ World(s).me = s
    BY <1>2
  <2> HIDE DEF replace, s, r
  <2>4. LET v == Accept(World(s), saved, replace, TRUE, ok)
        IN  Good(storedTexts, v) /\ v.me = World(s).me /\ SameRequests(World(s).r, v.r)
    <3> DEFINE w0 == World(s)
               c == saved
    <3>1. /\ w0 \in Worlds /\ RequestInv(storedTexts, w0.r) /\ c \in Rows
          /\ Genuine(storedTexts, c) /\ storedTexts \in Seq(Texts) /\ ok \in BOOLEAN
          /\ w0.r.savePc # "reget" /\ w0.r.savePc # "regot"
          /\ Saving(w0.r) => ~Loading(w0.r)
      BY <1>4, <1>7, <2>1
    <3> HIDE DEF w0, c
    <3>2. ASSUME NEW whole \in BOOLEAN, NEW seen \in BOOLEAN, NEW b \in BOOLEAN,
                 ~whole /\ ~seen /\ w0.r.content # c.content => c.revision = w0.r.base
          PROVE  LET v == Accept(w0, c, whole, seen, b)
                 IN  Good(storedTexts, v) /\ v.me = w0.me /\ SameRequests(w0.r, v.r)
      BY <3>1, <3>2, GoodAccepted
    <3>3. ~replace /\ ~TRUE /\ w0.r.content # c.content => c.revision = w0.r.base
      OBVIOUS
    <3> QED
      BY <1>4, <2>2, <3>2, <3>3, Zenon DEF w0, c
  <2> QED
    BY <2>3, <2>4 DEF replace
<1> HIDE DEF s, r, chosen
<1>9. Good(storedTexts, w) /\ w.me = s /\ w.r.open
  <2>1. chosen.r.open /\ chosen.r \in Session /\ SessionInv(storedTexts, s, chosen.r)
    BY <1>2, <1>8, WorldFields DEF SameRequests, Good
  <2>2. CASE local
    BY <1>2, <1>8, <2>1, <2>2, GoodStartSave
  <2>3. CASE ~local
    <3> DEFINE p == GivenUp(chosen.r)
    <3>1. p \in Session /\ SameText(chosen.r, p) /\ SameLoad(chosen.r, p) /\ SameSave(chosen.r, p)
          /\ p.errorKind = chosen.r.errorKind
      BY <2>1, GivenUpRecord
    <3>2. w = [chosen EXCEPT !.r = p]
      BY <1>8, <2>3 DEF GivenUp, Good, Worlds
    <3> HIDE DEF p, w
    <3>3. SessionInv(storedTexts, s, p) /\ p.open
      BY <2>1, <3>1
         DEF SameText, SameLoad, SameSave, SessionInv, RequestInv, RowsInv, CleanInv, OpenInv,
             Judged, Loading, Saving
    <3>4. w \in Worlds /\ w.r = p /\ w.me = s
      BY <1>8, <3>1, <3>2 DEF Good, Worlds
    <3> QED
      BY <3>3, <3>4 DEF Good
  <2> QED
    BY <2>2, <2>3
<1> HIDE DEF w
<1> QED
  BY <1>1, <1>5, <1>6, <1>9, OtherTyped, ActiveKeeps DEF SavesTracked, s

LEMMA RestoreDraftKeeps ==
    ASSUME Core, NEW t \in Tabs, RestoreDraft(t)
    PROVE  Core'
<1> DEFINE s == active[t]
           r == sess[s]
<1>1. active[t] # NoSession /\ ~r.dirty /\ ~Saving(r) /\ ~Loading(r)
  BY DEF RestoreDraft
<1>2. /\ s \in Sessions /\ r \in Session /\ SessionInv(storedTexts, s, r) /\ r.open
      /\ World(s) \in Worlds /\ World(s).me = s /\ World(s).r = r
      /\ Latest(s) \in Awaited
  BY <1>1, ActiveSession
<1>3. PICK draft \in r.recovery, ok \in StorageOutcomes :
        LET shown == [World(s) EXCEPT !.r.restored = draft, !.r.base = draft.base,
                         !.r.content = draft.content, !.r.dirty = TRUE,
                         !.r.recovery = @ \ {draft}]
        IN  Publish(StartLoad(Backup(shown, ok)))
  BY DEF RestoreDraft
<1> DEFINE p == Restored(r, draft)
           x == [World(s) EXCEPT !.r = p]
           b == Backup(x, ok)
           w == StartLoad(b)
<1>4. /\ active' = active
      /\ UNCHANGED <<server, storedTexts, online, saves, faults, event, taken, edits>>
  BY DEF RestoreDraft
<1>5. Publish(w)
  <2>1. x = [World(s) EXCEPT !.r.restored = draft, !.r.base = draft.base,
                         !.r.content = draft.content, !.r.dirty = TRUE,
                         !.r.recovery = @ \ {draft}]
    BY <1>2 DEF Restored, Worlds
  <2> QED
    BY <1>3, <2>1
<1>6. ok \in BOOLEAN /\ draft \in Drafts
  BY <1>2, SessionFields DEF StorageOutcomes
<1> HIDE DEF s, r
<1>7. /\ p \in Session /\ SameLoad(r, p) /\ SameSave(r, p)
      /\ p.open = r.open /\ p.dirty /\ p.conflict = r.conflict /\ p.informed = r.informed
  BY <1>2, <1>6, RestoredRecord
<1> HIDE DEF p
<1>8. RequestInv(storedTexts, p) /\ CleanInv(storedTexts, p) /\ p.open /\ p.savePc = "idle"
  BY <1>1, <1>2, <1>7
     DEF SameLoad, SameSave, SessionInv, RequestInv, RowsInv, CleanInv, Saving
<1>9. x \in Worlds /\ x.me = s /\ x.r = p
  BY <1>2, <1>7 DEF Worlds
<1> HIDE DEF x
<1>10. b \in Worlds /\ b.me = s /\ Alike(p, b.r)
  BY <1>6, <1>9, BackupWorld
<1> HIDE DEF b
<1>11. /\ RequestInv(storedTexts, b.r) /\ CleanInv(storedTexts, b.r) /\ b.r.open
       /\ b.r.savePc = "idle"
  BY <1>8, <1>10 DEF Alike, RequestInv, RowsInv, CleanInv, Saving
<1>12. Good(storedTexts, w) /\ w.me = s /\ w.r.open /\ ~Saving(w.r)
  BY <1>2, <1>10, <1>11, GoodStartLoad DEF Saving
<1> HIDE DEF w
<1>13. SavesTracked(w)
  BY <1>1, <1>4, <1>12 DEF SavesTracked, s, r
<1> QED
  BY <1>1, <1>4, <1>5, <1>12, <1>13, OtherTyped, ActiveKeeps DEF s

LEMMA CloseKeeps ==
    ASSUME Core, NEW t \in Tabs, Close(t)
    PROVE  Core'
<1>1. /\ sess' = [s \in Sessions |->
                    IF TabOf(s) # t \/ sess[s] = NoSession THEN sess[s] ELSE Closed(sess[s])]
      /\ active' = [active EXCEPT ![t] = NoSession]
      /\ saves' = [saves EXCEPT ![t] = NoSession]
      /\ event' = [event EXCEPT ![t] = FALSE]
      /\ UNCHANGED <<server, storedTexts, disk, memory, online, taken, edits, faults>>
  BY DEF Close, Closed
<1>2. ASSUME NEW s \in Sessions, sess[s] # NoSession
      PROVE  /\ Closed(sess[s]) \in Session
             /\ SessionInv(storedTexts, s, Closed(sess[s]))
  <2> DEFINE r == sess[s]
             p == Closed(r)
  <2>1. r \in Session /\ SessionInv(storedTexts, s, r)
    BY <1>2, GoodWorld
  <2> HIDE DEF r
  <2>2. /\ p \in Session /\ ~p.open /\ p.conflict = NoRow /\ p.informed = r.informed
        /\ p.loadPc = "idle" /\ p.put = r.put
        /\ p.savePc = (IF r.savePc = "put" THEN "put" ELSE "idle")
    BY <2>1, ClosedRecord
  <2> HIDE DEF p
  <2>3. SessionInv(storedTexts, s, p)
    BY <2>1, <2>2 DEF SessionInv, RequestInv, RowsInv, Saving
  <2> QED
    BY <2>2, <2>3 DEF p, r
<1>3. ASSUME NEW s \in Sessions
      PROVE  /\ sess'[s] = NoSession \/ sess'[s] \in Session
             /\ sess'[s] # NoSession => SessionInv(storedTexts, s, sess'[s])
             /\ TabOf(s) # t => sess'[s] = sess[s]
  <2>1. sess'[s] = IF TabOf(s) # t \/ sess[s] = NoSession THEN sess[s] ELSE Closed(sess[s])
    BY <1>1
  <2>2. sess[s] # NoSession => sess[s] \in Session /\ SessionInv(storedTexts, s, sess[s])
    BY DEF Core, Typed, SessionsInv
  <2> QED
    BY <1>2, <2>1, <2>2
<1>4. Typed'
  <2>1. DOMAIN sess' = Sessions /\ \A s \in Sessions : sess'[s] = NoSession \/ sess'[s] \in Session
    BY <1>1, <1>3
  <2>2. /\ active' \in [Tabs -> Sessions \cup {NoSession}]
        /\ saves' \in [Tabs -> Sessions \cup {NoSession}]
        /\ event' \in [Tabs -> BOOLEAN]
    BY <1>1 DEF Core, Typed
  <2> QED
    BY <1>1, <2>1, <2>2 DEF Core, Typed
<1>5. SessionsInv'
  BY <1>1, <1>3 DEF SessionsInv
<1>6. TabInv'
  <2> SUFFICES ASSUME NEW u \in Tabs, active'[u] # NoSession
               PROVE  /\ TabOf(active'[u]) = u /\ sess'[active'[u]] # NoSession
                      /\ sess'[active'[u]].open
                      /\ Saving(sess'[active'[u]]) => saves'[u] = active'[u]
    BY DEF TabInv
  <2>1. /\ active \in [Tabs -> Sessions \cup {NoSession}]
        /\ saves \in [Tabs -> Sessions \cup {NoSession}]
    BY DEF Core, Typed
  <2>2. u # t /\ active'[u] = active[u] /\ active[u] \in Sessions /\ saves'[u] = saves[u]
    BY <1>1, <2>1
  <2>3. TabOf(active[u]) = u
    BY <2>2 DEF Core, TabInv
  <2>4. sess'[active[u]] = sess[active[u]]
    BY <1>3, <2>2, <2>3
  <2> QED
    BY <2>2, <2>4 DEF Core, TabInv
<1> QED
  BY <1>1, <1>4, <1>5, <1>6 DEF Core, ServerInv

-----------------------------------------------------------------------------
(***************************************************************************)
(* The requests of a session                                               *)
(***************************************************************************)
LEMMA WithRecord ==
    ASSUME NEW w \in Worlds, NEW p \in Session
    PROVE  LET v == [w EXCEPT !.r = p]
           IN  v \in Worlds /\ v.me = w.me /\ v.r = p
BY DEF Worlds

LEMMA FaultCounted ==
    ASSUME Core
    PROVE  /\ faults \in 0..MaxFaults
           /\ Fault => faults' \in 0..MaxFaults
<1>1. faults \in 0..MaxFaults /\ MaxFaults \in Nat
  BY ParameterAssumption DEF Core, Typed
<1> QED
  BY <1>1 DEF Fault

\* A step of an open session that leaves the server alone.
LEMMA RequestKeeps ==
    ASSUME Core, NEW s \in Sessions, Open(s), NEW w, Good(storedTexts, w), w.me = s, w.r.open,
           Inner(w), UNCHANGED <<server, storedTexts>>, faults' = faults \/ Fault,
           Saving(w.r) => Saving(sess[s])
    PROVE  Core'
<1>1. Good(storedTexts', w) /\ storedTexts' = storedTexts
  OBVIOUS
<1>2. server' \in Rows /\ ServerInv' /\ faults' \in 0..MaxFaults
  BY FaultCounted DEF Core, Typed, ServerInv
<1>3. sess[w.me] # NoSession /\ w.r.open = sess[w.me].open
  <2>1. sess[s] # NoSession /\ sess[s].open
    BY DEF Open
  <2>2. sess[s] \in Session /\ w.r \in Session
    BY <2>1, GoodWorld, WorldFields DEF Good
  <2> QED
    BY <2>1, <2>2, SessionFields
<1> QED
  BY <1>1, <1>2, <1>3, InnerKeeps

LEMMA OpenSession ==
    ASSUME Core, NEW s \in Sessions, Open(s)
    PROVE  /\ sess[s] \in Session /\ sess[s].open
           /\ World(s) \in Worlds /\ World(s).me = s /\ World(s).r = sess[s]
           /\ Good(storedTexts, World(s))
           /\ RequestInv(storedTexts, sess[s]) /\ RowsInv(storedTexts, sess[s])
           /\ OpenInv(storedTexts, s, sess[s]) /\ CleanInv(storedTexts, sess[s])
           /\ storedTexts \in Seq(Texts)
<1>1. sess[s] # NoSession /\ sess[s].open
  BY DEF Open
<1> QED
  BY <1>1, GoodWorld DEF Good, SessionInv, RequestInv, OpenInv, Core, Typed

LEMMA GetNoteKeeps ==
    ASSUME Core, NEW s \in Sessions, GetNote(s)
    PROVE  Core'
<1> DEFINE r == sess[s]
<1>1. /\ Open(s) /\ r.loadPc = "wait" /\ Finished(r.loadAwaits)
      /\ UNCHANGED <<server, storedTexts>> /\ (faults' = faults \/ Fault)
  BY DEF GetNote
<1>2. PICK x : /\ x = server \/ x \in Failures
               /\ Inner([World(s) EXCEPT !.r.loadPc = "got", !.r.got = x,
                                         !.r.loadAwaits = NoSession])
  BY DEF GetNote
<1>3. /\ r \in Session /\ r.open /\ World(s) \in Worlds /\ World(s).me = s /\ World(s).r = r
      /\ RequestInv(storedTexts, r) /\ OpenInv(storedTexts, s, r)
  BY <1>1, OpenSession
<1>4. r.savePc \notin {"reget", "regot"}
  <2>1. SUFFICES ASSUME r.savePc \in {"reget", "regot"} PROVE FALSE
    OBVIOUS
  <2>2. r.loadAwaits = s /\ s # NoSession
    BY <1>1, <1>3, <2>1, NoSessionAssumption DEF OpenInv, Loading
  <2> QED
    BY <1>1, <2>1, <2>2 DEF Finished, Saving
<1> DEFINE p == Fetched(r, x)
           w == [World(s) EXCEPT !.r = p]
<1>5. Inner(w)
  <2>1. w = [World(s) EXCEPT !.r.loadPc = "got", !.r.got = x, !.r.loadAwaits = NoSession]
    BY <1>3 DEF Fetched, Worlds
  <2> QED
    BY <1>2, <2>1
<1>6. x \in EditorReplies /\ (x \notin Failures => x \in Rows /\ Genuine(storedTexts, x))
  BY <1>2 DEF EditorReplies, Core, Typed, ServerInv
<1> HIDE DEF r
<1>7. /\ p \in Session /\ SameText(r, p) /\ SameSave(r, p) /\ p.loadPc = "got" /\ p.got = x
      /\ p.errorKind = r.errorKind
  BY <1>3, <1>6, FetchedRecord
<1> HIDE DEF p
<1>8. SessionInv(storedTexts, s, p) /\ p.open /\ (Saving(p) => Saving(r))
  BY <1>1, <1>3, <1>4, <1>6, <1>7
     DEF SameText, SameSave, SessionInv, RequestInv, RowsInv, CleanInv, OpenInv, Judged,
         Loading, Saving
<1>9. Good(storedTexts, w) /\ w.me = s /\ w.r = p
  BY <1>3, <1>7, <1>8, WithRecord DEF Good
<1> HIDE DEF w
<1> QED
  BY <1>1, <1>5, <1>8, <1>9, RequestKeeps DEF r

LEMMA BeginSaveKeeps ==
    ASSUME Core, NEW s \in Sessions, BeginSave(s)
    PROVE  Core'
<1> DEFINE r == sess[s]
           p == Waited(r)
           x == [World(s) EXCEPT !.r = p]
           w == Drain(x)
<1>1. Open(s) /\ r.savePc = "wait" /\ UNCHANGED <<server, storedTexts, faults>>
  BY DEF BeginSave
<1>2. /\ r \in Session /\ r.open /\ World(s) \in Worlds /\ World(s).me = s /\ World(s).r = r
      /\ RequestInv(storedTexts, r) /\ OpenInv(storedTexts, s, r)
  BY <1>1, OpenSession
<1>3. Inner(w)
  <2>1. x = [World(s) EXCEPT !.r.saveAwaits = NoSession]
    BY <1>2 DEF Waited, Worlds
  <2> QED
    BY <2>1 DEF BeginSave
<1> HIDE DEF r
<1>4. /\ p \in Session /\ SameText(r, p) /\ SameLoad(r, p) /\ SameSave(r, p)
      /\ p.errorKind = r.errorKind
  BY <1>2, WaitedRecord
<1> HIDE DEF p
<1>5. SessionInv(storedTexts, s, p) /\ p.open /\ p.savePc = "wait"
  BY <1>1, <1>2, <1>4
     DEF SameText, SameLoad, SameSave, SessionInv, RequestInv, RowsInv, CleanInv, OpenInv,
         Judged, Loading, Saving
<1>6. Good(storedTexts, x) /\ x.me = s /\ x.r = p
  BY <1>2, <1>4, <1>5, WithRecord DEF Good
<1> HIDE DEF x
<1>7. Good(storedTexts, w) /\ w.me = s /\ w.r.open
  BY <1>5, <1>6, GoodDrain
<1>8. Saving(r)
  BY <1>1 DEF Saving
<1> HIDE DEF w
<1> QED
  BY <1>1, <1>3, <1>7, <1>8, RequestKeeps DEF r

LEMMA ApplyServer ==
    ASSUME Core, NEW put \in Puts, Apply(put)
    PROVE  /\ server' \in Rows /\ ServerInv'
           /\ \/ storedTexts' = storedTexts
              \/ \E text \in Texts : storedTexts' = Append(storedTexts, text)
<1>1. /\ server \in Rows /\ storedTexts \in Seq(Texts) /\ ServerInv
      /\ server.revision \in Nat /\ Len(storedTexts) \in Nat
  BY DEF Core, Typed, Rows
<1>2. CASE Fresh(put)
  <2>1. /\ server' = [content |-> put.content, revision |-> put.base + 1]
        /\ storedTexts' = Append(storedTexts, put.content)
        /\ put.content \in Texts /\ put.base = Len(storedTexts)
    BY <1>1, <1>2 DEF Apply, Fresh, Puts, ServerInv
  <2>2. Len(storedTexts') = Len(storedTexts) + 1 /\ storedTexts'[Len(storedTexts) + 1] = put.content
    BY <1>1, <2>1
  <2>3. /\ server'.revision = Len(storedTexts) + 1 /\ server'.content = put.content
        /\ server' \in Rows
    BY <1>1, <2>1 DEF Rows
  <2>4. ServerInv'
    BY <1>1, <2>2, <2>3 DEF ServerInv, Genuine
  <2> QED
    BY <2>1, <2>3, <2>4
<1>3. CASE ~Fresh(put)
  BY <1>1, <1>3 DEF Apply, ServerInv
<1> QED
  BY <1>2, <1>3

LEMMA AnsweredKeeps ==
    ASSUME Core, NEW s \in Sessions, Sent(s), NEW answer \in EditorReplies,
           \/ answer \in Failures \/ answer = ConflictReply
           \/ answer \in Rows /\ Genuine(storedTexts', answer),
           Inner(Answered(s, answer)), server' \in Rows, ServerInv', faults' \in 0..MaxFaults,
           \/ storedTexts' = storedTexts
           \/ \E text \in Texts : storedTexts' = Append(storedTexts, text)
    PROVE  Core'
<1> DEFINE r == sess[s]
           p == IF r.open THEN Replied(r, answer) ELSE PutOver(r)
           w == [World(s) EXCEPT !.r = p]
<1>1. r # NoSession /\ r.savePc = "put"
  BY DEF Sent
<1>2. /\ r \in Session /\ World(s) \in Worlds /\ World(s).me = s /\ World(s).r = r
      /\ SessionInv(storedTexts', s, r)
  <2>1. /\ r \in Session /\ World(s) \in Worlds /\ World(s).me = s /\ World(s).r = r
        /\ SessionInv(storedTexts, s, r) /\ storedTexts \in Seq(Texts)
    BY <1>1, GoodWorld DEF Good, Core, Typed
  <2>2. CASE storedTexts' = storedTexts
    BY <2>1, <2>2
  <2>3. ASSUME NEW text \in Texts, storedTexts' = Append(storedTexts, text)
        PROVE  SessionInv(storedTexts', s, r)
    <3>1. SessionInv(Append(storedTexts, text), s, r)
      BY <2>1, SessionKept
    <3> QED
      BY <2>3, <3>1
  <2> QED
    BY <2>1, <2>2, <2>3
<1>3. Answered(s, answer) = w
  BY <1>2 DEF Answered, Replied, PutOver, Worlds
<1> HIDE DEF r
<1>4. CASE r.open
  <2>1. /\ p \in Session /\ SameText(r, p) /\ SameLoad(r, p)
        /\ p.savePc = "replied" /\ p.reply = answer /\ p.errorKind = r.errorKind
    BY <1>2, <1>4, RepliedRecord
  <2> HIDE DEF p
  <2>2. SessionInv(storedTexts', s, p)
    BY <1>1, <1>2, <2>1
       DEF SameText, SameLoad, SessionInv, RequestInv, RowsInv, CleanInv, OpenInv, Judged,
           Loading, Saving
  <2>3. Good(storedTexts', w) /\ w.me = s /\ w.r = p
    BY <1>2, <2>1, <2>2, WithRecord DEF Good
  <2>4. w.r.open = r.open /\ Saving(r)
    BY <1>1, <2>1, <2>3 DEF SameText, Saving
  <2> HIDE DEF w
  <2> QED
    BY <1>1, <1>3, <2>3, <2>4, InnerKeeps DEF r
<1>5. CASE ~r.open
  <2>1. /\ p \in Session /\ SameText(r, p) /\ SameLoad(r, p) /\ p.savePc = "idle"
    BY <1>2, <1>5, PutOverRecord
  <2> HIDE DEF p
  <2>2. SessionInv(storedTexts', s, p)
    BY <1>2, <1>5, <2>1 DEF SameText, SameLoad, SessionInv, RequestInv, RowsInv, Saving
  <2>3. Good(storedTexts', w) /\ w.me = s /\ w.r = p
    BY <1>2, <2>1, <2>2, WithRecord DEF Good
  <2>4. w.r.open = r.open /\ ~Saving(w.r)
    BY <2>1, <2>3 DEF SameText, Saving
  <2> HIDE DEF w
  <2> QED
    BY <1>1, <1>3, <2>3, <2>4, InnerKeeps DEF r
<1> QED
  BY <1>4, <1>5

LEMMA SentPut ==
    ASSUME Core, NEW s \in Sessions, Sent(s)
    PROVE  sess[s].put \in Puts
BY DEF Sent, Core, SessionsInv, SessionInv, RequestInv

LEMMA ServePutKeeps ==
    ASSUME Core, NEW s \in Sessions, ServePut(s)
    PROVE  Core'
<1> DEFINE answer == IF Known(sess[s].put) \/ Fresh(sess[s].put) THEN server' ELSE ConflictReply
<1>1. Sent(s) /\ Apply(sess[s].put) /\ Inner(Answered(s, answer)) /\ faults' = faults
  BY DEF ServePut
<1>2. /\ server' \in Rows /\ ServerInv'
      /\ \/ storedTexts' = storedTexts
         \/ \E text \in Texts : storedTexts' = Append(storedTexts, text)
  BY <1>1, SentPut, ApplyServer
<1>3. answer \in EditorReplies /\ (answer = server' \/ answer = ConflictReply)
  BY <1>2 DEF EditorReplies
<1>4. Genuine(storedTexts', server') /\ faults' \in 0..MaxFaults
  BY <1>1, <1>2, FaultCounted DEF ServerInv
<1> HIDE DEF answer
<1> QED
  BY <1>1, <1>2, <1>3, <1>4, AnsweredKeeps

LEMMA FailPutKeeps ==
    ASSUME Core, NEW s \in Sessions, FailPut(s)
    PROVE  Core'
<1>1. Sent(s) /\ faults' \in 0..MaxFaults
  BY FaultCounted DEF FailPut
<1>2. PICK kind \in Failures :
        /\ Inner(Answered(s, kind))
        /\ Apply(sess[s].put) \/ UNCHANGED <<server, storedTexts>>
  BY DEF FailPut, Failures
<1>3. /\ server' \in Rows /\ ServerInv'
      /\ \/ storedTexts' = storedTexts
         \/ \E text \in Texts : storedTexts' = Append(storedTexts, text)
  <2>1. CASE Apply(sess[s].put)
    BY <1>1, <2>1, SentPut, ApplyServer
  <2>2. CASE UNCHANGED <<server, storedTexts>>
    BY <2>2 DEF Core, Typed, ServerInv
  <2> QED
    BY <1>2, <2>1, <2>2
<1>4. kind \in EditorReplies
  BY DEF EditorReplies
<1> QED
  BY <1>1, <1>2, <1>3, <1>4, AnsweredKeeps

LEMMA ReceiveNoteKeeps ==
    ASSUME Core, NEW s \in Sessions, ReceiveNote(s)
    PROVE  Core'
<1> DEFINE r == sess[s]
           saved == r.got
           q == LoadOver(r)
           w0 == [World(s) EXCEPT !.r = q]
<1>1. Open(s) /\ r.loadPc = "got" /\ UNCHANGED <<server, storedTexts, faults>>
  BY DEF ReceiveNote
<1>2. /\ r \in Session /\ r.open /\ World(s) \in Worlds /\ World(s).me = s /\ World(s).r = r
      /\ RequestInv(storedTexts, r) /\ OpenInv(storedTexts, s, r) /\ RowsInv(storedTexts, r)
      /\ CleanInv(storedTexts, r) /\ storedTexts \in Seq(Texts)
  BY <1>1, OpenSession
<1>3. w0 = [World(s) EXCEPT !.r.loadPc = "idle", !.r.got = Nothing]
  BY <1>2 DEF LoadOver, Worlds
<1>4. PICK ok \in StorageOutcomes :
        IF saved \in Failures
        THEN Inner([w0 EXCEPT !.r.errorKind = "load", !.r.retryable = (saved = Retryable)])
        ELSE IF Diverged(r, saved)
        THEN Inner([w0 EXCEPT !.r.loaded = TRUE, !.r.conflict = saved,
                              !.r.errorKind = "conflict", !.r.retryable = FALSE])
        ELSE Inner(Accept(w0, saved, ~r.dirty, FALSE, ok))
  BY <1>3 DEF ReceiveNote
<1>5. r.savePc = "idle" /\ ok \in BOOLEAN /\ r.dirty \in BOOLEAN
  BY <1>1, <1>2, SessionFields DEF OpenInv, Judged, Loading, StorageOutcomes
<1>6. saved \notin Failures => saved \in Rows /\ Genuine(storedTexts, saved)
  BY <1>1, <1>2 DEF RowsInv
<1> HIDE DEF r
<1>7. /\ q \in Session /\ SameText(r, q) /\ SameSave(r, q) /\ q.loadPc = "idle"
      /\ q.errorKind = r.errorKind
  BY <1>2, LoadOverRecord
<1> HIDE DEF q
<1>8. /\ RequestInv(storedTexts, q) /\ CleanInv(storedTexts, q) /\ q.open /\ q.savePc = "idle"
  BY <1>1, <1>2, <1>5, <1>7
     DEF SameText, SameSave, RequestInv, RowsInv, CleanInv, Saving
<1>9. w0 \in Worlds /\ w0.me = s /\ w0.r = q
  BY <1>2, <1>7, WithRecord
<1> HIDE DEF w0
<1>10. ASSUME NEW w, Inner(w), Good(storedTexts, w), w.me = s, w.r.open, w.r.savePc = "idle"
       PROVE  Core'
  BY <1>1, <1>10, RequestKeeps DEF Saving
<1>11. CASE saved \in Failures
  <2> DEFINE p == LoadFailed(q, saved)
             w == [w0 EXCEPT !.r = p]
  <2>1. Inner(w)
    <3>1. w = [w0 EXCEPT !.r.errorKind = "load", !.r.retryable = (saved = Retryable)]
      BY <1>9 DEF LoadFailed, Worlds
    <3> QED
      BY <1>4, <1>11, <3>1
  <2>2. /\ p \in Session /\ SameText(q, p) /\ SameLoad(q, p) /\ SameSave(q, p)
        /\ p.errorKind = "load"
    BY <1>7, LoadFailedRecord
  <2> HIDE DEF p
  <2>3. SessionInv(storedTexts, s, p) /\ p.open /\ p.savePc = "idle"
    BY <1>8, <2>2
       DEF SameText, SameLoad, SameSave, SessionInv, RequestInv, RowsInv, CleanInv, OpenInv,
           Judged, Loading, Saving
  <2>4. Good(storedTexts, w) /\ w.me = s /\ w.r = p
    BY <1>9, <2>2, <2>3, WithRecord DEF Good
  <2> HIDE DEF w
  <2> QED
    BY <1>10, <2>1, <2>3, <2>4
<1>12. CASE saved \notin Failures /\ Diverged(r, saved)
  <2> DEFINE p == Conflicted(q, saved)
             w == [w0 EXCEPT !.r = p]
  <2>1. Inner(w)
    <3>1. w = [w0 EXCEPT !.r.loaded = TRUE, !.r.conflict = saved,
                         !.r.errorKind = "conflict", !.r.retryable = FALSE]
      BY <1>9 DEF Conflicted, Worlds
    <3> QED
      BY <1>4, <1>12, <3>1
  <2>2. /\ p \in Session /\ SameLoad(q, p) /\ SameSave(q, p) /\ p.open = q.open
        /\ p.dirty = q.dirty /\ p.conflict = saved /\ p.informed = q.informed
        /\ p.errorKind = "conflict"
    BY <1>6, <1>7, <1>12, ConflictedRecord
  <2>d. q.dirty
    BY <1>7, <1>12 DEF Diverged, SameText
  <2> HIDE DEF p
  <2>3. SessionInv(storedTexts, s, p) /\ p.open /\ p.savePc = "idle"
    <3> HIDE DEF saved
    <3> QED
      BY <1>6, <1>8, <1>12, <2>2, <2>d
         DEF SameLoad, SameSave, SessionInv, RequestInv, RowsInv, CleanInv, OpenInv,
             Judged, Loading, Saving
  <2>4. Good(storedTexts, w) /\ w.me = s /\ w.r = p
    BY <1>9, <2>2, <2>3, WithRecord DEF Good
  <2> HIDE DEF w
  <2> QED
    BY <1>10, <2>1, <2>3, <2>4
<1>13. CASE saved \notin Failures /\ ~Diverged(r, saved)
  <2> DEFINE w == Accept(w0, saved, ~r.dirty, FALSE, ok)
  <2>1. Inner(w)
    BY <1>4, <1>13
  <2>2. Good(storedTexts, w) /\ w.me = s /\ SameRequests(q, w.r)
    <3> DEFINE keep == ~r.dirty
    <3>1. /\ keep \in BOOLEAN /\ FALSE \in BOOLEAN
          /\ ~keep /\ ~FALSE /\ w0.r.content # saved.content => saved.revision = w0.r.base
      BY <1>5, <1>7, <1>9, <1>13 DEF Diverged, Agrees, SameText
    <3>2. ~Loading(w0.r) /\ w0.r.savePc = "idle" /\ RequestInv(storedTexts, w0.r)
      BY <1>7, <1>8, <1>9 DEF Loading
    <3> HIDE DEF keep, saved
    <3>3. ASSUME NEW whole \in BOOLEAN, NEW seen \in BOOLEAN, NEW b \in BOOLEAN,
                 ~whole /\ ~seen /\ w0.r.content # saved.content => saved.revision = w0.r.base
          PROVE  LET v == Accept(w0, saved, whole, seen, b)
                 IN  Good(storedTexts, v) /\ v.me = w0.me /\ SameRequests(w0.r, v.r)
      BY <1>2, <1>6, <1>9, <1>13, <3>2, <3>3, GoodAccepted
    <3>4. LET v == Accept(w0, saved, keep, FALSE, ok)
          IN  Good(storedTexts, v) /\ v.me = w0.me /\ SameRequests(w0.r, v.r)
      BY <1>5, <3>1, <3>3, Zenon
    <3> QED
      BY <1>9, <3>4 DEF keep
  <2> HIDE DEF w
  <2>3. w.r.open /\ w.r.savePc = "idle"
    BY <1>8, <2>2 DEF SameRequests
  <2> QED
    BY <1>10, <2>1, <2>2, <2>3
<1> QED
  BY <1>11, <1>12, <1>13

LEMMA ReceivePutKeeps ==
    ASSUME Core, NEW s \in Sessions, ReceivePut(s)
    PROVE  Core'
<1> DEFINE r == sess[s]
           reply == r.reply
           w0 == World(s)
           q == PutTaken(r)
           w1 == [w0 EXCEPT !.r = q]
<1>1. Open(s) /\ r.savePc = "replied" /\ UNCHANGED <<server, storedTexts, faults>>
  BY DEF ReceivePut
<1>2. /\ r \in Session /\ r.open /\ w0 \in Worlds /\ w0.me = s /\ w0.r = r
      /\ RequestInv(storedTexts, r) /\ OpenInv(storedTexts, s, r) /\ RowsInv(storedTexts, r)
      /\ CleanInv(storedTexts, r) /\ storedTexts \in Seq(Texts)
  BY <1>1, OpenSession
<1>3. w1 = [w0 EXCEPT !.r.put = Nothing]
  BY <1>2 DEF PutTaken, Worlds
<1>4. PICK ok \in StorageOutcomes :
        IF reply = ConflictReply
        THEN Inner([w0 EXCEPT !.r.savePc = "reget", !.r.reply = Nothing, !.r.put = Nothing,
                              !.r.retryable = FALSE, !.r.errorKind = "conflict"])
        ELSE IF reply \in Failures
        THEN Inner(EndSave(w0, "save", reply = Retryable))
        ELSE Inner(Drain(Accept(w1, reply, FALSE, TRUE, ok)))
  BY <1>3 DEF ReceivePut
<1>5. /\ Judged(r) /\ ~Loading(r) /\ r.base \in 0..Len(storedTexts) /\ r.conflict = NoRow
      /\ Saving(r) /\ ok \in BOOLEAN
  BY <1>1, <1>2 DEF OpenInv, Judged, Saving, StorageOutcomes
<1>6. reply # ConflictReply /\ reply \notin Failures =>
        reply \in Rows /\ Genuine(storedTexts, reply)
  BY <1>1, <1>2 DEF RowsInv
<1>7. ASSUME NEW w, Inner(w), Good(storedTexts, w), w.me = s, w.r.open
      PROVE  Core'
  BY <1>1, <1>5, <1>7, RequestKeeps
<1> HIDE DEF r, w0
<1>8. CASE reply = ConflictReply
  <2> DEFINE p == Refused(r)
             w == [w0 EXCEPT !.r = p]
  <2>1. Inner(w)
    <3>1. w = [w0 EXCEPT !.r.savePc = "reget", !.r.reply = Nothing, !.r.put = Nothing,
                         !.r.retryable = FALSE, !.r.errorKind = "conflict"]
      BY <1>2 DEF Refused, Worlds
    <3> QED
      BY <1>4, <1>8, <3>1
  <2>2. /\ p \in Session /\ SameText(r, p) /\ SameLoad(r, p) /\ p.savePc = "reget"
        /\ p.errorKind = "conflict"
    BY <1>2, RefusedRecord
  <2> HIDE DEF p
  <2>3. SessionInv(storedTexts, s, p) /\ p.open
    BY <1>2, <1>5, <2>2
       DEF SameText, SameLoad, SessionInv, RequestInv, RowsInv, CleanInv, OpenInv,
           Judged, Loading, Saving
  <2>4. Good(storedTexts, w) /\ w.me = s /\ w.r = p
    BY <1>2, <2>2, <2>3, WithRecord DEF Good
  <2> HIDE DEF w
  <2> QED
    BY <1>7, <2>1, <2>3, <2>4
<1>9. CASE reply # ConflictReply /\ reply \in Failures
  <2> DEFINE again == (reply = Retryable)
  <2>1. Inner(EndSave(w0, "save", again))
    BY <1>4, <1>9
  <2>2. ASSUME NEW kind \in Kinds, NEW retryable \in BOOLEAN
        PROVE  LET v == EndSave(w0, kind, retryable)
               IN  Good(storedTexts, v) /\ v.me = w0.me /\ v.r.open
    BY <1>2, <1>5, GoodEndSave
  <2>3. again \in BOOLEAN /\ "save" \in Kinds
    BY DEF Kinds
  <2> HIDE DEF again
  <2>4. LET v == EndSave(w0, "save", again)
        IN  Good(storedTexts, v) /\ v.me = w0.me /\ v.r.open
    BY <2>2, <2>3, Zenon
  <2> QED
    BY <1>2, <1>7, <2>1, <2>4
<1>10. CASE reply # ConflictReply /\ reply \notin Failures
  <2> DEFINE a == Accept(w1, reply, FALSE, TRUE, ok)
  <2>1. Inner(Drain(a))
    BY <1>4, <1>10
  <2>2. /\ q \in Session /\ SameText(r, q) /\ SameLoad(r, q) /\ q.savePc = r.savePc
        /\ q.reply = r.reply
    BY <1>2, PutTakenRecord
  <2>3. w1 \in Worlds /\ w1.me = s /\ w1.r = q
    BY <1>2, <2>2, WithRecord
  <2> HIDE DEF q, w1
  <2>4. RequestInv(storedTexts, w1.r) /\ ~Loading(w1.r) /\ w1.r.savePc = "replied" /\ w1.r.open
    BY <1>1, <1>2, <1>5, <2>2, <2>3
       DEF r, SameText, SameLoad, RequestInv, RowsInv, Loading, Saving
  <2> HIDE DEF reply
  <2>5. ASSUME NEW whole \in BOOLEAN, NEW seen \in BOOLEAN, NEW b \in BOOLEAN,
               ~whole /\ ~seen /\ w1.r.content # reply.content => reply.revision = w1.r.base
        PROVE  LET v == Accept(w1, reply, whole, seen, b)
               IN  Good(storedTexts, v) /\ v.me = w1.me /\ SameRequests(w1.r, v.r)
    BY <1>2, <1>6, <1>10, <2>3, <2>4, <2>5, GoodAccepted
  <2>6. /\ FALSE \in BOOLEAN /\ TRUE \in BOOLEAN
        /\ ~FALSE /\ ~TRUE /\ w1.r.content # reply.content => reply.revision = w1.r.base
    OBVIOUS
  <2>7. Good(storedTexts, a) /\ a.me = w1.me /\ SameRequests(w1.r, a.r)
    BY <1>5, <2>5, <2>6, Zenon
  <2> HIDE DEF a
  <2>8. Good(storedTexts, Drain(a)) /\ Drain(a).me = s /\ Drain(a).r.open
    BY <2>3, <2>4, <2>7, GoodDrain DEF SameRequests
  <2> QED
    BY <1>7, <2>1, <2>8
<1> QED
  BY <1>8, <1>9, <1>10

LEMMA GetConflictKeeps ==
    ASSUME Core, NEW s \in Sessions, GetConflict(s)
    PROVE  Core'
<1> DEFINE r == sess[s]
<1>1. /\ Open(s) /\ r.savePc = "reget"
      /\ UNCHANGED <<server, storedTexts>> /\ (faults' = faults \/ Fault)
  BY DEF GetConflict
<1>2. PICK x : /\ x = server \/ x = Retryable
               /\ Inner([World(s) EXCEPT !.r.savePc = "regot", !.r.reply = x])
  BY DEF GetConflict
<1>3. /\ r \in Session /\ r.open /\ World(s) \in Worlds /\ World(s).me = s /\ World(s).r = r
      /\ RequestInv(storedTexts, r) /\ OpenInv(storedTexts, s, r)
  BY <1>1, OpenSession
<1> DEFINE p == OtherSide(r, x)
           w == [World(s) EXCEPT !.r = p]
<1>4. Inner(w)
  <2>1. w = [World(s) EXCEPT !.r.savePc = "regot", !.r.reply = x]
    BY <1>3 DEF OtherSide, Worlds
  <2> QED
    BY <1>2, <2>1
<1>5. x \in EditorReplies /\ (x # Retryable => x \in Rows /\ Genuine(storedTexts, x))
  BY <1>2 DEF EditorReplies, Failures, Core, Typed, ServerInv
<1> HIDE DEF r
<1>6. /\ p \in Session /\ SameText(r, p) /\ SameLoad(r, p) /\ p.savePc = "regot" /\ p.reply = x
      /\ p.errorKind = r.errorKind
  BY <1>3, <1>5, OtherSideRecord
<1> HIDE DEF p
<1>7. SessionInv(storedTexts, s, p) /\ p.open /\ Saving(r)
  BY <1>1, <1>3, <1>5, <1>6
     DEF SameText, SameLoad, SessionInv, RequestInv, RowsInv, CleanInv, OpenInv, Judged,
         Loading, Saving
<1>8. Good(storedTexts, w) /\ w.me = s /\ w.r = p
  BY <1>3, <1>6, <1>7, WithRecord DEF Good
<1> HIDE DEF w
<1> QED
  BY <1>1, <1>4, <1>7, <1>8, RequestKeeps DEF r

LEMMA ReceiveConflictKeeps ==
    ASSUME Core, NEW s \in Sessions, ReceiveConflict(s)
    PROVE  Core'
<1> DEFINE r == sess[s]
           saved == r.reply
           w0 == World(s)
           q == ConflictShown(r, saved)
           w1 == [w0 EXCEPT !.r = q]
<1>1. Open(s) /\ r.savePc = "regot" /\ UNCHANGED <<server, storedTexts, faults>>
  BY DEF ReceiveConflict
<1>2. /\ r \in Session /\ r.open /\ w0 \in Worlds /\ w0.me = s /\ w0.r = r
      /\ RequestInv(storedTexts, r) /\ OpenInv(storedTexts, s, r) /\ RowsInv(storedTexts, r)
      /\ CleanInv(storedTexts, r) /\ storedTexts \in Seq(Texts)
  BY <1>1, OpenSession
<1>3. w1 = [w0 EXCEPT !.r.conflict = saved]
  BY <1>2 DEF ConflictShown, Worlds
<1>4. PICK ok \in StorageOutcomes :
        IF saved = Retryable THEN Inner(EndSave(w0, r.errorKind, r.retryable))
        ELSE IF Agrees(r.content, saved)
        THEN Inner(EndSave(Accept(w0, saved, FALSE, FALSE, ok), "none", TRUE))
        ELSE Inner(EndSave(w1, r.errorKind, r.retryable))
  BY <1>2, <1>3 DEF ReceiveConflict
<1>5. /\ r.errorKind \in Kinds /\ r.retryable \in BOOLEAN /\ Saving(r)
      /\ Loading(r) \/ r.errorKind = "conflict"
      /\ ok \in BOOLEAN
  BY <1>1, <1>2, SessionFields DEF OpenInv, Kinds, Saving, StorageOutcomes
<1>6. saved # Retryable => saved \in Rows /\ Genuine(storedTexts, saved)
  BY <1>1, <1>2 DEF RowsInv
<1>7. ASSUME NEW w, Inner(w), Good(storedTexts, w), w.me = s, w.r.open
      PROVE  Core'
  BY <1>1, <1>5, <1>7, RequestKeeps
<1> HIDE DEF r, w0
<1>8. ASSUME NEW x \in Worlds, RowsInv(storedTexts, x.r), CleanInv(storedTexts, x.r), x.r.open,
             Loading(x.r) \/ r.errorKind = "conflict"
      PROVE  LET v == EndSave(x, r.errorKind, r.retryable)
             IN  Good(storedTexts, v) /\ v.me = x.me /\ v.r.open
  <2>1. ASSUME NEW kind \in Kinds, NEW retryable \in BOOLEAN,
               Loading(x.r) \/ kind = "conflict"
        PROVE  LET v == EndSave(x, kind, retryable)
               IN  Good(storedTexts, v) /\ v.me = x.me /\ v.r.open
    BY <1>8, <2>1, GoodEndSave
  <2> QED
    BY <1>5, <1>8, <2>1, Zenon
<1>9. CASE saved = Retryable
  <2> DEFINE w == EndSave(w0, r.errorKind, r.retryable)
  <2>1. Inner(w)
    BY <1>4, <1>9
  <2>2. Good(storedTexts, w) /\ w.me = s /\ w.r.open
    BY <1>2, <1>5, <1>8
  <2> HIDE DEF w
  <2> QED
    BY <1>7, <2>1, <2>2
<1>10. CASE saved # Retryable /\ Agrees(r.content, saved)
  <2> DEFINE a == Accept(w0, saved, FALSE, FALSE, ok)
             w == EndSave(a, "none", TRUE)
  <2>1. Inner(w)
    BY <1>4, <1>10
  <2>2. saved \in Rows /\ Genuine(storedTexts, saved) /\ r.content = saved.content
    BY <1>6, <1>10 DEF Agrees
  <2> HIDE DEF saved
  <2>3. ASSUME NEW whole \in BOOLEAN, NEW seen \in BOOLEAN, NEW b \in BOOLEAN,
               ~whole /\ ~seen /\ w0.r.content # saved.content => saved.revision = w0.r.base
        PROVE  LET v == Accept(w0, saved, whole, seen, b)
               IN  /\ v \in Worlds /\ v.me = w0.me /\ SameRequests(w0.r, v.r) /\ v.r \in Session
                   /\ v.r.base = saved.revision /\ v.r.conflict = NoRow
                   /\ RequestInv(storedTexts, v.r) /\ CleanInv(storedTexts, v.r)
    BY <1>2, <2>2, <2>3, GoodAccept
  <2>4. /\ FALSE \in BOOLEAN
        /\ ~FALSE /\ ~FALSE /\ w0.r.content # saved.content => saved.revision = w0.r.base
    BY <1>2, <2>2
  <2>5. /\ a \in Worlds /\ a.me = w0.me /\ SameRequests(w0.r, a.r) /\ a.r \in Session
        /\ a.r.base = saved.revision /\ a.r.conflict = NoRow
        /\ RequestInv(storedTexts, a.r) /\ CleanInv(storedTexts, a.r)
    BY <1>5, <2>3, <2>4, Zenon
  <2> HIDE DEF a
  <2>6. a.r.open /\ RowsInv(storedTexts, a.r) /\ a.r.base \in 0..Len(storedTexts)
    <3>1. saved.revision \in Nat /\ Len(storedTexts) \in Nat
      BY <1>2, <2>2 DEF Rows
    <3> QED
      BY <1>2, <2>2, <2>5, <3>1 DEF SameRequests, RequestInv, Genuine
  <2>7. ASSUME NEW kind \in Kinds, NEW retryable \in BOOLEAN
        PROVE  LET v == EndSave(a, kind, retryable)
               IN  Good(storedTexts, v) /\ v.me = a.me /\ v.r.open
    BY <2>5, <2>6, GoodEndSave
  <2>8. "none" \in Kinds /\ TRUE \in BOOLEAN
    BY DEF Kinds
  <2>9. Good(storedTexts, w) /\ w.me = a.me /\ w.r.open
    BY <2>7, <2>8, Zenon
  <2> HIDE DEF w
  <2> QED
    BY <1>2, <1>7, <2>1, <2>5, <2>9
<1>11. CASE saved # Retryable /\ ~Agrees(r.content, saved)
  <2> DEFINE w == EndSave(w1, r.errorKind, r.retryable)
  <2>1. Inner(w)
    BY <1>4, <1>11
  <2>2. saved \in Rows /\ Genuine(storedTexts, saved)
    BY <1>6, <1>11
  <2> HIDE DEF saved
  <2>3. /\ q \in Session /\ SameLoad(r, q) /\ SameSave(r, q)
        /\ q.open = r.open /\ q.content = r.content /\ q.dirty = r.dirty /\ q.loaded = r.loaded
        /\ q.conflict = saved /\ q.base = r.base /\ q.informed = r.informed
    BY <1>2, <2>2, ConflictShownRecord
  <2> HIDE DEF q
  <2>4. /\ RowsInv(storedTexts, q) /\ CleanInv(storedTexts, q) /\ q.open
        /\ Loading(q) <=> Loading(r)
    BY <1>2, <2>2, <2>3 DEF SameLoad, SameSave, RowsInv, CleanInv, Loading
  <2>5. w1 \in Worlds /\ w1.me = s /\ w1.r = q
    BY <1>2, <2>3, WithRecord
  <2> HIDE DEF w1
  <2>6. Good(storedTexts, w) /\ w.me = s /\ w.r.open
    BY <1>5, <1>8, <2>4, <2>5
  <2> HIDE DEF w
  <2> QED
    BY <1>7, <2>1, <2>6
<1> QED
  BY <1>9, <1>10, <1>11

-----------------------------------------------------------------------------
(***************************************************************************)
(* The invariant                                                           *)
(***************************************************************************)
\* The effect that runs the autosave timer leaves a truth value.
LEMMA TimerKeeps ==
    ASSUME timer \in [Tabs -> BOOLEAN], RunEffects
    PROVE  timer' \in [Tabs -> BOOLEAN]
<1>1. ASSUME NEW t \in Tabs
      PROVE  (IF Watched(t)' = Watched(t) THEN timer[t] ELSE AutoSaveDue(t)') \in BOOLEAN
  <2>1. AutoSaveDue(t)' \in BOOLEAN
    BY DEF AutoSaveDue
  <2> QED
    BY <2>1
<1> QED
  BY <1>1 DEF RunEffects

LEMMA InitInv == EditorInit => IInv
<1> SUFFICES ASSUME EditorInit PROVE IInv
  OBVIOUS
<1>1. 0 \in 0..MaxEdits /\ 0 \in 0..MaxFaults /\ EmptyText \in Texts
  BY ParameterAssumption
<1>2. <<>> \in Seq(Texts) /\ Len(<<>>) = 0
  OBVIOUS
<1>3. Typed
  BY <1>1, <1>2 DEF EditorInit, Typed, Rows
<1>4. ServerInv
  BY <1>2 DEF EditorInit, ServerInv, Genuine
<1>5. TabInv
  BY DEF EditorInit, TabInv
<1>6. SessionsInv
  BY DEF EditorInit, SessionsInv
<1>7. timer \in [Tabs -> BOOLEAN]
  BY DEF EditorInit
<1> QED
  BY <1>3, <1>4, <1>5, <1>6, <1>7 DEF IInv, Core

LEMMA NextInv == IInv /\ [EditorNext]_editorVars => IInv'
<1> SUFFICES ASSUME IInv, [EditorNext]_editorVars PROVE IInv'
  OBVIOUS
<1>1. Core /\ timer \in [Tabs -> BOOLEAN]
  BY DEF IInv
<1>2. ASSUME NEW t \in Tabs, UserStep(t) PROVE Core'
  <2>1. CASE Enter(t)
    BY <1>1, <2>1, EnterKeeps
  <2>2. CASE Leave(t)
    BY <1>1, <2>2, LeaveKeeps
  <2>3. CASE SetContent(t)
    BY <1>1, <2>3, SetContentKeeps
  <2>4. CASE SaveNow(t)
    BY <1>1, <2>4, SaveNowKeeps
  <2>5. CASE Focus(t)
    BY <1>1, <2>5, FocusKeeps
  <2>6. CASE Reload(t)
    BY <1>1, <2>6, ReloadKeeps
  <2>7. CASE Resolve(t)
    BY <1>1, <2>7, ResolveKeeps
  <2>8. CASE RestoreDraft(t)
    BY <1>1, <2>8, RestoreDraftKeeps
  <2>9. CASE Close(t)
    BY <1>1, <2>9, CloseKeeps
  <2> QED
    BY <1>2, <2>1, <2>2, <2>3, <2>4, <2>5, <2>6, <2>7, <2>8, <2>9 DEF UserStep
<1>3. ASSUME NEW t \in Tabs, BrowserStep(t) PROVE Core'
  BY <1>1, <1>3, AutoSaveKeeps, OnlineEventKeeps DEF BrowserStep
<1>4. ASSUME NEW s \in Sessions, SessionStep(s) PROVE Core'
  <2>1. CASE GetNote(s)
    BY <1>1, <2>1, GetNoteKeeps
  <2>2. CASE ReceiveNote(s)
    BY <1>1, <2>2, ReceiveNoteKeeps
  <2>3. CASE BeginSave(s)
    BY <1>1, <2>3, BeginSaveKeeps
  <2>4. CASE ServePut(s)
    BY <1>1, <2>4, ServePutKeeps
  <2>5. CASE ReceivePut(s)
    BY <1>1, <2>5, ReceivePutKeeps
  <2>6. CASE GetConflict(s)
    BY <1>1, <2>6, GetConflictKeeps
  <2>7. CASE ReceiveConflict(s)
    BY <1>1, <2>7, ReceiveConflictKeeps
  <2> QED
    BY <1>4, <2>1, <2>2, <2>3, <2>4, <2>5, <2>6, <2>7 DEF SessionStep
<1>5. ASSUME GoOffline PROVE Core'
  BY <1>1, <1>5, FaultCounted, QuietKeeps DEF GoOffline, Core, Typed
<1>6. ASSUME GoOnline PROVE Core'
  <2>1. event' \in [Tabs -> BOOLEAN] /\ online' \in BOOLEAN
    BY <1>6 DEF GoOnline
  <2> QED
    BY <1>1, <1>6, <2>1, FaultCounted, QuietKeeps DEF GoOnline
<1>7. CASE EditorNext
  <2>1. Core'
    <3>1. CASE \E t \in Tabs : UserStep(t) \/ BrowserStep(t)
      BY <1>2, <1>3, <3>1
    <3>2. CASE \E s \in Sessions : SessionStep(s) \/ FailPut(s)
      BY <1>1, <1>4, <3>2, FailPutKeeps
    <3> QED
      BY <1>5, <1>6, <1>7, <3>1, <3>2 DEF EditorNext
  <2>2. timer' \in [Tabs -> BOOLEAN]
    BY <1>1, <1>7, TimerKeeps DEF EditorNext
  <2> QED
    BY <2>1, <2>2 DEF IInv
<1>8. CASE UNCHANGED editorVars
  BY <1>1, <1>8 DEF editorVars, IInv, Core, Typed, ServerInv, TabInv, SessionsInv
<1> QED
  BY <1>7, <1>8

\* In every behaviour the editor keeps its invariant: the rows its sessions
\* hold are rows the server has had, a session that waits in the drain loop is
\* based on one of them, and a conflict and a save exclude each other.
THEOREM RowsAreGenuine == EditorSpec => []IInv
<1>1. EditorInit => IInv
  BY InitInv
<1>2. IInv /\ [EditorNext]_editorVars => IInv'
  BY NextInv
<1> QED
  BY <1>1, <1>2, PTL DEF EditorSpec

\* The variables of the editor keep their types.
THEOREM EditorTypes == EditorSpec => []EditorTypeOK
<1>1. IInv => EditorTypeOK
  BY DEF IInv, Core, Typed, EditorTypeOK
<1> QED
  BY <1>1, RowsAreGenuine, PTL

\* saveNote never overwrites a revision its author has not seen: every PUT on
\* the wire, of an open tab or of one that was closed, quotes an existing
\* revision whose text its author had before him.
THEOREM NoOverwriteUnseen == EditorSpec => []NoSilentOverwrite
<1>1. IInv => NoSilentOverwrite
  BY DEF IInv, Core, SessionsInv, SessionInv, RequestInv, RowsInv, NoSilentOverwrite, Sent
<1> QED
  BY <1>1, RowsAreGenuine, PTL

\* An editor that shows no unsaved changes shows the text of the revision it is
\* based on, whatever was typed, answered or restored before.
THEOREM CleanIsStored == EditorSpec => []CleanMeansStored
<1>1. IInv => CleanMeansStored
  <2> SUFFICES ASSUME IInv, NEW s \in Sessions, Open(s), sess[s].loaded, ~sess[s].dirty
               PROVE  \/ sess[s].base = 0 /\ sess[s].content = EmptyText
                      \/ /\ sess[s].base \in DOMAIN storedTexts
                         /\ sess[s].content = storedTexts[sess[s].base]
    BY DEF CleanMeansStored
  <2>1. CleanInv(storedTexts, sess[s]) /\ storedTexts \in Seq(Texts)
    BY OpenSession DEF IInv
  <2> QED
    BY <2>1 DEF CleanInv, Genuine
<1> QED
  BY <1>1, RowsAreGenuine, PTL

\* A PUT is never under way while its session shows a conflict.
THEOREM NoSaveInConflict == EditorSpec => []ConflictBlocksSaving
<1>1. IInv => ConflictBlocksSaving
  BY DEF IInv, Core, SessionsInv, SessionInv, RequestInv, ConflictBlocksSaving, Sent, Saving
<1> QED
  BY <1>1, RowsAreGenuine, PTL

-----------------------------------------------------------------------------
(***************************************************************************)
(* The drafts.  When the storage takes every draft, the text a session was *)
(* entrusted with stays in its file (FileInv): a step of another session   *)
(* removes that file only when its text is stored, or when the user has    *)
(* moved on from the draft in it (FilesKept).                              *)
(***************************************************************************)
\* The text x is in the history of the note.
Saved(texts, x) == x = EmptyText \/ \E n \in DOMAIN texts : texts[n] = x

\* The text typed last is the text shown until it is stored; a restored draft
\* is the text shown, or the user has moved on from it (T).
DraftInv(texts, T, s, r) ==
    /\ r.typed # Nothing /\ ~Saved(texts, r.typed) => r.content = r.typed /\ r.dirty
    /\ ~r.dirty => r.restored = NoDraft
    /\ r.restored # NoDraft => r.content = r.restored.content \/ r.restored \in T
    /\ r.own # NoDraft => r.own.key = s

FileInv(texts, T, s, r, file) ==
    /\ file # NoDraft => file.savedAt + 1 = r.backups
    /\ /\ r.typed # Nothing /\ ~Saved(texts, r.typed)
       /\ \A d \in T : d.key = s => d.savedAt + 1 < r.backups
       => file # NoDraft /\ file.content = r.typed

DraftsInv ==
    /\ \A t \in Tabs : memory[t] = NoDraft
    /\ \A s \in Sessions : sess[s] = NoSession => disk[s] = NoDraft
    /\ \A s \in Sessions : sess[s] # NoSession =>
          DraftInv(storedTexts, taken, s, sess[s]) /\ FileInv(storedTexts, taken, s, sess[s], disk[s])

\* What the files of the other sessions have become in the world w.
FilesKept(texts, T, w) ==
    \A k \in Sessions : k # w.me =>
        \/ w.disk[k] = disk[k]
        \/ /\ w.disk[k] = NoDraft /\ disk[k] # NoDraft
           /\ \/ Saved(texts, disk[k].content)
              \/ \E d \in T : d.key = k /\ d.savedAt = disk[k].savedAt

Safe(texts, T, w) ==
    /\ w \in Worlds /\ w.memory = NoDraft
    /\ DraftInv(texts, T, w.me, w.r) /\ FileInv(texts, T, w.me, w.r, w.disk[w.me])
    /\ FilesKept(texts, T, w)

\* What p and r have in common: the text and its drafts.
SameDrafts(r, p) ==
    /\ p.content = r.content /\ p.dirty = r.dirty /\ p.typed = r.typed
    /\ p.own = r.own /\ p.restored = r.restored /\ p.backups = r.backups

LEMMA QuietRecords ==
    ASSUME NEW r \in Session, NEW x, NEW y
    PROVE  /\ SameDrafts(r, LoadStarted(r, x)) /\ SameDrafts(r, SaveStarted(r, x))
           /\ SameDrafts(r, SaveEnded(r, x, y)) /\ SameDrafts(r, PutSent(r, x))
           /\ SameDrafts(r, Fetched(r, x)) /\ SameDrafts(r, LoadOver(r))
           /\ SameDrafts(r, LoadFailed(r, x)) /\ SameDrafts(r, Conflicted(r, x))
           /\ SameDrafts(r, Waited(r)) /\ SameDrafts(r, Replied(r, x))
           /\ SameDrafts(r, PutOver(r)) /\ SameDrafts(r, PutTaken(r))
           /\ SameDrafts(r, Refused(r)) /\ SameDrafts(r, OtherSide(r, x))
           /\ SameDrafts(r, ConflictShown(r, x))
<1>1. SameDrafts(r, LoadStarted(r, x)) /\ SameDrafts(r, SaveStarted(r, x))
  BY SessionShape DEF SameDrafts, LoadStarted, SaveStarted
<1>2. SameDrafts(r, SaveEnded(r, x, y)) /\ SameDrafts(r, PutSent(r, x))
  BY SessionShape DEF SameDrafts, SaveEnded, PutSent
<1>3. SameDrafts(r, Fetched(r, x)) /\ SameDrafts(r, LoadOver(r))
  BY SessionShape DEF SameDrafts, Fetched, LoadOver
<1>4. SameDrafts(r, LoadFailed(r, x)) /\ SameDrafts(r, Conflicted(r, x))
  BY SessionShape DEF SameDrafts, LoadFailed, Conflicted
<1>5. SameDrafts(r, Waited(r)) /\ SameDrafts(r, Replied(r, x)) /\ SameDrafts(r, PutOver(r))
  BY SessionShape DEF SameDrafts, Waited, Replied, PutOver
<1>6. SameDrafts(r, PutTaken(r)) /\ SameDrafts(r, Refused(r))
  BY SessionShape DEF SameDrafts, PutTaken, Refused
<1>7. SameDrafts(r, OtherSide(r, x)) /\ SameDrafts(r, ConflictShown(r, x))
  BY SessionShape DEF SameDrafts, OtherSide, ConflictShown
<1> QED
  BY <1>1, <1>2, <1>3, <1>4, <1>5, <1>6, <1>7

LEMMA SameDraftsKeep ==
    ASSUME NEW texts, NEW T, NEW w, Safe(texts, T, w), NEW p \in Session, SameDrafts(w.r, p)
    PROVE  LET v == [w EXCEPT !.r = p]
           IN  Safe(texts, T, v) /\ v.me = w.me /\ v.r = p
<1> DEFINE v == [w EXCEPT !.r = p]
<1>1. w \in Worlds
  BY DEF Safe
<1>2. v \in Worlds /\ v.me = w.me /\ v.r = p /\ v.disk = w.disk /\ v.memory = w.memory
  BY <1>1 DEF Worlds
<1> HIDE DEF v
<1>3. DraftInv(texts, T, v.me, v.r) /\ FileInv(texts, T, v.me, v.r, v.disk[v.me])
  BY <1>2 DEF Safe, SameDrafts, DraftInv, FileInv
<1>4. FilesKept(texts, T, v)
  BY <1>2 DEF Safe, FilesKept
<1> QED
  BY <1>2, <1>3, <1>4 DEF Safe, v

\* The handlers that leave the text and its drafts alone.
LEMMA QuietHandlers ==
    ASSUME NEW texts, NEW T, NEW w, Safe(texts, T, w), Latest(w.me) \in Awaited
    PROVE  /\ Safe(texts, T, StartLoad(w)) /\ StartLoad(w).me = w.me
           /\ Safe(texts, T, StartSave(w)) /\ StartSave(w).me = w.me
           /\ Safe(texts, T, Reconnect(w)) /\ Reconnect(w).me = w.me
<1> DEFINE r == w.r
           l == Latest(w.me)
<1>1. w \in Worlds /\ r \in Session
  BY WorldFields DEF Safe
<1>2. StartLoad(w) = [w EXCEPT !.r = LoadStarted(r, l)]
  BY <1>1 DEF StartLoad, LoadStarted, Worlds
<1>3. StartSave(w) = [w EXCEPT !.r = SaveStarted(r, l)] \/ StartSave(w) = w
  BY <1>1 DEF StartSave, SaveStarted, Worlds
<1>4. LoadStarted(r, l) \in Session /\ SaveStarted(r, l) \in Session
  BY <1>1, LoadStartedRecord, SaveStartedRecord
<1>5. SameDrafts(r, LoadStarted(r, l)) /\ SameDrafts(r, SaveStarted(r, l))
  BY <1>1, QuietRecords
<1>6. Safe(texts, T, StartLoad(w)) /\ StartLoad(w).me = w.me
  BY <1>2, <1>4, <1>5, SameDraftsKeep
<1>7. Safe(texts, T, StartSave(w)) /\ StartSave(w).me = w.me
  <2>1. CASE StartSave(w) = w
    BY <2>1
  <2>2. CASE StartSave(w) = [w EXCEPT !.r = SaveStarted(r, l)]
    BY <1>4, <1>5, <2>2, SameDraftsKeep
  <2> QED
    BY <1>3, <2>1, <2>2
<1> QED
  BY <1>6, <1>7 DEF Reconnect

LEMMA QuietEndSave ==
    ASSUME NEW texts, NEW T, NEW w, Safe(texts, T, w), NEW kind \in Kinds, NEW retryable \in BOOLEAN
    PROVE  Safe(texts, T, EndSave(w, kind, retryable)) /\ EndSave(w, kind, retryable).me = w.me
<1> DEFINE p == SaveEnded(w.r, kind, retryable)
<1>1. w \in Worlds /\ w.r \in Session
  BY WorldFields DEF Safe
<1>2. EndSave(w, kind, retryable) = [w EXCEPT !.r = p]
  BY <1>1 DEF EndSave, SaveEnded, Worlds
<1>3. p \in Session /\ SameDrafts(w.r, p)
  BY <1>1, SaveEndedRecord, QuietRecords, Zenon
<1> HIDE DEF p
<1> QED
  BY <1>2, <1>3, SameDraftsKeep

LEMMA QuietDrain ==
    ASSUME NEW texts, NEW T, NEW w, Safe(texts, T, w)
    PROVE  Safe(texts, T, Drain(w)) /\ Drain(w).me = w.me
<1>1. w \in Worlds /\ w.r \in Session
  BY WorldFields DEF Safe
<1>2. /\ w.r.errorKind \in Kinds /\ w.r.retryable \in BOOLEAN /\ "save" \in Kinds
      /\ w.r.content \in Texts /\ w.r.base \in Bases
  BY <1>1, SessionFields DEF Kinds, Bases
<1>3. Safe(texts, T, SendPut(w)) /\ SendPut(w).me = w.me
  <2> DEFINE put == [content |-> w.r.content, base |-> w.r.base]
             p == PutSent(w.r, put)
  <2>1. SendPut(w) = [w EXCEPT !.r = p]
    BY <1>1 DEF SendPut, PutSent, Worlds
  <2>2. put \in Puts
    BY <1>2 DEF Puts, Bases
  <2> HIDE DEF put
  <2>3. p \in Session /\ SameDrafts(w.r, p)
    BY <1>1, <2>2, PutSentRecord, QuietRecords
  <2> HIDE DEF p
  <2> QED
    BY <2>1, <2>3, SameDraftsKeep
<1>4. \A kind \in Kinds, retryable \in BOOLEAN :
        Safe(texts, T, EndSave(w, kind, retryable)) /\ EndSave(w, kind, retryable).me = w.me
  BY QuietEndSave
<1>5. /\ Safe(texts, T, EndSave(w, w.r.errorKind, w.r.retryable))
      /\ EndSave(w, w.r.errorKind, w.r.retryable).me = w.me
  BY <1>2, <1>4, Zenon
<1>6. /\ Safe(texts, T, EndSave(w, "save", TRUE)) /\ EndSave(w, "save", TRUE).me = w.me
      /\ Safe(texts, T, EndSave(w, "save", FALSE)) /\ EndSave(w, "save", FALSE).me = w.me
  BY <1>2, <1>4, Zenon
<1> QED
  BY <1>3, <1>5, <1>6 DEF Drain

-----------------------------------------------------------------------------
(***************************************************************************)
(* Writing and removing drafts, acceptServer                               *)
(***************************************************************************)
LEMMA GenuineSaved ==
    ASSUME NEW texts, NEW x, Genuine(texts, x), texts \in Seq(Texts)
    PROVE  Saved(texts, x.content)
<1>1. DOMAIN texts = 1..Len(texts)
  OBVIOUS
<1> QED
  BY <1>1 DEF Genuine, Saved

\* writeDraft: the text shown goes into the file of the session.
LEMMA SafeBackup ==
    ASSUME NEW texts, NEW T, NEW w \in Worlds, DraftInv(texts, T, w.me, w.r), FilesKept(texts, T, w),
           w.r.dirty
    PROVE  /\ Safe(texts, T, Backup(w, TRUE)) /\ Backup(w, TRUE).me = w.me
           /\ Alike(w.r, Backup(w, TRUE).r)
<1> DEFINE r == w.r
           n == r.backups
           draft == [key |-> w.me, content |-> r.content, base |-> r.base, savedAt |-> n]
           r1 == [r EXCEPT !.backups = n + 1]
           r2 == [r1 EXCEPT !.own = draft]
           files == [w.disk EXCEPT ![w.me] = draft]
           v == [w EXCEPT !.r = r2, !.disk = files, !.memory = NoDraft]
<1>1. r \in Session /\ n \in Nat /\ w.me \in Sessions /\ r.content \in Texts /\ r.dirty
  BY WorldFields, SessionFields
<1>2. Backup(w, TRUE) = v
  BY DEF Backup, Worlds
<1>3. v \in Worlds /\ v.me = w.me /\ Alike(r, v.r)
  BY <1>2, BackupWorld
<1>4. v.r = r2 /\ v.disk = files /\ v.memory = NoDraft
  BY DEF Worlds
<1>5. /\ draft \in Drafts /\ draft.key = w.me /\ draft.content = r.content /\ draft.savedAt = n
      /\ draft # NoDraft
  BY <1>1, SessionFields, NoDraftAssumption DEF Drafts
<1>6. files[w.me] = draft /\ \A k \in Sessions : k # w.me => files[k] = w.disk[k]
  BY <1>1, WorldFields
<1> HIDE DEF r, n, draft
<1>7. r2.own = draft /\ r2.restored = r.restored /\ r2.backups = n + 1
  BY <1>1, SessionShape DEF n
<1> HIDE DEF r2, files, v
<1>8. v.r.content = r.content /\ v.r.dirty /\ v.r.typed = r.typed
  BY <1>1, <1>3 DEF Alike
<1>9. DraftInv(texts, T, v.me, v.r)
  BY <1>3, <1>4, <1>5, <1>7, <1>8 DEF DraftInv, r
<1>10. FileInv(texts, T, v.me, v.r, v.disk[v.me])
  BY <1>3, <1>4, <1>5, <1>6, <1>7, <1>8 DEF FileInv, DraftInv, r
<1>11. FilesKept(texts, T, v)
  BY <1>3, <1>4, <1>6 DEF FilesKept
<1> QED
  BY <1>2, <1>3, <1>4, <1>9, <1>10, <1>11 DEF Safe, r

\* removeDraft of the session's own draft and of the restored one: of another
\* session only a file goes that holds the restored draft.
LEMMA ClearedFiles ==
    ASSUME NEW texts, NEW T, NEW w \in Worlds, w.disk = disk, Saved(texts, w.r.content),
           w.r.own # NoDraft => w.r.own.key = w.me,
           w.r.restored # NoDraft => w.r.content = w.r.restored.content \/ w.r.restored \in T
    PROVE  LET v == ClearBackups(w)
           IN  /\ v \in Worlds /\ v.me = w.me /\ Alike(w.r, v.r) /\ v.memory = NoDraft
               /\ v.r.own = NoDraft /\ v.r.restored = NoDraft /\ v.r.backups = w.r.backups
               /\ v.disk[w.me] = NoDraft \/ v.disk[w.me] = disk[w.me]
               /\ FilesKept(texts, T, v)
<1> DEFINE r == w.r
           one == Remove(w.disk, r.own)
           two == Remove(one, r.restored)
           r0 == [r EXCEPT !.own = NoDraft]
           r1 == [r0 EXCEPT !.restored = NoDraft]
           v == [w EXCEPT !.r = r1, !.disk = two, !.memory = NoDraft]
<1>1. /\ r \in Session /\ w.me \in Sessions /\ r.own \in OwnDrafts /\ r.restored \in OwnDrafts
      /\ disk \in [Sessions -> Drafts \cup {NoDraft}]
  BY WorldFields, SessionFields DEF OwnDrafts
<1>2. ClearBackups(w) = v
  BY DEF ClearBackups, Worlds
<1>3. v \in Worlds /\ v.me = w.me /\ Alike(r, v.r)
  BY <1>2, ClearWorld
<1>4. v.r = r1 /\ v.disk = two /\ v.memory = NoDraft
  BY DEF Worlds
<1>5. /\ Saved(texts, r.content)
      /\ r.own # NoDraft => r.own.key = w.me
      /\ r.restored # NoDraft => r.content = r.restored.content \/ r.restored \in T
  OBVIOUS
<1> HIDE DEF r
<1>6. r1.own = NoDraft /\ r1.restored = NoDraft /\ r1.backups = r.backups
  BY <1>1, SessionShape
<1> HIDE DEF r1, v
<1>7. ASSUME NEW files \in [Sessions -> Drafts \cup {NoDraft}], NEW d \in OwnDrafts,
             NEW k \in Sessions
      PROVE  \/ Remove(files, d)[k] = files[k]
             \/ /\ Remove(files, d)[k] = NoDraft /\ files[k] # NoDraft /\ d # NoDraft
                /\ d.key = k /\ files[k].content = d.content /\ files[k].savedAt = d.savedAt
  BY DEF Remove
<1>8. one \in [Sessions -> Drafts \cup {NoDraft}]
  BY <1>1, RemoveFiles DEF OwnDrafts
<1>9. ASSUME NEW k \in Sessions
      PROVE  one[k] = disk[k] \/ (k = w.me /\ one[k] = NoDraft)
  BY <1>1, <1>5, <1>7
<1> HIDE DEF one
<1>10. ASSUME NEW k \in Sessions
       PROVE  \/ two[k] = one[k]
              \/ /\ two[k] = NoDraft /\ one[k] # NoDraft /\ r.restored # NoDraft
                 /\ r.restored.key = k /\ one[k].content = r.restored.content
                 /\ one[k].savedAt = r.restored.savedAt
  BY <1>1, <1>7, <1>8
<1> HIDE DEF two
<1>11. two[w.me] = NoDraft \/ two[w.me] = disk[w.me]
  BY <1>1, <1>9, <1>10
<1>12. FilesKept(texts, T, v)
  <2> SUFFICES ASSUME NEW k \in Sessions, k # w.me, two[k] # disk[k]
               PROVE  /\ two[k] = NoDraft /\ disk[k] # NoDraft
                      /\ \/ Saved(texts, disk[k].content)
                         \/ \E d \in T : d.key = k /\ d.savedAt = disk[k].savedAt
    BY <1>3, <1>4 DEF FilesKept
  <2>1. /\ two[k] = NoDraft /\ disk[k] # NoDraft /\ r.restored # NoDraft
        /\ r.restored.key = k /\ disk[k].content = r.restored.content
        /\ disk[k].savedAt = r.restored.savedAt
    BY <1>9, <1>10
  <2>2. CASE r.content = r.restored.content
    BY <1>5, <2>1, <2>2
  <2>3. CASE r.restored \in T
    BY <2>1, <2>3
  <2> QED
    BY <1>5, <2>1, <2>2, <2>3
<1> QED
  BY <1>2, <1>3, <1>4, <1>6, <1>11, <1>12 DEF r

\* The record acceptServer makes of the session r, and the world it hands on.
Accepted(r, content, saved, told) ==
    [r EXCEPT !.content = content, !.dirty = (content # saved.content),
              !.base = saved.revision, !.loaded = TRUE, !.errorKind = "none",
              !.retryable = TRUE, !.conflict = NoRow, !.informed = told]

AcceptedWorld(w, content, saved, seen) ==
    [w EXCEPT !.r = Accepted(w.r, content, saved,
                             ~(content # saved.content) \/ seen
                               \/ (saved.revision = w.r.base /\ w.r.informed))]

LEMMA AcceptedFields ==
    ASSUME NEW w \in Worlds, NEW content \in Texts, NEW saved \in Rows, NEW seen \in BOOLEAN
    PROVE  LET x == AcceptedWorld(w, content, saved, seen)
           IN  /\ x \in Worlds /\ x.me = w.me /\ x.disk = w.disk
               /\ x.r.content = content /\ x.r.typed = w.r.typed
               /\ x.r.dirty = (content # saved.content)
               /\ x.r.own = w.r.own /\ x.r.restored = w.r.restored
               /\ x.r.backups = w.r.backups
<1> DEFINE r == w.r
           told == ~(content # saved.content) \/ seen \/ (saved.revision = r.base /\ r.informed)
           p == Accepted(r, content, saved, told)
           x == AcceptedWorld(w, content, saved, seen)
<1>1. r \in Session /\ told \in BOOLEAN
  BY WorldFields, SessionFields
<1>2. x = [w EXCEPT !.r = p]
  BY DEF AcceptedWorld
<1> HIDE DEF r, told, x
<1>3. (content # saved.content) \in Flags /\ told \in Flags /\ saved.revision \in Bases
  BY <1>1 DEF Flags, Bases, Rows
<1>4. p \in Session
  BY <1>1, <1>3, SessionShape, FieldValues DEF Accepted
<1>5. /\ p.content = content /\ p.typed = r.typed /\ p.dirty = (content # saved.content)
      /\ p.own = r.own /\ p.restored = r.restored /\ p.backups = r.backups
  BY <1>1, SessionShape DEF Accepted
<1> HIDE DEF p
<1>6. x \in Worlds /\ x.me = w.me /\ x.disk = w.disk /\ x.r = p
  BY <1>2, <1>4 DEF Worlds
<1> QED
  BY <1>5, <1>6 DEF x, r

LEMMA AcceptPlace ==
    ASSUME NEW w \in Worlds, NEW saved \in Rows, NEW replace \in BOOLEAN, NEW seen \in BOOLEAN
    PROVE  LET v == Accept(w, saved, replace, seen, TRUE)
           IN  v \in Worlds /\ v.me = w.me
<1> DEFINE content == IF replace THEN saved.content ELSE w.r.content
           x == AcceptedWorld(w, content, saved, seen)
<1>1. Accept(w, saved, replace, seen, TRUE) =
        IF content # saved.content THEN Backup(x, TRUE) ELSE ClearBackups(x)
  BY DEF Accept, Agrees, BaseAfter, Accepted, AcceptedWorld, Worlds
<1>2. content \in Texts
  BY WorldFields, SessionFields DEF Rows
<1> HIDE DEF content
<1>3. x \in Worlds /\ x.me = w.me
  BY <1>2, AcceptedFields
<1> HIDE DEF x
<1> QED
  BY <1>1, <1>3, BackupWorld, ClearWorld

\* acceptServer of a stored text, which replaces no unsaved text.
LEMMA SafeAccept ==
    ASSUME NEW texts, NEW T, NEW w, Safe(texts, T, w), w.disk = disk,
           NEW saved \in Rows, Saved(texts, saved.content),
           NEW replace \in BOOLEAN, NEW seen \in BOOLEAN, replace => ~w.r.dirty
    PROVE  Safe(texts, T, Accept(w, saved, replace, seen, TRUE))
<1> DEFINE content == IF replace THEN saved.content ELSE w.r.content
           v == Accept(w, saved, replace, seen, TRUE)
           r == w.r
           x == AcceptedWorld(w, content, saved, seen)
<1> SUFFICES Safe(texts, T, v)
  OBVIOUS
<1>1. w \in Worlds /\ r \in Session /\ content \in Texts
  BY WorldFields, SessionFields DEF Safe, Rows
<1>2. v = IF content # saved.content THEN Backup(x, TRUE) ELSE ClearBackups(x)
  BY <1>1 DEF Accept, Agrees, BaseAfter, Accepted, AcceptedWorld, Worlds
<1>3. /\ DraftInv(texts, T, w.me, r) /\ FileInv(texts, T, w.me, r, disk[w.me]) /\ FilesKept(texts, T, w)
      /\ content = IF replace THEN saved.content ELSE r.content
      /\ replace => ~r.dirty
      /\ Saved(texts, saved.content)
  BY DEF Safe
<1>4. /\ r.typed # Nothing /\ ~Saved(texts, r.typed) => content = r.typed
      /\ r.restored # NoDraft => content = r.restored.content \/ r.restored \in T
      /\ r.own # NoDraft => r.own.key = w.me
  BY <1>3 DEF DraftInv
<1> HIDE DEF v, r, content
<1>5. /\ x \in Worlds /\ x.me = w.me /\ x.disk = disk
      /\ x.r.content = content /\ x.r.typed = r.typed /\ x.r.dirty = (content # saved.content)
      /\ x.r.own = r.own /\ x.r.restored = r.restored /\ x.r.backups = r.backups
  BY <1>1, AcceptedFields DEF r
<1> HIDE DEF x
<1>6. CASE content # saved.content
  <2>1. v = Backup(x, TRUE)
    BY <1>2, <1>6
  <2>2. DraftInv(texts, T, x.me, x.r)
    BY <1>4, <1>5, <1>6 DEF DraftInv
  <2>3. FilesKept(texts, T, x)
    BY <1>3, <1>5 DEF FilesKept
  <2> QED
    BY <1>5, <1>6, <2>1, <2>2, <2>3, SafeBackup
<1>7. CASE content = saved.content
  <2>1. v = ClearBackups(x)
    BY <1>2, <1>7
  <2>2. /\ v \in Worlds /\ v.me = w.me /\ Alike(x.r, v.r) /\ v.memory = NoDraft
        /\ v.r.own = NoDraft /\ v.r.restored = NoDraft /\ v.r.backups = r.backups
        /\ v.disk[w.me] = NoDraft \/ v.disk[w.me] = disk[w.me]
        /\ FilesKept(texts, T, v)
    BY <1>3, <1>4, <1>5, <1>7, <2>1, ClearedFiles
  <2>3. v.r.typed = r.typed /\ (v.r.typed # Nothing => Saved(texts, v.r.typed))
    BY <1>3, <1>4, <1>5, <1>7, <2>2 DEF Alike
  <2>4. DraftInv(texts, T, v.me, v.r)
    BY <2>2, <2>3 DEF DraftInv
  <2>5. FileInv(texts, T, v.me, v.r, v.disk[v.me])
    BY <1>3, <2>2, <2>3 DEF FileInv
  <2> QED
    BY <2>2, <2>4, <2>5 DEF Safe
<1> QED
  BY <1>6, <1>7

\* Choosing the server's text gives the local one up.
LEMMA SafeGivenUp ==
    ASSUME NEW texts, NEW T, NEW w, Safe(texts, T, w), w.disk = disk,
           NEW saved \in Rows, Saved(texts, saved.content),
           NEW seen \in BOOLEAN, w.r.restored # NoDraft => w.r.restored \in T
    PROVE  Safe(texts, T, [Accept(w, saved, TRUE, seen, TRUE) EXCEPT !.r.typed = Nothing])
<1> DEFINE a == Accept(w, saved, TRUE, seen, TRUE)
           v == [a EXCEPT !.r.typed = Nothing]
           r == w.r
           content == saved.content
           x == AcceptedWorld(w, content, saved, seen)
           q == GivenUp(a.r)
<1> SUFFICES Safe(texts, T, v)
  OBVIOUS
<1>1. w \in Worlds /\ r \in Session /\ content \in Texts
  BY WorldFields DEF Safe, Rows
<1>2. a = ClearBackups(x)
  BY <1>1 DEF Accept, Agrees, BaseAfter, Accepted, AcceptedWorld, Worlds
<1>3. /\ FileInv(texts, T, w.me, r, disk[w.me]) /\ Saved(texts, content)
      /\ r.restored # NoDraft => r.restored \in T
      /\ r.own # NoDraft => r.own.key = w.me
  BY DEF Safe, DraftInv
<1> HIDE DEF a, r, content
<1>4. /\ x \in Worlds /\ x.me = w.me /\ x.disk = disk
      /\ x.r.content = content /\ x.r.own = r.own /\ x.r.restored = r.restored
      /\ x.r.backups = r.backups
  BY <1>1, AcceptedFields DEF r
<1> HIDE DEF x
<1>5. /\ a \in Worlds /\ a.me = w.me /\ a.memory = NoDraft
      /\ a.r.own = NoDraft /\ a.r.restored = NoDraft /\ a.r.backups = r.backups
      /\ a.disk[w.me] = NoDraft \/ a.disk[w.me] = disk[w.me]
      /\ FilesKept(texts, T, a)
  BY <1>2, <1>3, <1>4, ClearedFiles
<1>6. a.r \in Session
  BY <1>5, WorldFields
<1>7. /\ q \in Session /\ q.typed = Nothing /\ q.own = NoDraft /\ q.restored = NoDraft
      /\ q.backups = r.backups
  BY <1>5, <1>6, GivenUpRecord, SessionShape DEF GivenUp
<1>8. v = [a EXCEPT !.r = q]
  BY <1>5 DEF GivenUp, Worlds
<1> HIDE DEF q, v
<1>9. v \in Worlds /\ v.me = w.me /\ v.r = q /\ v.disk = a.disk /\ v.memory = NoDraft
  BY <1>5, <1>7, <1>8 DEF Worlds
<1>10. DraftInv(texts, T, v.me, v.r) /\ FileInv(texts, T, v.me, v.r, v.disk[v.me])
  BY <1>3, <1>5, <1>7, <1>9 DEF DraftInv, FileInv
<1>11. FilesKept(texts, T, v)
  BY <1>5, <1>9 DEF FilesKept
<1> QED
  BY <1>9, <1>10, <1>11 DEF Safe

-----------------------------------------------------------------------------
(***************************************************************************)
(* What a step leaves of the drafts                                        *)
(***************************************************************************)
LEMMA StorageTakes ==
    ASSUME StorageMayFail = FALSE, NEW ok \in StorageOutcomes
    PROVE  ok = TRUE
BY DEF StorageOutcomes

LEMMA SafeWorld ==
    ASSUME Core, DraftsInv, NEW s \in Sessions, sess[s] # NoSession, NEW T, taken \subseteq T
    PROVE  /\ Safe(storedTexts, T, World(s)) /\ World(s).me = s /\ World(s).r = sess[s]
           /\ World(s).disk = disk /\ World(s) \in Worlds /\ sess[s] \in Session
           /\ Latest(s) \in Awaited
<1> DEFINE w == World(s)
<1>1. /\ w \in Worlds /\ w.me = s /\ w.r = sess[s] /\ TabOf(s) \in Tabs
      /\ sess[s] \in Session /\ Latest(s) \in Awaited
  BY GoodWorld DEF Good
<1>2. w.disk = disk /\ w.memory = memory[TabOf(s)]
  BY DEF World
<1> HIDE DEF w
<1>3. /\ DraftInv(storedTexts, taken, s, sess[s])
      /\ FileInv(storedTexts, taken, s, sess[s], disk[s])
      /\ memory[TabOf(s)] = NoDraft
  BY <1>1 DEF DraftsInv
<1>4. DraftInv(storedTexts, T, s, sess[s]) /\ FileInv(storedTexts, T, s, sess[s], disk[s])
  BY <1>3 DEF DraftInv, FileInv
<1>5. FilesKept(storedTexts, T, w)
  BY <1>2 DEF FilesKept
<1> QED
  BY <1>1, <1>2, <1>3, <1>4, <1>5 DEF Safe, w

LEMMA SavedRemain ==
    ASSUME Core, \/ storedTexts' = storedTexts
                 \/ \E text \in Texts : storedTexts' = Append(storedTexts, text)
    PROVE  \A x : Saved(storedTexts, x) => Saved(storedTexts', x)
<1>1. storedTexts \in Seq(Texts)
  BY DEF Core, Typed
<1>2. ASSUME NEW text \in Texts, storedTexts' = Append(storedTexts, text)
      PROVE  \A n \in DOMAIN storedTexts :
                n \in DOMAIN storedTexts' /\ storedTexts'[n] = storedTexts[n]
  BY <1>1, <1>2
<1> QED
  BY <1>2 DEF Saved

LEMMA FileKept ==
    ASSUME NEW texts, NEW more, \A x : Saved(texts, x) => Saved(more, x),
           NEW T, NEW U, T \subseteq U, NEW s, NEW r, NEW file, NEW next,
           FileInv(texts, T, s, r, file), r.backups \in Nat,
           \/ next = file
           \/ /\ next = NoDraft /\ file # NoDraft
              /\ \/ Saved(texts, file.content)
                 \/ \E d \in U : d.key = s /\ d.savedAt = file.savedAt
    PROVE  FileInv(more, U, s, r, next)
<1>1. next # NoDraft => next.savedAt + 1 = r.backups
  BY DEF FileInv
<1>2. ASSUME r.typed # Nothing, ~Saved(more, r.typed),
             \A d \in U : d.key = s => d.savedAt + 1 < r.backups
      PROVE  next # NoDraft /\ next.content = r.typed
  <2>1. ~Saved(texts, r.typed)
    BY <1>2
  <2>2. \A d \in T : d.key = s => d.savedAt + 1 < r.backups
    BY <1>2
  <2>3. file # NoDraft /\ file.content = r.typed /\ file.savedAt + 1 = r.backups
    BY <1>2, <2>1, <2>2 DEF FileInv
  <2>4. ~ \E d \in U : d.key = s /\ d.savedAt = file.savedAt
    <3> SUFFICES ASSUME NEW d \in U, d.key = s, d.savedAt = file.savedAt PROVE FALSE
      OBVIOUS
    <3>1. r.backups < r.backups
      BY <1>2, <2>3
    <3> QED
      BY <3>1
  <2> QED
    BY <2>1, <2>3, <2>4
<1> QED
  BY <1>1, <1>2 DEF FileInv

LEMMA PublishSafe ==
    ASSUME Core, DraftsInv, NEW w, Safe(storedTexts, taken', w), sess[w.me] # NoSession,
           Publish(w), taken \subseteq taken',
           \/ storedTexts' = storedTexts
           \/ \E text \in Texts : storedTexts' = Append(storedTexts, text)
    PROVE  DraftsInv'
<1> DEFINE me == w.me
           r == w.r
<1>1. /\ me \in Sessions /\ r \in Session /\ TabOf(me) \in Tabs /\ w.memory = NoDraft
      /\ w.disk \in [Sessions -> Drafts \cup {NoDraft}]
      /\ DraftInv(storedTexts, taken', me, r)
      /\ FileInv(storedTexts, taken', me, r, w.disk[me])
  BY WorldFields DEF Safe, Sessions, TabOf
<1>2. /\ sess' = [sess EXCEPT ![me] = r] /\ disk' = w.disk
      /\ memory' = [memory EXCEPT ![TabOf(me)] = NoDraft]
      /\ DOMAIN sess = Sessions /\ memory \in [Tabs -> Drafts \cup {NoDraft}]
  BY <1>1 DEF Publish, Core, Typed
<1>3. sess'[me] = r /\ r # NoSession /\ \A s \in Sessions : s # me => sess'[s] = sess[s]
  BY <1>1, <1>2, NoSessionAssumption
<1>4. \A x : Saved(storedTexts, x) => Saved(storedTexts', x)
  BY SavedRemain
<1>5. ASSUME NEW s \in Sessions, s # me
      PROVE  \/ disk'[s] = disk[s]
             \/ /\ disk'[s] = NoDraft /\ disk[s] # NoDraft
                /\ \/ Saved(storedTexts, disk[s].content)
                   \/ \E d \in taken' : d.key = s /\ d.savedAt = disk[s].savedAt
  BY <1>2, <1>5 DEF Safe, FilesKept
<1>6. \A t \in Tabs : memory'[t] = NoDraft
  BY <1>1, <1>2 DEF DraftsInv
<1>7. ASSUME NEW s \in Sessions, sess'[s] = NoSession PROVE disk'[s] = NoDraft
  <2>1. s # me /\ sess[s] = NoSession
    BY <1>3, <1>7
  <2> QED
    BY <1>5, <2>1 DEF DraftsInv
<1>8. ASSUME NEW s \in Sessions, sess'[s] # NoSession
      PROVE  /\ DraftInv(storedTexts', taken', s, sess'[s])
             /\ FileInv(storedTexts', taken', s, sess'[s], disk'[s])
  <2>1. CASE s = me
    BY <1>1, <1>2, <1>3, <1>4, <2>1 DEF DraftInv, FileInv
  <2>2. CASE s # me
    <3>1. /\ sess'[s] = sess[s] /\ DraftInv(storedTexts, taken, s, sess[s])
          /\ FileInv(storedTexts, taken, s, sess[s], disk[s])
      BY <1>3, <1>8, <2>2 DEF DraftsInv
    <3> DEFINE p == sess[s]
    <3>2. sess'[s] = p
      BY <3>1
    <3> HIDE DEF p
    <3>3. DraftInv(storedTexts', taken', s, p)
      BY <1>4, <3>1 DEF DraftInv, p
    <3>4. FileInv(storedTexts, taken, s, p, disk[s])
      BY <3>1 DEF p
    <3>5. FileInv(storedTexts', taken', s, p, disk'[s])
      <4>1. p.backups \in Nat
        BY <1>3, <1>8, <2>2, GoodWorld, SessionFields DEF p
      <4> QED
        BY <1>4, <1>5, <2>2, <3>4, <4>1, FileKept
    <3> QED
      BY <3>2, <3>3, <3>5
  <2> QED
    BY <2>1, <2>2
<1> QED
  BY <1>6, <1>7, <1>8 DEF DraftsInv

\* A handler of the tab t on its session, and a step of the requests of a
\* session, that end in a safe world.
LEMMA ActiveSafe ==
    ASSUME Core, DraftsInv, NEW t \in Tabs, active[t] # NoSession,
           NEW w, Safe(storedTexts, taken', w), w.me = active[t], Publish(w),
           taken \subseteq taken', storedTexts' = storedTexts
    PROVE  DraftsInv'
BY ActiveSession, PublishSafe

LEMMA InnerSafe ==
    ASSUME Core, DraftsInv, NEW s \in Sessions, sess[s] # NoSession,
           NEW w, Safe(storedTexts, taken, w), w.me = s, Inner(w),
           \/ storedTexts' = storedTexts
           \/ \E text \in Texts : storedTexts' = Append(storedTexts, text)
    PROVE  DraftsInv'
<1>1. Publish(w) /\ taken' = taken
  BY DEF Inner
<1>2. Safe(storedTexts, taken', w)
  BY <1>1
<1> QED
  BY <1>1, <1>2, PublishSafe

LEMMA UnchangedSafe ==
    ASSUME DraftsInv, UNCHANGED <<storedTexts, sess, disk, memory, taken>>
    PROVE  DraftsInv'
BY DEF DraftsInv

\* The session of a tab, as its handlers find it.
LEMMA SafeActive ==
    ASSUME Core, DraftsInv, NEW t \in Tabs, active[t] # NoSession, NEW T, taken \subseteq T
    PROVE  LET s == active[t]
           IN  /\ Safe(storedTexts, T, World(s)) /\ World(s).me = s /\ World(s).r = sess[s]
               /\ World(s).disk = disk /\ World(s) \in Worlds /\ sess[s] \in Session
               /\ s \in Sessions /\ Latest(s) \in Awaited
BY ActiveSession, SafeWorld

LEMMA SaveSafe ==
    ASSUME Core, DraftsInv, NEW t \in Tabs, OnActive(t, StartSave), taken' = taken
    PROVE  DraftsInv'
<1> DEFINE w == StartSave(World(active[t]))
<1>1. active[t] # NoSession /\ Publish(w) /\ storedTexts' = storedTexts
  BY DEF OnActive
<1>2. Safe(storedTexts, taken', w) /\ w.me = active[t]
  BY <1>1, SafeActive, QuietHandlers
<1> HIDE DEF w
<1> QED
  BY <1>1, <1>2, ActiveSafe

LEMMA ReconnectSafe ==
    ASSUME Core, DraftsInv, NEW t \in Tabs, OnActive(t, Reconnect), taken' = taken
    PROVE  DraftsInv'
<1> DEFINE w == Reconnect(World(active[t]))
<1>1. active[t] # NoSession /\ Publish(w) /\ storedTexts' = storedTexts
  BY DEF OnActive
<1>2. Safe(storedTexts, taken', w) /\ w.me = active[t]
  BY <1>1, SafeActive, QuietHandlers
<1> HIDE DEF w
<1> QED
  BY <1>1, <1>2, ActiveSafe

LEMMA QuietUserSafe ==
    ASSUME Core, DraftsInv, NEW t \in Tabs,
           Leave(t) \/ SaveNow(t) \/ AutoSave(t) \/ Focus(t) \/ OnlineEvent(t) \/ Reload(t)
    PROVE  DraftsInv'
<1>1. CASE Leave(t) \/ SaveNow(t) \/ AutoSave(t)
  BY <1>1, SaveSafe DEF Leave, SaveNow, AutoSave
<1>2. CASE Focus(t)
  BY <1>2, ReconnectSafe DEF Focus
<1>3. CASE OnlineEvent(t)
  <2>1. taken' = taken
    BY <1>3 DEF OnlineEvent
  <2>2. CASE active[t] = NoSession
    BY <1>3, <2>1, <2>2, UnchangedSafe DEF OnlineEvent
  <2>3. CASE active[t] # NoSession
    BY <1>3, <2>1, <2>3, ReconnectSafe DEF OnlineEvent
  <2> QED
    BY <2>2, <2>3
<1>4. CASE Reload(t)
  <2> DEFINE w == StartLoad(World(active[t]))
  <2>1. active[t] # NoSession /\ Publish(w) /\ storedTexts' = storedTexts /\ taken' = taken
    BY <1>4 DEF Reload, OnActive
  <2>2. Safe(storedTexts, taken', w) /\ w.me = active[t]
    BY <2>1, SafeActive, QuietHandlers
  <2> HIDE DEF w
  <2> QED
    BY <2>1, <2>2, ActiveSafe
<1> QED
  BY <1>1, <1>2, <1>3, <1>4

\* A keystroke: the restored draft is given up, the new text is backed up.
LEMMA SetContentSafe ==
    ASSUME Core, DraftsInv, StorageMayFail = FALSE, NEW t \in Tabs, SetContent(t)
    PROVE  DraftsInv'
<1> DEFINE s == active[t]
           r == sess[s]
<1>1. s # NoSession /\ taken' = taken \cup ({r.restored} \ {NoDraft})
  BY DEF SetContent, MoveOn
<1>2. /\ s \in Sessions /\ r \in Session /\ World(s) \in Worlds /\ World(s).me = s
      /\ World(s).r = r /\ World(s).disk = disk /\ taken \subseteq taken'
      /\ Safe(storedTexts, taken', World(s))
  BY <1>1, SafeActive
<1>3. PICK text \in Texts, ok \in StorageOutcomes :
        LET x == [World(s) EXCEPT !.r.content = text, !.r.dirty = TRUE, !.r.typed = text,
                    !.r.errorKind = IF World(s).r.errorKind = "save" THEN "none" ELSE @,
                    !.r.retryable = World(s).r.errorKind = "save" \/ @]
            w == Backup(x, ok)
        IN  Publish(w) /\ storedTexts' = storedTexts
  BY DEF SetContent, OnActive
<1> DEFINE p == Edited(r, text)
           x == [World(s) EXCEPT !.r = p]
           w == Backup(x, TRUE)
<1>4. Publish(w) /\ storedTexts' = storedTexts
  <2>1. x = [World(s) EXCEPT !.r.content = text, !.r.dirty = TRUE, !.r.typed = text,
                    !.r.errorKind = IF World(s).r.errorKind = "save" THEN "none" ELSE @,
                    !.r.retryable = World(s).r.errorKind = "save" \/ @]
    <3> HIDE DEF s, r
    <3>1. World(s) \in Worlds /\ World(s).r = r
      BY <1>2
    <3> QED
      BY <3>1 DEF Edited, Worlds
  <2>2. ok = TRUE
    BY StorageTakes
  <2> QED
    BY <1>3, <2>1, <2>2
<1>5. DraftInv(storedTexts, taken', s, r)
  BY <1>2 DEF Safe
<1>6. r.restored # NoDraft => r.restored \in taken'
  BY <1>1
<1> HIDE DEF s, r
<1>7. /\ p \in Session /\ p.content = text /\ p.dirty = TRUE /\ p.typed = text
      /\ p.own = r.own /\ p.restored = r.restored
  <2>1. p \in Session
    BY <1>2, EditedRecord
  <2>2. /\ p.content = text /\ p.dirty = TRUE /\ p.typed = text
        /\ p.own = r.own /\ p.restored = r.restored
    BY <1>2, SessionShape DEF Edited
  <2> QED
    BY <2>1, <2>2
<1> HIDE DEF p
<1>8. x \in Worlds /\ x.me = s /\ x.r = p /\ x.disk = disk
  BY <1>2, <1>7 DEF Worlds
<1> HIDE DEF x
<1>9. DraftInv(storedTexts, taken', x.me, x.r) /\ FilesKept(storedTexts, taken', x)
  BY <1>5, <1>6, <1>7, <1>8 DEF DraftInv, FilesKept
<1>10. Safe(storedTexts, taken', w) /\ w.me = s
  BY <1>7, <1>8, <1>9, SafeBackup
<1> HIDE DEF w
<1> QED
  BY <1>1, <1>2, <1>4, <1>10, ActiveSafe DEF s

\* The conflict dialog: the local text is kept and saved, or given up.
LEMMA ResolveSafe ==
    ASSUME Core, DraftsInv, StorageMayFail = FALSE, NEW t \in Tabs, Resolve(t)
    PROVE  DraftsInv'
<1> DEFINE s == active[t]
           r == sess[s]
           saved == r.conflict
<1>1. s # NoSession /\ saved # NoRow
  BY DEF Resolve
<1>2. PICK local \in BOOLEAN, ok \in StorageOutcomes :
        LET chosen == Accept(World(s), World(s).r.conflict, ~local, TRUE, ok)
            w == IF local THEN StartSave(chosen) ELSE [chosen EXCEPT !.r.typed = Nothing]
        IN  /\ Publish(w) /\ storedTexts' = storedTexts
            /\ IF local THEN UNCHANGED taken ELSE MoveOn(s)
  BY DEF Resolve, OnActive
<1>3. /\ taken \subseteq taken'
      /\ ~local => (r.restored # NoDraft => r.restored \in taken')
  BY <1>2 DEF MoveOn
<1>4. /\ s \in Sessions /\ r \in Session /\ World(s).me = s /\ World(s).r = r
      /\ World(s) \in Worlds /\ World(s).disk = disk /\ Latest(s) \in Awaited
      /\ Safe(storedTexts, taken', World(s))
  BY <1>1, <1>3, SafeActive
<1>5. saved \in Rows /\ Saved(storedTexts, saved.content)
  <2>1. SessionInv(storedTexts, s, r) /\ storedTexts \in Seq(Texts)
    BY <1>1, ActiveSession DEF Core, Typed
  <2>2. saved \in Rows /\ Genuine(storedTexts, saved)
    BY <1>1, <2>1 DEF SessionInv, RequestInv, RowsInv
  <2> QED
    BY <2>1, <2>2, GenuineSaved
<1>6. ok = TRUE
  BY StorageTakes
<1> HIDE DEF r, saved
<1> DEFINE w0 == World(s)
<1>w. /\ w0.me = s /\ w0.disk = disk /\ Safe(storedTexts, taken', w0) /\ w0.r = r
      /\ w0.r.conflict = saved
  BY <1>4 DEF saved
<1>7. CASE local
  <2> DEFINE chosen == Accept(w0, saved, FALSE, TRUE, TRUE)
  <2>1. Publish(StartSave(chosen)) /\ storedTexts' = storedTexts
    BY <1>2, <1>6, <1>7, <1>w
  <2> HIDE DEF w0
  <2>2. ASSUME NEW replace \in BOOLEAN, NEW seen \in BOOLEAN, ~replace
        PROVE  Safe(storedTexts, taken', Accept(w0, saved, replace, seen, TRUE))
    <3>1. w0.disk = disk /\ (replace => ~w0.r.dirty)
      BY <1>w, <2>2
    <3> QED
      BY <1>5, <1>w, <3>1, SafeAccept
  <2>3. FALSE \in BOOLEAN /\ TRUE \in BOOLEAN /\ ~FALSE
    OBVIOUS
  <2>4. Safe(storedTexts, taken', chosen)
    BY <2>2, <2>3, Zenon
  <2>m. chosen.me = s
    <3>1. ASSUME NEW replace \in BOOLEAN, NEW seen \in BOOLEAN
          PROVE  LET v == Accept(w0, saved, replace, seen, TRUE)
                 IN  v \in Worlds /\ v.me = w0.me
      BY <1>4, <1>5, AcceptPlace DEF w0
    <3> QED
      BY <1>w, <2>3, <3>1, Zenon
  <2> HIDE DEF chosen
  <2>5. Safe(storedTexts, taken', StartSave(chosen)) /\ StartSave(chosen).me = s
    BY <1>4, <2>4, <2>m, QuietHandlers
  <2> QED
    BY <1>1, <1>3, <2>1, <2>5, ActiveSafe
<1>8. CASE ~local
  <2> DEFINE w == [Accept(w0, saved, TRUE, TRUE, TRUE) EXCEPT !.r.typed = Nothing]
  <2>1. Publish(w) /\ storedTexts' = storedTexts
    BY <1>2, <1>6, <1>8, <1>w
  <2> HIDE DEF w0
  <2>2. ASSUME NEW seen \in BOOLEAN
        PROVE  Safe(storedTexts, taken',
                    [Accept(w0, saved, TRUE, seen, TRUE) EXCEPT !.r.typed = Nothing])
    <3>1. w0.disk = disk /\ (w0.r.restored # NoDraft => w0.r.restored \in taken')
      BY <1>3, <1>8, <1>w
    <3> QED
      BY <1>5, <1>w, <3>1, SafeGivenUp
  <2>3. TRUE \in BOOLEAN
    OBVIOUS
  <2>4. Safe(storedTexts, taken', w)
    BY <2>2, <2>3, Zenon
  <2>m. w.me = s
    <3> DEFINE a == Accept(w0, saved, TRUE, TRUE, TRUE)
    <3>1. ASSUME NEW replace \in BOOLEAN, NEW seen \in BOOLEAN
          PROVE  LET v == Accept(w0, saved, replace, seen, TRUE)
                 IN  v \in Worlds /\ v.me = w0.me
      BY <1>4, <1>5, AcceptPlace DEF w0
    <3>2. a \in Worlds /\ a.me = s
      BY <1>w, <2>3, <3>1, Zenon
    <3> HIDE DEF a
    <3>3. [a EXCEPT !.r.typed = Nothing].me = s
      BY <3>2 DEF Worlds
    <3> QED
      BY <3>3 DEF a
  <2> HIDE DEF w
  <2> QED
    BY <1>1, <1>3, <2>1, <2>4, <2>m, ActiveSafe
<1> QED
  BY <1>7, <1>8

\* A draft replaces a clean text only, whose typed text is stored.
LEMMA RestoreDraftSafe ==
    ASSUME Core, DraftsInv, StorageMayFail = FALSE, NEW t \in Tabs, RestoreDraft(t)
    PROVE  DraftsInv'
<1> DEFINE s == active[t]
           r == sess[s]
<1>1. /\ s # NoSession /\ ~r.dirty /\ taken' = taken /\ storedTexts' = storedTexts
  BY DEF RestoreDraft
<1>2. /\ s \in Sessions /\ r \in Session /\ World(s) \in Worlds /\ World(s).me = s
      /\ World(s).r = r /\ World(s).disk = disk /\ Latest(s) \in Awaited
      /\ Safe(storedTexts, taken', World(s))
  BY <1>1, SafeActive
<1>3. PICK draft \in r.recovery, ok \in StorageOutcomes :
        LET shown == [World(s) EXCEPT !.r.restored = draft, !.r.base = draft.base,
                         !.r.content = draft.content, !.r.dirty = TRUE,
                         !.r.recovery = @ \ {draft}]
        IN  Publish(StartLoad(Backup(shown, ok)))
  BY DEF RestoreDraft
<1> DEFINE p == Restored(r, draft)
           x == [World(s) EXCEPT !.r = p]
           b == Backup(x, TRUE)
<1>4. Publish(StartLoad(b))
  <2>1. x = [World(s) EXCEPT !.r.restored = draft, !.r.base = draft.base,
                         !.r.content = draft.content, !.r.dirty = TRUE,
                         !.r.recovery = @ \ {draft}]
    BY <1>2 DEF Restored, Worlds
  <2>2. ok = TRUE
    BY StorageTakes
  <2> QED
    BY <1>3, <2>1, <2>2
<1>5. draft \in Drafts
  BY <1>2, SessionFields
<1>6. DraftInv(storedTexts, taken', s, r)
  BY <1>2 DEF Safe
<1>d. ~r.dirty
  BY <1>1
<1> HIDE DEF s, r
<1>7. /\ p \in Session /\ p.content = draft.content /\ p.dirty = TRUE /\ p.typed = r.typed
      /\ p.own = r.own /\ p.restored = draft
  BY <1>2, <1>5, RestoredRecord, SessionShape DEF Restored
<1> HIDE DEF p
<1>8. x \in Worlds /\ x.me = s /\ x.r = p /\ x.disk = disk
  BY <1>2, <1>7 DEF Worlds
<1> HIDE DEF x
<1>9. DraftInv(storedTexts, taken', x.me, x.r) /\ FilesKept(storedTexts, taken', x)
  BY <1>d, <1>6, <1>7, <1>8 DEF DraftInv, FilesKept
<1>10. Safe(storedTexts, taken', b) /\ b.me = s
  BY <1>7, <1>8, <1>9, SafeBackup
<1> HIDE DEF b
<1>11. Safe(storedTexts, taken', StartLoad(b)) /\ StartLoad(b).me = s
  BY <1>2, <1>10, QuietHandlers
<1> QED
  BY <1>1, <1>4, <1>11, ActiveSafe DEF s

\* Closing the page forgets which drafts were the session's, not the drafts.
LEMMA CloseSafe ==
    ASSUME Core, DraftsInv, NEW t \in Tabs, Close(t)
    PROVE  DraftsInv'
<1>1. /\ sess' = [s \in Sessions |->
                    IF TabOf(s) # t \/ sess[s] = NoSession THEN sess[s] ELSE Closed(sess[s])]
      /\ UNCHANGED <<storedTexts, disk, memory, taken>>
  BY DEF Close, Closed
<1>2. ASSUME NEW s \in Sessions, sess[s] # NoSession
      PROVE  LET p == Closed(sess[s])
             IN  /\ p \in Session /\ p # NoSession
                 /\ DraftInv(storedTexts, taken, s, p)
                 /\ FileInv(storedTexts, taken, s, p, disk[s])
  <2> DEFINE r == sess[s]
             p == Closed(r)
  <2>1. r \in Session
    BY <1>2, GoodWorld
  <2>2. DraftInv(storedTexts, taken, s, r) /\ FileInv(storedTexts, taken, s, r, disk[s])
    BY <1>2 DEF DraftsInv
  <2> HIDE DEF r
  <2>3. /\ p \in Session /\ p.content = r.content /\ p.dirty = r.dirty /\ p.typed = r.typed
        /\ p.own = NoDraft /\ p.restored = NoDraft /\ p.backups = r.backups
    <3>1. p \in Session
      BY <2>1, ClosedRecord
    <3>2. /\ p.content = r.content /\ p.dirty = r.dirty /\ p.typed = r.typed
          /\ p.own = NoDraft /\ p.restored = NoDraft /\ p.backups = r.backups
      BY <2>1, SessionShape DEF Closed
    <3> QED
      BY <3>1, <3>2
  <2> HIDE DEF p
  <2>4. DraftInv(storedTexts, taken, s, p) /\ FileInv(storedTexts, taken, s, p, disk[s])
    BY <2>2, <2>3 DEF DraftInv, FileInv
  <2> QED
    BY <2>3, <2>4, NoSessionAssumption DEF p, r
<1>3. ASSUME NEW s \in Sessions
      PROVE  /\ sess'[s] = NoSession <=> sess[s] = NoSession
             /\ sess'[s] # NoSession => /\ DraftInv(storedTexts, taken, s, sess'[s])
                                        /\ FileInv(storedTexts, taken, s, sess'[s], disk[s])
  <2>1. sess'[s] = IF TabOf(s) # t \/ sess[s] = NoSession THEN sess[s] ELSE Closed(sess[s])
    BY <1>1
  <2>2. sess[s] # NoSession => /\ DraftInv(storedTexts, taken, s, sess[s])
                               /\ FileInv(storedTexts, taken, s, sess[s], disk[s])
    BY DEF DraftsInv
  <2> QED
    BY <1>2, <2>1, <2>2
<1> QED
  BY <1>1, <1>3 DEF DraftsInv

\* Entering opens a session in which nothing was typed and nothing written.
LEMMA EnterSafe ==
    ASSUME Core, DraftsInv, NEW t \in Tabs, Enter(t)
    PROVE  DraftsInv'
<1>1. PICK n \in 1..MaxSessions, draft \in OwnDrafts :
        /\ sess[<<t, n>>] = NoSession
        /\ LET fresh == IF draft = NoDraft
                        THEN NewSession(EmptyText, FALSE, NoDraft, {})
                        ELSE NewSession(draft.content, TRUE, draft, Files \ {draft})
           IN  sess' = [sess EXCEPT ![<<t, n>>] =
                          StartLoad([me |-> <<t, n>>, r |-> fresh]).r]
  <2> DEFINE n == CHOOSE n \in Unused(t) : \A m \in Unused(t) : n <= m
  <2>1. n \in 1..MaxSessions /\ sess[<<t, n>>] = NoSession
    <3>1. Unused(t) \subseteq 1..MaxSessions /\ Unused(t) # {} /\ MaxSessions \in Nat
      BY ParameterAssumption DEF Enter, Unused
    <3>2. \E k \in Unused(t) : \A m \in Unused(t) : k <= m
      BY <3>1, LeastNumber
    <3>3. n \in Unused(t)
      BY <3>2
    <3> QED
      BY <3>1, <3>3 DEF Unused
  <2>2. PICK draft :
          /\ draft \in (IF memory[t] # NoDraft THEN {memory[t]}
                        ELSE IF Files # {} THEN Files ELSE {NoDraft})
          /\ LET fresh == IF draft = NoDraft
                          THEN NewSession(EmptyText, FALSE, NoDraft, {})
                          ELSE NewSession(draft.content, TRUE, draft, Files \ {draft})
             IN  sess' = [sess EXCEPT ![<<t, n>>] =
                            StartLoad([me |-> <<t, n>>, r |-> fresh]).r]
    BY DEF Enter
  <2> HIDE DEF n
  <2>3. draft \in OwnDrafts
    <3>1. Files \subseteq Drafts /\ memory[t] \in OwnDrafts
      BY DEF Core, Typed, Files, OwnDrafts
    <3> QED
      BY <2>2, <3>1 DEF OwnDrafts
  <2> QED
    BY <2>1, <2>2, <2>3
<1> DEFINE s == <<t, n>>
           fresh == IF draft = NoDraft
                    THEN NewSession(EmptyText, FALSE, NoDraft, {})
                    ELSE NewSession(draft.content, TRUE, draft, Files \ {draft})
           l == Latest(s)
           p == LoadStarted(fresh, l)
<1>2. s \in Sessions /\ sess[s] = NoSession /\ TabOf(s) = t
  BY <1>1 DEF Sessions, TabOf
<1>3. UNCHANGED <<storedTexts, disk, memory, taken>>
  BY DEF Enter
<1>4. sess' = [sess EXCEPT ![s] = p]
  BY <1>1 DEF StartLoad, LoadStarted
<1>5. /\ fresh \in Session /\ fresh.typed = Nothing /\ fresh.own = NoDraft
      /\ fresh.restored = draft /\ (~fresh.dirty => draft = NoDraft)
      /\ (draft # NoDraft => fresh.content = draft.content)
  <2>1. CASE draft = NoDraft
    <3>1. EmptyText \in Texts /\ NoDraft \in OwnDrafts /\ {} \in DraftSets
      BY ParameterAssumption, FieldValues
    <3>2. fresh \in Session
      BY <2>1, <3>1, NewSessionRecord, Zenon
    <3> QED
      BY <2>1, <3>2 DEF NewSession
  <2>2. CASE draft # NoDraft
    <3>1. draft.content \in Texts /\ (Files \ {draft}) \in DraftSets
      BY <2>2 DEF OwnDrafts, Drafts, DraftSets, Files, Core, Typed
    <3>2. fresh \in Session
      BY <2>2, <3>1, NewSessionRecord, Zenon
    <3> QED
      BY <2>2, <3>2 DEF NewSession
  <2> QED
    BY <2>1, <2>2
<1>6. l \in Awaited
  BY <1>2 DEF Core, Typed, Latest, Awaited
<1> HIDE DEF fresh, l
<1>7. p \in Session /\ SameDrafts(fresh, p)
  BY <1>5, <1>6, LoadStartedRecord, QuietRecords
<1>8. disk[s] = NoDraft
  BY <1>2 DEF DraftsInv
<1> HIDE DEF p, s
<1>9. DraftInv(storedTexts, taken, s, p) /\ FileInv(storedTexts, taken, s, p, disk[s])
  BY <1>5, <1>7, <1>8 DEF SameDrafts, DraftInv, FileInv
<1>10. sess'[s] = p /\ \A k \in Sessions : k # s => sess'[k] = sess[k]
  BY <1>2, <1>4 DEF Core, Typed
<1>11. p # NoSession
  BY <1>7, NoSessionAssumption
<1> QED
  BY <1>3, <1>9, <1>10, <1>11 DEF DraftsInv

-----------------------------------------------------------------------------
(***************************************************************************)
(* The requests and the drafts                                             *)
(***************************************************************************)
\* A step of the requests that leaves the text and its drafts alone.
LEMMA QuietRequest ==
    ASSUME Core, DraftsInv, NEW s \in Sessions, sess[s] # NoSession,
           NEW p \in Session, SameDrafts(sess[s], p), Inner([World(s) EXCEPT !.r = p]),
           \/ storedTexts' = storedTexts
           \/ \E text \in Texts : storedTexts' = Append(storedTexts, text)
    PROVE  DraftsInv'
<1> DEFINE w == [World(s) EXCEPT !.r = p]
<1>1. Safe(storedTexts, taken, World(s)) /\ World(s).me = s /\ World(s).r = sess[s]
  BY SafeWorld
<1>2. Safe(storedTexts, taken, w) /\ w.me = s
  BY <1>1, SameDraftsKeep
<1>3. Inner(w)
  OBVIOUS
<1> HIDE DEF w
<1> QED
  BY <1>2, <1>3, InnerSafe

LEMMA GetNoteSafe ==
    ASSUME Core, DraftsInv, NEW s \in Sessions, GetNote(s)
    PROVE  DraftsInv'
<1> DEFINE r == sess[s]
<1>1. r # NoSession /\ storedTexts' = storedTexts
  BY DEF GetNote, Open
<1>2. PICK x : /\ x = server \/ x \in Failures
               /\ Inner([World(s) EXCEPT !.r.loadPc = "got", !.r.got = x,
                                         !.r.loadAwaits = NoSession])
  BY DEF GetNote
<1>3. r \in Session /\ World(s) \in Worlds /\ World(s).r = r
  BY <1>1, SafeWorld
<1> DEFINE p == Fetched(r, x)
<1>4. [World(s) EXCEPT !.r = p] = [World(s) EXCEPT !.r.loadPc = "got", !.r.got = x,
                                                   !.r.loadAwaits = NoSession]
  BY <1>3 DEF Fetched, Worlds
<1>5. x \in EditorReplies
  BY <1>2 DEF EditorReplies, Core, Typed
<1>6. p \in Session /\ SameDrafts(r, p)
  BY <1>3, <1>5, FetchedRecord, QuietRecords
<1> HIDE DEF p
<1> QED
  BY <1>1, <1>2, <1>4, <1>6, QuietRequest

LEMMA GetConflictSafe ==
    ASSUME Core, DraftsInv, NEW s \in Sessions, GetConflict(s)
    PROVE  DraftsInv'
<1> DEFINE r == sess[s]
<1>1. r # NoSession /\ storedTexts' = storedTexts
  BY DEF GetConflict, Open
<1>2. PICK x : /\ x = server \/ x = Retryable
               /\ Inner([World(s) EXCEPT !.r.savePc = "regot", !.r.reply = x])
  BY DEF GetConflict
<1>3. r \in Session /\ World(s) \in Worlds /\ World(s).r = r
  BY <1>1, SafeWorld
<1> DEFINE p == OtherSide(r, x)
<1>4. [World(s) EXCEPT !.r = p] = [World(s) EXCEPT !.r.savePc = "regot", !.r.reply = x]
  BY <1>3 DEF OtherSide, Worlds
<1>5. x \in EditorReplies
  BY <1>2 DEF EditorReplies, Failures, Core, Typed
<1>6. p \in Session /\ SameDrafts(r, p)
  BY <1>3, <1>5, OtherSideRecord, QuietRecords
<1> HIDE DEF p
<1> QED
  BY <1>1, <1>2, <1>4, <1>6, QuietRequest

LEMMA BeginSaveSafe ==
    ASSUME Core, DraftsInv, NEW s \in Sessions, BeginSave(s)
    PROVE  DraftsInv'
<1> DEFINE r == sess[s]
           p == Waited(r)
           x == [World(s) EXCEPT !.r = p]
<1>1. r # NoSession /\ storedTexts' = storedTexts
  BY DEF BeginSave, Open
<1>2. /\ r \in Session /\ World(s) \in Worlds /\ World(s).r = r /\ World(s).me = s
      /\ Safe(storedTexts, taken, World(s))
  BY <1>1, SafeWorld
<1>3. Inner(Drain(x))
  <2>1. x = [World(s) EXCEPT !.r.saveAwaits = NoSession]
    BY <1>2 DEF Waited, Worlds
  <2> QED
    BY <2>1 DEF BeginSave
<1>4. p \in Session /\ SameDrafts(r, p)
  BY <1>2, WaitedRecord, QuietRecords
<1> HIDE DEF p
<1>5. Safe(storedTexts, taken, x) /\ x.me = s
  BY <1>2, <1>4, SameDraftsKeep
<1> HIDE DEF x
<1>6. Safe(storedTexts, taken, Drain(x)) /\ Drain(x).me = s
  BY <1>5, QuietDrain
<1> QED
  BY <1>1, <1>3, <1>6, InnerSafe

LEMMA AnsweredSafe ==
    ASSUME Core, DraftsInv, NEW s \in Sessions, Sent(s), NEW answer \in EditorReplies,
           Inner(Answered(s, answer)),
           \/ storedTexts' = storedTexts
           \/ \E text \in Texts : storedTexts' = Append(storedTexts, text)
    PROVE  DraftsInv'
<1> DEFINE r == sess[s]
           p == IF r.open THEN Replied(r, answer) ELSE PutOver(r)
<1>1. r # NoSession
  BY DEF Sent
<1>2. r \in Session /\ World(s) \in Worlds /\ World(s).r = r
  BY <1>1, SafeWorld
<1>3. Answered(s, answer) = [World(s) EXCEPT !.r = p]
  BY <1>2 DEF Answered, Replied, PutOver, Worlds
<1>4. p \in Session /\ SameDrafts(r, p)
  BY <1>2, RepliedRecord, PutOverRecord, QuietRecords
<1> HIDE DEF p
<1> QED
  BY <1>1, <1>3, <1>4, QuietRequest

LEMMA ServePutSafe ==
    ASSUME Core, DraftsInv, NEW s \in Sessions, ServePut(s)
    PROVE  DraftsInv'
<1> DEFINE answer == IF Known(sess[s].put) \/ Fresh(sess[s].put) THEN server' ELSE ConflictReply
<1>1. Sent(s) /\ Apply(sess[s].put) /\ Inner(Answered(s, answer))
  BY DEF ServePut
<1>2. /\ server' \in Rows
      /\ \/ storedTexts' = storedTexts
         \/ \E text \in Texts : storedTexts' = Append(storedTexts, text)
  BY <1>1, SentPut, ApplyServer
<1>3. answer \in EditorReplies
  BY <1>2 DEF EditorReplies
<1> HIDE DEF answer
<1> QED
  BY <1>1, <1>2, <1>3, AnsweredSafe

LEMMA FailPutSafe ==
    ASSUME Core, DraftsInv, NEW s \in Sessions, FailPut(s)
    PROVE  DraftsInv'
<1>1. PICK kind \in Failures :
        /\ Inner(Answered(s, kind))
        /\ Apply(sess[s].put) \/ UNCHANGED <<server, storedTexts>>
  BY DEF FailPut, Failures
<1>2. Sent(s) /\ kind \in EditorReplies
  BY DEF FailPut, EditorReplies
<1>3. \/ storedTexts' = storedTexts
      \/ \E text \in Texts : storedTexts' = Append(storedTexts, text)
  BY <1>1, <1>2, SentPut, ApplyServer
<1> QED
  BY <1>1, <1>2, <1>3, AnsweredSafe

LEMMA ReceiveNoteSafe ==
    ASSUME Core, DraftsInv, StorageMayFail = FALSE, NEW s \in Sessions, ReceiveNote(s)
    PROVE  DraftsInv'
<1> DEFINE r == sess[s]
           saved == r.got
           q == LoadOver(r)
           w0 == [World(s) EXCEPT !.r = q]
<1>1. Open(s) /\ r # NoSession /\ r.loadPc = "got" /\ storedTexts' = storedTexts
  BY DEF ReceiveNote, Open
<1>2. /\ r \in Session /\ World(s) \in Worlds /\ World(s).me = s /\ World(s).r = r
      /\ World(s).disk = disk /\ Safe(storedTexts, taken, World(s))
  BY <1>1, SafeWorld
<1>3. w0 = [World(s) EXCEPT !.r.loadPc = "idle", !.r.got = Nothing]
  BY <1>2 DEF LoadOver, Worlds
<1>4. PICK ok \in StorageOutcomes :
        IF saved \in Failures
        THEN Inner([w0 EXCEPT !.r.errorKind = "load", !.r.retryable = (saved = Retryable)])
        ELSE IF Diverged(r, saved)
        THEN Inner([w0 EXCEPT !.r.loaded = TRUE, !.r.conflict = saved,
                              !.r.errorKind = "conflict", !.r.retryable = FALSE])
        ELSE Inner(Accept(w0, saved, ~r.dirty, FALSE, ok))
  BY <1>3 DEF ReceiveNote
<1>5. ok = TRUE /\ r.dirty \in BOOLEAN
  BY <1>2, StorageTakes, SessionFields
<1>6. saved \notin Failures => saved \in Rows /\ Saved(storedTexts, saved.content)
  <2>1. RowsInv(storedTexts, r) /\ storedTexts \in Seq(Texts)
    BY <1>1, OpenSession
  <2>2. saved \notin Failures => saved \in Rows /\ Genuine(storedTexts, saved)
    BY <1>1, <2>1 DEF RowsInv
  <2> QED
    BY <2>1, <2>2, GenuineSaved
<1> HIDE DEF r
<1>7. q \in Session /\ SameDrafts(r, q)
  BY <1>2, LoadOverRecord, QuietRecords
<1> HIDE DEF q
<1>8. Safe(storedTexts, taken, w0) /\ w0.me = s /\ w0.r = q
  BY <1>2, <1>7, SameDraftsKeep
<1>9. w0 \in Worlds /\ w0.disk = disk /\ w0.r.dirty = r.dirty
  BY <1>2, <1>7, <1>8 DEF Worlds, SameDrafts
<1> HIDE DEF w0
<1>10. CASE saved \in Failures
  <2> DEFINE p == LoadFailed(q, saved)
             w == [w0 EXCEPT !.r = p]
  <2>1. w = [w0 EXCEPT !.r.errorKind = "load", !.r.retryable = (saved = Retryable)]
    BY <1>8, <1>9 DEF LoadFailed, Worlds
  <2>2. p \in Session /\ SameDrafts(q, p)
    BY <1>7, LoadFailedRecord, QuietRecords
  <2> HIDE DEF p
  <2>3. Safe(storedTexts, taken, w) /\ w.me = s
    BY <1>8, <2>2, SameDraftsKeep
  <2>4. Inner(w)
    BY <1>4, <1>10, <2>1
  <2> HIDE DEF w
  <2> QED
    BY <1>1, <2>3, <2>4, InnerSafe DEF r
<1>11. CASE saved \notin Failures /\ Diverged(r, saved)
  <2> DEFINE p == Conflicted(q, saved)
             w == [w0 EXCEPT !.r = p]
  <2>1. w = [w0 EXCEPT !.r.loaded = TRUE, !.r.conflict = saved,
                       !.r.errorKind = "conflict", !.r.retryable = FALSE]
    BY <1>8, <1>9 DEF Conflicted, Worlds
  <2>2. p \in Session /\ SameDrafts(q, p)
    BY <1>6, <1>7, <1>11, ConflictedRecord, QuietRecords
  <2> HIDE DEF p
  <2>3. Safe(storedTexts, taken, w) /\ w.me = s
    BY <1>8, <2>2, SameDraftsKeep
  <2>4. Inner(w)
    BY <1>4, <1>11, <2>1
  <2> HIDE DEF w
  <2> QED
    BY <1>1, <2>3, <2>4, InnerSafe DEF r
<1>12. CASE saved \notin Failures /\ ~Diverged(r, saved)
  <2> DEFINE keep == ~r.dirty
             w == Accept(w0, saved, keep, FALSE, TRUE)
  <2>1. Inner(w)
    BY <1>4, <1>5, <1>12
  <2>2. keep \in BOOLEAN /\ FALSE \in BOOLEAN /\ (keep => ~w0.r.dirty)
    BY <1>5, <1>9
  <2>3. saved \in Rows /\ Saved(storedTexts, saved.content)
    BY <1>6, <1>12
  <2> HIDE DEF keep, saved
  <2>4. ASSUME NEW replace \in BOOLEAN, NEW seen \in BOOLEAN, replace => ~w0.r.dirty
        PROVE  LET v == Accept(w0, saved, replace, seen, TRUE)
               IN  Safe(storedTexts, taken, v) /\ v.me = s
    <3>1. Safe(storedTexts, taken, Accept(w0, saved, replace, seen, TRUE))
      BY <1>8, <1>9, <2>3, <2>4, SafeAccept
    <3>2. Accept(w0, saved, replace, seen, TRUE).me = w0.me
      BY <1>9, <2>3, AcceptPlace
    <3> QED
      BY <1>8, <3>1, <3>2
  <2>5. Safe(storedTexts, taken, w) /\ w.me = s
    BY <2>2, <2>4, Zenon
  <2> HIDE DEF w
  <2> QED
    BY <1>1, <2>1, <2>5, InnerSafe DEF r
<1> QED
  BY <1>10, <1>11, <1>12

LEMMA ReceivePutSafe ==
    ASSUME Core, DraftsInv, StorageMayFail = FALSE, NEW s \in Sessions, ReceivePut(s)
    PROVE  DraftsInv'
<1> DEFINE r == sess[s]
           reply == r.reply
           w0 == World(s)
           q == PutTaken(r)
           w1 == [w0 EXCEPT !.r = q]
<1>1. Open(s) /\ r # NoSession /\ r.savePc = "replied" /\ storedTexts' = storedTexts
  BY DEF ReceivePut, Open
<1>2. /\ r \in Session /\ w0 \in Worlds /\ w0.me = s /\ w0.r = r
      /\ w0.disk = disk /\ Safe(storedTexts, taken, w0)
  BY <1>1, SafeWorld
<1>3. w1 = [w0 EXCEPT !.r.put = Nothing]
  BY <1>2 DEF PutTaken, Worlds
<1>4. PICK ok \in StorageOutcomes :
        IF reply = ConflictReply
        THEN Inner([w0 EXCEPT !.r.savePc = "reget", !.r.reply = Nothing, !.r.put = Nothing,
                              !.r.retryable = FALSE, !.r.errorKind = "conflict"])
        ELSE IF reply \in Failures
        THEN Inner(EndSave(w0, "save", reply = Retryable))
        ELSE Inner(Drain(Accept(w1, reply, FALSE, TRUE, ok)))
  BY <1>3 DEF ReceivePut
<1>5. ok = TRUE
  BY StorageTakes
<1>6. reply # ConflictReply /\ reply \notin Failures =>
        reply \in Rows /\ Saved(storedTexts, reply.content)
  <2>1. RowsInv(storedTexts, r) /\ storedTexts \in Seq(Texts)
    BY <1>1, OpenSession
  <2>2. reply # ConflictReply /\ reply \notin Failures =>
          reply \in Rows /\ Genuine(storedTexts, reply)
    BY <1>1, <2>1 DEF RowsInv
  <2> QED
    BY <2>1, <2>2, GenuineSaved
<1>7. ASSUME NEW w, Inner(w), Safe(storedTexts, taken, w), w.me = s
      PROVE  DraftsInv'
  BY <1>1, <1>7, InnerSafe
<1> HIDE DEF r, w0
<1>8. CASE reply = ConflictReply
  <2> DEFINE p == Refused(r)
             w == [w0 EXCEPT !.r = p]
  <2>1. w = [w0 EXCEPT !.r.savePc = "reget", !.r.reply = Nothing, !.r.put = Nothing,
                       !.r.retryable = FALSE, !.r.errorKind = "conflict"]
    BY <1>2 DEF Refused, Worlds
  <2>2. p \in Session /\ SameDrafts(r, p)
    BY <1>2, RefusedRecord, QuietRecords
  <2> HIDE DEF p
  <2>3. Safe(storedTexts, taken, w) /\ w.me = s
    BY <1>2, <2>2, SameDraftsKeep
  <2>4. Inner(w)
    BY <1>4, <1>8, <2>1
  <2> HIDE DEF w
  <2> QED
    BY <1>7, <2>3, <2>4
<1>9. CASE reply # ConflictReply /\ reply \in Failures
  <2> DEFINE again == (reply = Retryable)
             w == EndSave(w0, "save", again)
  <2>1. Inner(w)
    BY <1>4, <1>9
  <2>2. again \in BOOLEAN /\ "save" \in Kinds
    BY DEF Kinds
  <2> HIDE DEF again
  <2>3. Safe(storedTexts, taken, w) /\ w.me = s
    BY <1>2, <2>2, QuietEndSave
  <2> HIDE DEF w
  <2> QED
    BY <1>7, <2>1, <2>3
<1>10. CASE reply # ConflictReply /\ reply \notin Failures
  <2> DEFINE a == Accept(w1, reply, FALSE, TRUE, TRUE)
  <2>1. Inner(Drain(a))
    BY <1>4, <1>5, <1>10
  <2>2. q \in Session /\ SameDrafts(r, q)
    BY <1>2, PutTakenRecord, QuietRecords
  <2> HIDE DEF q
  <2>3. Safe(storedTexts, taken, w1) /\ w1.me = s
    BY <1>2, <2>2, SameDraftsKeep
  <2>4. w1 \in Worlds /\ w1.disk = disk
    BY <1>2, <2>2 DEF Worlds
  <2>5. reply \in Rows /\ Saved(storedTexts, reply.content)
    BY <1>6, <1>10
  <2> HIDE DEF w1, reply
  <2>6. ASSUME NEW replace \in BOOLEAN, NEW seen \in BOOLEAN, ~replace
        PROVE  LET v == Accept(w1, reply, replace, seen, TRUE)
               IN  Safe(storedTexts, taken, v) /\ v.me = s
    <3>1. Safe(storedTexts, taken, Accept(w1, reply, replace, seen, TRUE))
      BY <2>3, <2>4, <2>5, <2>6, SafeAccept
    <3>2. Accept(w1, reply, replace, seen, TRUE).me = w1.me
      BY <2>4, <2>5, AcceptPlace
    <3> QED
      BY <2>3, <3>1, <3>2
  <2>7. FALSE \in BOOLEAN /\ TRUE \in BOOLEAN /\ ~FALSE
    OBVIOUS
  <2>8. Safe(storedTexts, taken, a) /\ a.me = s
    BY <2>6, <2>7, Zenon
  <2> HIDE DEF a
  <2>9. Safe(storedTexts, taken, Drain(a)) /\ Drain(a).me = s
    BY <2>8, QuietDrain
  <2> QED
    BY <1>7, <2>1, <2>9
<1> QED
  BY <1>8, <1>9, <1>10

LEMMA ReceiveConflictSafe ==
    ASSUME Core, DraftsInv, StorageMayFail = FALSE, NEW s \in Sessions, ReceiveConflict(s)
    PROVE  DraftsInv'
<1> DEFINE r == sess[s]
           saved == r.reply
           w0 == World(s)
           q == ConflictShown(r, saved)
           w1 == [w0 EXCEPT !.r = q]
<1>1. Open(s) /\ r # NoSession /\ r.savePc = "regot" /\ storedTexts' = storedTexts
  BY DEF ReceiveConflict, Open
<1>2. /\ r \in Session /\ w0 \in Worlds /\ w0.me = s /\ w0.r = r
      /\ w0.disk = disk /\ Safe(storedTexts, taken, w0)
  BY <1>1, SafeWorld
<1>3. w1 = [w0 EXCEPT !.r.conflict = saved]
  BY <1>2 DEF ConflictShown, Worlds
<1>4. PICK ok \in StorageOutcomes :
        IF saved = Retryable THEN Inner(EndSave(w0, r.errorKind, r.retryable))
        ELSE IF Agrees(r.content, saved)
        THEN Inner(EndSave(Accept(w0, saved, FALSE, FALSE, ok), "none", TRUE))
        ELSE Inner(EndSave(w1, r.errorKind, r.retryable))
  BY <1>2, <1>3 DEF ReceiveConflict
<1>5. ok = TRUE /\ r.errorKind \in Kinds /\ r.retryable \in BOOLEAN
  BY <1>2, StorageTakes, SessionFields DEF Kinds
<1>6. saved # Retryable => saved \in Rows /\ Saved(storedTexts, saved.content)
  <2>1. RowsInv(storedTexts, r) /\ storedTexts \in Seq(Texts)
    BY <1>1, OpenSession
  <2>2. saved # Retryable => saved \in Rows /\ Genuine(storedTexts, saved)
    BY <1>1, <2>1 DEF RowsInv
  <2> QED
    BY <2>1, <2>2, GenuineSaved
<1>7. ASSUME NEW w, Inner(w), Safe(storedTexts, taken, w), w.me = s
      PROVE  DraftsInv'
  BY <1>1, <1>7, InnerSafe
<1> HIDE DEF r, w0
<1>8. ASSUME NEW x, Safe(storedTexts, taken, x), x.me = s
      PROVE  LET v == EndSave(x, r.errorKind, r.retryable)
             IN  Safe(storedTexts, taken, v) /\ v.me = s
  <2>1. \A kind \in Kinds, retryable \in BOOLEAN :
          Safe(storedTexts, taken, EndSave(x, kind, retryable))
            /\ EndSave(x, kind, retryable).me = s
    BY <1>8, QuietEndSave
  <2> QED
    BY <1>5, <2>1, Zenon
<1>9. CASE saved = Retryable
  <2> DEFINE w == EndSave(w0, r.errorKind, r.retryable)
  <2>1. Inner(w)
    BY <1>4, <1>9
  <2>2. Safe(storedTexts, taken, w) /\ w.me = s
    BY <1>2, <1>8
  <2> HIDE DEF w
  <2> QED
    BY <1>7, <2>1, <2>2
<1>10. CASE saved # Retryable /\ Agrees(r.content, saved)
  <2> DEFINE a == Accept(w0, saved, FALSE, FALSE, TRUE)
             w == EndSave(a, "none", TRUE)
  <2>1. Inner(w)
    BY <1>4, <1>5, <1>10
  <2>2. saved \in Rows /\ Saved(storedTexts, saved.content)
    BY <1>6, <1>10
  <2> HIDE DEF saved
  <2>3. ASSUME NEW replace \in BOOLEAN, NEW seen \in BOOLEAN, ~replace
        PROVE  LET v == Accept(w0, saved, replace, seen, TRUE)
               IN  Safe(storedTexts, taken, v) /\ v.me = s
    <3>1. Safe(storedTexts, taken, Accept(w0, saved, replace, seen, TRUE))
      BY <1>2, <2>2, <2>3, SafeAccept
    <3>2. Accept(w0, saved, replace, seen, TRUE).me = w0.me
      BY <1>2, <2>2, AcceptPlace
    <3> QED
      BY <1>2, <3>1, <3>2
  <2>4. FALSE \in BOOLEAN /\ TRUE \in BOOLEAN /\ ~FALSE /\ "none" \in Kinds
    BY DEF Kinds
  <2>5. Safe(storedTexts, taken, a) /\ a.me = s
    BY <2>3, <2>4, Zenon
  <2> HIDE DEF a
  <2>6. \A kind \in Kinds, retryable \in BOOLEAN :
          Safe(storedTexts, taken, EndSave(a, kind, retryable))
            /\ EndSave(a, kind, retryable).me = s
    BY <2>5, QuietEndSave
  <2>7. Safe(storedTexts, taken, w) /\ w.me = s
    BY <2>4, <2>6, Zenon
  <2> HIDE DEF w
  <2> QED
    BY <1>7, <2>1, <2>7
<1>11. CASE saved # Retryable /\ ~Agrees(r.content, saved)
  <2> DEFINE w == EndSave(w1, r.errorKind, r.retryable)
  <2>1. Inner(w)
    BY <1>4, <1>11
  <2>2. q \in Session /\ SameDrafts(r, q)
    BY <1>2, <1>6, <1>11, ConflictShownRecord, QuietRecords
  <2> HIDE DEF q
  <2>3. Safe(storedTexts, taken, w1) /\ w1.me = s
    BY <1>2, <2>2, SameDraftsKeep
  <2> HIDE DEF w1
  <2>4. Safe(storedTexts, taken, w) /\ w.me = s
    BY <1>8, <2>3
  <2> HIDE DEF w
  <2> QED
    BY <1>7, <2>1, <2>4
<1> QED
  BY <1>9, <1>10, <1>11

LEMMA NextDrafts ==
    ASSUME IInv, DraftsInv, StorageMayFail = FALSE, [EditorNext]_editorVars
    PROVE  DraftsInv'
<1>1. Core
  BY DEF IInv
<1>2. ASSUME NEW t \in Tabs, UserStep(t) \/ BrowserStep(t) PROVE DraftsInv'
  BY <1>1, <1>2, EnterSafe, QuietUserSafe, SetContentSafe, ResolveSafe, RestoreDraftSafe,
     CloseSafe DEF UserStep, BrowserStep
<1>3. ASSUME NEW s \in Sessions, SessionStep(s) \/ FailPut(s) PROVE DraftsInv'
  BY <1>1, <1>3, GetNoteSafe, ReceiveNoteSafe, BeginSaveSafe, ServePutSafe, FailPutSafe,
     ReceivePutSafe, GetConflictSafe, ReceiveConflictSafe DEF SessionStep
<1>4. ASSUME GoOffline \/ GoOnline \/ UNCHANGED editorVars PROVE DraftsInv'
  BY <1>4, UnchangedSafe DEF GoOffline, GoOnline, editorVars
<1> QED
  BY <1>2, <1>3, <1>4 DEF EditorNext

\* useNote and noteDrafts never lose an edit of a browser that takes the drafts:
\* the text typed last in a session is stored or in a draft that Enter finds,
\* whatever tabs, requests and failures came after, until the user gives it up.
THEOREM EditsSurvive ==
    ASSUME StorageMayFail = FALSE
    PROVE  EditorSpec => []NoEditLost
<1>1. EditorInit => DraftsInv
  BY DEF EditorInit, DraftsInv
<1>2. IInv /\ DraftsInv /\ [EditorNext]_editorVars => DraftsInv'
  BY NextDrafts
<1>3. IInv /\ DraftsInv => NoEditLost
  <2> SUFFICES ASSUME IInv, DraftsInv, NEW s \in Sessions, Entrusted(s) PROVE Kept(s)
    BY DEF NoEditLost
  <2> DEFINE r == sess[s]
  <2>1. FileInv(storedTexts, taken, s, r, disk[s])
    BY DEF Entrusted, DraftsInv
  <2>2. r.typed # Nothing /\ \A d \in taken : d.key = s => d.savedAt + 1 < r.backups
    BY DEF Entrusted
  <2> HIDE DEF r
  <2>3. CASE Saved(storedTexts, r.typed)
    BY <2>3 DEF Kept, Stored, Saved, r
  <2>4. CASE ~Saved(storedTexts, r.typed)
    <3>1. disk[s] # NoDraft /\ disk[s].content = r.typed
      BY <2>1, <2>2, <2>4 DEF FileInv
    <3> QED
      BY <3>1 DEF Kept, Files, r
  <2> QED
    BY <2>3, <2>4
<1> QED
  BY <1>1, <1>2, <1>3, RowsAreGenuine, PTL DEF EditorSpec
=============================================================================
