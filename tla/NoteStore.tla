------------------------------ MODULE NoteStore ------------------------------
(***************************************************************************)
(* The note editor of the browser: noteStore.ts, noteDrafts.ts and the     *)
(* effects of useNote.ts, for one meeting, in several tabs of one browser, *)
(* against the server that VersionedNote specifies (one PUT is one step).  *)
(*                                                                         *)
(* A tab opens a session when it enters the meeting and abandons it when   *)
(* it leaves; an abandoned session lives on until its requests are         *)
(* answered.  Tabs share localStorage (disk), each has its own memory      *)
(* copies.  JavaScript runs a handler to the next await without            *)
(* interruption: every action is one such piece.                           *)
(*                                                                         *)
(* Bounds: MaxSessions sessions per tab, MaxEdits keystrokes that change a *)
(* text, MaxFaults failures (failed or lost requests, going offline).      *)
(***************************************************************************)
EXTENDS Integers, Sequences, FiniteSets

CONSTANTS
    Tabs, Texts,
    TooLong,          \* the texts longer than NOTE_MAX_LENGTH
    EmptyText,        \* the text of a note nobody has saved
    MaxSessions, MaxEdits, MaxFaults,
    StorageMayFail,   \* may localStorage.setItem throw (quota, blocked)?
    NoSession, NoDraft, NoRow, Nothing,
    ConflictReply, Retryable, Fatal   \* the failed answers of the server

ASSUME ParameterAssumption ==
    /\ TooLong \subseteq Texts /\ EmptyText \in Texts \ TooLong
    /\ {MaxSessions, MaxEdits, MaxFaults} \subseteq Nat
    /\ StorageMayFail \in BOOLEAN

VARIABLES
    server,    \* the note row; revision 0 when there is none
    storedTexts,   \* the texts the server has stored, in order (auxiliary)
    sess,      \* sess[s]: the session s, or NoSession before it is opened
    active,    \* active[t]: the session shown in tab t
    saves,     \* saves[t]: the session of the latest save, while it runs
    disk,      \* disk[s]: the draft stored under the key of session s
    memory,    \* memory[t]: the draft kept in memory when storage failed
    timer,     \* timer[t]: an autosave timer is running
    online,    \* navigator.onLine
    event,     \* event[t]: the online event is queued
    taken,     \* the drafts a session that restored them has moved on from (auxiliary)
    edits, faults

editorVars == <<server, storedTexts, sess, active, saves, disk, memory, timer, online,
          event, taken, edits, faults>>

Sessions == Tabs \X (1..MaxSessions)
TabOf(s) == s[1]
NoRevision == -1
StorageOutcomes == IF StorageMayFail THEN BOOLEAN ELSE {TRUE}

Rows == [content : Texts, revision : Nat]
Drafts == [key : Sessions, content : Texts, base : Nat \cup {NoRevision},
           savedAt : Nat]
Puts == [content : Texts, base : Nat \cup {NoRevision}]
Failures == {Retryable, Fatal}
EditorReplies == Rows \cup Failures \cup {Nothing, ConflictReply}

Session == [
    open : BOOLEAN,                \* the tab still exists
    content : Texts, dirty : BOOLEAN, loaded : BOOLEAN,
    errorKind : {"none", "load", "save", "conflict"}, retryable : BOOLEAN,
    conflict : Rows \cup {NoRow},
    base : Nat \cup {NoRevision},  \* baseRevision
    own : Drafts \cup {NoDraft}, restored : Drafts \cup {NoDraft},
    recovery : SUBSET Drafts, backups : Nat,
    loadPc : {"idle", "wait", "got"}, loadAwaits : Sessions \cup {NoSession},
    got : EditorReplies,
    savePc : {"idle", "wait", "put", "replied", "reget", "regot"},
    saveAwaits : Sessions \cup {NoSession},
    put : Puts \cup {Nothing},
    reply : EditorReplies,
    typed : Texts \cup {Nothing},  \* auxiliary: the user's text, see NoEditLost
    informed : BOOLEAN]            \* auxiliary, see Accept

ASSUME NoSessionAssumption == NoSession \notin Sessions /\ NoSession \notin Session
ASSUME NoDraftAssumption == NoDraft \notin Drafts

Loading(r) == r.loadPc # "idle"    \* isLoading
Saving(r) == r.savePc # "idle"     \* isSaving

EditorTypeOK ==
    /\ server \in Rows
    /\ storedTexts \in Seq(Texts)
    /\ \A s \in Sessions : sess[s] = NoSession \/ sess[s] \in Session
    /\ active \in [Tabs -> Sessions \cup {NoSession}]
    /\ saves \in [Tabs -> Sessions \cup {NoSession}]
    /\ disk \in [Sessions -> Drafts \cup {NoDraft}]
    /\ memory \in [Tabs -> Drafts \cup {NoDraft}]
    /\ timer \in [Tabs -> BOOLEAN] /\ event \in [Tabs -> BOOLEAN]
    /\ online \in BOOLEAN /\ taken \subseteq Drafts
    /\ edits \in 0..MaxEdits /\ faults \in 0..MaxFaults

EditorInit ==
    /\ server = [content |-> EmptyText, revision |-> 0]
    /\ storedTexts = <<>>
    /\ sess = [s \in Sessions |-> NoSession]
    /\ active = [t \in Tabs |-> NoSession]
    /\ saves = [t \in Tabs |-> NoSession]
    /\ disk = [s \in Sessions |-> NoDraft]
    /\ memory = [t \in Tabs |-> NoDraft]
    /\ timer = [t \in Tabs |-> FALSE]
    /\ online = TRUE
    /\ event = [t \in Tabs |-> FALSE]
    /\ taken = {}
    /\ edits = 0
    /\ faults = 0

(***************************************************************************)
(* Drafts.  The helpers of the store work on one session together with the *)
(* two places a draft can be in: w = [me, r, disk, memory] is session me,  *)
(* its record, localStorage, and the memory copy of its tab.               *)
(***************************************************************************)
World(s) == [me |-> s, r |-> sess[s], disk |-> disk, memory |-> memory[TabOf(s)]]

\* What the handler of session s leaves behind.
Publish(w) ==
    /\ sess' = [sess EXCEPT ![w.me] = w.r]
    /\ disk' = w.disk
    /\ memory' = [memory EXCEPT ![TabOf(w.me)] = w.memory]

\* Write the draft; if the browser refuses, keep it in memory.
Backup(w, ok) ==
    LET draft == [key |-> w.me, content |-> w.r.content, base |-> w.r.base,
                  savedAt |-> w.r.backups]
        counted == [w EXCEPT !.r.backups = @ + 1]
    IN  IF ok
        THEN [counted EXCEPT !.r.own = draft, !.disk[w.me] = draft,
                             !.memory = NoDraft]
        ELSE [counted EXCEPT !.memory = draft]

RemoveRegardless(files, draft) ==
    IF draft = NoDraft THEN files ELSE [files EXCEPT ![draft.key] = NoDraft]

\* removeDraft: a draft that was rewritten since it was read stays.
Remove(files, draft) ==
    IF draft = NoDraft \/ files[draft.key] = NoDraft THEN files
    ELSE IF /\ files[draft.key].content = draft.content
            /\ files[draft.key].savedAt = draft.savedAt
         THEN [files EXCEPT ![draft.key] = NoDraft]
         ELSE files
ClearBackups(w) ==
    [w EXCEPT !.disk = Remove(Remove(@, w.r.own), w.r.restored),
              !.r.own = NoDraft, !.r.restored = NoDraft, !.memory = NoDraft]

(***************************************************************************)
(* acceptServer.  The flag informed says whether the author of the text    *)
(* has seen the revision the text will be saved over: the text is that     *)
(* revision, or the base does not move, or the revision is the text that   *)
(* the session itself sent or that the user was shown to choose (seen).    *)
(***************************************************************************)
Agrees(content, saved) == content = saved.content

BaseByCounting(r, saved) == r.base + 1
BaseAfter(r, saved) == saved.revision

Accept(w, saved, replace, seen, ok) ==
    LET content == IF replace THEN saved.content ELSE w.r.content
        dirty == ~Agrees(content, saved)
        told == ~dirty \/ seen \/ (saved.revision = w.r.base /\ w.r.informed)
        accepted == [w EXCEPT !.r.content = content, !.r.dirty = dirty,
                        !.r.base = BaseAfter(w.r, saved), !.r.loaded = TRUE,
                        !.r.errorKind = "none", !.r.retryable = TRUE,
                        !.r.conflict = NoRow, !.r.informed = told]
    IN  IF dirty THEN Backup(accepted, ok) ELSE ClearBackups(accepted)

(***************************************************************************)
(* loadNote and saveNote                                                   *)
(***************************************************************************)
Latest(s) == saves[TabOf(s)]
FinishedIfAbsent(p) == p = NoSession
Finished(p) == p # NoSession => ~Saving(sess[p])

StartLoad(w) ==
    [w EXCEPT !.r.loadPc = "wait", !.r.loadAwaits = Latest(w.me),
              !.r.errorKind = "none"]

CanSaveInConflict(r) ==
    r.dirty /\ r.loaded /\ ~Loading(r) /\ ~Saving(r) /\ r.errorKind # "load"
CanSave(r) ==
    /\ r.dirty /\ r.loaded /\ ~Loading(r) /\ ~Saving(r)
    /\ r.errorKind \notin {"load", "conflict"}

StartSave(w) ==
    IF CanSave(w.r)
    THEN [w EXCEPT !.r.savePc = "wait", !.r.saveAwaits = Latest(w.me)]
    ELSE w

\* The promise of a save is registered when it starts and dropped when it
\* settles, unless a later save has taken its place.
TrackSave(w) ==
    saves' = [saves EXCEPT ![TabOf(w.me)] =
                 IF Saving(w.r) /\ ~Saving(sess[w.me]) THEN w.me
                 ELSE IF ~Saving(w.r) /\ @ = w.me THEN NoSession
                 ELSE @]

EndSave(w, kind, retryable) ==
    [w EXCEPT !.r.savePc = "idle", !.r.put = Nothing, !.r.reply = Nothing,
              !.r.saveAwaits = NoSession,
              !.r.errorKind = kind, !.r.retryable = retryable]
SendPut(w) ==
    [w EXCEPT !.r.savePc = "put", !.r.reply = Nothing, !.r.errorKind = "none",
              !.r.put = [content |-> w.r.content, base |-> w.r.base]]

\* One turn of the drain loop: send the latest text, or stop.
Drain(w) ==
    IF ~w.r.dirty THEN EndSave(w, w.r.errorKind, w.r.retryable)
    ELSE IF w.r.content \in TooLong THEN EndSave(w, "save", FALSE)
    ELSE IF ~online THEN EndSave(w, "save", TRUE)
    ELSE SendPut(w)

ReconnectOnlyLoading(w) ==
    IF ~Saving(w.r) /\ ~Loading(w.r) /\ online /\ ~w.r.loaded
    THEN StartLoad(w) ELSE w

\* useNote's reconnect handler: online, focus and visibilitychange.
Reconnect(w) ==
    IF Saving(w.r) \/ Loading(w.r) \/ ~online THEN w
    ELSE IF ~w.r.loaded \/ w.r.errorKind = "load" \/ ~w.r.dirty
         THEN StartLoad(w)
    ELSE IF w.r.errorKind # "conflict" /\ w.r.retryable THEN StartSave(w)
    ELSE w

NewSession(content, dirty, restored, recovery) ==
    [open |-> TRUE, content |-> content, dirty |-> dirty, loaded |-> FALSE,
     errorKind |-> "none", retryable |-> TRUE, conflict |-> NoRow,
     base |-> IF restored = NoDraft THEN NoRevision ELSE restored.base,
     own |-> NoDraft, restored |-> restored, recovery |-> recovery,
     backups |-> 0, loadPc |-> "idle", loadAwaits |-> NoSession,
     got |-> Nothing, savePc |-> "idle", saveAwaits |-> NoSession,
     put |-> Nothing, reply |-> Nothing,
     typed |-> Nothing, informed |-> TRUE]

(***************************************************************************)
(* The user in tab t                                                       *)
(***************************************************************************)
Unused(t) == {n \in 1..MaxSessions : sess[<<t, n>>] = NoSession}
Files == {disk[s] : s \in Sessions} \ {NoDraft}

\* The user edits or discards the text that session s has restored.
MoveOn(s) ==
    taken' = taken \cup ({sess[s].restored} \ {NoDraft})

\* Entering the meeting restores the memory copy, or else the newest file;
\* which file is newest is left open, savedAt being a wall clock.
Enter(t) ==
    /\ active[t] = NoSession /\ Unused(t) # {}
    /\ LET s == <<t, CHOOSE n \in Unused(t) : \A m \in Unused(t) : n <= m>>
           choices == IF memory[t] # NoDraft THEN {memory[t]}
                      ELSE IF Files # {} THEN Files ELSE {NoDraft}
       IN  \E draft \in choices :
              LET fresh == IF draft = NoDraft
                           THEN NewSession(EmptyText, FALSE, NoDraft, {})
                           ELSE NewSession(draft.content, TRUE, draft,
                                           Files \ {draft})
                  w == [me |-> s, r |-> fresh]
              IN  /\ sess' = [sess EXCEPT ![s] = StartLoad(w).r]
                  /\ active' = [active EXCEPT ![t] = s]
    /\ UNCHANGED <<server, storedTexts, saves, disk, memory, online, event,
                   taken, edits, faults>>

\* A handler of the active session of tab t that runs Effect on its world.
OnActive(t, Effect(_)) ==
    /\ active[t] # NoSession
    /\ LET w == Effect(World(active[t]))
       IN  Publish(w) /\ TrackSave(w)
    /\ UNCHANGED <<server, storedTexts, online, faults>>

\* Leaving flushes and abandons the session; the flush may run on behind.
Leave(t) ==
    /\ OnActive(t, StartSave)
    /\ active' = [active EXCEPT ![t] = NoSession]
    /\ UNCHANGED <<event, taken, edits>>

\* The editor accepts input once the note or a draft is shown.
SetContent(t) ==
    /\ edits < MaxEdits
    /\ active[t] # NoSession
    /\ ~sess[active[t]].loaded => sess[active[t]].restored # NoDraft
    /\ \E text \in Texts \ {sess[active[t]].content}, ok \in StorageOutcomes :
          LET Type(w) ==
                LET failed == w.r.errorKind = "save"
                IN  Backup([w EXCEPT !.r.content = text, !.r.dirty = TRUE,
                              !.r.typed = text,
                              !.r.errorKind = IF failed THEN "none" ELSE @,
                              !.r.retryable = failed \/ @], ok)
          IN  OnActive(t, Type)
    /\ MoveOn(active[t])
    /\ edits' = edits + 1
    /\ UNCHANGED <<active, event>>

\* The save button, Ctrl-S, ending the meeting, pagehide, a hidden page.
SaveNow(t) ==
    /\ active[t] # NoSession /\ CanSave(sess[active[t]])
    /\ OnActive(t, StartSave)
    /\ UNCHANGED <<active, event, taken, edits>>

AutoSave(t) ==
    /\ timer[t]
    /\ OnActive(t, StartSave)
    /\ UNCHANGED <<active, event, taken, edits>>

Focus(t) ==
    /\ OnActive(t, Reconnect)
    /\ UNCHANGED <<active, event, taken, edits>>

OnlineEvent(t) ==
    /\ event[t]
    /\ event' = [event EXCEPT ![t] = FALSE]
    /\ IF active[t] = NoSession
       THEN UNCHANGED <<server, storedTexts, sess, saves, disk, memory, online, faults>>
       ELSE OnActive(t, Reconnect)
    /\ UNCHANGED <<active, taken, edits>>

\* The reload button, offered after a failed load or a conflict whose other
\* side could not be fetched.
Reload(t) ==
    /\ active[t] # NoSession
    /\ LET r == sess[active[t]]
       IN  /\ ~Loading(r)
           /\ r.errorKind = "load" \/ (r.errorKind = "conflict" /\ r.conflict = NoRow)
    /\ OnActive(t, StartLoad)
    /\ UNCHANGED <<active, event, taken, edits>>

\* The two buttons of the conflict dialog; the first one saves as well.
Resolve(t) ==
    /\ active[t] # NoSession /\ sess[active[t]].conflict # NoRow
    /\ \E local \in BOOLEAN, ok \in StorageOutcomes :
       LET Choose(w) ==
             LET chosen == Accept(w, w.r.conflict, ~local, TRUE, ok)
             IN  IF local THEN StartSave(chosen)
                          ELSE [chosen EXCEPT !.r.typed = Nothing]
       IN /\ OnActive(t, Choose)
          /\ IF local THEN UNCHANGED taken ELSE MoveOn(active[t])
    /\ UNCHANGED <<active, event, edits>>

\* Another draft found on entry replaces a clean text.
RestoreDraft(t) ==
    /\ active[t] # NoSession
    /\ LET s == active[t]
           r == sess[s]
       IN  /\ ~r.dirty /\ ~Saving(r) /\ ~Loading(r)
           /\ \E draft \in r.recovery, ok \in StorageOutcomes :
                 LET shown == [World(s) EXCEPT
                                 !.r.restored = draft, !.r.base = draft.base,
                                 !.r.content = draft.content, !.r.dirty = TRUE,
                                 !.r.recovery = @ \ {draft}]
                 IN  Publish(StartLoad(Backup(shown, ok)))
    /\ UNCHANGED <<server, storedTexts, active, saves, online, event, taken,
                   edits, faults>>

\* Closing or reloading the page: what is on disk and on the wire remains.
\* The beforeunload guard keeps the user in while a memory copy exists.
Close(t) ==
    /\ \E s \in Sessions : TabOf(s) = t /\ sess[s] # NoSession /\ sess[s].open
    /\ memory[t] = NoDraft
    /\ sess' = [s \in Sessions |->
          IF TabOf(s) # t \/ sess[s] = NoSession THEN sess[s]
          ELSE [sess[s] EXCEPT !.open = FALSE, !.loadPc = "idle",
                   !.got = Nothing, !.loadAwaits = NoSession,
                   !.savePc = IF @ = "put" THEN "put" ELSE "idle",
                   !.saveAwaits = NoSession, !.reply = Nothing,
                   !.conflict = NoRow, !.errorKind = "none",
                   !.retryable = TRUE, !.recovery = {}, !.own = NoDraft,
                   !.restored = NoDraft]]
    /\ active' = [active EXCEPT ![t] = NoSession]
    /\ saves' = [saves EXCEPT ![t] = NoSession]
    /\ event' = [event EXCEPT ![t] = FALSE]
    /\ UNCHANGED <<server, storedTexts, disk, memory, online, taken, edits, faults>>

(***************************************************************************)
(* The requests of session s                                               *)
(***************************************************************************)
Fault == faults < MaxFaults /\ faults' = faults + 1

\* The session's own steps: nothing but the session and its drafts moves.
Inner(w) ==
    /\ Publish(w)
    /\ TrackSave(w)
    /\ UNCHANGED <<active, online, event, taken, edits>>

Open(s) == sess[s] # NoSession /\ sess[s].open

\* loadNote waits for the save it found under way; the server answers later.
GetNote(s) ==
    /\ Open(s) /\ sess[s].loadPc = "wait" /\ Finished(sess[s].loadAwaits)
    /\ \/ /\ Inner([World(s) EXCEPT !.r.loadPc = "got", !.r.got = server,
                                    !.r.loadAwaits = NoSession])
          /\ UNCHANGED faults
       \/ /\ Fault
          /\ \E kind \in Failures :
                Inner([World(s) EXCEPT !.r.loadPc = "got", !.r.got = kind,
                                       !.r.loadAwaits = NoSession])
    /\ UNCHANGED <<server, storedTexts>>

DivergedNever(r, saved) == FALSE
Diverged(r, saved) == r.dirty /\ ~Agrees(r.content, saved) /\ r.base # saved.revision

\* The answer is judged against the text the session holds by now.
ReceiveNote(s) ==
    LET r == sess[s]
        saved == r.got
        w == [World(s) EXCEPT !.r.loadPc = "idle", !.r.got = Nothing]
        failed == saved \in Failures
    IN  /\ Open(s) /\ r.loadPc = "got"
        /\ \E ok \in StorageOutcomes :
              IF failed
              THEN Inner([w EXCEPT !.r.errorKind = "load",
                                   !.r.retryable = (saved = Retryable)])
              ELSE IF Diverged(r, saved)
              THEN Inner([w EXCEPT !.r.loaded = TRUE, !.r.conflict = saved,
                                   !.r.errorKind = "conflict",
                                   !.r.retryable = FALSE])
              ELSE Inner(Accept(w, saved, ~r.dirty, FALSE, ok))
        /\ UNCHANGED <<server, storedTexts, faults>>

\* The save waits for an earlier one, then enters its drain loop.
BeginSave(s) ==
    /\ Open(s) /\ sess[s].savePc = "wait" /\ Finished(sess[s].saveAwaits)
    /\ Inner(Drain([World(s) EXCEPT !.r.saveAwaits = NoSession]))
    /\ UNCHANGED <<server, storedTexts, faults>>

\* What the server does with a PUT, as VersionedNote specifies it.
Known(put) == server.revision > 0 /\ server.content = put.content
Fresh(put) == ~Known(put) /\ server.revision = put.base

Apply(put) ==
    IF Fresh(put)
    THEN /\ server' = [content |-> put.content, revision |-> put.base + 1]
         /\ storedTexts' = Append(storedTexts, put.content)
    ELSE UNCHANGED <<server, storedTexts>>

Answered(s, answer) ==
    IF sess[s].open
    THEN [World(s) EXCEPT !.r.savePc = "replied", !.r.reply = answer]
    ELSE [World(s) EXCEPT !.r.savePc = "idle", !.r.put = Nothing]

Sent(s) == sess[s] # NoSession /\ sess[s].savePc = "put"

ServePut(s) ==
    /\ Sent(s)
    /\ Apply(sess[s].put)
    /\ Inner(Answered(s, IF Known(sess[s].put) \/ Fresh(sess[s].put)
                         THEN server' ELSE ConflictReply))
    /\ UNCHANGED faults

\* The request or its answer is lost, or the server refuses it for good.
FailPut(s) ==
    /\ Sent(s)
    /\ Fault
    /\ \/ Apply(sess[s].put) /\ Inner(Answered(s, Retryable))
       \/ /\ \E kind \in Failures : Inner(Answered(s, kind))
          /\ UNCHANGED <<server, storedTexts>>

\* The answer to the PUT: adopt it and drain on, or fetch the other side of
\* a conflict, or stop with an error.
ReceivePut(s) ==
    LET w == World(s)
        reply == sess[s].reply
    IN  /\ Open(s) /\ sess[s].savePc = "replied"
        /\ \E ok \in StorageOutcomes :
              IF reply = ConflictReply
              THEN Inner([w EXCEPT !.r.savePc = "reget", !.r.reply = Nothing,
                                   !.r.put = Nothing, !.r.retryable = FALSE,
                                   !.r.errorKind = "conflict"])
              ELSE IF reply \in Failures
              THEN Inner(EndSave(w, "save", reply = Retryable))
              ELSE Inner(Drain(Accept([w EXCEPT !.r.put = Nothing], reply,
                                      FALSE, TRUE, ok)))
        /\ UNCHANGED <<server, storedTexts, faults>>

GetConflict(s) ==
    /\ Open(s) /\ sess[s].savePc = "reget"
    /\ \/ /\ Inner([World(s) EXCEPT !.r.savePc = "regot", !.r.reply = server])
          /\ UNCHANGED faults
       \/ /\ Fault
          /\ Inner([World(s) EXCEPT !.r.savePc = "regot",
                                    !.r.reply = Retryable])
    /\ UNCHANGED <<server, storedTexts>>

ReceiveConflict(s) ==
    LET w == World(s)
        saved == sess[s].reply
    IN  /\ Open(s) /\ sess[s].savePc = "regot"
        /\ \E ok \in StorageOutcomes :
              IF saved = Retryable
              THEN Inner(EndSave(w, w.r.errorKind, w.r.retryable))
              ELSE IF Agrees(w.r.content, saved)
              THEN Inner(EndSave(Accept(w, saved, FALSE, FALSE, ok), "none", TRUE))
              ELSE Inner(EndSave([w EXCEPT !.r.conflict = saved],
                                 w.r.errorKind, w.r.retryable))
        /\ UNCHANGED <<server, storedTexts, faults>>

(***************************************************************************)
(* The network of the browser, the autosave timer                          *)
(***************************************************************************)
GoOffline ==
    /\ online /\ Fault
    /\ online' = FALSE
    /\ UNCHANGED <<server, storedTexts, sess, active, saves, disk, memory, event,
                   taken, edits>>

GoOnline ==
    /\ ~online
    /\ online' = TRUE
    /\ event' = [t \in Tabs |-> TRUE]
    /\ UNCHANGED <<server, storedTexts, sess, active, saves, disk, memory, taken,
                   edits, faults>>

\* useNote's autosave effect runs again when one of its dependencies changes:
\* it drops the timer and starts a new one if there is something to save.
Watched(t) ==
    IF active[t] = NoSession THEN <<>>
    ELSE LET r == sess[active[t]]
         IN  <<r.content, r.dirty, Saving(r), Loading(r), r.loaded,
               r.errorKind, r.retryable>>

AutoSaveDue(t) ==
    /\ active[t] # NoSession
    /\ CanSave(sess[active[t]])
    /\ sess[active[t]].retryable
    /\ online

RunEffects ==
    timer' = [t \in Tabs |-> IF Watched(t)' = Watched(t) THEN timer[t]
                                                         ELSE AutoSaveDue(t)']

UserStep(t) ==
    \/ Enter(t) \/ Leave(t) \/ SetContent(t) \/ SaveNow(t) \/ Focus(t)
    \/ Reload(t) \/ Resolve(t) \/ RestoreDraft(t) \/ Close(t)

BrowserStep(t) == AutoSave(t) \/ OnlineEvent(t)

SessionStep(s) ==
    \/ GetNote(s) \/ ReceiveNote(s) \/ BeginSave(s) \/ ServePut(s)
    \/ ReceivePut(s) \/ GetConflict(s) \/ ReceiveConflict(s)

EditorNext ==
    /\ \/ \E t \in Tabs : UserStep(t) \/ BrowserStep(t)
       \/ \E s \in Sessions : SessionStep(s) \/ FailPut(s)
       \/ GoOffline \/ GoOnline
    /\ RunEffects

EditorSpec == EditorInit /\ [][EditorNext]_editorVars

\* The browser fires its timers and events and runs its continuations, the
\* server answers, and a lost network comes back; the user owes nothing.
FairEditorSpec ==
    /\ EditorSpec
    /\ \A t \in Tabs : WF_editorVars(BrowserStep(t) /\ RunEffects)
    /\ \A s \in Sessions : WF_editorVars(SessionStep(s) /\ RunEffects)
    /\ WF_editorVars(GoOnline /\ RunEffects)

(***************************************************************************)
(* Properties                                                              *)
(***************************************************************************)
Stored(text) == text = EmptyText \/ \E n \in DOMAIN storedTexts : storedTexts[n] = text

Kept(s) ==
    \/ Stored(sess[s].typed)
    \/ \E f \in Files : f.content = sess[s].typed
    \/ /\ sess[s].open
       /\ memory[TabOf(s)] # NoDraft
       /\ memory[TabOf(s)].content = sess[s].typed

Entrusted(s) ==
    /\ sess[s] # NoSession /\ sess[s].typed # Nothing
    /\ \A d \in taken : d.key = s => d.savedAt + 1 < sess[s].backups

\* No edit is lost: the text the user typed last in a session, whether its
\* tab is open, left, reloaded or closed, is a stored revision or a
\* recoverable draft, until the user gives it up: for the server's version, or
\* by going on from it in another session that has restored it.
NoEditLost == \A s \in Sessions : Entrusted(s) => Kept(s)

\* What noteStore.ts:71 promises when localStorage refuses the draft: the text
\* of a session that was left with its save over and failed is recoverable.
CopySurvivesNavigation ==
    \A s \in Sessions :
        /\ Entrusted(s) /\ sess[s].open /\ active[TabOf(s)] # s
        /\ sess[s].dirty /\ ~Saving(sess[s]) /\ ~Loading(sess[s])
        => Kept(s)

\* No silent overwrite: a PUT only quotes a revision its author has seen.
NoSilentOverwrite ==
    \A s \in Sessions : Sent(s) =>
        sess[s].informed /\ sess[s].put.base \in 0..Len(storedTexts)

\* A session that shows no unsaved changes shows exactly the revision it is
\* based on: "saved" is never displayed for a text the server does not have.
CleanMeansStored ==
    \A s \in Sessions : Open(s) =>
        (sess[s].loaded /\ ~sess[s].dirty =>
            \/ sess[s].base = 0 /\ sess[s].content = EmptyText
            \/ /\ sess[s].base \in DOMAIN storedTexts
               /\ sess[s].content = storedTexts[sess[s].base])

\* While a conflict is shown to the user, nothing is sent.
ConflictBlocksSaving ==
    \A s \in Sessions : Sent(s) => sess[s].conflict = NoRow

\* Autosave gets there: an unsaved text that the server may accept is saved,
\* or the user is told what is wrong, whatever the network did in between.
Waiting(t) ==
    /\ active[t] # NoSession
    /\ sess[active[t]].dirty /\ sess[active[t]].retryable
    /\ sess[active[t]].errorKind \notin {"load", "conflict"}

EditsSettle == \A t \in Tabs : Waiting(t) ~> ~Waiting(t)

\* Leaving is never a way to leave a request hanging: a session that was
\* abandoned comes to rest.
AbandonedSessionsRest ==
    \A s \in Sessions :
        active[TabOf(s)] # s ~>
           active[TabOf(s)] = s \/ sess[s] = NoSession
           \/ (~Saving(sess[s]) /\ ~Loading(sess[s]))
=============================================================================
