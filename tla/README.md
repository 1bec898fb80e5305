# Nangman Note: a TLA+ model

Nangman Note records a meeting in the browser, transcribes it with Amazon Transcribe (live over a
WebSocket, or in a batch after the meeting), lets the user take notes meanwhile, and has a language
model write the minutes. This directory holds TLA+ modules translated from that code, the TLC
configurations that check them, and proofs that TLAPS checks. Paths below are relative to the
repository root; `note.service.ts` and the like are named without their directory where
`PROJECT.json` ("map") gives the exact lines.

## 1. Inventory

The **backend** is one NestJS process or several, with a PostgreSQL database, an S3 bucket and AWS
clients. The **frontend** is a Next.js application: zustand stores, hooks, and IndexedDB and
localStorage in the browser. They talk HTTP, plus two socket.io namespaces for audio and for status
events.

| Component | State | Operations | Hard behaviour | What makes it correct |
|---|---|---|---|---|
| Note service | `note` row with a revision, search projection | GET, PUT (upsert) | concurrent PUTs between SELECT and UPDATE, retries, purge under a write | compare-and-swap: no lost update, a 200 is stored, a 409 is deserved |
| Note editor (`noteStore.ts`, `noteDrafts.ts`, `useNote.ts`) | session per visit, drafts in localStorage and in memory, autosave timer | load, type, save, conflict dialog, restore, leave, close | late answers, several tabs on one disk, offline, full storage | no edit lost, no silent overwrite, "saved" is true |
| End-of-meeting flow | phase, current session and attempt | complete, issue, PUT, confirm, retry, continue without audio | lost answers, a closed tab | every session is transcribed once |
| Transcription service, batch part | upload and job rows, advisory locks | issue, confirm, queue, submit, boot scan | the same upload handled by four tasks, lost AWS answers | one AWS job per audio file |
| Result collector | poll loops in memory, segments, job rows | poll, collect, gate, generate, recheck; segments from AWS items | crash between merge, save and delete; gate against late uploads | audio or transcript always exists; every word reaches the model |
| Reconciliation, stalled-meeting recovery | interval timers | reconcile an upload, recover a meeting | races with the tasks they stand in for | an ended meeting completes |
| Meeting and result service | `meeting` and `meeting_result` rows, in-flight maps | complete, update, trash, restore, purge, list, generate, regenerate | whole-row saves of entities read before an await; phase lock and its recovery | one generation, the phase is released, rows agree |
| Search projection | `meeting_search_document` row | refresh, repair, search | overlapping and failing refreshes | a search answers what the tables hold |
| Realtime gateway, streaming provider | clients, producer, sessions, timers, offsets, failure counters | connect, start, audio, stop, disconnect | awaits between check and registration, replaced sessions | an open session is reachable, time runs forward |
| Audio streaming client | pending chunks, acks in flight, sequence numbers | capture, flush, ack, timeout, reconnect, restart | retries, late acks, full buffer | chunks heard in order, none twice |
| Recorder and chunk database | microphone, MediaRecorder, IndexedDB chunks | record, stop, assemble, end, reload | writes pending at stop, two recorders | a file is whole, audio is cleared when uploaded |
| Transcript view | segments, socket, resync, token renewal | finals, partials, resync, refusal | live events against stored rows | nothing twice, nothing lost again |
| Status events, meeting list, result view | list and result caches, rooms | event, fetch, poll, edit | answers and events out of order or lost | the view catches up, a wait ends |
| Session tokens, token verifier | cookie, tokens in memory, refresh in flight, key-set cache | poll, refresh, 401 retry, discovery | rotating refresh tokens used twice | a session is not lost without cause |
| PDF renderer, document output | shared browser, render slots; markdown read line by line | render, reset, convert | a reset under other renders; unclosed tables | renders end; the export is complete |
| Long-note extraction, Bedrock client | chunks, workers, parts | split, extract, halve, merge, fall back | a chunk cut off or throttled beside another | minutes rest on the whole source |
| Prompts, user settings | rows, two browser stores | list, edit, delete, change defaults, migrate | delete against a new reference, overtaken calls | what is shown is what is stored |
| Field encryption | key ring, envelopes | encrypt, decrypt, rotate keys | rolling restarts, saves that fail, moved fields | nothing but the stored text is read |

They interact by direct calls (controllers to services), by the database rows they share, by the
event emitter (`meeting.status.changed` with phase `generating` starts the generation handler), by
intervals (reconciliation, recovery, polls of the browser), by sockets, and by AWS and S3.
`PROJECT.json` lists every component with what its model leaves out, and the hazards at the line
where they bite.

## 2. What is modelled

An action is what runs without interruption: one database statement with the code around it on the
server, one continuation between two awaits in the browser. `PROJECT.json` maps each definition to
its lines; the head of each module says what it abstracts. Variables that only record what happened
for a property are called auxiliary there.

### The note: NoteService, VersionedNote, NoteStore

`VersionedNote` is the abstract promise: a register that a request swaps only on top of the revision
it quotes, confirms without a write when the text is already there, and otherwise rejects.
`NoteService` is `NoteService.upsert` with one action per database statement: `FindMeeting`,
`FindNote` (which decides between insert, update and an immediate answer), `UpdateNote` (conditional
UPDATE), `InsertNote` (unique index and foreign key), `RereadNote` (after a unique violation), and
the two halves of the projection refresh. `Trash`, `Restore` and `Purge` move the meeting underneath;
`DatabaseError` and `LoseRequest` end a request at any statement. The outcome of a request refines
the register's (`VN == INSTANCE VersionedNote WITH outcome <- reply`).

`NoteStore` is sessions of one meeting in several tabs of one browser, against the register served in
one step. `loadNote` is `GetNote`/`ReceiveNote`, `saveNote` is `BeginSave`, `ServePut`, `ReceivePut`,
`GetConflict`, `ReceiveConflict` around the drain loop `Drain`. A session abandoned by `Leave` runs
on. `disk` is localStorage, shared by the tabs; `memory` is the per-tab fallback when the storage
refuses a write. `RunEffects`, a conjunct of every step, is React re-running the autosave effect.

### From the end of a meeting to its minutes: BatchPipeline

The browser is a small state machine (`client`); the backend is a set of tasks (`task`): the confirm
handler, the reconciliation, the recovery, the two boot scans, and one poller per job. A task record
holds where it is, its upload and the advisory lock it holds; it takes one action per row access.
`processBatchUpload` is `ProcessBatchUpload`, `QueueBatchJob`, `SubmitBatchJob`, `SaveSubmittedJob`,
`LinkUpload`; the collector is `PollJob`, `CollectSegments`, `SaveCollectedJob`, `DeleteAudioFile`,
then the gate `GateReadsJobs`, `GateReadsUploads`, `EmitGeneratingPhase`; the `generating` events run
`HandleGeneratingPhase` and join the one `generation`. `CrashAndRestart` drops everything in memory
and runs both `onModuleInit`s. `Fault` bounds failing and unanswered calls. Its abstractions:

- A meeting-row update (read, change, save) is one step; overlapping updates are MeetingLifecycle's.
- There is one backend instance. An advisory lock is a field of the task that holds it.
- Time: an upload becomes `old` once the browser has left it, because each call of the browser times
  out within minutes. The recovery acts when the browser is idle (an hour has passed), on a row that
  no task is about to write.
- AWS: QUEUED and IN_PROGRESS are one state; no code tells them apart.
- A failing audio deletion, which the code logs and ignores, is left out.

### The rows of a meeting: MeetingLifecycle

Almost every operation of `MeetingService` and `ResultService` is "findById, change the entity,
save", and TypeORM's `save` writes the columns in which the entity differs from the row as it is
then. A task is a request or a handler: its label is the statement it is at, its copy the entity it
read. `CompleteMeeting`, `PatchTitle`, `PatchPrompt`, `PatchResult`, `TranscriptionSettles`,
`HandleGenerating`, `RequestRegeneration` and `RecoverStalledRegeneration` start tasks; `TrashMeeting`,
`RestoreMeeting` and `PurgeMeeting` move the row; `GenerationStep` is the background generation with
its catch; statements fail and instances crash.

At this granularity a stale save can undo a completion: `complete()` awaits between reading and
saving its row (`meeting.service.ts:492`), and so do other handlers. `BatchPipeline` takes
`complete()` as one step, so nothing is claimed there about what becomes of a completed meeting. What
is promised regardless is checked here: the lock is released, a failed regeneration puts the prompt
back, nothing regenerates for ever.

### Live transcription: RealtimeGateway, AudioStreaming, OrderedAudio, MeetingRecorder, TranscriptView

`RealtimeGateway` is the gateway, the realtime part of the service and the streaming provider:
sockets whose `handleConnection` is still awaiting, the start of a session with its two awaits
(`StartFindsMeeting`, `StartReadsSegment`), sessions with their result loops (`LoopStep`, `Final`)
that outlive their place in the map, the offsets by which a new session continues the time of the
one before, the grace timer, capacity and the failure counts of the circuit breaker.

`AudioStreaming` is the browser's side: starts that overtake each other across the await of the
worklet (`opening`), chunks with sequence numbers, acknowledgements that time out and arrive later,
retries, backoff, the bounded buffer, lost and new connections. Its abstract specification
`OrderedAudio` is an ordered stream with gaps; `HearsInOrder` is the refinement
(`Ordered!OrderedSpec`).

`MeetingRecorder` is the page while it records: microphone requests that are overtaken, recorders
that deliver their last data after they were stopped, writes to IndexedDB that settle late, the
effects that react to socket, stream and mode, and the end of the meeting until its audio is
uploaded, refused or given up. A recorder that was stopped delivers its last data and its `onstop`
within a task or two; the model lets that happen at any time before the next answer of the server or
of `getUserMedia`, which take much longer. (Without that order three recordings could mix two files:
the invariant of the proof would not hold, and TLC shows how.)

`TranscriptView` is what the page shows: finals are emitted before they are stored, translated
afterwards, shown by event and merged again from the rows after a reconnect; a refused token is
renewed while sockets come and go.

### What the browser shows: MeetingList, ResultView, SessionTokens, PromptSettings

`MeetingList` has reads in flight with the two sequence comparisons of the store as flags
(`latest`, `latestMore`), server pages read one after the other, edits, status events that may be
lost, and the judgement of the selected meeting. `ResultView` has the latest fetch, the row and the
regenerating flag read one after the other by the server, the polls with their limits and overtaken
attempts, and regenerate events. `SessionTokens` has the cookie, one refresh in flight per pair, the
cache of rotated pairs, the token in the memory of each tab, and the discovery of the key set;
the identity provider, external, rotates refresh tokens. `PromptSettings` has both stores, the
services statement by statement, foreign keys, and the migration of settings once kept in the
browser.

### From words to minutes: TranscriptText, SourceSplit, SourceText, MinutesGeneration, MinutesContent, DocumentOutput

Functions of the code, as operators that TLC evaluates for every input within the bounds:
`TranscriptText` is `itemsToSegments`, `mergeBatchSegments` and the preparation for the model;
`SourceSplit` the splitting of long notes by character class, `SourceText` its calls;
`MinutesContent` the fields of the three kinds of document through prompt, normaliser, merge,
validation and renderer; `DocumentOutput` the conversion of Markdown line by line. Texts are
sequences of tokens that say what the code tells apart (a hesitation, a separator row, half of a
surrogate pair). `MinutesGeneration` is the process around them: attempts, two chunks extracted at a
time, a chunk halved when it is cut off, poor or refused, throttling, overview, the older prompt (one
chunk at a time, halved alike) as a fallback and the notice at the end of all attempts.

### At rest: FieldEncryption, MeetingSearch, PdfRenderer

`FieldEncryption` is the subscriber around saves and loads, on instances with different key rings
while a configuration is rolled out; the cipher is taken as ideal. Whether a value is encrypted the
code tells by its look: a text of the user that begins with `enc:`, or has three parts of the shape of
an older envelope, counts as encrypted (`encryption.service.ts:111-118`, which
`encryption.service.spec.ts:131-135` and `159-173` fix). The model has such a text, `lookalike`: it is
stored in clear, rejected after its own save (a transaction is rolled back, the conditional UPDATE of
a note stands), and rejected on every load.

`MeetingSearch` is the projection with its refreshes and both ways of searching, one action per
statement: a refresh reads the meeting, then each text at a moment of its own, and writes or deletes
its document; a search looks for missing documents, refreshes them one by one, looks again, and then
reads the documents. Between that last look and the reading, a refresh that was under way may delete
its document, and the search misses that meeting. `suspect` names the documents that an overtaken or
failed refresh left behind, or that were never refreshed because a transcript is merged without it;
`search.doubt` adds those under refresh and those deleted after the last look.

`PdfRenderer` is the render slots and the shared browser. A browser that nothing refers to any more
gives its number back, so the bound on browsers is never met.

## 3. What TLC checks

Components that do not interact are checked beside each other in one run: the MC module EXTENDS
them all and adds a variable `part`, chosen in the initial state, that says which of them the
behaviour moves; the others keep one of their initial states. The states of a run are therefore the
sum, not the product, of those of its parts, each part is checked as it would be alone, and a
liveness run owes a behaviour only the fairness of its own part (`MeetingsFairness`, `PageFairness`).

| Run | Module | Parts and bounds | Distinct states |
|---|---|---|---|
| `note` | MCNote | server: 3 requests, 3 texts, revisions to 2. Two tabs: 1 session each, 2 edits. One tab: 2 sessions, 2 edits, 1 fault, a text that is too long | 852,848 |
| `batch_crash` | BatchPipeline | 1 session, 1 fault and 1 crash | 2.7 million |
| `batch_live` | BatchPipeline | 1 session, 1 fault or crash | 440 thousand |
| `realtime` | MCRealtime | gateway: 1 meeting, 2 sockets, 2 AWS sessions with 1 final each, a circuit breaker that opens at 1 failure. Stream: 2 starts, 2 chunks, buffer of 1, 2 stale messages. Recorder: 2 recordings of 1 chunk, 3 microphone requests, 1 reload. View: 2 finals, 2 sockets, 2 losses | 1.4 million |
| `meetings` | MCMeetings | row: 2 tasks, 1 instance, 2 prompts, 2 events. List: 3 meetings, pages of 1, 3 changes. PDF: 3 renders in 2 slots, any crashes, failed launches and resets | 204,949 |
| `meeting_page` | MCMeetingPage | viewer: 2 meetings, 2 steps. Editor: 1 tab, 2 sessions, 1 edit, 1 fault | 43,468 |
| `texts` | MCTexts | tokens: 2 tabs, 2 pairs, 1 call, 1 fault. Settings: 1 tab, 1 prompt of the user, 2 acts, 1 loss. Splitting: note and transcript of 6 characters together. Transcript: 3 tokens. Generation: source of 4, 2 attempts. Minutes: 2 answers of 2 items. Export: 3 lines. Encryption: 2 instances, 2 key changes, 1 damage. Search: 2 meetings of 3 texts, the second page, 2 changes, 2 refreshes at once, 1 fault | 1,154,208 |

What they show:

- `note`: the upsert is a compare-and-swap register (`ImplementsVersionedNote`, `NoLostUpdate`,
  `SuccessMeansStored`), the projection holds only saved texts (`SearchShowsSavedText`), and no
  editor loses a text, overwrites one unseen, or shows "saved" for what is not stored (`NoEditLost`,
  `NoSilentOverwrite`, `CleanMeansStored`, `ConflictBlocksSaving`).
- `batch_crash`, `batch_live`: the recording is audio or transcript through every failure, one AWS
  job per audio file, the minutes wait for the one session, and an ended meeting completes unaided.
- `realtime`: an open AWS session can be fed and stopped (`OpenSessionInMap`), the transcript's time
  runs on (`TimelineExtends`), the server hears chunks in order and once (`HearsInOrder`,
  `AcceptedWasHeard`), files are whole and cleared only when uploaded (`FilesAreWhole`,
  `ClearedWhenUploaded`), one microphone, and the screen repeats nothing, drops nothing it recovered
  and is never stranded by a refused token (`NoSegmentTwice`, `RecoveredStaysShown`,
  `ExpelledRecovers`).
- `meetings`: the local lock of a regeneration is held exactly while one runs, the rows agree on the
  prompt, and "regenerating" ends (`RegenerationHoldsLock`, `PromptOfMinutes`, `RegenerationSettles`);
  the list comes to the server's rows once changes stop (`ListFollowsServer`); every render ends,
  whatever a reset does to the browser under the others (`EveryRenderEnds`).
- `meeting_page`: a wait for minutes ends (`WaitingEnds`), edits settle and abandoned sessions rest
  (`EditsSettle`, `AbandonedSessionsRest`).
- `texts`: a session is lost only with a cause (`SessionLostHasCause`), settings shown are those
  stored (`ShownIsStored`), and the words are neither lost nor invented on their way: into segments
  and the model (`WordsReachTheModel`), into chunks (`SplitIsLossless`), through extraction
  (`MinutesCoverSource`), into the minutes (`AnswersAreShown`) and the export (`MinutesAreExported`),
  under encryption with one field damaged or moved (`ReadsBack`), and in the search
  (`SearchFindsWhatIsStored`). Three of these properties name what the code does not promise: halves
  that the older prompt answers with nothing are left out, a text that looks like an envelope is not
  read back, and a search may be wrong about a single meeting whose document is not up to date when
  it is read; it is exact about the others and about their place on the page.

Five more runs expect a **violation**, each of what a comment of the code says (`PROJECT.json`,
"findings", quotes the lines):

1. `note_retry`: *a retry of the same text can be answered 409.* When the first attempt commits
   between the retry's SELECT and its UPDATE, the update path answers a conflict without comparing
   the texts (the insert path does compare).
2. `editor_full_storage`: *the memory copy of a draft can be deleted by another session.*
   `clearBackups` drops the copy by meeting id, so the late answer of an abandoned session removes
   the copy of its successor.
3. `batch_left_out`: *the minutes of several sessions can be made from the first one.* The gate sees
   only uploads that have been issued, and a later session's is issued when its turn comes.
4. `batch_twice`: *a repeated upload is transcribed twice.* Each attempt of a PUT gets a row and a
   key of its own, and the reconciliation queues the first object too.
5. `circuit_breaker`: *refused sessions never open the circuit breaker.* A start returns before AWS
   has accepted the stream, and then forgets the failures counted; the failure arrives later, and the
   next start forgets it again.

Every property of a passing run has a mutant: the definition named there, changed as a plausible bug
would, makes TLC find the property violated.

**Why the bounds are enough.** Three requests are the smallest number in which two race and a third
retries; three texts let all differ. The editor races are between two writers (two tabs, or a session
and the one that replaced it), and one further edit during a save. In the pipeline the interesting
cases are two tasks on one upload (one session is enough, with every task present) and a failing call
next to a crash (`MaxFailures = 2`); two sessions are the subject of `batch_left_out`. In the gateway
two sockets are a client and its reconnect, two sessions one that drains and its successor. One
failure opens the circuit breaker of `realtime`; how failures are counted is the question of
`circuit_breaker`, whose threshold is two. A buffer
of one chunk is full at once; two starts are one that overtakes the other. Two tasks are a stale
entity and the write it undoes. The list has more pages than one, a meeting that appears, and three
changes, which is a read overtaken during an edit. Token pairs beyond two repeat the first rotation.
The texts are as long as their smallest interesting shape: a surrogate pair across two ends, a table
inside a code block, three segments to join. Two refreshes at once are one that is overtaken; the second page of one
meeting per page depends on what is found of both. The result text of a meeting is treated as its note
is and is left out of the run. Three renders are two that hold slots, one of which resets the browser
under the other, and one that waits. Every action of each module fires in some passing run.
Symmetry: the requests' texts are named in order (`note`), the two sockets permuted (`realtime`, which
checks no liveness). Deadlock is not checked: requests finish, pages close, a completed meeting rests.

**Fairness.**

- `BatchPipeline`: a running task, a handler and the generation go on; the browser's automatic flow
  goes on; the reconciliation and recovery intervals fire; URLs expire; AWS finishes its jobs.
- `MeetingLifecycle`: a request, handler or generation goes on; the event handler runs; time passes.
  The recovery is strong: its timer fires every few minutes but finds the meeting only while nothing
  else holds it, which may be the case again and again without being so for ever.
- `MeetingList`: the poll fires, the server serves, answers arrive or fail, events are applied.
- `ResultView`: the server serves, answers arrive, polls fire, a hidden page is shown again. Giving
  up is strong: the counter of polls is taken up between fetches that disable the step for a moment.
- `NoteStore`: timers and events fire, continuations run, the server answers and a lost network
  comes back.
- `PdfRenderer`: a launch resolves or fails, the watchdog's timer fires, a dead browser is noticed,
  continuations run. Each of these steps is taken at most twice by a request, so the fairness of their
  union is that of each. Printing itself owes nothing: the watchdog is there for that.

Clicks, faults, crashes and lost messages are never obliged, and are finite in number, so liveness
says "once the failures stop".

## 4. What TLAPS proves

**NoteServiceProofs**, for any set of requests and texts and any revision bound: `TypeCorrect`,
`NoUpdateIsLost`, `SuccessIsDurable`, `PurgeIsFinal`, `SearchIsSound`, `ConflictIsReal`, and
`ImplementsRegister` (the statement-level upsert refines `VersionedNote`). The assumptions are that
`MaxRevision` is a natural number and that the sentinels are not values. "No lost update" is not
inductive alone: nothing in it says that a request about to insert had quoted revision 0, or that
revisions are not reused after the row has gone. The invariant `IInv` adds what each statement of a
request knows (`StepInv`), that the row is the last entry of the history, and that a meeting that was
not purged has a row as soon as anything was written (`RowKept`). Both kinds of write go through
`Commit`; its lemma carries most of the argument, and every answer goes through `AnswerKeepsIInv`.

**BatchPipelineProofs**, for any number of sessions, upload rows, retries, faults and crashes:
`PipelineTypeCorrect`, `RecordingIsKept`, `SubmittedOnce`,
`MinutesAreMadeFromSomething` and `OneSessionIsCovered` (`MinutesCoverEverySession`). The only
assumption is `BoundsAssumption`. The invariant says what a task knows at its program point
(`GoodTask`): from "load" its upload is issued, from "submit" its job row exists, from "saveCollected"
its segments are in the database. Uploads, jobs and segments are never removed, so
`GoodTasksStayGood` gives that no task's step invalidates what another knows; each action then only
answers for its own record. `RowsInv` says that a job row carries the name it is submitted under from
its insertion on, whence one AWS job per audio file; "deleteAudio is only reached with the segments
stored" gives that a recording is always audio or transcript.
What the minutes are made from needs a second invariant (`HeardInv`): while the pipeline has not
asked for attention, a task reaches the last check of the gate, a handler starts and a generation
reads only after some upload's transcript is stored or AWS has rejected an audio (`Heard`), because
the tasks that open the gate come from a collected job, and the one that does not, the recovery,
has a job to wait for until then. That gives `MinutesAreMadeFromSomething` for any number of
sessions: minutes that name no missing transcription are made from a transcript, or AWS rejected an
audio. `OneSessionIsCovered` assumes `NumSessions = 1`, where "a transcript" is "every session";
with two, `MinutesCoverEverySession` is false, which is what `batch_left_out` shows.

**LiveTranscriptProofs**, on the gateway's side for any number of meetings, sockets and AWS sessions:
`OpenSessionsAreReachable` (a session that takes audio is the one in the map of its meeting),
`StartsExcludeEachOther` (the lock of a start belongs to exactly one start) and
`TimelineIsContiguous` (each final extends the transcript by its own length). The assumption is
`RealtimeAssumption` about the constants. `OpenSessionInMap` alone is not inductive: a loop that ends
removes the entry of its meeting when it names its own session, so the invariant also says that an
entry of the map is a session of that meeting whose loop runs (`MapInv`). Time is kept in two
places, the meeting's last end and the offset of the session in the map; `TimeInv` says that they
agree while the meeting has an offset, which is what lets a replaced session leave and its successor
go on. Most steps change neither map nor sessions nor offsets and go through one lemma.

On the page's side (`TranscriptView`, under `TranscriptAssumption`), for any number of finals, sockets,
requests and lost connections: `PageIsInStep`, `TranscriptTypes`, `ExpelledPageRecovers`
(`ExpelledRecovers`), `RecoveredIsShown` (`RecoveredStaysShown`) and `ShownOnce` (`NoSegmentTwice`).
`ResyncInv` says that generations are unique and that the answer of the last one has read, or will
read, all that was merged before; `SocketInv` that a renewal the flags announce is under way. The
merge is a sort and a filter: `InOrderLists` shows that counting the members before each puts a
finite set in order (an injection of a set into its own number is onto), and `MergeShows` that what
comes out is the rows once each and old segments of other finals. The two theorems about
what is shown assume that no two utterances are equivalent for the merge (`UtterancesApart`: the same
text within a second, which the code takes for one). `ShownOnce` also assumes that every row has
its `providerResultId`, as the rows of `saveFinalSegment` do, or that there are no more than three
finals. It cannot do without: with four, the first stored without the id, TLC shows the first
twice, when its live event arrives after a merge has brought its row and the three later ones,
since a final is compared with the last three segments only (`transcriptionStore.ts:209`).

**MeetingAudioProofs**, the recorder and the stream of one meeting.

- *The stream* (`AudioStreaming`), for any buffer limit and any number of starts, chunks, timeouts,
  drops and stale messages: `ChunksInOrder`, `AudioTypes`, `AcceptedIsHeard` and the refinement
  `StreamImplementsOrderedAudio` (`AudioSpec => Ordered!OrderedSpec`), under `AudioAssumption`. That
  the gateway hears chunks in order depends on the whole path: the invariant (`StreamInv`) says that
  what is pending, sent, heard and dropped are consecutive chunks of one numbering, that the connection
  of a socket keeps the order of what is on the wire, and that an acknowledgement, late or repeated,
  names a chunk the gateway has taken.
- *The recorder* (`MeetingRecorder`), for any number of recordings, chunks, microphone requests and
  reloads: `RecordersAreAlone`, `MicrophoneIsTheLastAsked` (`OneMicrophone`), `FilesStayWhole`
  (`FilesAreWhole`) and `OnlyUploadedIsCleared` (the action property `ClearedWhenUploaded`), under
  `RecorderAssumption`. The invariant (`RecorderInv`) follows a chunk: `ProducerInv` says that a
  recorder which may still deliver data is the last one made and alone under its session, whose next
  index is free; `FilesInv` that ids are unique, so a put replaces nothing; `StoredInv` that what was
  made is stored or being saved; `ChainInv` that an `onstop` which waits, waits for every save, so that
  what `stopRecording` returns is all there is (`CollectedInv`).

**NoteStoreProofs**, for any tabs, texts, sessions, keystrokes and faults: `RowsAreGenuine`,
`EditorTypes`, `NoOverwriteUnseen` (`NoSilentOverwrite`), `CleanIsStored` (`CleanMeansStored`) and
`NoSaveInConflict` (`ConflictBlocksSaving`), under `ParameterAssumption`, `NoSessionAssumption` and
`NoDraftAssumption` (the sentinels are no session and no draft). The argument has three layers. A session record satisfies
`SessionInv` by itself; `RowsInv` and `OpenInv` say that the rows it holds are rows the server has
had, and grow true with the server's history (`PublishKeeps`); `RequestInv` and `TabInv` say that the
answer on the wire belongs to the text of its request, and that only the open session of a tab is
shown. Each continuation of the browser is then a function from one good record to another, followed
by the effects of React, which have a lemma of their own.

`EditsSurvive` (`NoEditLost`) adds the drafts: no edit is lost, for any tabs, reloads, conflicts, lost
answers and restored drafts. Its invariant is `DraftsInv`. For the session itself, the text typed last
is the text shown until it is stored (`DraftInv`), and the draft in its file is its last backup and
holds that text (`FileInv`). Other sessions can only take that file away, when they have restored it
or the server has its text; `FilesKept` says of every world a handler returns that a file it removed
was stored or given up. The theorem assumes that the storage takes every draft (`StorageMayFail =
FALSE`) and cannot do without: when it refuses one, the draft is in memory, and the run
`editor_full_storage` shows how it is lost.

**MeetingLifecycleProofs**, for any processes, tasks and prompts: `TasksKeepTheirLocks`,
`MeetingTypes`, `LockIsReleased` (`RegenerationHoldsLock`) and `PromptsAgree` (`PromptOfMinutes`), under
`MeetingAssumption`. `LockInv` says that the regenerations at work on a process and its locks
correspond one to one; steps either move one task within its work or begin or end it, and one lemma
serves each kind. `PromptInv` follows the prompt through a regeneration: which prompt the row has at
each of its statements, and which original it would put back. `PromptsAgree` assumes one backend
process (`OneInstance`), as `docker-compose.yml` runs it, and cannot do without: with two, TLC finds
`PromptOfMinutes` violated without any fault. The phase in the row is read by one statement and
written by a later one, so the check that `result.service.ts:205` calls a guard against several
instances does not exclude a second process that reads between the two.

**UserDataProofs**, in four parts, each for any number of tabs, calls, saves, meetings and faults.

- *The session*, under `TokenAssumption`: `TokensInStep` and `SessionLostOnlyWithCause`
  (`SessionLostHasCause`). While no answer with a new pair was lost and no newer cookie overwritten,
  the cookie is at most one rotation behind the provider (`CookieInv`), a rotation under way is awaited
  by a request that will bring its pair (`RefreshInv`), and a request that carries a rotated pair finds
  the outcome of that rotation, in flight or kept (`RequestInv`); so the provider is never shown a
  refresh token it has revoked.
- *Prompts and settings*: `SettingsKeepUp` and `SettingsAreShown` (`ShownIsStored`). A step that writes
  taints every other tab, so behind the back of a tab that is not in `tainted` the rows are changed by
  its own calls only, which the store does not let overlap: what a call has read is still so when it
  writes. `PromptsInv` says that the prompts a tab shows become those stored when the answer of its
  edit arrives, `SettingsInv` the same of the settings, with the two requests that touch them and the
  migration that one of them may start. It needs no assumption.
- *Texts at rest*: `CellsHoldTheirTexts` and `SavedTextIsRead` (the action property `ReadsBack`). A cell
  holds the text saved last under its own row and field, or was damaged, or has the ciphertext of
  another cell (`CellsInv`); an entity between two saves holds, field by field, what is to be stored,
  encrypted already or not (`EntitiesInv`). A text that looks like an envelope is stored in clear, and
  is what the theorems say of it: kept in its cell, and an error or a blank when it is read. Both theorems assume that at most one field is damaged or
  moved (`MaxDamages` at most 1), and cannot do without: the additional data of a ciphertext names the
  row and the field and not the version, and with two moves TLC finds a ciphertext carried to another
  cell, the text saved again, and the ciphertext carried back, which reads as the older text.
- *The search*: `DocumentsKeepUp` and `SearchIsExact` (`SearchFindsWhatIsStored`), under
  `SearchAssumption` (the texts of a meeting have a place in the order of a result, and the title is
  one of them). `DocumentsInv` follows a document: it is gone, up to date, suspected, or a refresh of
  its meeting is still under way. `FindInv` follows a search that has found the coverage
  complete: each meeting that is not trashed has its document still, or it was deleted since. What a
  search reads is then, of every meeting that is not in doubt, what the tables make of it. The order and
  the page of the answer are left as the operator `Found`, the same on both ways of searching.

**MinutesProofs**, for notes and transcripts of any length: `SplitLosesNothing` (`SplitIsLossless`),
under `SourceTextAssumption`, and `MinutesRestOnTheWholeSource` (`MinutesCoverSource`), under
`GenerationAssumption`.

- *The cut* (`splitSourceText`) is a loop over the places of a text, in the model a recursive function
  from the end of the text downwards. The library's theorems about recursion and induction take
  operators, so the module proves its own about sets from the well-foundedness of the natural numbers
  (`LeastNatural`, `InductionOverSet`, `DownwardInduction`). `RecursionUpwards` gives a function that
  satisfies the equation of the recursion, `SplitsText` by the same induction that its pieces lead from
  a place to the end of the text, each within the budget. The one arithmetic fact is `ChunkEnds`: a
  piece is never empty, because a budget of two leaves a character even when the forced cut moves back
  before a surrogate pair, which is why the code refuses smaller budgets.
- *The minutes*: `Adds(field, cs, a, b)` says that the records `cs` hold of the text `b` what comes
  after `a`. It composes, so the invariant (`GenInv`) can say of each call under way that its parts and
  then its pieces still to do hold its chunk, and of what is merged that it holds the chunks before
  those. Halving a piece (`HalvesHold`), a throttled or poor answer and a failed attempt each keep that;
  the merge of a batch adds its chunks in their order whichever answered first (`MergesBatch`), and so
  does the older prompt one chunk after the other; a piece without text is always a half.

Only model-checked: liveness, since the prover treats neither fairness nor ENABLED; and what
`TranscriptText`, `MinutesContent` and `DocumentOutput` compute of words, lines and marks, which is a
recursion over text with state carried along at each place. The types of the parts of `realtime` are
checked together as `TypesOK`; one by one those of the modules with proofs are theorems.

## 5. Not modelled

- *Wording and layout*: prompts, log lines, response formats, the HTML and the styles of documents.
- *Signal arithmetic* (resampling, levels) and the *ciphers and signatures* of libraries.
- *AWS clients* (S3, Translate, Secrets Manager, Bedrock): one request each; where its failure
  matters it is a step of the module that calls it. *Configuration, start-up and migrations*: read
  or run once; the key ring of the configuration is in `FieldEncryption`.
- *React components*: rendering of the stores; downloads of a result are a read and a file.
- *The endpoint that queues a job for a given media URI*, the recovery of stalled *realtime*
  meetings, the age-based garbage collection of audio chunks, the counts of the dashboard.
- *Two meetings in one gateway*: the capacity check and the registration are separated by awaits, so
  concurrent starts exceed the limit by their number. No document promises otherwise.
- *A socket that disconnects while `handleConnection` awaits* is registered afterwards; the model
  reaches that state. Its session ends when AWS closes the stream, which is not the code's promise.

## 6. Where to go on

1. What the list, the result view and the PDF renderer keep, whose properties are about progress, as
   invariants that can be proved.
2. Two meetings in `RealtimeGateway`, and the recovery of stalled realtime meetings, which joins it
   to `BatchPipeline`.
3. The generation of `MeetingLifecycle` composed with the attempts of `MinutesGeneration`.
4. An abstract specification of atomic row updates for `MeetingLifecycle`, with the operations that
   do implement it.
