---------------------------- MODULE BatchPipeline ----------------------------
(* The batch transcription pipeline of one meeting, from "end meeting" to the *)
(* generated minutes: the browser's end-of-meeting flow, the upload rows, the *)
(* transcription jobs, the collector that polls AWS and merges the segments,  *)
(* the gate that opens result generation, the generation handler, and the two *)
(* periodic repair services, on one backend that can crash and restart.       *)
(*                                                                            *)
(* Every row access of the code that another task can interleave with is a    *)
(* step of its own. A meeting-row update (find, change, save) is one step:    *)
(* that two of them overlap, and a stale save reopens a completed meeting, is *)
(* in MeetingLifecycle and not here, where nothing is claimed about it. Only  *)
(* the parts of the meeting row that the pipeline reads back are kept:        *)
(* processingPhase is written by almost every step and read by none of them.  *)
EXTENDS Naturals, FiniteSets

CONSTANTS
    NumSessions,    \* recorded sessions with audio, uploaded in order 1..NumSessions
    MaxUploads,     \* bound: upload rows issued for the meeting
    MaxRetries,     \* attempts: MAX_RETRIES of an upload, CONFIRM_UPLOAD_MAX_ATTEMPTS of a confirm
    MaxFaults,      \* bound: failing calls to S3, AWS, the backend or the database
    MaxCrashes,     \* bound: backend crashes
    MaxFailures     \* bound: faults and crashes together

ASSUME BoundsAssumption ==
    /\ {NumSessions, MaxUploads, MaxRetries} \subseteq Nat \ {0}
    /\ {MaxFaults, MaxCrashes, MaxFailures} \subseteq Nat

Sessions == 1..NumSessions
Uploads == 1..MaxUploads

Confirm   == <<"confirm", 0>>     \* the HTTP handler of the client's confirm call
Reconcile == <<"reconcile", 0>>   \* PendingUploadReconciliationService
Recovery  == <<"recovery", 0>>    \* StalledMeetingRecoveryService
BootJobs  == <<"bootJobs", 0>>    \* TranscriptionService.onModuleInit
BootGate  == <<"bootGate", 0>>    \* TranscriptionResultCollectorService.onModuleInit
Poller(u) == <<"poll", u>>        \* the activePolls entry of u's job
Pollers   == {Poller(u) : u \in Uploads}
Tasks     == {Confirm, Reconcile, Recovery, BootJobs, BootGate} \cup Pollers

VARIABLES
    meeting,    \* the meeting row: [status, needsAttention]
    upload,     \* the upload rows, NoUpload where none was issued
    job,        \* the job row for the audio of an upload, NoJob where none exists
    audio,      \* uploads whose S3 object is present
    aws,        \* the AWS job reading the audio of an upload, "none" before it is started
    segments,   \* uploads whose transcript segments are in the database
    result,     \* the minutes: [read |-> uploads whose segments they are made from]
    task,       \* the running backend tasks
    generation, \* the in-flight generation of generationInFlight
    handlers,   \* the running handlers of 'generating' events
    client,     \* the browser's end-of-meeting flow
    old,        \* uploads past their URL's expiry and the gate's upload window
    faults, crashes,
    awsJobs,    \* auxiliary: every AWS job ever started, <<upload, providerJobId>>
    stored,     \* auxiliary: every <<upload, session>> whose object reached S3
    raised      \* auxiliary: the pipeline or the user has asked for attention

rows == <<meeting, raised, upload, job, segments, result>>
external == <<audio, aws, awsJobs, stored>>
others == <<generation, handlers, client, old, crashes>>   \* untouched by a task's steps
vars == <<rows, external, task, generation, handlers, client, old, faults, crashes>>

NoUpload == [status |-> "none", session |-> 0, job |-> FALSE]
NoJob == [status |-> "none", error |-> "none", collected |-> FALSE, providerJobId |-> 0]
NoResult == [exists |-> FALSE, read |-> {}]
NoGeneration == [pc |-> "idle", read |-> {}]

\* pc: where the task is; u: its upload; lock: the advisory lock it holds; link: inside
\* the try block of processBatchUpload; mark: markMissingObjectAsFailed; status: what
\* the AWS submission answered; todo: the jobs a loop over rows has still to visit.
Idle == [pc |-> "idle", u |-> 0, lock |-> "none", link |-> FALSE, mark |-> FALSE,
         status |-> "none", todo |-> {}]

Issued == {u \in Uploads : upload[u].status # "none"}
Jobs == {u \in Uploads : job[u].status # "none"}

TypeOK ==
    /\ meeting \in [status : {"RECORDING", "PROCESSING", "COMPLETED"}, needsAttention : BOOLEAN]
    /\ upload \in [Uploads -> [status : {"none", "ISSUED", "UPLOADED", "JOB_QUEUED", "FAILED"},
                               session : {0} \cup Sessions, job : BOOLEAN]]
    /\ job \in [Uploads -> [status : {"none", "QUEUED", "PROCESSING", "COMPLETED", "FAILED"},
                            error : {"none", "pending", "collection", "provider"},
                            collected : BOOLEAN, providerJobId : Nat]]
    /\ segments \subseteq Jobs /\ audio \subseteq Issued
    /\ aws \in [Uploads -> {"none", "running", "completed", "failed"}]
    /\ result \in [exists : BOOLEAN, read : SUBSET Uploads]
    /\ generation \in [pc : {"idle", "llm", "complete"}, read : SUBSET Uploads]
    /\ handlers \subseteq [pc : {"new", "wait"}, needsAttention : BOOLEAN]
    /\ \A t \in Tasks :
        /\ task[t].u \in {0} \cup Uploads
        /\ task[t].lock \in {"none", "upload", "job"}
        /\ task[t].todo \subseteq Jobs
    /\ old \subseteq Issued
    /\ faults \in 0..MaxFaults /\ crashes \in 0..MaxCrashes

Init ==
    /\ meeting = [status |-> "RECORDING", needsAttention |-> FALSE]
    /\ upload = [u \in Uploads |-> NoUpload]
    /\ job = [u \in Uploads |-> NoJob]
    /\ audio = {} /\ segments = {} /\ old = {} /\ handlers = {}
    /\ aws = [u \in Uploads |-> "none"]
    /\ result = NoResult
    /\ task = [t \in Tasks |-> Idle]
    /\ generation = NoGeneration
    /\ client = [pc |-> "recording", session |-> 1, attempt |-> 1, u |-> 0, skipped |-> FALSE]
    /\ faults = 0 /\ crashes = 0
    /\ awsJobs = {} /\ stored = {} /\ raised = FALSE

Fault ==
    /\ faults < MaxFaults /\ faults + crashes < MaxFailures
    /\ faults' = faults + 1

(***************************************************************************)
(* The meeting row                                                         *)
(***************************************************************************)

\* markNeedsAttention, of a meeting in any status.
MarkNeedsAttention == meeting' = [meeting EXCEPT !.needsAttention = TRUE] /\ raised' = TRUE

Emit(needsAttention) ==
    handlers' = handlers \cup {[pc |-> "new", needsAttention |-> needsAttention]}

\* isBatchTranscriptionSettled and the gate share unsettledTranscriptionJobWhere.
Unsettled(u) ==
    \/ job[u].status \in {"QUEUED", "PROCESSING"}
    \/ job[u].status = "COMPLETED" /\ ~job[u].collected
    \/ job[u].status = "FAILED" /\ job[u].error = "collection"

BatchSettled ==
    /\ Jobs # {}
    /\ \A u \in Jobs : ~Unsettled(u)
    /\ \A u \in Uploads : upload[u].status \notin {"ISSUED", "UPLOADED"}

\* complete(): a 'generating' event when nothing is awaited.  The read, the settled check and the save of
\* the row are one step here; the code awaits between them.
Complete(skipTranscription, markAttentionRequired) ==
    IF meeting.status = "COMPLETED" THEN UNCHANGED <<meeting, raised, handlers>>
    ELSE LET attention == skipTranscription /\ (meeting.needsAttention \/ markAttentionRequired)
         IN  /\ meeting' = [status |-> "PROCESSING", needsAttention |-> attention]
             /\ raised' = (raised \/ attention)
             /\ IF skipTranscription \/ BatchSettled
                THEN Emit(attention) ELSE UNCHANGED handlers

(***************************************************************************)
(* The browser: end the meeting, then upload session after session         *)
(***************************************************************************)

\* An hour without progress, or a URL's expiry, needs a browser that is not in the
\* middle of a call: each of its calls times out within minutes.
ClientIdle == client.pc \in {"failed", "done", "gone"}

ClientNext ==
    IF client.session = NumSessions THEN [client EXCEPT !.pc = "done", !.u = 0]
    ELSE [client EXCEPT !.pc = "issue", !.session = @ + 1, !.attempt = 1]

ClientAttemptFailed ==
    IF client.attempt = MaxRetries THEN [client EXCEPT !.pc = "failed", !.u = 0]
    ELSE [client EXCEPT !.pc = "issue", !.attempt = @ + 1]

\* proceedWithEndMeeting: complete() first, then the uploads.
ClientEndMeeting ==
    /\ client.pc = "recording"
    /\ Complete(FALSE, FALSE)
    /\ \/ client' = [client EXCEPT !.pc = "issue"] /\ UNCHANGED faults
       \/ Fault /\ UNCHANGED client      \* the answer is lost, the user tries again
    /\ UNCHANGED <<upload, job, segments, result, external, task, generation, old, crashes>>

\* getUploadUrl: ensureBatchMeeting rejects a completed meeting, each attempt gets a row.
ClientIssue ==
    /\ client.pc = "issue"
    /\ IF meeting.status = "COMPLETED"
       THEN client' = [client EXCEPT !.pc = "failed"] /\ UNCHANGED <<upload, faults>>
       ELSE LET u == Cardinality(Issued) + 1
            IN  IF u \in Uploads
                THEN /\ upload' = [upload EXCEPT ![u] = [status |-> "ISSUED",
                                        session |-> client.session, job |-> FALSE]]
                     /\ \/ client' = [client EXCEPT !.pc = "put", !.u = u] /\ UNCHANGED faults
                        \/ Fault /\ client' = ClientAttemptFailed      \* the answer is lost
                ELSE client' = [client EXCEPT !.pc = "failed"] /\ UNCHANGED <<upload, faults>>
    /\ UNCHANGED <<meeting, raised, job, segments, result, external, task,
                   generation, handlers, old, crashes>>

\* The request fails before a row is there.
ClientIssueFails ==
    /\ client.pc = "issue"
    /\ Fault
    /\ client' = ClientAttemptFailed
    /\ UNCHANGED <<rows, external, task, generation, handlers, old, crashes>>

ClientPut ==
    /\ client.pc = "put"
    /\ \/ /\ audio' = audio \cup {client.u}
          /\ client' = [client EXCEPT !.pc = "confirm", !.attempt = 1]
          /\ UNCHANGED faults
       \/ /\ Fault                        \* refused, or stored and the answer lost
          /\ audio' \in {audio, audio \cup {client.u}}
          /\ client' = ClientAttemptFailed
    /\ stored' = stored \cup {<<u, upload[u].session>> : u \in audio' \ audio}
    /\ UNCHANGED <<rows, aws, awsJobs, task, generation, handlers, old, crashes>>

\* confirmUpload runs in the backend while the client waits. After an error the client
\* tries again a few times and then goes on: the reconciliation will queue the job.
ClientConfirm ==
    /\ client.pc = "confirm" /\ task[Confirm].pc = "idle"
    /\ IF meeting.status = "COMPLETED"
       THEN client' = ClientNext /\ UNCHANGED task
       ELSE /\ client' = [client EXCEPT !.pc = "confirming"]
            /\ task' = [task EXCEPT ![Confirm] = [Idle EXCEPT !.pc = "load", !.u = client.u]]
    /\ UNCHANGED <<rows, external, generation, handlers, old, faults, crashes>>

ClientConfirmed ==
    /\ client.pc = "confirming"
    /\ IF task[Confirm].pc = "idle" THEN UNCHANGED faults ELSE Fault   \* or the answer is lost
    /\ client' = IF upload[client.u].job \/ client.attempt = MaxRetries THEN ClientNext
                 ELSE [client EXCEPT !.pc = "confirm", !.attempt = @ + 1]
    /\ UNCHANGED <<rows, external, task, generation, handlers, old, crashes>>

\* The panel after a failed upload: try again, or continue without audio.
ClientRetry ==
    /\ client.pc = "failed"
    /\ Cardinality(Issued) < MaxUploads
    /\ client' = [client EXCEPT !.pc = "issue", !.attempt = 1]
    /\ UNCHANGED <<rows, external, task, generation, handlers, old, faults, crashes>>

ClientContinueWithoutAudio ==
    /\ client.pc = "failed"
    /\ Complete(TRUE, TRUE)
    /\ client' = [client EXCEPT !.pc = "done", !.skipped = TRUE]
    /\ UNCHANGED <<upload, job, segments, result, external, task, generation, old, faults, crashes>>

\* The tab is closed or the device dies.
ClientVanish ==
    /\ client.pc \notin {"done", "gone"}
    /\ Fault
    /\ client' = [client EXCEPT !.pc = "gone", !.u = 0]
    /\ UNCHANGED <<rows, external, task, generation, handlers, old, crashes>>

ClientStep == ClientIssue \/ ClientPut \/ ClientConfirm \/ ClientConfirmed

(***************************************************************************)
(* Upload rows become jobs: processBatchUpload under the upload's lock     *)
(***************************************************************************)

LockFree(u, kind) == \A t \in Tasks : ~(task[t].u = u /\ task[t].lock = kind)

\* A task returns: its locks are released and a loop goes on with its next row.
Finished(todo) == [Idle EXCEPT !.pc = IF todo = {} THEN "idle" ELSE "next", !.todo = todo]

Goto(t, pc) == [task EXCEPT ![t].pc = pc]
Finish(t) == [task EXCEPT ![t] = Finished(task[t].todo)]

\* pollAndCollect in the background, unless activePolls has the job already; a job found
\* collected only tries the gate again.
PollTask(u, collected) == [Idle EXCEPT !.u = u, !.pc = IF collected THEN "gate" ELSE "poll"]

StartPolling(tasks, u, collected) ==
    IF tasks[Poller(u)].pc # "idle" THEN tasks
    ELSE [tasks EXCEPT ![Poller(u)] = PollTask(u, collected)]

\* resumeExistingBatchJob
ResumePolling(tasks, u) == IF Unsettled(u) THEN StartPolling(tasks, u, job[u].collected) ELSE tasks

\* No object: only a recovery of an expired URL gives the upload up, and a stalled
\* meeting whose last upload is missing goes on with its notes (recoverMissingBatchJob).
MissingObject(t) ==
    /\ upload' = IF task[t].mark THEN [upload EXCEPT ![task[t].u].status = "FAILED"] ELSE upload
    /\ task' = IF t = Recovery THEN [task EXCEPT ![t] = [Idle EXCEPT !.pc = "missing"]]
               ELSE Finish(t)

ProcessBatchUpload(t) ==
    LET u == task[t].u IN
    /\ task[t].pc = "load" /\ LockFree(u, "upload")
    /\ IF upload[u].job
       THEN /\ task' = IF job[u].error = "pending"
                       THEN [task EXCEPT ![t].pc = "submit", ![t].lock = "upload",
                                         ![t].mark = FALSE]
                       ELSE ResumePolling(Finish(t), u)
            /\ UNCHANGED upload
       ELSE IF u \notin audio THEN MissingObject(t)
       ELSE /\ upload' = [upload EXCEPT ![u].status = "UPLOADED"]
            /\ task' = [task EXCEPT ![t].pc = "queue", ![t].lock = "upload", ![t].link = TRUE,
                                    ![t].mark = FALSE]
    /\ UNCHANGED <<meeting, raised, job, segments, result, external, faults, others>>

\* queueBatchJobForMeeting: the job row is unique per audio file.
QueueBatchJob(t) ==
    LET u == task[t].u IN
    /\ task[t].pc = "queue"
    /\ IF job[u] = NoJob
       THEN /\ job' = [job EXCEPT ![u] = [status |-> "QUEUED", error |-> "pending",
                                          collected |-> FALSE, providerJobId |-> 1]]
            /\ task' = Goto(t, "submit")
       ELSE /\ task' = IF job[u].error = "pending" THEN Goto(t, "submit")
                       ELSE ResumePolling(Goto(t, "link"), u)
            /\ UNCHANGED job
    /\ UNCHANGED <<meeting, raised, upload, segments, result, external, faults, others>>

\* What the provider answers about an AWS job (mapAwsStatus). No code tells the two
\* unfinished states QUEUED and IN_PROGRESS of AWS apart: one stands for both.
ProviderStatus(s) ==
    CASE s \in {"none", "running"} -> "PROCESSING" [] s = "completed" -> "COMPLETED"
      [] s = "failed" -> "FAILED"

\* Mutant: every submission gets a name of its own.
SubmitUnderNewName(t) ==
    LET u == task[t].u IN
    /\ task[t].pc = "submit"
    /\ awsJobs' = awsJobs \cup {<<u, Cardinality(awsJobs) + 1>>}
    /\ aws' = [aws EXCEPT ![u] = IF @ = "none" THEN "running" ELSE @]
    /\ task' = [task EXCEPT ![t].pc = "saveJob", ![t].status = ProviderStatus(aws[u])]
    /\ UNCHANGED <<rows, audio, stored, faults, others>>

\* submitBatchJob: a second submission under the same providerJobId conflicts and is
\* answered with the status of the job that exists.
SubmitBatchJob(t) ==
    LET u == task[t].u  id == <<u, job[u].providerJobId>> IN
    /\ task[t].pc = "submit"
    /\ IF id \in awsJobs THEN UNCHANGED <<aws, awsJobs>>
       ELSE /\ awsJobs' = awsJobs \cup {id}
            /\ aws' = [aws EXCEPT ![u] = IF @ = "none" THEN "running" ELSE @]
    /\ task' = [task EXCEPT ![t].pc = "saveJob", ![t].status = ProviderStatus(aws[u])]
    /\ UNCHANGED <<rows, audio, stored, faults, others>>

\* AWS refuses, or the answer or the following save is lost. The job row stays pending.
\* In the recovery loop the error aborts the scan.
SubmitFails(t) ==
    LET u == task[t].u IN
    /\ task[t].pc \in {"submit", "saveJob"}
    /\ Fault
    /\ upload' = IF task[t].link THEN [upload EXCEPT ![u].status = "FAILED"] ELSE upload
    /\ task' = IF t # Recovery THEN Finish(t)
               ELSE [task EXCEPT ![t] = [Idle EXCEPT
                        !.pc = IF task[t].lock = "upload" THEN "missing" ELSE "idle"]]
    /\ UNCHANGED <<meeting, raised, job, segments, result, external, others>>

\* The entity loaded before the submission is saved over whatever the row is now.
SaveSubmittedJob(t) ==
    LET u == task[t].u IN
    /\ task[t].pc = "saveJob"
    /\ job' = [job EXCEPT ![u].status = task[t].status, ![u].error = "none", ![u].collected = FALSE]
    /\ LET rest == IF task[t].link THEN [task EXCEPT ![t].pc = "link", ![t].status = "none"]
                  ELSE Finish(t)
       IN  task' = StartPolling(rest, u, FALSE)
    /\ UNCHANGED <<meeting, raised, upload, segments, result, external, faults, others>>

LinkUpload(t) ==
    /\ task[t].pc = "link"
    /\ upload' = [upload EXCEPT ![task[t].u].status = "JOB_QUEUED", ![task[t].u].job = TRUE]
    /\ task' = Finish(t)
    /\ UNCHANGED <<meeting, raised, job, segments, result, external, faults, others>>

UploadTask(t) ==
    \/ ProcessBatchUpload(t) \/ QueueBatchJob(t) \/ SubmitBatchJob(t)
    \/ SaveSubmittedJob(t) \/ LinkUpload(t)

(***************************************************************************)
(* The collector: poll, collect under the job's lock, then the gate        *)
(***************************************************************************)

\* getJobStatus and the row update that follows it. The recovery's recheck does the
\* same; a job still running there gets its poll loop back.
PollJob(t) ==
    LET u == task[t].u  answer == ProviderStatus(aws[u]) IN
    /\ task[t].pc \in {"poll", "recheck"}
    /\ job' = [job EXCEPT ![u].status = answer,
                          ![u].error = IF answer = "FAILED" THEN "provider" ELSE @]
    /\ task' = CASE answer = "COMPLETED" -> Goto(t, "collect")
                 [] answer = "FAILED" -> Goto(t, "attention")
                 [] answer = "PROCESSING" /\ task[t].pc = "poll" -> task
                 [] OTHER -> StartPolling(Finish(t), u, job[u].collected)
    /\ UNCHANGED <<meeting, raised, upload, segments, result, external, faults, others>>

\* MAX_POLL_DURATION_MS of polls without an end: the loop stops.
PollWindowExhausted(t) ==
    /\ task[t].pc = "poll"
    /\ Fault
    /\ task' = Finish(t)
    /\ UNCHANGED <<rows, external, others>>

\* The recovery's recheck has no end either. Within MAX_JOB_LIFETIME_MS the poll loop is
\* started again; after it the job is given up, unless its row is collected or COMPLETED.
RecheckWithoutEnd(t) ==
    LET u == task[t].u IN
    /\ task[t].pc = "recheck"
    /\ Fault
    /\ \/ /\ task' = StartPolling(Finish(t), u, job[u].collected)
          /\ UNCHANGED job
       \/ /\ job[u].collected \/ job[u].status = "COMPLETED"
          /\ task' = Goto(t, "gate")
          /\ UNCHANGED job
       \/ /\ ~job[u].collected /\ job[u].status # "COMPLETED"
          /\ job' = [job EXCEPT ![u].status = "FAILED", ![u].error = "provider"]
          /\ task' = Goto(t, "attention")
    /\ UNCHANGED <<meeting, raised, upload, segments, result, external, others>>

\* mergeBatchSegments is one transaction, the row's save another.
CollectSegments(t) ==
    LET u == task[t].u IN
    /\ task[t].pc = "collect" /\ LockFree(u, "job")
    /\ IF job[u].collected
       THEN /\ task' = [task EXCEPT ![t].pc = "gate", ![t].lock = "job"]
            /\ UNCHANGED segments
       ELSE /\ segments' = segments \cup {u}
            /\ task' = [task EXCEPT ![t].pc = "saveCollected", ![t].lock = "job"]
    /\ UNCHANGED <<meeting, raised, upload, job, result, external, faults, others>>

\* The transcript cannot be fetched, parsed or stored.
CollectionFails(t) ==
    LET u == task[t].u IN
    /\ task[t].pc = "collect" /\ LockFree(u, "job") /\ ~job[u].collected
    /\ Fault
    /\ job' = [job EXCEPT ![u].status = "FAILED", ![u].error = "collection"]
    /\ task' = Finish(t)
    /\ UNCHANGED <<meeting, raised, upload, segments, result, external, others>>

SaveCollectedJob(t) ==
    LET u == task[t].u IN
    /\ task[t].pc = "saveCollected"
    /\ job' = [job EXCEPT ![u].status = "COMPLETED", ![u].error = "none", ![u].collected = TRUE]
    /\ task' = Goto(t, "deleteAudio")
    /\ UNCHANGED <<meeting, raised, upload, segments, result, external, faults, others>>

DeleteAudioFile(t) ==
    /\ task[t].pc = "deleteAudio"
    /\ audio' = audio \ {task[t].u}
    /\ task' = Goto(t, "gate")
    /\ UNCHANGED <<rows, aws, awsJobs, stored, faults, others>>

\* Mutant: the audio of a failed transcription is cleaned up.
FinalizeDeletingAudio(t) ==
    /\ task[t].pc = "attention"
    /\ MarkNeedsAttention
    /\ audio' = audio \ {task[t].u}
    /\ task' = Goto(t, "gate")
    /\ UNCHANGED <<upload, job, segments, result, aws, awsJobs, stored, faults, others>>

\* finalizeAfterFailedTranscription keeps the audio.
FinalizeAfterFailedTranscription(t) ==
    /\ task[t].pc = "attention"
    /\ MarkNeedsAttention
    /\ task' = Goto(t, "gate")
    /\ UNCHANGED <<upload, job, segments, result, external, faults, others>>

\* Mutant: the gate does not count the unsettled jobs.
GateIgnoringJobs(t) ==
    /\ task[t].pc = "gate"
    /\ task' = IF meeting.status = "PROCESSING" THEN Goto(t, "gateUploads") ELSE Finish(t)
    /\ UNCHANGED <<rows, external, faults, others>>

\* emitGeneratingPhaseIfAllJobsSettled: the status and the jobs first ...
GateReadsJobs(t) ==
    /\ task[t].pc = "gate"
    /\ task' = IF meeting.status = "PROCESSING" /\ \A u \in Jobs : ~Unsettled(u)
               THEN Goto(t, "gateUploads") ELSE Finish(t)
    /\ UNCHANGED <<rows, external, faults, others>>

PendingUploads == {u \in Uploads \ old : upload[u].status \in {"ISSUED", "UPLOADED"}}

\* ... then the uploads ...
GateReadsUploads(t) ==
    /\ task[t].pc = "gateUploads"
    /\ task' = IF PendingUploads = {} THEN Goto(t, "emit") ELSE Finish(t)
    /\ UNCHANGED <<rows, external, faults, others>>

\* ... and emitGeneratingPhase.
EmitGeneratingPhase(t) ==
    /\ task[t].pc = "emit"
    /\ IF meeting.status = "PROCESSING" THEN Emit(meeting.needsAttention) ELSE UNCHANGED handlers
    /\ task' = Finish(t)
    /\ UNCHANGED <<rows, external, generation, client, old, faults, crashes>>

\* recoverMissingBatchJob
RecoverMissingBatchJob(t) ==
    /\ task[t].pc = "missing"
    /\ MarkNeedsAttention
    /\ task' = Goto(t, "emit")
    /\ UNCHANGED <<upload, job, segments, result, external, faults, others>>

CollectorTask(t) ==
    \/ PollJob(t) \/ CollectSegments(t) \/ SaveCollectedJob(t)
    \/ DeleteAudioFile(t) \/ FinalizeAfterFailedTranscription(t) \/ GateReadsJobs(t)
    \/ GateReadsUploads(t) \/ EmitGeneratingPhase(t) \/ RecoverMissingBatchJob(t)

(***************************************************************************)
(* handleGeneratingPhase and generateForPipeline                           *)
(***************************************************************************)

\* updateMeetingStatus
FinishMeeting(h) ==
    /\ meeting' = [status |-> "COMPLETED",
                   needsAttention |-> meeting.needsAttention \/ h.needsAttention]
    /\ handlers' = handlers \ {h}

\* An existing result is kept; otherwise the handler starts, or joins, the one generation.
HandleGeneratingPhase(h) ==
    /\ h.pc = "new"
    /\ IF result.exists THEN FinishMeeting(h) /\ UNCHANGED generation
       ELSE /\ handlers' = (handlers \ {h}) \cup {[h EXCEPT !.pc = "wait"]}
            /\ generation' = IF generation.pc # "idle" THEN generation
                             ELSE [pc |-> "llm", read |-> segments]
            /\ UNCHANGED meeting
    /\ UNCHANGED <<raised, upload, job, segments, result, external,
                   task, client, old, faults, crashes>>

\* The language model has answered; the result row is unique per meeting.
InsertResult ==
    /\ generation.pc = "llm"
    /\ IF result.exists THEN UNCHANGED result
       ELSE result' = [exists |-> TRUE, read |-> generation.read]
    /\ generation' = IF result.exists THEN NoGeneration ELSE [generation EXCEPT !.pc = "complete"]
    /\ UNCHANGED <<meeting, raised, upload, job, segments, external, task,
                   handlers, client, old, faults, crashes>>

\* updateProcessingPhase(null, COMPLETED, ...): the flag is the one of the new minutes.
CompleteGenerated ==
    /\ generation.pc = "complete"
    /\ \E attention \in BOOLEAN : meeting' = [status |-> "COMPLETED", needsAttention |-> attention]
    /\ generation' = NoGeneration
    /\ UNCHANGED <<raised, upload, job, segments, result, external, task,
                   handlers, client, old, faults, crashes>>

FinishHandler(h) ==
    /\ h.pc = "wait" /\ generation.pc = "idle"
    /\ FinishMeeting(h)
    /\ UNCHANGED <<raised, upload, job, segments, result, external, task,
                   generation, client, old, faults, crashes>>

\* A database error: every handler of this generation flags the meeting.
GenerationFails ==
    /\ generation.pc # "idle"
    /\ Fault
    /\ generation' = NoGeneration
    /\ handlers' = {IF h.pc = "wait" THEN [h EXCEPT !.needsAttention = TRUE] ELSE h :
                       h \in handlers}
    /\ raised' = TRUE
    /\ UNCHANGED <<meeting, upload, job, segments, result, external, task, client, old, crashes>>

(***************************************************************************)
(* The periodic repair services and the restart                            *)
(***************************************************************************)

\* reconcileUpload: an expired URL without an object is given up.
ReconcileUpload(u) ==
    /\ task[Reconcile].pc = "idle" /\ meeting.status = "PROCESSING"
    /\ upload[u].status \in {"ISSUED", "UPLOADED"}
    /\ task' = [task EXCEPT ![Reconcile] = [Idle EXCEPT !.pc = "load", !.u = u,
                                 !.mark = upload[u].status = "ISSUED" /\ u \in old]]
    /\ UNCHANGED <<rows, external, faults, others>>

\* Mutant: only the jobs that look unfinished are recovered.
ShouldRecoverUnfinished(u) ==
    /\ job[u].status \in {"QUEUED", "PROCESSING"}
    /\ \A t \in Tasks : task[t].u = u => task[t].pc = "load"

\* shouldRecoverJob: a row untouched for an hour is one no task is about to write.
ShouldRecoverJob(u) ==
    /\ ~job[u].collected
    /\ \/ job[u].status \in {"COMPLETED", "FAILED"}
       \/ /\ job[u].status \in {"QUEUED", "PROCESSING"}
          /\ \A t \in Tasks : task[t].u = u => task[t].pc = "load"

\* recoverMeeting, an hour after the end. The last upload is looked at when there is
\* no job at all, otherwise every stale job, otherwise the gate is tried again.
RecoverMeeting ==
    LET stale == {u \in Jobs : ShouldRecoverJob(u)}
        begin(first) == task' = [task EXCEPT ![Recovery] = first] /\ UNCHANGED meeting
    IN
    /\ task[Recovery].pc = "idle" /\ meeting.status = "PROCESSING" /\ ClientIdle
    /\ \/ /\ result.exists
          /\ meeting' = [meeting EXCEPT !.status = "COMPLETED"]
          /\ UNCHANGED task
       \/ /\ ~result.exists /\ Jobs = {} /\ Issued = {}
          /\ begin([Idle EXCEPT !.pc = "missing"])
       \/ /\ ~result.exists /\ Jobs = {}
          /\ \E last \in Issued :
                /\ \A u \in Issued : u <= last
                /\ begin([Idle EXCEPT !.pc = "load", !.u = last, !.mark = TRUE])
       \/ /\ ~result.exists /\ Jobs # {} /\ stale = {}
          /\ begin([Idle EXCEPT !.pc = "gate"])
       \/ /\ ~result.exists /\ stale # {}
          /\ begin([Idle EXCEPT !.pc = "next", !.todo = stale])
    /\ UNCHANGED <<raised, upload, job, segments, result, external, faults, others>>

\* recoverAbandonedRecordingMeetings, a day after the start.
RecoverAbandonedRecording ==
    /\ task[Recovery].pc = "idle" /\ meeting.status = "RECORDING" /\ client.pc = "gone"
    /\ Complete(TRUE, TRUE)
    /\ UNCHANGED <<upload, job, segments, result, external, task,
                   generation, client, old, faults, crashes>>

\* The next job of the recovery's loop, or of onModuleInit's over pending submissions.
VisitJob(t) ==
    /\ task[t].pc = "next"
    /\ \E u \in task[t].todo :
        LET rest == task[t].todo \ {u}
            visit(pc) == [task EXCEPT ![t] = [Idle EXCEPT !.pc = pc, !.u = u, !.todo = rest]]
        IN  /\ \A v \in task[t].todo : u <= v
            /\ task' = IF job[u].error = "pending" THEN visit("submit")
                       ELSE IF t = Recovery THEN visit("recheck")
                       ELSE ResumePolling([task EXCEPT ![t] = Finished(rest)], u)
    /\ UNCHANGED <<rows, external, faults, others>>

\* The backend dies and boots: tasks, locks, handlers and the generation are lost;
\* pollers, pending submissions and the gate are picked up from the job rows.
CrashAndRestart ==
    /\ crashes < MaxCrashes /\ faults + crashes < MaxFailures
    /\ crashes' = crashes + 1
    /\ handlers' = {} /\ generation' = NoGeneration
    /\ LET pending == {u \in Jobs : job[u].error = "pending"}
           running == {u \in Jobs \ pending : /\ job[u].status \in {"QUEUED", "PROCESSING"}
                                               /\ ~job[u].collected}
       IN  task' = [t \in Tasks |->
                CASE t = BootJobs /\ pending # {} -> [Idle EXCEPT !.pc = "next", !.todo = pending]
                  [] t = BootGate /\ (\E u \in Jobs : job[u].collected) -> [Idle EXCEPT !.pc = "gate"]
                  [] t \in {Poller(u) : u \in running} -> PollTask(t[2], FALSE)
                  [] OTHER -> Idle]
    /\ UNCHANGED <<rows, external, client, old, faults>>

\* Time: an upload's URL expires, and it leaves the gate's window, once the browser has left it.
UploadAges(u) ==
    /\ u \in Issued \ old
    /\ ~(client.u = u /\ client.pc \in {"put", "confirm", "confirming"})
    /\ task[Confirm].u # u
    /\ old' = old \cup {u}
    /\ UNCHANGED <<rows, external, task, generation, handlers, client, faults, crashes>>

\* The environment: AWS works a job off.
AwsFinishes(u) ==
    /\ aws[u] = "running"
    /\ \E s \in {"completed", "failed"} : aws' = [aws EXCEPT ![u] = s]
    /\ UNCHANGED <<rows, audio, awsJobs, stored, task, faults, others>>

BackendStep(t) == UploadTask(t) \/ CollectorTask(t) \/ VisitJob(t)
BackendFault(t) ==
    SubmitFails(t) \/ CollectionFails(t) \/ PollWindowExhausted(t) \/ RecheckWithoutEnd(t)
HandlerStep == \E h \in handlers : HandleGeneratingPhase(h) \/ FinishHandler(h)
GenerationStep == InsertResult \/ CompleteGenerated
RecoveryScan == RecoverMeeting \/ RecoverAbandonedRecording

Next ==
    \/ ClientEndMeeting \/ ClientStep \/ ClientIssueFails \/ ClientRetry
    \/ ClientContinueWithoutAudio \/ ClientVanish
    \/ \E t \in Tasks : BackendStep(t) \/ BackendFault(t)
    \/ HandlerStep \/ GenerationStep \/ GenerationFails
    \/ \E u \in Uploads : ReconcileUpload(u) \/ UploadAges(u) \/ AwsFinishes(u)
    \/ RecoveryScan \/ CrashAndRestart

Spec == Init /\ [][Next]_vars

\* What the code and its environment keep doing: a running task goes on, the browser's
\* flow goes on until it is done or failed, timers fire, time passes, AWS finishes its
\* jobs. The user's clicks, faults and crashes are not obliged to happen.
Fairness ==
    /\ WF_vars(ClientStep) /\ WF_vars(RecoveryScan)
    /\ WF_vars(HandlerStep) /\ WF_vars(GenerationStep)
    /\ \A t \in Tasks : WF_vars(BackendStep(t))
    /\ \A u \in Uploads :
        WF_vars(ReconcileUpload(u)) /\ WF_vars(UploadAges(u)) /\ WF_vars(AwsFinishes(u))

FairSpec == Spec /\ Fairness

(***************************************************************************)
(* Properties                                                              *)
(***************************************************************************)

\* The recorded audio of an upload leaves S3 only when its transcript is in the
\* database: through failed collections, crashes and re-collections one of the two
\* always exists (collectCompletedJob, finalizeAfterFailedTranscription).
AudioOrTranscript ==
    \A u \in Uploads : (\E s \in Sessions : <<u, s>> \in stored) => u \in audio \cup segments

\* An audio file is transcribed by at most one AWS job, whatever is lost between the
\* submission and the save and whoever submits again (submitPersistedBatchJob).
OneAwsJobPerAudio == \A j, k \in awsJobs : j[1] = k[1] => j = k

\* emitGeneratingPhaseIfAllJobsSettled: minutes made without the user's consent to go
\* on without audio are made from every recorded session, or from fewer only when
\* AWS rejected the audio or the pipeline has asked for attention. A browser that has gone or has
\* given up took its audio with it.
MinutesCoverEverySession ==
    (result.exists /\ ~raised /\ ~client.skipped /\ client.pc \notin {"gone", "failed"}) =>
        \A s \in Sessions :
            \/ \E u \in result.read : upload[u].session = s
            \/ \E u \in Jobs : /\ upload[u].session = s
                               /\ aws[u] = "failed" \/ job[u].error = "provider"

\* A session's recording appears once in the transcript: a repeated upload of it does
\* not add its segments again (uploadSessions, reconcileUpload).
SessionTranscribedOnce ==
    \A u, v \in segments : upload[u].session = upload[v].session => u = v

\* A meeting that was ended, or whose browser died while recording, is completed, after
\* any bounded number of crashes and failing calls, without any help of the user.
EndedMeetingCompletes == (client.pc # "recording") ~> (meeting.status = "COMPLETED")
=============================================================================
