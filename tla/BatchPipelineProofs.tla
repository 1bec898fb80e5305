------------------------- MODULE BatchPipelineProofs -------------------------
(***************************************************************************)
(* Proofs about BatchPipeline for any number of sessions, upload rows,     *)
(* retries, failing calls and crashes.                                     *)
(*                                                                         *)
(* The inductive invariant says what a task knows at its program point:    *)
(* its upload was issued, its job row exists, its segments are merged.     *)
(* The rows only ever gain (Issued, Jobs and segments grow), so what one   *)
(* task knows no other task takes away.                                    *)
(* A second invariant, HeardInv, says what the minutes are made from.      *)
(***************************************************************************)
EXTENDS BatchPipeline, TLAPS

OnUpload == {"load", "queue"}
Merged == {"saveCollected", "deleteAudio"}
OnJob == {"submit", "saveJob", "link", "poll", "recheck", "collect"} \cup Merged
Anywhere == {"idle", "next", "gate", "gateUploads", "emit", "missing", "attention"}

TaskRecord == [pc : OnUpload \cup OnJob \cup Anywhere, u : {0} \cup Uploads,
               lock : {"none", "upload", "job"}, link : BOOLEAN, mark : BOOLEAN,
               status : {"none", "PROCESSING", "COMPLETED", "FAILED"},
               todo : SUBSET Uploads]

\* The records a task may hold while its rows are what they are.
GoodTask == {k \in TaskRecord :
                /\ k.todo \subseteq Jobs
                /\ k.pc \in OnUpload => k.u \in Issued
                /\ k.pc \in OnJob => k.u \in Jobs
                /\ k.pc \in Merged => k.u \in segments
                /\ k.pc = "saveJob" => k.status # "none"}

TasksInv == task \in [Tasks -> GoodTask]

ClientRecord == [pc : {"recording", "issue", "put", "confirm", "confirming",
                       "failed", "done", "gone"},
                 session : Sessions, attempt : Nat, u : {0} \cup Uploads,
                 skipped : BOOLEAN]

ClientInv ==
    /\ client \in ClientRecord
    /\ client.pc \in {"put", "confirm", "confirming"} => client.u \in Issued

\* A job row comes into being with the one name under which it is submitted, and an
\* upload only says it has a job when the row exists.
RowsInv ==
    /\ \A u \in Uploads : job[u].status = "none" => job[u] = NoJob
    /\ \A u \in Jobs : job[u].providerJobId = 1
    /\ \A u \in Uploads : upload[u].job => u \in Jobs

\* Everything that was submitted was submitted under the name in its row.
AwsInv == awsJobs \subseteq Uploads \X {1}

\* TypeOK in three parts: the rows and what stands outside, the tasks (TasksInv) ...
RowTypes ==
    /\ upload \in [Uploads -> [status : {"none", "ISSUED", "UPLOADED", "JOB_QUEUED", "FAILED"},
                               session : {0} \cup Sessions, job : BOOLEAN]]
    /\ job \in [Uploads -> [status : {"none", "QUEUED", "PROCESSING", "COMPLETED", "FAILED"},
                            error : {"none", "pending", "collection", "provider"},
                            collected : BOOLEAN, providerJobId : Nat]]
    /\ segments \subseteq Jobs /\ audio \subseteq Issued
    /\ aws \in [Uploads -> {"none", "running", "completed", "failed"}]

\* ... and the meeting, its minutes and the counters.
MeetingTypes ==
    /\ meeting \in [status : {"RECORDING", "PROCESSING", "COMPLETED"}, needsAttention : BOOLEAN]
    /\ result \in [exists : BOOLEAN, read : SUBSET Uploads]
    /\ generation \in [pc : {"idle", "llm", "complete"}, read : SUBSET Uploads]
    /\ handlers \subseteq [pc : {"new", "wait"}, needsAttention : BOOLEAN]
    /\ old \subseteq Issued
    /\ faults \in 0..MaxFaults /\ crashes \in 0..MaxCrashes

IInv ==
    /\ RowTypes /\ MeetingTypes /\ TasksInv /\ ClientInv
    /\ RowsInv /\ AwsInv /\ AudioOrTranscript

LEMMA TypesFromInv == IInv => TypeOK
  BY DEF IInv, RowTypes, MeetingTypes, TasksInv, GoodTask, TaskRecord, TypeOK

LEMMA InitIInv == Init => IInv
<1> SUFFICES ASSUME Init PROVE IInv
  OBVIOUS
<1>1. RowTypes /\ RowsInv
  BY DEF Init, RowTypes, RowsInv, NoUpload, NoJob, Jobs, Issued
<1>2. MeetingTypes
  BY BoundsAssumption DEF Init, MeetingTypes, NoResult, NoGeneration
<1>3. TasksInv
  BY DEF Init, TasksInv, GoodTask, TaskRecord, Idle, OnUpload, OnJob, Merged, Anywhere
<1>4. ClientInv
  BY BoundsAssumption DEF Init, ClientInv, ClientRecord, Sessions
<1>5. AwsInv /\ AudioOrTranscript
  BY DEF Init, AwsInv, AudioOrTranscript
<1> QED
  BY <1>1, <1>2, <1>3, <1>4, <1>5 DEF IInv

-----------------------------------------------------------------------------
(* Facts about tasks.                                                        *)

LEMMA IdleIsGood == Idle \in GoodTask
  BY DEF Idle, GoodTask, TaskRecord, OnUpload, OnJob, Merged, Anywhere

LEMMA PollTaskIsGood ==
  ASSUME NEW u \in Jobs, NEW c \in BOOLEAN
  PROVE  PollTask(u, c) \in GoodTask
  BY DEF PollTask, Idle, GoodTask, TaskRecord, OnUpload, OnJob, Merged, Anywhere, Jobs

LEMMA FinishedIsGood ==
  ASSUME NEW todo \in SUBSET Jobs
  PROVE  Finished(todo) \in GoodTask
  BY DEF Finished, Idle, GoodTask, TaskRecord, OnUpload, OnJob, Merged, Anywhere, Jobs

\* Starting a poller sets the one entry of its job.
LEMMA PollingStarts ==
  ASSUME NEW G, NEW tasks \in [Tasks -> G], NEW u \in Uploads, NEW c,
         PollTask(u, c) \in G
  PROVE  StartPolling(tasks, u, c) \in [Tasks -> G]
  BY DEF StartPolling, Poller, Pollers, Tasks

\* What a task knows stays true while the rows only gain.
LEMMA GoodTasksStayGood ==
  ASSUME Jobs \subseteq Jobs', Issued \subseteq Issued', segments \subseteq segments'
  PROVE  GoodTask \subseteq GoodTask'
  BY DEF GoodTask

LEMMA GotoStays ==
  ASSUME NEW G, task \in [Tasks -> G], NEW t \in Tasks, NEW p,
         [task[t] EXCEPT !.pc = p] \in G
  PROVE  Goto(t, p) \in [Tasks -> G]
  BY DEF Goto

LEMMA FinishStays ==
  ASSUME NEW G, task \in [Tasks -> G], NEW t \in Tasks,
         Finished(task[t].todo) \in G
  PROVE  Finish(t) \in [Tasks -> G]
  BY DEF Finish

\* An action that leaves the rows alone: only the task's own record is to be checked.
LEMMA SameRows ==
  ASSUME IInv, UNCHANGED <<upload, job, segments>>
  PROVE  /\ Jobs' = Jobs /\ Issued' = Issued /\ GoodTask' = GoodTask
         /\ RowsInv'
         /\ UNCHANGED <<audio, aws>> => RowTypes'
  BY DEF IInv, RowTypes, RowsInv, Jobs, Issued, GoodTask

\* What the steps of tasks leave alone.
LEMMA SameMeeting ==
  ASSUME IInv, UNCHANGED <<meeting, result, generation, handlers, old, crashes>>,
         Issued \subseteq Issued',
         faults' = faults \/ Fault
  PROVE  MeetingTypes'
  BY BoundsAssumption DEF IInv, MeetingTypes, Fault

LEMMA SameClient ==
  ASSUME IInv, UNCHANGED client, Issued \subseteq Issued'
  PROVE  ClientInv'
  BY DEF IInv, ClientInv

-----------------------------------------------------------------------------
(* Tasks that leave the rows alone.                                          *)

\* A task whose row variables are all unchanged keeps the invariant once its records do.
LEMMA TaskOnlyStep ==
  ASSUME IInv, UNCHANGED <<upload, job, segments, external, meeting, result, generation,
                           handlers, old, crashes, client>>,
         faults' = faults \/ Fault,
         task' \in [Tasks -> GoodTask]
  PROVE  IInv'
<1>1. RowTypes' /\ RowsInv' /\ TasksInv'
  BY SameRows DEF external, TasksInv
<1>2. Issued \subseteq Issued'
  BY SameRows
<1>3. MeetingTypes' /\ ClientInv'
  BY <1>2, SameMeeting, SameClient
<1>4. AwsInv' /\ AudioOrTranscript'
  BY DEF IInv, AwsInv, AudioOrTranscript, external
<1> QED
  BY <1>1, <1>3, <1>4 DEF IInv

\* A task goes to a point where it need not know anything, or finishes.
LEMMA TaskMovesOn ==
  ASSUME IInv, NEW t \in Tasks
  PROVE  /\ task \in [Tasks -> GoodTask] /\ task[t] \in GoodTask
         /\ \A p \in Anywhere : Goto(t, p) \in [Tasks -> GoodTask]
         /\ Finish(t) \in [Tasks -> GoodTask]
<1>0. task \in [Tasks -> GoodTask] /\ task[t] \in GoodTask
  BY DEF IInv, TasksInv
<1>1. ASSUME NEW p \in Anywhere PROVE Goto(t, p) \in [Tasks -> GoodTask]
  <2>1. [task[t] EXCEPT !.pc = p] \in GoodTask
    BY <1>0 DEF GoodTask, TaskRecord, OnUpload, OnJob, Merged, Anywhere
  <2> QED
    BY <1>0, <2>1, GotoStays
<1>2. Finish(t) \in [Tasks -> GoodTask]
  BY <1>0, FinishStays, FinishedIsGood DEF GoodTask
<1> QED
  BY <1>0, <1>1, <1>2

LEMMA GateSteps ==
  ASSUME IInv, NEW t \in Tasks,
         GateReadsJobs(t) \/ GateReadsUploads(t) \/ PollWindowExhausted(t)
  PROVE  IInv'
<1>1. task' \in [Tasks -> GoodTask]
  BY TaskMovesOn DEF GateReadsJobs, GateReadsUploads, PollWindowExhausted, Anywhere
<1> QED
  BY <1>1, TaskOnlyStep DEF GateReadsJobs, GateReadsUploads, PollWindowExhausted,
                            rows, external, others

LEMMA VisitJobStep ==
  ASSUME IInv, NEW t \in Tasks, VisitJob(t)
  PROVE  IInv'
<1>0. task \in [Tasks -> GoodTask] /\ task[t].todo \subseteq Jobs
  BY TaskMovesOn DEF GoodTask
<1> PICK u \in task[t].todo :
      LET rest == task[t].todo \ {u}
          visit(pc) == [task EXCEPT ![t] = [Idle EXCEPT !.pc = pc, !.u = u, !.todo = rest]]
      IN  task' = IF job[u].error = "pending" THEN visit("submit")
                  ELSE IF t = Recovery THEN visit("recheck")
                  ELSE ResumePolling([task EXCEPT ![t] = Finished(rest)], u)
  BY DEF VisitJob
<1> DEFINE rest == task[t].todo \ {u}
           visit(p) == [Idle EXCEPT !.pc = p, !.u = u, !.todo = rest]
<1>1. u \in Jobs /\ u \in Uploads /\ rest \subseteq Jobs
  BY <1>0 DEF Jobs
<1>2. visit("submit") \in GoodTask /\ visit("recheck") \in GoodTask
  BY <1>1 DEF Idle, GoodTask, TaskRecord, OnUpload, OnJob, Merged, Anywhere, Jobs
<1>3. [task EXCEPT ![t] = Finished(rest)] \in [Tasks -> GoodTask]
  BY <1>0, <1>1, FinishedIsGood
<1>4. job[u].collected \in BOOLEAN
  BY <1>1 DEF IInv, RowTypes
<1>5. ResumePolling([task EXCEPT ![t] = Finished(rest)], u) \in [Tasks -> GoodTask]
  BY <1>1, <1>3, <1>4, PollTaskIsGood, PollingStarts DEF ResumePolling
<1>6. task' \in [Tasks -> GoodTask]
  BY <1>0, <1>2, <1>5
<1> QED
  BY <1>6, TaskOnlyStep DEF VisitJob, rows, external, others

LEMMA ReconcileStep ==
  ASSUME IInv, NEW u \in Uploads, ReconcileUpload(u)
  PROVE  IInv'
<1> DEFINE k == [Idle EXCEPT !.pc = "load", !.u = u,
                   !.mark = upload[u].status = "ISSUED" /\ u \in old]
<1>1. u \in Issued
  BY DEF ReconcileUpload, Issued
<1>2. k \in GoodTask
  BY <1>1 DEF Idle, GoodTask, TaskRecord, OnUpload, OnJob, Merged, Anywhere
<1>3. task' \in [Tasks -> GoodTask]
  BY <1>2 DEF ReconcileUpload, IInv, TasksInv, Tasks
<1> QED
  BY <1>3, TaskOnlyStep DEF ReconcileUpload, rows, external, others

-----------------------------------------------------------------------------
(* Tasks that write the rows.                                                *)

LEMMA RowStep ==
  ASSUME IInv, UNCHANGED <<external, meeting, result, generation, handlers, old, crashes, client>>,
         faults' = faults \/ Fault,
         RowTypes', RowsInv',
         Issued \subseteq Issued', segments \subseteq segments',
         task' \in [Tasks -> GoodTask']
  PROVE  IInv'
<1>1. MeetingTypes' /\ ClientInv'
  BY SameMeeting, SameClient
<1>2. AwsInv' /\ AudioOrTranscript'
  BY DEF IInv, AwsInv, AudioOrTranscript, external
<1> QED
  BY <1>1, <1>2 DEF IInv, TasksInv

\* An upload row that exists.
UploadRow == [status : {"ISSUED", "UPLOADED", "JOB_QUEUED", "FAILED"},
              session : {0} \cup Sessions, job : BOOLEAN]

LEMMA UploadRows ==
  ASSUME IInv, NEW u \in Uploads
  PROVE  upload[u] \in [status : {"none", "ISSUED", "UPLOADED", "JOB_QUEUED", "FAILED"},
                        session : {0} \cup Sessions, job : BOOLEAN]
  BY DEF IInv, RowTypes

\* An update of one upload row that exists, or will refer to a job that does.
LEMMA UploadUpdated ==
  ASSUME IInv, UNCHANGED <<job, segments, audio, aws>>, NEW u \in Uploads, NEW row,
         row \in UploadRow,
         row.job => u \in Jobs,
         upload' = [upload EXCEPT ![u] = row]
  PROVE  /\ RowTypes' /\ RowsInv'
         /\ Issued \subseteq Issued' /\ u \in Issued' /\ Jobs' = Jobs
         /\ GoodTask \subseteq GoodTask'
<1>1. Issued \subseteq Issued' /\ u \in Issued' /\ Jobs' = Jobs
  BY DEF IInv, RowTypes, Issued, Jobs, UploadRow
<1>2. RowTypes'
  BY <1>1 DEF IInv, RowTypes, UploadRow
<1>3. RowsInv'
  BY <1>1 DEF IInv, RowTypes, RowsInv, UploadRow
<1>4. GoodTask \subseteq GoodTask'
  BY <1>1, GoodTasksStayGood
<1> QED
  BY <1>1, <1>2, <1>3, <1>4

\* A job row that exists.
JobRow == [status : {"QUEUED", "PROCESSING", "COMPLETED", "FAILED"},
           error : {"none", "pending", "collection", "provider"},
           collected : BOOLEAN, providerJobId : {1}]

\* An update of one job row: it keeps the name it is submitted under.
LEMMA JobUpdated ==
  ASSUME IInv, UNCHANGED <<upload, segments, audio, aws>>, NEW u \in Uploads, NEW row,
         row \in JobRow,
         job' = [job EXCEPT ![u] = row]
  PROVE  /\ RowTypes' /\ RowsInv'
         /\ Issued' = Issued /\ u \in Jobs' /\ Jobs \subseteq Jobs'
         /\ GoodTask \subseteq GoodTask'
<1>1. Issued' = Issued /\ u \in Jobs' /\ Jobs \subseteq Jobs'
  BY DEF IInv, RowTypes, Issued, Jobs, JobRow
<1>2. RowTypes'
  BY <1>1 DEF IInv, RowTypes, JobRow
<1>3. RowsInv'
  BY <1>1 DEF IInv, RowTypes, RowsInv, Jobs, JobRow
<1>4. GoodTask \subseteq GoodTask'
  BY <1>1, GoodTasksStayGood
<1> QED
  BY <1>1, <1>2, <1>3, <1>4

\* What a task on a job knows.
LEMMA AtJob ==
  ASSUME IInv, NEW t \in Tasks, task[t].pc \in OnJob
  PROVE  /\ task[t].u \in Jobs /\ task[t].u \in Uploads
         /\ job[task[t].u].providerJobId = 1
         /\ job[task[t].u] \in JobRow
  BY DEF IInv, TasksInv, GoodTask, Jobs, RowTypes, RowsInv, JobRow

LEMMA SaveSubmittedJobStep ==
  ASSUME IInv, NEW t \in Tasks, SaveSubmittedJob(t)
  PROVE  IInv'
<1> DEFINE u == task[t].u
           row == [job[u] EXCEPT !.status = task[t].status, !.error = "none", !.collected = FALSE]
           rest == IF task[t].link THEN [task EXCEPT ![t].pc = "link", ![t].status = "none"]
                   ELSE Finish(t)
<1>0. task[t] \in GoodTask /\ task[t].pc = "saveJob" /\ task \in [Tasks -> GoodTask]
  BY TaskMovesOn DEF SaveSubmittedJob
<1>1. u \in Jobs /\ u \in Uploads /\ job[u] \in JobRow
  BY <1>0, AtJob DEF OnJob
<1>2. row \in JobRow
  BY <1>0, <1>1 DEF JobRow, GoodTask, TaskRecord
<1>3. job' = [job EXCEPT ![u] = row]
  BY <1>1 DEF SaveSubmittedJob, IInv, RowTypes
<1>4. UNCHANGED <<upload, segments, audio, aws>>
  BY DEF SaveSubmittedJob, external
<1>5. /\ RowTypes' /\ RowsInv' /\ Issued' = Issued /\ u \in Jobs'
      /\ GoodTask \subseteq GoodTask'
  BY <1>1, <1>2, <1>3, <1>4, JobUpdated
<1>6. rest \in [Tasks -> GoodTask]
  <2>1. [task[t] EXCEPT !.pc = "link", !.status = "none"] \in GoodTask
    BY <1>0 DEF GoodTask, TaskRecord, OnUpload, OnJob, Merged, Anywhere
  <2>2. [task EXCEPT ![t].pc = "link", ![t].status = "none"] \in [Tasks -> GoodTask]
    BY <1>0, <2>1
  <2> QED
    BY <2>2, TaskMovesOn
<1>7. StartPolling(rest, u, FALSE) \in [Tasks -> GoodTask]
  BY <1>1, <1>6, PollTaskIsGood, PollingStarts
<1>8. task' \in [Tasks -> GoodTask']
  BY <1>5, <1>7 DEF SaveSubmittedJob
<1> QED
  BY <1>5, <1>8, RowStep DEF SaveSubmittedJob, external, others

LEMMA PollJobStep ==
  ASSUME IInv, NEW t \in Tasks, PollJob(t)
  PROVE  IInv'
<1> DEFINE u == task[t].u
           answer == ProviderStatus(aws[u])
           row == [job[u] EXCEPT !.status = answer,
                                 !.error = IF answer = "FAILED" THEN "provider" ELSE @]
<1>0. task[t] \in GoodTask /\ task[t].pc \in {"poll", "recheck"} /\ task \in [Tasks -> GoodTask]
  BY TaskMovesOn DEF PollJob
<1>1. u \in Jobs /\ u \in Uploads /\ job[u] \in JobRow
  BY <1>0, AtJob DEF OnJob
<1>2. answer \in {"PROCESSING", "COMPLETED", "FAILED"}
  BY <1>1 DEF IInv, RowTypes, ProviderStatus
<1>3. row \in JobRow
  BY <1>1, <1>2 DEF JobRow
<1>4. job' = [job EXCEPT ![u] = row]
  BY <1>1 DEF PollJob, IInv, RowTypes
<1>5. /\ RowTypes' /\ RowsInv' /\ Issued' = Issued /\ GoodTask \subseteq GoodTask'
  BY <1>1, <1>3, <1>4, JobUpdated DEF PollJob, external
<1>6. Goto(t, "collect") \in [Tasks -> GoodTask] /\ Goto(t, "attention") \in [Tasks -> GoodTask]
  <2>1. [task[t] EXCEPT !.pc = "collect"] \in GoodTask
    BY <1>0, <1>1 DEF GoodTask, TaskRecord, OnUpload, OnJob, Merged, Anywhere
  <2> QED
    BY <1>0, <2>1, GotoStays, TaskMovesOn DEF Anywhere
<1>7. StartPolling(Finish(t), u, job[u].collected) \in [Tasks -> GoodTask]
  <2>1. job[u].collected \in BOOLEAN
    BY <1>1 DEF IInv, RowTypes
  <2> QED
    BY <1>1, <2>1, TaskMovesOn, PollTaskIsGood, PollingStarts
<1>8. task' \in [Tasks -> GoodTask']
  BY <1>0, <1>2, <1>5, <1>6, <1>7 DEF PollJob
<1> QED
  BY <1>5, <1>8, RowStep DEF PollJob, external, others

\* A step of a task on a job that writes the job row and moves the task on.
LEMMA JobWritten ==
  ASSUME IInv, NEW t \in Tasks, task[t].pc \in OnJob, NEW row \in JobRow,
         job' = [job EXCEPT ![task[t].u] = row],
         UNCHANGED <<upload, segments, external, meeting, result, generation, handlers,
                     old, crashes, client>>,
         faults' = faults \/ Fault,
         \/ task' = Finish(t)
         \/ \E p \in Anywhere : task' = Goto(t, p)
         \/ task[t].pc \in Merged /\ \E p \in Merged : task' = Goto(t, p)
  PROVE  IInv'
<1>1. task[t].u \in Uploads
  BY AtJob
<1>2. /\ RowTypes' /\ RowsInv' /\ Issued' = Issued /\ GoodTask \subseteq GoodTask'
  BY <1>1, JobUpdated DEF external
<1>3. ASSUME task[t].pc \in Merged, NEW p \in Merged
      PROVE  Goto(t, p) \in [Tasks -> GoodTask]
  <2>1. task[t] \in GoodTask
    BY TaskMovesOn
  <2>2. [task[t] EXCEPT !.pc = p] \in GoodTask
    BY <1>3, <2>1 DEF GoodTask, TaskRecord, OnUpload, OnJob, Merged, Anywhere
  <2> QED
    BY <2>2, TaskMovesOn, GotoStays
<1>4. task' \in [Tasks -> GoodTask']
  BY <1>2, <1>3, TaskMovesOn
<1> QED
  BY <1>2, <1>4, RowStep

LEMMA SaveCollectedJobStep ==
  ASSUME IInv, NEW t \in Tasks, SaveCollectedJob(t)
  PROVE  IInv'
<1> DEFINE u == task[t].u
           row == [job[u] EXCEPT !.status = "COMPLETED", !.error = "none", !.collected = TRUE]
<1>1. task[t].pc \in OnJob /\ task[t].pc \in Merged /\ "deleteAudio" \in Merged
  BY DEF SaveCollectedJob, OnJob, Merged
<1>2. job[u] \in JobRow /\ u \in Uploads
  BY <1>1, AtJob
<1>3. row \in JobRow
  BY <1>2 DEF JobRow
<1>4. job' = [job EXCEPT ![u] = row]
  BY <1>2 DEF SaveCollectedJob, IInv, RowTypes
<1> QED
  BY <1>1, <1>3, <1>4, JobWritten DEF SaveCollectedJob, external, others

LEMMA CollectionFailsStep ==
  ASSUME IInv, NEW t \in Tasks, CollectionFails(t)
  PROVE  IInv'
<1> DEFINE u == task[t].u
           row == [job[u] EXCEPT !.status = "FAILED", !.error = "collection"]
<1>1. task[t].pc \in OnJob
  BY DEF CollectionFails, OnJob
<1>2. job[u] \in JobRow /\ u \in Uploads
  BY <1>1, AtJob
<1>3. row \in JobRow
  BY <1>2 DEF JobRow
<1>4. job' = [job EXCEPT ![u] = row]
  BY <1>2 DEF CollectionFails, IInv, RowTypes
<1> QED
  BY <1>1, <1>3, <1>4, JobWritten DEF CollectionFails, external, others

LEMMA RecheckWithoutEndStep ==
  ASSUME IInv, NEW t \in Tasks, RecheckWithoutEnd(t)
  PROVE  IInv'
<1> DEFINE u == task[t].u
           row == [job[u] EXCEPT !.status = "FAILED", !.error = "provider"]
<1>1. task[t].pc \in OnJob
  BY DEF RecheckWithoutEnd, OnJob
<1>2. job[u] \in JobRow /\ u \in Uploads /\ u \in Jobs /\ job[u].collected \in BOOLEAN
  BY <1>1, AtJob DEF JobRow
<1>3. CASE UNCHANGED job
  <2>1. StartPolling(Finish(t), u, job[u].collected) \in [Tasks -> GoodTask]
    BY <1>2, TaskMovesOn, PollTaskIsGood, PollingStarts
  <2>2. task' \in [Tasks -> GoodTask]
    BY <2>1, TaskMovesOn DEF RecheckWithoutEnd, Anywhere
  <2> QED
    BY <1>3, <2>2, TaskOnlyStep DEF RecheckWithoutEnd, external, others
<1>4. CASE /\ job' = [job EXCEPT ![u].status = "FAILED", ![u].error = "provider"]
           /\ task' = Goto(t, "attention")
  <2>1. row \in JobRow
    BY <1>2 DEF JobRow
  <2>2. job' = [job EXCEPT ![u] = row]
    BY <1>2, <1>4 DEF IInv, RowTypes
  <2> QED
    BY <1>1, <1>4, <2>1, <2>2, JobWritten DEF RecheckWithoutEnd, external, others, Anywhere
<1> QED
  BY <1>3, <1>4 DEF RecheckWithoutEnd

LEMMA CollectSegmentsStep ==
  ASSUME IInv, NEW t \in Tasks, CollectSegments(t)
  PROVE  IInv'
<1> DEFINE u == task[t].u
<1>0. task[t] \in GoodTask /\ task \in [Tasks -> GoodTask] /\ task[t].pc = "collect"
  BY TaskMovesOn DEF CollectSegments
<1>1. u \in Jobs /\ u \in Uploads
  BY <1>0, AtJob DEF OnJob
<1>2. Jobs' = Jobs /\ Issued' = Issued /\ segments \subseteq segments' /\ segments' \subseteq Jobs
  BY <1>1 DEF CollectSegments, Jobs, Issued, IInv, RowTypes
<1>3. RowTypes' /\ RowsInv'
  BY <1>2 DEF CollectSegments, external, IInv, RowTypes, RowsInv
<1>4. GoodTask \subseteq GoodTask'
  BY <1>2, GoodTasksStayGood
<1>5. [task[t] EXCEPT !.pc = "gate", !.lock = "job"] \in GoodTask
  BY <1>0 DEF GoodTask, TaskRecord, OnUpload, OnJob, Merged, Anywhere
<1>6. CASE job[u].collected
  BY <1>0, <1>2, <1>3, <1>4, <1>5, <1>6, RowStep DEF CollectSegments, external, others
<1>7. CASE ~job[u].collected
  <2>1. u \in segments' /\ u \in Jobs'
    BY <1>1, <1>2, <1>7 DEF CollectSegments
  <2>2. task[t] \in GoodTask'
    BY <1>0, <1>4
  <2>3. [task[t] EXCEPT !.pc = "saveCollected", !.lock = "job"] \in GoodTask'
    BY <2>1, <2>2 DEF GoodTask, TaskRecord, OnUpload, OnJob, Merged, Anywhere
  <2>4. task' = [task EXCEPT ![t] = [task[t] EXCEPT !.pc = "saveCollected", !.lock = "job"]]
    BY <1>0, <1>7 DEF CollectSegments
  <2>5. task' \in [Tasks -> GoodTask']
    BY <1>0, <1>4, <2>3, <2>4
  <2> QED
    BY <1>2, <1>3, <2>5, RowStep DEF CollectSegments, external, others
<1> QED
  BY <1>6, <1>7

LEMMA LinkUploadStep ==
  ASSUME IInv, NEW t \in Tasks, LinkUpload(t)
  PROVE  IInv'
<1> DEFINE u == task[t].u
           row == [upload[u] EXCEPT !.status = "JOB_QUEUED", !.job = TRUE]
<1>1. u \in Jobs /\ u \in Uploads
  BY AtJob DEF LinkUpload, OnJob
<1>2. row \in UploadRow
  BY <1>1, UploadRows DEF UploadRow
<1>3. upload' = [upload EXCEPT ![u] = row]
  BY <1>1 DEF LinkUpload, IInv, RowTypes
<1>4. /\ RowTypes' /\ RowsInv' /\ Issued \subseteq Issued' /\ GoodTask \subseteq GoodTask'
  BY <1>1, <1>2, <1>3, UploadUpdated DEF LinkUpload, external
<1>5. task' \in [Tasks -> GoodTask']
  BY <1>4, TaskMovesOn DEF LinkUpload
<1> QED
  BY <1>4, <1>5, RowStep DEF LinkUpload, external, others

\* An upload that exists changes its status to one a finished or failed try leaves.
LEMMA StatusUpdated ==
  ASSUME IInv, UNCHANGED <<job, segments, audio, aws>>, NEW u \in Uploads,
         NEW s \in {"UPLOADED", "FAILED"},
         upload' = [upload EXCEPT ![u].status = s]
  PROVE  /\ RowTypes' /\ RowsInv'
         /\ Issued \subseteq Issued' /\ GoodTask \subseteq GoodTask'
<1> DEFINE row == [upload[u] EXCEPT !.status = s]
<1>1. row \in UploadRow
  BY UploadRows DEF UploadRow
<1>3. row.job => u \in Jobs
  BY UploadRows DEF IInv, RowsInv
<1>2. upload' = [upload EXCEPT ![u] = row]
  BY DEF IInv, RowTypes
<1> QED
  BY <1>1, <1>2, <1>3, UploadUpdated

LEMMA SubmitFailsStep ==
  ASSUME IInv, NEW t \in Tasks, SubmitFails(t)
  PROVE  IInv'
<1> DEFINE u == task[t].u
           k == [Idle EXCEPT !.pc = IF task[t].lock = "upload" THEN "missing" ELSE "idle"]
<1>1. u \in Uploads
  BY AtJob DEF SubmitFails, OnJob
<1>2. /\ RowTypes' /\ RowsInv' /\ Issued \subseteq Issued' /\ GoodTask \subseteq GoodTask'
  <2>1. CASE UNCHANGED upload
    BY <2>1, SameRows DEF SubmitFails, external
  <2>2. CASE upload' = [upload EXCEPT ![u].status = "FAILED"]
    BY <1>1, <2>2, StatusUpdated DEF SubmitFails, external
  <2> QED
    BY <2>1, <2>2 DEF SubmitFails
<1>3. k \in GoodTask
  BY DEF Idle, GoodTask, TaskRecord, OnUpload, OnJob, Merged, Anywhere
<1>4. task' \in [Tasks -> GoodTask']
  BY <1>2, <1>3, TaskMovesOn DEF SubmitFails
<1> QED
  BY <1>2, <1>4, RowStep DEF SubmitFails, external, others

LEMMA QueueBatchJobStep ==
  ASSUME IInv, NEW t \in Tasks, QueueBatchJob(t)
  PROVE  IInv'
<1> DEFINE u == task[t].u
           row == [status |-> "QUEUED", error |-> "pending",
                   collected |-> FALSE, providerJobId |-> 1]
<1>0. task[t] \in GoodTask /\ task \in [Tasks -> GoodTask] /\ task[t].pc = "queue"
  BY TaskMovesOn DEF QueueBatchJob
<1>1. u \in Uploads
  BY <1>0 DEF GoodTask, OnUpload, Issued
<1>2. CASE job[u] = NoJob
  <2>1. row \in JobRow
    BY DEF JobRow
  <2>2. /\ RowTypes' /\ RowsInv' /\ Issued' = Issued /\ u \in Jobs'
        /\ GoodTask \subseteq GoodTask'
    BY <1>1, <1>2, <2>1, JobUpdated DEF QueueBatchJob, external
  <2>3. task[t] \in GoodTask'
    BY <1>0, <2>2
  <2>4. [task[t] EXCEPT !.pc = "submit"] \in GoodTask'
    BY <2>2, <2>3 DEF GoodTask, TaskRecord, OnUpload, OnJob, Merged, Anywhere
  <2>5. task \in [Tasks -> GoodTask']
    BY <1>0, <2>2
  <2>6. Goto(t, "submit") \in [Tasks -> GoodTask']
    BY <2>4, <2>5, GotoStays
  <2>7. task' \in [Tasks -> GoodTask']
    BY <1>2, <2>6 DEF QueueBatchJob
  <2> QED
    BY <1>2, <2>2, <2>7, RowStep DEF QueueBatchJob, external, others
<1>3. CASE job[u] # NoJob
  <2>1. u \in Jobs
    BY <1>1, <1>3 DEF IInv, RowsInv, Jobs
  <2>2. /\ [task[t] EXCEPT !.pc = "submit"] \in GoodTask
        /\ [task[t] EXCEPT !.pc = "link"] \in GoodTask
    BY <1>0, <2>1 DEF GoodTask, TaskRecord, OnUpload, OnJob, Merged, Anywhere
  <2>3. Goto(t, "submit") \in [Tasks -> GoodTask] /\ Goto(t, "link") \in [Tasks -> GoodTask]
    BY <1>0, <2>2, GotoStays
  <2>4. job[u].collected \in BOOLEAN
    BY <1>1 DEF IInv, RowTypes
  <2>5. ResumePolling(Goto(t, "link"), u) \in [Tasks -> GoodTask]
    BY <1>1, <2>1, <2>3, <2>4, PollTaskIsGood, PollingStarts DEF ResumePolling
  <2>6. task' \in [Tasks -> GoodTask]
    BY <1>3, <2>3, <2>5 DEF QueueBatchJob
  <2> QED
    BY <1>3, <2>6, TaskOnlyStep DEF QueueBatchJob, external, others
<1> QED
  BY <1>2, <1>3

LEMMA ProcessBatchUploadStep ==
  ASSUME IInv, NEW t \in Tasks, ProcessBatchUpload(t)
  PROVE  IInv'
<1> DEFINE u == task[t].u
<1>0. task[t] \in GoodTask /\ task \in [Tasks -> GoodTask] /\ task[t].pc = "load"
  BY TaskMovesOn DEF ProcessBatchUpload
<1>1. u \in Uploads /\ u \in Issued
  BY <1>0 DEF GoodTask, OnUpload, Issued
<1>2. CASE upload[u].job
  <2>1. u \in Jobs /\ job[u].collected \in BOOLEAN
    BY <1>1, <1>2 DEF IInv, RowsInv, RowTypes
  <2>2. [task[t] EXCEPT !.pc = "submit", !.lock = "upload", !.mark = FALSE] \in GoodTask
    BY <1>0, <2>1 DEF GoodTask, TaskRecord, OnUpload, OnJob, Merged, Anywhere
  <2>3. [task EXCEPT ![t].pc = "submit", ![t].lock = "upload", ![t].mark = FALSE]
            \in [Tasks -> GoodTask]
    BY <1>0, <2>2
  <2>4. ResumePolling(Finish(t), u) \in [Tasks -> GoodTask]
    BY <1>1, <2>1, TaskMovesOn, PollTaskIsGood, PollingStarts DEF ResumePolling
  <2>5. task' \in [Tasks -> GoodTask]
    BY <1>2, <2>3, <2>4 DEF ProcessBatchUpload
  <2> QED
    BY <1>2, <2>5, TaskOnlyStep DEF ProcessBatchUpload, external, others
<1>3. CASE ~upload[u].job /\ u \notin audio
  <2> DEFINE k == [Idle EXCEPT !.pc = "missing"]
  <2>1. /\ RowTypes' /\ RowsInv' /\ Issued \subseteq Issued' /\ GoodTask \subseteq GoodTask'
    <3>1. CASE UNCHANGED upload
      BY <3>1, SameRows DEF ProcessBatchUpload, external
    <3>2. CASE upload' = [upload EXCEPT ![u].status = "FAILED"]
      BY <1>1, <3>2, StatusUpdated DEF ProcessBatchUpload, external
    <3> QED
      BY <1>3, <3>1, <3>2 DEF ProcessBatchUpload, MissingObject
  <2>2. k \in GoodTask
    BY DEF Idle, GoodTask, TaskRecord, OnUpload, OnJob, Merged, Anywhere
  <2>3. task' \in [Tasks -> GoodTask']
    BY <1>3, <2>1, <2>2, TaskMovesOn DEF ProcessBatchUpload, MissingObject
  <2> QED
    BY <2>1, <2>3, RowStep DEF ProcessBatchUpload, external, others
<1>4. CASE ~upload[u].job /\ u \in audio
  <2>1. /\ RowTypes' /\ RowsInv' /\ Issued \subseteq Issued' /\ GoodTask \subseteq GoodTask'
    BY <1>1, <1>4, StatusUpdated DEF ProcessBatchUpload, external
  <2>2. [task[t] EXCEPT !.pc = "queue", !.lock = "upload", !.link = TRUE, !.mark = FALSE]
            \in GoodTask
    BY <1>0, <1>1 DEF GoodTask, TaskRecord, OnUpload, OnJob, Merged, Anywhere
  <2>3. [task EXCEPT ![t].pc = "queue", ![t].lock = "upload", ![t].link = TRUE,
                     ![t].mark = FALSE] \in [Tasks -> GoodTask]
    BY <1>0, <2>2
  <2>4. task' \in [Tasks -> GoodTask']
    BY <1>4, <2>1, <2>3 DEF ProcessBatchUpload
  <2> QED
    BY <2>1, <2>4, RowStep DEF ProcessBatchUpload, external, others
<1> QED
  BY <1>2, <1>3, <1>4

-----------------------------------------------------------------------------
(* Tasks that act on AWS, on S3 and on the meeting.                          *)

LEMMA SubmitBatchJobStep ==
  ASSUME IInv, NEW t \in Tasks, SubmitBatchJob(t)
  PROVE  IInv'
<1> DEFINE u == task[t].u
           k == [task[t] EXCEPT !.pc = "saveJob", !.status = ProviderStatus(aws[u])]
<1>0. task[t] \in GoodTask /\ task \in [Tasks -> GoodTask] /\ task[t].pc = "submit"
  BY TaskMovesOn DEF SubmitBatchJob
<1>1. u \in Jobs /\ u \in Uploads /\ job[u].providerJobId = 1
  BY <1>0, AtJob DEF OnJob
<1>2. /\ RowsInv' /\ GoodTask' = GoodTask /\ Issued' = Issued /\ Jobs' = Jobs
      /\ UNCHANGED <<upload, job, segments, audio>>
  BY SameRows DEF SubmitBatchJob, rows
<1>3. aws' \in [Uploads -> {"none", "running", "completed", "failed"}]
  BY <1>1 DEF SubmitBatchJob, IInv, RowTypes
<1>4. RowTypes'
  BY <1>2, <1>3 DEF IInv, RowTypes
<1>5. AwsInv'
  BY <1>1 DEF SubmitBatchJob, IInv, AwsInv
<1>6. k \in GoodTask
  <2>1. ProviderStatus(aws[u]) \in {"PROCESSING", "COMPLETED", "FAILED"}
    BY <1>1 DEF IInv, RowTypes, ProviderStatus
  <2> QED
    BY <1>0, <1>1, <2>1 DEF GoodTask, TaskRecord, OnUpload, OnJob, Merged, Anywhere
<1>7. TasksInv'
  <2>1. task' = [task EXCEPT ![t] = k]
    BY <1>0 DEF SubmitBatchJob
  <2> QED
    BY <1>0, <1>2, <1>6, <2>1 DEF TasksInv
<1>8. MeetingTypes' /\ ClientInv'
  BY <1>2, SameMeeting, SameClient DEF SubmitBatchJob, rows, others
<1>9. AudioOrTranscript'
  BY <1>2 DEF SubmitBatchJob, IInv, AudioOrTranscript
<1> QED
  BY <1>2, <1>4, <1>5, <1>7, <1>8, <1>9 DEF IInv

LEMMA DeleteAudioFileStep ==
  ASSUME IInv, NEW t \in Tasks, DeleteAudioFile(t)
  PROVE  IInv'
<1> DEFINE u == task[t].u
<1>0. task[t] \in GoodTask /\ task[t].pc = "deleteAudio" /\ task' = Goto(t, "gate")
  BY TaskMovesOn DEF DeleteAudioFile
<1>1. u \in segments
  BY <1>0 DEF GoodTask, Merged
<1>2. /\ RowsInv' /\ GoodTask' = GoodTask /\ Issued' = Issued /\ Jobs' = Jobs
      /\ UNCHANGED <<upload, job, segments, aws>>
  BY SameRows DEF DeleteAudioFile, rows
<1>3. RowTypes'
  BY <1>2 DEF DeleteAudioFile, IInv, RowTypes
<1>4. TasksInv'
  BY <1>0, <1>2, TaskMovesOn DEF TasksInv, Anywhere
<1>5. MeetingTypes' /\ ClientInv'
  BY <1>2, SameMeeting, SameClient DEF DeleteAudioFile, rows, others
<1>6. AwsInv'
  BY DEF DeleteAudioFile, IInv, AwsInv
<1>7. AudioOrTranscript'
  BY <1>1, <1>2 DEF DeleteAudioFile, IInv, AudioOrTranscript
<1> QED
  BY <1>2, <1>3, <1>4, <1>5, <1>6, <1>7 DEF IInv

\* A step that may change the meeting, its minutes and the tasks, but no row of the pipeline.
LEMMA MeetingStep ==
  ASSUME IInv, UNCHANGED <<upload, job, segments, external>>,
         MeetingTypes', ClientInv', task' \in [Tasks -> GoodTask]
  PROVE  IInv'
<1>1. RowTypes' /\ RowsInv' /\ TasksInv'
  BY SameRows DEF external, TasksInv
<1>2. AwsInv' /\ AudioOrTranscript'
  BY DEF IInv, AwsInv, AudioOrTranscript, external
<1> QED
  BY <1>1, <1>2 DEF IInv

Meetings == [status : {"RECORDING", "PROCESSING", "COMPLETED"}, needsAttention : BOOLEAN]
HandlerRecord == [pc : {"new", "wait"}, needsAttention : BOOLEAN]

\* Of the meeting's types only those of the meeting row and the handlers are at stake.
LEMMA MeetingRowStep ==
  ASSUME IInv, UNCHANGED <<upload, result, generation, old, crashes>>,
         faults' = faults \/ Fault,
         meeting' \in Meetings, handlers' \subseteq HandlerRecord
  PROVE  MeetingTypes' /\ Issued' = Issued
  BY BoundsAssumption DEF IInv, MeetingTypes, Meetings, HandlerRecord, Fault, Issued

LEMMA MeetingIsTyped ==
  ASSUME IInv
  PROVE  meeting \in Meetings /\ handlers \subseteq HandlerRecord
  BY DEF IInv, MeetingTypes, Meetings, HandlerRecord

LEMMA EmitIsTyped ==
  ASSUME handlers \subseteq HandlerRecord, NEW a \in BOOLEAN, Emit(a)
  PROVE  handlers' \subseteq HandlerRecord
<1>1. [pc |-> "new", needsAttention |-> a] \in HandlerRecord
  BY DEF HandlerRecord
<1> QED
  BY <1>1 DEF Emit

\* complete() types the row and the event it emits, and never reopens a completed meeting.
LEMMA CompleteIsTyped ==
  ASSUME meeting \in Meetings, handlers \subseteq HandlerRecord,
         NEW skip \in BOOLEAN, NEW mark \in BOOLEAN, Complete(skip, mark)
  PROVE  /\ meeting' \in Meetings /\ handlers' \subseteq HandlerRecord
         /\ meeting.status = "COMPLETED" => meeting' = meeting
<1>1. CASE meeting.status = "COMPLETED"
  BY <1>1 DEF Complete
<1>2. CASE meeting.status # "COMPLETED"
  <2> DEFINE attention == skip /\ (meeting.needsAttention \/ mark)
  <2>1. attention \in BOOLEAN
    OBVIOUS
  <2>2. /\ meeting' = [status |-> "PROCESSING", needsAttention |-> attention]
        /\ Emit(attention) \/ UNCHANGED handlers
    BY <1>2 DEF Complete
  <2>3. handlers' \subseteq HandlerRecord
    BY <2>1, <2>2, EmitIsTyped
  <2> QED
    BY <1>2, <2>1, <2>2, <2>3 DEF Meetings
<1> QED
  BY <1>1, <1>2

LEMMA MarkIsTyped ==
  ASSUME meeting \in Meetings, MarkNeedsAttention
  PROVE  meeting' \in Meetings /\ meeting'.status = meeting.status
  BY DEF Meetings, MarkNeedsAttention

LEMMA AttentionSteps ==
  ASSUME IInv, NEW t \in Tasks,
         FinalizeAfterFailedTranscription(t) \/ RecoverMissingBatchJob(t)
  PROVE  IInv'
<1>1. meeting' \in Meetings /\ handlers' \subseteq HandlerRecord
  BY MeetingIsTyped, MarkIsTyped DEF FinalizeAfterFailedTranscription, RecoverMissingBatchJob, others
<1>2. MeetingTypes' /\ Issued' = Issued
  BY <1>1, MeetingRowStep DEF FinalizeAfterFailedTranscription, RecoverMissingBatchJob, others
<1>3. ClientInv'
  BY <1>2, SameClient DEF FinalizeAfterFailedTranscription, RecoverMissingBatchJob, others
<1>4. task' \in [Tasks -> GoodTask]
  BY TaskMovesOn DEF FinalizeAfterFailedTranscription, RecoverMissingBatchJob, Anywhere
<1> QED
  BY <1>2, <1>3, <1>4, MeetingStep DEF FinalizeAfterFailedTranscription, RecoverMissingBatchJob

LEMMA EmitStep ==
  ASSUME IInv, NEW t \in Tasks, EmitGeneratingPhase(t)
  PROVE  IInv'
<1>1. meeting' \in Meetings /\ handlers' \subseteq HandlerRecord
  <2>1. meeting.needsAttention \in BOOLEAN
    BY MeetingIsTyped DEF Meetings
  <2> QED
    BY <2>1, MeetingIsTyped, EmitIsTyped DEF EmitGeneratingPhase, rows
<1>2. MeetingTypes' /\ Issued' = Issued
  BY <1>1, MeetingRowStep DEF EmitGeneratingPhase, rows
<1>3. ClientInv' /\ task' \in [Tasks -> GoodTask]
  BY <1>2, SameClient, TaskMovesOn DEF EmitGeneratingPhase
<1> QED
  BY <1>2, <1>3, MeetingStep DEF EmitGeneratingPhase, rows

LEMMA RecoverMeetingStep ==
  ASSUME IInv, RecoverMeeting
  PROVE  IInv'
<1>0. task \in [Tasks -> GoodTask] /\ Recovery \in Tasks
  BY DEF IInv, TasksInv, Tasks
<1>1. meeting' \in Meetings /\ handlers' \subseteq HandlerRecord
  BY MeetingIsTyped DEF RecoverMeeting, others, Meetings
<1>2. MeetingTypes' /\ ClientInv'
  BY <1>1, MeetingRowStep, SameClient DEF RecoverMeeting, others
<1>3. ASSUME NEW last \in Issued
      PROVE  [Idle EXCEPT !.pc = "load", !.u = last, !.mark = TRUE] \in GoodTask
  BY DEF Idle, GoodTask, TaskRecord, OnUpload, OnJob, Merged, Anywhere, Issued
<1>4. ASSUME NEW todo \in SUBSET Jobs
      PROVE  [Idle EXCEPT !.pc = "next", !.todo = todo] \in GoodTask
  BY DEF Idle, GoodTask, TaskRecord, OnUpload, OnJob, Merged, Anywhere, Jobs
<1>5. [Idle EXCEPT !.pc = "missing"] \in GoodTask /\ [Idle EXCEPT !.pc = "gate"] \in GoodTask
  BY DEF Idle, GoodTask, TaskRecord, OnUpload, OnJob, Merged, Anywhere
<1>6. \A k \in GoodTask : [task EXCEPT ![Recovery] = k] \in [Tasks -> GoodTask]
  BY <1>0
<1>7. task' \in [Tasks -> GoodTask]
  <2> DEFINE stale == {u \in Jobs : ShouldRecoverJob(u)}
  <2>1. stale \in SUBSET Jobs
    OBVIOUS
  <2> QED
    BY <1>0, <1>3, <1>4, <1>5, <1>6, <2>1 DEF RecoverMeeting
<1> QED
  BY <1>2, <1>7, MeetingStep DEF RecoverMeeting

LEMMA BackendStepKeepsIInv ==
  ASSUME IInv, NEW t \in Tasks, BackendStep(t) \/ BackendFault(t)
  PROVE  IInv'
  BY ProcessBatchUploadStep, QueueBatchJobStep, SubmitBatchJobStep, SaveSubmittedJobStep,
     LinkUploadStep, PollJobStep, CollectSegmentsStep, SaveCollectedJobStep,
     DeleteAudioFileStep, AttentionSteps, GateSteps, EmitStep, VisitJobStep,
     SubmitFailsStep, CollectionFailsStep, RecheckWithoutEndStep
  DEF BackendStep, BackendFault, UploadTask, CollectorTask

-----------------------------------------------------------------------------
(* The browser.                                                              *)

LEMMA ClientRecords ==
  ASSUME IInv
  PROVE  /\ client \in ClientRecord
         /\ client.pc \in {"put", "confirm", "confirming"} => client.u \in Issued
         /\ ClientAttemptFailed \in ClientRecord
         /\ ClientAttemptFailed.pc \in {"issue", "failed"}
         /\ ClientNext \in ClientRecord
         /\ ClientNext.pc \in {"issue", "done"}
<1>1. client \in ClientRecord
  BY DEF IInv, ClientInv
<1>4. client.attempt \in Nat /\ client.session \in Sessions
  BY <1>1 DEF ClientRecord
<1>2. ClientAttemptFailed \in ClientRecord /\ ClientAttemptFailed.pc \in {"issue", "failed"}
  <2> DEFINE n == client.attempt + 1
  <2>1. n \in Nat
    BY <1>4
  <2>2. ClientAttemptFailed = IF client.attempt = MaxRetries
                              THEN [client EXCEPT !.pc = "failed", !.u = 0]
                              ELSE [client EXCEPT !.pc = "issue", !.attempt = n]
    BY <1>1 DEF ClientAttemptFailed, ClientRecord
  <2> HIDE DEF n
  <2> QED
    BY <1>1, <2>1, <2>2 DEF ClientRecord
<1>3. ClientNext \in ClientRecord /\ ClientNext.pc \in {"issue", "done"}
  <2> DEFINE n == client.session + 1
  <2>1. client.session # NumSessions => n \in Sessions
    BY <1>4, BoundsAssumption DEF Sessions
  <2>2. ClientNext = IF client.session = NumSessions
                     THEN [client EXCEPT !.pc = "done", !.u = 0]
                     ELSE [client EXCEPT !.pc = "issue", !.session = n, !.attempt = 1]
    BY <1>1 DEF ClientNext, ClientRecord
  <2> HIDE DEF n
  <2> QED
    BY <1>1, <2>1, <2>2 DEF ClientRecord
<1> QED
  BY <1>1, <1>2, <1>3 DEF IInv, ClientInv

\* The flow moves on without touching a row or a task.
LEMMA ClientMovesOn ==
  ASSUME IInv, ClientIssueFails \/ ClientConfirmed \/ ClientRetry \/ ClientVanish
  PROVE  IInv'
<1>1. UNCHANGED <<upload, job, segments, external, meeting, result, generation, handlers,
                  old, crashes, task>>
  BY DEF ClientIssueFails, ClientConfirmed, ClientRetry, ClientVanish, rows
<1>2. faults' = faults \/ Fault
  BY DEF ClientIssueFails, ClientConfirmed, ClientRetry, ClientVanish
<1>3. Issued' = Issued
  BY <1>1 DEF Issued
<1>4. ClientInv'
  <2>1. CASE ClientConfirmed
    <3> DEFINE n == client.attempt + 1
    <3>1. client' = ClientNext \/ client' = [client EXCEPT !.pc = "confirm", !.attempt = n]
      BY <2>1, ClientRecords DEF ClientConfirmed, ClientRecord
    <3>2. client.u \in Issued /\ n \in Nat
      BY <2>1, ClientRecords DEF ClientConfirmed, ClientRecord
    <3> HIDE DEF n
    <3>3. CASE client' = ClientNext
      BY <3>3, ClientRecords DEF ClientInv
    <3>4. CASE client' = [client EXCEPT !.pc = "confirm", !.attempt = n]
      BY <1>3, <3>2, <3>4, ClientRecords DEF ClientInv, ClientRecord
    <3> QED
      BY <3>1, <3>3, <3>4
  <2>2. CASE ClientRetry
    BY <1>3, <2>2, ClientRecords DEF ClientRetry, ClientInv, ClientRecord
  <2>3. CASE ClientVanish
    BY <1>3, <2>3, ClientRecords DEF ClientVanish, ClientInv, ClientRecord
  <2>4. CASE ClientIssueFails
    BY <2>4, ClientRecords DEF ClientIssueFails, ClientInv
  <2> QED
    BY <2>1, <2>2, <2>3, <2>4
<1>5. MeetingTypes'
  BY <1>1, <1>2, <1>3, SameMeeting
<1>6. task' \in [Tasks -> GoodTask]
  BY <1>1 DEF IInv, TasksInv
<1> QED
  BY <1>1, <1>4, <1>5, <1>6, MeetingStep

LEMMA ClientIssueStep ==
  ASSUME IInv, ClientIssue
  PROVE  IInv'
<1> DEFINE u == Cardinality(Issued) + 1
           row == [status |-> "ISSUED", session |-> client.session, job |-> FALSE]
<1>1. CASE /\ u \in Uploads
           /\ upload' = [upload EXCEPT ![u] = row]
           /\ \/ client' = [client EXCEPT !.pc = "put", !.u = u] /\ UNCHANGED faults
              \/ Fault /\ client' = ClientAttemptFailed
  <2> HIDE DEF u
  <2>1. row \in UploadRow
    BY ClientRecords DEF UploadRow, ClientRecord
  <2>2. /\ RowTypes' /\ RowsInv' /\ Issued \subseteq Issued' /\ u \in Issued'
        /\ GoodTask \subseteq GoodTask'
    BY <1>1, <2>1, UploadUpdated DEF ClientIssue, external
  <2>3. ClientInv'
    BY <1>1, <2>2, ClientRecords DEF ClientInv, ClientRecord
  <2>4. MeetingTypes'
    BY <2>2, SameMeeting DEF ClientIssue
  <2>5. TasksInv'
    BY <2>2 DEF ClientIssue, IInv, TasksInv
  <2>6. AwsInv' /\ AudioOrTranscript'
    BY DEF ClientIssue, IInv, AwsInv, AudioOrTranscript, external
  <2> QED
    BY <2>2, <2>3, <2>4, <2>5, <2>6 DEF IInv
<1>2. CASE UNCHANGED <<upload, faults>> /\ client' = [client EXCEPT !.pc = "failed"]
  <2>1. ClientInv'
    BY <1>2, ClientRecords DEF ClientInv, ClientRecord
  <2>2. MeetingTypes'
    BY <1>2, SameMeeting DEF ClientIssue, Issued
  <2>3. task' \in [Tasks -> GoodTask]
    BY DEF ClientIssue, IInv, TasksInv
  <2> QED
    BY <1>2, <2>1, <2>2, <2>3, MeetingStep DEF ClientIssue
<1> QED
  BY <1>1, <1>2 DEF ClientIssue

LEMMA ClientPutStep ==
  ASSUME IInv, ClientPut
  PROVE  IInv'
<1>1. client.u \in Issued
  BY ClientRecords DEF ClientPut
<1>2. /\ RowsInv' /\ GoodTask' = GoodTask /\ Issued' = Issued /\ Jobs' = Jobs
      /\ UNCHANGED <<upload, job, segments, aws, awsJobs, task>>
  BY SameRows DEF ClientPut, rows
<1>3. audio \subseteq audio' /\ audio' \subseteq Issued
  BY <1>1 DEF ClientPut, IInv, RowTypes
<1>4. RowTypes' /\ TasksInv' /\ AwsInv'
  BY <1>2, <1>3 DEF IInv, RowTypes, TasksInv, AwsInv
<1>5. AudioOrTranscript'
  BY <1>2, <1>3 DEF ClientPut, IInv, AudioOrTranscript
<1>6. MeetingTypes'
  BY <1>2, SameMeeting DEF ClientPut, rows
<1>7. ClientInv'
  <2>1. \/ client' = [client EXCEPT !.pc = "confirm", !.attempt = 1]
        \/ client' = ClientAttemptFailed
    BY DEF ClientPut
  <2>2. CASE client' = ClientAttemptFailed
    BY <2>2, ClientRecords DEF ClientInv
  <2>3. CASE client' = [client EXCEPT !.pc = "confirm", !.attempt = 1]
    BY <1>1, <1>2, <2>3, ClientRecords DEF ClientInv, ClientRecord
  <2> QED
    BY <2>1, <2>2, <2>3
<1> QED
  BY <1>2, <1>4, <1>5, <1>6, <1>7 DEF IInv

LEMMA ClientConfirmStep ==
  ASSUME IInv, ClientConfirm
  PROVE  IInv'
<1> DEFINE k == [Idle EXCEPT !.pc = "load", !.u = client.u]
<1>1. client.u \in Issued
  BY ClientRecords DEF ClientConfirm
<1>2. k \in GoodTask
  BY <1>1 DEF Idle, GoodTask, TaskRecord, OnUpload, OnJob, Merged, Anywhere, Issued
<1>3. task' \in [Tasks -> GoodTask]
  BY <1>2 DEF ClientConfirm, IInv, TasksInv
<1>4. Issued' = Issued
  BY DEF ClientConfirm, rows, Issued
<1>5. ClientInv'
  <2>1. client' = ClientNext \/ client' = [client EXCEPT !.pc = "confirming"]
    BY DEF ClientConfirm
  <2> QED
    BY <1>1, <1>4, <2>1, ClientRecords DEF ClientInv, ClientRecord
<1>6. MeetingTypes'
  BY <1>4, SameMeeting DEF ClientConfirm, rows
<1> QED
  BY <1>3, <1>5, <1>6, MeetingStep DEF ClientConfirm, rows

\* The three calls of complete().
LEMMA CompleteSteps ==
  ASSUME IInv, ClientEndMeeting \/ ClientContinueWithoutAudio \/ RecoverAbandonedRecording
  PROVE  IInv'
<1>1. \E skip, mark \in BOOLEAN : Complete(skip, mark)
  BY DEF ClientEndMeeting, ClientContinueWithoutAudio, RecoverAbandonedRecording
<1>2. meeting' \in Meetings /\ handlers' \subseteq HandlerRecord
  BY <1>1, MeetingIsTyped, CompleteIsTyped
<1>3. UNCHANGED <<upload, job, segments, external, result, generation, old, crashes, task>>
  BY DEF ClientEndMeeting, ClientContinueWithoutAudio, RecoverAbandonedRecording
<1>4. faults' = faults \/ Fault
  BY DEF ClientEndMeeting, ClientContinueWithoutAudio, RecoverAbandonedRecording
<1>5. MeetingTypes' /\ Issued' = Issued
  BY <1>2, <1>3, <1>4, MeetingRowStep
<1>6. ClientInv'
  BY <1>5, ClientRecords DEF ClientEndMeeting, ClientContinueWithoutAudio,
     RecoverAbandonedRecording, ClientInv, ClientRecord
<1>7. task' \in [Tasks -> GoodTask]
  BY <1>3 DEF IInv, TasksInv
<1> QED
  BY <1>3, <1>5, <1>6, <1>7, MeetingStep

-----------------------------------------------------------------------------
(* Result generation, the passing of time and the restart.                   *)

LEMMA FinishMeetingIsTyped ==
  ASSUME meeting \in Meetings, handlers \subseteq HandlerRecord, NEW h \in handlers,
         FinishMeeting(h)
  PROVE  /\ meeting' \in Meetings /\ handlers' \subseteq HandlerRecord
         /\ meeting'.status = "COMPLETED"
  BY DEF FinishMeeting, Meetings, HandlerRecord

LEMMA GenerationSteps ==
  ASSUME IInv, HandlerStep \/ GenerationStep \/ GenerationFails
  PROVE  IInv'
<1>1. UNCHANGED <<upload, job, segments, external, old, crashes, task, client>>
  BY DEF HandlerStep, GenerationStep, GenerationFails, HandleGeneratingPhase, FinishHandler,
         InsertResult, CompleteGenerated
<1>2. Issued' = Issued
  BY <1>1 DEF Issued
<1>3. faults' = faults \/ Fault
  BY DEF HandlerStep, GenerationStep, GenerationFails, HandleGeneratingPhase, FinishHandler,
         InsertResult, CompleteGenerated
<1>4. meeting' \in Meetings /\ handlers' \subseteq HandlerRecord
  <2>1. CASE HandlerStep
    <3>1. PICK h \in handlers : HandleGeneratingPhase(h) \/ FinishHandler(h)
      BY <2>1 DEF HandlerStep
    <3>2. CASE FinishMeeting(h)
      BY <3>2, MeetingIsTyped, FinishMeetingIsTyped
    <3>3. CASE ~FinishMeeting(h)
      <4>1. /\ UNCHANGED meeting
            /\ handlers' = (handlers \ {h}) \cup {[h EXCEPT !.pc = "wait"]}
        BY <3>1, <3>3 DEF HandleGeneratingPhase, FinishHandler
      <4> QED
        BY <4>1, MeetingIsTyped DEF HandlerRecord
    <3> QED
      BY <3>2, <3>3
  <2>2. CASE GenerationStep
    BY <2>2, MeetingIsTyped DEF GenerationStep, InsertResult, CompleteGenerated, Meetings
  <2>3. CASE GenerationFails
    BY <2>3, MeetingIsTyped DEF GenerationFails, HandlerRecord
  <2> QED
    BY <2>1, <2>2, <2>3
<1>5. /\ generation' \in [pc : {"idle", "llm", "complete"}, read : SUBSET Uploads]
      /\ result' \in [exists : BOOLEAN, read : SUBSET Uploads]
  <2>1. segments \in SUBSET Uploads
    BY DEF IInv, RowTypes, Jobs
  <2>2. /\ generation \in [pc : {"idle", "llm", "complete"}, read : SUBSET Uploads]
        /\ result \in [exists : BOOLEAN, read : SUBSET Uploads]
    BY DEF IInv, MeetingTypes
  <2>3. NoGeneration \in [pc : {"idle", "llm", "complete"}, read : SUBSET Uploads]
    BY DEF NoGeneration
  <2>4. CASE HandlerStep
    BY <2>1, <2>2, <2>4 DEF HandlerStep, HandleGeneratingPhase, FinishHandler
  <2>5. CASE GenerationStep
    <3>1. [exists |-> TRUE, read |-> generation.read] \in [exists : BOOLEAN, read : SUBSET Uploads]
      BY <2>2
    <3>2. [generation EXCEPT !.pc = "complete"]
              \in [pc : {"idle", "llm", "complete"}, read : SUBSET Uploads]
      BY <2>2
    <3>3. CASE InsertResult
      BY <2>2, <2>3, <3>1, <3>2, <3>3 DEF InsertResult
    <3>4. CASE CompleteGenerated
      BY <2>2, <2>3, <3>4 DEF CompleteGenerated
    <3> QED
      BY <2>5, <3>3, <3>4 DEF GenerationStep
  <2>6. CASE GenerationFails
    BY <2>2, <2>3, <2>6 DEF GenerationFails
  <2> QED
    BY <2>4, <2>5, <2>6
<1>6. MeetingTypes'
  BY <1>1, <1>2, <1>3, <1>4, <1>5, BoundsAssumption
  DEF IInv, MeetingTypes, Meetings, HandlerRecord, Fault
<1>7. ClientInv'
  BY <1>1, <1>2, SameClient
<1>8. task' \in [Tasks -> GoodTask]
  BY <1>1 DEF IInv, TasksInv
<1> QED
  BY <1>1, <1>6, <1>7, <1>8, MeetingStep

LEMMA TimeSteps ==
  ASSUME IInv, NEW u \in Uploads, UploadAges(u) \/ AwsFinishes(u)
  PROVE  IInv'
<1>1. /\ RowsInv' /\ GoodTask' = GoodTask /\ Issued' = Issued /\ Jobs' = Jobs
      /\ UNCHANGED <<upload, job, segments, audio, awsJobs, stored, task, client>>
  BY SameRows DEF UploadAges, AwsFinishes, rows, external, others
<1>2. aws' \in [Uploads -> {"none", "running", "completed", "failed"}]
  BY DEF UploadAges, AwsFinishes, external, IInv, RowTypes
<1>3. RowTypes' /\ TasksInv' /\ AwsInv' /\ AudioOrTranscript' /\ ClientInv'
  BY <1>1, <1>2 DEF IInv, RowTypes, TasksInv, AwsInv, AudioOrTranscript, ClientInv
<1>4. MeetingTypes'
  <2>1. old' \subseteq Issued
    BY DEF UploadAges, AwsFinishes, others, IInv, MeetingTypes
  <2> QED
    BY <1>1, <2>1 DEF UploadAges, AwsFinishes, rows, others, IInv, MeetingTypes
<1> QED
  BY <1>1, <1>3, <1>4 DEF IInv

LEMMA CrashStep ==
  ASSUME IInv, CrashAndRestart
  PROVE  IInv'
<1> DEFINE pending == {u \in Jobs : job[u].error = "pending"}
           running == {u \in Jobs \ pending : /\ job[u].status \in {"QUEUED", "PROCESSING"}
                                              /\ ~job[u].collected}
           next == [Idle EXCEPT !.pc = "next", !.todo = pending]
           gate == [Idle EXCEPT !.pc = "gate"]
<1>1. next \in GoodTask /\ gate \in GoodTask /\ Idle \in GoodTask
  BY DEF Idle, GoodTask, TaskRecord, OnUpload, OnJob, Merged, Anywhere, Jobs
<1>2. \A u \in running : PollTask(u, FALSE) \in GoodTask
  BY PollTaskIsGood
<1>3. \A t \in {Poller(u) : u \in running} : PollTask(t[2], FALSE) \in GoodTask
  <2>1. ASSUME NEW u \in running PROVE Poller(u)[2] = u
    BY DEF Poller
  <2> QED
    BY <1>2, <2>1
<1>4. task' \in [Tasks -> GoodTask]
  <2> DEFINE value(t) == CASE t = BootJobs /\ pending # {} -> next
                           [] t = BootGate /\ (\E u \in Jobs : job[u].collected) -> gate
                           [] t \in {Poller(u) : u \in running} -> PollTask(t[2], FALSE)
                           [] OTHER -> Idle
  <2>1. task' = [t \in Tasks |-> value(t)]
    BY DEF CrashAndRestart
  <2>2. ASSUME NEW t \in Tasks PROVE value(t) \in GoodTask
    <3>1. BootJobs # BootGate
      BY DEF BootJobs, BootGate
    <3>2. \A u \in Uploads : Poller(u) # BootJobs /\ Poller(u) # BootGate
      BY DEF Poller, BootJobs, BootGate
    <3>3. running \subseteq Uploads
      BY DEF Jobs
    <3> QED
      BY <1>1, <1>3, <3>1, <3>2, <3>3
  <2> QED
    BY <2>1, <2>2
<1>5. MeetingTypes'
  <2>1. crashes' \in 0..MaxCrashes
    <3>1. crashes \in 0..MaxCrashes /\ crashes < MaxCrashes /\ crashes' = crashes + 1
      BY DEF CrashAndRestart, IInv, MeetingTypes
    <3> QED
      BY <3>1, BoundsAssumption
  <2>2. /\ handlers' = {} /\ generation' = NoGeneration
        /\ UNCHANGED <<meeting, result, old, faults, upload>>
    BY DEF CrashAndRestart, rows
  <2> QED
    BY <2>1, <2>2 DEF IInv, MeetingTypes, NoGeneration, Issued
<1>6. ClientInv'
  BY DEF CrashAndRestart, rows, IInv, ClientInv, Issued
<1> QED
  BY <1>4, <1>5, <1>6, MeetingStep DEF CrashAndRestart, rows

LEMMA NextKeepsIInv == IInv /\ [Next]_vars => IInv'
<1> SUFFICES ASSUME IInv, [Next]_vars PROVE IInv'
  OBVIOUS
<1>1. CASE ClientEndMeeting \/ ClientContinueWithoutAudio \/ RecoverAbandonedRecording
  BY <1>1, CompleteSteps
<1>2. CASE ClientStep \/ ClientIssueFails \/ ClientRetry \/ ClientVanish
  BY <1>2, ClientIssueStep, ClientPutStep, ClientConfirmStep, ClientMovesOn DEF ClientStep
<1>3. CASE \E t \in Tasks : BackendStep(t) \/ BackendFault(t)
  BY <1>3, BackendStepKeepsIInv
<1>4. CASE HandlerStep \/ GenerationStep \/ GenerationFails
  BY <1>4, GenerationSteps
<1>5. CASE \E u \in Uploads : ReconcileUpload(u) \/ UploadAges(u) \/ AwsFinishes(u)
  BY <1>5, ReconcileStep, TimeSteps
<1>6. CASE RecoverMeeting
  BY <1>6, RecoverMeetingStep
<1>7. CASE CrashAndRestart
  BY <1>7, CrashStep
<1>8. CASE UNCHANGED vars
  <2>1. /\ UNCHANGED <<meeting, raised, upload, job, segments, result, external, task>>
        /\ UNCHANGED <<generation, handlers, client, old, faults, crashes>>
    BY <1>8 DEF vars, rows
  <2>2. MeetingTypes' /\ ClientInv'
    BY <2>1 DEF IInv, MeetingTypes, ClientInv, Issued
  <2>3. task' \in [Tasks -> GoodTask]
    BY <2>1 DEF IInv, TasksInv
  <2> QED
    BY <2>1, <2>2, <2>3, MeetingStep
<1> QED
  BY <1>1, <1>2, <1>3, <1>4, <1>5, <1>6, <1>7, <1>8 DEF Next, RecoveryScan

-----------------------------------------------------------------------------
(* What the minutes are made from. While nobody has been asked for attention, *)
(* the pipeline opens result generation only when a transcript is in the      *)
(* database or AWS has rejected an audio file: this is what a task at the     *)
(* gate, a 'generating' event, the running generation and the result know.    *)

\* AWS has rejected the audio of a job.
Rejected == \E u \in Jobs : aws[u] = "failed"

\* There is something to make minutes from, or a reason to have nothing.
Heard == segments # {} \/ Rejected

\* The recovery has given a job up that AWS has not; it asks for attention next.
GivenUp(u) == job[u].status = "FAILED" /\ job[u].error = "provider" /\ aws[u] # "failed"

JobsKnown ==
    /\ Jobs \subseteq Issued
    /\ \A u \in Jobs :
        /\ job[u].collected => u \in segments
        /\ job[u].status = "FAILED" =>
             job[u].error \in {"provider", "collection"} \/ aws[u] = "failed"

UploadsKnown ==
    /\ client.pc = "recording" => Issued = {}
    /\ \A u \in Issued : upload[u].session \in Sessions
    /\ generation.read \subseteq Jobs /\ result.read \subseteq Jobs

Opening == {"gate", "gateUploads", "emit"}

\* The recovery also tries the gate of a meeting none of whose jobs is stale.
TaskKnows(t, k) ==
    /\ k.pc = "saveJob" /\ k.status = "FAILED" => aws[k.u] = "failed"
    /\ k.pc = "recheck" => t = Recovery
    /\ ~raised /\ k.pc \in Opening =>
         \/ Heard
         \/ t = Recovery /\ k.pc = "gate" /\ \E u \in Jobs : ~GivenUp(u)

TasksKnow == \A t \in Tasks : TaskKnows(t, task[t])

FlowHeard ==
    ~raised =>
        /\ handlers # {} => Heard
        /\ generation.pc # "idle" => generation.read # {} \/ Rejected
        /\ result.exists => result.read # {} \/ Rejected

HeardInv == JobsKnown /\ UploadsKnown /\ TasksKnow /\ FlowHeard

LEMMA InitHeard == Init => HeardInv
<1> SUFFICES ASSUME Init PROVE HeardInv
  OBVIOUS
<1>1. Jobs = {} /\ Issued = {}
  BY DEF Init, Jobs, Issued, NoJob, NoUpload
<1>2. JobsKnown /\ UploadsKnown
  BY <1>1 DEF Init, JobsKnown, UploadsKnown, NoGeneration, NoResult
<1>3. TasksKnow
  BY DEF Init, TasksKnow, TaskKnows, Idle, Opening
<1>4. FlowHeard
  BY DEF Init, FlowHeard, NoGeneration, NoResult
<1> QED
  BY <1>2, <1>3, <1>4 DEF HeardInv

\* Nothing that was heard is unheard: no step takes a job, a segment, AWS's verdict or
\* the request for attention away.
Gains ==
    /\ Jobs \subseteq Jobs' /\ segments \subseteq segments'
    /\ \A u \in Uploads : aws[u] = "failed" => aws'[u] = "failed"
    /\ raised => raised'

\* No job is given up in this step.
NoneGivenUp == \A u \in Jobs : GivenUp(u)' => GivenUp(u)

LEMMA HeardStays ==
  ASSUME Gains
  PROVE  (Heard => Heard') /\ (Rejected => Rejected')
<1>1. Rejected => Rejected'
  BY DEF Gains, Rejected, Jobs
<1>2. segments # {} => segments' # {}
  BY DEF Gains
<1> QED
  BY <1>1, <1>2 DEF Heard

\* Nobody opens the gate on less than was heard: enough that this holds for the tasks
\* the step has changed.
LEMMA TasksKeepKnowing ==
  ASSUME IInv, TasksKnow, Gains, NoneGivenUp,
         \A t \in Tasks : task'[t] = task[t] \/ TaskKnows(t, task[t])'
  PROVE  TasksKnow'
<1> SUFFICES ASSUME NEW t \in Tasks, task'[t] = task[t] PROVE TaskKnows(t, task[t])'
  BY DEF TasksKnow
<1>1. TaskKnows(t, task[t]) /\ task[t] \in GoodTask
  BY DEF TasksKnow, IInv, TasksInv
<1>2. task[t].pc = "saveJob" /\ task[t].status = "FAILED" => aws'[task[t].u] = "failed"
  <2>1. task[t].pc = "saveJob" => task[t].u \in Uploads
    BY <1>1 DEF GoodTask, OnJob, Jobs
  <2> QED
    BY <1>1, <2>1 DEF TaskKnows, Gains
<1>3. task[t].pc = "recheck" => t = Recovery
  BY <1>1 DEF TaskKnows
<1>4. ASSUME ~raised', task[t].pc \in Opening
      PROVE  Heard' \/ (t = Recovery /\ task[t].pc = "gate" /\ \E u \in Jobs' : ~GivenUp(u)')
  <2>1. ~raised
    BY <1>4 DEF Gains
  <2>2. CASE Heard
    BY <2>2, HeardStays
  <2>3. CASE t = Recovery /\ task[t].pc = "gate" /\ \E u \in Jobs : ~GivenUp(u)
    BY <2>3 DEF NoneGivenUp, Gains
  <2> QED
    BY <1>1, <1>4, <2>1, <2>2, <2>3 DEF TaskKnows
<1> QED
  BY <1>2, <1>3, <1>4 DEF TaskKnows

\* A task at a point where it need not have heard anything.
LEMMA NothingToKnow ==
  ASSUME NEW t, task'[t].pc \notin Opening \cup {"saveJob", "recheck"}
  PROVE  TaskKnows(t, task[t])'
  BY DEF TaskKnows, Opening

LEMMA HeardToKnow ==
  ASSUME NEW t, task'[t].pc \in Opening, raised' \/ Heard'
  PROVE  TaskKnows(t, task[t])'
  BY DEF TaskKnows, Opening

\* A step of a backend task: the browser, the generation and the result wait.
LEMMA TaskStepHeard ==
  ASSUME IInv, HeardInv, Gains, NoneGivenUp, JobsKnown',
         UNCHANGED <<client, generation, result>>,
         Issued' = Issued, \A u \in Uploads : upload'[u].session = upload[u].session,
         handlers' = handlers \/ raised' \/ Heard',
         \A t \in Tasks : task'[t] = task[t] \/ TaskKnows(t, task[t])'
  PROVE  HeardInv'
<1>1. UploadsKnown'
  <2>1. Issued \subseteq Uploads /\ Jobs \subseteq Jobs'
    BY DEF Issued, Gains
  <2> QED
    BY <2>1 DEF HeardInv, UploadsKnown
<1>2. TasksKnow'
  BY TasksKeepKnowing DEF HeardInv
<1>3. FlowHeard'
  BY HeardStays DEF HeardInv, FlowHeard, Gains
<1> QED
  BY <1>1, <1>2, <1>3 DEF HeardInv

-----------------------------------------------------------------------------
(* Steps of the tasks.                                                       *)

Watchful == Opening \cup {"saveJob", "recheck"}

\* A task has moved to a point where it need not have heard anything, has finished ...
LEMMA TaskMovedOn ==
  ASSUME IInv, NEW t \in Tasks,
         task' = Finish(t) \/ \E p : p \notin Watchful /\ task' = Goto(t, p)
  PROVE  \A s \in Tasks : task'[s] = task[s] \/ TaskKnows(s, task[s])'
<1>0. task \in [Tasks -> TaskRecord]
  BY DEF IInv, TasksInv, GoodTask
<1>1. \A s \in Tasks \ {t} : task'[s] = task[s]
  BY <1>0 DEF Finish, Goto
<1>2. task'[t].pc \notin Watchful
  <2>1. CASE task' = Finish(t)
    BY <1>0, <2>1 DEF Finish, Finished, Idle, Watchful, Opening
  <2>2. ASSUME NEW p, p \notin Watchful, task' = Goto(t, p) PROVE task'[t].pc = p
    BY <1>0, <2>2 DEF Goto, TaskRecord
  <2> QED
    BY <2>1, <2>2
<1> QED
  BY <1>1, <1>2, NothingToKnow DEF Watchful

\* ... or goes on towards result generation.
LEMMA TaskMovedToGate ==
  ASSUME IInv, NEW t \in Tasks, NEW p \in Opening, task' = Goto(t, p), raised' \/ Heard'
  PROVE  \A s \in Tasks : task'[s] = task[s] \/ TaskKnows(s, task[s])'
<1>0. task \in [Tasks -> TaskRecord]
  BY DEF IInv, TasksInv, GoodTask
<1>1. \A s \in Tasks \ {t} : task'[s] = task[s]
  BY <1>0 DEF Goto
<1>2. task'[t].pc = p
  BY <1>0 DEF Goto, TaskRecord
<1> QED
  BY <1>1, <1>2, HeardToKnow

\* Starting a poller touches one task; it polls, or finds its job collected.
LEMMA PollingTouches ==
  ASSUME NEW G, NEW tasks \in [Tasks -> G], NEW u \in Uploads, NEW c \in BOOLEAN, NEW s \in Tasks
  PROVE  \/ StartPolling(tasks, u, c)[s] = tasks[s]
         \/ StartPolling(tasks, u, c)[s].pc = "poll"
         \/ c /\ StartPolling(tasks, u, c)[s].pc = "gate"
<1>1. \/ StartPolling(tasks, u, c)[s] = tasks[s]
      \/ StartPolling(tasks, u, c)[s] = PollTask(u, c)
  BY DEF StartPolling, Poller
<1>2. PollTask(u, c).pc = "poll" \/ (c /\ PollTask(u, c).pc = "gate")
  BY DEF PollTask, Idle
<1> QED
  BY <1>1, <1>2

\* Steps that leave every row alone.
LEMMA SameRowsHeard ==
  ASSUME IInv, HeardInv, UNCHANGED <<upload, job, segments, aws, raised>>
  PROVE  /\ Gains /\ NoneGivenUp /\ JobsKnown' /\ Issued' = Issued
         /\ (Heard' <=> Heard) /\ (Rejected' <=> Rejected) /\ Jobs' = Jobs
<1>1. Jobs' = Jobs /\ Issued' = Issued
  BY DEF Jobs, Issued
<1>2. Gains /\ NoneGivenUp
  BY <1>1 DEF Gains, NoneGivenUp, GivenUp
<1>3. JobsKnown'
  BY <1>1 DEF HeardInv, JobsKnown
<1>4. (Heard' <=> Heard) /\ (Rejected' <=> Rejected)
  BY <1>1 DEF Heard, Rejected
<1> QED
  BY <1>1, <1>2, <1>3, <1>4

\* An update of one job row.
LEMMA JobWriteHeard ==
  ASSUME IInv, HeardInv, UNCHANGED <<upload, segments, aws, raised>>,
         NEW u \in Issued, NEW row \in JobRow,
         job' = [job EXCEPT ![u] = row],
         row.collected => u \in segments,
         row.status = "FAILED" => row.error \in {"provider", "collection"} \/ aws[u] = "failed"
  PROVE  /\ Gains /\ JobsKnown' /\ Issued' = Issued
         /\ (row.status = "FAILED" /\ row.error = "provider" => aws[u] = "failed")
               => NoneGivenUp
         /\ \A v \in Uploads \ {u} : job'[v] = job[v]
<1>1. u \in Uploads /\ Issued' = Issued
  BY DEF Issued
<1>2. Jobs' = Jobs \cup {u} /\ job'[u] = row /\ \A v \in Uploads \ {u} : job'[v] = job[v]
  BY <1>1 DEF IInv, RowTypes, Jobs, JobRow
<1>3. Gains
  BY <1>2 DEF Gains
<1>4. JobsKnown'
  BY <1>1, <1>2 DEF HeardInv, JobsKnown, Jobs
<1>5. ASSUME row.status = "FAILED" /\ row.error = "provider" => aws[u] = "failed"
      PROVE  NoneGivenUp
  BY <1>2, <1>5 DEF NoneGivenUp, GivenUp, Jobs
<1> QED
  BY <1>1, <1>2, <1>3, <1>4, <1>5

\* Tasks that leave every row alone.
LEMMA QuietTaskHeard ==
  ASSUME IInv, HeardInv, UNCHANGED <<upload, job, segments, aws, raised, client, generation, result>>,
         handlers' = handlers \/ raised \/ Heard,
         \A t \in Tasks : task'[t] = task[t] \/ TaskKnows(t, task[t])'
  PROVE  HeardInv'
  BY SameRowsHeard, TaskStepHeard

LEMMA GateHeard ==
  ASSUME IInv, HeardInv, NEW t \in Tasks, GateReadsJobs(t) \/ GateReadsUploads(t)
  PROVE  HeardInv'
<1>1. UNCHANGED <<upload, job, segments, aws, raised, client, generation, result, handlers>>
  BY DEF GateReadsJobs, GateReadsUploads, rows, external, others
<1>2. CASE task' = Finish(t)
  BY <1>1, <1>2, TaskMovedOn, QuietTaskHeard
<1>3. CASE task' # Finish(t)
  <2>1. PICK p \in Opening : task' = Goto(t, p)
    BY <1>3 DEF GateReadsJobs, GateReadsUploads, Opening
  <2>2. task[t].pc \in Opening /\ (task[t].pc = "gate" => \A u \in Jobs : ~Unsettled(u))
    BY <1>3 DEF GateReadsJobs, GateReadsUploads, Opening
  <2>3. raised \/ Heard
    <3>1. SUFFICES ASSUME ~raised, task[t].pc = "gate", NEW u \in Jobs, ~GivenUp(u)
                   PROVE  Heard
      BY <2>2 DEF HeardInv, TasksKnow, TaskKnows
    <3>2. ~Unsettled(u) /\ job[u] \in JobRow
      BY <2>2, <3>1 DEF IInv, RowTypes, RowsInv, Jobs, JobRow
    <3>3. CASE job[u].status = "COMPLETED"
      BY <3>2, <3>3 DEF Unsettled, HeardInv, JobsKnown, Heard
    <3>4. CASE job[u].status = "FAILED"
      BY <3>1, <3>2, <3>4 DEF Unsettled, HeardInv, JobsKnown, GivenUp, Heard, Rejected
    <3> QED
      BY <3>2, <3>3, <3>4 DEF Unsettled, JobRow
  <2>4. raised' \/ Heard'
    BY <1>1, <2>3, SameRowsHeard
  <2> QED
    BY <1>1, <2>1, <2>4, TaskMovedToGate, QuietTaskHeard
<1> QED
  BY <1>2, <1>3

LEMMA EmitHeard ==
  ASSUME IInv, HeardInv, NEW t \in Tasks, EmitGeneratingPhase(t)
  PROVE  HeardInv'
<1>1. raised \/ Heard
  BY DEF EmitGeneratingPhase, HeardInv, TasksKnow, TaskKnows, Opening
<1>2. UNCHANGED <<upload, job, segments, aws, raised, client, generation, result>>
  BY DEF EmitGeneratingPhase, rows, external
<1>3. task' = Finish(t)
  BY DEF EmitGeneratingPhase
<1> QED
  BY <1>1, <1>2, <1>3, TaskMovedOn, QuietTaskHeard

LEMMA PollWindowHeard ==
  ASSUME IInv, HeardInv, NEW t \in Tasks, PollWindowExhausted(t)
  PROVE  HeardInv'
<1>1. UNCHANGED <<upload, job, segments, aws, raised, client, generation, result, handlers>>
  BY DEF PollWindowExhausted, rows, external, others
<1>2. task' = Finish(t)
  BY DEF PollWindowExhausted
<1> QED
  BY <1>1, <1>2, TaskMovedOn, QuietTaskHeard

LEMMA DeleteAudioHeard ==
  ASSUME IInv, HeardInv, NEW t \in Tasks, DeleteAudioFile(t)
  PROVE  HeardInv'
<1>1. UNCHANGED <<upload, job, segments, aws, raised, client, generation, result, handlers>>
  BY DEF DeleteAudioFile, rows, others
<1>2. segments # {}
  BY DEF DeleteAudioFile, IInv, TasksInv, GoodTask, Merged
<1>3. Heard'
  BY <1>1, <1>2 DEF Heard
<1>4. task' = Goto(t, "gate") /\ "gate" \in Opening
  BY DEF DeleteAudioFile, Opening
<1> QED
  BY <1>1, <1>3, <1>4, TaskMovedToGate, QuietTaskHeard

\* The two steps that ask for attention.
LEMMA AttentionHeard ==
  ASSUME IInv, HeardInv, NEW t \in Tasks,
         FinalizeAfterFailedTranscription(t) \/ RecoverMissingBatchJob(t)
  PROVE  HeardInv'
<1>1. /\ raised' = TRUE
      /\ UNCHANGED <<upload, job, segments, aws, client, generation, result, handlers>>
  BY DEF FinalizeAfterFailedTranscription, RecoverMissingBatchJob, MarkNeedsAttention,
         external, others
<1>2. Gains /\ NoneGivenUp /\ JobsKnown' /\ Issued' = Issued
  <2>1. Jobs' = Jobs /\ Issued' = Issued
    BY <1>1 DEF Jobs, Issued
  <2> QED
    BY <1>1, <2>1 DEF Gains, NoneGivenUp, GivenUp, HeardInv, JobsKnown
<1>3. \E p \in Opening : task' = Goto(t, p)
  BY DEF FinalizeAfterFailedTranscription, RecoverMissingBatchJob, Opening
<1> QED
  BY <1>1, <1>2, <1>3, TaskMovedToGate, TaskStepHeard

\* ResumePolling and StartPolling, from tasks among which only t has moved.
LEMMA PollingHeard ==
  ASSUME IInv, HeardInv, NEW t \in Tasks, NEW u \in Jobs,
         NEW G, NEW tasks \in [Tasks -> G],
         \A s \in Tasks \ {t} : tasks[s] = task[s],
         tasks[t].pc \notin Watchful,
         \/ task' = StartPolling(tasks, u, job[u].collected)
         \/ task' = StartPolling(tasks, u, FALSE)
         \/ task' = tasks,
         Gains
  PROVE  \A s \in Tasks : task'[s] = task[s] \/ TaskKnows(s, task[s])'
<1> SUFFICES ASSUME NEW s \in Tasks, task'[s] # task[s] PROVE TaskKnows(s, task[s])'
  OBVIOUS
<1>1. u \in Uploads /\ job[u].collected \in BOOLEAN
  BY DEF IInv, RowTypes, Jobs
<1>2. \/ task'[s] = tasks[s] \/ task'[s].pc = "poll"
      \/ job[u].collected /\ task'[s].pc = "gate"
  <2>1. CASE task' = StartPolling(tasks, u, job[u].collected)
    BY <1>1, <2>1, PollingTouches
  <2>2. CASE task' = StartPolling(tasks, u, FALSE)
    BY <1>1, <2>2 DEF StartPolling, Poller, PollTask, Idle
  <2> QED
    BY <2>1, <2>2
<1>3. CASE task'[s] = tasks[s] \/ task'[s].pc = "poll"
  <2>1. task'[s].pc \notin Watchful
    BY <1>3 DEF Watchful, Opening
  <2> QED
    BY <2>1, NothingToKnow DEF Watchful
<1>4. CASE job[u].collected /\ task'[s].pc = "gate"
  <2>1. Heard
    BY <1>4 DEF HeardInv, JobsKnown, Heard
  <2> QED
    BY <1>4, <2>1, HeardStays, HeardToKnow DEF Opening
<1> QED
  BY <1>2, <1>3, <1>4

LEMMA VisitJobHeard ==
  ASSUME IInv, HeardInv, NEW t \in Tasks, VisitJob(t)
  PROVE  HeardInv'
<1>0. task \in [Tasks -> GoodTask] /\ task[t].todo \subseteq Jobs
  BY TaskMovesOn DEF GoodTask
<1>1. UNCHANGED <<upload, job, segments, aws, raised, client, generation, result, handlers>>
  BY DEF VisitJob, rows, external, others
<1>2. Gains
  BY <1>1, SameRowsHeard
<1> PICK u \in task[t].todo :
      LET rest == task[t].todo \ {u}
          visit(pc) == [task EXCEPT ![t] = [Idle EXCEPT !.pc = pc, !.u = u, !.todo = rest]]
      IN  task' = IF job[u].error = "pending" THEN visit("submit")
                  ELSE IF t = Recovery THEN visit("recheck")
                  ELSE ResumePolling([task EXCEPT ![t] = Finished(rest)], u)
  BY DEF VisitJob
<1> DEFINE rest == task[t].todo \ {u}
           visit(p) == [task EXCEPT ![t] = [Idle EXCEPT !.pc = p, !.u = u, !.todo = rest]]
           done == [task EXCEPT ![t] = Finished(rest)]
<1>3. CASE task' = visit("submit") \/ (t = Recovery /\ task' = visit("recheck"))
  <2>1. \A s \in Tasks \ {t} : task'[s] = task[s]
    BY <1>0, <1>3
  <2>2. TaskKnows(t, task[t])'
    BY <1>0, <1>3 DEF TaskKnows, Opening, Idle
  <2> QED
    BY <1>1, <2>1, <2>2, QuietTaskHeard
<1>4. CASE task' = ResumePolling(done, u)
  <2>1. done \in [Tasks -> GoodTask]
    BY <1>0, FinishedIsGood
  <2>2. /\ \A s \in Tasks \ {t} : done[s] = task[s]
        /\ done[t].pc \notin Watchful
    BY <1>0 DEF Finished, Idle, Watchful, Opening
  <2>3. task' = StartPolling(done, u, job[u].collected) \/ task' = done
    BY <1>4 DEF ResumePolling
  <2> HIDE DEF done
  <2>4. \A s \in Tasks : task'[s] = task[s] \/ TaskKnows(s, task[s])'
    BY <1>0, <1>2, <2>1, <2>2, <2>3, PollingHeard
  <2> QED
    BY <1>1, <2>4, QuietTaskHeard
<1> QED
  BY <1>3, <1>4

-----------------------------------------------------------------------------
(* Steps of the tasks that write the rows.                                   *)

LEMMA QueueBatchJobHeard ==
  ASSUME IInv, HeardInv, NEW t \in Tasks, QueueBatchJob(t)
  PROVE  HeardInv'
<1> DEFINE u == task[t].u
           row == [status |-> "QUEUED", error |-> "pending",
                   collected |-> FALSE, providerJobId |-> 1]
<1>0. /\ UNCHANGED <<upload, segments, aws, raised, client, generation, result, handlers>>
      /\ u \in Issued /\ u \in Uploads
  BY TaskMovesOn DEF QueueBatchJob, external, others, GoodTask, OnUpload, Issued
<1>1. CASE job[u] = NoJob
  <2>1. row \in JobRow
    BY DEF JobRow
  <2>2. job' = [job EXCEPT ![u] = row] /\ task' = Goto(t, "submit")
    BY <1>1 DEF QueueBatchJob
  <2>3. Gains /\ JobsKnown' /\ Issued' = Issued /\ NoneGivenUp
    BY <1>0, <2>1, <2>2, JobWriteHeard
  <2>4. "submit" \notin Watchful
    BY DEF Watchful, Opening
  <2> QED
    BY <1>0, <2>2, <2>3, <2>4, TaskMovedOn, TaskStepHeard
<1>2. CASE job[u] # NoJob
  <2>1. u \in Jobs /\ UNCHANGED job
    BY <1>0, <1>2 DEF QueueBatchJob, IInv, RowsInv, Jobs
  <2>2. Gains
    BY <1>0, <2>1, SameRowsHeard
  <2>3. CASE task' = Goto(t, "submit")
    <3>1. "submit" \notin Watchful
      BY DEF Watchful, Opening
    <3> QED
      BY <1>0, <2>1, <2>3, <3>1, TaskMovedOn, QuietTaskHeard
  <2>4. CASE task' = ResumePolling(Goto(t, "link"), u)
    <3> DEFINE tasks == Goto(t, "link")
    <3>1. tasks \in [Tasks -> TaskRecord]
      BY DEF IInv, TasksInv, GoodTask, Goto, TaskRecord, OnJob
    <3>2. /\ \A s \in Tasks \ {t} : tasks[s] = task[s]
          /\ tasks[t].pc \notin Watchful
      BY DEF IInv, TasksInv, GoodTask, Goto, TaskRecord, Watchful, Opening
    <3>3. task' = StartPolling(tasks, u, job[u].collected) \/ task' = tasks
      BY <2>4 DEF ResumePolling
    <3> HIDE DEF tasks
    <3>4. \A s \in Tasks : task'[s] = task[s] \/ TaskKnows(s, task[s])'
      BY <2>1, <2>2, <3>1, <3>2, <3>3, PollingHeard
    <3> QED
      BY <1>0, <2>1, <3>4, QuietTaskHeard
  <2> QED
    BY <1>2, <2>3, <2>4 DEF QueueBatchJob
<1> QED
  BY <1>1, <1>2

LEMMA SaveSubmittedJobHeard ==
  ASSUME IInv, HeardInv, NEW t \in Tasks, SaveSubmittedJob(t)
  PROVE  HeardInv'
<1> DEFINE u == task[t].u
           row == [job[u] EXCEPT !.status = task[t].status, !.error = "none", !.collected = FALSE]
           rest == IF task[t].link THEN [task EXCEPT ![t].pc = "link", ![t].status = "none"]
                   ELSE Finish(t)
<1>0. task[t] \in GoodTask /\ task[t].pc = "saveJob" /\ task \in [Tasks -> TaskRecord]
  BY TaskMovesOn DEF SaveSubmittedJob, GoodTask
<1>1. u \in Jobs /\ u \in Issued /\ job[u] \in JobRow
  BY <1>0, AtJob DEF OnJob, HeardInv, JobsKnown
<1>2. UNCHANGED <<upload, segments, aws, raised, client, generation, result, handlers>>
  BY DEF SaveSubmittedJob, external, others
<1>3. /\ row \in JobRow /\ ~row.collected /\ row.error = "none"
      /\ row.status = "FAILED" => aws[u] = "failed"
  BY <1>0, <1>1 DEF JobRow, GoodTask, TaskRecord, HeardInv, TasksKnow, TaskKnows
<1>4. job' = [job EXCEPT ![u] = row]
  BY <1>1 DEF SaveSubmittedJob, IInv, RowTypes, Jobs
<1> HIDE DEF row
<1>5. Gains /\ JobsKnown' /\ Issued' = Issued /\ NoneGivenUp
  BY <1>1, <1>2, <1>3, <1>4, JobWriteHeard
<1>6. /\ rest \in [Tasks -> TaskRecord]
      /\ \A s \in Tasks \ {t} : rest[s] = task[s]
      /\ rest[t].pc \notin Watchful
  <2>1. CASE task[t].link
    <3> DEFINE k == [task[t] EXCEPT !.pc = "link", !.status = "none"]
    <3>1. k \in TaskRecord /\ k.pc \notin Watchful
      BY <1>0 DEF TaskRecord, OnJob, Watchful, Opening
    <3>2. rest = [task EXCEPT ![t] = k]
      BY <1>0, <2>1
    <3> HIDE DEF k, rest
    <3> QED
      BY <1>0, <3>1, <3>2
  <2>2. CASE ~task[t].link
    <3>1. Finished(task[t].todo) \in TaskRecord /\ Finished(task[t].todo).pc \notin Watchful
      BY <1>0 DEF Finished, Idle, TaskRecord, Anywhere, Watchful, Opening
    <3> QED
      BY <1>0, <2>2, <3>1 DEF Finish
  <2> QED
    BY <2>1, <2>2
<1>7. task' = StartPolling(rest, u, FALSE)
  BY DEF SaveSubmittedJob
<1> HIDE DEF rest, u
<1>8. \A s \in Tasks : task'[s] = task[s] \/ TaskKnows(s, task[s])'
  BY <1>1, <1>5, <1>6, <1>7, PollingHeard
<1> QED
  BY <1>2, <1>5, <1>8, TaskStepHeard

LEMMA PollJobHeard ==
  ASSUME IInv, HeardInv, NEW t \in Tasks, PollJob(t)
  PROVE  HeardInv'
<1> DEFINE u == task[t].u
           answer == ProviderStatus(aws[u])
           row == [job[u] EXCEPT !.status = answer,
                                 !.error = IF answer = "FAILED" THEN "provider" ELSE @]
<1>0. task[t].pc \in {"poll", "recheck"} /\ task \in [Tasks -> TaskRecord]
  BY TaskMovesOn DEF PollJob, GoodTask
<1>1. u \in Jobs /\ u \in Issued /\ job[u] \in JobRow
  BY <1>0, AtJob DEF OnJob, HeardInv, JobsKnown
<1>2. UNCHANGED <<upload, segments, aws, raised, client, generation, result, handlers>>
  BY DEF PollJob, external, others
<1>3. /\ answer \in {"PROCESSING", "COMPLETED", "FAILED"}
      /\ answer = "FAILED" => aws[u] = "failed"
  BY <1>1 DEF IInv, RowTypes, ProviderStatus, Jobs
<1> HIDE DEF answer
<1>4. /\ row \in JobRow /\ row.collected = job[u].collected
      /\ row.status = "FAILED" => aws[u] = "failed"
  BY <1>1, <1>3 DEF JobRow
<1>5. job' = [job EXCEPT ![u] = row]
  BY <1>1 DEF PollJob, IInv, RowTypes, Jobs, answer
<1>6. row.collected => u \in segments
  BY <1>1, <1>4 DEF HeardInv, JobsKnown
<1> HIDE DEF row
<1>7. Gains /\ JobsKnown' /\ Issued' = Issued /\ NoneGivenUp
  BY <1>1, <1>2, <1>4, <1>5, <1>6, JobWriteHeard
<1>8. \A s \in Tasks : task'[s] = task[s] \/ TaskKnows(s, task[s])'
  <2>1. CASE UNCHANGED task
    BY <2>1
  <2>2. CASE task' = Goto(t, "collect") \/ task' = Goto(t, "attention")
    <3>1. "collect" \notin Watchful /\ "attention" \notin Watchful
      BY DEF Watchful, Opening
    <3> QED
      BY <2>2, <3>1, TaskMovedOn
  <2>3. CASE task' = StartPolling(Finish(t), u, job[u].collected)
    <3> DEFINE tasks == Finish(t)
    <3>1. /\ tasks \in [Tasks -> TaskRecord]
          /\ \A s \in Tasks \ {t} : tasks[s] = task[s]
          /\ tasks[t].pc \notin Watchful
      <4>1. Finished(task[t].todo) \in TaskRecord /\ Finished(task[t].todo).pc \notin Watchful
        BY <1>0 DEF Finished, Idle, TaskRecord, Anywhere, Watchful, Opening
      <4> QED
        BY <1>0, <4>1 DEF Finish
    <3>2. task' = StartPolling(tasks, u, job[u].collected)
      BY <2>3
    <3> HIDE DEF tasks, u
    <3> QED
      BY <1>1, <1>7, <3>1, <3>2, PollingHeard
  <2> QED
    BY <1>3, <2>1, <2>2, <2>3 DEF PollJob, answer
<1> QED
  BY <1>2, <1>7, <1>8, TaskStepHeard

LEMMA SaveCollectedJobHeard ==
  ASSUME IInv, HeardInv, NEW t \in Tasks, SaveCollectedJob(t)
  PROVE  HeardInv'
<1> DEFINE u == task[t].u
           row == [job[u] EXCEPT !.status = "COMPLETED", !.error = "none", !.collected = TRUE]
<1>1. /\ u \in Jobs /\ u \in Issued /\ job[u] \in JobRow
      /\ u \in segments
  BY AtJob, TaskMovesOn DEF SaveCollectedJob, OnJob, Merged, GoodTask, HeardInv, JobsKnown
<1>2. UNCHANGED <<upload, segments, aws, raised, client, generation, result, handlers>>
  BY DEF SaveCollectedJob, external, others
<1>3. row \in JobRow /\ row.status = "COMPLETED"
  BY <1>1 DEF JobRow
<1>4. job' = [job EXCEPT ![u] = row]
  BY <1>1 DEF SaveCollectedJob, IInv, RowTypes, Jobs
<1> HIDE DEF row
<1>5. Gains /\ JobsKnown' /\ Issued' = Issued /\ NoneGivenUp
  BY <1>1, <1>2, <1>3, <1>4, JobWriteHeard
<1>6. task' = Goto(t, "deleteAudio") /\ "deleteAudio" \notin Watchful
  BY DEF SaveCollectedJob, Watchful, Opening
<1> QED
  BY <1>2, <1>5, <1>6, TaskMovedOn, TaskStepHeard

LEMMA CollectionFailsHeard ==
  ASSUME IInv, HeardInv, NEW t \in Tasks, CollectionFails(t)
  PROVE  HeardInv'
<1> DEFINE u == task[t].u
           row == [job[u] EXCEPT !.status = "FAILED", !.error = "collection"]
<1>1. u \in Jobs /\ u \in Issued /\ job[u] \in JobRow /\ ~job[u].collected
  BY AtJob DEF CollectionFails, OnJob, HeardInv, JobsKnown
<1>2. UNCHANGED <<upload, segments, aws, raised, client, generation, result, handlers>>
  BY DEF CollectionFails, external, others
<1>3. row \in JobRow /\ row.error = "collection" /\ ~row.collected
  BY <1>1 DEF JobRow
<1>4. job' = [job EXCEPT ![u] = row]
  BY <1>1 DEF CollectionFails, IInv, RowTypes, Jobs
<1> HIDE DEF row
<1>5. Gains /\ JobsKnown' /\ Issued' = Issued /\ NoneGivenUp
  BY <1>1, <1>2, <1>3, <1>4, JobWriteHeard
<1>6. task' = Finish(t)
  BY DEF CollectionFails
<1> QED
  BY <1>2, <1>5, <1>6, TaskMovedOn, TaskStepHeard

\* The recovery gives a job up only after it has left the gate, and asks for attention next.
LEMMA RecheckHeard ==
  ASSUME IInv, HeardInv, NEW t \in Tasks, RecheckWithoutEnd(t)
  PROVE  HeardInv'
<1> DEFINE u == task[t].u
           row == [job[u] EXCEPT !.status = "FAILED", !.error = "provider"]
<1>0. /\ task[t].pc = "recheck" /\ t = Recovery
      /\ task \in [Tasks -> TaskRecord]
  BY TaskMovesOn DEF RecheckWithoutEnd, GoodTask, HeardInv, TasksKnow, TaskKnows
<1>1. u \in Jobs /\ u \in Issued /\ job[u] \in JobRow
  BY <1>0, AtJob DEF OnJob, HeardInv, JobsKnown
<1>2. UNCHANGED <<upload, segments, aws, raised, client, generation, result, handlers>>
  BY DEF RecheckWithoutEnd, external, others
<1>3. CASE UNCHANGED job /\ task' = StartPolling(Finish(t), u, job[u].collected)
  <2> DEFINE tasks == Finish(t)
  <2>1. /\ tasks \in [Tasks -> TaskRecord]
        /\ \A s \in Tasks \ {t} : tasks[s] = task[s]
        /\ tasks[t].pc \notin Watchful
    <3>1. Finished(task[t].todo) \in TaskRecord /\ Finished(task[t].todo).pc \notin Watchful
      BY <1>0 DEF Finished, Idle, TaskRecord, Anywhere, Watchful, Opening
    <3> QED
      BY <1>0, <3>1 DEF Finish
  <2>2. task' = StartPolling(tasks, u, job[u].collected)
    BY <1>3
  <2>3. Gains
    BY <1>2, <1>3, SameRowsHeard
  <2> HIDE DEF tasks, u
  <2>4. \A s \in Tasks : task'[s] = task[s] \/ TaskKnows(s, task[s])'
    BY <1>1, <2>1, <2>2, <2>3, PollingHeard
  <2> QED
    BY <1>2, <1>3, <2>4, QuietTaskHeard
<1>4. CASE /\ job[u].collected \/ job[u].status = "COMPLETED"
           /\ task' = Goto(t, "gate") /\ UNCHANGED job
  <2>1. /\ \A s \in Tasks \ {t} : task'[s] = task[s]
        /\ task'[t].pc = "gate"
    BY <1>0, <1>4 DEF Goto, TaskRecord
  <2>2. Heard \/ \E v \in Jobs : ~GivenUp(v)
    BY <1>1, <1>4 DEF HeardInv, JobsKnown, Heard, GivenUp
  <2>3. Heard => Heard'
    BY <1>2, <1>4, SameRowsHeard
  <2>4. Heard' \/ \E v \in Jobs' : ~GivenUp(v)'
    <3>1. ASSUME NEW v \in Jobs, ~GivenUp(v) PROVE v \in Jobs' /\ ~GivenUp(v)'
      BY <1>2, <1>4, <3>1 DEF GivenUp, Jobs
    <3> QED
      BY <2>2, <2>3, <3>1
  <2>5. TaskKnows(t, task[t])'
    BY <1>0, <2>1, <2>4 DEF TaskKnows
  <2> QED
    BY <1>2, <1>4, <2>1, <2>5, QuietTaskHeard
<1>5. CASE /\ ~job[u].collected
           /\ job' = [job EXCEPT ![u].status = "FAILED", ![u].error = "provider"]
           /\ task' = Goto(t, "attention")
  <2>1. row \in JobRow /\ ~row.collected /\ row.error = "provider"
    BY <1>1, <1>5 DEF JobRow
  <2>2. job' = [job EXCEPT ![u] = row]
    BY <1>1, <1>5 DEF IInv, RowTypes, Jobs
  <2> HIDE DEF row
  <2>3. Gains /\ JobsKnown' /\ Issued' = Issued
    BY <1>1, <1>2, <2>1, <2>2, JobWriteHeard
  <2>4. /\ \A s \in Tasks \ {t} : task'[s] = task[s]
        /\ task'[t].pc = "attention"
    BY <1>0, <1>5 DEF Goto, TaskRecord
  <2>5. TasksKnow'
    <3>1. TaskKnows(t, task[t])'
      BY <2>4, NothingToKnow DEF Opening
    <3>2. ASSUME NEW s \in Tasks \ {t} PROVE TaskKnows(s, task[s])'
      <4>1. TaskKnows(s, task[s]) /\ s # Recovery /\ task'[s] = task[s]
        BY <1>0, <2>4 DEF HeardInv, TasksKnow
      <4>2. ~raised' /\ task'[s].pc \in Opening => Heard'
        BY <1>2, <2>3, <4>1, HeardStays DEF TaskKnows
      <4> QED
        BY <1>2, <4>1, <4>2 DEF TaskKnows
    <3> QED
      BY <3>1, <3>2 DEF TasksKnow
  <2>6. UploadsKnown' /\ FlowHeard'
    <3>1. Jobs \subseteq Jobs'
      BY <2>3 DEF Gains
    <3> QED
      BY <1>2, <2>3, <3>1, HeardStays DEF HeardInv, UploadsKnown, FlowHeard
  <2> QED
    BY <2>3, <2>5, <2>6 DEF HeardInv
<1> QED
  BY <1>3, <1>4, <1>5 DEF RecheckWithoutEnd

LEMMA CollectSegmentsHeard ==
  ASSUME IInv, HeardInv, NEW t \in Tasks, CollectSegments(t)
  PROVE  HeardInv'
<1> DEFINE u == task[t].u
<1>0. task[t].pc = "collect" /\ task \in [Tasks -> TaskRecord]
  BY TaskMovesOn DEF CollectSegments, GoodTask
<1>1. u \in Jobs
  BY <1>0, AtJob DEF OnJob
<1>2. UNCHANGED <<upload, job, aws, raised, client, generation, result, handlers>>
  BY DEF CollectSegments, external, others
<1>3. Jobs' = Jobs /\ Issued' = Issued /\ segments \subseteq segments'
  BY <1>2 DEF CollectSegments, Jobs, Issued
<1>4. Gains /\ NoneGivenUp /\ JobsKnown'
  BY <1>2, <1>3 DEF Gains, NoneGivenUp, GivenUp, HeardInv, JobsKnown
<1>5. \A s \in Tasks \ {t} : task'[s] = task[s]
  BY <1>0 DEF CollectSegments
<1>6. TaskKnows(t, task[t])'
  <2>1. CASE job[u].collected
    <3>1. Heard'
      BY <1>1, <1>4, <2>1, HeardStays DEF HeardInv, JobsKnown, Heard
    <3>2. task'[t].pc = "gate"
      BY <1>0, <2>1 DEF CollectSegments, TaskRecord
    <3> QED
      BY <3>1, <3>2, HeardToKnow DEF Opening
  <2>2. CASE ~job[u].collected
    <3>1. task'[t].pc = "saveCollected"
      BY <1>0, <2>2 DEF CollectSegments, TaskRecord
    <3> QED
      BY <3>1, NothingToKnow DEF Opening
  <2> QED
    BY <2>1, <2>2
<1> QED
  BY <1>2, <1>3, <1>4, <1>5, <1>6, TaskStepHeard

\* An issued upload changes its status or its reference to the job.
LEMMA UploadWriteHeard ==
  ASSUME IInv, HeardInv, UNCHANGED <<job, segments, aws, raised>>,
         NEW u \in Issued, NEW row \in UploadRow,
         row.session = upload[u].session, upload' = [upload EXCEPT ![u] = row]
  PROVE  /\ Gains /\ NoneGivenUp /\ JobsKnown' /\ Issued' = Issued
         /\ \A v \in Uploads : upload'[v].session = upload[v].session
<1>1. Issued' = Issued /\ Jobs' = Jobs
  BY DEF IInv, RowTypes, Issued, Jobs, UploadRow
<1>2. Gains /\ NoneGivenUp /\ JobsKnown'
  BY <1>1 DEF Gains, NoneGivenUp, GivenUp, HeardInv, JobsKnown
<1>3. \A v \in Uploads : upload'[v].session = upload[v].session
  BY DEF IInv, RowTypes
<1> QED
  BY <1>1, <1>2, <1>3

LEMMA LinkUploadHeard ==
  ASSUME IInv, HeardInv, NEW t \in Tasks, LinkUpload(t)
  PROVE  HeardInv'
<1> DEFINE u == task[t].u
           row == [upload[u] EXCEPT !.status = "JOB_QUEUED", !.job = TRUE]
<1>1. u \in Issued /\ u \in Uploads
  BY AtJob DEF LinkUpload, OnJob, HeardInv, JobsKnown
<1>2. row \in UploadRow /\ row.session = upload[u].session
  BY <1>1, UploadRows DEF UploadRow
<1>3. upload' = [upload EXCEPT ![u] = row]
  BY <1>1 DEF LinkUpload, IInv, RowTypes
<1>4. UNCHANGED <<job, segments, aws, raised, client, generation, result, handlers>>
  BY DEF LinkUpload, external, others
<1> HIDE DEF row
<1>5. /\ Gains /\ NoneGivenUp /\ JobsKnown' /\ Issued' = Issued
      /\ \A v \in Uploads : upload'[v].session = upload[v].session
  BY <1>1, <1>2, <1>3, <1>4, UploadWriteHeard
<1>6. task' = Finish(t)
  BY DEF LinkUpload
<1> QED
  BY <1>4, <1>5, <1>6, TaskMovedOn, TaskStepHeard

LEMMA StatusWriteHeard ==
  ASSUME IInv, HeardInv, UNCHANGED <<job, segments, aws, raised>>,
         NEW u \in Issued, NEW s \in {"UPLOADED", "FAILED"},
         upload' = upload \/ upload' = [upload EXCEPT ![u].status = s]
  PROVE  /\ Gains /\ NoneGivenUp /\ JobsKnown' /\ Issued' = Issued
         /\ \A v \in Uploads : upload'[v].session = upload[v].session
<1> DEFINE row == [upload[u] EXCEPT !.status = s]
<1>0. u \in Uploads
  BY DEF Issued
<1>1. row \in UploadRow /\ row.session = upload[u].session
  BY <1>0, UploadRows DEF UploadRow
<1>2. CASE upload' = [upload EXCEPT ![u].status = s]
  <2>1. upload' = [upload EXCEPT ![u] = row]
    BY <1>0, <1>2 DEF IInv, RowTypes
  <2> HIDE DEF row
  <2> QED
    BY <1>1, <2>1, UploadWriteHeard
<1>3. CASE upload' = upload
  BY <1>3, SameRowsHeard
<1> QED
  BY <1>2, <1>3

LEMMA SubmitFailsHeard ==
  ASSUME IInv, HeardInv, NEW t \in Tasks, SubmitFails(t)
  PROVE  HeardInv'
<1>1. task[t].u \in Issued
  BY AtJob DEF SubmitFails, OnJob, HeardInv, JobsKnown
<1>2. UNCHANGED <<job, segments, aws, raised, client, generation, result, handlers>>
  BY DEF SubmitFails, external, others
<1>3. upload' = upload \/ upload' = [upload EXCEPT ![task[t].u].status = "FAILED"]
  BY DEF SubmitFails
<1>4. /\ Gains /\ NoneGivenUp /\ JobsKnown' /\ Issued' = Issued
      /\ \A v \in Uploads : upload'[v].session = upload[v].session
  BY <1>1, <1>2, <1>3, StatusWriteHeard
<1>5. \A s \in Tasks : task'[s] = task[s] \/ TaskKnows(s, task[s])'
  <2>1. CASE t # Recovery
    <3>1. task' = Finish(t)
      BY <2>1 DEF SubmitFails
    <3> QED
      BY <3>1, TaskMovedOn
  <2>2. CASE t = Recovery
    <3>1. task \in [Tasks -> TaskRecord]
      BY TaskMovesOn DEF GoodTask
    <3>2. /\ \A s \in Tasks \ {t} : task'[s] = task[s]
          /\ task'[t].pc \in {"missing", "idle"}
      BY <2>2, <3>1 DEF SubmitFails, Idle
    <3> QED
      BY <3>2, NothingToKnow DEF Opening
  <2> QED
    BY <2>1, <2>2
<1> QED
  BY <1>2, <1>4, <1>5, TaskStepHeard

LEMMA ProcessBatchUploadHeard ==
  ASSUME IInv, HeardInv, NEW t \in Tasks, ProcessBatchUpload(t)
  PROVE  HeardInv'
<1> DEFINE u == task[t].u
<1>0. /\ task \in [Tasks -> TaskRecord] /\ u \in Issued /\ u \in Uploads
      /\ upload[u].job => u \in Jobs
  BY TaskMovesOn DEF ProcessBatchUpload, GoodTask, OnUpload, Issued, IInv, RowsInv
<1>1. UNCHANGED <<job, segments, aws, raised, client, generation, result, handlers>>
  BY DEF ProcessBatchUpload, external, others
<1>2. \/ upload' = upload
      \/ upload' = [upload EXCEPT ![u].status = "UPLOADED"]
      \/ upload' = [upload EXCEPT ![u].status = "FAILED"]
  BY DEF ProcessBatchUpload, MissingObject
<1>3. /\ Gains /\ NoneGivenUp /\ JobsKnown' /\ Issued' = Issued
      /\ \A v \in Uploads : upload'[v].session = upload[v].session
  BY <1>0, <1>1, <1>2, StatusWriteHeard
<1>4. \A s \in Tasks : task'[s] = task[s] \/ TaskKnows(s, task[s])'
  <2>1. CASE upload[u].job /\ job[u].error # "pending"
    <3> DEFINE tasks == Finish(t)
    <3>1. /\ tasks \in [Tasks -> TaskRecord]
          /\ \A s \in Tasks \ {t} : tasks[s] = task[s]
          /\ tasks[t].pc \notin Watchful
      <4>1. Finished(task[t].todo) \in TaskRecord /\ Finished(task[t].todo).pc \notin Watchful
        BY <1>0 DEF Finished, Idle, TaskRecord, Anywhere, Watchful, Opening
      <4> QED
        BY <1>0, <4>1 DEF Finish
    <3>2. task' = StartPolling(tasks, u, job[u].collected) \/ task' = tasks
      BY <2>1 DEF ProcessBatchUpload, ResumePolling
    <3> HIDE DEF tasks, u
    <3> QED
      BY <1>0, <1>3, <2>1, <3>1, <3>2, PollingHeard
  <2>2. CASE ~(upload[u].job /\ job[u].error # "pending")
    <3>1. /\ \A s \in Tasks \ {t} : task'[s] = task[s]
          /\ task'[t].pc \notin Watchful
      <4>1. CASE upload[u].job
        BY <1>0, <2>2, <4>1 DEF ProcessBatchUpload, TaskRecord, Watchful, Opening
      <4>2. CASE ~upload[u].job /\ u \in audio
        BY <1>0, <4>2 DEF ProcessBatchUpload, TaskRecord, Watchful, Opening
      <4>3. CASE ~upload[u].job /\ u \notin audio
        <5>1. task' = (IF t = Recovery THEN [task EXCEPT ![t] = [Idle EXCEPT !.pc = "missing"]]
                       ELSE Finish(t))
          BY <4>3 DEF ProcessBatchUpload, MissingObject
        <5>2. CASE t = Recovery
          BY <1>0, <5>1, <5>2 DEF Idle, Watchful, Opening
        <5>3. CASE t # Recovery
          BY <1>0, <5>1, <5>3 DEF Finish, Finished, Idle, Watchful, Opening
        <5> QED
          BY <5>2, <5>3
      <4> QED
        BY <4>1, <4>2, <4>3
    <3> QED
      BY <3>1, NothingToKnow DEF Watchful
  <2> QED
    BY <2>1, <2>2
<1> QED
  BY <1>1, <1>3, <1>4, TaskStepHeard

LEMMA SubmitBatchJobHeard ==
  ASSUME IInv, HeardInv, NEW t \in Tasks, SubmitBatchJob(t)
  PROVE  HeardInv'
<1> DEFINE u == task[t].u
<1>0. task \in [Tasks -> TaskRecord] /\ u \in Uploads
  BY TaskMovesOn, AtJob DEF SubmitBatchJob, GoodTask, OnJob
<1>1. UNCHANGED <<upload, job, segments, raised, client, generation, result, handlers>>
  BY DEF SubmitBatchJob, rows, others
<1>2. \A v \in Uploads : aws[v] = "failed" <=> aws'[v] = "failed"
  BY <1>0 DEF SubmitBatchJob, IInv, RowTypes
<1>3. Jobs' = Jobs /\ Issued' = Issued
  BY <1>1 DEF Jobs, Issued
<1>4. Gains /\ NoneGivenUp /\ JobsKnown'
  BY <1>1, <1>2, <1>3 DEF Gains, NoneGivenUp, GivenUp, HeardInv, JobsKnown, Jobs
<1>5. /\ \A s \in Tasks \ {t} : task'[s] = task[s]
      /\ task'[t].pc = "saveJob" /\ task'[t].u = u /\ task'[t].status = ProviderStatus(aws[u])
  BY <1>0 DEF SubmitBatchJob, TaskRecord
<1>6. ProviderStatus(aws[u]) = "FAILED" => aws[u] = "failed"
  BY <1>0 DEF IInv, RowTypes, ProviderStatus
<1>7. TaskKnows(t, task[t])'
  BY <1>0, <1>2, <1>5, <1>6 DEF TaskKnows, Opening
<1> QED
  BY <1>1, <1>3, <1>4, <1>5, <1>7, TaskStepHeard

LEMMA BackendHeard ==
  ASSUME IInv, HeardInv, NEW t \in Tasks, BackendStep(t) \/ BackendFault(t)
  PROVE  HeardInv'
<1>1. CASE UploadTask(t)
  BY <1>1, ProcessBatchUploadHeard, QueueBatchJobHeard, SubmitBatchJobHeard,
     SaveSubmittedJobHeard, LinkUploadHeard DEF UploadTask
<1>2. CASE CollectorTask(t)
  BY <1>2, PollJobHeard, CollectSegmentsHeard, SaveCollectedJobHeard, DeleteAudioHeard,
     AttentionHeard, GateHeard, EmitHeard DEF CollectorTask
<1>3. CASE BackendFault(t)
  BY <1>3, SubmitFailsHeard, CollectionFailsHeard, PollWindowHeard, RecheckHeard
  DEF BackendFault
<1> QED
  BY <1>1, <1>2, <1>3, VisitJobHeard DEF BackendStep

-----------------------------------------------------------------------------
(* The browser, result generation, the repair services and the restart.      *)

\* Steps that leave the rows, AWS's verdicts and the request for attention alone.
LEMMA QuietStepHeard ==
  ASSUME IInv, HeardInv, UNCHANGED <<upload, job, segments, aws>>,
         raised => raised',
         client'.pc = "recording" => client.pc = "recording",
         \A t \in Tasks : task'[t] = task[t] \/ TaskKnows(t, task[t])',
         generation'.read \subseteq Jobs, result'.read \subseteq Jobs,
         FlowHeard'
  PROVE  HeardInv'
<1>1. Jobs' = Jobs /\ Issued' = Issued
  BY DEF Jobs, Issued
<1>2. Gains /\ NoneGivenUp /\ JobsKnown'
  BY <1>1 DEF Gains, NoneGivenUp, GivenUp, HeardInv, JobsKnown
<1>3. UploadsKnown'
  BY <1>1 DEF HeardInv, UploadsKnown
<1>4. TasksKnow'
  BY <1>2, TasksKeepKnowing DEF HeardInv
<1> QED
  BY <1>2, <1>3, <1>4 DEF HeardInv

\* ... and what was made or is being made from them.
LEMMA SameFlowHeard ==
  ASSUME IInv, HeardInv, UNCHANGED <<upload, job, segments, aws, raised, result, generation>>,
         UNCHANGED handlers,
         client'.pc = "recording" => client.pc = "recording",
         \A t \in Tasks : task'[t] = task[t] \/ TaskKnows(t, task[t])'
  PROVE  HeardInv'
<1>1. FlowHeard'
  BY SameRowsHeard DEF HeardInv, FlowHeard
<1>2. generation'.read \subseteq Jobs /\ result'.read \subseteq Jobs
  BY DEF HeardInv, UploadsKnown
<1> QED
  BY <1>1, <1>2, QuietStepHeard

LEMMA ClientMovesHeard ==
  ASSUME IInv, HeardInv,
         ClientIssueFails \/ ClientPut \/ ClientConfirm \/ ClientConfirmed \/ ClientRetry
           \/ ClientVanish
  PROVE  HeardInv'
<1>1. UNCHANGED <<upload, job, segments, aws, raised, result, generation, handlers>>
  BY DEF ClientIssueFails, ClientPut, ClientConfirm, ClientConfirmed, ClientRetry,
     ClientVanish, rows, external
<1>2. client'.pc # "recording"
  <2>1. client \in ClientRecord
    BY ClientRecords
  <2> QED
    BY <2>1 DEF ClientIssueFails, ClientPut, ClientConfirm, ClientConfirmed, ClientRetry,
       ClientVanish, ClientAttemptFailed, ClientNext, ClientRecord
<1>3. \A t \in Tasks : task'[t] = task[t] \/ TaskKnows(t, task[t])'
  <2>1. CASE UNCHANGED task
    BY <2>1
  <2>2. CASE task' = [task EXCEPT ![Confirm] = [Idle EXCEPT !.pc = "load", !.u = client.u]]
    <3>1. task \in [Tasks -> GoodTask]
      BY DEF IInv, TasksInv
    <3>2. \A t \in Tasks : task'[t] = task[t] \/ task'[t].pc = "load"
      BY <2>2, <3>1 DEF Idle
    <3> QED
      BY <3>2, NothingToKnow DEF Opening
  <2> QED
    BY <2>1, <2>2 DEF ClientIssueFails, ClientPut, ClientConfirm, ClientConfirmed, ClientRetry,
       ClientVanish
<1> QED
  BY <1>1, <1>2, <1>3, SameFlowHeard

LEMMA ClientIssueHeard ==
  ASSUME IInv, HeardInv, ClientIssue
  PROVE  HeardInv'
<1>0. /\ UNCHANGED <<job, segments, aws, raised, result, generation, handlers, task>>
      /\ client \in ClientRecord /\ client.pc = "issue"
  BY ClientRecords DEF ClientIssue, external
<1>1. client'.pc # "recording"
  BY <1>0 DEF ClientIssue, ClientAttemptFailed, ClientRecord
<1>2. CASE UNCHANGED upload
  BY <1>0, <1>1, <1>2, SameFlowHeard
<1>3. CASE ~UNCHANGED upload
  <2>1. PICK u \in Uploads : upload' = [upload EXCEPT ![u] = [status |-> "ISSUED",
                                          session |-> client.session, job |-> FALSE]]
    BY <1>3 DEF ClientIssue
  <2>2. Issued' = Issued \cup {u} /\ Jobs' = Jobs
    BY <1>0, <2>1 DEF IInv, RowTypes, Issued, Jobs
  <2>3. \A v \in Issued' : upload'[v].session \in Sessions
    BY <1>0, <2>1, <2>2 DEF HeardInv, UploadsKnown, IInv, RowTypes, ClientRecord, Issued
  <2>4. Gains /\ NoneGivenUp /\ JobsKnown'
    BY <1>0, <2>2 DEF Gains, NoneGivenUp, GivenUp, HeardInv, JobsKnown
  <2>5. UploadsKnown'
    BY <1>0, <1>1, <2>2, <2>3 DEF HeardInv, UploadsKnown
  <2>6. TasksKnow'
    BY <1>0, <2>4, TasksKeepKnowing DEF HeardInv
  <2>7. FlowHeard'
    BY <1>0, <2>4, HeardStays DEF HeardInv, FlowHeard
  <2> QED
    BY <2>4, <2>5, <2>6, <2>7 DEF HeardInv
<1> QED
  BY <1>2, <1>3

\* complete() opens result generation by itself only when the user, or the recovery for a
\* browser that died, goes on without audio, and that asks for attention: a meeting that
\* is just ended has no job yet.
LEMMA CompleteHeard ==
  ASSUME IInv, HeardInv, ClientEndMeeting \/ ClientContinueWithoutAudio \/ RecoverAbandonedRecording
  PROVE  HeardInv'
<1>0. /\ UNCHANGED <<upload, job, segments, aws, result, generation, task>>
      /\ client \in ClientRecord
  BY ClientRecords DEF ClientEndMeeting, ClientContinueWithoutAudio,
     RecoverAbandonedRecording, external
<1>1. client'.pc = "recording" => client.pc = "recording"
  BY <1>0 DEF ClientEndMeeting, ClientContinueWithoutAudio, RecoverAbandonedRecording, ClientRecord
<1>2. (raised => raised') /\ (raised' \/ UNCHANGED handlers)
  <2>1. CASE ClientEndMeeting
    <3>1. Jobs = {}
      BY <2>1 DEF ClientEndMeeting, HeardInv, UploadsKnown, JobsKnown
    <3>2. ~BatchSettled
      BY <3>1 DEF BatchSettled
    <3> QED
      BY <2>1, <3>2 DEF ClientEndMeeting, Complete
  <2>2. CASE Complete(TRUE, TRUE)
    BY <2>2 DEF Complete
  <2> QED
    BY <2>1, <2>2 DEF ClientContinueWithoutAudio, RecoverAbandonedRecording
<1>3. FlowHeard'
  <2>1. (Heard => Heard') /\ (Rejected => Rejected')
    BY <1>0 DEF Heard, Rejected, Jobs
  <2> QED
    BY <1>0, <1>2, <2>1 DEF HeardInv, FlowHeard
<1>4. generation'.read \subseteq Jobs /\ result'.read \subseteq Jobs
  BY <1>0 DEF HeardInv, UploadsKnown
<1> QED
  BY <1>0, <1>1, <1>2, <1>3, <1>4, QuietStepHeard

LEMMA GenerationHeard ==
  ASSUME IInv, HeardInv, HandlerStep \/ GenerationStep \/ GenerationFails
  PROVE  HeardInv'
<1>0. /\ UNCHANGED <<upload, job, segments, aws, client, task>>
      /\ segments \subseteq Jobs
      /\ generation.read \subseteq Jobs /\ result.read \subseteq Jobs
      /\ generation \in [pc : {"idle", "llm", "complete"}, read : SUBSET Uploads]
      /\ result \in [exists : BOOLEAN, read : SUBSET Uploads]
  BY DEF HandlerStep, GenerationStep, GenerationFails, HandleGeneratingPhase, FinishHandler,
     InsertResult, CompleteGenerated, external, HeardInv, UploadsKnown, IInv, RowTypes,
     MeetingTypes
<1>1. (Heard' <=> Heard) /\ (Rejected' <=> Rejected)
  BY <1>0 DEF Heard, Rejected, Jobs
<1>2. raised => raised'
  BY DEF HandlerStep, GenerationStep, GenerationFails, HandleGeneratingPhase, FinishHandler,
     InsertResult, CompleteGenerated
<1>3. generation'.read \subseteq Jobs /\ result'.read \subseteq Jobs
  BY <1>0 DEF HandlerStep, GenerationStep, GenerationFails, HandleGeneratingPhase, FinishHandler,
     InsertResult, CompleteGenerated, NoGeneration
<1>4. FlowHeard'
  <2>1. SUFFICES ASSUME ~raised' PROVE FlowHeard'
    BY DEF FlowHeard
  <2>2. /\ ~raised
        /\ handlers # {} => Heard
        /\ generation.pc # "idle" => generation.read # {} \/ Rejected
        /\ result.exists => result.read # {} \/ Rejected
    BY <1>2, <2>1 DEF HeardInv, FlowHeard
  <2>3. CASE HandlerStep
    <3>1. PICK h \in handlers : HandleGeneratingPhase(h) \/ FinishHandler(h)
      BY <2>3 DEF HandlerStep
    <3>2. Heard /\ UNCHANGED result
      BY <2>2, <3>1 DEF HandleGeneratingPhase, FinishHandler
    <3>3. generation' = generation \/ generation'.read = segments
      BY <3>1 DEF HandleGeneratingPhase, FinishHandler
    <3>4. generation'.pc # "idle" => generation'.read # {} \/ Rejected
      BY <2>2, <3>2, <3>3 DEF Heard
    <3> QED
      BY <1>1, <2>2, <3>2, <3>4 DEF FlowHeard
  <2>4. CASE InsertResult
    <3>1. /\ generation'.pc # "idle" => generation'.read # {} \/ Rejected
          /\ result'.exists => result'.read # {} \/ Rejected
          /\ UNCHANGED handlers
      BY <1>0, <2>2, <2>4 DEF InsertResult, NoGeneration
    <3> QED
      BY <1>1, <2>2, <3>1 DEF FlowHeard
  <2>5. CASE CompleteGenerated
    BY <1>1, <2>2, <2>5 DEF CompleteGenerated, NoGeneration, FlowHeard
  <2>6. CASE GenerationFails
    BY <2>1, <2>6 DEF GenerationFails
  <2> QED
    BY <2>3, <2>4, <2>5, <2>6 DEF GenerationStep
<1> QED
  BY <1>0, <1>2, <1>3, <1>4, QuietStepHeard

LEMMA RepairHeard ==
  ASSUME IInv, HeardInv, RecoverMeeting \/ \E u \in Uploads : ReconcileUpload(u)
  PROVE  HeardInv'
<1>0. /\ UNCHANGED <<upload, job, segments, aws, raised, result, generation, handlers, client>>
      /\ task \in [Tasks -> GoodTask]
  BY DEF RecoverMeeting, ReconcileUpload, rows, external, others, IInv, TasksInv
<1>1. \A t \in Tasks : task'[t] = task[t] \/ TaskKnows(t, task[t])'
  <2>1. CASE \E u \in Uploads : ReconcileUpload(u)
    <3>1. \A t \in Tasks : task'[t] = task[t] \/ task'[t].pc = "load"
      BY <1>0, <2>1 DEF ReconcileUpload, Idle
    <3> QED
      BY <3>1, NothingToKnow DEF Opening
  <2>2. CASE RecoverMeeting
    <3> DEFINE stale == {u \in Jobs : ShouldRecoverJob(u)}
    <3>1. \/ \A t \in Tasks : task'[t] = task[t] \/ task'[t].pc \notin Watchful
          \/ Jobs # {} /\ stale = {} /\ task' = [task EXCEPT ![Recovery] = [Idle EXCEPT !.pc = "gate"]]
      <4> DEFINE missing == [Idle EXCEPT !.pc = "missing"]
                 load(u) == [Idle EXCEPT !.pc = "load", !.u = u, !.mark = TRUE]
                 next == [Idle EXCEPT !.pc = "next", !.todo = stale]
                 gate == [Idle EXCEPT !.pc = "gate"]
      <4>1. \/ UNCHANGED task
            \/ task' = [task EXCEPT ![Recovery] = missing]
            \/ \E last \in Issued : task' = [task EXCEPT ![Recovery] = load(last)]
            \/ Jobs # {} /\ stale = {} /\ task' = [task EXCEPT ![Recovery] = gate]
            \/ task' = [task EXCEPT ![Recovery] = next]
        BY <2>2, Zenon DEF RecoverMeeting
      <4>2. /\ missing.pc = "missing" /\ next.pc = "next" /\ \A u : load(u).pc = "load"
            /\ {"missing", "load", "next"} \cap Watchful = {}
        BY DEF Idle, Watchful, Opening
      <4> HIDE DEF missing, load, next, stale, gate
      <4>3. ASSUME NEW k, task' = [task EXCEPT ![Recovery] = k], k.pc \notin Watchful
            PROVE  \A t \in Tasks : task'[t] = task[t] \/ task'[t].pc \notin Watchful
        BY <1>0, <4>3
      <4> QED
        BY <4>1, <4>2, <4>3 DEF gate
    <3>2. CASE \A t \in Tasks : task'[t] = task[t] \/ task'[t].pc \notin Watchful
      BY <3>2, NothingToKnow DEF Watchful
    <3>3. CASE Jobs # {} /\ stale = {}
               /\ task' = [task EXCEPT ![Recovery] = [Idle EXCEPT !.pc = "gate"]]
      <4>1. PICK u \in Jobs : ~ShouldRecoverJob(u)
        BY <3>3
      <4>2. Heard \/ ~GivenUp(u)
        BY <4>1 DEF ShouldRecoverJob, HeardInv, JobsKnown, Heard, GivenUp
      <4>3. Heard' \/ (u \in Jobs' /\ ~GivenUp(u)')
        BY <1>0, <4>2 DEF Heard, Rejected, GivenUp, Jobs
      <4>4. \A t \in Tasks \ {Recovery} : task'[t] = task[t]
        BY <1>0, <3>3
      <4>5. task'[Recovery].pc = "gate"
        BY <1>0, <3>3 DEF Idle, Tasks
      <4>6. TaskKnows(Recovery, task[Recovery])'
        BY <4>3, <4>5 DEF TaskKnows
      <4> QED
        BY <4>4, <4>6
    <3> QED
      BY <3>1, <3>2, <3>3
  <2> QED
    BY <2>1, <2>2
<1> QED
  BY <1>0, <1>1, SameFlowHeard

LEMMA TimeHeard ==
  ASSUME IInv, HeardInv, NEW u \in Uploads, UploadAges(u) \/ AwsFinishes(u)
  PROVE  HeardInv'
<1>0. UNCHANGED <<upload, job, segments, raised, result, generation, handlers, client, task>>
  BY DEF UploadAges, AwsFinishes, rows, others
<1>1. /\ Jobs' = Jobs /\ Issued' = Issued
      /\ \A v \in Uploads : aws[v] = "failed" => aws'[v] = "failed"
  BY <1>0 DEF UploadAges, AwsFinishes, external, Jobs, Issued, IInv, RowTypes
<1>2. Gains /\ NoneGivenUp /\ JobsKnown'
  BY <1>0, <1>1 DEF Gains, NoneGivenUp, GivenUp, HeardInv, JobsKnown, Jobs
<1> QED
  BY <1>0, <1>1, <1>2, TaskStepHeard

LEMMA CrashHeard ==
  ASSUME IInv, HeardInv, CrashAndRestart
  PROVE  HeardInv'
<1>0. /\ UNCHANGED <<upload, job, segments, aws, raised, result, client>>
      /\ handlers' = {} /\ generation' = NoGeneration
  BY DEF CrashAndRestart, rows, external
<1> DEFINE pending == {u \in Jobs : job[u].error = "pending"}
           running == {u \in Jobs \ pending : /\ job[u].status \in {"QUEUED", "PROCESSING"}
                                              /\ ~job[u].collected}
           next == [Idle EXCEPT !.pc = "next", !.todo = pending]
           gate == [Idle EXCEPT !.pc = "gate"]
           value(t) == CASE t = BootJobs /\ pending # {} -> next
                         [] t = BootGate /\ (\E u \in Jobs : job[u].collected) -> gate
                         [] t \in {Poller(u) : u \in running} -> PollTask(t[2], FALSE)
                         [] OTHER -> Idle
<1>1. \A t \in Tasks : task'[t] = value(t)
  BY DEF CrashAndRestart
<1>2. ASSUME NEW t \in Tasks
      PROVE  \/ value(t).pc \notin Watchful
             \/ value(t).pc = "gate" /\ \E u \in Jobs : job[u].collected
  <2>1. /\ next.pc = "next" /\ gate.pc = "gate"
        /\ PollTask(t[2], FALSE).pc = "poll" /\ Idle.pc = "idle"
    BY DEF Idle, PollTask
  <2>2. {"next", "poll", "idle"} \cap Watchful = {}
    BY DEF Watchful, Opening
  <2>3. BootJobs # BootGate /\ \A u \in Uploads : Poller(u) # BootJobs /\ Poller(u) # BootGate
    BY DEF Poller, BootJobs, BootGate
  <2>4. running \subseteq Uploads
    BY DEF Jobs
  <2> HIDE DEF pending, running, next, gate
  <2> QED
    BY <2>1, <2>2, <2>3, <2>4
<1>3. (\E u \in Jobs : job[u].collected) => Heard'
  BY <1>0 DEF HeardInv, JobsKnown, Heard
<1>4. \A t \in Tasks : TaskKnows(t, task[t])'
  <2> HIDE DEF value
  <2> QED
    BY <1>1, <1>2, <1>3, NothingToKnow, HeardToKnow DEF Watchful, Opening
<1>5. FlowHeard'
  <2>1. Rejected' <=> Rejected
    BY <1>0 DEF Rejected, Jobs
  <2> QED
    BY <1>0, <2>1 DEF HeardInv, FlowHeard, NoGeneration
<1>6. generation'.read \subseteq Jobs /\ result'.read \subseteq Jobs
  BY <1>0 DEF HeardInv, UploadsKnown, NoGeneration
<1> QED
  BY <1>0, <1>4, <1>5, <1>6, QuietStepHeard

LEMMA NextKeepsHeard == IInv /\ HeardInv /\ [Next]_vars => HeardInv'
<1> SUFFICES ASSUME IInv, HeardInv, [Next]_vars PROVE HeardInv'
  OBVIOUS
<1>1. CASE ClientEndMeeting \/ ClientContinueWithoutAudio \/ RecoverAbandonedRecording
  BY <1>1, CompleteHeard
<1>2. CASE ClientStep \/ ClientIssueFails \/ ClientRetry \/ ClientVanish
  BY <1>2, ClientIssueHeard, ClientMovesHeard DEF ClientStep
<1>3. CASE \E t \in Tasks : BackendStep(t) \/ BackendFault(t)
  BY <1>3, BackendHeard
<1>4. CASE HandlerStep \/ GenerationStep \/ GenerationFails
  BY <1>4, GenerationHeard
<1>5. CASE \E u \in Uploads : UploadAges(u) \/ AwsFinishes(u)
  BY <1>5, TimeHeard
<1>6. CASE RecoverMeeting \/ \E u \in Uploads : ReconcileUpload(u)
  BY <1>6, RepairHeard
<1>7. CASE CrashAndRestart
  BY <1>7, CrashHeard
<1>8. CASE UNCHANGED vars
  BY <1>8, SameFlowHeard DEF vars, rows, external
<1> QED
  BY <1>1, <1>2, <1>3, <1>4, <1>5, <1>6, <1>7, <1>8 DEF Next, RecoveryScan

-----------------------------------------------------------------------------
(* The theorems.                                                             *)

\* Every reachable state satisfies the inductive invariant.
THEOREM PipelineInductive == Spec => []IInv
<1>1. Init => IInv
  BY InitIInv
<1>2. IInv /\ [Next]_vars => IInv'
  BY NextKeepsIInv
<1> QED
  BY <1>1, <1>2, PTL DEF Spec

\* Every row, task and counter of the pipeline keeps its type.
THEOREM PipelineTypeCorrect == Spec => []TypeOK
  BY PipelineInductive, TypesFromInv, PTL

\* Whatever fails and whenever the backend crashes, an audio file that reached S3 is
\* there until its transcript is in the database (collectCompletedJob deletes last).
THEOREM RecordingIsKept == Spec => []AudioOrTranscript
<1>1. IInv => AudioOrTranscript
  BY DEF IInv
<1> QED
  BY <1>1, PipelineInductive, PTL

\* However often a submission is repeated, AWS runs one job for an audio file: the row
\* carries the name of the job from its insertion on (queueBatchJobForMeeting).
THEOREM SubmittedOnce == Spec => []OneAwsJobPerAudio
<1>1. IInv => OneAwsJobPerAudio
  BY DEF IInv, AwsInv, OneAwsJobPerAudio
<1> QED
  BY <1>1, PipelineInductive, PTL

\* For any number of sessions: minutes that nobody was warned about are made from at
\* least one transcript, unless AWS rejected an audio file of the meeting.
MinutesHeard == result.exists /\ ~raised => result.read # {} \/ Rejected

LEMMA HeardInductive == Spec => []HeardInv
<1>1. Init => HeardInv
  BY InitHeard
<1>2. IInv /\ HeardInv /\ [Next]_vars => HeardInv'
  BY NextKeepsHeard
<1> QED
  BY <1>1, <1>2, PipelineInductive, PTL DEF Spec

\* The pipeline never makes minutes from nothing behind the user's back: not when a job
\* is given up, when the recovery opens the gate, or when the backend restarts.
THEOREM MinutesAreMadeFromSomething == Spec => []MinutesHeard
<1>1. HeardInv => MinutesHeard
  BY DEF HeardInv, FlowHeard, MinutesHeard
<1> QED
  BY <1>1, HeardInductive, PTL

\* Of a meeting recorded in one session that is every session. With two the property
\* does not hold: the browser that is between two uploads is not waited for.
THEOREM OneSessionIsCovered ==
  ASSUME NumSessions = 1
  PROVE  Spec => []MinutesCoverEverySession
<1>1. IInv /\ HeardInv => MinutesCoverEverySession
  <2> SUFFICES ASSUME IInv, HeardInv, result.exists, ~raised, NEW s \in Sessions
               PROVE  \/ \E u \in result.read : upload[u].session = s
                      \/ \E u \in Jobs : upload[u].session = s /\ aws[u] = "failed"
    BY DEF MinutesCoverEverySession
  <2>1. result.read # {} \/ Rejected
    BY DEF HeardInv, FlowHeard
  <2>2. \A u \in Issued : upload[u].session = s
    BY DEF HeardInv, UploadsKnown, Sessions
  <2>3. Jobs \subseteq Issued /\ result.read \subseteq Issued
    BY DEF HeardInv, UploadsKnown, JobsKnown
  <2> QED
    BY <2>1, <2>2, <2>3 DEF Rejected
<1> QED
  BY <1>1, PipelineInductive, HeardInductive, PTL
=============================================================================
