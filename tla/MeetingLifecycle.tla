--------------------------- MODULE MeetingLifecycle ---------------------------
(***************************************************************************)
(* The meeting row and the result row (minutes) of one meeting under       *)
(* concurrent requests: MeetingService and ResultService                   *)
(* (backend/src/domain/meeting and result), one action per statement.      *)
(*                                                                         *)
(* Almost every operation is "findById, change the entity, save".  save    *)
(* writes each column in which the entity differs from the row as it is    *)
(* then, so a stale entity undoes what others wrote meanwhile, clears      *)
(* deleted_at, and inserts the row again when it is gone.  A task is a     *)
(* request or a handler; its label "at" names the operation it is in, and  *)
(* its copy the entity it has read and not saved yet.                      *)
(***************************************************************************)
EXTENDS Integers, FiniteSets

CONSTANTS
    Tasks,          \* concurrent requests, event handlers and recovery steps
    Instances,      \* backend processes
    Prompts,        \* prompt templates
    DefaultPrompt,  \* DEFAULT_PROMPT_ID, the prompt of the new meeting
    NoMeetingRow,          \* the meeting was purged
    NoMinutes,      \* no row in table meeting_result
    NoPrompt,
    MaxEvents       \* bound on requests of users, crashes and failed statements

VARIABLES
    row,            \* the meeting row, soft deleted when trashed
    minutes,        \* the result row
    age,            \* time since meeting.updatedAt: 0, 1 (15 min), 2 (30 min)
    task,           \* task[t]: what task t is doing
    generation,     \* generation[i]: the generationInFlight of instance i
    lock,           \* the instances whose regeneratingMeetings has the meeting
    events,         \* events[i]: generating events instance i has to handle
    spent,          \* how many of those there were
    disturbed       \* auxiliary: a crash, a failed statement, a trashed
                    \* meeting, or a prompt written from a stale entity

rows == <<row, age>>
meetingVars == <<rows, minutes, task, generation, lock, events, spent,
                 disturbed>>

Row == [status : {"recording", "processing", "completed"},
        phase : {"none", "uploading", "generating", "regenerating"},
        title : {"none", "generated", "manual"},
        prompt : Prompts, trashed : BOOLEAN]
Minutes == [prompt : Prompts, content : {"generated", "edited"},
            title : {"none", "generated", "manual"}]

\* The new meeting has a prompt, and the sentinels are not values.
ASSUME MeetingAssumption ==
    /\ DefaultPrompt \in Prompts /\ NoPrompt \notin Prompts
    /\ NoMeetingRow \notin Row /\ NoMinutes \notin Minutes

\* A label with a row update: findById, then save of the changed entity.
RowUpdates == {"complete", "title", "prompt", "setPrompt", "setPhase",
               "backPhase", "revertPrompt", "resetPhase", "settling", "settle",
               "attention", "finish", "clear"}
\* A label that reads the meeting for its own use.
RowReads == {"check", "open", "pipeline", "payload"}
Background == {"readMinutes", "payload", "ai", "saveMinutes", "backPhase",
               "revertPrompt", "resetPhase"}
Regenerating == Background \cup {"check", "checkMinutes", "setPrompt",
                                 "setPhase"}
Labels == RowUpdates \cup RowReads \cup Background \cup
          {"idle", "checkMinutes", "edit", "await", "readTitle", "saveTitle"}

Task == [at : Labels, on : Instances, copy : Row \cup {NoMeetingRow},
         minutes : Minutes \cup {NoMinutes}, arg : Prompts \cup {NoPrompt},
         original : Prompts \cup {NoPrompt}, caller : {"none", "open", "pipeline"}]
Generation == [at : {"idle", "recheck", "payload", "ai", "insert", "phase"},
               copy : Row \cup {NoMeetingRow}]

MeetingTypeOK ==
    /\ row \in Row \cup {NoMeetingRow} /\ minutes \in Minutes \cup {NoMinutes}
    /\ age \in 0..2 /\ task \in [Tasks -> Task]
    /\ generation \in [Instances -> Generation] /\ lock \subseteq Instances
    /\ events \in [Instances -> Nat]
    /\ disturbed \in BOOLEAN

Idle(i) == [at |-> "idle", on |-> i, copy |-> NoMeetingRow, minutes |-> NoMinutes,
            arg |-> NoPrompt, original |-> NoPrompt, caller |-> "none"]
NoGeneration == [at |-> "idle", copy |-> NoMeetingRow]

\* MeetingService.create, and a meeting whose minutes exist already.
MeetingInit ==
    /\ \E done \in BOOLEAN :
         /\ row = [status |-> IF done THEN "completed" ELSE "recording",
                   phase |-> "none", title |-> "none", prompt |-> DefaultPrompt,
                   trashed |-> FALSE]
         /\ minutes = IF done THEN [prompt |-> DefaultPrompt, title |-> "none",
                                    content |-> "generated"]
                              ELSE NoMinutes
    /\ age = 0
    /\ \E i \in Instances : task = [t \in Tasks |-> Idle(i)]
    /\ generation = [i \in Instances |-> NoGeneration]
    /\ lock = {} /\ events = [i \in Instances |-> 0]
    /\ spent = 0
    /\ disturbed = FALSE

Spend == spent < MaxEvents /\ spent' = spent + 1

\* findById and the default scope of every find leave soft-deleted rows out.
Visible == row # NoMeetingRow /\ ~row.trashed

(***************************************************************************)
(* Control flow of a task                                                  *)
(***************************************************************************)
Goto(t, label) == [task EXCEPT ![t].at = label, ![t].copy = NoMeetingRow]
Done(t) == [task EXCEPT ![t] = Idle(task[t].on)]

\* The label after a row update has been saved.
After(t) ==
    CASE task[t].at = "title"        -> "readTitle"
      [] task[t].at = "setPrompt"    -> "setPhase"
      [] task[t].at = "setPhase"     -> "readMinutes"
      [] task[t].at = "revertPrompt" -> "resetPhase"
      [] task[t].at = "settling"     -> "settle"
      [] task[t].at = "attention"    -> "finish"
      [] OTHER                       -> "idle"

\* Mutant of Catch: a regeneration that fails leaves the new prompt.
CatchWithoutRevert(t) ==
    CASE task[t].at \in Background \ {"revertPrompt", "resetPhase"} -> "resetPhase"
      [] task[t].at = "pipeline" -> "attention"
      [] task[t].at = "attention" -> "finish"
      [] OTHER -> "idle"

\* Where a statement that throws leads: the catch blocks of
\* executeRegenerateInBackground, handleGeneratingPhase, updateMeetingStatus.
Catch(t) ==
    CASE task[t].at \in Background \ {"revertPrompt", "resetPhase"} -> "revertPrompt"
      [] task[t].at = "revertPrompt" -> "resetPhase"
      [] task[t].at = "pipeline" -> "attention"
      [] task[t].at = "attention" -> "finish"
      [] OTHER -> "idle"

\* Leaving a regeneration, by its catch or its finally, releases the lock.
Unlock(t, label) ==
    lock' = IF task[t].at \in Regenerating /\ label = "idle"
            THEN lock \ {task[t].on} ELSE lock

Proceed(t, label) ==
    /\ task' = IF label = "idle" THEN Done(t) ELSE Goto(t, label)
    /\ Unlock(t, label)

Fails(t) == Proceed(t, Catch(t)) /\ disturbed' = TRUE

(***************************************************************************)
(* Row updates                                                             *)
(***************************************************************************)
\* findById.  complete() returns a completed meeting as it is, and
\* emitGeneratingPhase leaves a meeting alone that is not processing.
FindRow(t) ==
    LET returns == \/ task[t].at = "complete" /\ row.status = "completed"
                   \/ task[t].at = "settling" /\ row.status # "processing"
    IN  /\ task[t].at \in RowUpdates \cup RowReads /\ task[t].copy = NoMeetingRow
        /\ \/ /\ ~Visible
              /\ Fails(t)
           \/ /\ Visible /\ returns
              /\ Proceed(t, "idle") /\ UNCHANGED disturbed
           \/ /\ Visible /\ ~returns
              /\ task' = IF task[t].at = "settling" THEN Goto(t, "settle")
                         ELSE [task EXCEPT ![t].copy = row]
              /\ UNCHANGED <<lock, disturbed>>
        /\ UNCHANGED <<rows, minutes, generation, events, spent>>

Closed(copy) == [copy EXCEPT !.status = "completed", !.phase = "none"]

\* The entity as task t saves it.  complete() of a batch meeting waits for its
\* transcription unless every job has settled by then.
Edited(t) ==
    LET copy == task[t].copy
    IN  CASE task[t].at = "complete" ->
               {[copy EXCEPT !.status = "processing", !.phase = p] :
                    p \in {"uploading", "generating"}}
          [] task[t].at = "title" -> {[copy EXCEPT !.title = "manual"]}
          [] task[t].at \in {"prompt", "setPrompt"} ->
               {[copy EXCEPT !.prompt = task[t].arg]}
          [] task[t].at = "revertPrompt" -> {[copy EXCEPT !.prompt = task[t].original]}
          [] task[t].at = "setPhase" ->
               {[copy EXCEPT !.status = "completed", !.phase = "regenerating"]}
          [] task[t].at = "settle" -> {[copy EXCEPT !.phase = "generating"]}
          [] task[t].at = "attention" -> {[copy EXCEPT !.phase = "none"]}
          [] OTHER -> {Closed(copy)}

\* Whether somebody else changed the prompt since the entity was read.
StalePrompt(copy) == row = NoMeetingRow \/ row.prompt # copy.prompt

\* updateLifecycle and updatePrompt: save, then the status event.
SaveRow(t) ==
    /\ task[t].at \in RowUpdates /\ task[t].copy # NoMeetingRow
    /\ row' \in Edited(t)
    /\ age' = 0
    /\ disturbed' = (disturbed \/ StalePrompt(task[t].copy) \/ task[t].at = "prompt")
    /\ events' = IF task[t].at \in {"complete", "settle"} /\ row'.phase = "generating"
                 THEN [events EXCEPT ![task[t].on] = @ + 1] ELSE events
    /\ Proceed(t, After(t))
    /\ UNCHANGED <<minutes, generation, spent>>

\* updatePrompt copies a changed title to the metadata of the minutes.
ReadTitle(t) ==
    /\ task[t].at = "readTitle"
    /\ task' = IF minutes # NoMinutes /\ minutes.title # "manual"
               THEN [task EXCEPT ![t].at = "saveTitle", ![t].minutes = minutes]
               ELSE Done(t)
    /\ UNCHANGED <<rows, minutes, generation, lock, events, spent, disturbed>>

\* resultRepository.save: a whole-row write too, refused by the foreign key
\* when the meeting is gone.
SaveMinutes(t) ==
    LET m == task[t].minutes
        saved == CASE task[t].at = "saveTitle" -> [m EXCEPT !.title = "manual"]
                   [] task[t].at = "edit" -> [m EXCEPT !.content = "edited"]
                   [] OTHER -> [prompt |-> task[t].arg, content |-> "generated",
                                title |-> task[t].copy.title]
    IN  /\ task[t].at \in {"saveTitle", "edit", "saveMinutes"}
        /\ \/ /\ row = NoMeetingRow
              /\ Fails(t) /\ UNCHANGED minutes
           \/ /\ row # NoMeetingRow
              /\ minutes' = saved
              /\ disturbed' = (disturbed \/ minutes = NoMinutes
                                 \/ minutes.prompt # m.prompt)
              /\ Proceed(t, IF task[t].at = "saveMinutes" THEN "backPhase" ELSE "idle")
        /\ UNCHANGED <<rows, generation, events, spent>>

(***************************************************************************)
(* Regeneration                                                            *)
(***************************************************************************)
\* Mutant of BeginRegeneration: the lock is only looked at.
BeginRegenerationUnlocked(t, i, p) ==
    /\ task[t].at = "idle"
    /\ i \notin lock
    /\ task' = [task EXCEPT ![t] = [Idle(i) EXCEPT !.at = "check", !.arg = p]]
    /\ UNCHANGED lock

\* regenerateAsync up to its first await: refused while this process
\* regenerates the meeting, else the lock is taken.
BeginRegeneration(t, i, p) ==
    /\ task[t].at = "idle"
    /\ i \notin lock
    /\ task' = [task EXCEPT ![t] = [Idle(i) EXCEPT !.at = "check", !.arg = p]]
    /\ lock' = lock \cup {i}

RequestRegeneration(t, i, p) ==
    /\ BeginRegeneration(t, i, p)
    /\ Spend
    /\ UNCHANGED <<rows, minutes, generation, events, disturbed>>

\* The phase in the row keeps other instances out for 15 minutes.
CheckPhase(t) ==
    /\ task[t].at = "check" /\ task[t].copy # NoMeetingRow
    /\ \/ /\ task[t].copy.phase = "regenerating" /\ age = 0
          /\ Proceed(t, "idle")
       \/ /\ task[t].copy.phase # "regenerating" \/ age > 0
          /\ task' = [Goto(t, "checkMinutes") EXCEPT ![t].original = task[t].copy.prompt]
          /\ UNCHANGED lock
    /\ UNCHANGED <<rows, minutes, generation, events, spent, disturbed>>

CheckMinutes(t) ==
    /\ task[t].at = "checkMinutes"
    /\ Proceed(t, IF minutes = NoMinutes THEN "idle" ELSE "setPrompt")
    /\ UNCHANGED <<rows, minutes, generation, events, spent, disturbed>>

\* executeRegenerateInBackground: the minutes are read before the model runs.
ReadMinutes(t) ==
    /\ task[t].at = "readMinutes"
    /\ \/ /\ minutes = NoMinutes
          /\ Fails(t)
       \/ /\ minutes # NoMinutes
          /\ task' = [task EXCEPT ![t].at = "payload", ![t].minutes = minutes]
          /\ UNCHANGED <<lock, disturbed>>
    /\ UNCHANGED <<rows, minutes, generation, events, spent>>

\* setGeneratedTitleIfMissing: UPDATE ... WHERE title IS NULL, run when the
\* meeting the payload was made from had no title.
GeneratedTitle(copy) ==
    IF copy.title = "none" /\ row # NoMeetingRow /\ row.title = "none"
    THEN [row EXCEPT !.title = "generated"] ELSE row

\* generateContentWithAI: it names an untitled meeting or not, and always has
\* content (the extraction, the legacy text or the fallback).
Generate(copy) ==
    /\ row' \in {row, GeneratedTitle(copy)}
    /\ age' = IF row' = row THEN age ELSE 0

\* The entity the payload is made from learns the title that was stored.
Named(copy) == IF row' = row THEN copy ELSE [copy EXCEPT !.title = "generated"]

\* generateResultPayload of a regeneration; the prompt may be gone by now.
PayloadRead(t) ==
    /\ task[t].at = "payload" /\ task[t].copy # NoMeetingRow
    /\ \/ /\ task' = [task EXCEPT ![t].at = "ai"]
          /\ UNCHANGED lock
       \/ Proceed(t, Catch(t))
    /\ UNCHANGED <<rows, minutes, generation, events, spent, disturbed>>

RunModel(t) ==
    /\ task[t].at = "ai"
    /\ Generate(task[t].copy)
    /\ task' = [task EXCEPT ![t].at = "saveMinutes", ![t].copy = Named(@)]
    /\ UNCHANGED <<minutes, generation, lock, events, spent, disturbed>>

(***************************************************************************)
(* First generation: one in flight per instance, shared by its callers     *)
(***************************************************************************)
\* findByMeetingId (PATCH and GET of the result) and generateForPipeline.
OpenMinutes(t) ==
    LET caller == task[t].at
        i == task[t].on
        allowed == caller = "pipeline" \/ task[t].copy.status = "completed"
    IN  /\ task[t].at \in {"open", "pipeline"} /\ task[t].copy # NoMeetingRow
        /\ \/ /\ minutes # NoMinutes
              /\ task' = IF caller = "open"
                         THEN [Goto(t, "edit") EXCEPT ![t].minutes = minutes]
                         ELSE Goto(t, "finish")
              /\ UNCHANGED generation
           \/ /\ minutes = NoMinutes /\ ~allowed
              /\ task' = Done(t) /\ UNCHANGED generation
           \/ /\ minutes = NoMinutes /\ allowed
              /\ task' = [Goto(t, "await") EXCEPT ![t].caller = caller]
              /\ generation' = IF generation[i].at # "idle" THEN generation
                               ELSE [generation EXCEPT ![i].at = "recheck"]
        /\ UNCHANGED <<rows, minutes, lock, events, spent, disturbed>>

\* The shared promise settles, with the minutes found or stored, or with an
\* error (NoMinutes): everybody who joined goes on.  flagged: the event the
\* handler was called with asks for attention.
EndGeneration(i, found) ==
    /\ generation' = [generation EXCEPT ![i] = NoGeneration]
    /\ \E flagged \in BOOLEAN :
         task' = [t \in Tasks |->
           IF task[t].at # "await" \/ task[t].on # i THEN task[t]
           ELSE IF task[t].caller = "pipeline"
           THEN [Idle(i) EXCEPT !.at = IF flagged \/ found = NoMinutes
                                       THEN "attention" ELSE "finish"]
           ELSE [Idle(i) EXCEPT !.at = IF found = NoMinutes THEN "idle" ELSE "edit",
                                !.minutes = found]]

\* generateAndSave looks once more before it pays for the model.
Recheck(i) ==
    /\ generation[i].at = "recheck"
    /\ IF minutes # NoMinutes
       THEN EndGeneration(i, minutes)
       ELSE generation' = [generation EXCEPT ![i].at = "payload"] /\ UNCHANGED task
    /\ UNCHANGED <<rows, minutes, lock, events, spent, disturbed>>

GenerationReads(i) ==
    /\ generation[i].at = "payload"
    /\ IF Visible
       THEN generation' = [generation EXCEPT ![i] = [at |-> "ai", copy |-> row]]
            /\ UNCHANGED <<task, disturbed>>
       ELSE EndGeneration(i, NoMinutes) /\ disturbed' = TRUE
    /\ UNCHANGED <<rows, minutes, lock, events, spent>>

GenerationRunsModel(i) ==
    /\ generation[i].at = "ai"
    /\ Generate(generation[i].copy)
    /\ generation' = [generation EXCEPT ![i].at = "insert", ![i].copy = Named(@)]
    /\ UNCHANGED <<minutes, task, lock, events, spent, disturbed>>

\* A unique violation means another instance was first: its minutes count.
InsertMinutes(i) ==
    LET copy == generation[i].copy
    IN  /\ generation[i].at = "insert"
        /\ \/ /\ row = NoMeetingRow
              /\ EndGeneration(i, NoMinutes) /\ disturbed' = TRUE /\ UNCHANGED minutes
           \/ /\ row # NoMeetingRow /\ minutes # NoMinutes
              /\ UNCHANGED <<minutes, disturbed>> /\ EndGeneration(i, minutes)
           \/ /\ row # NoMeetingRow /\ minutes = NoMinutes
              /\ minutes' = [prompt |-> copy.prompt, content |-> "generated",
                             title |-> copy.title]
              /\ disturbed' = (disturbed \/ row.prompt # copy.prompt)
              /\ generation' = [generation EXCEPT ![i] = [at |-> "phase", copy |-> NoMeetingRow]]
              /\ UNCHANGED task
        /\ UNCHANGED <<rows, lock, events, spent>>

\* updateProcessingPhase at the end of generateAndSave: find, then save.
GenerationFindsRow(i) ==
    /\ generation[i].at = "phase" /\ generation[i].copy = NoMeetingRow
    /\ IF Visible
       THEN generation' = [generation EXCEPT ![i].copy = row]
            /\ UNCHANGED <<task, disturbed, minutes>>
       ELSE UNCHANGED minutes /\ EndGeneration(i, NoMinutes) /\ disturbed' = TRUE
    /\ UNCHANGED <<rows, lock, events, spent>>

GenerationSavesRow(i) ==
    /\ generation[i].at = "phase" /\ generation[i].copy # NoMeetingRow
    /\ row' = Closed(generation[i].copy) /\ age' = 0
    /\ disturbed' = (disturbed \/ StalePrompt(generation[i].copy))
    /\ UNCHANGED minutes /\ EndGeneration(i, minutes)
    /\ UNCHANGED <<lock, events, spent>>

(***************************************************************************)
(* Requests, handlers, recovery, trash, faults                             *)
(***************************************************************************)
Request(t, i, label, p) ==
    /\ task[t].at = "idle"
    /\ Spend
    /\ task' = [task EXCEPT ![t] = [Idle(i) EXCEPT !.at = label, !.arg = p]]
    /\ UNCHANGED <<rows, minutes, generation, lock, events, disturbed>>

CompleteMeeting(t, i) == Request(t, i, "complete", NoPrompt)
PatchTitle(t, i) == Request(t, i, "title", NoPrompt)
PatchPrompt(t, i, p) == Request(t, i, "prompt", p)
PatchResult(t, i) == Request(t, i, "open", NoPrompt)

\* The collector has seen the last job settle (emitGeneratingPhase).
TranscriptionSettles(t, i) ==
    /\ task[t].at = "idle" /\ Visible /\ row.phase = "uploading"
    /\ task' = [task EXCEPT ![t] = [Idle(i) EXCEPT !.at = "settling"]]
    /\ UNCHANGED <<rows, minutes, generation, lock, events, spent, disturbed>>

\* handleGeneratingPhase.
HandleGenerating(t, i) ==
    /\ task[t].at = "idle" /\ events[i] > 0
    /\ events' = [events EXCEPT ![i] = @ - 1]
    /\ task' = [task EXCEPT ![t] = [Idle(i) EXCEPT !.at = "pipeline"]]
    /\ UNCHANGED <<rows, minutes, generation, lock, spent, disturbed>>

\* Mutant of RecoverStalledRegeneration: it waits for the lock of a process
\* that may be gone.
RecoverUnlockedRegeneration(t, i) ==
    /\ task[t].at = "idle" /\ Visible /\ row.phase = "regenerating" /\ age = 2
    /\ \E u \in Tasks : task[u].at \in Regenerating
    /\ task' = [task EXCEPT ![t] = [Idle(i) EXCEPT !.at = "clear"]]
    /\ UNCHANGED <<rows, minutes, generation, lock, events, spent, disturbed>>

\* recoverStalledRegeneratingMeetings: the phase of a regeneration that died.
RecoverStalledRegeneration(t, i) ==
    /\ task[t].at = "idle" /\ Visible /\ row.phase = "regenerating" /\ age = 2
    /\ task' = [task EXCEPT ![t] = [Idle(i) EXCEPT !.at = "clear"]]
    /\ UNCHANGED <<rows, minutes, generation, lock, events, spent, disturbed>>

TimePasses ==
    /\ age < 2 /\ row # NoMeetingRow /\ row.phase = "regenerating"
    /\ age' = age + 1
    /\ UNCHANGED <<row, minutes, task, generation, lock,
                   events, spent, disturbed>>

\* remove, restore, purge, and their bulk forms per id.
TrashMeeting ==
    /\ Visible
    /\ Spend
    /\ row' = [row EXCEPT !.trashed = TRUE] /\ age' = 0
    /\ disturbed' = TRUE
    /\ UNCHANGED <<minutes, task, generation, lock, events>>

RestoreMeeting ==
    /\ row # NoMeetingRow /\ row.trashed
    /\ row' = [row EXCEPT !.trashed = FALSE] /\ age' = 0
    /\ UNCHANGED <<minutes, task, generation, lock, events,
                   spent, disturbed>>

\* The result row goes with the meeting (ON DELETE CASCADE).
PurgeMeeting ==
    /\ row # NoMeetingRow /\ row.trashed
    /\ row' = NoMeetingRow /\ minutes' = NoMinutes /\ age' = 0
    /\ UNCHANGED <<task, generation, lock, events, spent,
                   disturbed>>

TaskStatementFails(t) ==
    /\ task[t].at \notin {"idle", "await", "ai"}
    /\ Spend
    /\ Fails(t)
    /\ UNCHANGED <<rows, minutes, generation, events>>

GenerationStatementFails(i) ==
    /\ generation[i].at \notin {"idle", "ai"}
    /\ Spend
    /\ disturbed' = TRUE
    /\ UNCHANGED minutes /\ EndGeneration(i, NoMinutes)
    /\ UNCHANGED <<rows, lock, events>>

\* The process loses its sets, its promises and what it was doing.
CrashInstance(i) ==
    /\ Spend
    /\ task' = [t \in Tasks |-> IF task[t].on = i THEN Idle(i) ELSE task[t]]
    /\ generation' = [generation EXCEPT ![i] = NoGeneration]
    /\ lock' = lock \ {i}
    /\ events' = [events EXCEPT ![i] = 0]
    /\ disturbed' = TRUE
    /\ UNCHANGED <<rows, minutes>>

TaskStep(t) ==
    \/ FindRow(t) \/ SaveRow(t) \/ ReadTitle(t) \/ SaveMinutes(t)
    \/ CheckPhase(t) \/ CheckMinutes(t) \/ ReadMinutes(t) \/ PayloadRead(t)
    \/ RunModel(t) \/ OpenMinutes(t)

GenerationStep(i) ==
    \/ Recheck(i) \/ GenerationReads(i) \/ GenerationRunsModel(i)
    \/ InsertMinutes(i) \/ GenerationFindsRow(i) \/ GenerationSavesRow(i)

MeetingNext ==
    \/ \E t \in Tasks : TaskStep(t)
    \/ \E i \in Instances : GenerationStep(i)
    \/ \E t \in Tasks, i \in Instances :
         \/ CompleteMeeting(t, i) \/ PatchTitle(t, i) \/ PatchResult(t, i)
         \/ TranscriptionSettles(t, i) \/ HandleGenerating(t, i)
         \/ RecoverStalledRegeneration(t, i)
         \/ \E p \in Prompts : PatchPrompt(t, i, p) \/ RequestRegeneration(t, i, p)
    \/ TimePasses \/ TrashMeeting \/ RestoreMeeting \/ PurgeMeeting
    \/ \E t \in Tasks : TaskStatementFails(t)
    \/ \E i \in Instances : GenerationStatementFails(i) \/ CrashInstance(i)

\* Statements return, the model answers, events are delivered, and the
\* recovery timer fires; users and faults owe nothing.
MeetingFairness ==
    /\ \A t \in Tasks : WF_meetingVars(TaskStep(t))
    /\ \A i \in Instances : WF_meetingVars(GenerationStep(i))
    /\ WF_meetingVars(\E t \in Tasks, i \in Instances : HandleGenerating(t, i))
    /\ WF_meetingVars(TimePasses)
    /\ SF_meetingVars(\E t \in Tasks, i \in Instances : RecoverStalledRegeneration(t, i))

MeetingSpec == MeetingInit /\ [][MeetingNext]_meetingVars
FairMeetingSpec == MeetingSpec /\ MeetingFairness

(***************************************************************************)
(* Properties                                                              *)
(***************************************************************************)
RegenerationsOn(i) == {t \in Tasks : task[t].on = i /\ task[t].at \in Regenerating}

\* regeneratingMeetings: a process holds the lock exactly as long as one
\* regeneration of the meeting runs in it, whichever step fails, so no failure
\* locks the meeting out (result.service.ts:192-301, 418-420).
RegenerationHoldsLock ==
    \A i \in Instances : Cardinality(RegenerationsOn(i)) = IF i \in lock THEN 1 ELSE 0

\* A regeneration that fails puts the prompt back, one that succeeds stores
\* minutes of the new prompt: at rest both rows name the same prompt, unless a
\* crash, a failed statement or a stale entity interfered
\* (result.service.ts:354-372).
PromptOfMinutes ==
    (~disturbed /\ minutes # NoMinutes /\ \A i \in Instances : RegenerationsOn(i) = {})
        => row.prompt = minutes.prompt

\* No meeting of the user's list shows "regenerating" for ever: the background
\* task, its catch, or the recovery clears it, also after a crash
\* (stalled-meeting-recovery.service.ts:104-147).
RegenerationSettles ==
    (row # NoMeetingRow /\ row.phase = "regenerating")
        ~> (~Visible \/ row.phase # "regenerating")
=============================================================================
