------------------------ MODULE MeetingLifecycleProofs ------------------------
(***************************************************************************)
(* Proofs about MeetingLifecycle for any number of tasks, prompts, events  *)
(* and faults, and for any number of backend processes but where said.     *)
(*                                                                         *)
(* IInv ties the lock of a process to the one task in it that regenerates  *)
(* (LockInv), on top of the types and what a task carries (TypeInv).  A    *)
(* statement moves one task (Moves), in one of the four ways it may        *)
(* change the lock (Locks), so each action answers for one record.         *)
(*                                                                         *)
(* PromptInv follows a regeneration: from its first save to its last the   *)
(* two rows disagree, and it knows the prompt of each.  That takes one     *)
(* regeneration at a time, which is what OneInstance gives: the phase in   *)
(* the row, read and written in two statements, does not exclude a second  *)
(* process.                                                                *)
(***************************************************************************)
EXTENDS MeetingLifecycle, FiniteSetTheorems, TLAPS

\* What the record of a task carries for the statement it is at: the prompts of
\* a regeneration, the minutes it saves, the entity the model was run on.  The
\* entity is one that findById returned, so it is not in the trash.
Needs(r) ==
    /\ r.at \in Regenerating \cup {"prompt"} => r.arg \in Prompts
    /\ r.at \in Regenerating \ {"check"} => r.original \in Prompts
    /\ r.at \in {"saveTitle", "edit"} => r.minutes \in Minutes
    /\ r.at \in {"ai", "saveMinutes"} => r.copy \in Row
    /\ r.copy # NoMeetingRow => ~r.copy.trashed

TaskNeeds(t) == Needs(task[t])

GenerationNeeds(i) ==
    /\ generation[i].at \in {"ai", "insert"} => generation[i].copy \in Row
    /\ generation[i].copy # NoMeetingRow => ~generation[i].copy.trashed

TypeInv ==
    /\ MeetingTypeOK
    /\ \A t \in Tasks : TaskNeeds(t)
    /\ \A i \in Instances : GenerationNeeds(i)

Runs(r) == r.at \in Regenerating

\* A lock is held by the one regeneration of its process.
LockInv ==
    /\ \A t \in Tasks : Runs(task[t]) => task[t].on \in lock
    /\ \A i \in lock : \E t \in Tasks : task[t].on = i /\ Runs(task[t])
    /\ \A t, u \in Tasks :
         Runs(task[t]) /\ Runs(task[u]) /\ task[t].on = task[u].on => t = u

\* The prompt of the row is the new one, the minutes still have the old one.
Changing == {"setPhase", "readMinutes", "payload", "ai", "saveMinutes"}

\* What a regeneration knows of the two rows.
PromptNeeds(r) ==
    /\ r.at \notin {"check", "checkMinutes"} => minutes # NoMinutes
    /\ r.at = "check" => r.copy = NoMeetingRow \/ r.copy.prompt = row.prompt
    /\ r.at \in {"checkMinutes", "setPrompt"} => r.original = row.prompt
    /\ r.at \in Changing => row.prompt = r.arg /\ minutes.prompt = r.original
    /\ r.at = "revertPrompt" => minutes.prompt = r.original

\* Outside of that they agree, as long as nothing interfered.
PromptInv ==
    ~disturbed =>
      /\ Visible
      /\ \A t \in Tasks : Runs(task[t]) => PromptNeeds(task[t])
      /\ (\A t \in Tasks : task[t].at \notin Changing \cup {"revertPrompt"}) =>
           minutes = NoMinutes \/ row.prompt = minutes.prompt

IInv == TypeInv /\ LockInv

\* How a step changes the record of one task and the lock together.
Locks(old, new) ==
    \/ Runs(old) /\ Runs(new) /\ new.on = old.on /\ lock' = lock
    \/ ~Runs(old) /\ ~Runs(new) /\ lock' = lock
    \/ Runs(old) /\ ~Runs(new) /\ lock' = lock \ {old.on}
    \/ ~Runs(old) /\ Runs(new) /\ new.on \notin lock /\ lock' = lock \cup {new.on}

LEMMA OneTaskMoves ==
    ASSUME TypeInv, LockInv, NEW t \in Tasks, NEW r \in Task, Needs(r),
           task' = [task EXCEPT ![t] = r], Locks(task[t], r)
    PROVE  /\ task' \in [Tasks -> Task] /\ lock' \subseteq Instances
           /\ \A u \in Tasks : TaskNeeds(u)'
           /\ LockInv'
<1>1. task \in [Tasks -> Task] /\ lock \subseteq Instances /\ r.on \in Instances
      /\ \A u \in Tasks : task[u] \in Task /\ task[u].on \in Instances
  BY DEF TypeInv, MeetingTypeOK, Task
<1>2. task' \in [Tasks -> Task] /\ task'[t] = r /\ \A u \in Tasks \ {t} : task'[u] = task[u]
  BY <1>1
<1>3. lock' \subseteq Instances
  BY <1>1 DEF Locks
<1>4. \A u \in Tasks : TaskNeeds(u)'
  BY <1>2 DEF TypeInv, TaskNeeds, Needs
<1>5. LockInv'
  BY <1>1, <1>2 DEF LockInv, Locks
<1>6. QED
  BY <1>2, <1>3, <1>4, <1>5

Moves(t) == \E r \in Task : Needs(r) /\ task' = [task EXCEPT ![t] = r] /\ Locks(task[t], r)

LEMMA TaskFacts ==
    ASSUME TypeInv, NEW t \in Tasks
    PROVE  task[t] \in Task /\ Needs(task[t]) /\ Idle(task[t].on) \in Task
BY DEF TypeInv, MeetingTypeOK, TaskNeeds, Needs, Task, Idle, Labels

LEMMA IdleNeeds == \A i \in Instances : Idle(i) \in Task /\ Needs(Idle(i)) /\ ~Runs(Idle(i))
BY DEF Needs, Task, Idle, Labels, Runs, Regenerating, Background

\* What follows a statement by the ordinary control flow.
LEMMA ProceedMoves ==
    ASSUME TypeInv, NEW t \in Tasks, NEW label \in Labels, Proceed(t, label),
           label \notin {"ai", "saveMinutes", "prompt", "saveTitle", "edit"},
           label \in Regenerating => task[t].at \in Regenerating \ {"check"},
           label # "idle" /\ task[t].at \in Regenerating => label \in Regenerating
    PROVE  Moves(t)
<1>1. task[t] \in Task /\ Needs(task[t]) /\ task[t].on \in Instances
  BY TaskFacts DEF Task
<1>2. CASE label = "idle"
  <2>1. task' = [task EXCEPT ![t] = Idle(task[t].on)]
    BY <1>2 DEF Proceed, Done
  <2>2. Locks(task[t], Idle(task[t].on))
    BY <1>1, <1>2, IdleNeeds DEF Proceed, Unlock, Locks, Runs
  <2>3. QED
    BY <1>1, <2>1, <2>2, IdleNeeds DEF Moves
<1>3. CASE label # "idle"
  <2> DEFINE r == [task[t] EXCEPT !.at = label, !.copy = NoMeetingRow]
  <2>1. r \in Task /\ r.at = label /\ r.on = task[t].on /\ r.arg = task[t].arg
        /\ r.original = task[t].original /\ r.copy = NoMeetingRow
    BY <1>1 DEF Task
  <2>2. task' = [task EXCEPT ![t] = r]
    BY <1>1, <1>3 DEF Proceed, Goto, TypeInv, MeetingTypeOK
  <2>3. Needs(r)
    BY <1>1, <2>1 DEF Needs
  <2>4. Locks(task[t], r)
    BY <1>1, <1>3, <2>1 DEF Proceed, Unlock, Locks, Runs
  <2> HIDE DEF r
  <2>5. QED
    BY <2>1, <2>2, <2>3, <2>4 DEF Moves
<1>4. QED
  BY <1>2, <1>3

LEMMA CatchLabels ==
    ASSUME NEW t
    PROVE  /\ Catch(t) \in {"revertPrompt", "resetPhase", "attention", "finish", "idle"}
           /\ Catch(t) \in Regenerating <=> task[t].at \in Background \ {"resetPhase"}
BY DEF Catch, Regenerating, Background

LEMMA FailsMoves ==
    ASSUME TypeInv, NEW t \in Tasks, Fails(t)
    PROVE  Moves(t) /\ disturbed' = TRUE
<1>1. Proceed(t, Catch(t)) /\ disturbed' = TRUE
  BY DEF Fails
<1>2. Catch(t) \in Labels
  BY CatchLabels DEF Labels, Background, RowUpdates
<1>3. Catch(t) \in Regenerating => task[t].at \in Regenerating \ {"check"}
  BY CatchLabels DEF Regenerating, Background
<1>4. Catch(t) # "idle" /\ task[t].at \in Regenerating => Catch(t) \in Regenerating
  BY DEF Catch, Regenerating, Background
<1>5. Catch(t) \notin {"ai", "saveMinutes", "prompt", "saveTitle", "edit"}
  BY CatchLabels
<1>6. QED
  BY <1>1, <1>2, <1>3, <1>4, <1>5, ProceedMoves

\* The part of the invariant that is not about tasks and locks.
Rest ==
    /\ row \in Row \cup {NoMeetingRow} /\ minutes \in Minutes \cup {NoMinutes}
    /\ age \in 0..2 /\ generation \in [Instances -> Generation]
    /\ events \in [Instances -> Nat] /\ disturbed \in BOOLEAN
    /\ \A i \in Instances : GenerationNeeds(i)

LEMMA MovesKeep ==
    ASSUME IInv, NEW t \in Tasks, Moves(t), Rest'
    PROVE  IInv'
<1>1. PICK r \in Task : Needs(r) /\ task' = [task EXCEPT ![t] = r] /\ Locks(task[t], r)
  BY DEF Moves
<1>2. /\ task' \in [Tasks -> Task] /\ lock' \subseteq Instances
      /\ \A u \in Tasks : TaskNeeds(u)'
      /\ LockInv'
  BY <1>1, OneTaskMoves DEF IInv
<1>3. QED
  BY <1>2 DEF IInv, TypeInv, MeetingTypeOK, Rest

LEMMA RestFacts == IInv => Rest /\ TypeInv
BY DEF IInv, TypeInv, MeetingTypeOK, Rest

\* A step that leaves the rows and the generations alone.
LEMMA RestStays ==
    ASSUME Rest, UNCHANGED <<rows, minutes, generation, events>>, disturbed' \in BOOLEAN
    PROVE  Rest'
BY DEF Rest, rows, GenerationNeeds

LEMMA FindRowKeeps ==
    ASSUME IInv, NEW t \in Tasks, FindRow(t)
    PROVE  IInv'
<1>1. TypeInv /\ Rest /\ task[t] \in Task /\ Needs(task[t])
  BY RestFacts, TaskFacts
<1>2. UNCHANGED <<rows, minutes, generation, events>>
  BY DEF FindRow
<1>3. disturbed' \in BOOLEAN /\ Moves(t)
  <2>1. CASE Fails(t)
    BY <1>1, <2>1, FailsMoves
  <2>2. CASE Proceed(t, "idle") /\ UNCHANGED disturbed
    <3>1. Moves(t)
      BY <1>1, <2>2, ProceedMoves DEF Labels, Regenerating, Background
    <3>2. QED
      BY <1>1, <2>2, <3>1 DEF Rest
  <2>3. CASE task[t].at = "settling" /\ task' = Goto(t, "settle") /\ UNCHANGED <<lock, disturbed>>
    <3> DEFINE r == [task[t] EXCEPT !.at = "settle", !.copy = NoMeetingRow]
    <3>1. r \in Task /\ Needs(r) /\ ~Runs(task[t]) /\ ~Runs(r)
      BY <1>1, <2>3 DEF Task, Needs, Labels, RowUpdates, Runs, Regenerating, Background
    <3>2. task' = [task EXCEPT ![t] = r]
      BY <1>1, <2>3 DEF Goto, TypeInv, MeetingTypeOK
    <3> HIDE DEF r
    <3>3. QED
      BY <1>1, <2>3, <3>1, <3>2 DEF Moves, Locks, Rest
  <2>4. CASE Visible /\ task' = [task EXCEPT ![t].copy = row] /\ UNCHANGED <<lock, disturbed>>
    <3> DEFINE r == [task[t] EXCEPT !.copy = row]
    <3>1. r \in Task /\ r.at = task[t].at /\ r.on = task[t].on
      BY <1>1, <2>4 DEF Task, Rest
    <3>2. Needs(r)
      BY <1>1, <2>4 DEF Task, Needs, Visible, Rest
    <3>3. task' = [task EXCEPT ![t] = r]
      BY <1>1, <2>4 DEF TypeInv, MeetingTypeOK
    <3> HIDE DEF r
    <3>4. QED
      BY <1>1, <2>4, <3>1, <3>2, <3>3 DEF Moves, Locks, Runs, Rest
  <2>5. QED
    BY <2>1, <2>2, <2>3, <2>4, Zenon DEF FindRow
<1>4. QED
  BY <1>1, <1>2, <1>3, RestStays, MovesKeep

\* Whatever a row update saves is a row, in the list of the meetings, with the
\* prompt of the entity unless the update is about the prompt.
LEMMA EditedRows ==
    ASSUME NEW t \in Tasks, task[t] \in Task, Needs(task[t]),
           task[t].at \in RowUpdates, task[t].copy # NoMeetingRow,
           NEW r \in Edited(t)
    PROVE  /\ r \in Row /\ ~r.trashed
           /\ task[t].at \notin {"prompt", "setPrompt", "revertPrompt"} =>
                r.prompt = task[t].copy.prompt
           /\ task[t].at \in {"prompt", "setPrompt"} => r.prompt = task[t].arg
           /\ task[t].at = "revertPrompt" => r.prompt = task[t].original
<1> DEFINE copy == task[t].copy
<1>1. copy \in Row /\ ~copy.trashed
  BY DEF Task, Needs
<1>2. task[t].at \in {"prompt", "setPrompt"} => task[t].arg \in Prompts
  BY DEF Needs, Regenerating
<1>3. task[t].at = "revertPrompt" => task[t].original \in Prompts
  BY DEF Needs, Regenerating, Background
<1>4. CASE task[t].at = "complete"
  <2>1. PICK p \in {"uploading", "generating"} :
          r = [copy EXCEPT !.status = "processing", !.phase = p]
    BY <1>4 DEF Edited
  <2>2. QED
    BY <1>1, <1>4, <2>1 DEF Row
<1>5. CASE task[t].at = "title"
  BY <1>1, <1>5 DEF Edited, Row
<1>6. CASE task[t].at \in {"prompt", "setPrompt"}
  BY <1>1, <1>2, <1>6 DEF Edited, Row
<1>7. CASE task[t].at = "revertPrompt"
  BY <1>1, <1>3, <1>7 DEF Edited, Row
<1>8. CASE task[t].at \in {"setPhase", "settle", "attention"}
  BY <1>1, <1>8 DEF Edited, Row
<1>9. CASE task[t].at \notin {"complete", "title", "prompt", "setPrompt", "revertPrompt",
                              "setPhase", "settle", "attention"}
  BY <1>1, <1>9 DEF Edited, Row, Closed
<1>10. QED
  BY <1>4, <1>5, <1>6, <1>7, <1>8, <1>9

LEMMA SaveRowKeeps ==
    ASSUME IInv, NEW t \in Tasks, SaveRow(t)
    PROVE  IInv'
<1>1. TypeInv /\ Rest /\ task[t] \in Task /\ Needs(task[t])
  BY RestFacts, TaskFacts
<1>2. row' \in Row
  BY <1>1, EditedRows DEF SaveRow
<1>3. disturbed' \in BOOLEAN
  BY DEF SaveRow
<1>4. events' \in [Instances -> Nat]
  BY <1>1 DEF SaveRow, Rest, Task
<1>5. Rest'
  BY <1>1, <1>2, <1>3, <1>4 DEF SaveRow, Rest, GenerationNeeds
<1>6. Moves(t)
  <2>1. After(t) \in Labels \ {"ai", "saveMinutes", "prompt", "saveTitle", "edit"}
    BY DEF After, Labels, Background, RowUpdates
  <2>2. After(t) \in Regenerating => task[t].at \in Regenerating \ {"check"}
    BY DEF After, Regenerating, Background
  <2>3. After(t) # "idle" /\ task[t].at \in Regenerating => After(t) \in Regenerating
    BY DEF After, Regenerating, Background
  <2>4. QED
    BY <1>1, <2>1, <2>2, <2>3, ProceedMoves DEF SaveRow
<1>7. QED
  BY <1>5, <1>6, MovesKeep

LEMMA ReadTitleKeeps ==
    ASSUME IInv, NEW t \in Tasks, ReadTitle(t)
    PROVE  IInv'
<1>1. TypeInv /\ Rest /\ task[t] \in Task /\ Needs(task[t])
  BY RestFacts, TaskFacts
<1>2. UNCHANGED <<rows, minutes, generation, events, lock, disturbed>> /\ ~Runs(task[t])
  BY DEF ReadTitle, Runs, Regenerating, Background
<1>3. Moves(t)
  <2>1. CASE task' = Done(t)
    BY <1>1, <1>2, <2>1, IdleNeeds DEF Done, Moves, Locks, Task
  <2>2. CASE minutes # NoMinutes
             /\ task' = [task EXCEPT ![t].at = "saveTitle", ![t].minutes = minutes]
    <3> DEFINE r == [task[t] EXCEPT !.at = "saveTitle", !.minutes = minutes]
    <3>1. r \in Task /\ Needs(r) /\ ~Runs(r)
      BY <1>1, <2>2 DEF Task, Needs, Labels, Runs, Regenerating, Background, Rest
    <3>2. task' = [task EXCEPT ![t] = r]
      BY <1>1, <2>2 DEF TypeInv, MeetingTypeOK
    <3> HIDE DEF r
    <3>3. QED
      BY <1>2, <3>1, <3>2 DEF Moves, Locks
  <2>3. QED
    BY <2>1, <2>2, Zenon DEF ReadTitle
<1>4. QED
  BY <1>1, <1>2, <1>3, RestStays, MovesKeep DEF Rest

LEMMA SaveMinutesKeeps ==
    ASSUME IInv, NEW t \in Tasks, SaveMinutes(t)
    PROVE  IInv'
<1>1. TypeInv /\ Rest /\ task[t] \in Task /\ Needs(task[t])
  BY RestFacts, TaskFacts
<1>2. UNCHANGED <<rows, generation, events>>
  BY DEF SaveMinutes
<1>3. minutes' \in Minutes \cup {NoMinutes}
  <2>1. task[t].at = "saveTitle" => [task[t].minutes EXCEPT !.title = "manual"] \in Minutes
    BY <1>1 DEF Needs, Minutes
  <2>2. task[t].at = "edit" => [task[t].minutes EXCEPT !.content = "edited"] \in Minutes
    BY <1>1 DEF Needs, Minutes
  <2>3. task[t].at = "saveMinutes" =>
          [prompt |-> task[t].arg, content |-> "generated", title |-> task[t].copy.title] \in Minutes
    BY <1>1 DEF Needs, Minutes, Row, Regenerating, Background
  <2>4. QED
    BY <1>1, <2>1, <2>2, <2>3 DEF SaveMinutes, Rest
<1>4. disturbed' \in BOOLEAN /\ Moves(t)
  <2>1. CASE Fails(t)
    BY <1>1, <2>1, FailsMoves
  <2>2. CASE /\ disturbed' = (disturbed \/ minutes = NoMinutes
                                 \/ minutes.prompt # task[t].minutes.prompt)
             /\ Proceed(t, IF task[t].at = "saveMinutes" THEN "backPhase" ELSE "idle")
    <3>1. disturbed' \in BOOLEAN
      BY <2>2
    <3>2. CASE task[t].at = "saveMinutes"
      BY <1>1, <2>2, <3>1, <3>2, ProceedMoves DEF Labels, Regenerating, Background
    <3>3. CASE task[t].at # "saveMinutes"
      <4>1. ~Runs(task[t])
        BY <3>3 DEF SaveMinutes, Runs, Regenerating, Background
      <4>2. Proceed(t, "idle")
        BY <2>2, <3>3
      <4>3. QED
        BY <1>1, <3>1, <4>1, <4>2, ProceedMoves DEF Runs, Labels, Regenerating, Background
    <3>4. QED
      BY <3>2, <3>3
  <2>3. QED
    BY <2>1, <2>2, Zenon DEF SaveMinutes
<1>5. Rest'
  BY <1>1, <1>2, <1>3, <1>4 DEF Rest, rows, GenerationNeeds
<1>6. QED
  BY <1>4, <1>5, MovesKeep

LEMMA CheckPhaseKeeps ==
    ASSUME IInv, NEW t \in Tasks, CheckPhase(t)
    PROVE  IInv'
<1>1. TypeInv /\ Rest /\ task[t] \in Task /\ Needs(task[t])
  BY RestFacts, TaskFacts
<1>2. UNCHANGED <<rows, minutes, generation, events, disturbed>>
      /\ task[t].at = "check" /\ task[t].copy # NoMeetingRow
  BY DEF CheckPhase
<1>3. Moves(t)
  <2>1. CASE Proceed(t, "idle")
    BY <1>1, <2>1, ProceedMoves DEF Labels, Regenerating, Background
  <2>2. CASE /\ task' = [Goto(t, "checkMinutes") EXCEPT ![t].original = task[t].copy.prompt]
             /\ UNCHANGED lock
    <3> DEFINE r == [task[t] EXCEPT !.at = "checkMinutes", !.copy = NoMeetingRow,
                                    !.original = task[t].copy.prompt]
    <3>1. task[t].copy.prompt \in Prompts
      BY <1>1, <1>2 DEF Task, Row
    <3>2. r \in Task /\ r.on = task[t].on /\ r.at = "checkMinutes"
      BY <1>1, <3>1 DEF Task, Labels
    <3>3. Needs(r)
      BY <1>1, <1>2, <3>1 DEF Task, Needs, Regenerating, Background
    <3>4. task' = [task EXCEPT ![t] = r]
      BY <1>1, <2>2 DEF Goto, TypeInv, MeetingTypeOK, Task
    <3>5. Runs(task[t]) /\ (r.at = "checkMinutes" => Runs(r))
      BY <1>2 DEF Runs, Regenerating
    <3> HIDE DEF r
    <3>6. QED
      BY <2>2, <3>2, <3>3, <3>4, <3>5 DEF Moves, Locks
  <2>3. QED
    BY <2>1, <2>2, Zenon DEF CheckPhase
<1>4. QED
  BY <1>1, <1>2, <1>3, RestStays, MovesKeep DEF Rest

LEMMA CheckMinutesKeeps ==
    ASSUME IInv, NEW t \in Tasks, CheckMinutes(t)
    PROVE  IInv'
<1>1. TypeInv /\ Rest
  BY RestFacts
<1>2. UNCHANGED <<rows, minutes, generation, events, disturbed>> /\ task[t].at = "checkMinutes"
  BY DEF CheckMinutes
<1>3. Moves(t)
  <2>1. CASE Proceed(t, "idle")
    BY <1>1, <2>1, ProceedMoves DEF Labels, Regenerating, Background
  <2>2. CASE Proceed(t, "setPrompt")
    BY <1>1, <1>2, <2>2, ProceedMoves DEF Labels, RowUpdates, Regenerating
  <2>3. QED
    BY <2>1, <2>2, Zenon DEF CheckMinutes
<1>4. QED
  BY <1>1, <1>2, <1>3, RestStays, MovesKeep DEF Rest

LEMMA ReadMinutesKeeps ==
    ASSUME IInv, NEW t \in Tasks, ReadMinutes(t)
    PROVE  IInv'
<1>1. TypeInv /\ Rest /\ task[t] \in Task /\ Needs(task[t])
  BY RestFacts, TaskFacts
<1>2. UNCHANGED <<rows, minutes, generation, events>> /\ task[t].at = "readMinutes"
  BY DEF ReadMinutes
<1>3. disturbed' \in BOOLEAN /\ Moves(t)
  <2>1. CASE Fails(t)
    BY <1>1, <2>1, FailsMoves
  <2>2. CASE /\ minutes # NoMinutes
             /\ task' = [task EXCEPT ![t].at = "payload", ![t].minutes = minutes]
             /\ UNCHANGED <<lock, disturbed>>
    <3> DEFINE r == [task[t] EXCEPT !.at = "payload", !.minutes = minutes]
    <3>1. r \in Task /\ Needs(r) /\ r.on = task[t].on /\ r.at = "payload"
      BY <1>1, <1>2, <2>2 DEF Task, Needs, Labels, Regenerating, Background, RowReads, Rest
    <3>2. task' = [task EXCEPT ![t] = r]
      BY <1>1, <2>2 DEF TypeInv, MeetingTypeOK
    <3>3. Runs(task[t]) /\ (r.at = "payload" => Runs(r))
      BY <1>2 DEF Runs, Regenerating, Background
    <3> HIDE DEF r
    <3>4. QED
      BY <1>1, <2>2, <3>1, <3>2, <3>3 DEF Moves, Locks, Rest
  <2>3. QED
    BY <2>1, <2>2, Zenon DEF ReadMinutes
<1>4. QED
  BY <1>1, <1>2, <1>3, RestStays, MovesKeep

LEMMA PayloadReadKeeps ==
    ASSUME IInv, NEW t \in Tasks, PayloadRead(t)
    PROVE  IInv'
<1>1. TypeInv /\ Rest /\ task[t] \in Task /\ Needs(task[t])
  BY RestFacts, TaskFacts
<1>2. UNCHANGED <<rows, minutes, generation, events, disturbed>>
      /\ task[t].at = "payload" /\ task[t].copy # NoMeetingRow
  BY DEF PayloadRead
<1>3. Moves(t)
  <2>1. CASE Proceed(t, Catch(t))
    <3>1. Catch(t) = "revertPrompt"
      BY <1>2 DEF Catch, Background
    <3>2. QED
      BY <1>1, <1>2, <2>1, <3>1, ProceedMoves DEF Labels, RowUpdates, Regenerating, Background
  <2>2. CASE task' = [task EXCEPT ![t].at = "ai"] /\ UNCHANGED lock
    <3> DEFINE r == [task[t] EXCEPT !.at = "ai"]
    <3>1. r \in Task /\ r.on = task[t].on /\ r.at = "ai"
      BY <1>1 DEF Task, Labels, Background
    <3>2. Needs(r)
      BY <1>1, <1>2 DEF Task, Needs, Regenerating, Background
    <3>3. task' = [task EXCEPT ![t] = r]
      BY <1>1, <2>2 DEF TypeInv, MeetingTypeOK
    <3>4. Runs(task[t]) /\ (r.at = "ai" => Runs(r))
      BY <1>2 DEF Runs, Regenerating, Background
    <3> HIDE DEF r
    <3>5. QED
      BY <2>2, <3>1, <3>2, <3>3, <3>4 DEF Moves, Locks
  <2>3. QED
    BY <2>1, <2>2, Zenon DEF PayloadRead
<1>4. QED
  BY <1>1, <1>2, <1>3, RestStays, MovesKeep DEF Rest

\* The title the model gives an untitled meeting is its only effect on the row.
LEMMA GenerateKeepsRow ==
    ASSUME Rest, NEW copy \in Row, Generate(copy)
    PROVE  /\ row' \in Row \cup {NoMeetingRow} /\ age' \in 0..2
           /\ Named(copy) \in Row /\ Named(copy).prompt = copy.prompt
           /\ Named(copy).trashed = copy.trashed
           /\ row = NoMeetingRow <=> row' = NoMeetingRow
           /\ row # NoMeetingRow => row'.prompt = row.prompt /\ row'.trashed = row.trashed
<1>1. GeneratedTitle(copy) \in Row \cup {NoMeetingRow}
      /\ (row = NoMeetingRow => GeneratedTitle(copy) = row)
      /\ (row # NoMeetingRow => /\ GeneratedTitle(copy) \in Row
                                /\ GeneratedTitle(copy).prompt = row.prompt
                                /\ GeneratedTitle(copy).trashed = row.trashed)
  BY DEF GeneratedTitle, Row, Rest
<1>2. [copy EXCEPT !.title = "generated"] \in Row
      /\ [copy EXCEPT !.title = "generated"].prompt = copy.prompt
      /\ [copy EXCEPT !.title = "generated"].trashed = copy.trashed
  BY DEF Row
<1>3. row' \in {row, GeneratedTitle(copy)} /\ age' \in 0..2
  BY DEF Generate, Rest
<1>4. QED
  BY <1>1, <1>2, <1>3, MeetingAssumption DEF Named, Rest

LEMMA RunModelKeeps ==
    ASSUME IInv, NEW t \in Tasks, RunModel(t)
    PROVE  IInv'
<1>1. TypeInv /\ Rest /\ task[t] \in Task /\ Needs(task[t]) /\ task[t].copy \in Row
  BY RestFacts, TaskFacts DEF Needs, RunModel
<1>2. UNCHANGED <<minutes, generation, lock, events, disturbed>> /\ task[t].at = "ai"
  BY DEF RunModel
<1>3. /\ row' \in Row \cup {NoMeetingRow} /\ age' \in 0..2
      /\ Named(task[t].copy) \in Row /\ Named(task[t].copy).trashed = task[t].copy.trashed
  BY <1>1, GenerateKeepsRow DEF RunModel
<1>4. Rest'
  BY <1>1, <1>2, <1>3 DEF Rest, GenerationNeeds
<1>5. Moves(t)
  <2> DEFINE r == [task[t] EXCEPT !.at = "saveMinutes", !.copy = Named(task[t].copy)]
  <2>1. r \in Task /\ r.on = task[t].on /\ r.at = "saveMinutes"
    BY <1>1, <1>3 DEF Task, Labels, Background
  <2>2. Needs(r)
    BY <1>1, <1>2, <1>3, MeetingAssumption DEF Task, Needs, Regenerating, Background
  <2>3. task' = [task EXCEPT ![t] = r]
    BY <1>1 DEF RunModel, TypeInv, MeetingTypeOK
  <2>4. Runs(task[t]) /\ (r.at = "saveMinutes" => Runs(r))
    BY <1>2 DEF Runs, Regenerating, Background
  <2> HIDE DEF r
  <2>5. QED
    BY <1>2, <2>1, <2>2, <2>3, <2>4 DEF Moves, Locks
<1>6. QED
  BY <1>4, <1>5, MovesKeep

LEMMA OpenMinutesKeeps ==
    ASSUME IInv, NEW t \in Tasks, OpenMinutes(t)
    PROVE  IInv'
<1>1. TypeInv /\ Rest /\ task[t] \in Task /\ Needs(task[t]) /\ task[t].on \in Instances
  BY RestFacts, TaskFacts DEF Task
<1>2. /\ UNCHANGED <<rows, minutes, lock, events, disturbed>>
      /\ task[t].at \in {"open", "pipeline"} /\ ~Runs(task[t])
  BY DEF OpenMinutes, Runs, Regenerating, Background
<1>3. Rest'
  <2>1. generation' \in [Instances -> Generation]
    BY <1>1 DEF OpenMinutes, Rest, Generation
  <2>2. \A j \in Instances : GenerationNeeds(j)'
    BY <1>1 DEF OpenMinutes, Rest, Generation, GenerationNeeds
  <2>3. QED
    BY <1>1, <1>2, <2>1, <2>2 DEF Rest, rows
<1>4. Moves(t)
  <2> DEFINE Next(r) == /\ r \in Task /\ Needs(r) /\ ~Runs(r)
                        /\ task' = [task EXCEPT ![t] = r]
  <2>1. ASSUME NEW r \in Task, Next(r) PROVE Moves(t)
    BY <1>2, <2>1 DEF Moves, Locks
  <2>2. CASE task' = Done(t)
    BY <1>1, <2>1, <2>2, IdleNeeds DEF Done
  <2>3. CASE minutes # NoMinutes /\ task' = [Goto(t, "edit") EXCEPT ![t].minutes = minutes]
    <3> DEFINE r == [task[t] EXCEPT !.at = "edit", !.copy = NoMeetingRow, !.minutes = minutes]
    <3>1. r \in Task /\ Needs(r) /\ ~Runs(r)
      BY <1>1, <2>3 DEF Task, Needs, Labels, Runs, Regenerating, Background, Rest
    <3>2. task' = [task EXCEPT ![t] = r]
      BY <1>1, <2>3 DEF Goto, TypeInv, MeetingTypeOK
    <3> QED
      BY <2>1, <3>1, <3>2
  <2>4. CASE task' = Goto(t, "finish")
    <3> DEFINE r == [task[t] EXCEPT !.at = "finish", !.copy = NoMeetingRow]
    <3>0. "finish" \in Labels /\ "finish" \notin Regenerating
      BY DEF Labels, RowUpdates, Regenerating, Background
    <3>1. r \in Task /\ Needs(r) /\ ~Runs(r)
      BY <1>1, <3>0 DEF Task, Needs, Runs
    <3>2. task' = [task EXCEPT ![t] = r]
      BY <1>1, <2>4 DEF Goto, TypeInv, MeetingTypeOK
    <3> QED
      BY <2>1, <3>1, <3>2
  <2>5. CASE task' = [Goto(t, "await") EXCEPT ![t].caller = task[t].at]
    <3> DEFINE r == [task[t] EXCEPT !.at = "await", !.copy = NoMeetingRow, !.caller = task[t].at]
    <3>1. r \in Task /\ Needs(r) /\ ~Runs(r)
      BY <1>1, <1>2 DEF Task, Needs, Labels, Runs, Regenerating, Background
    <3>2. task' = [task EXCEPT ![t] = r]
      BY <1>1, <2>5 DEF Goto, TypeInv, MeetingTypeOK
    <3> QED
      BY <2>1, <3>1, <3>2
  <2> QED
    BY <2>2, <2>3, <2>4, <2>5, Zenon DEF OpenMinutes
<1>5. QED
  BY <1>3, <1>4, MovesKeep

LEMMA NoGenerationFacts == NoGeneration \in Generation /\ NoGeneration.at = "idle"
                           /\ NoGeneration.copy = NoMeetingRow
BY DEF NoGeneration, Generation

\* When the shared promise settles, the tasks that leave it hold no lock before
\* and after.
LEMMA AwaitingTasks ==
    ASSUME IInv, NEW i \in Instances, NEW found \in Minutes \cup {NoMinutes},
           EndGeneration(i, found), NEW t \in Tasks
    PROVE  /\ task'[t] \in Task /\ Needs(task'[t])
           /\ \/ task'[t] = task[t]
              \/ ~Runs(task[t]) /\ ~Runs(task'[t])
<1>1. PICK flagged \in BOOLEAN :
        task' = [u \in Tasks |->
           IF task[u].at # "await" \/ task[u].on # i THEN task[u]
           ELSE IF task[u].caller = "pipeline"
           THEN [Idle(i) EXCEPT !.at = IF flagged \/ found = NoMinutes
                                       THEN "attention" ELSE "finish"]
           ELSE [Idle(i) EXCEPT !.at = IF found = NoMinutes THEN "idle" ELSE "edit",
                                !.minutes = found]]
  BY DEF EndGeneration
<1>2. ASSUME NEW label \in {"attention", "finish"}
      PROVE  /\ [Idle(i) EXCEPT !.at = label] \in Task
             /\ Needs([Idle(i) EXCEPT !.at = label]) /\ ~Runs([Idle(i) EXCEPT !.at = label])
  BY DEF Idle, Task, Labels, RowUpdates, Needs, Runs, Regenerating, Background
<1>3. ASSUME NEW label \in {"idle", "edit"}, label = "edit" => found # NoMinutes
      PROVE  /\ [Idle(i) EXCEPT !.at = label, !.minutes = found] \in Task
             /\ Needs([Idle(i) EXCEPT !.at = label, !.minutes = found])
             /\ ~Runs([Idle(i) EXCEPT !.at = label, !.minutes = found])
  BY <1>3 DEF Idle, Task, Labels, Needs, Runs, Regenerating, Background
<1>4. CASE task[t].at # "await" \/ task[t].on # i
  BY <1>1, <1>4, TaskFacts, RestFacts
<1>5. CASE task[t].at = "await" /\ task[t].on = i
  <2>1. ~Runs(task[t])
    BY <1>5 DEF Runs, Regenerating, Background
  <2>2. CASE task[t].caller = "pipeline"
    BY <1>1, <1>2, <1>5, <2>1, <2>2
  <2>3. CASE task[t].caller # "pipeline"
    <3>1. task'[t] = [Idle(i) EXCEPT !.at = IF found = NoMinutes THEN "idle" ELSE "edit",
                                     !.minutes = found]
      BY <1>1, <1>5, <2>3
    <3>2. CASE found = NoMinutes
      BY <1>3, <2>1, <3>1, <3>2
    <3>3. CASE found # NoMinutes
      BY <1>3, <2>1, <3>1, <3>3
    <3>4. QED
      BY <3>2, <3>3
  <2>4. QED
    BY <2>2, <2>3
<1>6. QED
  BY <1>4, <1>5

LEMMA EndGenerationKeeps ==
    ASSUME IInv, NEW i \in Instances, NEW found \in Minutes \cup {NoMinutes},
           EndGeneration(i, found), UNCHANGED <<lock, events>>,
           row' \in Row \cup {NoMeetingRow}, age' \in 0..2,
           minutes' \in Minutes \cup {NoMinutes}, disturbed' \in BOOLEAN
    PROVE  IInv'
<1>1. TypeInv /\ Rest
  BY RestFacts
<1>2. Rest'
  <2>1. generation' \in [Instances -> Generation]
    BY <1>1, NoGenerationFacts DEF EndGeneration, Rest
  <2>2. \A j \in Instances : GenerationNeeds(j)'
    BY <1>1, NoGenerationFacts DEF EndGeneration, Rest, GenerationNeeds
  <2>3. QED
    BY <1>1, <2>1, <2>2 DEF Rest
<1>3. \A t \in Tasks : /\ task'[t] \in Task /\ Needs(task'[t])
                       /\ \/ task'[t] = task[t]
                          \/ ~Runs(task[t]) /\ ~Runs(task'[t])
  BY AwaitingTasks
<1>4. task' \in [Tasks -> Task]
  <2>1. task' = [t \in Tasks |-> task'[t]]
    BY DEF EndGeneration
  <2>2. QED
    BY <1>3, <2>1
<1>5. \A t \in Tasks : TaskNeeds(t)'
  BY <1>3 DEF Needs, TaskNeeds
<1>6. LockInv'
  BY <1>3 DEF LockInv, IInv
<1>7. QED
  BY <1>2, <1>4, <1>5, <1>6 DEF IInv, TypeInv, MeetingTypeOK, Rest

\* A step that moves one generation and no task.
LEMMA OneGenerationMoves ==
    ASSUME IInv, NEW i \in Instances, NEW g \in Generation,
           generation' = [generation EXCEPT ![i] = g],
           g.at \in {"ai", "insert"} => g.copy \in Row,
           g.copy # NoMeetingRow => ~g.copy.trashed,
           UNCHANGED <<task, lock, events>>,
           row' \in Row \cup {NoMeetingRow}, age' \in 0..2,
           minutes' \in Minutes \cup {NoMinutes}, disturbed' \in BOOLEAN
    PROVE  IInv'
<1>1. Rest /\ TypeInv
  BY RestFacts
<1>2. \A j \in Instances : GenerationNeeds(j)'
  BY <1>1 DEF GenerationNeeds, Rest
<1>3. \A t \in Tasks : TaskNeeds(t)'
  BY <1>1 DEF TypeInv, TaskNeeds
<1>4. LockInv'
  BY DEF IInv, LockInv
<1>5. QED
  BY <1>1, <1>2, <1>3, <1>4 DEF IInv, TypeInv, MeetingTypeOK, Rest

LEMMA GenerationKeeps ==
    ASSUME IInv, NEW i \in Instances, GenerationStep(i)
    PROVE  IInv'
<1>1. /\ TypeInv /\ Rest /\ generation[i] \in Generation /\ GenerationNeeds(i)
      /\ generation \in [Instances -> Generation]
  BY RestFacts DEF Rest
<1>2. CASE Recheck(i)
  <2>0. UNCHANGED <<rows, minutes, lock, events, disturbed>> /\ generation[i].at = "recheck"
    BY <1>2 DEF Recheck
  <2>1. CASE minutes # NoMinutes /\ EndGeneration(i, minutes)
    BY <1>1, <2>0, <2>1, EndGenerationKeeps DEF Rest, rows
  <2>2. CASE generation' = [generation EXCEPT ![i].at = "payload"] /\ UNCHANGED task
    <3> DEFINE g == [generation[i] EXCEPT !.at = "payload"]
    <3>1. g \in Generation /\ g.at = "payload" /\ g.copy = generation[i].copy
      BY <1>1 DEF Generation
    <3>2. generation' = [generation EXCEPT ![i] = g]
      BY <1>1, <2>2
    <3>3. g.copy # NoMeetingRow => ~g.copy.trashed
      BY <1>1, <3>1 DEF GenerationNeeds
    <3> HIDE DEF g
    <3>4. QED
      BY <1>1, <2>0, <2>2, <3>1, <3>2, <3>3, OneGenerationMoves DEF Rest, rows
  <2>3. QED
    BY <1>2, <2>1, <2>2, Zenon DEF Recheck
<1>3. CASE GenerationReads(i)
  <2>0. UNCHANGED <<rows, minutes, lock, events>>
    BY <1>3 DEF GenerationReads
  <2>1. CASE EndGeneration(i, NoMinutes) /\ disturbed' = TRUE
    BY <1>1, <2>0, <2>1, EndGenerationKeeps DEF Rest, rows
  <2>2. CASE /\ Visible /\ generation' = [generation EXCEPT ![i] = [at |-> "ai", copy |-> row]]
             /\ UNCHANGED <<task, disturbed>>
    <3>1. [at |-> "ai", copy |-> row] \in Generation /\ row \in Row /\ ~row.trashed
      BY <1>1, <2>2 DEF Generation, Visible, Rest
    <3>2. QED
      BY <1>1, <2>0, <2>2, <3>1, OneGenerationMoves DEF Rest, rows
  <2>3. QED
    BY <1>3, <2>1, <2>2, Zenon DEF GenerationReads
<1>4. CASE GenerationRunsModel(i)
  <2>1. generation[i].copy \in Row /\ generation[i].at = "ai"
    BY <1>1, <1>4 DEF GenerationNeeds, GenerationRunsModel
  <2>2. /\ row' \in Row \cup {NoMeetingRow} /\ age' \in 0..2
        /\ Named(generation[i].copy) \in Row
        /\ Named(generation[i].copy).trashed = generation[i].copy.trashed
    BY <1>1, <1>4, <2>1, GenerateKeepsRow DEF GenerationRunsModel
  <2> DEFINE g == [generation[i] EXCEPT !.at = "insert", !.copy = Named(generation[i].copy)]
  <2>3. g \in Generation /\ g.copy \in Row
    BY <1>1, <2>2 DEF Generation
  <2>4. generation' = [generation EXCEPT ![i] = g]
    BY <1>1, <1>4 DEF GenerationRunsModel, Generation
  <2>5. ~g.copy.trashed
    BY <1>1, <2>1, <2>2, MeetingAssumption DEF GenerationNeeds, Generation
  <2> HIDE DEF g
  <2>6. QED
    BY <1>1, <1>4, <2>2, <2>3, <2>4, <2>5, OneGenerationMoves DEF GenerationRunsModel, Rest
<1>5. CASE InsertMinutes(i)
  <2>0. UNCHANGED <<rows, lock, events>> /\ generation[i].at = "insert"
    BY <1>5 DEF InsertMinutes
  <2>1. CASE EndGeneration(i, NoMinutes) /\ disturbed' = TRUE /\ UNCHANGED minutes
    BY <1>1, <2>0, <2>1, EndGenerationKeeps DEF Rest, rows
  <2>2. CASE UNCHANGED <<minutes, disturbed>> /\ EndGeneration(i, minutes)
    BY <1>1, <2>0, <2>2, EndGenerationKeeps DEF Rest, rows
  <2>3. CASE /\ minutes' = [prompt |-> generation[i].copy.prompt, content |-> "generated",
                             title |-> generation[i].copy.title]
             /\ disturbed' = (disturbed \/ row.prompt # generation[i].copy.prompt)
             /\ generation' = [generation EXCEPT ![i] = [at |-> "phase", copy |-> NoMeetingRow]]
             /\ UNCHANGED task
    <3>1. generation[i].copy \in Row
      BY <1>1, <2>0 DEF GenerationNeeds
    <3>2. minutes' \in Minutes /\ disturbed' \in BOOLEAN
      BY <2>3, <3>1 DEF Minutes, Row
    <3>3. [at |-> "phase", copy |-> NoMeetingRow] \in Generation
      BY DEF Generation
    <3>4. QED
      BY <1>1, <2>0, <2>3, <3>2, <3>3, OneGenerationMoves DEF Rest, rows
  <2>4. QED
    BY <1>5, <2>1, <2>2, <2>3, Zenon DEF InsertMinutes
<1>6. CASE GenerationFindsRow(i)
  <2>0. UNCHANGED <<rows, lock, events>> /\ generation[i].at = "phase"
    BY <1>6 DEF GenerationFindsRow
  <2>1. CASE UNCHANGED minutes /\ EndGeneration(i, NoMinutes) /\ disturbed' = TRUE
    BY <1>1, <2>0, <2>1, EndGenerationKeeps DEF Rest, rows
  <2>2. CASE /\ Visible /\ generation' = [generation EXCEPT ![i].copy = row]
             /\ UNCHANGED <<task, disturbed, minutes>>
    <3> DEFINE g == [generation[i] EXCEPT !.copy = row]
    <3>1. g \in Generation /\ g.at = "phase" /\ ~g.copy.trashed
      BY <1>1, <2>0, <2>2 DEF Generation, Visible, Rest
    <3>2. generation' = [generation EXCEPT ![i] = g]
      BY <1>1, <2>2
    <3> HIDE DEF g
    <3>3. QED
      BY <1>1, <2>0, <2>2, <3>1, <3>2, OneGenerationMoves DEF Rest, rows
  <2>3. QED
    BY <1>6, <2>1, <2>2, Zenon DEF GenerationFindsRow
<1>7. CASE GenerationSavesRow(i)
  <2>1. generation[i].copy \in Row
    BY <1>1, <1>7 DEF GenerationSavesRow, Generation
  <2>2. row' \in Row
    BY <1>7, <2>1 DEF GenerationSavesRow, Closed, Row
  <2>3. Rest /\ TypeInv /\ disturbed' \in BOOLEAN
    BY <1>1, <1>7 DEF GenerationSavesRow
  <2>4. UNCHANGED <<lock, events, minutes>> /\ EndGeneration(i, minutes) /\ age' = 0
    BY <1>7 DEF GenerationSavesRow
  <2>5. QED
    BY <2>2, <2>3, <2>4, EndGenerationKeeps DEF Rest, rows
<1>8. QED
  BY <1>2, <1>3, <1>4, <1>5, <1>6, <1>7 DEF GenerationStep

\* The requests and handlers that start; a regeneration takes the lock as it does.
LEMMA StartMoves ==
    ASSUME TypeInv, NEW t \in Tasks, task[t].at = "idle", NEW i \in Instances,
           NEW label \in Labels \ (Regenerating \cup {"saveTitle", "edit", "ai", "saveMinutes"}),
           NEW p \in Prompts \cup {NoPrompt}, label = "prompt" => p \in Prompts,
           task' = [task EXCEPT ![t] = [Idle(i) EXCEPT !.at = label, !.arg = p]],
           UNCHANGED lock
    PROVE  Moves(t)
<1> DEFINE r == [Idle(i) EXCEPT !.at = label, !.arg = p]
<1>1. r \in Task /\ Needs(r) /\ ~Runs(r)
  BY DEF Idle, Task, Needs, Runs
<1>2. ~Runs(task[t])
  BY DEF Runs, Regenerating, Background
<1> HIDE DEF r
<1>3. QED
  BY <1>1, <1>2 DEF Moves, Locks, r

LEMMA RequestKeeps ==
    ASSUME IInv, NEW t \in Tasks, NEW i \in Instances,
           NEW label \in {"complete", "title", "open", "prompt"},
           NEW p \in Prompts \cup {NoPrompt}, label = "prompt" => p \in Prompts,
           Request(t, i, label, p)
    PROVE  IInv'
<1>1. TypeInv /\ Rest
  BY RestFacts
<1>2. UNCHANGED <<rows, minutes, generation, lock, events, disturbed>>
  BY DEF Request
<1>3. label \in Labels \ (Regenerating \cup {"saveTitle", "edit", "ai", "saveMinutes"})
  BY DEF Labels, RowUpdates, RowReads, Regenerating, Background
<1>4. Moves(t)
  BY <1>1, <1>2, <1>3, StartMoves DEF Request
<1>5. QED
  BY <1>1, <1>2, <1>4, RestStays, MovesKeep DEF Rest

\* The handlers that carry no prompt.
LEMMA HandlerMoves ==
    ASSUME TypeInv, NEW t \in Tasks, task[t].at = "idle", NEW i \in Instances,
           NEW label \in {"settling", "pipeline", "clear"},
           task' = [task EXCEPT ![t] = [Idle(i) EXCEPT !.at = label]], UNCHANGED lock
    PROVE  Moves(t)
<1>1. label \in Labels \ (Regenerating \cup {"saveTitle", "edit", "ai", "saveMinutes", "prompt"})
  BY DEF Labels, RowUpdates, RowReads, Regenerating, Background
<1> DEFINE r == [Idle(i) EXCEPT !.at = label]
<1>2. r \in Task /\ Needs(r) /\ ~Runs(r)
  BY <1>1 DEF Idle, Task, Needs, Runs
<1>3. ~Runs(task[t])
  BY DEF Runs, Regenerating, Background
<1> HIDE DEF r
<1>4. QED
  BY <1>2, <1>3 DEF Moves, Locks, r

LEMMA RegenerationKeeps ==
    ASSUME IInv, NEW t \in Tasks, NEW i \in Instances, NEW p \in Prompts,
           RequestRegeneration(t, i, p)
    PROVE  IInv'
<1>1. TypeInv /\ Rest
  BY RestFacts
<1>2. UNCHANGED <<rows, minutes, generation, events, disturbed>>
  BY DEF RequestRegeneration
<1> DEFINE r == [Idle(i) EXCEPT !.at = "check", !.arg = p]
<1>3. r \in Task /\ Needs(r) /\ r.on = i /\ Runs(r)
  BY DEF Idle, Task, Needs, Runs, Regenerating, Labels, RowReads
<1>4. task' = [task EXCEPT ![t] = r] /\ i \notin lock /\ lock' = lock \cup {i}
      /\ task[t].at = "idle"
  BY DEF RequestRegeneration, BeginRegeneration
<1>5. ~Runs(task[t])
  BY <1>4 DEF Runs, Regenerating, Background
<1> HIDE DEF r
<1>6. Moves(t)
  BY <1>3, <1>4, <1>5 DEF Moves, Locks
<1>7. QED
  BY <1>1, <1>2, <1>6, RestStays, MovesKeep DEF Rest

LEMMA CrashKeeps ==
    ASSUME IInv, NEW i \in Instances, CrashInstance(i)
    PROVE  IInv'
<1>1. TypeInv /\ Rest
  BY RestFacts
<1>2. Rest'
  <2>1. \A j \in Instances : GenerationNeeds(j)'
    BY <1>1, NoGenerationFacts DEF CrashInstance, Rest, GenerationNeeds
  <2>2. QED
    BY <1>1, <2>1, NoGenerationFacts DEF CrashInstance, Rest, rows
<1>3. \A t \in Tasks : /\ task'[t] \in Task /\ Needs(task'[t])
                       /\ task'[t] = IF task[t].on = i THEN Idle(i) ELSE task[t]
  BY <1>1, TaskFacts, IdleNeeds DEF CrashInstance
<1>4. task' \in [Tasks -> Task] /\ \A t \in Tasks : TaskNeeds(t)'
  BY <1>3 DEF CrashInstance, Needs, TaskNeeds
<1>5. lock' = lock \ {i} /\ ~Runs(Idle(i)) /\ Idle(i).on = i
  BY IdleNeeds DEF CrashInstance, Idle
<1>6. LockInv'
  BY <1>3, <1>5 DEF LockInv, IInv
<1>7. QED
  BY <1>1, <1>2, <1>4, <1>5, <1>6 DEF IInv, TypeInv, MeetingTypeOK, Rest

LEMMA TaskStepKeeps ==
    ASSUME IInv, NEW t \in Tasks, TaskStep(t)
    PROVE  IInv'
BY FindRowKeeps, SaveRowKeeps, ReadTitleKeeps, SaveMinutesKeeps, CheckPhaseKeeps,
   CheckMinutesKeeps, ReadMinutesKeeps, PayloadReadKeeps, RunModelKeeps, OpenMinutesKeeps
   DEF TaskStep

\* Steps that change neither tasks nor locks nor generations.
LEMMA RowOnlyKeeps ==
    ASSUME IInv, UNCHANGED <<task, lock, generation, events>>,
           row' \in Row \cup {NoMeetingRow}, age' \in 0..2,
           minutes' \in Minutes \cup {NoMinutes}, disturbed' \in BOOLEAN
    PROVE  IInv'
BY DEF IInv, TypeInv, MeetingTypeOK, TaskNeeds, GenerationNeeds, LockInv

LEMMA InitIInv == MeetingInit => IInv
<1> SUFFICES ASSUME MeetingInit PROVE IInv
  OBVIOUS
<1>1. PICK i \in Instances : task = [t \in Tasks |-> Idle(i)]
  BY DEF MeetingInit
<1>2. task \in [Tasks -> Task] /\ \A t \in Tasks : TaskNeeds(t) /\ ~Runs(task[t])
  BY <1>1, IdleNeeds DEF Needs, TaskNeeds
<1>3. generation \in [Instances -> Generation] /\ \A j \in Instances : GenerationNeeds(j)
  BY NoGenerationFacts DEF MeetingInit, GenerationNeeds
<1>4. PICK done \in BOOLEAN :
         /\ row = [status |-> IF done THEN "completed" ELSE "recording",
                   phase |-> "none", title |-> "none", prompt |-> DefaultPrompt,
                   trashed |-> FALSE]
         /\ minutes = IF done THEN [prompt |-> DefaultPrompt, title |-> "none",
                                    content |-> "generated"]
                              ELSE NoMinutes
  BY DEF MeetingInit
<1>5. row \in Row /\ minutes \in Minutes \cup {NoMinutes}
  BY <1>4, MeetingAssumption DEF Row, Minutes
<1>6. LockInv
  BY <1>2 DEF MeetingInit, LockInv
<1>7. /\ age = 0 /\ lock = {} /\ events = [j \in Instances |-> 0]
      /\ disturbed \in BOOLEAN
  BY Zenon DEF MeetingInit
<1>8. QED
  BY <1>2, <1>3, <1>5, <1>6, <1>7 DEF IInv, TypeInv, MeetingTypeOK

LEMMA NextIInv == IInv /\ [MeetingNext]_meetingVars => IInv'
<1> SUFFICES ASSUME IInv, [MeetingNext]_meetingVars PROVE IInv'
  OBVIOUS
<1>0. TypeInv /\ Rest
  BY RestFacts
<1>1. CASE UNCHANGED meetingVars
  BY <1>0, <1>1, RowOnlyKeeps DEF meetingVars, rows, Rest
<1>2. ASSUME NEW t \in Tasks, TaskStep(t) PROVE IInv'
  BY <1>2, TaskStepKeeps
<1>3. ASSUME NEW i \in Instances, GenerationStep(i) PROVE IInv'
  BY <1>3, GenerationKeeps
<1>4. ASSUME NEW t \in Tasks, NEW i \in Instances,
             CompleteMeeting(t, i) \/ PatchTitle(t, i) \/ PatchResult(t, i)
      PROVE  IInv'
  BY <1>4, RequestKeeps DEF CompleteMeeting, PatchTitle, PatchResult
<1>5. ASSUME NEW t \in Tasks, NEW i \in Instances, NEW p \in Prompts, PatchPrompt(t, i, p)
      PROVE  IInv'
  BY <1>5, RequestKeeps DEF PatchPrompt
<1>6. ASSUME NEW t \in Tasks, NEW i \in Instances, NEW p \in Prompts,
             RequestRegeneration(t, i, p)
      PROVE  IInv'
  BY <1>6, RegenerationKeeps
<1>7. ASSUME NEW t \in Tasks, NEW i \in Instances,
             TranscriptionSettles(t, i) \/ RecoverStalledRegeneration(t, i)
      PROVE  IInv'
  <2>1. Moves(t) /\ UNCHANGED <<rows, minutes, generation, events, disturbed>>
    BY <1>0, <1>7, HandlerMoves DEF TranscriptionSettles, RecoverStalledRegeneration
  <2>2. QED
    BY <1>0, <2>1, RestStays, MovesKeep DEF Rest
<1>8. ASSUME NEW t \in Tasks, NEW i \in Instances, HandleGenerating(t, i) PROVE IInv'
  <2>1. Moves(t)
    BY <1>0, <1>8, HandlerMoves DEF HandleGenerating
  <2>2. Rest'
    <3>1. events' \in [Instances -> Nat]
      BY <1>0, <1>8 DEF HandleGenerating, Rest
    <3>2. QED
      BY <1>0, <1>8, <3>1 DEF HandleGenerating, Rest, rows, GenerationNeeds
  <2>3. QED
    BY <2>1, <2>2, MovesKeep
<1>9. CASE TimePasses
  <2>1. age' \in 0..2
    BY <1>0, <1>9 DEF TimePasses, Rest
  <2>2. QED
    BY <1>0, <1>9, <2>1, RowOnlyKeeps DEF TimePasses, Rest
<1>10. CASE TrashMeeting \/ RestoreMeeting
  <2>1. row' \in Row
    BY <1>0, <1>10 DEF TrashMeeting, RestoreMeeting, Visible, Rest, Row
  <2>2. age' \in 0..2
    BY <1>10 DEF TrashMeeting, RestoreMeeting
  <2>3. disturbed' \in BOOLEAN /\ minutes' \in Minutes \cup {NoMinutes}
    BY <1>0, <1>10 DEF TrashMeeting, RestoreMeeting, Rest
  <2>4. UNCHANGED <<task, lock, generation, events>>
    BY <1>10 DEF TrashMeeting, RestoreMeeting
  <2>5. QED
    BY <2>1, <2>2, <2>3, <2>4, RowOnlyKeeps
<1>11. CASE PurgeMeeting
  BY <1>0, <1>11, RowOnlyKeeps DEF PurgeMeeting, Rest
<1>12. ASSUME NEW t \in Tasks, TaskStatementFails(t) PROVE IInv'
  <2>1. UNCHANGED <<rows, minutes, generation, events>> /\ Fails(t)
    BY <1>12 DEF TaskStatementFails
  <2>2. QED
    BY <1>0, <2>1, FailsMoves, RestStays, MovesKeep
<1>13. ASSUME NEW i \in Instances, GenerationStatementFails(i) PROVE IInv'
  BY <1>0, <1>13, EndGenerationKeeps DEF GenerationStatementFails, Rest, rows
<1>14. ASSUME NEW i \in Instances, CrashInstance(i) PROVE IInv'
  BY <1>14, CrashKeeps
<1>15. QED
  BY <1>1, <1>2, <1>3, <1>4, <1>5, <1>6, <1>7, <1>8, <1>9, <1>10, <1>11, <1>12, <1>13, <1>14
     DEF MeetingNext

\* The inductive invariant holds: every statement finds what it needs, and a
\* process holds the lock for exactly one regeneration
\* (result.service.ts:192-301, 418-420).
THEOREM TasksKeepTheirLocks == MeetingSpec => []IInv
BY InitIInv, NextIInv, PTL DEF MeetingSpec

\* The rows, tasks and generations keep their types: no operation saves a row of
\* the trash or minutes it has not read (meeting.service.ts, result.service.ts).
THEOREM MeetingTypes == MeetingSpec => []MeetingTypeOK
<1>1. IInv => MeetingTypeOK
  BY DEF IInv, TypeInv
<1>2. QED
  BY <1>1, TasksKeepTheirLocks, PTL

\* regeneratingMeetings: whichever statement of a regeneration fails, and also
\* when its process crashes, the lock is released with it, and it is never
\* held for two (result.service.ts:192-301, 418-420).
THEOREM LockIsReleased == MeetingSpec => []RegenerationHoldsLock
<1>1. IInv => RegenerationHoldsLock
  <2> SUFFICES ASSUME IInv, NEW i \in Instances
               PROVE  Cardinality(RegenerationsOn(i)) = IF i \in lock THEN 1 ELSE 0
    BY DEF RegenerationHoldsLock
  <2>1. CASE i \in lock
    <3>1. PICK t \in Tasks : task[t].on = i /\ Runs(task[t])
      BY <2>1 DEF IInv, LockInv
    <3>2. RegenerationsOn(i) = {t}
      BY <3>1 DEF IInv, LockInv, RegenerationsOn, Runs
    <3>3. QED
      BY <2>1, <3>2, FS_Singleton
  <2>2. CASE i \notin lock
    <3>1. RegenerationsOn(i) = {}
      BY <2>2 DEF IInv, LockInv, RegenerationsOn, Runs
    <3>2. QED
      BY <2>2, <3>1, FS_EmptySet
  <2>3. QED
    BY <2>1, <2>2
<1>2. QED
  BY <1>1, TasksKeepTheirLocks, PTL

\* docker-compose.yml runs one backend container.
OneInstance == \A i, j \in Instances : i = j

JInv == IInv /\ PromptInv

AtOldPrompt(r) == r.at \notin Changing \cup {"revertPrompt"}

LEMMA PromptFacts ==
    ASSUME JInv, ~disturbed
    PROVE  /\ Visible /\ row \in Row
           /\ \A t \in Tasks : Runs(task[t]) => PromptNeeds(task[t])
           /\ (\A t \in Tasks : AtOldPrompt(task[t])) =>
                minutes = NoMinutes \/ row.prompt = minutes.prompt
           /\ \A t \in Tasks : ~Runs(task[t]) => AtOldPrompt(task[t])
BY RestFacts DEF JInv, PromptInv, Visible, Rest, AtOldPrompt, Runs, Regenerating, Background, Changing

\* With one process there is one regeneration.
LEMMA OnlyOne ==
    ASSUME OneInstance, JInv, ~disturbed, NEW t \in Tasks, Runs(task[t])
    PROVE  /\ \A u \in Tasks \ {t} : ~Runs(task[u])
           /\ AtOldPrompt(task[t]) => minutes = NoMinutes \/ row.prompt = minutes.prompt
<1>1. \A u \in Tasks : task[u].on \in Instances
  BY RestFacts, TaskFacts DEF JInv, Task
<1>2. \A u \in Tasks \ {t} : ~Runs(task[u])
  BY <1>1 DEF OneInstance, JInv, IInv, LockInv
<1>3. QED
  BY <1>2, PromptFacts

\* Both rows name the prompts they named before.
SamePrompts ==
    /\ Visible' /\ row'.prompt = row.prompt
    /\ minutes = NoMinutes <=> minutes' = NoMinutes
    /\ minutes # NoMinutes => minutes'.prompt = minutes.prompt

\* A step that is none of a regeneration's.
LEMMA OthersKeepPrompts ==
    ASSUME JInv, ~disturbed, SamePrompts,
           \A t \in Tasks :
             \/ task'[t] = task[t]
             \/ /\ ~Runs(task[t])
                /\ Runs(task'[t]) => task'[t].at = "check" /\ task'[t].copy = NoMeetingRow
    PROVE  PromptInv'
<1>1. \A t \in Tasks : Runs(task'[t]) => PromptNeeds(task[t])'
  <2> SUFFICES ASSUME NEW t \in Tasks, Runs(task'[t]) PROVE PromptNeeds(task[t])'
    OBVIOUS
  <2>1. CASE task'[t] = task[t]
    <3>1. Runs(task[t]) /\ PromptNeeds(task[t])
      BY <2>1, PromptFacts
    <3>2. QED
      BY <2>1, <3>1 DEF SamePrompts, PromptNeeds, Changing
  <2>2. CASE task'[t].at = "check" /\ task'[t].copy = NoMeetingRow
    BY <2>2 DEF PromptNeeds, Changing
  <2>3. QED
    BY <2>1, <2>2
<1>2. (\A t \in Tasks : AtOldPrompt(task'[t])) => \A t \in Tasks : AtOldPrompt(task[t])
  BY PromptFacts
<1>3. (\A t \in Tasks : AtOldPrompt(task'[t])) =>
        minutes' = NoMinutes \/ row'.prompt = minutes'.prompt
  BY <1>2, PromptFacts DEF SamePrompts
<1>4. QED
  BY <1>1, <1>3 DEF PromptInv, SamePrompts, AtOldPrompt, Runs

\* A step of the one regeneration.
LEMMA RegenerationKeepsPrompts ==
    ASSUME OneInstance, JInv, ~disturbed, NEW t \in Tasks, Runs(task[t]),
           Visible', \A u \in Tasks \ {t} : task'[u] = task[u],
           Runs(task'[t]) => PromptNeeds(task[t])',
           AtOldPrompt(task'[t]) => minutes' = NoMinutes \/ row'.prompt = minutes'.prompt
    PROVE  PromptInv'
<1>1. \A u \in Tasks \ {t} : ~Runs(task'[u])
  BY OnlyOne
<1>2. QED
  BY <1>1 DEF PromptInv, AtOldPrompt, Runs

\* A task only moves itself, and one that holds no lock takes none.
LEMMA StepFrame ==
    ASSUME IInv, NEW t \in Tasks, TaskStep(t)
    PROVE  /\ \A u \in Tasks \ {t} : task'[u] = task[u]
           /\ ~Runs(task[t]) => lock' = lock
<1>0. TypeInv /\ task \in [Tasks -> Task]
  BY RestFacts DEF TypeInv, MeetingTypeOK
<1>1. ASSUME NEW label, Proceed(t, label)
      PROVE  /\ \A u \in Tasks \ {t} : task'[u] = task[u]
             /\ ~Runs(task[t]) => lock' = lock
  <2>1. \A u \in Tasks \ {t} : task'[u] = task[u]
    BY <1>0, <1>1 DEF Proceed, Done, Goto
  <2>2. ~Runs(task[t]) => lock' = lock
    BY <1>1 DEF Proceed, Unlock, Runs
  <2>3. QED
    BY <2>1, <2>2
<1>2. ASSUME Fails(t)
      PROVE  /\ \A u \in Tasks \ {t} : task'[u] = task[u]
             /\ ~Runs(task[t]) => lock' = lock
  BY <1>1, <1>2 DEF Fails
<1>3. CASE FindRow(t)
  BY <1>0, <1>1, <1>2, <1>3 DEF FindRow, Goto
<1>4. CASE SaveRow(t)
  BY <1>1, <1>4 DEF SaveRow
<1>5. CASE ReadTitle(t)
  BY <1>0, <1>5 DEF ReadTitle, Done
<1>6. CASE SaveMinutes(t)
  BY <1>1, <1>2, <1>6 DEF SaveMinutes
<1>7. CASE CheckPhase(t)
  BY <1>0, <1>1, <1>7 DEF CheckPhase, Goto
<1>8. CASE CheckMinutes(t)
  BY <1>1, <1>8 DEF CheckMinutes
<1>9. CASE ReadMinutes(t)
  BY <1>0, <1>2, <1>9 DEF ReadMinutes
<1>10. CASE PayloadRead(t)
  BY <1>0, <1>1, <1>10 DEF PayloadRead
<1>11. CASE RunModel(t)
  BY <1>0, <1>11 DEF RunModel
<1>12. CASE OpenMinutes(t)
  BY <1>0, <1>12 DEF OpenMinutes, Goto, Done
<1>13. QED
  BY <1>3, <1>4, <1>5, <1>6, <1>7, <1>8, <1>9, <1>10, <1>11, <1>12 DEF TaskStep

\* What a save of a row leaves of it, if nobody else wrote another prompt.
LEMMA SaveRowFacts ==
    ASSUME IInv, NEW t \in Tasks, SaveRow(t), ~disturbed'
    PROVE  /\ ~disturbed /\ Visible' /\ minutes' = minutes
           /\ task[t].at \in RowUpdates \ {"prompt"}
           /\ task[t].at \notin {"setPrompt", "revertPrompt"} => row'.prompt = row.prompt
           /\ task[t].at = "setPrompt" => row'.prompt = task[t].arg
           /\ task[t].at = "revertPrompt" => row'.prompt = task[t].original
<1>1. task[t] \in Task /\ Needs(task[t])
  BY RestFacts, TaskFacts
<1>2. /\ ~disturbed /\ ~StalePrompt(task[t].copy) /\ task[t].at # "prompt"
  BY Zenon DEF SaveRow
<1>3. row.prompt = task[t].copy.prompt
  BY <1>2 DEF StalePrompt
<1>4. row' \in Row /\ ~row'.trashed
  BY <1>1, EditedRows DEF SaveRow
<1>5. Visible'
  BY <1>4, MeetingAssumption DEF Visible
<1>6. QED
  BY <1>1, <1>2, <1>3, <1>5, EditedRows DEF SaveRow

\* A task that does not regenerate.
LEMMA OtherTaskKeepsPrompts ==
    ASSUME JInv, IInv', ~disturbed, ~disturbed', NEW t \in Tasks, TaskStep(t), ~Runs(task[t])
    PROVE  PromptInv'
<1>0. /\ IInv /\ Visible /\ TypeInv /\ Rest /\ task[t] \in Task /\ Needs(task[t])
  BY PromptFacts, RestFacts, TaskFacts DEF JInv
<1>1. (\A u \in Tasks \ {t} : task'[u] = task[u]) /\ lock' = lock
  BY <1>0, StepFrame
<1>2. ~Runs(task'[t])
  <2>1. Runs(task'[t]) => task'[t].on \in lock
    BY <1>1 DEF IInv, LockInv, Runs
  <2>2. ASSUME NEW u \in Tasks, task[u].on = task'[t].on, Runs(task[u]), Runs(task'[t])
        PROVE  FALSE
    BY <1>1, <2>2 DEF IInv, LockInv, Runs
  <2>3. QED
    BY <1>0, <2>1, <2>2 DEF IInv, LockInv
<1>3. SamePrompts
  <2>1. CASE SaveRow(t)
    <3>1. task[t].at \notin {"setPrompt", "revertPrompt"}
      BY DEF Runs, Regenerating, Background
    <3>2. QED
      BY <1>0, <2>1, <3>1, SaveRowFacts DEF SamePrompts
  <2>2. CASE SaveMinutes(t)
    <3>1. task[t].at \in {"saveTitle", "edit"}
      BY <2>2 DEF SaveMinutes, Runs, Regenerating, Background
    <3>2. /\ minutes # NoMinutes /\ minutes.prompt = task[t].minutes.prompt
          /\ minutes' = IF task[t].at = "saveTitle"
                        THEN [task[t].minutes EXCEPT !.title = "manual"]
                        ELSE [task[t].minutes EXCEPT !.content = "edited"]
      <4>1. ~Fails(t)
        BY DEF Fails
      <4>2. /\ disturbed' = (disturbed \/ minutes = NoMinutes
                                 \/ minutes.prompt # task[t].minutes.prompt)
            /\ minutes' = IF task[t].at = "saveTitle"
                          THEN [task[t].minutes EXCEPT !.title = "manual"]
                          ELSE [task[t].minutes EXCEPT !.content = "edited"]
        BY <2>2, <3>1, <4>1 DEF SaveMinutes
      <4>3. minutes # NoMinutes /\ minutes.prompt = task[t].minutes.prompt
        BY <4>2, Zenon
      <4>4. QED
        BY <4>2, <4>3
    <3>3. task[t].minutes \in Minutes
      BY <1>0, <3>1 DEF Needs
    <3>4. minutes' \in Minutes /\ minutes'.prompt = minutes.prompt
      BY <3>2, <3>3 DEF Minutes
    <3>5. UNCHANGED row
      BY <2>2 DEF SaveMinutes, rows
    <3>6. QED
      BY <1>0, <3>2, <3>4, <3>5, MeetingAssumption DEF SamePrompts, Visible
  <2>3. CASE FindRow(t) \/ ReadTitle(t) \/ OpenMinutes(t)
    <3>1. UNCHANGED <<row, minutes>>
      BY <2>3 DEF FindRow, ReadTitle, OpenMinutes, rows
    <3>2. QED
      BY <1>0, <3>1 DEF SamePrompts, Visible
  <2>4. ~CheckPhase(t) /\ ~CheckMinutes(t) /\ ~ReadMinutes(t) /\ ~PayloadRead(t) /\ ~RunModel(t)
    BY DEF CheckPhase, CheckMinutes, ReadMinutes, PayloadRead, RunModel, Runs, Regenerating, Background
  <2>5. QED
    BY <2>1, <2>2, <2>3, <2>4 DEF TaskStep
<1>4. QED
  BY <1>1, <1>2, <1>3, OthersKeepPrompts

\* A task that regenerates.
LEMMA RegenerationStepKeepsPrompts ==
    ASSUME OneInstance, JInv, ~disturbed, ~disturbed', NEW t \in Tasks, TaskStep(t),
           Runs(task[t])
    PROVE  PromptInv'
<1>0. /\ IInv /\ Visible /\ TypeInv /\ Rest /\ task[t] \in Task /\ Needs(task[t])
      /\ PromptNeeds(task[t]) /\ task \in [Tasks -> Task]
  BY PromptFacts, RestFacts, TaskFacts DEF JInv, TypeInv, MeetingTypeOK
<1>1. \A u \in Tasks \ {t} : task'[u] = task[u]
  BY <1>0, StepFrame
<1>2. AtOldPrompt(task[t]) => minutes = NoMinutes \/ row.prompt = minutes.prompt
  BY OnlyOne
<1>3. ~Fails(t)
  BY DEF Fails
<1>4. ASSUME NEW label, Proceed(t, label), label # "idle"
      PROVE  /\ task'[t].at = label /\ task'[t].copy = NoMeetingRow
             /\ task'[t].arg = task[t].arg /\ task'[t].original = task[t].original
  BY <1>0, <1>4 DEF Proceed, Goto, Task
<1>5. ASSUME Proceed(t, "idle") PROVE task'[t].at = "idle"
  BY <1>0, <1>5 DEF Proceed, Done, Idle
<1> DEFINE Old == Runs(task'[t]) => PromptNeeds(task[t])'
           New == AtOldPrompt(task'[t]) => minutes' = NoMinutes \/ row'.prompt = minutes'.prompt
<1>6. ASSUME Visible', Old, New PROVE PromptInv'
  BY <1>1, <1>6, RegenerationKeepsPrompts DEF Runs
<1>7. CASE FindRow(t)
  <2>1. UNCHANGED <<row, minutes>>
    BY <1>7 DEF FindRow, rows
  <2>2. task' = [task EXCEPT ![t].copy = row]
    <3>1. task[t].at \notin {"complete", "settling"}
      BY DEF Runs, Regenerating, Background
    <3>2. QED
      BY <1>0, <1>3, <1>7, <3>1 DEF FindRow
  <2>3. /\ task'[t].at = task[t].at /\ task'[t].copy = row
        /\ task'[t].arg = task[t].arg /\ task'[t].original = task[t].original
    BY <1>0, <2>2 DEF Task
  <2>4. Visible' /\ Old /\ New
    BY <1>0, <1>2, <2>1, <2>3 DEF Visible, PromptNeeds, AtOldPrompt, Changing
  <2>5. QED
    BY <1>6, <2>4
<1>8. CASE SaveRow(t)
  <2>1. /\ Visible' /\ minutes' = minutes
        /\ task[t].at \in RowUpdates
        /\ task[t].at \notin {"setPrompt", "revertPrompt"} => row'.prompt = row.prompt
        /\ task[t].at = "setPrompt" => row'.prompt = task[t].arg
        /\ task[t].at = "revertPrompt" => row'.prompt = task[t].original
    BY <1>0, <1>8, SaveRowFacts
  <2>2. task[t].at \in {"setPrompt", "setPhase", "backPhase", "revertPrompt", "resetPhase"}
    BY <2>1 DEF Runs, Regenerating, Background, RowUpdates
  <2>3. Proceed(t, After(t))
    BY <1>8 DEF SaveRow
  <2>4. CASE task[t].at = "setPrompt"
    <3>1. After(t) = "setPhase"
      BY <2>4 DEF After
    <3>2. /\ task'[t].at = "setPhase" /\ task'[t].arg = task[t].arg
          /\ task'[t].original = task[t].original
      BY <1>4, <2>3, <3>1
    <3>3. minutes # NoMinutes /\ task[t].original = row.prompt /\ minutes.prompt = row.prompt
      BY <1>0, <1>2, <2>4 DEF PromptNeeds, AtOldPrompt, Changing
    <3>4. Old /\ New
      BY <2>1, <2>4, <3>2, <3>3 DEF PromptNeeds, AtOldPrompt, Changing
    <3>5. QED
      BY <1>6, <2>1, <3>4
  <2>5. CASE task[t].at = "setPhase"
    <3>1. After(t) = "readMinutes"
      BY <2>5 DEF After
    <3>2. /\ task'[t].at = "readMinutes" /\ task'[t].arg = task[t].arg
          /\ task'[t].original = task[t].original
      BY <1>4, <2>3, <3>1
    <3>3. Old /\ New
      BY <1>0, <2>1, <2>5, <3>2 DEF PromptNeeds, AtOldPrompt, Changing
    <3>4. QED
      BY <1>6, <2>1, <3>3
  <2>6. CASE task[t].at \in {"backPhase", "resetPhase"}
    <3>1. After(t) = "idle"
      BY <2>6 DEF After
    <3>2. task'[t].at = "idle"
      BY <1>5, <2>3, <3>1
    <3>3. Old /\ New
      BY <1>2, <2>1, <2>6, <3>2 DEF AtOldPrompt, Changing, Runs, Regenerating, Background
    <3>4. QED
      BY <1>6, <2>1, <3>3
  <2>7. CASE task[t].at = "revertPrompt"
    <3>1. After(t) = "resetPhase"
      BY <2>7 DEF After
    <3>2. task'[t].at = "resetPhase"
      BY <1>4, <2>3, <3>1
    <3>3. Old /\ New
      BY <1>0, <2>1, <2>7, <3>2 DEF PromptNeeds, AtOldPrompt, Changing
    <3>4. QED
      BY <1>6, <2>1, <3>3
  <2>8. QED
    BY <2>2, <2>4, <2>5, <2>6, <2>7
<1>9. CASE SaveMinutes(t)
  <2>1. task[t].at = "saveMinutes" /\ UNCHANGED row
    BY <1>9 DEF SaveMinutes, Runs, Regenerating, Background, rows
  <2>2. /\ minutes' = [prompt |-> task[t].arg, content |-> "generated",
                       title |-> task[t].copy.title]
        /\ Proceed(t, "backPhase")
    BY <1>3, <1>9, <2>1 DEF SaveMinutes
  <2>3. minutes'.prompt = row'.prompt /\ minutes' # NoMinutes
    <3>1. minutes' \in Minutes
      BY <1>0, <2>1, <2>2 DEF Needs, Minutes, Row, Regenerating, Background
    <3>2. QED
      BY <1>0, <2>1, <2>2, <3>1, MeetingAssumption DEF PromptNeeds, Changing
  <2>4. task'[t].at = "backPhase"
    BY <1>4, <2>2
  <2>5. Old /\ New /\ Visible'
    BY <1>0, <2>1, <2>3, <2>4 DEF PromptNeeds, Changing, Visible
  <2>6. QED
    BY <1>6, <2>5
<1>10. CASE CheckPhase(t)
  <2>1. UNCHANGED <<row, minutes>> /\ task[t].at = "check" /\ task[t].copy # NoMeetingRow
    BY <1>10 DEF CheckPhase, rows
  <2>2. CASE Proceed(t, "idle")
    <3>1. Visible' /\ Old /\ New
      BY <1>0, <1>2, <1>5, <2>1, <2>2 DEF AtOldPrompt, Changing, Runs, Regenerating, Background, Visible
    <3>2. QED
      BY <1>6, <3>1
  <2>3. CASE task' = [Goto(t, "checkMinutes") EXCEPT ![t].original = task[t].copy.prompt]
    <3>1. task'[t].at = "checkMinutes" /\ task'[t].original = task[t].copy.prompt
      BY <1>0, <2>3 DEF Goto, Task
    <3>2. Visible' /\ Old /\ New
      BY <1>0, <1>2, <2>1, <3>1 DEF AtOldPrompt, PromptNeeds, Changing, Visible
    <3>3. QED
      BY <1>6, <3>2
  <2>4. QED
    BY <1>10, <2>2, <2>3, Zenon DEF CheckPhase
<1>11. CASE CheckMinutes(t)
  <2>1. UNCHANGED <<row, minutes>> /\ task[t].at = "checkMinutes"
    BY <1>11 DEF CheckMinutes, rows
  <2>2. CASE Proceed(t, "idle")
    <3>1. Visible' /\ Old /\ New
      BY <1>0, <1>2, <1>5, <2>1, <2>2 DEF AtOldPrompt, Changing, Runs, Regenerating, Background, Visible
    <3>2. QED
      BY <1>6, <3>1
  <2>3. CASE Proceed(t, "setPrompt") /\ minutes # NoMinutes
    <3>1. task'[t].at = "setPrompt" /\ task'[t].original = task[t].original
      BY <1>4, <2>3
    <3>2. Visible' /\ Old /\ New
      BY <1>0, <1>2, <2>1, <2>3, <3>1 DEF AtOldPrompt, PromptNeeds, Changing, Visible
    <3>3. QED
      BY <1>6, <3>2
  <2>4. QED
    BY <1>11, <2>2, <2>3, Zenon DEF CheckMinutes
<1>12. CASE ReadMinutes(t)
  <2>1. UNCHANGED <<row, minutes>> /\ task[t].at = "readMinutes"
    BY <1>12 DEF ReadMinutes, rows
  <2>2. task' = [task EXCEPT ![t].at = "payload", ![t].minutes = minutes]
    BY <1>3, <1>12 DEF ReadMinutes
  <2>3. task'[t].at = "payload" /\ task'[t].original = task[t].original
        /\ task'[t].arg = task[t].arg
    BY <1>0, <2>2 DEF Task
  <2>4. Visible' /\ Old /\ New
    BY <1>0, <2>1, <2>3 DEF AtOldPrompt, PromptNeeds, Changing, Visible
  <2>5. QED
    BY <1>6, <2>4
<1>13. CASE PayloadRead(t)
  <2>1. UNCHANGED <<row, minutes>> /\ task[t].at = "payload"
    BY <1>13 DEF PayloadRead, rows
  <2>2. task'[t].at \in {"ai", "revertPrompt"} /\ task'[t].original = task[t].original
        /\ task'[t].arg = task[t].arg
    <3>1. Catch(t) = "revertPrompt"
      BY <2>1 DEF Catch, Background
    <3>2. CASE Proceed(t, Catch(t))
      BY <1>4, <3>1, <3>2
    <3>3. CASE task' = [task EXCEPT ![t].at = "ai"]
      BY <1>0, <3>3 DEF Task
    <3>4. QED
      BY <1>13, <3>2, <3>3 DEF PayloadRead
  <2>3. Visible' /\ Old /\ New
    BY <1>0, <2>1, <2>2 DEF AtOldPrompt, PromptNeeds, Changing, Visible
  <2>4. QED
    BY <1>6, <2>3
<1>14. CASE RunModel(t)
  <2>1. UNCHANGED minutes /\ task[t].at = "ai" /\ task[t].copy \in Row
    BY <1>0, <1>14 DEF RunModel, Needs
  <2>2. Visible' /\ row'.prompt = row.prompt
    BY <1>0, <1>14, <2>1, GenerateKeepsRow DEF RunModel, Visible
  <2>3. task'[t].at = "saveMinutes" /\ task'[t].original = task[t].original
        /\ task'[t].arg = task[t].arg
    BY <1>0, <1>14 DEF RunModel, Task
  <2>4. Old /\ New
    BY <1>0, <2>1, <2>2, <2>3 DEF AtOldPrompt, PromptNeeds, Changing
  <2>5. QED
    BY <1>6, <2>2, <2>4
<1>15. ~ReadTitle(t) /\ ~OpenMinutes(t)
  BY DEF ReadTitle, OpenMinutes, Runs, Regenerating, Background
<1>16. QED
  BY <1>7, <1>8, <1>9, <1>10, <1>11, <1>12, <1>13, <1>14, <1>15 DEF TaskStep

\* The generation of the first minutes.
LEMMA GenerationKeepsPrompts ==
    ASSUME OneInstance, JInv, ~disturbed, ~disturbed', NEW i \in Instances, GenerationStep(i)
    PROVE  PromptInv'
<1>0. /\ IInv /\ Visible /\ row \in Row /\ Rest
      /\ generation[i] \in Generation /\ GenerationNeeds(i)
  BY PromptFacts, RestFacts DEF JInv, Rest
<1>1. ASSUME NEW found \in Minutes \cup {NoMinutes}, EndGeneration(i, found), SamePrompts
      PROVE  PromptInv'
  BY <1>0, <1>1, AwaitingTasks, OthersKeepPrompts
<1>2. ASSUME UNCHANGED task, SamePrompts PROVE PromptInv'
  BY <1>2, OthersKeepPrompts
<1>3. ASSUME UNCHANGED <<row, minutes>> PROVE SamePrompts
  BY <1>0, <1>3 DEF SamePrompts, Visible
<1>4. minutes \in Minutes \cup {NoMinutes}
  BY <1>0 DEF Rest
<1>5. CASE Recheck(i)
  BY <1>1, <1>2, <1>3, <1>4, <1>5 DEF Recheck, rows
<1>6. CASE GenerationReads(i)
  BY <1>0, <1>2, <1>3, <1>6 DEF GenerationReads, rows
<1>7. CASE GenerationRunsModel(i)
  <2>1. generation[i].copy \in Row
    BY <1>0, <1>7 DEF GenerationRunsModel, GenerationNeeds
  <2>2. SamePrompts
    BY <1>0, <1>7, <2>1, GenerateKeepsRow DEF GenerationRunsModel, SamePrompts, Visible
  <2>3. QED
    BY <1>2, <1>7, <2>2 DEF GenerationRunsModel
<1>8. CASE InsertMinutes(i)
  <2>1. UNCHANGED row
    BY <1>8 DEF InsertMinutes, rows
  <2>2. CASE UNCHANGED minutes /\ EndGeneration(i, minutes)
    BY <1>1, <1>3, <1>4, <2>1, <2>2
  <2>3. CASE /\ minutes = NoMinutes /\ UNCHANGED task
             /\ minutes' = [prompt |-> generation[i].copy.prompt, content |-> "generated",
                            title |-> generation[i].copy.title]
             /\ disturbed' = (disturbed \/ row.prompt # generation[i].copy.prompt)
    <3>1. row.prompt = generation[i].copy.prompt
      BY <2>3, Zenon
    <3>2. minutes'.prompt = row'.prompt
      BY <2>1, <2>3, <3>1
    <3>3. \A t \in Tasks : Runs(task[t]) => PromptNeeds(task[t])'
      BY <2>1, <2>3, PromptFacts DEF PromptNeeds, Changing
    <3>4. QED
      BY <1>0, <2>1, <2>3, <3>2, <3>3 DEF PromptInv, Visible
  <2>4. QED
    BY <1>0, <1>8, <2>2, <2>3, Zenon DEF InsertMinutes, Visible
<1>9. CASE GenerationFindsRow(i)
  BY <1>0, <1>2, <1>3, <1>9 DEF GenerationFindsRow, rows
<1>10. CASE GenerationSavesRow(i)
  <2>1. generation[i].copy \in Row /\ ~generation[i].copy.trashed
    BY <1>0, <1>10 DEF GenerationSavesRow, GenerationNeeds, Generation
  <2>2. ~StalePrompt(generation[i].copy)
    BY <1>10, Zenon DEF GenerationSavesRow
  <2>3. row' \in Row /\ ~row'.trashed /\ row'.prompt = row.prompt
    BY <1>10, <2>1, <2>2 DEF GenerationSavesRow, StalePrompt, Closed, Row
  <2>4. SamePrompts
    BY <1>10, <2>3, MeetingAssumption DEF GenerationSavesRow, SamePrompts, Visible
  <2>5. QED
    BY <1>1, <1>4, <1>10, <2>4 DEF GenerationSavesRow
<1>11. QED
  BY <1>5, <1>6, <1>7, <1>8, <1>9, <1>10 DEF GenerationStep

LEMMA DisturbedStays == [MeetingNext]_meetingVars /\ disturbed => disturbed'
<1>1. ASSUME NEW t \in Tasks, TaskStep(t), disturbed PROVE disturbed'
  BY <1>1, Zenon DEF TaskStep, FindRow, SaveRow, ReadTitle, SaveMinutes, CheckPhase,
     CheckMinutes, ReadMinutes, PayloadRead, RunModel, OpenMinutes, Fails
<1>2. ASSUME NEW i \in Instances, GenerationStep(i), disturbed PROVE disturbed'
  BY <1>2, Zenon DEF GenerationStep, Recheck, GenerationReads, GenerationRunsModel,
     InsertMinutes, GenerationFindsRow, GenerationSavesRow
<1>3. QED
  BY <1>1, <1>2, Zenon DEF MeetingNext, meetingVars, CompleteMeeting, PatchTitle, PatchResult,
     PatchPrompt, Request, TranscriptionSettles, HandleGenerating, RecoverStalledRegeneration,
     RequestRegeneration, TimePasses, TrashMeeting, RestoreMeeting, PurgeMeeting,
     TaskStatementFails, Fails, GenerationStatementFails, CrashInstance

LEMMA InitJInv == MeetingInit => JInv
<1> SUFFICES ASSUME MeetingInit PROVE PromptInv
  BY InitIInv DEF JInv
<1>1. PICK i \in Instances : task = [t \in Tasks |-> Idle(i)]
  BY DEF MeetingInit
<1>2. \A t \in Tasks : ~Runs(task[t])
  BY <1>1, IdleNeeds
<1>3. PICK done \in BOOLEAN :
         /\ row = [status |-> IF done THEN "completed" ELSE "recording",
                   phase |-> "none", title |-> "none", prompt |-> DefaultPrompt,
                   trashed |-> FALSE]
         /\ minutes = IF done THEN [prompt |-> DefaultPrompt, title |-> "none",
                                    content |-> "generated"]
                              ELSE NoMinutes
  BY DEF MeetingInit
<1>4. row \in Row /\ ~row.trashed /\ (minutes = NoMinutes \/ row.prompt = minutes.prompt)
  BY <1>3, MeetingAssumption DEF Row
<1>5. Visible
  BY <1>4, MeetingAssumption DEF Visible
<1>6. QED
  BY <1>2, <1>4, <1>5 DEF PromptInv

LEMMA NextJInv ==
    ASSUME OneInstance
    PROVE  JInv /\ [MeetingNext]_meetingVars => JInv'
<1> SUFFICES ASSUME JInv, [MeetingNext]_meetingVars PROVE JInv'
  OBVIOUS
<1>1. IInv /\ IInv'
  BY NextIInv DEF JInv
<1> SUFFICES ASSUME ~disturbed' PROVE PromptInv'
  BY <1>1 DEF JInv, PromptInv
<1>2. ~disturbed
  BY DisturbedStays
<1>3. Visible /\ Rest
  BY <1>1, <1>2, PromptFacts, RestFacts
<1>4. ASSUME UNCHANGED <<row, minutes>> PROVE SamePrompts
  BY <1>3, <1>4 DEF SamePrompts, Visible
<1>5. ASSUME NEW t \in Tasks, TaskStep(t) PROVE PromptInv'
  BY <1>1, <1>2, <1>5, OtherTaskKeepsPrompts, RegenerationStepKeepsPrompts
<1>6. ASSUME NEW i \in Instances, GenerationStep(i) PROVE PromptInv'
  BY <1>2, <1>6, GenerationKeepsPrompts
<1>7. ASSUME NEW t \in Tasks, NEW i \in Instances, NEW label, NEW p,
             label \in Labels \ Regenerating \/ label = "check",
             task[t].at = "idle", UNCHANGED <<row, minutes>>,
             task' = [task EXCEPT ![t] = [Idle(i) EXCEPT !.at = label, !.arg = p]]
      PROVE  PromptInv'
  <2>1. /\ \A u \in Tasks \ {t} : task'[u] = task[u]
        /\ task'[t].at = label /\ task'[t].copy = NoMeetingRow
    BY <1>1, <1>7 DEF IInv, TypeInv, MeetingTypeOK, Idle
  <2>2. ~Runs(task[t]) /\ (Runs(task'[t]) => task'[t].at = "check")
    BY <1>7, <2>1 DEF Runs, Regenerating, Background
  <2>3. QED
    BY <1>2, <1>4, <1>7, <2>1, <2>2, OthersKeepPrompts
<1>8. ASSUME NEW t \in Tasks, NEW i \in Instances, NEW label \in {"settling", "pipeline", "clear"},
             task[t].at = "idle", UNCHANGED <<row, minutes>>,
             task' = [task EXCEPT ![t] = [Idle(i) EXCEPT !.at = label]]
      PROVE  PromptInv'
  <2>1. /\ \A u \in Tasks \ {t} : task'[u] = task[u]
        /\ task'[t].at = label
    BY <1>1, <1>8 DEF IInv, TypeInv, MeetingTypeOK, Idle
  <2>2. ~Runs(task[t]) /\ ~Runs(task'[t])
    BY <1>8, <2>1 DEF Runs, Regenerating, Background
  <2>3. QED
    BY <1>2, <1>4, <1>8, <2>1, <2>2, OthersKeepPrompts
<1>9. ASSUME UNCHANGED <<row, minutes, task>> PROVE PromptInv'
  BY <1>2, <1>4, <1>9, OthersKeepPrompts
<1>10. ASSUME NEW t \in Tasks, NEW i \in Instances,
              NEW label \in {"complete", "title", "open", "prompt"}, NEW p,
              Request(t, i, label, p)
       PROVE  PromptInv'
  <2>1. label \in Labels \ Regenerating
    BY DEF Labels, RowUpdates, RowReads, Regenerating, Background
  <2>2. QED
    BY <1>7, <1>10, <2>1 DEF Request, rows
<1>11. ASSUME NEW t \in Tasks, NEW i \in Instances, NEW p \in Prompts,
              RequestRegeneration(t, i, p)
       PROVE  PromptInv'
  BY <1>7, <1>11 DEF RequestRegeneration, BeginRegeneration, rows
<1>12. ASSUME NEW t \in Tasks, NEW i \in Instances,
              \/ TranscriptionSettles(t, i) \/ HandleGenerating(t, i)
              \/ RecoverStalledRegeneration(t, i)
       PROVE  PromptInv'
  BY <1>8, <1>12 DEF TranscriptionSettles, HandleGenerating, RecoverStalledRegeneration, rows
<1>13. CASE TimePasses
  BY <1>9, <1>13 DEF TimePasses
<1>14. ~RestoreMeeting /\ ~PurgeMeeting /\ ~TrashMeeting
  BY <1>3, Zenon DEF RestoreMeeting, PurgeMeeting, TrashMeeting, Visible
<1>15. ASSUME NEW t \in Tasks, TaskStatementFails(t) PROVE FALSE
  BY <1>15, Zenon DEF TaskStatementFails, Fails
<1>16. ASSUME NEW i \in Instances, GenerationStatementFails(i) \/ CrashInstance(i) PROVE FALSE
  BY <1>16, Zenon DEF GenerationStatementFails, CrashInstance
<1>17. CASE UNCHANGED meetingVars
  BY <1>9, <1>17 DEF meetingVars, rows
<1>18. QED
  BY <1>5, <1>6, <1>10, <1>11, <1>12, <1>13, <1>14, <1>15, <1>16, <1>17
     DEF MeetingNext, CompleteMeeting, PatchTitle, PatchResult, PatchPrompt

\* With one backend process, a regeneration that fails puts the prompt back and
\* one that succeeds stores minutes of the new prompt, however its statements
\* interleave with other requests, unless a crash, a failed statement, the
\* trash or a stale entity interferes (result.service.ts:354-372).
THEOREM PromptsAgree ==
    ASSUME OneInstance
    PROVE  MeetingSpec => []PromptOfMinutes
<1>1. MeetingInit => JInv
  BY InitJInv
<1>2. JInv /\ [MeetingNext]_meetingVars => JInv'
  BY NextJInv
<1>3. JInv => PromptOfMinutes
  <2> SUFFICES ASSUME JInv, ~disturbed, minutes # NoMinutes,
                      \A i \in Instances : RegenerationsOn(i) = {}
               PROVE  row.prompt = minutes.prompt
    BY DEF PromptOfMinutes
  <2>1. \A t \in Tasks : task[t].on \in Instances
    BY RestFacts, TaskFacts DEF JInv, Task
  <2>2. \A t \in Tasks : ~Runs(task[t])
    BY <2>1 DEF RegenerationsOn, Runs
  <2>3. QED
    BY <2>2, PromptFacts
<1>4. QED
  BY <1>1, <1>2, <1>3, PTL DEF MeetingSpec
===============================================================================
