----------------------------- MODULE PromptSettings -----------------------------
(***************************************************************************)
(* The prompts of a user and the defaults of new meetings: PromptService,   *)
(* UserSettingsService and the part of MeetingService.create that checks    *)
(* the prompt, with the two stores of the browser, the pages that use them  *)
(* and the start of a meeting.                                              *)
(*                                                                         *)
(* Every handler of the backend reads before it writes; the foreign keys    *)
(* refuse a meeting or settings without their prompt, and clear the default *)
(* prompt of the settings when the prompt is deleted.  save() of an entity  *)
(* inserts a row that is no longer there.                                   *)
(***************************************************************************)
EXTENDS Integers, FiniteSets

CONSTANTS
    SettingsTabs,   \* the tabs of the user
    MaxPrompts,     \* bound on the prompts the user creates
    MaxActs,        \* bound on what the user does
    MaxLost         \* bound on lost calls and answers

Seeded == 0         \* prompt_default_meeting
NoPrompt == -1      \* a field that a request leaves out, or an error

Modes == {"realtime", "batch"}
Ops == {"list", "relist", "get", "edit", "update", "start"}

VARIABLES
    promptRows,     \* the prompts in the table
    settingsRow,    \* the row of user_settings
    meetingPrompts, \* the prompts of the meetings
    legacy,         \* the settings of an old version in localStorage
    store,          \* store[t]: usePromptStore and useUserSettingsStore of the tab
    requests,       \* requests[t][o]: the request under way
    created,        \* how many prompts were created
    acts, lost,
    tainted         \* auxiliary: tabs that missed an answer, or a change by another tab or older list

promptVars == <<promptRows, settingsRow, meetingPrompts, legacy, store, requests, created, acts, lost, tainted>>

Server == <<promptRows, settingsRow, meetingPrompts>>

NoRow == [configured |-> FALSE, prompt |-> Seeded, mode |-> "realtime"]
NoCall == [at |-> "none", op |-> "none", arg |-> NoPrompt, mode |-> "none", read |-> NoRow, list |-> {}]
NoLegacy == [prompt |-> NoPrompt, mode |-> "none"]

PromptInit ==
    /\ promptRows \in {{Seeded}, {Seeded, 1}} /\ meetingPrompts = {}
    /\ settingsRow \in {NoRow} \cup {[configured |-> TRUE, prompt |-> p, mode |-> "batch"] : p \in promptRows}
    /\ legacy \in {NoLegacy, [prompt |-> Seeded, mode |-> "batch"]}
    /\ store = [t \in SettingsTabs |->
                  [prompts |-> {}, loaded |-> FALSE, loading |-> FALSE, prompt |-> Seeded,
                   mode |-> "realtime", hydrated |-> FALSE, fetching |-> FALSE, saving |-> FALSE]]
    /\ requests = [t \in SettingsTabs |-> [o \in Ops |-> NoCall]]
    /\ created = Cardinality(promptRows) - 1 /\ acts = 0 /\ lost = 0
    /\ tainted = {}

Free(t, o) == requests[t][o].at = "none"

\* The call o of t is sent, and the store is changed by the fields of change.
Send(t, o, call, change) ==
    /\ Free(t, o)
    /\ requests' = [requests EXCEPT ![t][o] = call]
    /\ store' = [store EXCEPT ![t] = change]

Request(op, arg, mode) == [NoCall EXCEPT !.at = "sent", !.op = op, !.arg = arg, !.mode = mode]

Act == acts < MaxActs /\ acts' = acts + 1

-----------------------------------------------------------------------------
(***************************************************************************)
(* The pages                                                                *)
(***************************************************************************)

\* A page mounts and the list of prompts was never loaded: fetchPrompts, unless the store is loading.
fetchPrompts(t) ==
    /\ ~store[t].loaded /\ ~store[t].loading
    /\ \E o \in {"list", "relist"} :
         Send(t, o, Request("list", NoPrompt, "none"), [store[t] EXCEPT !.loading = TRUE])
    /\ UNCHANGED <<Server, legacy, created, acts, lost, tainted>>

fetchSettings(t) ==
    /\ ~store[t].hydrated /\ ~store[t].fetching
    /\ Send(t, "get", Request("get", NoPrompt, "none"), [store[t] EXCEPT !.fetching = TRUE])
    /\ UNCHANGED <<Server, legacy, created, acts, lost, tainted>>

\* createPrompt, updatePrompt and deletePrompt; one at a time, as a dialog or a button allows.
EditPrompt(t) ==
    /\ Act
    /\ \/ /\ created < MaxPrompts
          /\ Send(t, "edit", Request("create", NoPrompt, "none"), [store[t] EXCEPT !.loading = TRUE])
       \/ \E p \in store[t].prompts \ {Seeded}, op \in {"edit", "delete"} :
            Send(t, "edit", Request(op, p, "none"), [store[t] EXCEPT !.loading = TRUE])
    /\ UNCHANGED <<Server, legacy, created, lost, tainted>>

\* The page fetches the settings when it mounts; its inputs are disabled while they are loaded or saved,
\* and the prompts while the list is loaded.
updateSettings(t) ==
    /\ Act /\ store[t].hydrated /\ ~store[t].fetching /\ ~store[t].saving
    /\ \/ \E m \in Modes \ {store[t].mode} :
            Send(t, "update", Request("update", NoPrompt, m), [store[t] EXCEPT !.saving = TRUE])
       \/ ~store[t].loading /\ \E p \in store[t].prompts :
            Send(t, "update", Request("update", p, "none"), [store[t] EXCEPT !.saving = TRUE])
    /\ UNCHANGED <<Server, legacy, created, lost, tainted>>

\* A mutant of ResolvedPrompt: the saved prompt is used as it is.
SavedPromptUnchecked(t) == store[t].prompt

\* resolvedDefaultPromptId, resolvedPromptId: the saved prompt, if the list of the tab has it.
ResolvedPrompt(t) == IF store[t].prompt \in store[t].prompts THEN store[t].prompt ELSE Seeded

\* handleStart does not wait for the settings or the list.
startMeeting(t) ==
    /\ Act
    /\ Send(t, "start", Request("start", ResolvedPrompt(t), "none"), store[t])
    /\ UNCHANGED <<Server, legacy, created, lost, tainted>>

-----------------------------------------------------------------------------
(***************************************************************************)
(* The backend                                                              *)
(***************************************************************************)
Reply(t, o, call) == requests' = [requests EXCEPT ![t][o] = call]

OtherTabs(t) == SettingsTabs \ {t}

\* PromptService.list and UserSettingsService.get.
Serve(t, o) ==
    LET c == requests[t][o]
    IN /\ c.at = "sent"
       /\ \/ c.op = "list" /\ Reply(t, o, [c EXCEPT !.at = "answered", !.list = promptRows])
          \/ c.op = "get" /\ Reply(t, o, [c EXCEPT !.at = "answered", !.read = settingsRow])
       /\ UNCHANGED <<Server, legacy, store, created, acts, lost, tainted>>

Create(t) ==
    LET c == requests[t]["edit"]
    IN /\ c.at = "sent" /\ c.op = "create"
       /\ created' = created + 1 /\ promptRows' = promptRows \cup {created + 1}
       /\ Reply(t, "edit", [c EXCEPT !.at = "answered", !.arg = created + 1])
       /\ tainted' = tainted \cup OtherTabs(t)
       /\ UNCHANGED <<settingsRow, meetingPrompts, legacy, store, acts, lost>>

\* findById, ensureExists, the count of meetings, the row of the settings.
Checks(t, o) ==
    LET c == requests[t][o]
        refused == \/ c.arg # NoPrompt /\ c.arg \notin promptRows
                   \/ c.op = "delete" /\ c.arg \in meetingPrompts
    IN /\ c.at = "sent" /\ c.op \in {"edit", "delete", "update", "start"}
       /\ Reply(t, o, IF refused THEN [c EXCEPT !.at = "refused"]
                      ELSE [c EXCEPT !.at = "checked", !.read = settingsRow])
       /\ UNCHANGED <<Server, legacy, store, created, acts, lost, tainted>>

\* update of PromptService: a row deleted meanwhile is inserted again.
SavePrompt(t) ==
    LET c == requests[t]["edit"]
    IN /\ c.at = "checked" /\ c.op = "edit"
       /\ promptRows' = promptRows \cup {c.arg}
       /\ Reply(t, "edit", [c EXCEPT !.at = "answered"])
       /\ tainted' = tainted \cup OtherTabs(t)
       /\ UNCHANGED <<settingsRow, meetingPrompts, legacy, store, created, acts, lost>>

\* remove: refused by the foreign key of a meeting; the default of the settings is cleared.
DeletePrompt(t) ==
    LET c == requests[t]["edit"]
    IN /\ c.at = "checked" /\ c.op = "delete"
       /\ IF c.arg \in meetingPrompts
            THEN Reply(t, "edit", [c EXCEPT !.at = "refused"]) /\ UNCHANGED <<promptRows, settingsRow>>
            ELSE /\ promptRows' = promptRows \ {c.arg}
                 /\ settingsRow' = IF settingsRow.prompt = c.arg THEN [settingsRow EXCEPT !.prompt = Seeded]
                                   ELSE settingsRow
                 /\ Reply(t, "edit", [c EXCEPT !.at = "answered"])
       /\ tainted' = tainted \cup OtherTabs(t)
       /\ UNCHANGED <<meetingPrompts, legacy, store, created, acts, lost>>

\* The row that an update makes of the request and of what it has read.
Merged(c) ==
    [configured |-> TRUE, prompt |-> IF c.arg = NoPrompt THEN c.read.prompt ELSE c.arg,
     mode |-> IF c.mode = "none" THEN c.read.mode ELSE c.mode]

\* UserSettingsService.update: the whole row is saved.
SaveSettings(t, o) ==
    LET c == requests[t][o]
    IN /\ c.at = "checked" /\ c.op = "update"
       /\ IF Merged(c).prompt \in promptRows
            THEN settingsRow' = Merged(c) /\ Reply(t, o, [c EXCEPT !.at = "answered", !.read = Merged(c)])
            ELSE Reply(t, o, [c EXCEPT !.at = "refused"]) /\ UNCHANGED settingsRow
       /\ tainted' = tainted \cup OtherTabs(t)
       /\ UNCHANGED <<promptRows, meetingPrompts, legacy, store, created, acts, lost>>

CreateMeeting(t) ==
    LET c == requests[t]["start"]
    IN /\ c.at = "checked" /\ c.op = "start"
       /\ IF c.arg \in promptRows
            THEN meetingPrompts' = meetingPrompts \cup {c.arg} /\ Reply(t, "start", [c EXCEPT !.at = "answered"])
            ELSE Reply(t, "start", [c EXCEPT !.at = "refused"]) /\ UNCHANGED meetingPrompts
       /\ UNCHANGED <<promptRows, settingsRow, legacy, store, created, acts, lost, tainted>>

-----------------------------------------------------------------------------
(***************************************************************************)
(* The answers                                                              *)
(***************************************************************************)
EndCall(t, o, change) ==
    /\ requests' = [requests EXCEPT ![t][o] = NoCall]
    /\ store' = [store EXCEPT ![t] = change]

Answered(t, o, op) == requests[t][o].at = "answered" /\ requests[t][o].op = op

\* The list replaces the one of the store; it may be older than a prompt created meanwhile.
ListArrives(t, o) ==
    /\ Answered(t, o, "list")
    /\ EndCall(t, o, [store[t] EXCEPT !.prompts = requests[t][o].list, !.loaded = TRUE, !.loading = FALSE])
    /\ tainted' = IF requests[t][o].list # promptRows THEN tainted \cup {t} ELSE tainted
    /\ UNCHANGED <<Server, legacy, created, acts, lost>>

applySettings(t, row) ==
    [store[t] EXCEPT !.prompt = row.prompt, !.mode = row.mode, !.hydrated = TRUE,
                     !.fetching = FALSE, !.saving = FALSE]

\* Settings that were never saved are migrated from an old version of the browser.
SettingsArrive(t) ==
    LET c == requests[t]["get"]
    IN /\ Answered(t, "get", "get")
       /\ IF ~c.read.configured /\ legacy # NoLegacy
            THEN Reply(t, "get", Request("update", legacy.prompt, legacy.mode)) /\ UNCHANGED store
            ELSE EndCall(t, "get", applySettings(t, c.read))
       /\ UNCHANGED <<Server, legacy, created, acts, lost, tainted>>

Migrated(t) ==
    /\ Answered(t, "get", "update")
    /\ EndCall(t, "get", applySettings(t, requests[t]["get"].read))
    /\ legacy' = NoLegacy
    /\ UNCHANGED <<Server, created, acts, lost, tainted>>

SettingsSaved(t) ==
    /\ Answered(t, "update", "update")
    /\ EndCall(t, "update", applySettings(t, requests[t]["update"].read))
    /\ UNCHANGED <<Server, legacy, created, acts, lost, tainted>>

PromptSaved(t) ==
    LET c == requests[t]["edit"]
    IN /\ c.at = "answered"
       /\ \/ c.op = "create" /\ EndCall(t, "edit", [store[t] EXCEPT !.prompts = @ \cup {c.arg}, !.loading = FALSE])
          \/ c.op = "edit" /\ EndCall(t, "edit", [store[t] EXCEPT !.loading = FALSE])
       /\ UNCHANGED <<Server, legacy, created, acts, lost, tainted>>

WithoutPrompt(t, p) == [store[t] EXCEPT !.prompts = @ \ {p}, !.loading = FALSE]

\* The prompts of the home page leave the settings as they are.
DeletedAtHome(t) ==
    /\ Answered(t, "edit", "delete")
    /\ EndCall(t, "edit", WithoutPrompt(t, requests[t]["edit"].arg))
    /\ UNCHANGED <<Server, legacy, created, acts, lost, tainted>>

\* handleDelete of the settings page goes on with updateSettings when the default prompt is gone.
handleDelete(t) ==
    LET p == requests[t]["edit"].arg
    IN /\ Answered(t, "edit", "delete") /\ store[t].prompt = p /\ Free(t, "update")
       /\ requests' = [requests EXCEPT ![t]["edit"] = NoCall, ![t]["update"] = Request("update", Seeded, "none")]
       /\ store' = [store EXCEPT ![t] = [WithoutPrompt(t, p) EXCEPT !.saving = TRUE]]
       /\ UNCHANGED <<Server, legacy, created, acts, lost, tainted>>

MeetingStarted(t) ==
    /\ Answered(t, "start", "start") /\ EndCall(t, "start", store[t])
    /\ UNCHANGED <<Server, legacy, created, acts, lost, tainted>>

\* What a store keeps of a call that failed; settings count as loaded either way.
Failed(t, o) ==
    CASE o \in {"list", "relist", "edit"} -> [store[t] EXCEPT !.loading = FALSE]
      [] o = "get" /\ requests[t][o].op = "get" -> [store[t] EXCEPT !.fetching = FALSE, !.hydrated = TRUE]
      [] o = "get" /\ requests[t][o].op = "update" -> applySettings(t, NoRow)
      [] o = "update" -> [store[t] EXCEPT !.saving = FALSE]
      [] OTHER -> store[t]

\* An error answer; the settings a tab could not revert are those of a prompt that is gone.
Refused(t, o) ==
    /\ requests[t][o].at = "refused"
    /\ EndCall(t, o, Failed(t, o))
    /\ UNCHANGED <<Server, legacy, created, acts, lost, tainted>>

\* The request never arrives, or its answer does not.
Lost(t, o) ==
    /\ requests[t][o].at \in {"sent", "answered"} /\ lost < MaxLost /\ lost' = lost + 1
    /\ EndCall(t, o, Failed(t, o))
    /\ tainted' = tainted \cup {t}
    /\ UNCHANGED <<Server, legacy, created, acts>>

PromptNext ==
    \E t \in SettingsTabs :
        \/ fetchPrompts(t) \/ fetchSettings(t) \/ EditPrompt(t) \/ updateSettings(t) \/ startMeeting(t)
        \/ Create(t) \/ SavePrompt(t) \/ DeletePrompt(t) \/ CreateMeeting(t)
        \/ SettingsArrive(t) \/ Migrated(t) \/ SettingsSaved(t) \/ PromptSaved(t) \/ DeletedAtHome(t)
        \/ handleDelete(t) \/ MeetingStarted(t)
        \/ \E o \in Ops : Serve(t, o) \/ Checks(t, o) \/ SaveSettings(t, o) \/ ListArrives(t, o)
                          \/ Refused(t, o) \/ Lost(t, o)

PromptSpec == PromptInit /\ [][PromptNext]_promptVars

-----------------------------------------------------------------------------
AtRest(t) == store[t].hydrated /\ store[t].loaded /\ \A o \in Ops : Free(t, o)

\* What a tab shows as the defaults of new meetings is what the backend has stored, once its calls have
\* ended, if no answer was lost and nothing was changed behind its back: also after the default prompt
\* was deleted on a page that does not revert the settings, and after a migration.
ShownIsStored ==
    \A t \in SettingsTabs \ tainted :
        AtRest(t) => ResolvedPrompt(t) = settingsRow.prompt /\ store[t].mode = settingsRow.mode
=============================================================================
