------------------------------ MODULE MCMeetings ------------------------------
(***************************************************************************)
(* The meetings, for TLC: the row of one with its minutes and regeneration, *)
(* the list of them, the renders of their PDFs.  One run checks the three   *)
(* beside each other: a behaviour moves one of them, its part, and owes the *)
(* fairness of that part alone.                                             *)
(***************************************************************************)
EXTENDS MeetingLifecycle, MeetingList, PdfRenderer

VARIABLE part

meetingsVars == <<part, meetingVars, listVars, pdfVars>>

MeetingsInit ==
    /\ part \in {"meeting", "list", "pdf"}
    /\ MeetingInit /\ ListInit /\ PdfInit
    /\ part # "meeting" => row.status = "recording"

Meeting == part = "meeting" /\ UNCHANGED <<part, listVars, pdfVars>>
List == part = "list" /\ UNCHANGED <<part, meetingVars, pdfVars>>
Pdf == part = "pdf" /\ UNCHANGED <<part, meetingVars, listVars>>

MeetingsNext ==
    \/ \E t \in Tasks : Meeting /\ TaskStep(t)
    \/ \E i \in Instances : Meeting /\ GenerationStep(i)
    \/ \E t \in Tasks, i \in Instances :
         \/ Meeting /\ CompleteMeeting(t, i)
         \/ Meeting /\ PatchTitle(t, i)
         \/ Meeting /\ PatchResult(t, i)
         \/ Meeting /\ TranscriptionSettles(t, i)
         \/ Meeting /\ HandleGenerating(t, i)
         \/ Meeting /\ RecoverStalledRegeneration(t, i)
         \/ \E p \in Prompts : Meeting /\ PatchPrompt(t, i, p)
         \/ \E p \in Prompts : Meeting /\ RequestRegeneration(t, i, p)
    \/ Meeting /\ TimePasses
    \/ Meeting /\ TrashMeeting
    \/ Meeting /\ RestoreMeeting
    \/ Meeting /\ PurgeMeeting
    \/ \E t \in Tasks : Meeting /\ TaskStatementFails(t)
    \/ \E i \in Instances : Meeting /\ GenerationStatementFails(i)
    \/ \E i \in Instances : Meeting /\ CrashInstance(i)
    \/ List /\ Poll
    \/ List /\ PollOvertakes
    \/ List /\ loadMoreMeetings
    \/ \E r \in reads : List /\ Answer(r)
    \/ \E r \in reads : List /\ FailRead(r)
    \/ \E r \in reads : \E p \in DOMAIN r.parts : List /\ ServePage(r, p)
    \/ \E ids \in SUBSET Meetings, bulk \in BOOLEAN, kind \in {"delete", "restore", "purge"} :
         List /\ handleConfirmAction(kind, bulk, ids)
    \/ List /\ ServeEdit
    \/ List /\ AnswerEdit
    \/ List /\ FailEdit
    \/ List /\ toggleTrash
    \/ List /\ runSearch
    \/ List /\ clearSearch
    \/ List /\ ReloadPage
    \/ \E m \in Meetings :
         \/ List /\ handleSelectMeeting(m)
         \/ List /\ CreateElsewhere(m)
         \/ List /\ DeleteElsewhere(m)
         \/ List /\ applyMeetingStatusUpdate(m)
         \/ \E reached \in BOOLEAN : List /\ handleMeetingStatusChanged(m, reached)
    \/ \E m \in Meetings \cup {NoMeeting} : List /\ Mount(m)
    \/ \E r \in Renders :
         \/ Pdf /\ acquireRenderSlot(r)
         \/ Pdf /\ getBrowser(r)
         \/ Pdf /\ OpenPage(r)
         \/ Pdf /\ AnswerRender(r)
         \/ Pdf /\ resetBrowser(r)
         \/ Pdf /\ CloseForgotten(r)
         \/ Pdf /\ GiveUpRender(r)
         \/ Pdf /\ Watchdog(r)
    \/ \E b \in Browsers :
         \/ Pdf /\ LaunchResolves(b)
         \/ Pdf /\ LaunchFails(b)
         \/ Pdf /\ Crash(b)
         \/ Pdf /\ Disconnected(b)

\* The fairness of each component, owed by the behaviours of its part.
MeetingsFairness ==
    /\ \A t \in Tasks : WF_meetingVars(Meeting /\ TaskStep(t))
    /\ \A i \in Instances : WF_meetingVars(Meeting /\ GenerationStep(i))
    /\ WF_meetingVars(\E t \in Tasks, i \in Instances : Meeting /\ HandleGenerating(t, i))
    /\ WF_meetingVars(Meeting /\ TimePasses)
    /\ SF_meetingVars(\E t \in Tasks, i \in Instances : Meeting /\ RecoverStalledRegeneration(t, i))
    /\ WF_listVars(List /\ Poll)
    /\ WF_listVars(\E r \in reads, p \in 1..LastMeeting + 1 : List /\ ServePage(r, p))
    /\ WF_listVars(\E r \in reads : List /\ Answer(r))
    /\ WF_listVars(List /\ ServeEdit)
    /\ WF_listVars(List /\ (AnswerEdit \/ (edit # NoEdit /\ edit.served /\ FailEdit)))
    /\ WF_listVars(\E m \in Meetings : List /\ applyMeetingStatusUpdate(m))
    /\ WF_pdfVars(\E r \in Renders : Pdf /\ RenderGoesOn(r))
    /\ WF_pdfVars(\E b \in Browsers : Pdf /\ BrowserGoesOn(b))

MeetingsSpec == MeetingsInit /\ [][MeetingsNext]_meetingsVars /\ MeetingsFairness

-----------------------------------------------------------------------------
\* Once nothing changes any more, the polls bring the list to the server's rows, whatever
\* answers, status messages and edits crossed on the way (the poll is the safety net the
\* comments of meetingListConfig.ts:27-30 describe): ListCatchesUp, of the part it is about.
ListFollowsServer == part = "list" => ListCatchesUp
=============================================================================
