--------------------------- MODULE MCMeetingPage ----------------------------
(***************************************************************************)
(* What the page of a meeting reaches in the end, for TLC: the result view  *)
(* and the note editor.  One run checks the two beside each other: a        *)
(* behaviour moves one of them, its part, and owes the fairness of that     *)
(* part alone.                                                              *)
(***************************************************************************)
EXTENDS ResultView, NoteStore

VARIABLE part

pageVars == <<part, viewVars, editorVars>>

PageInit ==
    /\ part \in {"result", "editor"}
    /\ ViewInit /\ EditorInit
    /\ part # "result" => storedMinutes = [m \in Viewed |-> 0]
    /\ page.meeting = CHOOSE m \in Viewed : TRUE   \* the meetings are interchangeable

Result == part = "result" /\ UNCHANGED <<part, editorVars>>
Editor == part = "editor" /\ UNCHANGED <<part, viewVars>>

PageNext ==
    \/ \E m \in Viewed :
         \/ Result /\ Finish(m)
         \/ Result /\ GenerateMinutes(m)
         \/ Result /\ Announce(m)
         \/ Result /\ UnlockMeeting(m)
         \/ Result /\ OpenMeeting(m)
    \/ Result /\ ServePost
    \/ Result /\ ServeRow
    \/ Result /\ ServeFlag
    \/ Result /\ AnswerResult
    \/ \E gone \in BOOLEAN : Result /\ FailFetch(gone)
    \/ Result /\ PollResult
    \/ Result /\ PollResultOvertakes
    \/ Result /\ GiveUp
    \/ Result /\ handleVisibilityChange
    \/ Result /\ updateResult
    \/ Result /\ ServeUpdate
    \/ Result /\ AnswerUpdate
    \/ Result /\ regenerateResult
    \/ Result /\ AnswerPost
    \/ Result /\ applyRegenerateEvent
    \/ Result /\ SocketConnects
    \/ Result /\ SocketDrops
    \/ \E t \in Tabs : Editor /\ UserStep(t) /\ RunEffects
    \/ \E t \in Tabs : Editor /\ BrowserStep(t) /\ RunEffects
    \/ \E s \in Sessions : Editor /\ SessionStep(s) /\ RunEffects
    \/ \E s \in Sessions : Editor /\ FailPut(s) /\ RunEffects
    \/ Editor /\ GoOffline /\ RunEffects
    \/ Editor /\ GoOnline /\ RunEffects

\* The fairness of each component, owed by the behaviours of its part.
PageFairness ==
    /\ WF_viewVars(Result /\ ServePost) /\ WF_viewVars(Result /\ ServeRow)
    /\ WF_viewVars(Result /\ ServeFlag) /\ WF_viewVars(Result /\ AnswerResult)
    /\ WF_viewVars(Result /\ AnswerPost) /\ WF_viewVars(Result /\ AnswerUpdate)
    /\ WF_viewVars(Result /\ PollResult)
    /\ WF_viewVars(Result /\ ~page.visible /\ handleVisibilityChange)
    /\ WF_viewVars(Result /\ applyRegenerateEvent)
    /\ \A m \in Viewed : /\ WF_viewVars(Result /\ GenerateMinutes(m))
                         /\ WF_viewVars(Result /\ Announce(m))
                         /\ WF_viewVars(Result /\ UnlockMeeting(m))
    /\ SF_viewVars(Result /\ GiveUp)
    /\ \A t \in Tabs : WF_editorVars(Editor /\ BrowserStep(t) /\ RunEffects)
    /\ \A s \in Sessions : WF_editorVars(Editor /\ SessionStep(s) /\ RunEffects)
    /\ WF_editorVars(Editor /\ GoOnline /\ RunEffects)

PageSpec == PageInit /\ [][PageNext]_pageVars /\ PageFairness
=============================================================================
