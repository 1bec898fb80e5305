------------------------------- MODULE ResultView -------------------------------
(***************************************************************************)
(* The viewer of the minutes: the zustand store of resultStore.ts, the hook *)
(* useResult that polls while a result is awaited, the socket that brings   *)
(* result:regenerate messages, and the part of ResultService they talk to.  *)
(*                                                                         *)
(* Only the latest fetch may change the store (latestFetchRequestSeq), so   *)
(* one fetch in flight is kept: an overtaken one answers into nothing.  The *)
(* server reads the row of the minutes and the regenerating flag one after  *)
(* the other (result.controller.ts:64-71).                                  *)
(***************************************************************************)
EXTENDS Naturals, Sequences

CONSTANTS
    Viewed,      \* the meetings the user may open
    MaxSteps     \* bound on the steps of the user, the network and slow answers

ASSUME ViewAssumption == Viewed # {} /\ MaxSteps \in Nat

VARIABLES
    storedMinutes,    \* per meeting, the server's row: 0 not there yet, else its version
    work,       \* per meeting, how far a regeneration has come
    page,       \* [meeting, visible]: what the viewer shows, and whether the tab is
    store,      \* resultStore.ts
    fetch,      \* the latest fetch in flight
    update,     \* an edit of the minutes in flight
    post,       \* a regeneration request in flight
    socket,     \* [up, messages]: the viewer's socket in the meeting's room
    steps       \* counts the bounded steps

viewVars == <<storedMinutes, work, page, store, fetch, update, post, socket, steps>>

NoResult == [meeting |-> "none", version |-> 0]
NoFetch == [to |-> "none"]
NoCall == [to |-> "none"]

\* createInitialResultState
InitialResult ==
    [result |-> NoResult, loading |-> FALSE, regenerating |-> FALSE, pending |-> FALSE,
     missing |-> FALSE, error |-> FALSE]

Fetch(m, silent) == [to |-> m, silent |-> silent, row |-> "unread", version |-> 0, flag |-> FALSE]

LoadingResult(s) == [s EXCEPT !.loading = TRUE, !.error = FALSE, !.pending = FALSE, !.missing = FALSE]

\* The effect of useResult on a new meeting: the old one's cleanup clears the store, then it fetches.
ViewInit ==
    /\ storedMinutes \in [Viewed -> {0, 1}]
    /\ work = [m \in Viewed |-> "idle"]
    /\ \E m \in Viewed : /\ page = [meeting |-> m, visible |-> TRUE]
                         /\ fetch = Fetch(m, FALSE)
    /\ store = LoadingResult(InitialResult)
    /\ update = NoCall /\ post = NoCall
    /\ socket = [up |-> FALSE, messages |-> <<>>]
    /\ steps = 0

Step == steps < MaxSteps /\ steps' = steps + 1

(***************************************************************************)
(* The server.  A regeneration takes the lock, writes the phase and says    *)
(* started; it saves the row, clears the phase and says completed, or fails *)
(* and says failed; the lock goes last.                                     *)
(***************************************************************************)
Regenerates(m) == work[m] # "idle"

\* The message reaches the room of the meeting, where the viewer's socket is while it is up.
Broadcast(m, phase) ==
    socket' = IF socket.up /\ page.meeting = m
              THEN [socket EXCEPT !.messages = Append(@, [meeting |-> m, phase |-> phase])]
              ELSE socket

Finish(m) ==
    /\ storedMinutes[m] = 0 /\ storedMinutes' = [storedMinutes EXCEPT ![m] = 1]
    /\ UNCHANGED <<work, page, store, fetch, update, post, socket, steps>>

\* regenerateAsync: refused while another runs, or without a row.
ServePost ==
    /\ post # NoCall /\ post.state = "sent"
    /\ IF Regenerates(post.to) \/ storedMinutes[post.to] = 0
       THEN /\ post' = [post EXCEPT !.state = "refused"]
            /\ UNCHANGED <<work, socket>>
       ELSE /\ work' = [work EXCEPT ![post.to] = "running"]
            /\ post' = [post EXCEPT !.state = "accepted"]
            /\ Broadcast(post.to, "started")
    /\ UNCHANGED <<storedMinutes, page, store, fetch, update, steps>>

\* executeRegenerateInBackground, up to the save and from the save on.
GenerateMinutes(m) ==
    /\ work[m] = "running"
    /\ \/ /\ work' = [work EXCEPT ![m] = "saved"]
          /\ storedMinutes' = [storedMinutes EXCEPT ![m] = @ + 1]
       \/ /\ work' = [work EXCEPT ![m] = "failed"]
          /\ UNCHANGED storedMinutes
    /\ UNCHANGED <<page, store, fetch, update, post, socket, steps>>

Announce(m) ==
    /\ work[m] \in {"saved", "failed"}
    /\ work' = [work EXCEPT ![m] = "announced"]
    /\ Broadcast(m, IF work[m] = "saved" THEN "completed" ELSE "failed")
    /\ UNCHANGED <<storedMinutes, page, store, fetch, update, post, steps>>

UnlockMeeting(m) ==
    /\ work[m] = "announced"
    /\ work' = [work EXCEPT ![m] = "idle"]
    /\ UNCHANGED <<storedMinutes, page, store, fetch, update, post, socket, steps>>

(***************************************************************************)
(* The page's reads.                                                        *)
(***************************************************************************)
refetchResult == fetch' = Fetch(page.meeting, TRUE)

\* findByMeetingId, and then isRegenerating of toResultResponse.
ServeRow ==
    /\ fetch # NoFetch /\ fetch.row = "unread"
    /\ fetch' = [fetch EXCEPT !.row = IF storedMinutes[fetch.to] = 0 THEN "not_ready" ELSE "read",
                              !.version = storedMinutes[fetch.to]]
    /\ UNCHANGED <<storedMinutes, work, page, store, update, post, socket, steps>>

ServeFlag ==
    /\ fetch # NoFetch /\ fetch.row = "read"
    /\ fetch' = [fetch EXCEPT !.row = "flagged", !.flag = Regenerates(fetch.to)]
    /\ UNCHANGED <<storedMinutes, work, page, store, update, post, socket, steps>>

AnswerResult ==
    /\ fetch # NoFetch /\ fetch.row \in {"not_ready", "flagged"}
    /\ store' = IF fetch.row = "flagged"
                THEN [result |-> [meeting |-> fetch.to, version |-> fetch.version],
                      loading |-> FALSE, regenerating |-> fetch.flag, pending |-> FALSE,
                      missing |-> FALSE, error |-> FALSE]
                ELSE [store EXCEPT !.result = NoResult, !.loading = FALSE, !.pending = TRUE,
                                   !.missing = FALSE, !.error = FALSE]
    /\ fetch' = NoFetch
    /\ UNCHANGED <<storedMinutes, work, page, update, post, socket, steps>>

\* The meeting is gone; or the request failed, which a silent fetch does not show.
FailFetch(gone) ==
    /\ Step /\ fetch # NoFetch
    /\ store' = CASE gone -> [store EXCEPT !.result = NoResult, !.loading = FALSE, !.pending = FALSE,
                                           !.missing = TRUE, !.error = FALSE]
                  [] ~gone /\ ~fetch.silent -> [store EXCEPT !.error = TRUE, !.loading = FALSE,
                                                             !.pending = FALSE, !.missing = FALSE]
                  [] OTHER -> store
    /\ fetch' = NoFetch
    /\ UNCHANGED <<storedMinutes, work, page, update, post, socket>>

WaitingForResult == store.pending \/ store.regenerating

\* The interval of 5 s while a result is awaited and the tab is visible.
PollResult ==
    /\ WaitingForResult /\ page.visible /\ fetch = NoFetch
    /\ refetchResult
    /\ UNCHANGED <<storedMinutes, work, page, store, update, post, socket, steps>>

PollResultOvertakes ==
    /\ Step /\ WaitingForResult /\ page.visible /\ fetch # NoFetch
    /\ refetchResult
    /\ UNCHANGED <<storedMinutes, work, page, store, update, post, socket>>

\* A mutant of GiveUp: only the wait for a regeneration has an exit.
GiveUpOnRegeneration ==
    /\ page.visible /\ store.regenerating
    /\ store' = [store EXCEPT !.regenerating = FALSE, !.error = TRUE]
    /\ UNCHANGED <<storedMinutes, work, page, fetch, update, post, socket, steps>>

\* The interval gives up and says so: 15 min for a pending result, 2 min for a regeneration.
GiveUp ==
    /\ WaitingForResult /\ page.visible
    /\ \/ store.pending /\ store' = [store EXCEPT !.pending = FALSE, !.error = TRUE]
       \/ store.regenerating /\ store' = [store EXCEPT !.regenerating = FALSE, !.error = TRUE]
    /\ UNCHANGED <<storedMinutes, work, page, fetch, update, post, socket, steps>>

handleVisibilityChange ==
    /\ page' = [page EXCEPT !.visible = ~@]
    /\ IF ~page.visible THEN UNCHANGED steps ELSE Step
    /\ IF ~page.visible /\ WaitingForResult THEN refetchResult ELSE UNCHANGED fetch
    /\ UNCHANGED <<storedMinutes, work, store, update, post, socket>>

(***************************************************************************)
(* The user's edits and regenerations.  Their answers are not tied to the   *)
(* meeting that is shown when they come.                                    *)
(***************************************************************************)
updateResult ==
    /\ Step /\ update = NoCall /\ ~store.loading /\ store.result # NoResult
    /\ update' = [to |-> page.meeting, version |-> 0]
    /\ store' = [store EXCEPT !.loading = TRUE, !.error = FALSE]
    /\ UNCHANGED <<storedMinutes, work, page, fetch, post, socket>>

ServeUpdate ==
    /\ update # NoCall /\ update.version = 0 /\ storedMinutes[update.to] # 0
    /\ storedMinutes' = [storedMinutes EXCEPT ![update.to] = @ + 1]
    /\ update' = [update EXCEPT !.version = storedMinutes[update.to] + 1]
    /\ UNCHANGED <<work, page, store, fetch, post, socket, steps>>

AnswerUpdate ==
    /\ update # NoCall
    /\ store' = IF update.version # 0
                THEN [store EXCEPT !.loading = FALSE,
                                   !.result = [meeting |-> update.to, version |-> update.version]]
                ELSE [store EXCEPT !.loading = FALSE, !.error = TRUE]
    /\ update' = NoCall
    /\ UNCHANGED <<storedMinutes, work, page, fetch, post, socket, steps>>

regenerateResult ==
    /\ Step /\ post = NoCall
    /\ ~store.loading /\ ~store.regenerating /\ store.result # NoResult
    /\ post' = [to |-> page.meeting, state |-> "sent"]
    /\ store' = [store EXCEPT !.regenerating = TRUE, !.error = FALSE]
    /\ UNCHANGED <<storedMinutes, work, page, fetch, update, socket>>

AnswerPost ==
    /\ post # NoCall /\ post.state # "sent"
    /\ store' = IF post.state = "refused"
                THEN [store EXCEPT !.regenerating = FALSE, !.error = TRUE] ELSE store
    /\ post' = NoCall
    /\ UNCHANGED <<storedMinutes, work, page, fetch, update, socket, steps>>

(***************************************************************************)
(* The socket: a message is for the meeting of its room; the store drops it *)
(* when it shows the result of another one.                                 *)
(***************************************************************************)
applyRegenerateEvent ==
    /\ socket.messages # <<>>
    /\ LET event == Head(socket.messages)
           other == store.result # NoResult /\ store.result.meeting # event.meeting
       IN IF other THEN UNCHANGED <<store, fetch>>
          ELSE /\ store' = [store EXCEPT !.regenerating = event.phase = "started",
                                         !.error = event.phase = "failed"]
               /\ IF event.phase = "completed" THEN fetch' = Fetch(event.meeting, TRUE)
                  ELSE UNCHANGED fetch
    /\ socket' = [socket EXCEPT !.messages = Tail(@)]
    /\ UNCHANGED <<storedMinutes, work, page, update, post, steps>>

SocketConnects ==
    /\ ~socket.up /\ socket' = [socket EXCEPT !.up = TRUE]
    /\ UNCHANGED <<storedMinutes, work, page, store, fetch, update, post, steps>>

SocketDrops ==
    /\ Step /\ socket.up
    /\ socket' = [up |-> FALSE, messages |-> <<>>]
    /\ UNCHANGED <<storedMinutes, work, page, store, fetch, update, post>>

\* Another meeting is opened: clearResult, a loud fetch, and a socket of its own.
OpenMeeting(m) ==
    /\ Step /\ m # page.meeting
    /\ page' = [page EXCEPT !.meeting = m]
    /\ store' = LoadingResult(InitialResult)
    /\ fetch' = Fetch(m, FALSE)
    /\ socket' = [up |-> FALSE, messages |-> <<>>]
    /\ UNCHANGED <<storedMinutes, work, update, post>>

ViewNext ==
    \/ \E m \in Viewed : Finish(m) \/ GenerateMinutes(m) \/ Announce(m) \/ UnlockMeeting(m) \/ OpenMeeting(m)
    \/ ServePost \/ ServeRow \/ ServeFlag \/ AnswerResult \/ \E gone \in BOOLEAN : FailFetch(gone)
    \/ PollResult \/ PollResultOvertakes \/ GiveUp \/ handleVisibilityChange
    \/ updateResult \/ ServeUpdate \/ AnswerUpdate \/ regenerateResult \/ AnswerPost
    \/ applyRegenerateEvent \/ SocketConnects \/ SocketDrops

\* The server works and answers, the timers run in a visible tab, and the tab is looked at again.
ViewFairness ==
    /\ WF_viewVars(ServePost) /\ WF_viewVars(ServeRow) /\ WF_viewVars(ServeFlag)
    /\ WF_viewVars(AnswerResult) /\ WF_viewVars(AnswerPost) /\ WF_viewVars(AnswerUpdate)
    /\ WF_viewVars(PollResult) /\ WF_viewVars(~page.visible /\ handleVisibilityChange)
    /\ WF_viewVars(applyRegenerateEvent)
    /\ \A m \in Viewed : /\ WF_viewVars(GenerateMinutes(m)) /\ WF_viewVars(Announce(m))
                         /\ WF_viewVars(UnlockMeeting(m))

\* A wait that lasts is given up: the timers compare the clock, so they do not wait for ever.
Patience == SF_viewVars(GiveUp)

ViewSpec == ViewInit /\ [][ViewNext]_viewVars
FairViewSpec == ViewSpec /\ ViewFairness /\ Patience

-----------------------------------------------------------------------------

\* A viewer that waits stops waiting: for the result of a meeting that is still processed, for
\* a regeneration, with messages lost, polls overtaken and requests failed (the exits of the
\* polls, useResult.ts:80-136).
WaitingEnds == WaitingForResult ~> ~WaitingForResult
=============================================================================
