------------------------------ MODULE MeetingList ------------------------------
(***************************************************************************)
(* The list of meetings of the home page: the zustand store of              *)
(* meetingStore.ts, the controller that fills it (useMeetingListController, *)
(* useMeetingListActions, useMeetingListSearch), the address that holds the *)
(* selected meeting (HomePageContent) and the socket that brings status     *)
(* changes (useMeetingStatus, MeetingStatusGateway).                        *)
(*                                                                         *)
(* Every read of a collection takes a number (latestCollectionRequestSeq)   *)
(* and its answer counts only while that number is the latest; "load more"  *)
(* takes a second number that guards isLoadingMore.  Here a read in flight  *)
(* carries the two comparisons as flags: latest and latestMore.  A read     *)
(* with both flags down changes nothing when it answers and is not kept.    *)
(***************************************************************************)
EXTENDS Naturals, Sequences, FiniteSets, SequencesExt, FiniteSetsExt

CONSTANTS
    LastMeeting,   \* meetings are 1..LastMeeting, a later one has a larger number
    Listed,        \* the meetings that exist when the page opens
    Matching,      \* the meetings a search finds
    PageSize,      \* rows of a page (MEETINGS_PAGE_SIZE)
    MaxChanges     \* bound on the steps of users, other tabs and slow answers

ASSUME ListAssumption ==
    /\ LastMeeting \in Nat /\ PageSize \in Nat \ {0} /\ MaxChanges \in Nat
    /\ Listed \subseteq 1..LastMeeting /\ Matching \subseteq 1..LastMeeting

Meetings == 1..LastMeeting
NoMeeting == 0

VARIABLES
    listRows,      \* the server's rows: [active, trash, done], sets of meetings
    list,      \* the store of meetingStore.ts
    view,      \* what the address and the search box select
    reads,     \* the reads in flight
    edit,      \* the one delete, restore or purge in flight
    statusEvents,    \* meeting:status messages on their way to the page
    changes    \* counts the bounded steps

listVars == <<listRows, list, view, reads, edit, statusEvents, changes>>
NoPage == [rows |-> <<>>, total |-> LastMeeting + 1]
NoEdit == [kind |-> "none"]

\* The store before its first read.
EmptyList ==
    [meetings |-> <<>>, trash |-> {}, page |-> 1, hasMore |-> FALSE, loading |-> FALSE,
     loadingMore |-> FALSE, loaded |-> FALSE, loadedTrash |-> FALSE]

\* The rows of the meetings of a set as the server orders them: newest first.
Ordered(ids) ==
    LET newestFirst == SetToSortSeq(ids, LAMBDA a, b : a > b)
    IN [i \in 1..Cardinality(ids) |-> [id |-> newestFirst[i], done |-> newestFirst[i] \in listRows.done]]

\* One page of the active meetings, with their number.
Page(p) ==
    LET all == Ordered(listRows.active)
        last == IF p * PageSize < Len(all) THEN p * PageSize ELSE Len(all)
    IN [rows |-> SubSeq(all, (p - 1) * PageSize + 1, last), total |-> Len(all)]

\* The first row of every meeting, in order: the seenIds filter.
Unique(s) ==
    FoldLeft(LAMBDA kept, r : IF \E i \in DOMAIN kept : kept[i].id = r.id THEN kept
                              ELSE Append(kept, r), <<>>, s)

ListInit ==
    /\ listRows = [active |-> Listed, trash |-> {}, done |-> {}]
    /\ list = EmptyList
    /\ view = [trash |-> FALSE, search |-> FALSE, selected |-> NoMeeting]
    /\ reads = {} /\ edit = NoEdit /\ statusEvents = {} /\ changes = 0

Count == changes < MaxChanges /\ changes' = changes + 1

(***************************************************************************)
(* The selected meeting.  An effect of the controller judges it whenever    *)
(* the list or the selection changes: not while a load is shown, nor before *)
(* the first load, nor while older pages may hold it.                       *)
(***************************************************************************)
Missing(l, v) ==
    /\ v.selected # NoMeeting
    /\ ~l.loading
    /\ IF v.trash THEN l.loadedTrash /\ v.selected \notin l.trash
       ELSE l.loaded /\ ~l.hasMore /\ \A i \in DOMAIN l.meetings : l.meetings[i].id # v.selected

Judged(l, v) == IF Missing(l, v) THEN [v EXCEPT !.selected = NoMeeting] ELSE v

\* The store and the address move together: every change of one re-renders the controller.
Show(l, v) == list' = l /\ view' = Judged(l, v)

(***************************************************************************)
(* Reads.  A loud read shows the skeleton, gives up a running "load more"   *)
(* and makes every earlier answer stale; a silent one (the poll) only       *)
(* takes the collection number.                                             *)
(***************************************************************************)
Read(kind, parts) == [kind |-> kind, latest |-> TRUE, latestMore |-> kind = "more",
                      parts |-> [p \in parts |-> NoPage]]

\* What is left of the reads in flight once a silent read took the number.
Overtaken == {[r EXCEPT !.latest = FALSE] : r \in {q \in reads : q.latestMore}}

Loud(l) == [l EXCEPT !.loading = TRUE, !.loadingMore = FALSE]

\* A loud read of the current page set (1), the trash (2) or a search (3).
fetchMeetings(l, v) == reads' = {Read("fetch", {1})} /\ Show(Loud(l), v)
fetchTrashMeetings(l, v) == reads' = {Read("trash", {1})} /\ Show(Loud(l), v)
searchMeetings(l, v) == reads' = {Read("search", {1})} /\ Show(Loud(l), v)

\* The silent read re-reads every page the user has opened.
fetchSilently ==
    /\ reads' = Overtaken \cup
                {IF view.trash THEN Read("trashSilent", {1}) ELSE Read("silent", 1..list.page)}
    /\ UNCHANGED <<listRows, list, view, edit, statusEvents>>

\* A mutant of PollAllowed: the trash is read when it is opened and never again.
PollsListOnly == ~view.trash /\ ~view.search

\* The interval and the visibilitychange handler: no poll while a search is shown.
PollAllowed == view.trash \/ ~view.search

Poll == PollAllowed /\ (\A r \in reads : ~r.latest) /\ fetchSilently /\ UNCHANGED changes

\* The next poll comes before the answer of the read in flight (8 s against a 30 s timeout).
PollOvertakes == PollAllowed /\ (\E r \in reads : r.latest) /\ fetchSilently /\ Count

\* "Load more" is offered outside the trash and a search, and not under the skeleton.
loadMoreMeetings ==
    /\ Count
    /\ ~list.loading /\ ~view.trash /\ ~view.search
    /\ ~list.loadingMore /\ list.hasMore
    /\ reads' = {Read("more", {list.page + 1})}
    /\ list' = [list EXCEPT !.loadingMore = TRUE]
    /\ UNCHANGED <<listRows, view, edit, statusEvents>>

\* The server answers one page of a read; the pages of a silent read are separate requests.
ServePage(r, p) ==
    /\ r \in reads /\ p \in DOMAIN r.parts /\ r.parts[p] = NoPage
    /\ LET answer == CASE r.kind \in {"fetch", "silent", "more"} -> Page(p)
                       [] r.kind = "search" -> [rows |-> Ordered(listRows.active \cap Matching), total |-> 0]
                       [] OTHER -> [rows |-> Ordered(listRows.trash), total |-> 0]
       IN reads' = (reads \ {r}) \cup {[r EXCEPT !.parts[p] = answer]}
    /\ UNCHANGED <<listRows, list, view, edit, statusEvents, changes>>

Served(r) == \A p \in DOMAIN r.parts : r.parts[p] # NoPage

AnswerFetch(r) ==
    /\ r \in reads /\ r.kind \in {"fetch", "silent"} /\ Served(r)
    /\ LET got == FoldLeft(LAMBDA s, p : s \o r.parts[p].rows, <<>>,
                           [p \in 1..Cardinality(DOMAIN r.parts) |-> p])
           unique == Unique(got)
       IN Show([list EXCEPT !.meetings = unique,
                            !.hasMore = Len(unique) < r.parts[1].total,
                            !.page = Cardinality(DOMAIN r.parts),
                            !.loading = IF r.kind = "fetch" THEN FALSE ELSE @,
                            !.loaded = TRUE], view)
    /\ reads' = reads \ {r}
    /\ UNCHANGED <<listRows, edit, statusEvents, changes>>

\* The rows already shown are dropped from the older page; a stale answer only ends isLoadingMore.
AnswerMore(r) ==
    /\ r \in reads /\ r.kind = "more" /\ Served(r)
    /\ LET p == CHOOSE q \in DOMAIN r.parts : TRUE
           older == r.parts[p].rows
           merged == list.meetings \o
                     SelectSeq(older, LAMBDA o : \A i \in DOMAIN list.meetings : list.meetings[i].id # o.id)
           shown == IF r.latest
                    THEN [list EXCEPT !.meetings = merged, !.page = p,
                                      !.hasMore = Len(merged) < r.parts[p].total /\ older # <<>>]
                    ELSE list
       IN Show([shown EXCEPT !.loadingMore = IF r.latestMore THEN FALSE ELSE @], view)
    /\ reads' = reads \ {r}
    /\ UNCHANGED <<listRows, edit, statusEvents, changes>>

AnswerTrash(r) ==
    /\ r \in reads /\ r.kind \in {"trash", "trashSilent"} /\ Served(r)
    /\ Show([list EXCEPT !.trash = {r.parts[1].rows[i].id : i \in DOMAIN r.parts[1].rows},
                         !.loading = IF r.kind = "trash" THEN FALSE ELSE @,
                         !.loadedTrash = TRUE], view)
    /\ reads' = reads \ {r}
    /\ UNCHANGED <<listRows, edit, statusEvents, changes>>

AnswerSearch(r) ==
    /\ r \in reads /\ r.kind = "search" /\ Served(r)
    /\ Show([list EXCEPT !.meetings = r.parts[1].rows, !.loading = FALSE], view)
    /\ reads' = reads \ {r}
    /\ UNCHANGED <<listRows, edit, statusEvents, changes>>

\* A read that fails ends what it showed and leaves the rows alone.
FailRead(r) ==
    /\ Count /\ r \in reads
    /\ Show([list EXCEPT !.loading = IF r.kind \in {"fetch", "trash", "search"} THEN FALSE ELSE @,
                         !.loadingMore = IF r.latestMore THEN FALSE ELSE @], view)
    /\ reads' = reads \ {r}
    /\ UNCHANGED <<listRows, edit, statusEvents>>

(***************************************************************************)
(* Edits.  The confirmation dialog is modal and closes with the answer; the *)
(* handler remembers the selection it was opened with.                      *)
(***************************************************************************)
handleConfirmAction(kind, bulk, ids) ==
    /\ Count /\ edit = NoEdit /\ ids # {} /\ (bulk \/ Cardinality(ids) = 1)
    /\ ids \subseteq (IF view.trash THEN list.trash
                      ELSE {list.meetings[i].id : i \in DOMAIN list.meetings})
    /\ (kind \in {"restore", "purge"}) = view.trash
    /\ ~list.loading
    /\ edit' = [kind |-> kind, bulk |-> bulk, ids |-> ids, selected |-> view.selected,
                served |-> FALSE, succeeded |-> {}]
    /\ Show([list EXCEPT !.loading = TRUE], view)
    /\ UNCHANGED <<listRows, reads, statusEvents>>

\* The server applies the edit to the meetings that are where the edit expects them.
ServeEdit ==
    /\ edit # NoEdit /\ ~edit.served
    /\ \E ok \in SUBSET (edit.ids \cap (IF edit.kind = "delete" THEN listRows.active ELSE listRows.trash)) :
         /\ edit' = [edit EXCEPT !.served = TRUE, !.succeeded = ok]
         /\ listRows' = CASE edit.kind = "delete"  -> [listRows EXCEPT !.active = @ \ ok, !.trash = @ \cup ok]
                      [] edit.kind = "restore" -> [listRows EXCEPT !.active = @ \cup ok, !.trash = @ \ ok]
                      [] OTHER                 -> [listRows EXCEPT !.trash = @ \ ok]
    /\ UNCHANGED <<list, view, reads, statusEvents, changes>>

\* deleteMeeting filters both lists, bulkDelete the active one, the others the trash.
Filtered(ok) ==
    [list EXCEPT
       !.meetings = IF edit.kind = "delete" THEN SelectSeq(@, LAMBDA r : r.id \notin ok) ELSE @,
       !.trash = IF edit.kind = "delete" /\ edit.bulk THEN @ ELSE @ \ ok,
       !.loading = FALSE]

AnswerEdit ==
    /\ edit # NoEdit /\ edit.served /\ (edit.bulk \/ edit.succeeded # {})
    /\ Show(Filtered(edit.succeeded),
            IF edit.kind # "restore" /\ edit.selected \in edit.succeeded
            THEN [view EXCEPT !.selected = NoMeeting] ELSE view)
    /\ edit' = NoEdit
    /\ UNCHANGED <<listRows, reads, statusEvents, changes>>

\* The request is refused, or its answer is lost after the server applied it.
FailEdit ==
    /\ edit # NoEdit
    /\ Show([list EXCEPT !.loading = FALSE], view)
    /\ edit' = NoEdit
    /\ UNCHANGED <<listRows, reads, statusEvents, changes>>

(***************************************************************************)
(* The user moves through the page.                                         *)
(***************************************************************************)
toggleTrash ==
    /\ Count
    /\ LET v == [trash |-> ~view.trash, search |-> FALSE, selected |-> NoMeeting]
       IN IF v.trash THEN fetchTrashMeetings(list, v) ELSE fetchMeetings(list, v)
    /\ UNCHANGED <<listRows, edit, statusEvents>>

runSearch ==
    /\ Count /\ ~view.trash
    /\ searchMeetings(list, [view EXCEPT !.search = TRUE])
    /\ UNCHANGED <<listRows, edit, statusEvents>>

clearSearch ==
    /\ Count /\ view.search
    /\ fetchMeetings(list, [view EXCEPT !.search = FALSE])
    /\ UNCHANGED <<listRows, edit, statusEvents>>

\* A card, a notification or a link: the controller judges the meeting against its list at once.
handleSelectMeeting(m) ==
    /\ Count /\ m \in listRows.active /\ m # view.selected /\ ~view.trash
    /\ view' = Judged(list, [view EXCEPT !.selected = m])
    /\ UNCHANGED <<listRows, list, reads, edit, statusEvents>>

\* The page is entered again with the store of the last visit: its first render judges the
\* selection before the read it starts shows anything.
Mount(m) ==
    /\ Count /\ m \in listRows.active \cup {NoMeeting}
    /\ view' = Judged(list, [trash |-> FALSE, search |-> FALSE, selected |-> m])
    /\ list' = Loud(list)
    /\ reads' = {Read("fetch", {1})}
    /\ UNCHANGED <<listRows, edit, statusEvents>>

\* A reload empties the store and keeps the address.
ReloadPage ==
    /\ Count
    /\ LET v == [view EXCEPT !.search = FALSE]
       IN IF v.trash THEN fetchTrashMeetings(EmptyList, v) ELSE fetchMeetings(EmptyList, v)
    /\ edit' = NoEdit /\ statusEvents' = {}
    /\ UNCHANGED listRows

(***************************************************************************)
(* The server's rows change elsewhere, and status messages reach the page.  *)
(***************************************************************************)
CreateElsewhere(m) ==
    /\ Count /\ \A other \in listRows.active \cup listRows.trash : other < m
    /\ listRows' = [listRows EXCEPT !.active = @ \cup {m}]
    /\ UNCHANGED <<list, view, reads, edit, statusEvents>>

DeleteElsewhere(m) ==
    /\ Count /\ m \in listRows.active
    /\ listRows' = [listRows EXCEPT !.active = @ \ {m}, !.trash = @ \cup {m}]
    /\ UNCHANGED <<list, view, reads, edit, statusEvents>>

\* The gateway sends the change to the owner's room; a socket that is down misses it.
handleMeetingStatusChanged(m, reached) ==
    /\ Count /\ m \in listRows.active \ listRows.done
    /\ listRows' = [listRows EXCEPT !.done = @ \cup {m}]
    /\ statusEvents' = IF reached THEN statusEvents \cup {m} ELSE statusEvents
    /\ UNCHANGED <<list, view, reads, edit>>

applyMeetingStatusUpdate(m) ==
    /\ m \in statusEvents
    /\ statusEvents' = statusEvents \ {m}
    /\ Show([list EXCEPT !.meetings =
               [i \in DOMAIN @ |-> IF @[i].id = m THEN [@[i] EXCEPT !.done = TRUE] ELSE @[i]]], view)
    /\ UNCHANGED <<listRows, reads, edit, changes>>

Answer(r) == AnswerFetch(r) \/ AnswerMore(r) \/ AnswerTrash(r) \/ AnswerSearch(r)

ListNext ==
    \/ Poll \/ PollOvertakes \/ loadMoreMeetings
    \/ \E r \in reads : Answer(r) \/ FailRead(r) \/ \E p \in DOMAIN r.parts : ServePage(r, p)
    \/ \E ids \in SUBSET Meetings, bulk \in BOOLEAN, kind \in {"delete", "restore", "purge"} :
         handleConfirmAction(kind, bulk, ids)
    \/ ServeEdit \/ AnswerEdit \/ FailEdit
    \/ toggleTrash \/ runSearch \/ clearSearch \/ ReloadPage
    \/ \E m \in Meetings : \/ handleSelectMeeting(m) \/ CreateElsewhere(m) \/ DeleteElsewhere(m)
                           \/ applyMeetingStatusUpdate(m)
                           \/ \E reached \in BOOLEAN : handleMeetingStatusChanged(m, reached)
    \/ \E m \in Meetings \cup {NoMeeting} : Mount(m)

\* The timers of the page run, the server answers what it is asked, and the socket delivers.
ListFairness ==
    /\ WF_listVars(Poll)
    /\ WF_listVars(\E r \in reads, p \in 1..LastMeeting + 1 : ServePage(r, p))
    /\ WF_listVars(\E r \in reads : Answer(r))
    /\ WF_listVars(ServeEdit) /\ WF_listVars(AnswerEdit \/ (edit # NoEdit /\ edit.served /\ FailEdit))
    /\ WF_listVars(\E m \in Meetings : applyMeetingStatusUpdate(m))

ListSpec == ListInit /\ [][ListNext]_listVars
FairListSpec == ListSpec /\ ListFairness

-----------------------------------------------------------------------------

\* The rows the list should hold for what the user looks at.
ShowsServer ==
    IF view.trash THEN list.trash = listRows.trash
    ELSE list.meetings = SubSeq(Ordered(listRows.active), 1,
            IF list.page * PageSize < Cardinality(listRows.active)
            THEN list.page * PageSize ELSE Cardinality(listRows.active))

\* Once nothing changes any more, the polls bring the store to the server's rows, whatever
\* answers, status messages and edits crossed on the way (the poll is the safety net the
\* comments of meetingListConfig.ts:27-30 describe).
ListCatchesUp == <>[](view.search \/ ShowsServer)
=============================================================================
