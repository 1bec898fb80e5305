----------------------------- MODULE MeetingSearch -----------------------------
(***************************************************************************)
(* The search over the meetings of one user: the projection that            *)
(* MeetingSearchDocumentService keeps of every meeting, and                 *)
(* MeetingService.search, which reads the projection when it covers all     *)
(* meetings and the tables themselves when it does not.                     *)
(*                                                                         *)
(* Texts are encrypted in the database, so a search loads every text and    *)
(* looks for the keyword itself.  Saving a title, a note or minutes         *)
(* refreshes the projection afterwards; storing segments of the transcript  *)
(* does not.  A refresh that fails deletes the row it could not refresh.    *)
(***************************************************************************)
EXTENDS Naturals, Sequences, SequencesExt, FiniteSetsExt

CONSTANTS
    LastMeeting,    \* the meetings are 1..LastMeeting, the latest first
    Scopes,         \* the texts of a meeting
    PageSize,       \* limit of a search
    Queried,        \* the scopes of searches
    Pages,          \* the pages they ask for
    CoverageBatch,  \* limit of ensureCoverage (200)
    MaxChanges,     \* bound on the changes of meetings
    MaxRefreshes,   \* bound on the refreshes under way at once
    MaxRefreshFaults       \* bound on failed statements

Meetings == 1..LastMeeting
\* The texts in the order in which a result names the one that matches.
TextOrder == <<"title", "result", "note", "transcript">>

ASSUME SearchAssumption == Scopes \subseteq Range(TextOrder) /\ "title" \in Scopes

\* A text without the keyword, with the keyword among the characters that the projection keeps
\* (MAX_..._CONTENT_LENGTH), and with the keyword only behind them.
IndexedTexts == {"none", "early", "late"}
\* The projection keeps the whole title.
TextsOf(f) == IF f = "title" THEN {"none", "early"} ELSE IndexedTexts
NoDocument == [kind |-> "none"]

VARIABLES
    texts,      \* texts[m][f]: what the tables hold
    trashed,    \* deleted_at is set
    documents,  \* the rows of meeting_search_document
    refreshes,  \* refreshByMeetingId under way: its meeting, who waits for it, what it has read
    search,     \* the search under way
    changes,    \* how many changes there were
    refreshFaults,     \* how many statements failed
    suspect     \* auxiliary: documents an older refresh wrote last, or that could not be deleted,
                \* or whose transcript was stored after the last refresh

searchVars == <<texts, trashed, documents, refreshes, search, changes, refreshFaults, suspect>>

NoSearch == [at |-> "idle", scope |-> "all", page |-> 1, missing |-> {}, over |-> FALSE, ok |-> TRUE,
             results |-> <<>>, since |-> 0, dropped |-> {}, doubt |-> {}]

\* The meetings were created with titles or without; their documents have been lost since, or never were.
SearchInit ==
    /\ texts = [m \in Meetings |-> [f \in Scopes |->
                   IF f = "title" /\ m = LastMeeting THEN "early" ELSE "none"]]
    /\ trashed = {}
    /\ documents = [m \in Meetings |-> NoDocument]
    /\ refreshes = <<>>
    /\ search = NoSearch
    /\ changes = 0 /\ refreshFaults = 0 /\ suspect = {}

-----------------------------------------------------------------------------
(***************************************************************************)
(* The projection                                                           *)
(***************************************************************************)

limitText(text) == IF text = "late" THEN "none" ELSE text

\* The row that refreshByMeetingId makes of the texts t.
DocumentOf(t) == [kind |-> "document", fields |-> [f \in Scopes |-> limitText(t[f])]]

\* A refresh after a save, or one of ensureCoverage: it reads the meeting with its title, and then the
\* texts that are left, of which any may be the first.
Refresh(m, by) == [of |-> m, by |-> by, at |-> "meeting", copy |-> [f \in Scopes |-> "none"],
                   left |-> Scopes \ {"title"}]

\* A title, a note or minutes are stored, then the projection is refreshed.
SaveText(m, f) ==
    /\ changes < MaxChanges /\ Len(refreshes) < MaxRefreshes /\ m \notin trashed /\ f # "transcript"
    /\ \E t \in TextsOf(f) \ {texts[m][f]} : texts' = [texts EXCEPT ![m][f] = t]
    /\ refreshes' = Append(refreshes, Refresh(m, "save"))
    /\ changes' = changes + 1
    /\ UNCHANGED <<trashed, documents, search, refreshFaults, suspect>>

\* Segments of the transcript are stored; nothing is refreshed.
SaveSegments(m) ==
    /\ changes < MaxChanges /\ m \notin trashed
    /\ \E t \in IndexedTexts \ {texts[m]["transcript"]} : texts' = [texts EXCEPT ![m]["transcript"] = t]
    /\ suspect' = suspect \cup {m} /\ changes' = changes + 1
    /\ UNCHANGED <<trashed, documents, refreshes, search, refreshFaults>>

\* remove and restore do not touch the projection.
TrashOrRestore(m) ==
    /\ changes < MaxChanges
    /\ trashed' = IF m \in trashed THEN trashed \ {m} ELSE trashed \cup {m}
    /\ changes' = changes + 1
    /\ UNCHANGED <<texts, documents, refreshes, search, refreshFaults, suspect>>

\* The meeting is read; the document of a trashed one is to be deleted.
RefreshReadsMeeting(i) ==
    LET m == refreshes[i].of
    IN /\ refreshes[i].at = "meeting"
       /\ refreshes' = IF m \in trashed THEN [refreshes EXCEPT ![i].at = "delete"]
                       ELSE [refreshes EXCEPT ![i].at = "texts", ![i].copy["title"] = texts[m]["title"]]
       /\ UNCHANGED <<texts, trashed, documents, search, changes, refreshFaults, suspect>>

\* Promise.all: the note, the minutes and the segments are read, each at a moment of its own.
RefreshReadsText(i, f) ==
    /\ refreshes[i].at = "texts" /\ f \in refreshes[i].left
    /\ refreshes' = [refreshes EXCEPT ![i].left = @ \ {f},
                                      ![i].copy[f] = limitText(texts[refreshes[i].of][f])]
    /\ UNCHANGED <<texts, trashed, documents, search, changes, refreshFaults, suspect>>

\* A statement of the refresh fails, and the document is to be invalidated.
RefreshFails(i) ==
    /\ refreshFaults < MaxRefreshFaults /\ refreshFaults' = refreshFaults + 1
    /\ refreshes[i].at # "invalidate"
    /\ refreshes' = [refreshes EXCEPT ![i] =
                       [Refresh(refreshes[i].of, refreshes[i].by) EXCEPT !.at = "invalidate"]]
    /\ UNCHANGED <<texts, trashed, documents, search, changes, suspect>>

\* The refresh returns; a search that waits for it notes whether it failed.  The search under way also
\* remembers which documents are deleted between its check and its reading (auxiliary: dropped).
Ended(i, ok, deleted) ==
    /\ refreshes' = RemoveAt(refreshes, i)
    /\ search' = [search EXCEPT !.missing = IF refreshes[i].by = "search" THEN @ \ {refreshes[i].of} ELSE @,
                                !.ok = IF refreshes[i].by = "search" THEN @ /\ ok ELSE @,
                                !.dropped = IF search.at = "find" THEN @ \cup deleted ELSE @]

\* A mutant of Invalidated: the document that could not be refreshed is kept.
KeepDocument(m) == documents

Invalidated(m) == [documents EXCEPT ![m] = NoDocument]

\* The row is written; a later refresh that was faster is overwritten.
RefreshSaves(i) ==
    LET m == refreshes[i].of
        row == [kind |-> "document", fields |-> refreshes[i].copy]
    IN /\ refreshes[i].at = "texts" /\ refreshes[i].left = {}
       /\ documents' = [documents EXCEPT ![m] = row]
       /\ suspect' = IF row = DocumentOf(texts[m]) THEN suspect \ {m} ELSE suspect \cup {m}
       /\ Ended(i, TRUE, {})
       /\ UNCHANGED <<texts, trashed, changes, refreshFaults>>

\* The document of the trashed meeting is deleted.
RefreshDeletes(i) ==
    LET m == refreshes[i].of
    IN /\ refreshes[i].at = "delete"
       /\ documents' = [documents EXCEPT ![m] = NoDocument] /\ suspect' = suspect \ {m}
       /\ Ended(i, TRUE, {m})
       /\ UNCHANGED <<texts, trashed, changes, refreshFaults>>

\* The document that could not be refreshed is deleted, unless that fails as well.
RefreshInvalidates(i) ==
    LET m == refreshes[i].of
    IN /\ refreshes[i].at = "invalidate"
       /\ \/ documents' = Invalidated(m) /\ suspect' = suspect \ {m} /\ Ended(i, FALSE, {m})
          \/ suspect' = suspect \cup {m} /\ UNCHANGED documents /\ Ended(i, FALSE, {})
       /\ UNCHANGED <<texts, trashed, changes, refreshFaults>>

-----------------------------------------------------------------------------
(***************************************************************************)
(* A search.  Its statements are steps of their own: changes and refreshes  *)
(* of other requests come between them.                                     *)
(***************************************************************************)
NotTrashed == Meetings \ trashed
Uncovered == {m \in NotTrashed : documents[m] = NoDocument}

\* The first n of them, the latest meeting first.
findMissingMeetingIds(n) == {m \in Uncovered : Cardinality({k \in Uncovered : k <= m}) <= n}

\* A statement of the search fails: its texts are searched without the projection.
SearchFault == refreshFaults < MaxRefreshFaults /\ refreshFaults' = refreshFaults + 1

beginSearch ==
    /\ search.at = "idle"
    /\ \E scope \in Queried, page \in Pages :
         LET asked == [NoSearch EXCEPT !.scope = scope, !.page = page, !.since = changes]
             missing == findMissingMeetingIds(CoverageBatch)
         IN \/ /\ search' = [asked EXCEPT !.at = "cover", !.missing = missing,
                                           !.over = findMissingMeetingIds(CoverageBatch + 1) # missing]
               /\ UNCHANGED refreshFaults
            \/ SearchFault /\ search' = [asked EXCEPT !.at = "legacy"]
    /\ UNCHANGED <<texts, trashed, documents, refreshes, changes, suspect>>

\* ensureCoverage refreshes the missing documents one by one, the latest meeting first.
ensureCoverage ==
    /\ search.at = "cover" /\ \A i \in DOMAIN refreshes : refreshes[i].by # "search"
    /\ Len(refreshes) < MaxRefreshes
    /\ \E m \in search.missing :
         /\ \A k \in search.missing : m <= k
         /\ refreshes' = Append(refreshes, Refresh(m, "search"))
    /\ UNCHANGED <<texts, trashed, documents, search, changes, refreshFaults, suspect>>

\* It ends with a look for missing documents, unless it is known already that not all are covered.
checkCoverage ==
    /\ search.at = "cover" /\ search.missing = {}
    /\ \/ /\ search' = [search EXCEPT !.at = IF search.ok /\ ~search.over /\ Uncovered = {}
                                            THEN "find" ELSE "legacy"]
          /\ UNCHANGED refreshFaults
       \/ search.ok /\ ~search.over /\ SearchFault /\ search' = [search EXCEPT !.at = "legacy"]
    /\ UNCHANGED <<texts, trashed, documents, refreshes, changes, suspect>>

\* The first field of a match, or none.
MatchedIn(fields, scope) ==
    LET hits == {i \in DOMAIN TextOrder : /\ TextOrder[i] \in Scopes /\ scope \in {TextOrder[i], "all"}
                                         /\ fields[TextOrder[i]] # "none"}
    IN IF hits = {} THEN "none" ELSE TextOrder[Min(hits)]

\* The page of the meetings that match, the latest first, with the field of the match.
Found(among, matchedIn, page) ==
    LET hits == SetToSortSeq({m \in among : matchedIn[m] # "none"}, LAMBDA a, b : a < b)
        first == (page - 1) * PageSize + 1
        last == IF first + PageSize - 1 < Len(hits) THEN first + PageSize - 1 ELSE Len(hits)
    IN [i \in 1..(IF last < first THEN 0 ELSE last - first + 1) |->
          [id |-> hits[first + i - 1], matchedIn |-> matchedIn[hits[first + i - 1]]]]

Covered == {m \in Meetings : documents[m] # NoDocument}
InDocuments ==
    [m \in Meetings |-> IF m \in Covered THEN MatchedIn(documents[m].fields, search.scope) ELSE "none"]
InTexts == [m \in Meetings |-> MatchedIn(texts[m], search.scope)]

\* MeetingSearchDocumentService.search: the documents that are there now.  The meetings whose document
\* may be missing or out of date are remembered (auxiliary: doubt).
searchProjection ==
    /\ search.at = "find"
    /\ \/ /\ search' = [search EXCEPT
                !.at = "answered", !.results = Found(NotTrashed, InDocuments, search.page),
                !.doubt = search.dropped \cup suspect \cup {refreshes[i].of : i \in DOMAIN refreshes}]
          /\ UNCHANGED refreshFaults
       \/ SearchFault /\ search' = [search EXCEPT !.at = "legacy"]
    /\ UNCHANGED <<texts, trashed, documents, refreshes, changes, suspect>>

searchLegacy ==
    /\ search.at = "legacy"
    /\ search' = [search EXCEPT !.at = "answered", !.results = Found(NotTrashed, InTexts, search.page)]
    /\ UNCHANGED <<texts, trashed, documents, refreshes, changes, refreshFaults, suspect>>

endSearch ==
    /\ search.at = "answered"
    /\ search' = NoSearch
    /\ UNCHANGED <<texts, trashed, documents, refreshes, changes, refreshFaults, suspect>>

SearchNext ==
    \/ \E m \in Meetings : \E f \in Scopes : SaveText(m, f)
    \/ \E m \in Meetings : SaveSegments(m) \/ TrashOrRestore(m)
    \/ \E i \in DOMAIN refreshes :
         \/ RefreshReadsMeeting(i) \/ \E f \in Scopes : RefreshReadsText(i, f)
         \/ RefreshSaves(i) \/ RefreshDeletes(i) \/ RefreshFails(i) \/ RefreshInvalidates(i)
    \/ beginSearch \/ ensureCoverage \/ checkCoverage \/ searchProjection \/ searchLegacy \/ endSearch

SearchSpec == SearchInit /\ [][SearchNext]_searchVars

-----------------------------------------------------------------------------
InCurrentDocuments == [m \in Meetings |-> MatchedIn(DocumentOf(texts[m]).fields, search.scope)]

\* A search that meets no change answers what the tables hold: the requested page of the meetings that
\* match and are not trashed, each with the field of the match, by the whole texts or by what the
\* projection keeps of them.  Only about single meetings may the projection be wrong, and the others are
\* listed as if it were not: those with a refresh under way, whose document was deleted between the
\* check and the reading, that an older refresh wrote last, that could not be deleted when their refresh
\* failed, or whose transcript was stored after the last refresh.
SearchFindsWhatIsStored ==
    (search.at = "answered" /\ changes = search.since) =>
        \/ search.results = Found(NotTrashed, InTexts, search.page)
        \/ \E matchedIn \in [Meetings -> Scopes \cup {"none"}] :
              /\ \A m \in NotTrashed \ search.doubt : matchedIn[m] = InCurrentDocuments[m]
              /\ search.results = Found(NotTrashed, matchedIn, search.page)
=============================================================================
