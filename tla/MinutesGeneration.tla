--------------------------- MODULE MinutesGeneration ---------------------------
(***************************************************************************)
(* How the minutes of one meeting are made from its note and transcript by  *)
(* a language model: ResultService.generateContentWithAI over BedrockService *)
(* (extractStructuredNotes, then generateMeetingResult).                    *)
(*                                                                         *)
(* The source is cut into chunks and extracted two chunks at a time; a      *)
(* chunk whose answer is cut off, or says too little, is halved and tried   *)
(* again, its parts merged in the order of the source.  After three failed  *)
(* attempts, or a chunk that cannot be cut further, the document is written *)
(* by the older prompt, and if that fails too the minutes are the note and  *)
(* the transcript themselves.  The model may answer anything to each call.  *)
(***************************************************************************)
EXTENDS SourceSplit

CONSTANTS
    SourceChunkChars,   \* sourceChunkChars, in thousands of characters
    LowDetailChars,     \* from this size on a poor answer is not believed
    MinSplitChars,      \* up to this size a chunk is not halved
    MaxSplitDepth,      \* MAX_SPLIT_DEPTH
    MaxAttempts,        \* maxAttempts
    ThrottleMaxRetries, \* THROTTLE_MAX_RETRIES
    OverviewRounds,     \* rounds of synthesizeOverview
    MaxOverviewChunks,  \* bound on the chunks of one round
    MaxSource           \* bound on the length of note and transcript

ASSUME GenerationAssumption ==
    /\ {SourceChunkChars, LowDetailChars} \subseteq Nat \ {0}
    /\ {MinSplitChars, MaxSplitDepth, MaxAttempts, ThrottleMaxRetries,
        OverviewRounds, MaxOverviewChunks, MaxSource} \subseteq Nat

VARIABLES
    session,    \* the note and the transcript of the meeting
    stage,      \* where generateContentWithAI is
    attempt,    \* its attempt
    sourceChunks,     \* the chunks of extractStructuredNotes, or of generateMeetingResult
    taken,      \* how many of them have been started
    workers,    \* the calls of extractChunk (or generateLegacyChunk) under way
    merged,     \* what they have extracted so far, and the suggested title
    overview,   \* the round of synthesizeOverview, its calls left
    meetingTitle, \* the title in the meeting row: who wrote it, from what
    content     \* the content of the result

generationVars == <<session, stage, attempt, sourceChunks, taken, workers, merged, overview, meetingTitle, content>>

Size(c) == Len(c.note) + Len(c.text)

\* A suggested title is the source of the call that suggested it.
NoTitle == [note |-> <<>>, text |-> <<>>]
NothingMerged == [parts |-> <<>>, title |-> NoTitle]
NoOverview == [round |-> 0, chunks |-> 0, left |-> 0, throttled |-> 0]

\* A call of extractChunk: the pieces of its chunk still to be sent to the model, in order.
Worker(pieces) == [todo |-> pieces, parts |-> <<>>, throttled |-> 0, state |-> "busy"]
Whole(c) == [source |-> c, depth |-> 0]

GenerationInit ==
    /\ \E n, m \in 0..MaxSource :
         /\ n + m <= MaxSource
         /\ session = [note |-> TextOf([i \in 1..n |-> "plain"]),
                       text |-> TextOf([i \in 1..m |-> "plain"])]
    /\ stage = "start" /\ attempt = 1
    /\ sourceChunks = <<>> /\ taken = 0 /\ workers = <<>> /\ merged = NothingMerged /\ overview = NoOverview
    /\ meetingTitle = [by |-> "nobody", of |-> NoTitle]
    /\ content = [kind |-> "none", parts |-> <<>>]

-----------------------------------------------------------------------------
(***************************************************************************)
(* Calls of the model.                                                      *)
(***************************************************************************)

\* sendWithResilience: a throttled call is repeated, at most ThrottleMaxRetries times.
Throttled(w) == IF w.throttled < ThrottleMaxRetries THEN [w EXCEPT !.throttled = @ + 1]
                                                    ELSE [w EXCEPT !.state = "failed"]

\* The first piece of the worker is done and left the given parts.
Done(w, parts) ==
    [todo |-> Tail(w.todo), parts |-> w.parts \o parts, throttled |-> 0,
     state |-> IF Len(w.todo) = 1 THEN "done" ELSE "busy"]

Halves(piece) ==
    LET halves == splitNoteSources(piece.source, (Size(piece.source) + 1) \div 2)
    IN [i \in DOMAIN halves |-> [source |-> halves[i], depth |-> piece.depth + 1]]

\* The first piece is replaced by its halves, tried one after the other.
Halved(w) == [w EXCEPT !.todo = Halves(Head(@)) \o Tail(@), !.throttled = 0]

MayHalve(piece) == piece.depth < MaxSplitDepth /\ Size(piece.source) > MinSplitChars

\* hasVeryLowDetail, of a long piece that may still be halved.
MayDoubt(piece) == piece.depth < MaxSplitDepth /\ Size(piece.source) >= LowDetailChars

\* What became of a piece: its text, also one with a title, or cut off and marked as such, or nothing.
Part(piece, says) == [note |-> piece.source.note, text |-> piece.source.text,
                      depth |-> piece.depth, says |-> says]

\* What may become of extractChunk when the model answers: the extraction, with a title or
\* without; too little of it; an answer cut off at max_tokens; none, or no JSON; throttling.
ExtractOutcomes(w) ==
    LET piece == Head(w.todo)
    IN {Done(w, <<Part(piece, says)>>) : says \in {"text", "title"}}
       \cup (IF MayDoubt(piece) THEN {Halved(w)} ELSE {})
       \cup {IF MayHalve(piece) THEN Halved(w) ELSE [w EXCEPT !.state = "truncated"]}
       \cup {[w EXCEPT !.state = "failed"], Throttled(w)}

\* The same for generateLegacyChunk: a blank answer is an answer, and so is one cut off that cannot
\* be cut further.
LegacyOutcomes(w) ==
    LET piece == Head(w.todo)
    IN {Done(w, <<Part(piece, says)>>) : says \in {"text", "title", "nothing"}}
       \cup {IF MayHalve(piece) THEN Halved(w) ELSE Done(w, <<Part(piece, "marked")>>)}
       \cup {[w EXCEPT !.state = "failed"], Throttled(w)}

-----------------------------------------------------------------------------
(***************************************************************************)
(* extractStructuredNotes                                                   *)
(***************************************************************************)

\* generateResultPayload: without note and transcript the minutes are a notice.
generateResultPayload ==
    /\ stage = "start"
    /\ IF Size(session) = 0
         THEN /\ content' = [kind |-> "notice", parts |-> <<>>] /\ stage' = "done"
              /\ UNCHANGED sourceChunks
         ELSE /\ sourceChunks' = splitNoteSources(session, SourceChunkChars) /\ stage' = "extract"
              /\ UNCHANGED content
    /\ UNCHANGED <<session, attempt, taken, workers, merged, overview, meetingTitle>>

\* The next batch of at most two chunks.
extractStructuredNotes ==
    LET last == IF taken + 2 > Len(sourceChunks) THEN Len(sourceChunks) ELSE taken + 2
        batch == SubSeq(sourceChunks, taken + 1, last)
    IN /\ stage = "extract" /\ workers = <<>> /\ taken < Len(sourceChunks)
       /\ workers' = [i \in DOMAIN batch |-> Worker(<<Whole(batch[i])>>)]
       /\ taken' = taken + Len(batch)
       /\ UNCHANGED <<session, stage, attempt, sourceChunks, merged, overview, meetingTitle, content>>

extractChunk(i) ==
    /\ stage = "extract" /\ workers[i].state = "busy"
    /\ \E w \in ExtractOutcomes(workers[i]) : workers' = [workers EXCEPT ![i] = w]
    /\ UNCHANGED <<session, stage, attempt, sourceChunks, taken, merged, overview, meetingTitle, content>>

\* mergeExtractions: the details of all parts, and the first title that one of them suggests.
Merge(parts) ==
    LET titled == SelectSeq(parts, LAMBDA p : p.says = "title")
    IN [parts |-> parts,
        title |-> IF titled = <<>> THEN NoTitle ELSE [note |-> titled[1].note, text |-> titled[1].text]]

\* A mutant of FailedOf: what a failed chunk leaves out is left out of the minutes.
IgnoreFailures(batch) ==
    IF \A i \in DOMAIN batch : batch[i].state \in {"failed", "truncated"} THEN DOMAIN batch ELSE {}

\* The chunks of the batch that failed.
FailedOf(batch) == {i \in DOMAIN batch : batch[i].state \in {"failed", "truncated"}}

Extracted(batch) == Joined("parts", batch)

\* An attempt that failed is followed by another one, the last by the older prompt; so is an
\* answer cut off that could not be halved any more.
NextAttempt(truncated) ==
    /\ IF truncated \/ attempt = MaxAttempts THEN stage' = "legacy" /\ UNCHANGED attempt
                                             ELSE stage' = "extract" /\ attempt' = attempt + 1
    /\ taken' = 0 /\ workers' = <<>> /\ merged' = NothingMerged /\ overview' = NoOverview

\* Promise.allSettled has answered: the first rejected chunk in order decides.
SettleBatch ==
    /\ stage = "extract" /\ workers # <<>>
    /\ \A i \in DOMAIN workers : workers[i].state # "busy"
    /\ LET bad == FailedOf(workers)
       IN IF bad # {} THEN NextAttempt(workers[Min(bad)].state = "truncated")
          ELSE /\ workers' = <<>> /\ merged' = Merge(merged.parts \o Extracted(workers))
               /\ IF taken < Len(sourceChunks) THEN UNCHANGED <<stage, overview>>
                  ELSE IF Len(sourceChunks) = 1 THEN stage' = "title" /\ UNCHANGED overview
                  ELSE /\ stage' = "overview"
                       /\ \E n \in 1..MaxOverviewChunks :
                            overview' = [round |-> 1, chunks |-> n, left |-> n, throttled |-> 0]
               /\ UNCHANGED <<attempt, taken>>
    /\ UNCHANGED <<session, sourceChunks, meetingTitle, content>>

\* synthesizeOverview has come to its end, with a title for the session or without.
Overviewed(title) == /\ merged' = [merged EXCEPT !.title = title]
                     /\ stage' = "title" /\ overview' = NoOverview

\* A call of synthesizeOverview answers: one more summary, and after the last chunk either the
\* overview of the session or another round over the summaries.
synthesizeOverview ==
    /\ stage = "overview"
    /\ \/ /\ overview.left > 1
          /\ overview' = [overview EXCEPT !.left = @ - 1, !.throttled = 0]
          /\ UNCHANGED <<merged, stage>>
       \/ /\ overview.left = 1 /\ overview.chunks = 1
          /\ \E title \in {session, NoTitle} : Overviewed(title)
       \/ /\ overview.left = 1 /\ overview.chunks > 1 /\ overview.round < OverviewRounds
          /\ \E n \in 1..MaxOverviewChunks :
               overview' = [round |-> overview.round + 1, chunks |-> n, left |-> n, throttled |-> 0]
          /\ UNCHANGED <<merged, stage>>
       \/ /\ overview.left = 1 /\ overview.chunks > 1 /\ overview.round = OverviewRounds
          /\ Overviewed(NoTitle)
       \/ /\ overview.throttled < ThrottleMaxRetries
          /\ overview' = [overview EXCEPT !.throttled = @ + 1]
          /\ UNCHANGED <<merged, stage>>
       \/ Overviewed(NoTitle)
    /\ UNCHANGED <<session, attempt, sourceChunks, taken, workers, meetingTitle, content>>

-----------------------------------------------------------------------------
(***************************************************************************)
(* generateContentWithAI after the extraction                               *)
(***************************************************************************)

\* setGeneratedTitleIfMissing: a title is stored only where there is none.
StoreTitle(by, title) ==
    meetingTitle' = IF meetingTitle.by = "nobody" /\ title # NoTitle THEN [by |-> by, of |-> title]
                                                                     ELSE meetingTitle

\* An extraction with all its fields gives the meeting its title, before it is judged.
SaveSuggestedTitle ==
    /\ stage = "title"
    /\ stage' = "judge" /\ StoreTitle("extraction", merged.title)
    /\ UNCHANGED <<session, attempt, sourceChunks, taken, workers, merged, overview, content>>

\* It lacks fields, or the title cannot be stored.
FailTitle ==
    /\ stage = "title"
    /\ NextAttempt(FALSE)
    /\ UNCHANGED <<session, sourceChunks, meetingTitle, content>>

\* validateExtraction and renderStructuredMarkdown (module MinutesContent).
AcceptExtraction ==
    /\ stage = "judge"
    /\ stage' = "done" /\ content' = [kind |-> "structured", parts |-> merged.parts]
    /\ UNCHANGED <<session, attempt, sourceChunks, taken, workers, merged, overview, meetingTitle>>

RejectExtraction ==
    /\ stage = "judge"
    /\ NextAttempt(FALSE)
    /\ UNCHANGED <<session, sourceChunks, meetingTitle, content>>

-----------------------------------------------------------------------------
(***************************************************************************)
(* The older prompt and the raw minutes                                     *)
(***************************************************************************)

\* A chunk of generateMeetingResult that is done, with some text.
Written(w) == w.state = "done" /\ \E i \in DOMAIN w.parts : w.parts[i].says # "nothing"

\* generateMeetingResult goes through the chunks one by one.
generateMeetingResult ==
    /\ stage = "legacy" /\ workers = <<>> /\ taken < Len(sourceChunks)
    /\ workers' = <<Worker(<<Whole(sourceChunks[taken + 1])>>)>> /\ taken' = taken + 1
    /\ UNCHANGED <<session, stage, attempt, sourceChunks, merged, overview, meetingTitle, content>>

generateLegacyChunk(i) ==
    /\ stage = "legacy" /\ workers[i].state = "busy"
    /\ \E w \in LegacyOutcomes(workers[i]) : workers' = [workers EXCEPT ![i] = w]
    /\ UNCHANGED <<session, stage, attempt, sourceChunks, taken, merged, overview, meetingTitle, content>>

\* The document goes on with what the chunk says; a half without text leaves no gap in it.
PushChunk ==
    /\ stage = "legacy" /\ workers # <<>> /\ Written(workers[1])
    /\ merged' = Merge(merged.parts \o Extracted(workers)) /\ workers' = <<>>
    /\ UNCHANGED <<session, stage, attempt, sourceChunks, taken, overview, meetingTitle, content>>

LegacyWritten == workers = <<>> /\ taken = Len(sourceChunks)

\* applyLegacyGeneratedTitle: the first heading of the document becomes the title.
AcceptLegacy ==
    /\ stage = "legacy" /\ LegacyWritten
    /\ StoreTitle("document", merged.title)
    /\ stage' = "done" /\ content' = [kind |-> "legacy", parts |-> merged.parts]
    /\ UNCHANGED <<session, attempt, sourceChunks, taken, workers, merged, overview>>

\* buildFallbackContent: note and transcript as they are, when a call failed, a whole chunk was
\* answered with nothing, or the title could not be stored.
buildFallbackContent ==
    /\ stage = "legacy"
    /\ LegacyWritten \/ \E i \in DOMAIN workers : workers[i].state # "busy" /\ ~Written(workers[i])
    /\ stage' = "done" /\ workers' = <<>>
    /\ content' = [kind |-> "raw", parts |-> <<session>>]
    /\ UNCHANGED <<session, attempt, sourceChunks, taken, merged, overview, meetingTitle>>

\* The user names the meeting meanwhile.
UserNamesMeeting ==
    /\ stage # "done" /\ meetingTitle.by # "user"
    /\ meetingTitle' = [by |-> "user", of |-> NoTitle]
    /\ UNCHANGED <<session, stage, attempt, sourceChunks, taken, workers, merged, overview, content>>

GenerationStep ==
    \/ generateResultPayload
    \/ extractStructuredNotes
    \/ \E i \in DOMAIN workers : extractChunk(i)
    \/ SettleBatch \/ synthesizeOverview
    \/ SaveSuggestedTitle \/ FailTitle \/ AcceptExtraction \/ RejectExtraction
    \/ generateMeetingResult \/ PushChunk
    \/ \E i \in DOMAIN workers : generateLegacyChunk(i)
    \/ AcceptLegacy \/ buildFallbackContent

GenerationNext == GenerationStep \/ UserNamesMeeting \/ (stage = "done" /\ UNCHANGED generationVars)

\* Every call of the model comes back: it has a timeout (BEDROCK_CALL_TIMEOUT_MS).
GenerationSpec == GenerationInit /\ [][GenerationNext]_generationVars /\ WF_generationVars(GenerationStep)

-----------------------------------------------------------------------------
\* Minutes of a model, from the structured extraction as well as from the older prompt, rest on the
\* whole note and the whole transcript, in their order, however the chunks were cut, halved, answered
\* and repeated.  Nothing of it is left out but, by the older prompt, halves of a chunk (never a whole
\* one) that the model answered with nothing.
MinutesCoverSource ==
    content.kind \in {"structured", "legacy"} =>
      /\ Joined("note", content.parts) = session.note /\ Joined("text", content.parts) = session.text
      /\ \A i \in DOMAIN content.parts :
           content.parts[i].says = "nothing" => content.kind = "legacy" /\ content.parts[i].depth > 0
=============================================================================
