----------------------------- MODULE TranscriptText -----------------------------
(***************************************************************************)
(* From the words of a batch transcription job to the text that the         *)
(* language model reads: itemsToSegments and mergeBatchSegments of          *)
(* TranscriptionResultCollectorService, then preprocessTranscriptsForAI and *)
(* buildTranscriptTextForAI of ResultService.                               *)
(*                                                                         *)
(* The tokens of a text are words ("long", "short", a hesitation "filler")  *)
(* and the punctuation "." and ",".  A job may be collected again after a   *)
(* restart, and the meeting may hold segments of the live transcription.    *)
(***************************************************************************)
EXTENDS Naturals, Sequences, SequencesExt

CONSTANTS
    MaxWords,       \* a segment ends after so many words (20)
    MaxSeconds,     \* or when it is this long (15)
    MergeGap,       \* the pause over which segments are joined (1.5 seconds)
    ShortText,      \* the length of a text that is joined to the one before (3)
    LongWord,       \* the length of a long word
    Offsets,        \* startOffsetSeconds of the job; NoOffset for a job without one
    NoOffset,
    MaxTokens       \* bound on the tokens of the job

ASSUME TranscriptTextAssumption == NoOffset \notin Nat

VARIABLES
    items,      \* results.items of the job: tokens with their time and speaker
    job,        \* startOffsetSeconds
    table,      \* the segments of the meeting, in no order
    collected,  \* how often the job was collected
    prepared,   \* was the text built
    lines       \* the text for the model

transcriptVars == <<items, job, table, collected, prepared, lines>>

Words == {"long", "short", "filler"}
NoSpeaker == "unknown"
Speakers == {"spk_0", "spk_1"}
IsWord(token) == token \in Words
Largest(a, b) == IF a > b THEN a ELSE b

-----------------------------------------------------------------------------
(***************************************************************************)
(* Items to segments.                                                       *)
(***************************************************************************)
NoSegment == [tokens |-> <<>>, words |-> 0, start |-> 0, end |-> 0, speaker |-> NoSpeaker]

\* flushSegment: a text without a word is thrown away.
flushSegment(s) ==
    [done |-> IF s.current.words = 0 THEN s.done
              ELSE Append(s.done, [start |-> s.current.start, end |-> s.current.end,
                                   speaker |-> s.current.speaker, tokens |-> s.current.tokens]),
     current |-> [s.current EXCEPT !.tokens = <<>>, !.words = 0]]

\* Punctuation belongs to the text before it; the end of a sentence ends the segment.
TakePunctuation(s, item) ==
    LET taken == [s EXCEPT !.current.tokens = Append(@, item.token)]
    IN IF item.token = "." /\ s.current.words > 0 THEN flushSegment(taken) ELSE taken

\* A mutant of OtherSpeaker: words of two speakers share a segment.
NeverOther(current, speaker) == FALSE

\* The word is said by another speaker than the segment so far.
OtherSpeaker(current, speaker) ==
    NoSpeaker \notin {speaker, current.speaker} /\ speaker # current.speaker /\ current.words > 0

\* A word opens a segment when another speaker begins; a long segment is closed.
TakeWord(s, item) ==
    LET before == IF OtherSpeaker(s.current, item.speaker) THEN flushSegment(s) ELSE s
        c == before.current
        taken == [tokens |-> Append(c.tokens, item.token), words |-> c.words + 1,
                  start |-> IF c.words = 0 THEN item.at ELSE c.start, end |-> item.at,
                  speaker |-> IF c.words = 0 \/ item.speaker # NoSpeaker THEN item.speaker ELSE c.speaker]
        after == [before EXCEPT !.current = taken]
    IN IF taken.words >= MaxWords \/ taken.end - taken.start >= MaxSeconds THEN flushSegment(after) ELSE after

itemsToSegments(tokens) ==
    flushSegment(FoldLeft(LAMBDA s, item : IF IsWord(item.token) THEN TakeWord(s, item) ELSE TakePunctuation(s, item),
                          [done |-> <<>>, current |-> NoSegment], tokens)).done

-----------------------------------------------------------------------------
(***************************************************************************)
(* Segments to text.                                                        *)
(***************************************************************************)
TokenLength(token) == IF token = "long" THEN LongWord ELSE 1

\* The characters of a text: a blank stands before every word but the first.
TextLength(tokens) ==
    FoldLeftDomain(LAMBDA n, i : n + TokenLength(tokens[i]) + (IF i > 1 /\ IsWord(tokens[i]) THEN 1 ELSE 0), 0, tokens)

\* Hesitation alone, or nothing but punctuation.
SaysNothing(seg) == \/ seg.tokens \in {<<"filler">>, <<"filler", ".">>}
                    \/ \A i \in DOMAIN seg.tokens : ~IsWord(seg.tokens[i])

getSegmentGapSeconds(previous, seg) == IF seg.start > previous.end THEN seg.start - previous.end ELSE 0

Adjacent(previous, seg) == /\ previous.speaker = seg.speaker
                           /\ getSegmentGapSeconds(previous, seg) <= MergeGap

isConsecutiveDuplicateTranscript(previous, seg) == previous.tokens = seg.tokens /\ Adjacent(previous, seg)

canMergeShortTranscript(previous, seg) == TextLength(seg.tokens) <= ShortText /\ Adjacent(previous, seg)

\* The segments one after the other, each either joined to the last one kept or kept itself.
JoinWhere(Joins(_, _), Join(_, _), segments) ==
    FoldLeft(LAMBDA kept, seg : IF kept # <<>> /\ Joins(Last(kept), seg)
                                THEN ReplaceAt(kept, Len(kept), Join(Last(kept), seg)) ELSE Append(kept, seg),
             <<>>, segments)

Repeated(previous, seg) == [previous EXCEPT !.end = Largest(@, seg.end)]
Continued(previous, seg) == [previous EXCEPT !.end = Largest(@, seg.end), !.tokens = @ \o seg.tokens]

InTime(segments) == SetToSortSeq(segments, LAMBDA a, b : a.start < b.start \/ (a.start = b.start /\ a.order < b.order))

preprocessTranscriptsForAI(segments) ==
    LET filtered == SelectSeq(InTime(segments), LAMBDA seg : ~SaysNothing(seg))
        deduped == JoinWhere(isConsecutiveDuplicateTranscript, Repeated, filtered)
    IN JoinWhere(canMergeShortTranscript, Continued, deduped)

-----------------------------------------------------------------------------
(***************************************************************************)
(* One job of a meeting.                                                    *)
(***************************************************************************)

\* A live segment that was stored before the job was made.
LiveSegment == [start |-> 0, end |-> 1, speaker |-> NoSpeaker, tokens |-> <<"long">>, of |-> "live", order |-> 0]

\* When the tokens are spoken: each word a second after the one before, or after a pause.
Times(pauses) == FoldLeft(LAMBDA s, p : Append(s, p + (IF s = <<>> THEN 0 ELSE Last(s))), <<>>, pauses)

TranscriptInit ==
    /\ \E n \in 1..MaxTokens :
       \E tokens \in [1..n -> Words \cup {".", ","}], pauses \in [1..n -> {0, 1, MergeGap + 1}],
          speakers \in [1..n -> Speakers \cup {NoSpeaker}] :
         /\ \A i \in 1..n : /\ IsWord(tokens[i]) <=> pauses[i] > 0
                            /\ ~IsWord(tokens[i]) => speakers[i] = NoSpeaker
         /\ items = [i \in 1..n |-> [token |-> tokens[i], at |-> Times(pauses)[i], speaker |-> speakers[i]]]
    /\ job \in Offsets
    /\ table \in SUBSET {LiveSegment}
    /\ collected = 0 /\ prepared = FALSE /\ lines = <<>>

\* The job's own offset; for an older job the end of what was stored before it.
OffsetOfJob == IF job # NoOffset THEN job
               ELSE IF \E seg \in table : seg.of = "live" THEN LiveSegment.end ELSE 0

\* The segments that are not of this job.
Others(segments) == {seg \in segments : seg.of # "job"}

\* mergeBatchSegments, in one transaction; a restart may repeat it.
mergeBatchSegments ==
    /\ collected < 2 /\ ~prepared
    /\ LET segments == itemsToSegments(items)
       IN table' = Others(table) \cup
                   {[start |-> segments[i].start + OffsetOfJob, end |-> segments[i].end + OffsetOfJob,
                     speaker |-> segments[i].speaker, tokens |-> segments[i].tokens,
                     of |-> "job", order |-> collected * MaxTokens + i] : i \in DOMAIN segments}
    /\ collected' = collected + 1
    /\ UNCHANGED <<items, job, prepared, lines>>

buildTranscriptTextForAI ==
    /\ collected > 0 /\ ~prepared
    /\ prepared' = TRUE /\ lines' = preprocessTranscriptsForAI(table)
    /\ UNCHANGED <<items, job, table, collected>>

TranscriptNext == mergeBatchSegments \/ buildTranscriptTextForAI

TranscriptSpec == TranscriptInit /\ [][TranscriptNext]_transcriptVars

-----------------------------------------------------------------------------
\* A line that contains the word, said by the speaker at the time.
Says(line, token, at, speaker) ==
    /\ Contains(line.tokens, token) /\ line.start <= at /\ at <= line.end
    /\ speaker \in {NoSpeaker, line.speaker}

WordsIn(tokens) == Len(SelectSeq(tokens, IsWord))

\* Every word of the job and of the live transcription but a hesitation reaches the model, in a line
\* of its speaker that covers its time, however segments are cut, repeated and joined; the lines are
\* in the order of time; and no word is there twice because the job was collected twice.
WordsReachTheModel ==
    prepared =>
      /\ \A i \in DOMAIN items : items[i].token \in {"long", "short"} =>
           \E n \in DOMAIN lines : Says(lines[n], items[i].token, items[i].at + OffsetOfJob, items[i].speaker)
      /\ LiveSegment \in table => \E n \in DOMAIN lines : Says(lines[n], "long", 0, NoSpeaker)
      /\ \A n \in DOMAIN lines : n > 1 => lines[n - 1].start <= lines[n].start
      /\ FoldLeft(LAMBDA sum, line : sum + WordsIn(line.tokens), 0, lines)
           <= WordsIn([i \in DOMAIN items |-> items[i].token]) + (IF LiveSegment \in table THEN 1 ELSE 0)
=============================================================================
