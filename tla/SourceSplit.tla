------------------------------ MODULE SourceSplit ------------------------------
(***************************************************************************)
(* How a long note and transcript are cut into chunks for the model:        *)
(* splitSourceText and splitNoteSources of long-note-extraction.ts.         *)
(*                                                                         *)
(* A text is a sequence of characters.  A character has a class: "plain",   *)
(* the two halves of a surrogate pair "high" and "low", a "newline", or the *)
(* newline of a "turn" after which the speaker changes the topic; it also   *)
(* has its place, so that a chunk says where it comes from.                 *)
(***************************************************************************)
EXTENDS Naturals, Sequences, SequencesExt, FiniteSetsExt

Classes == {"plain", "high", "low", "newline", "turn"}

\* Characters of the given classes, in their places.
TextOf(classes) == [i \in DOMAIN classes |-> [class |-> classes[i], at |-> i]]

LatestOr(places, other) == IF places = {} THEN other ELSE Max(places)

\* A mutant of KeepPairs: a forced cut may fall inside a surrogate pair.
CutAnywhere(text, end) == end

\* A forced cut keeps the halves of a surrogate pair together.
KeepPairs(text, end) == IF text[end].class = "high" THEN end - 1 ELSE end

\* Where the chunk that starts after `start` characters ends: at the last newline, or better the
\* last change of topic, of its second half; else after maxChars.
ChunkEnd(text, start, maxChars, preferTopicBoundaries) ==
    LET full == start + maxChars
        late(p) == 2 * (p - 1 - start) >= maxChars
        newlines == {p \in start + 1..full : text[p].class \in {"newline", "turn"} /\ late(p)}
        turns == {p \in start + 1..full - 1 : text[p].class = "turn"}
        newline == LatestOr(newlines, full)
        turn == LatestOr(turns, start + 1)
    IN IF full >= Len(text) THEN Len(text)
       ELSE KeepPairs(text, IF preferTopicBoundaries /\ turns # {} /\ late(turn) THEN turn ELSE newline)

\* The chunks of the text after `start` characters.
ChunksFrom(text, maxChars, preferTopicBoundaries) ==
    LET from[start \in 0..Len(text)] ==
          IF start = Len(text) THEN <<>>
          ELSE LET end == ChunkEnd(text, start, maxChars, preferTopicBoundaries)
               IN <<SubSeq(text, start + 1, end)>> \o from[end]
    IN from

splitSourceText(text, maxChars, preferTopicBoundaries) == ChunksFrom(text, maxChars, preferTopicBoundaries)[0]

\* A short note goes with the first chunk of the transcript, a long one is cut by itself.
InlineNote(note, maxChars) == 4 * Len(note) <= maxChars

splitNoteSources(source, maxChars) ==
    LET inline == InlineNote(source.note, maxChars)
        notes == IF inline THEN <<>> ELSE splitSourceText(source.note, maxChars, FALSE)
        texts == splitSourceText(source.text,
                     maxChars - (IF inline THEN Len(source.note) ELSE 0), TRUE)
    IN IF Len(source.note) + Len(source.text) <= maxChars THEN <<source>>
       ELSE [i \in DOMAIN notes |-> [note |-> notes[i], text |-> <<>>]]
            \o [i \in DOMAIN texts |-> [note |-> IF inline /\ i = 1 THEN source.note ELSE <<>>,
                                        text |-> texts[i]]]

\* What chunks or parts hold of the note or of the transcript, one after the other.
Joined(field, cs) ==
    LET upTo[n \in 0..Len(cs)] == IF n = 0 THEN <<>> ELSE upTo[n - 1] \o cs[n][field]
    IN upTo[Len(cs)]
=============================================================================
