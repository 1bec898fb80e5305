------------------------------ MODULE SourceText ------------------------------
(***************************************************************************)
(* One call of splitNoteSources (SourceSplit) on any source within the      *)
(* bounds.                                                                  *)
(***************************************************************************)
EXTENDS SourceSplit

CONSTANTS
    MaxText,    \* bound on the length of note and transcript together
    ChunkSizes

ASSUME SourceTextAssumption == MaxText \in Nat /\ ChunkSizes \subseteq Nat \ {0, 1}

VARIABLES source, chunkSize, chunks

sourceVars == <<source, chunkSize, chunks>>

WellFormed(classes) ==
    \A i \in DOMAIN classes : /\ classes[i] = "high" => i < Len(classes) /\ classes[i + 1] = "low"
                              /\ classes[i] = "low" => i > 1 /\ classes[i - 1] = "high"

\* The classes of well-formed texts of n characters.
TextsOfLength(n) == {c \in [1..n -> Classes] : WellFormed(c)}

SourceInit ==
    /\ \E n \in 0..MaxText : \E m \in 0..MaxText - n :
         \E note \in TextsOfLength(n), text \in TextsOfLength(m) :
            source = [note |-> TextOf(note), text |-> TextOf(text)]
    /\ chunkSize \in ChunkSizes
    /\ chunks = <<>>

SplitSource ==
    /\ chunks = <<>>
    /\ chunks' = splitNoteSources(source, chunkSize)
    /\ UNCHANGED <<source, chunkSize>>

SourceSpec == SourceInit /\ [][SplitSource]_sourceVars

\* No character of the note or of the transcript is lost, repeated or moved by the cut, no chunk
\* is empty or larger than the budget, and no surrogate pair is torn ("Lossless, line-aware
\* splitting", long-note-extraction.ts:11).
SplitIsLossless ==
    chunks # <<>> =>
      /\ Joined("note", chunks) = source.note
      /\ Joined("text", chunks) = source.text
      /\ \A i \in DOMAIN chunks :
           /\ Len(chunks[i].note) + Len(chunks[i].text) <= chunkSize
           /\ Len(chunks) > 1 => chunks[i].note \o chunks[i].text # <<>>
           /\ chunks[i].note # <<>> => Last(chunks[i].note).class # "high"
           /\ chunks[i].text # <<>> => Last(chunks[i].text).class # "high"
=============================================================================
