----------------------------- MODULE MinutesContent -----------------------------
(***************************************************************************)
(* From the answers of the language model to the minutes: what the system   *)
(* prompt asks for and BedrockService normalises and merges, and what       *)
(* ResultService validates and renders as Markdown.  Each of the three      *)
(* kinds of document names its fields three times, in the prompt, in the    *)
(* normaliser and in the renderer; the tables below follow each of them.    *)
(*                                                                         *)
(* A text is "" or one of a few words, two of which differ only in their    *)
(* case.  A value of the JSON object is a string, an array or something     *)
(* else; an entry of an array that is no string is a blank one.             *)
(***************************************************************************)
EXTENDS Naturals, Sequences, SequencesExt, FiniteSets

CONSTANTS
    KeywordLimit,   \* the keywords kept of one answer (20)
    MaxEntries,     \* bound on the entries of an array
    MaxItems,       \* bound on the items of one answer
    MaxParts        \* bound on the chunks, each with its answer

ModelWords == {"a", "A", "b"}
AnswerTexts == ModelWords \cup {""}
LowerCase(t) == IF t = "A" THEN "a" ELSE t

Value(kind, texts) == [kind |-> kind, of |-> texts]
Values == {Value("array", s) : s \in BoundedSeq(AnswerTexts, MaxEntries)}
          \cup {Value("string", <<t>>) : t \in AnswerTexts} \cup {Value("other", <<"">>)}

DocumentTypes == {"meeting", "lecture", "mentoring"}

\* What the system prompt asks of every document, and of every agenda item, concept or topic.
buildExtractionSystemPrompt(type) ==
    CASE type = "meeting" ->
           [outer |-> {"participants", "overallDecisions", "followUps", "keywords", "uncertainties"},
            item |-> {"title", "context", "discussionPoints", "decisions", "actionItems", "unresolved"}]
      [] type = "lecture" ->
           [outer |-> {"practiceItems", "keyTakeaways", "keywords", "uncertainties"},
            item |-> {"name", "context", "definition", "example", "keyPoints"}]
      [] type = "mentoring" ->
           [outer |-> {"keyTakeaways", "keywords", "uncertainties"},
            item |-> {"title", "context", "keyPoints", "practicalTips", "followUpTasks", "researchTopics", "cautions"}]

-----------------------------------------------------------------------------
(***************************************************************************)
(* BedrockService: normalisation.                                           *)
(***************************************************************************)
normalizeString(v) == IF v.kind = "string" THEN v.of[1] ELSE ""

\* The words of an array, each once whatever its case, at most `limit` of them.
normalizeStringArray(v, limit) ==
    LET Take(kept, t) ==
          IF t = "" \/ Len(kept) = limit \/ \E i \in DOMAIN kept : LowerCase(kept[i]) = LowerCase(t)
          THEN kept ELSE Append(kept, t)
    IN IF v.kind = "array" THEN FoldLeft(Take, <<>>, v.of) ELSE <<>>

\* An action item is its task; one without a task is dropped.
normalizeActionItems(v) == IF v.kind = "array" THEN SelectSeq(v.of, LAMBDA t : t # "") ELSE <<>>

\* A string field of an item, as the words to show.
TextField(v) == IF normalizeString(v) = "" THEN <<>> ELSE <<normalizeString(v)>>

AllEntries(v) == normalizeStringArray(v, MaxEntries)

normalizeMeetingAgendaItem(raw) ==
    [name |-> normalizeString(raw.title), context |-> normalizeString(raw.context),
     details |-> [discussionPoints |-> AllEntries(raw.discussionPoints),
                  decisions |-> AllEntries(raw.decisions),
                  actionItems |-> normalizeActionItems(raw.actionItems),
                  unresolved |-> AllEntries(raw.unresolved)]]

normalizeLectureConcept(raw) ==
    [name |-> normalizeString(raw.name), context |-> normalizeString(raw.context),
     details |-> [definition |-> TextField(raw.definition), example |-> TextField(raw.example),
                  keyPoints |-> AllEntries(raw.keyPoints)]]

normalizeMentoringTopic(raw) ==
    [name |-> normalizeString(raw.title), context |-> normalizeString(raw.context),
     details |-> [keyPoints |-> AllEntries(raw.keyPoints), practicalTips |-> AllEntries(raw.practicalTips),
                  followUpTasks |-> AllEntries(raw.followUpTasks),
                  researchTopics |-> AllEntries(raw.researchTopics), cautions |-> AllEntries(raw.cautions)]]

HasDetails(item) == \E f \in DOMAIN item.details : item.details[f] # <<>>

\* A mutant of Kept: an item is dropped when it has no heading.
KeptNamed(item) == item.name # ""

\* An item that has neither a name nor any detail is dropped.
Kept(item) == item.name # "" \/ HasDetails(item)

NormalItem(type, raw) == CASE type = "meeting" -> normalizeMeetingAgendaItem(raw)
                           [] type = "lecture" -> normalizeLectureConcept(raw)
                           [] type = "mentoring" -> normalizeMentoringTopic(raw)

\* An answer is the summary, the other fields of the document and its items.
normalizeStructuredNotes(type, raw) ==
    [summary |-> raw.summary,
     outer |-> [f \in buildExtractionSystemPrompt(type).outer |->
                  normalizeStringArray(raw.outer[f], IF f = "keywords" THEN KeywordLimit ELSE MaxEntries)],
     items |-> SelectSeq([i \in DOMAIN raw.items |-> NormalItem(type, raw.items[i])], Kept)]

\* labelExtraction: which chunk an item comes from, when there is more than one.
Labelled(part, label) ==
    [part EXCEPT !.items = [i \in DOMAIN part.items |-> [item |-> part.items[i], label |-> label]]]

UniqueWords(words) == FoldLeft(LAMBDA kept, t : IF Contains(kept, t) THEN kept ELSE Append(kept, t), <<>>, words)

\* mergeExtractions: the items of all parts, and each word of the other fields once.
mergeExtractions(parts) ==
    [summary |-> parts[1].summary,
     outer |-> [f \in DOMAIN parts[1].outer |->
                  UniqueWords(FoldLeft(LAMBDA s, p : s \o p.outer[f], <<>>, parts))],
     items |-> FoldLeft(LAMBDA s, p : s \o p.items, <<>>, parts)]

-----------------------------------------------------------------------------
(***************************************************************************)
(* ResultService: validation.                                               *)
(***************************************************************************)

\* A summary: has it ten characters, and how many of its four letters are Hangul, Kana, Han, Latin.
Summary(long, ko, ja, zh, latin) == [long |-> long, ko |-> ko, ja |-> ja, zh |-> zh, latin |-> latin]
Summaries == {Summary(FALSE, 4, 0, 0, 0), Summary(TRUE, 4, 0, 0, 0), Summary(TRUE, 2, 0, 0, 2),
              Summary(TRUE, 0, 2, 2, 0), Summary(TRUE, 0, 1, 3, 0), Summary(TRUE, 0, 0, 0, 4),
              Summary(TRUE, 1, 1, 1, 1)}

detectDominantScript(s) ==
    CASE 2 * s.ko >= 4 -> "ko" [] 2 * s.ja >= 4 -> "ja" [] 2 * s.zh >= 4 -> "zh"
      [] 2 * s.latin >= 4 -> "latin" [] OTHER -> "unknown"

validateConsistency(extracted, expectedScript) ==
    expectedScript = "none" \/ detectDominantScript(extracted.summary) \in {"unknown", expectedScript}

validateQuality(extracted, hasTranscript) ==
    /\ extracted.summary.long
    /\ extracted.items = <<>> => ~hasTranscript
    /\ extracted.items # <<>> => \E i \in DOMAIN extracted.items : HasDetails(extracted.items[i].item)

validateExtraction(extracted, hasTranscript, expectedScript) ==
    validateQuality(extracted, hasTranscript) /\ validateConsistency(extracted, expectedScript)

-----------------------------------------------------------------------------
(***************************************************************************)
(* ResultService: the Markdown.  A line is a text under a heading of the    *)
(* document (item 0) or of one of its items.                                *)
(***************************************************************************)
MarkdownLines(item, field, texts) ==
    IF texts = <<>> THEN <<[item |-> item, field |-> field, text |-> "nothing"]>>
    ELSE [i \in DOMAIN texts |-> [item |-> item, field |-> field, text |-> texts[i]]]

\* Lists, tables, check lists and quotations: the texts under each of the headings, in order.
Listed(item, values, fields) == FoldLeft(LAMBDA s, f : s \o MarkdownLines(item, f, values[f]), <<>>, fields)

renderMeetingMarkdown == [before |-> <<"participants">>,
                          item |-> <<"discussionPoints", "decisions", "actionItems", "unresolved">>,
                          after |-> <<"overallDecisions", "followUps", "keywords", "uncertainties">>]
renderLectureMarkdown == [before |-> <<>>, item |-> <<"definition", "example", "keyPoints">>,
                          after |-> <<"practiceItems", "keyTakeaways", "keywords", "uncertainties">>]
renderMentoringMarkdown == [before |-> <<>>,
                            item |-> <<"keyPoints", "practicalTips", "followUpTasks", "researchTopics", "cautions">>,
                            after |-> <<"keyTakeaways", "keywords", "uncertainties">>]

Layout(type) == CASE type = "meeting" -> renderMeetingMarkdown
                  [] type = "lecture" -> renderLectureMarkdown
                  [] type = "mentoring" -> renderMentoringMarkdown

\* The heading of an item, where it comes from, its context, and its details.
RenderedItem(type, i, it) ==
    MarkdownLines(i, "name", <<IF it.item.name = "" THEN "untitled" ELSE it.item.name>>)
    \o (IF it.label = "" THEN <<>> ELSE MarkdownLines(i, "label", <<it.label>>))
    \o (IF it.item.context = "" THEN <<>> ELSE MarkdownLines(i, "context", <<it.item.context>>))
    \o Listed(i, it.item.details, Layout(type).item)

renderStructuredMarkdown(type, extracted) ==
    LET items == [i \in DOMAIN extracted.items |-> RenderedItem(type, i, extracted.items[i])]
    IN Listed(0, extracted.outer, Layout(type).before)
       \o (IF items = <<>> THEN MarkdownLines(0, "items", <<>>) ELSE FlattenSeq(items))
       \o Listed(0, extracted.outer, Layout(type).after)

-----------------------------------------------------------------------------
(***************************************************************************)
(* One document.  All its fields but one hold the same value.               *)
(***************************************************************************)
VARIABLES
    documentType,   \* of the prompt
    answers,        \* the answer for each chunk of the source
    expectation,    \* is there a transcript, and the script of the language expected
    minutes         \* the lines of the document; "none" before, "rejected"

contentVars == <<documentType, answers, expectation, minutes>>

\* languageToScript of the translation, or languageCodeToScript of the recording.
Scripts == {"none", "ko", "ja", "zh", "latin"}

Item(type, field, value, other) ==
    [f \in buildExtractionSystemPrompt(type).item |->
       IF f = field THEN value
       ELSE IF f \in {"title", "name", "context", "definition", "example"} THEN Value("string", <<other>>)
       ELSE Value("array", <<other>>)]

Outer(type, field, value, other) ==
    [f \in buildExtractionSystemPrompt(type).outer |-> IF f = field THEN value ELSE Value("array", <<other>>)]

PlainSummary == Summary(TRUE, 4, 0, 0, 0)
NoMinutes == <<[item |-> 0, field |-> "none", text |-> ""]>>
RejectedAnswer == <<[item |-> 0, field |-> "rejected", text |-> ""]>>

AnyField ==
    /\ documentType \in DocumentTypes
    /\ \E other \in {"", "b"}, value \in Values, items \in 0..MaxItems, n \in 1..MaxParts :
         \E field \in buildExtractionSystemPrompt(documentType).outer
                      \cup buildExtractionSystemPrompt(documentType).item :
            LET answer(p) ==
                  [summary |-> PlainSummary,
                   outer |-> Outer(documentType, field, IF p = 1 THEN value ELSE Value("array", <<"a">>), other),
                   items |-> [i \in 1..items |-> Item(documentType, field,
                                                      IF i = 1 THEN value ELSE Value("array", <<"a">>), other)]]
            IN answers = [p \in 1..n |-> answer(p)]
    /\ expectation \in [hasTranscript : BOOLEAN, script : {"none"}]

\* Any summary, in any language expected.
AnySummary ==
    /\ documentType = "meeting"
    /\ \E summary \in Summaries :
         answers = <<[summary |-> summary, outer |-> Outer("meeting", "none", Value("other", <<"">>), "a"),
                      items |-> <<Item("meeting", "none", Value("other", <<"">>), "a")>>]>>
    /\ expectation \in [hasTranscript : BOOLEAN, script : Scripts]

ContentInit == (AnyField \/ AnySummary) /\ minutes = NoMinutes

Parts == [p \in DOMAIN answers |->
            Labelled(normalizeStructuredNotes(documentType, answers[p]), IF Len(answers) = 1 THEN "" ELSE ToString(p))]

WriteMinutes ==
    /\ minutes = NoMinutes
    /\ LET extracted == mergeExtractions(Parts)
       IN minutes' = IF validateExtraction(extracted, expectation.hasTranscript, expectation.script)
                     THEN renderStructuredMarkdown(documentType, extracted) ELSE RejectedAnswer
    /\ UNCHANGED <<documentType, answers, expectation>>

ContentSpec == ContentInit /\ [][WriteMinutes]_contentVars

-----------------------------------------------------------------------------
StringFields == {"title", "name", "context", "definition", "example"}

\* The words that an answer gives for a field, in the form that the prompt asks for.
Given(field, v) == {t \in Range(v.of) : t # "" /\ v.kind = IF field \in StringFields THEN "string" ELSE "array"}

SaysSomething(item) == \E f \in DOMAIN item \ {"context"} : Given(f, item[f]) # {}

\* The item of the document in which the answer p for item i has to be found.
PlaceOf(p, i) == Cardinality({<<q, j>> \in (1..Len(answers)) \X (1..MaxItems) :
                                /\ j <= Len(answers[q].items) /\ SaysSomething(answers[q].items[j])
                                /\ q < p \/ (q = p /\ j <= i)})

Heading(field) == IF field = "title" THEN "name" ELSE field

ShownUnder(item, field, t) ==
    \E i \in DOMAIN minutes : /\ minutes[i].item = item /\ minutes[i].field = Heading(field)
                              /\ LowerCase(minutes[i].text) = LowerCase(t)

TooManyKeywords(v) == Cardinality({LowerCase(t) : t \in Given("keywords", v)}) > KeywordLimit

\* Minutes that are accepted show every word that the model gave for a field it was asked for, under
\* the heading of that field and of its item, items in the order of the source; only keywords over
\* the limit are left out.  An answer is rejected only for its short summary, its lack of any
\* detail, or because no more than half of the summary is in the script expected (prompt, normaliser
\* and renderer name the fields separately: bedrock.service.ts 717-958, result.service.ts 822-1010).
AnswersAreShown ==
    /\ minutes \notin {NoMinutes, RejectedAnswer} =>
         \A p \in DOMAIN answers :
           /\ \A f \in DOMAIN answers[p].outer : \A t \in Given(f, answers[p].outer[f]) :
                ShownUnder(0, f, t) \/ (f = "keywords" /\ TooManyKeywords(answers[p].outer[f]))
           /\ \A i \in DOMAIN answers[p].items :
                LET item == answers[p].items[i]
                IN SaysSomething(item) =>
                     \A f \in DOMAIN item : \A t \in Given(f, item[f]) : ShownUnder(PlaceOf(p, i), f, t)
    /\ minutes = RejectedAnswer =>
         LET s == answers[1].summary
         IN \/ ~s.long
            \/ \A p \in DOMAIN answers : \A i \in DOMAIN answers[p].items :
                  \A f \in DOMAIN answers[p].items[i] \ {"title", "name", "context"} :
                    Given(f, answers[p].items[i][f]) = {}
            \/ expectation.script # "none" /\ 2 * s[expectation.script] <= 4
=============================================================================
