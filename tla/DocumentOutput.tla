----------------------------- MODULE DocumentOutput -----------------------------
(***************************************************************************)
(* DocumentOutputService: what an exported document shows of the minutes.   *)
(*                                                                         *)
(* A line is its kind and its pieces, each a word and its mark: the         *)
(* matching of the inline pattern is the partition of the line into pieces. *)
(* convertMarkdownToDocxBlocks reads the lines one by one and holds back    *)
(* the rows of a table and the lines of a code block until either ends.     *)
(***************************************************************************)
EXTENDS Naturals, Sequences, SequencesExt

CONSTANTS
    MaxLines,   \* bound on the lines of the minutes
    MaxPieces,  \* bound on the pieces of a line of text
    MaxCells    \* bound on the cells of a row

Marks == {"plain", "bold"}
TextKinds == {"heading", "quote", "bullet", "paragraph"}

\* fence: ```; row: | a | b |; separator: |---|---|; rule: ---.
LineKinds == TextKinds \cup {"row", "separator", "rule", "blank", "fence"}

\* The pieces of a line, all with one mark; in a row of a table each piece is a cell.
PiecesOf(kind) ==
    LET UpTo(n) == {[i \in 1..k |-> mark] : k \in 1..n, mark \in Marks}
    IN CASE kind = "row" -> UpTo(MaxCells)
         [] kind = "paragraph" -> UpTo(MaxPieces)
         [] kind \in TextKinds \ {"paragraph"} -> UpTo(MaxPieces) \cup {<<>>}
         [] OTHER -> {<<>>}

Lines == UNION {{[kind |-> k, pieces |-> p] : p \in PiecesOf(k)} : k \in LineKinds}

VARIABLES
    markdown,       \* the lines read so far
    blocks,         \* the paragraphs and tables written
    inCodeBlock,
    codeBlockLines,
    tableRows,
    document        \* "open", or "closed" when the last line has been read

documentVars == <<markdown, blocks, inCodeBlock, codeBlockLines, tableRows, document>>

DocumentInit ==
    /\ markdown = <<>> /\ blocks = <<>> /\ inCodeBlock = FALSE
    /\ codeBlockLines = <<>> /\ tableRows = <<>> /\ document = "open"

-----------------------------------------------------------------------------
\* A run says from which line and piece it comes, and how it is written: an image is its alternative
\* text, and a line without pieces is a space.
parseInlineRuns(line, pieces, base) ==
    IF pieces = <<>> THEN <<[line |-> line, piece |-> 0, style |-> base]>>
    ELSE [i \in DOMAIN pieces |->
            [line |-> line, piece |-> i, style |-> IF pieces[i] = "bold" THEN base \cup {"bold"} ELSE base]]

BaseStyle(kind) == IF kind = "quote" THEN {"italics"} ELSE {}

ParagraphOf(n, line) ==
    [kind |-> line.kind,
     runs |-> IF line.kind = "rule" THEN <<>> ELSE parseInlineRuns(n, line.pieces, BaseStyle(line.kind))]

EmptyCell(n) == [line |-> n, piece |-> 0, style |-> {}]

\* Every row has as many cells as the longest one; the first row is bold.
buildDocxTable(rows) ==
    LET columns == CHOOSE c \in {Len(rows[i].pieces) : i \in DOMAIN rows} :
                       \A i \in DOMAIN rows : Len(rows[i].pieces) <= c
        RowRuns(i) == parseInlineRuns(rows[i].line, rows[i].pieces, IF i = 1 THEN {"bold"} ELSE {})
    IN [kind |-> "table",
        runs |-> FlattenSeq([i \in DOMAIN rows |->
                   [c \in 1..columns |-> IF c <= Len(rows[i].pieces) THEN RowRuns(i)[c]
                                         ELSE EmptyCell(rows[i].line)]])]

flushTable(written) == IF tableRows = <<>> THEN written ELSE Append(written, buildDocxTable(tableRows))

flushCodeBlock(written) ==
    written \o [i \in DOMAIN codeBlockLines |->
                  [kind |-> "code", runs |-> parseInlineRuns(codeBlockLines[i].line, codeBlockLines[i].pieces, {"code"})]]

-----------------------------------------------------------------------------
Numbered(line) == [line |-> Len(markdown) + 1, pieces |-> line.pieces]

\* A mutant of ReadFence: a table goes on behind a code block.
ReadFenceInTable(line) ==
    /\ line.kind = "fence"
    /\ blocks' = IF inCodeBlock THEN flushCodeBlock(blocks) ELSE blocks
    /\ codeBlockLines' = <<>> /\ UNCHANGED tableRows
    /\ inCodeBlock' = ~inCodeBlock

\* ``` begins or ends a code block; a table ends before the block begins.
ReadFence(line) ==
    /\ line.kind = "fence"
    /\ IF inCodeBlock
         THEN blocks' = flushCodeBlock(blocks) /\ codeBlockLines' = <<>> /\ UNCHANGED tableRows
         ELSE blocks' = flushTable(blocks) /\ tableRows' = <<>> /\ UNCHANGED codeBlockLines
    /\ inCodeBlock' = ~inCodeBlock

\* In a code block every line is code.
ReadCode(line) ==
    /\ inCodeBlock /\ line.kind # "fence"
    /\ codeBlockLines' = Append(codeBlockLines, Numbered(line))
    /\ UNCHANGED <<blocks, tableRows, inCodeBlock>>

\* The separator of a table is dropped, and does not end the table.
ReadRow(line) ==
    /\ ~inCodeBlock /\ line.kind \in {"row", "separator"}
    /\ tableRows' = IF line.kind = "row" THEN Append(tableRows, Numbered(line)) ELSE tableRows
    /\ UNCHANGED <<blocks, codeBlockLines, inCodeBlock>>

\* Any other line ends the table before it is written itself; a blank line is not written.
ReadText(line) ==
    /\ ~inCodeBlock /\ line.kind \in TextKinds \cup {"rule", "blank"}
    /\ blocks' = flushTable(blocks) \o (IF line.kind = "blank" THEN <<>> ELSE <<ParagraphOf(Len(markdown) + 1, line)>>)
    /\ tableRows' = <<>> /\ UNCHANGED <<codeBlockLines, inCodeBlock>>

ReadLine ==
    /\ document = "open" /\ Len(markdown) < MaxLines
    /\ \E line \in Lines :
         /\ ReadFence(line) \/ ReadCode(line) \/ ReadRow(line) \/ ReadText(line)
         /\ markdown' = Append(markdown, line)
    /\ UNCHANGED document

\* The lines of a code block that nothing closed are written, then the rows of the last table.
EndDocument ==
    /\ document = "open" /\ document' = "closed"
    /\ LET written == flushTable(IF inCodeBlock THEN flushCodeBlock(blocks) ELSE blocks)
       IN blocks' = IF written = <<>> THEN <<[kind |-> "empty", runs |-> <<>>]>> ELSE written
    /\ codeBlockLines' = <<>> /\ tableRows' = <<>>
    /\ UNCHANGED <<markdown, inCodeBlock>>

DocumentNext == ReadLine \/ EndDocument

DocumentSpec == DocumentInit /\ [][DocumentNext]_documentVars

-----------------------------------------------------------------------------
RunsWritten == FlattenSeq([i \in DOMAIN blocks |-> blocks[i].runs])

Shown == SelectSeq(RunsWritten, LAMBDA r : r.piece > 0)

Comes(p, q) == p[1] < q[1] \/ (p[1] = q[1] /\ p[2] < q[2])

\* An exported document holds every piece of text of the minutes once and in the order of the minutes,
\* whatever tables and code blocks are open when other lines come, or when the minutes end.
MinutesAreExported ==
    document = "closed" =>
        /\ \A i \in 1..Len(Shown)-1 : Comes(<<Shown[i].line, Shown[i].piece>>, <<Shown[i+1].line, Shown[i+1].piece>>)
        /\ \A n \in DOMAIN markdown : \A i \in DOMAIN markdown[n].pieces :
             \E k \in DOMAIN Shown : Shown[k].line = n /\ Shown[k].piece = i
=============================================================================
