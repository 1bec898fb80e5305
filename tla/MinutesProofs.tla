---------------------------- MODULE MinutesProofs ----------------------------
(***************************************************************************)
(* Proofs about the source of the minutes, for notes and transcripts of any *)
(* length: how they are cut into chunks, whatever their characters          *)
(* (SourceText), and that the minutes rest on all of them                   *)
(* (MinutesGeneration).                                                     *)
(*                                                                         *)
(* The cut is a recursion over the places of the text.  That it is defined  *)
(* everywhere is shown by induction from the end of the text downwards      *)
(* (ChunksAreDefined), and by the same induction that its pieces lead from  *)
(* a place to the end (SplitsText).  What records hold of a text is told by *)
(* the texts they lead from and to (Adds): sequences of chunks, of pieces   *)
(* to do and of parts that are done can then be put behind one another.     *)
(***************************************************************************)
EXTENDS SourceText, MinutesGeneration, SequenceTheorems, WellFoundedInduction, TLAPS

(***************************************************************************)
(* Induction.  The induction theorems of the library are about operators;  *)
(* these are about sets.                                                   *)
(***************************************************************************)
LEMMA LeastNatural ==
  ASSUME NEW T \in SUBSET Nat, T # {}
  PROVE  \E m \in T : \A k \in T : m <= k
<1> DEFINE R == {s \in Nat \X Nat : s[1] < s[2]}
<1>1. IsWellFoundedOn(R, Nat)
  BY NatLessThanWellFounded DEF OpToRel
<1>2. \A x, y \in Nat : <<x, y>> \in R <=> x < y
  OBVIOUS
<1> HIDE DEF R
<1>3. PICK x \in T : \A y \in T : ~(<<y, x>> \in R)
  BY <1>1, WFMin
<1>4. ASSUME NEW y \in T  PROVE x <= y
  <2>1. x \in Nat /\ y \in Nat /\ ~(y < x)
    BY <1>2, <1>3
  <2> QED BY <2>1
<1> QED BY <1>4

LEMMA InductionOverSet ==
  ASSUME NEW S, 0 \in S, \A n \in Nat : n \in S => n + 1 \in S
  PROVE  Nat \subseteq S
<1> SUFFICES ASSUME Nat \ S # {} PROVE FALSE
  OBVIOUS
<1>1. PICK m \in Nat \ S : \A k \in Nat \ S : m <= k
  BY LeastNatural
<1>2. m # 0
  BY <1>1
<1>3. m - 1 \in Nat /\ m - 1 + 1 = m /\ ~(m <= m - 1)
  BY <1>1, <1>2
<1>4. m - 1 \in S
  BY <1>1, <1>3
<1> QED BY <1>1, <1>3, <1>4

\* From n down to 0, with all the numbers above at hand.
LEMMA DownwardInduction ==
  ASSUME NEW n \in Nat, NEW S,
         \A k \in 0..n : (\A j \in (k + 1)..n : j \in S) => k \in S
  PROVE  0..n \subseteq S
<1> DEFINE D == {k \in Nat : \A j \in 0..n : n - k <= j => j \in S}
<1>1. 0 \in D
  <2>1. ASSUME NEW j \in 0..n, n - 0 <= j  PROVE j \in S
    <3>1. j = n /\ (n + 1)..n = {}
      BY <2>1
    <3> QED BY <3>1
  <2> QED BY <2>1
<1>2. ASSUME NEW k \in Nat, k \in D  PROVE k + 1 \in D
  <2>1. ASSUME NEW j \in 0..n, n - (k + 1) <= j  PROVE j \in S
    <3>1. \A i \in (j + 1)..n : i \in 0..n /\ n - k <= i
      BY <2>1
    <3>2. \A i \in (j + 1)..n : i \in S
      BY <3>1, <1>2
    <3> QED BY <3>2
  <2> QED BY <2>1
<1> HIDE DEF D
<1>3. Nat \subseteq D
  BY <1>1, <1>2, InductionOverSet
<1>4. n \in D
  BY <1>3
<1>5. \A j \in 0..n : n - n <= j
  OBVIOUS
<1> QED BY <1>4, <1>5 DEF D

LEMMA GreatestOfInterval ==
  ASSUME NEW a \in Int, NEW b \in Int, NEW T \in SUBSET (a..b), T # {}
  PROVE  Max(T) \in T /\ \A y \in T : Max(T) >= y
<1> DEFINE U == {k \in Nat : b - k \in T}
<1>1. U \in SUBSET Nat /\ U # {}
  <2>1. PICK y \in T : TRUE
    OBVIOUS
  <2>2. y \in Int /\ y <= b
    OBVIOUS
  <2>3. b - y \in Nat /\ b - (b - y) = y
    BY <2>2
  <2>4. b - y \in U
    BY <2>1, <2>3
  <2> QED BY <2>4
<1>2. PICK m \in U : \A k \in U : m <= k
  BY <1>1, LeastNatural
<1>3. ASSUME NEW y \in T  PROVE b - m >= y
  <2>1. y \in Int /\ y <= b
    OBVIOUS
  <2>2. b - y \in Nat /\ b - (b - y) = y
    BY <2>1
  <2>3. b - y \in U
    BY <2>2
  <2>4. m <= b - y /\ m \in Nat
    BY <1>2, <2>3
  <2> QED BY <2>1, <2>4
<1>4. b - m \in T
  BY <1>2
<1>5. \E x \in T : \A y \in T : x >= y
  BY <1>3, <1>4
<1> QED BY <1>5 DEF Max

(***************************************************************************)
(* One cut (SourceSplit).                                                  *)
(***************************************************************************)
\* The first half of a surrogate pair is followed by the second.
Paired(text) ==
    \A i \in 1..Len(text) :
        text[i].class = "high" => i < Len(text) /\ text[i + 1].class = "low"

\* A budget that can always hold what must stay together.
Cuttable(text, maxChars) ==
    \/ maxChars \in Nat \ {0, 1}
    \/ maxChars \in Nat \ {0} /\ \A i \in 1..Len(text) : text[i].class # "high"

\* A chunk is not empty and within the budget, and tears no surrogate pair.
LEMMA ChunkEnds ==
  ASSUME NEW Chars, NEW text \in Seq(Chars), NEW maxChars, Cuttable(text, maxChars),
         NEW prefer \in BOOLEAN, NEW start \in 0..(Len(text) - 1)
  PROVE  LET end == ChunkEnd(text, start, maxChars, prefer)
         IN /\ end \in (start + 1)..Len(text) /\ end - start <= maxChars
            /\ Paired(text) => text[end].class # "high"
<1> DEFINE n == Len(text)
           full == start + maxChars
           late(p) == 2 * (p - 1 - start) >= maxChars
           newlines == {p \in start + 1..full : text[p].class \in {"newline", "turn"} /\ late(p)}
           turns == {p \in start + 1..full - 1 : text[p].class = "turn"}
           newline == LatestOr(newlines, full)
           turn == LatestOr(turns, start + 1)
           cut == IF prefer /\ turns # {} /\ late(turn) THEN turn ELSE newline
           end == ChunkEnd(text, start, maxChars, prefer)
<1>1. /\ n \in Nat /\ start \in 0..(n - 1) /\ maxChars \in Nat \ {0} /\ full \in Nat
      /\ maxChars = 1 => \A i \in 1..n : text[i].class # "high"
  BY DEF Cuttable
<1>2. end = IF full >= n THEN n ELSE KeepPairs(text, cut)
  BY DEF ChunkEnd
<1>3. newlines = {} \/ (Max(newlines) \in start + 1..full
      /\ text[Max(newlines)].class \in {"newline", "turn"})
  <2>1. newlines \in SUBSET (start + 1..full) /\ start + 1 \in Int /\ full \in Int
    BY <1>1
  <2> HIDE DEF newlines, full
  <2>2. CASE newlines # {}
    <3>1. Max(newlines) \in newlines
      BY <2>1, <2>2, GreatestOfInterval
    <3> QED BY <3>1 DEF newlines
  <2> QED BY <2>2
<1>4. turns = {} \/ (Max(turns) \in start + 1..full - 1 /\ text[Max(turns)].class = "turn")
  <2>1. turns \in SUBSET (start + 1..full - 1) /\ start + 1 \in Int /\ full - 1 \in Int
    BY <1>1
  <2> HIDE DEF turns, full
  <2>2. CASE turns # {}
    <3>1. Max(turns) \in turns
      BY <2>1, <2>2, GreatestOfInterval
    <3> QED BY <3>1 DEF turns
  <2> QED BY <2>2
<1>5. cut \in start + 1..full /\ (cut = full \/ text[cut].class \in {"newline", "turn"})
  <2>1. newline \in start + 1..full /\ (newline = full \/ text[newline].class \in {"newline", "turn"})
    <3> HIDE DEF newlines
    <3> QED BY <1>1, <1>3 DEF LatestOr
  <2>2. turns # {} => turn \in start + 1..full /\ text[turn].class = "turn"
    <3> HIDE DEF turns
    <3> QED BY <1>1, <1>4 DEF LatestOr
  <2> HIDE DEF newline, turn, turns, late, full
  <2> QED BY <2>1, <2>2
<1> HIDE DEF end, cut
<1>6. CASE full >= n
  <2>1. end = n /\ n \in (start + 1)..n /\ n - start <= maxChars
    BY <1>1, <1>2, <1>6
  <2>2. Paired(text) => text[n].class # "high"
    <3>1. n \in 1..n /\ ~(n < n)
      BY <1>1
    <3> QED BY <3>1 DEF Paired
  <2> QED BY <2>1, <2>2 DEF end
<1>7. CASE full < n
  <2>1. end = IF text[cut].class = "high" THEN cut - 1 ELSE cut
    BY <1>1, <1>2, <1>7 DEF KeepPairs
  <2>2. cut \in Nat /\ cut \in 1..n /\ cut <= full
    BY <1>1, <1>5, <1>7
  <2>3. CASE text[cut].class # "high"
    BY <1>1, <1>5, <1>7, <2>1, <2>2, <2>3 DEF end
  <2>4. CASE text[cut].class = "high"
    <3>1. cut = full /\ maxChars # 1
      BY <1>1, <1>5, <2>2, <2>4
    <3>2. cut - 1 \in (start + 1)..n /\ cut - 1 - start <= maxChars
      BY <1>1, <1>7, <3>1
    <3>3. ASSUME Paired(text), text[cut - 1].class = "high"  PROVE FALSE
      <4>1. cut - 1 \in 1..n /\ cut - 1 + 1 = cut
        BY <3>2, <1>1, <2>2
      <4>2. text[cut].class = "low"
        BY <3>3, <4>1 DEF Paired
      <4> QED BY <4>2, <2>4
    <3> QED BY <2>1, <2>4, <3>2, <3>3 DEF end
  <2> QED BY <2>3, <2>4
<1> QED BY <1>1, <1>6, <1>7

(***************************************************************************)
(* The cuts of a whole text.                                               *)
(***************************************************************************)
\* f collects the pieces P from each place s on, by the ends E.
Collects(f, n, E, P) == f = [s \in 0..n |-> IF s = n THEN <<>> ELSE <<P[s]>> \o f[E[s]]]

\* A recursion that only asks for what is further up defines a function.
LEMMA RecursionUpwards ==
  ASSUME NEW n \in Nat, NEW E, NEW P, \A s \in 0..(n - 1) : E[s] \in (s + 1)..n
  PROVE  \E f : Collects(f, n, E, P)
<1> DEFINE D == {k \in 0..n : \E f : f = [s \in k..n |-> IF s = n THEN <<>> ELSE <<P[s]>> \o f[E[s]]]}
<1>1. ASSUME NEW k \in 0..n, \A j \in (k + 1)..n : j \in D
      PROVE  k \in D
  <2>1. CASE k = n
    <3> DEFINE f == [s \in n..n |-> <<>>]
    <3>1. f = [s \in n..n |-> IF s = n THEN <<>> ELSE <<P[s]>> \o f[E[s]]]
      OBVIOUS
    <3> HIDE DEF f
    <3>2. \E x : x = [s \in n..n |-> IF s = n THEN <<>> ELSE <<P[s]>> \o x[E[s]]]
      BY <3>1
    <3> QED BY <2>1, <3>2
  <2>2. CASE k # n
    <3>1. k + 1 \in D /\ k \in 0..(n - 1)
      <4> HIDE DEF D
      <4> QED BY <1>1, <2>2
    <3>2. PICK f : f = [s \in (k + 1)..n |-> IF s = n THEN <<>> ELSE <<P[s]>> \o f[E[s]]]
      BY <3>1
    <3>3. \A s \in (k + 1)..n : f[s] = IF s = n THEN <<>> ELSE <<P[s]>> \o f[E[s]]
      BY <3>2, Zenon
    <3> DEFINE g == [s \in k..n |-> IF s = k THEN <<P[k]>> \o f[E[k]] ELSE f[s]]
               h == [s \in k..n |-> IF s = n THEN <<>> ELSE <<P[s]>> \o g[E[s]]]
    <3>4. ASSUME NEW s \in k..n  PROVE g[s] = h[s]
      <4>1. CASE s = k
        <5>1. E[k] \in (k + 1)..n /\ E[k] \in k..n /\ E[k] # k
          BY <3>1
        <5>2. g[E[k]] = f[E[k]]
          BY <5>1
        <5>3. h[k] = <<P[k]>> \o g[E[k]]
          <6> HIDE DEF g
          <6> QED BY <2>2
        <5>4. g[k] = <<P[k]>> \o f[E[k]]
          OBVIOUS
        <5> HIDE DEF g, h
        <5> QED BY <4>1, <5>2, <5>3, <5>4
      <4>2. CASE s # k /\ s # n
        <5>1. s \in (k + 1)..n /\ s \in 0..(n - 1) /\ E[s] \in (s + 1)..n
          BY <4>2
        <5>2. E[s] \in k..n /\ E[s] # k
          BY <5>1
        <5>3. g[E[s]] = f[E[s]] /\ g[s] = f[s] /\ h[s] = <<P[s]>> \o g[E[s]]
          BY <4>2, <5>2
        <5> QED BY <3>3, <4>2, <5>1, <5>3
      <4>3. CASE s # k /\ s = n
        <5>1. s \in (k + 1)..n
          BY <4>3
        <5> QED BY <3>3, <4>3, <5>1
      <4> QED BY <4>1, <4>2, <4>3
    <3>5. g = h
      BY <3>4
    <3>6. \E x : x = [s \in k..n |-> IF s = n THEN <<>> ELSE <<P[s]>> \o x[E[s]]]
      <4>1. g = [s \in k..n |-> IF s = n THEN <<>> ELSE <<P[s]>> \o g[E[s]]]
        BY <3>5
      <4> HIDE DEF g
      <4> QED BY <4>1
    <3> QED BY <3>6
  <2> QED BY <2>1, <2>2
<1>2. 0..n \subseteq D
  <2> HIDE DEF D
  <2> QED BY <1>1, DownwardInduction
<1> QED BY <1>2 DEF Collects

LEMMA ChunksAreDefined ==
  ASSUME NEW Chars, NEW text \in Seq(Chars), NEW maxChars, Cuttable(text, maxChars),
         NEW prefer \in BOOLEAN
  PROVE  LET from == ChunksFrom(text, maxChars, prefer)
             end(start) == ChunkEnd(text, start, maxChars, prefer)
         IN \A start \in 0..Len(text) :
              from[start] = IF start = Len(text) THEN <<>>
                            ELSE <<SubSeq(text, start + 1, end(start))>> \o from[end(start)]
<1> DEFINE n == Len(text)
           E == [s \in 0..(n - 1) |-> ChunkEnd(text, s, maxChars, prefer)]
           P == [s \in 0..(n - 1) |-> SubSeq(text, s + 1, ChunkEnd(text, s, maxChars, prefer))]
           from == ChunksFrom(text, maxChars, prefer)
<1>1. n \in Nat /\ \A s \in 0..(n - 1) : E[s] \in (s + 1)..n
  <2>1. ASSUME NEW s \in 0..(n - 1)  PROVE ChunkEnd(text, s, maxChars, prefer) \in (s + 1)..n
    BY ChunkEnds
  <2> QED BY <2>1
<1>2. PICK f : Collects(f, n, E, P)
  <2> HIDE DEF n, E, P
  <2> QED BY <1>1, RecursionUpwards
<1> DEFINE body(g) == [s \in 0..n |-> IF s = n THEN <<>>
                                      ELSE <<SubSeq(text, s + 1, ChunkEnd(text, s, maxChars, prefer))>>
                                             \o g[ChunkEnd(text, s, maxChars, prefer)]]
<1>3. f = body(f)
  <2>1. \A s \in 0..n : s # n => s \in 0..(n - 1)
    BY <1>1
  <2>2. \A s \in 0..(n - 1) : E[s] = ChunkEnd(text, s, maxChars, prefer)
                               /\ P[s] = SubSeq(text, s + 1, ChunkEnd(text, s, maxChars, prefer))
    OBVIOUS
  <2> HIDE DEF n, E, P
  <2>3. [s \in 0..n |-> IF s = n THEN <<>> ELSE <<P[s]>> \o f[E[s]]] = body(f)
    BY <2>1, <2>2
  <2> QED BY <1>2, <2>3 DEF Collects
<1>4. from = CHOOSE g : g = body(g)
  BY DEF ChunksFrom
<1>5. from = body(from)
  <2> HIDE DEF body, from
  <2> QED BY <1>3, <1>4
<1> HIDE DEF from
<1> QED BY <1>5, Zenon DEF from

\* Adding up the pieces leads from the text a to the text b.
Run(g, pieces, a, b) ==
    /\ g[0] = a /\ g[Len(pieces)] = b
    /\ \A k \in 1..Len(pieces) : g[k] = g[k - 1] \o pieces[k]

\* What a cut of the text may give: not empty, within the budget, no pair torn.
Pieces(Chars, text, maxChars) ==
    {c \in Seq(Chars) : /\ c # <<>> /\ Len(c) <= maxChars
                        /\ Paired(text) => Last(c).class # "high"}

LEMMA RunOfMore ==
  ASSUME NEW S, NEW p \in S, NEW pieces \in Seq(S), NEW a, NEW b,
         \E g : Run(g, pieces, a \o p, b)
  PROVE  /\ <<p>> \o pieces \in Seq(S) /\ <<p>> \o pieces # <<>>
         /\ \E g : Run(g, <<p>> \o pieces, a, b)
<1>1. PICK h : Run(h, pieces, a \o p, b)
  OBVIOUS
<1> DEFINE more == <<p>> \o pieces
           n == Len(pieces)
<1>2. /\ more \in Seq(S) /\ Len(more) = n + 1 /\ n \in Nat
      /\ \A k \in 1..(n + 1) : more[k] = IF k = 1 THEN p ELSE pieces[k - 1]
  <2>1. <<p>> \in Seq(S) /\ Len(<<p>>) = 1 /\ <<p>>[1] = p
    OBVIOUS
  <2>2. n \in Nat
    OBVIOUS
  <2> DEFINE q == <<p>>
  <2>3. q \in Seq(S) /\ Len(q) = 1 /\ q[1] = p
    BY <2>1
  <2> HIDE DEF q
  <2>7. /\ q \o pieces \in Seq(S) /\ Len(q \o pieces) = Len(q) + Len(pieces)
        /\ \A k \in 1..(Len(q) + Len(pieces)) :
             (q \o pieces)[k] = IF k <= Len(q) THEN q[k] ELSE pieces[k - Len(q)]
    BY <2>3, ConcatProperties, Zenon
  <2>4. /\ q \o pieces \in Seq(S) /\ Len(q \o pieces) = 1 + n
        /\ \A k \in 1..(1 + n) : (q \o pieces)[k] = IF k <= 1 THEN q[k] ELSE pieces[k - 1]
    BY <2>3, <2>7, Zenon
  <2>5. more = q \o pieces
    BY DEF q
  <2>6. ASSUME NEW k \in 1..(n + 1)  PROVE more[k] = IF k = 1 THEN p ELSE pieces[k - 1]
    <3>1. k \in 1..(1 + n) /\ (k <= 1 <=> k = 1)
      BY <2>2
    <3> HIDE DEF more
    <3> QED BY <2>3, <2>4, <2>5, <3>1
  <2> HIDE DEF more
  <2> QED BY <2>2, <2>4, <2>5, <2>6
<1> DEFINE g == [k \in 0..(n + 1) |-> IF k = 0 THEN a ELSE h[k - 1]]
<1>3. g[0] = a /\ g[n + 1] = b
  <2>1. n + 1 \in 0..(n + 1) /\ n + 1 # 0 /\ n + 1 - 1 = n /\ 0 \in 0..(n + 1)
    BY <1>2
  <2> QED BY <1>1, <2>1 DEF Run
<1> HIDE DEF more
<1>4. ASSUME NEW k \in 1..(n + 1)  PROVE g[k] = g[k - 1] \o more[k]
  <2>1. CASE k = 1
    <3>1. g[1] = h[0] /\ g[0] = a /\ h[0] = a \o p
      BY <1>1, <1>2 DEF Run
    <3> QED BY <1>2, <2>1, <3>1
  <2>2. CASE k # 1
    <3>1. k - 1 \in 1..n /\ k - 1 # 0 /\ k \in 0..(n + 1) /\ k # 0 /\ k - 1 \in 0..(n + 1)
      BY <1>2, <2>2
    <3>2. g[k] = h[k - 1] /\ g[k - 1] = h[k - 1 - 1]
      BY <3>1
    <3>3. h[k - 1] = h[k - 1 - 1] \o pieces[k - 1]
      BY <1>1, <3>1 DEF Run
    <3> HIDE DEF g
    <3> QED BY <1>2, <2>2, <3>2, <3>3
  <2> QED BY <2>1, <2>2
<1>5. Run(g, more, a, b)
  <2> HIDE DEF g
  <2> QED BY <1>2, <1>3, <1>4 DEF Run
<1>6. more # <<>>
  BY <1>2
<1> HIDE DEF g
<1> QED BY <1>2, <1>5, <1>6 DEF more

LEMMA PieceIsTyped ==
  ASSUME NEW Chars, NEW text \in Seq(Chars), NEW maxChars \in Nat,
         NEW s \in 0..(Len(text) - 1), NEW e \in (s + 1)..Len(text), e - s <= maxChars,
         Paired(text) => text[e].class # "high"
  PROVE  SubSeq(text, s + 1, e) \in Pieces(Chars, text, maxChars)
<1> DEFINE p == SubSeq(text, s + 1, e)
           n == Len(text)
<1>1. n \in Nat /\ s \in Nat /\ e \in Nat /\ s + 1 <= e /\ e <= n
  OBVIOUS
<1>2. \A i \in (s + 1)..e : text[i] \in Chars
  <2>1. \A i \in (s + 1)..e : i \in 1..n
    BY <1>1
  <2> QED BY <2>1
<1>3. /\ p \in Seq(Chars) /\ Len(p) = IF s + 1 <= e THEN e - (s + 1) + 1 ELSE 0
      /\ \A i \in 1..(e - (s + 1) + 1) : p[i] = text[s + 1 + i - 1]
  BY <1>1, <1>2, SubSeqProperties
<1>4. Len(p) = e - s /\ e - s \in 1..(e - (s + 1) + 1) /\ s + 1 + (e - s) - 1 = e /\ e - s # 0
  BY <1>1, <1>3
<1> HIDE DEF p
<1>5. Last(p) = text[e] /\ p # <<>>
  BY <1>3, <1>4 DEF Last
<1> QED BY <1>3, <1>4, <1>5 DEF Pieces, p

\* splitSourceText gives the whole text in pieces as they must be, and none of
\* nothing.
LEMMA SplitsText ==
  ASSUME NEW Chars, NEW text \in Seq(Chars), NEW maxChars, Cuttable(text, maxChars),
         NEW prefer \in BOOLEAN
  PROVE  LET pieces == splitSourceText(text, maxChars, prefer)
         IN /\ pieces \in Seq(Pieces(Chars, text, maxChars))
            /\ pieces = <<>> <=> text = <<>>
            /\ \E g : Run(g, pieces, <<>>, text)
<1> DEFINE n == Len(text)
           from == ChunksFrom(text, maxChars, prefer)
           end(s) == ChunkEnd(text, s, maxChars, prefer)
           S == Pieces(Chars, text, maxChars)
           D == {s \in 0..n : /\ from[s] \in Seq(S) /\ (s # n => from[s] # <<>>)
                              /\ \E g : Run(g, from[s], SubSeq(text, 1, s), text)}
<1>1. \A s \in 0..n : from[s] = IF s = n THEN <<>> ELSE <<SubSeq(text, s + 1, end(s))>> \o from[end(s)]
  BY ChunksAreDefined
<1>2. n \in Nat /\ maxChars \in Nat
  BY DEF Cuttable
<1> HIDE DEF from
<1>3. ASSUME NEW s \in 0..n, \A j \in (s + 1)..n : j \in D
      PROVE  s \in D
  <2>1. CASE s = n
    <3>0. SubSeq(text, 1, n) = text
      BY SubSeqFull
    <3>5. n \in 0..n
      BY <1>2
    <3>6. from[n] = <<>>
      BY <1>1, <3>5, Zenon
    <3>1. from[n] = <<>> /\ SubSeq(text, 1, n) = text
      BY <3>0, <3>6
    <3> DEFINE g == [k \in 0..0 |-> text]
    <3>2. Run(g, <<>>, text, text)
      BY DEF Run
    <3> HIDE DEF g
    <3>3. \E x : Run(x, from[n], SubSeq(text, 1, n), text)
      BY <3>1, <3>2
    <3>4. from[n] \in Seq(S)
      BY <3>1
    <3> QED BY <2>1, <3>3, <3>4
  <2>2. CASE s # n
    <3> DEFINE e == end(s)
               p == SubSeq(text, s + 1, e)
    <3>1. s \in 0..(n - 1)
      BY <1>2, <2>2
    <3>2. e \in (s + 1)..n /\ e - s <= maxChars /\ (Paired(text) => text[e].class # "high")
      BY <3>1, ChunkEnds
    <3> HIDE DEF e
    <3>3. p \in S
      BY <1>2, <3>1, <3>2, PieceIsTyped
    <3>4. e \in D
      BY <1>3, <3>2
    <3>5. from[s] = <<p>> \o from[e]
      BY <1>1, <2>2 DEF e
    <3>6. SubSeq(text, 1, s) \o p = SubSeq(text, 1, e)
      <4>1. 1 \in 1..(n + 1) /\ s \in (1 - 1)..n /\ e \in s..n
        BY <1>2, <3>1, <3>2
      <4> QED BY <4>1, ConcatAdjacentSubSeq
    <3> DEFINE a == SubSeq(text, 1, s)
    <3>7. from[e] \in Seq(S) /\ \E g : Run(g, from[e], a \o p, text)
      BY <3>4, <3>6
    <3> HIDE DEF p, a, S
    <3>8. <<p>> \o from[e] \in Seq(S) /\ <<p>> \o from[e] # <<>>
          /\ \E g : Run(g, <<p>> \o from[e], a, text)
      BY <3>3, <3>7, RunOfMore
    <3>9. from[s] \in Seq(S) /\ from[s] # <<>> /\ \E g : Run(g, from[s], a, text)
      BY <3>5, <3>8
    <3> QED BY <3>9 DEF a
  <2> QED BY <2>1, <2>2
<1>4. 0..n \subseteq D
  <2> HIDE DEF D, n
  <2> QED BY <1>2, <1>3, DownwardInduction
<1>11. n \in 0..n /\ 0 \in Nat /\ ~(1 <= 0)
  BY <1>2
<1>12. SubSeq(text, 1, 0) = <<>>
  BY SubSeqEmpty
<1>13. from[n] = <<>>
  BY <1>1, <1>11, Zenon
<1>5. SubSeq(text, 1, 0) = <<>> /\ from[n] = <<>>
  BY <1>12, <1>13
<1>9. 0 \in D
  BY <1>2, <1>4
<1>6. text = <<>> <=> n = 0
  OBVIOUS
<1>7. splitSourceText(text, maxChars, prefer) = from[0]
  BY DEF splitSourceText, from
<1>8. from[0] \in Seq(S) /\ (0 # n => from[0] # <<>>) /\ \E g : Run(g, from[0], <<>>, text)
  BY <1>5, <1>9
<1>10. from[0] = <<>> <=> text = <<>>
  BY <1>5, <1>6, <1>8
<1> QED BY <1>7, <1>8, <1>10

(***************************************************************************)
(* What a field of a sequence of records adds up to.                       *)
(***************************************************************************)
\* The fields of cs, one after the other, lead from the text a to the text b.
Adds(field, cs, a, b) ==
    \E g : /\ g[0] = a /\ g[Len(cs)] = b
           /\ \A k \in 1..Len(cs) : g[k] = g[k - 1] \o cs[k][field]

LEMMA AddsNothing ==
  ASSUME NEW field, NEW a
  PROVE  Adds(field, <<>>, a, a)
<1> DEFINE g == [k \in 0..0 |-> a]
<1>1. g[0] = a /\ Len(<<>>) = 0
  OBVIOUS
<1> HIDE DEF g
<1> QED BY <1>1 DEF Adds

\* Where the fields are the same or nothing, so is what they add up to.
LEMMA AddsTheSame ==
  ASSUME NEW field, NEW other, NEW cs, NEW ds, NEW a, NEW b,
         Len(ds) = Len(cs), Adds(field, cs, a, b),
         \A k \in 1..Len(cs) : ds[k][other] = cs[k][field]
  PROVE  Adds(other, ds, a, b)
<1>1. PICK g : /\ g[0] = a /\ g[Len(cs)] = b
               /\ \A k \in 1..Len(cs) : g[k] = g[k - 1] \o cs[k][field]
  BY DEF Adds
<1>2. \A k \in 1..Len(ds) : g[k] = g[k - 1] \o ds[k][other]
  BY <1>1
<1> QED BY <1>1, <1>2 DEF Adds

LEMMA AddsRun ==
  ASSUME NEW field, NEW pieces, NEW cs, NEW a, NEW b,
         Len(cs) = Len(pieces), \E g : Run(g, pieces, a, b),
         \A k \in 1..Len(pieces) : cs[k][field] = pieces[k]
  PROVE  Adds(field, cs, a, b)
<1>1. PICK g : Run(g, pieces, a, b)
  OBVIOUS
<1>2. \A k \in 1..Len(cs) : g[k] = g[k - 1] \o cs[k][field]
  BY <1>1 DEF Run
<1> QED BY <1>1, <1>2 DEF Adds, Run

LEMMA AddsEmpty ==
  ASSUME NEW Chars, NEW field, NEW cs, NEW a \in Seq(Chars), Len(cs) \in Nat,
         \A k \in 1..Len(cs) : cs[k][field] = <<>>
  PROVE  Adds(field, cs, a, a)
<1> DEFINE g == [k \in 0..Len(cs) |-> a]
<1>1. g[0] = a /\ g[Len(cs)] = a
  OBVIOUS
<1>2. ASSUME NEW k \in 1..Len(cs)  PROVE g[k] = g[k - 1] \o cs[k][field]
  <2>1. g[k] = a /\ g[k - 1] = a
    OBVIOUS
  <2>2. a \o <<>> = a
    BY ConcatEmptySeq
  <2> QED BY <2>1, <2>2
<1> HIDE DEF g
<1> QED BY <1>1, <1>2 DEF Adds

\* The first record has something, the others nothing.
LEMMA AddsFirst ==
  ASSUME NEW Chars, NEW field, NEW cs, NEW a \in Seq(Chars), Len(cs) \in Nat \ {0},
         cs[1][field] = a, \A k \in 2..Len(cs) : cs[k][field] = <<>>
  PROVE  Adds(field, cs, <<>>, a)
<1> DEFINE g == [k \in 0..Len(cs) |-> IF k = 0 THEN <<>> ELSE a]
<1>1. g[0] = <<>> /\ g[Len(cs)] = a
  OBVIOUS
<1>2. ASSUME NEW k \in 1..Len(cs)  PROVE g[k] = g[k - 1] \o cs[k][field]
  <2>1. a \o <<>> = a /\ <<>> \o a = a
    BY ConcatEmptySeq
  <2>2. CASE k = 1
    <3>1. g[1] = a /\ g[0] = <<>> /\ 1 - 1 = 0
      OBVIOUS
    <3> HIDE DEF g
    <3>2. g[1] = g[1 - 1] \o cs[1][field]
      BY <2>1, <3>1
    <3> QED BY <2>2, <3>2, Zenon
  <2>3. CASE k # 1
    <3>1. g[k] = a /\ g[k - 1] = a /\ k \in 2..Len(cs)
      BY <2>3
    <3> HIDE DEF g
    <3> QED BY <2>1, <3>1
  <2> QED BY <2>2, <2>3
<1> HIDE DEF g
<1> QED BY <1>1, <1>2 DEF Adds

LEMMA AddsBoth ==
  ASSUME NEW T, NEW field, NEW cs \in Seq(T), NEW ds \in Seq(T), NEW a, NEW b, NEW c,
         Adds(field, cs, a, b), Adds(field, ds, b, c)
  PROVE  Adds(field, cs \o ds, a, c)
<1> DEFINE n == Len(cs)
           m == Len(ds)
           both == cs \o ds
<1>1. PICK g : g[0] = a /\ g[n] = b /\ \A k \in 1..n : g[k] = g[k - 1] \o cs[k][field]
  BY DEF Adds
<1>2. PICK h : h[0] = b /\ h[m] = c /\ \A k \in 1..m : h[k] = h[k - 1] \o ds[k][field]
  BY DEF Adds
<1>3. /\ both \in Seq(T) /\ Len(both) = Len(cs) + Len(ds)
      /\ \A k \in 1..(Len(cs) + Len(ds)) : both[k] = IF k <= Len(cs) THEN cs[k] ELSE ds[k - Len(cs)]
  BY ConcatProperties, Zenon
<1>4. n \in Nat /\ m \in Nat
  OBVIOUS
<1>5. Len(both) = n + m /\ \A k \in 1..(n + m) : both[k] = IF k <= n THEN cs[k] ELSE ds[k - n]
  BY <1>3
<1> HIDE DEF n, m, both
<1> DEFINE f == [k \in 0..(n + m) |-> IF k <= n THEN g[k] ELSE h[k - n]]
<1>6. f[0] = a /\ f[n + m] = c
  <2>1. f[0] = a
    BY <1>1, <1>4
  <2>2. CASE m = 0
    <3>1. n + m = n /\ n \in 0..(n + m) /\ n <= n
      BY <1>4, <2>2
    <3> QED BY <1>1, <1>2, <2>1, <2>2, <3>1
  <2>3. CASE m # 0
    <3>3. \A k \in 0..(n + m) : ~(k <= n) => f[k] = h[k - n]
      OBVIOUS
    <3> HIDE DEF f
    <3> DEFINE j == n + m
    <3>4. j \in 0..(n + m) /\ ~(j <= n) /\ j - n = m
      BY <1>4, <2>3
    <3> HIDE DEF j
    <3>5. f[j] = h[m]
      BY <3>3, <3>4
    <3>2. f[n + m] = h[m]
      BY <3>5 DEF j
    <3> QED BY <1>2, <2>1, <3>2
  <2> QED BY <2>1, <2>2, <2>3
<1>7. ASSUME NEW k \in 1..(n + m)  PROVE f[k] = f[k - 1] \o both[k][field]
  <2>1. CASE k <= n
    <3>1. k \in 0..(n + m) /\ k - 1 \in 0..(n + m) /\ k - 1 <= n /\ k \in 1..n
      BY <1>4, <2>1
    <3>2. f[k] = g[k] /\ f[k - 1] = g[k - 1] /\ both[k] = cs[k]
      BY <1>5, <2>1, <3>1
    <3> HIDE DEF f
    <3> QED BY <1>1, <3>1, <3>2
  <2>2. CASE k = n + 1
    <3>1. k \in 0..(n + m) /\ n \in 0..(n + m) /\ k - 1 = n /\ n <= n /\ ~(k <= n) /\ k - n = 1
          /\ 1 \in 1..m
          /\ 1 - 1 = 0
      BY <1>4, <2>2
    <3>2. f[k] = h[1] /\ f[k - 1] = g[n] /\ both[k] = ds[1]
      BY <1>5, <3>1
    <3>3. h[1] = h[0] \o ds[1][field]
      BY <1>2, <3>1
    <3> HIDE DEF f
    <3> QED BY <1>1, <1>2, <3>2, <3>3
  <2>3. CASE ~(k <= n) /\ k # n + 1
    <3>1. k \in 0..(n + m) /\ k - 1 \in 0..(n + m) /\ ~(k - 1 <= n) /\ k - n \in 1..m
          /\ k - 1 - n = k - n - 1
      BY <1>4, <2>3
    <3>2. f[k] = h[k - n] /\ f[k - 1] = h[k - 1 - n] /\ both[k] = ds[k - n]
      BY <1>5, <2>3, <3>1
    <3>3. h[k - n] = h[k - n - 1] \o ds[k - n][field]
      BY <1>2, <3>1
    <3> HIDE DEF f
    <3> QED BY <3>1, <3>2, <3>3
  <2> QED BY <1>4, <2>1, <2>2, <2>3
<1> HIDE DEF f
<1>8. \E x : /\ x[0] = a /\ x[Len(both)] = c
             /\ \A k \in 1..Len(both) : x[k] = x[k - 1] \o both[k][field]
  BY <1>5, <1>6, <1>7
<1> QED BY <1>8 DEF Adds, both

\* Joined adds the fields up from nothing.
LEMMA JoinedAdds ==
  ASSUME NEW field, NEW cs, Len(cs) \in Nat, NEW b, Adds(field, cs, <<>>, b)
  PROVE  Joined(field, cs) = b
<1> DEFINE n == Len(cs)
           body(h) == [k \in 0..n |-> IF k = 0 THEN <<>> ELSE h[k - 1] \o cs[k][field]]
           upTo == CHOOSE h : h = body(h)
<1>1. Joined(field, cs) = upTo[n]
  BY DEF Joined
<1>2. PICK g : g[0] = <<>> /\ g[n] = b /\ \A k \in 1..n : g[k] = g[k - 1] \o cs[k][field]
  BY DEF Adds
<1> DEFINE f == [k \in 0..n |-> g[k]]
<1>3. f = body(f)
  <2>1. ASSUME NEW k \in 0..n
        PROVE  f[k] = IF k = 0 THEN <<>> ELSE f[k - 1] \o cs[k][field]
    <3>1. CASE k = 0
      BY <1>2, <3>1
    <3>2. CASE k # 0
      <4>1. k \in 1..n /\ k - 1 \in 0..n
        BY <3>2
      <4>2. f[k] = g[k] /\ f[k - 1] = g[k - 1]
        BY <4>1
      <4> HIDE DEF f
      <4> QED BY <1>2, <3>2, <4>1, <4>2
    <3> QED BY <3>1, <3>2
  <2>2. DOMAIN f = 0..n /\ f = [k \in 0..n |-> f[k]]
    OBVIOUS
  <2> HIDE DEF f
  <2> QED BY <2>1, <2>2
<1>4. upTo = body(upTo)
  <2> HIDE DEF body, f
  <2> QED BY <1>3
<1>5. \A k \in 0..n : upTo[k] = IF k = 0 THEN <<>> ELSE upTo[k - 1] \o cs[k][field]
  <2> HIDE DEF upTo
  <2> QED BY <1>4, Zenon
<1> HIDE DEF upTo, n
<1>11. ASSUME NEW j \in 1..n, upTo[j - 1] = g[j - 1]  PROVE upTo[j] = g[j]
  <2>1. j \in 0..n /\ j # 0
    BY DEF n
  <2>2. upTo[j] = upTo[j - 1] \o cs[j][field]
    BY <1>5, <2>1
  <2>3. g[j] = g[j - 1] \o cs[j][field]
    BY <1>2
  <2> QED BY <1>11, <2>2, <2>3, Zenon
<1> DEFINE S == {k \in Nat : k \in 0..n => upTo[k] = g[k]}
<1>6. 0 \in S
  BY <1>2, <1>5
<1>7. ASSUME NEW k \in Nat, k \in S  PROVE k + 1 \in S
  <2>1. CASE k + 1 \in 0..n
    <3>1. k \in 0..n /\ k + 1 \in 1..n /\ k + 1 - 1 = k /\ k + 1 # 0
      BY <2>1 DEF n
    <3>2. upTo[k] = g[k]
      BY <1>7, <3>1
    <3>5. upTo[k + 1] = g[k + 1]
      <4> DEFINE j == k + 1
      <4>1. j \in 1..n /\ j - 1 = k
        BY <3>1
      <4> HIDE DEF j
      <4>2. upTo[j] = g[j]
        BY <1>11, <3>2, <4>1
      <4> QED BY <4>2 DEF j
    <3> QED BY <3>5
  <2> QED BY <2>1
<1>8. Nat \subseteq S
  <2> HIDE DEF S
  <2> QED BY <1>6, <1>7, InductionOverSet
<1>9. n \in Nat /\ n \in 0..n
  BY DEF n
<1>10. upTo[n] = g[n]
  BY <1>8, <1>9
<1> QED BY <1>1, <1>2, <1>10

(***************************************************************************)
(* The cut of a source (SourceSplit).                                      *)
(***************************************************************************)
Sources(Chars) == [note : Seq(Chars), text : Seq(Chars)]

\* The chunks a source may be cut into.
ChunksOf(Chars, whole, maxChars) ==
    {c \in Sources(Chars) :
        /\ Len(c.note) + Len(c.text) <= maxChars
        /\ Paired(whole.note) /\ c.note # <<>> => Last(c.note).class # "high"
        /\ Paired(whole.text) /\ c.text # <<>> => Last(c.text).class # "high"}

\* A text that pairs its surrogates does not end in the middle of a pair.
LEMMA PairedToTheEnd ==
  ASSUME NEW Chars, NEW text \in Seq(Chars), Paired(text), text # <<>>
  PROVE  Last(text).class # "high"
<1>1. Len(text) \in 1..Len(text) /\ ~(Len(text) < Len(text))
  OBVIOUS
<1> QED BY <1>1 DEF Paired, Last

LEMMA SequenceOf ==
  ASSUME NEW T, NEW n \in Nat, NEW f, f = [i \in 1..n |-> f[i]], \A i \in 1..n : f[i] \in T
  PROVE  f \in Seq(T) /\ Len(f) = n
<1>1. f \in [1..n -> T]
  BY Zenon
<1> QED BY <1>1

\* splitNoteSources gives the whole source in chunks that fit, no chunk empty unless it is the only
\* one.
LEMMA SourceIsSplit ==
  ASSUME NEW Chars, NEW whole \in Sources(Chars), NEW maxChars \in Nat \ {0},
         Cuttable(whole.note, maxChars), Cuttable(whole.text, maxChars)
  PROVE  LET cs == splitNoteSources(whole, maxChars)
         IN /\ cs \in Seq(ChunksOf(Chars, whole, maxChars)) /\ cs # <<>>
            /\ Adds("note", cs, <<>>, whole.note)
            /\ Adds("text", cs, <<>>, whole.text)
            /\ \A k \in 1..Len(cs) : cs[k].note = <<>> /\ cs[k].text = <<>> => cs = <<whole>>
<1> DEFINE T == ChunksOf(Chars, whole, maxChars)
           inline == InlineNote(whole.note, maxChars)
           spare == maxChars - (IF inline THEN Len(whole.note) ELSE 0)
           notes == IF inline THEN <<>> ELSE splitSourceText(whole.note, maxChars, FALSE)
           texts == splitSourceText(whole.text, spare, TRUE)
           left == [i \in DOMAIN notes |-> [note |-> notes[i], text |-> <<>>]]
           right == [i \in DOMAIN texts |-> [note |-> IF inline /\ i = 1 THEN whole.note ELSE <<>>,
                                             text |-> texts[i]]]
           cs == splitNoteSources(whole, maxChars)
<1>1. cs = IF Len(whole.note) + Len(whole.text) <= maxChars THEN <<whole>> ELSE left \o right
  BY DEF splitNoteSources
<1>2. whole.note \in Seq(Chars) /\ whole.text \in Seq(Chars) /\ Len(whole.note) \in Nat
      /\ Len(whole.text) \in Nat
  BY DEF Sources
<1>3. CASE Len(whole.note) + Len(whole.text) <= maxChars
  <2>1. cs = <<whole>>
    BY <1>1, <1>3
  <2>2. whole \in T
    <3>1. /\ Paired(whole.note) /\ whole.note # <<>> => Last(whole.note).class # "high"
          /\ Paired(whole.text) /\ whole.text # <<>> => Last(whole.text).class # "high"
      BY <1>2, PairedToTheEnd
    <3> QED BY <1>3, <3>1 DEF ChunksOf
  <2>3. <<whole>> \in Seq(T) /\ <<whole>> # <<>> /\ Len(<<whole>>) = 1 /\ <<whole>>[1] = whole
    BY <2>2
  <2>4. Adds("note", <<whole>>, <<>>, whole.note) /\ Adds("text", <<whole>>, <<>>, whole.text)
    <3> DEFINE one == <<whole>>
    <3>1. Len(one) \in Nat \ {0} /\ one[1] = whole /\ 2..Len(one) = {}
      OBVIOUS
    <3> HIDE DEF one
    <3>2. Adds("note", one, <<>>, whole.note)
      BY <1>2, <3>1, AddsFirst
    <3>3. Adds("text", one, <<>>, whole.text)
      BY <1>2, <3>1, AddsFirst
    <3> QED BY <3>2, <3>3 DEF one
  <2>5. /\ cs \in Seq(T) /\ cs # <<>>
        /\ Adds("note", cs, <<>>, whole.note) /\ Adds("text", cs, <<>>, whole.text)
    <3> HIDE DEF T, cs
    <3> QED BY <2>1, <2>3, <2>4
  <2>6. \A k \in 1..Len(cs) : cs[k].note = <<>> /\ cs[k].text = <<>> => cs = <<whole>>
    <3> HIDE DEF cs
    <3> QED BY <2>1
  <2> QED BY <2>5, <2>6
<1>4. CASE ~(Len(whole.note) + Len(whole.text) <= maxChars)
  <2>1. Cuttable(whole.text, spare) /\ spare \in Nat /\ spare <= maxChars
        /\ (inline => Len(whole.note) + spare <= maxChars)
    <3>1. inline => 4 * Len(whole.note) <= maxChars
      BY DEF InlineNote
    <3>2. spare \in Nat \ {0} /\ (maxChars # 1 => spare # 1)
      <4> HIDE DEF inline
      <4> QED BY <1>2, <3>1
    <3>3. spare <= maxChars /\ (inline => Len(whole.note) + spare <= maxChars)
      <4> HIDE DEF inline
      <4> QED BY <1>2
    <3> HIDE DEF spare, inline
    <3>4. Cuttable(whole.text, spare)
      BY <3>2 DEF Cuttable
    <3> QED BY <3>2, <3>3, <3>4
  <2>2. /\ texts \in Seq(Pieces(Chars, whole.text, spare))
        /\ texts = <<>> <=> whole.text = <<>>
        /\ \E g : Run(g, texts, <<>>, whole.text)
    <3> HIDE DEF spare
    <3> QED BY <1>2, <2>1, SplitsText
  <2>3. ~inline => /\ notes \in Seq(Pieces(Chars, whole.note, maxChars))
                   /\ notes = <<>> <=> whole.note = <<>>
                   /\ \E g : Run(g, notes, <<>>, whole.note)
    <3>1. ASSUME ~inline  PROVE notes = splitSourceText(whole.note, maxChars, FALSE)
      BY <3>1
    <3>2. LET pieces == splitSourceText(whole.note, maxChars, FALSE)
          IN /\ pieces \in Seq(Pieces(Chars, whole.note, maxChars))
             /\ pieces = <<>> <=> whole.note = <<>>
             /\ \E g : Run(g, pieces, <<>>, whole.note)
      BY <1>2, SplitsText
    <3> HIDE DEF notes, inline
    <3> QED BY <3>1, <3>2
  <2>4. inline => notes = <<>>
    OBVIOUS
  <2>5. cs = left \o right
    BY <1>1, <1>4
  <2> DEFINE n == Len(notes)
             m == Len(texts)
  <2>6. n \in Nat /\ DOMAIN notes = 1..n /\ m \in Nat /\ DOMAIN texts = 1..m /\ (inline => n = 0)
    <3> HIDE DEF notes, texts, inline
    <3> QED BY <2>2, <2>3, <2>4
  <2> HIDE DEF notes, texts, cs, spare
  <2>7. /\ left \in Seq(T) /\ Len(left) = n
        /\ \A i \in 1..n : left[i].note = notes[i] /\ left[i].text = <<>> /\ left[i].note # <<>>
    <3>1. ASSUME NEW i \in 1..n
          PROVE  left[i] \in T /\ left[i].note = notes[i] /\ left[i].text = <<>>
                 /\ left[i].note # <<>>
      <4>1. ~inline
        BY <2>6
      <4>2. notes[i] \in Pieces(Chars, whole.note, maxChars)
        <5> HIDE DEF inline
        <5> QED BY <2>3, <2>6, <4>1
      <4>3. left[i] = [note |-> notes[i], text |-> <<>>]
        BY <2>6
      <4>4. notes[i] \in Seq(Chars) /\ Len(notes[i]) <= maxChars /\ notes[i] # <<>>
            /\ Len(notes[i]) \in Nat /\ (Paired(whole.note) => Last(notes[i]).class # "high")
        BY <4>2 DEF Pieces
      <4>5. [note |-> notes[i], text |-> <<>>] \in T
        BY <4>4 DEF ChunksOf, Sources
      <4> HIDE DEF left, T
      <4> QED BY <4>3, <4>4, <4>5
    <3>2. left = [i \in 1..n |-> left[i]]
      BY <2>6
    <3> HIDE DEF left, T, n
    <3>3. left \in Seq(T) /\ Len(left) = n
      BY <2>6, <3>1, <3>2, SequenceOf
    <3> QED BY <3>1, <3>3
  <2>8. /\ right \in Seq(T) /\ Len(right) = m
        /\ \A i \in 1..m : /\ right[i].note = IF inline /\ i = 1 THEN whole.note ELSE <<>>
                           /\ right[i].text = texts[i] /\ right[i].text # <<>>
    <3>1. ASSUME NEW i \in 1..m
          PROVE  /\ right[i] \in T
                 /\ right[i].note = IF inline /\ i = 1 THEN whole.note ELSE <<>>
                 /\ right[i].text = texts[i] /\ right[i].text # <<>>
      <4> DEFINE its == IF inline /\ i = 1 THEN whole.note ELSE <<>>
      <4>1. texts[i] \in Pieces(Chars, whole.text, spare)
        BY <2>2, <2>6
      <4>2. texts[i] \in Seq(Chars) /\ Len(texts[i]) <= spare /\ texts[i] # <<>>
            /\ Len(texts[i]) \in Nat
            /\ (Paired(whole.text) => Last(texts[i]).class # "high")
        BY <4>1 DEF Pieces
      <4>3. right[i] = [note |-> its, text |-> texts[i]]
        BY <2>6
      <4>7. Paired(whole.note) /\ its # <<>> => Last(its).class # "high"
        <5>1. its = <<>> \/ its = whole.note
          OBVIOUS
        <5> HIDE DEF its
        <5> QED BY <1>2, <5>1, PairedToTheEnd
      <4>4. its \in Seq(Chars) /\ Len(its) \in Nat /\ Len(its) + Len(texts[i]) <= maxChars
        <5> HIDE DEF inline
        <5>1. CASE inline /\ i = 1
          <6>1. its = whole.note
            BY <5>1
          <6>2. Len(its) + spare <= maxChars /\ its \in Seq(Chars) /\ Len(its) \in Nat
            <7> HIDE DEF its
            <7> QED BY <1>2, <2>1, <5>1, <6>1
          <6> DEFINE a == Len(its)
                     b == Len(texts[i])
          <6>3. a \in Nat /\ b \in Nat /\ spare \in Nat /\ a + spare <= maxChars /\ b <= spare
            BY <2>1, <4>2, <6>2
          <6> HIDE DEF a, b
          <6>4. a + b <= maxChars
            BY <6>3
          <6> HIDE DEF its
          <6> QED BY <6>2, <6>4 DEF a, b
        <5>2. CASE ~(inline /\ i = 1)
          <6>1. its = <<>> /\ Len(<<>>) = 0 /\ <<>> \in Seq(Chars)
            BY <5>2
          <6> HIDE DEF its
          <6> QED BY <2>1, <4>2, <6>1
        <5> QED BY <5>1, <5>2
      <4> HIDE DEF its, inline, right
      <4>5. [note |-> its, text |-> texts[i]] \in T
        BY <4>2, <4>4, <4>7 DEF ChunksOf, Sources
      <4> HIDE DEF T
      <4>6. right[i] \in T /\ right[i].note = its /\ right[i].text = texts[i] /\ right[i].text # <<>>
        BY <4>2, <4>3, <4>5
      <4> QED BY <4>6 DEF its
    <3>2. right = [i \in 1..m |-> right[i]]
      BY <2>6
    <3> HIDE DEF right, T, m
    <3>3. right \in Seq(T) /\ Len(right) = m
      BY <2>6, <3>1, <3>2, SequenceOf
    <3> QED BY <3>1, <3>3
  <2>15. (inline => Len(whole.text) # 0) /\ (Len(whole.note) # 0 \/ Len(whole.text) # 0)
    <3> DEFINE a == Len(whole.note)
               b == Len(whole.text)
    <3>1. a \in Nat /\ b \in Nat /\ spare \in Nat
      BY <1>2, <2>1
    <3>2. ~(a + b <= maxChars)
      BY <1>4
    <3>3. inline => a + spare <= maxChars
      BY <2>1
    <3> HIDE DEF inline, a, b
    <3>4. (inline => b # 0) /\ (a # 0 \/ b # 0)
      BY <3>1, <3>2, <3>3
    <3> QED BY <3>4 DEF a, b
  <2> HIDE DEF left, right, T, n, m, inline
  <2> DEFINE first == IF inline THEN <<>> ELSE whole.note
  <2>9. Adds("note", left, <<>>, first) /\ Adds("text", left, <<>>, <<>>)
    <3>1. <<>> \in Seq(Chars)
      OBVIOUS
    <3>2. Adds("text", left, <<>>, <<>>)
      BY <2>6, <2>7, <3>1, AddsEmpty
    <3>3. CASE inline
      <4>2. left = <<>>
        BY <2>6, <2>7, <3>3
      <4>1. Adds("note", left, <<>>, <<>>)
        BY <4>2, AddsNothing
      <4> QED BY <3>2, <3>3, <4>1
    <3>4. CASE ~inline
      <4>1. \E g : Run(g, notes, <<>>, whole.note)
        BY <2>3, <3>4
      <4>2. Adds("note", left, <<>>, whole.note)
        BY <2>7, <4>1, AddsRun DEF n
      <4> QED BY <3>2, <3>4, <4>2
    <3> QED BY <3>3, <3>4
  <2>10. Adds("note", right, first, whole.note) /\ Adds("text", right, <<>>, whole.text)
    <3>1. Adds("text", right, <<>>, whole.text)
      BY <2>2, <2>8, AddsRun DEF m
    <3>2. CASE inline
      <4>1. m # 0
        <5>1. Len(whole.text) # 0
          BY <2>15, <3>2
        <5>2. texts # <<>>
          BY <1>2, <2>2, <5>1
        <5> QED BY <2>2, <5>2 DEF m
      <4>2. right[1].note = whole.note /\ \A k \in 2..Len(right) : right[k].note = <<>>
        BY <2>6, <2>8, <3>2, <4>1
      <4>3. Adds("note", right, <<>>, whole.note)
        BY <1>2, <2>6, <2>8, <4>1, <4>2, AddsFirst
      <4> QED BY <3>1, <3>2, <4>3
    <3>3. CASE ~inline
      <4>1. \A k \in 1..Len(right) : right[k].note = <<>>
        BY <2>8, <3>3
      <4>2. Adds("note", right, whole.note, whole.note)
        BY <1>2, <2>6, <2>8, <4>1, AddsEmpty
      <4> QED BY <3>1, <3>3, <4>2
    <3> QED BY <3>2, <3>3
  <2> HIDE DEF first
  <2>11. Adds("note", left \o right, <<>>, whole.note)
         /\ Adds("text", left \o right, <<>>, whole.text)
    <3>1. Adds("note", left \o right, <<>>, whole.note)
      BY <2>7, <2>8, <2>9, <2>10, AddsBoth
    <3>2. Adds("text", left \o right, <<>>, whole.text)
      BY <2>7, <2>8, <2>9, <2>10, AddsBoth
    <3> QED BY <3>1, <3>2
  <2>12. /\ cs \in Seq(T) /\ Len(cs) = n + m
         /\ \A k \in 1..(n + m) : cs[k] = IF k <= n THEN left[k] ELSE right[k - n]
    <3>2. left \in Seq(T) /\ right \in Seq(T)
      BY <2>7, <2>8
    <3>1. /\ left \o right \in Seq(T) /\ Len(left \o right) = Len(left) + Len(right)
          /\ \A k \in 1..(Len(left) + Len(right)) :
               (left \o right)[k] = IF k <= Len(left) THEN left[k] ELSE right[k - Len(left)]
      BY <3>2, ConcatProperties, Zenon
    <3> QED BY <2>5, <2>7, <2>8, <3>1
  <2>13. ASSUME NEW k \in 1..Len(cs)  PROVE ~(cs[k].note = <<>> /\ cs[k].text = <<>>)
    <3>1. CASE k <= n
      <4>1. k \in 1..n /\ cs[k] = left[k]
        BY <2>6, <2>12, <3>1
      <4> QED BY <2>7, <4>1
    <3>2. CASE ~(k <= n)
      <4>1. k - n \in 1..m /\ cs[k] = right[k - n]
        BY <2>6, <2>12, <3>2
      <4> QED BY <2>8, <4>1
    <3> QED BY <3>1, <3>2
  <2>14. cs # <<>>
    <3>1. n + m # 0
      <4>1. CASE inline
        <5>1. Len(whole.text) # 0
          BY <2>15, <4>1
        <5>2. texts # <<>>
          BY <1>2, <2>2, <5>1
        <5> QED BY <2>2, <2>6, <5>2 DEF m
      <4>2. CASE ~inline
        <5>1. Len(whole.note) # 0 \/ Len(whole.text) # 0
          BY <2>15
        <5>2. notes # <<>> \/ texts # <<>>
          BY <1>2, <2>2, <2>3, <4>2, <5>1
        <5> QED BY <2>2, <2>3, <2>6, <4>2, <5>2 DEF m, n
      <4> QED BY <4>1, <4>2
    <3> QED BY <2>12, <3>1
  <2>16. /\ cs \in Seq(T) /\ cs # <<>>
         /\ Adds("note", cs, <<>>, whole.note) /\ Adds("text", cs, <<>>, whole.text)
    BY <2>5, <2>11, <2>12, <2>14
  <2> QED BY <2>13, <2>16 DEF T, cs
<1> QED BY <1>3, <1>4

(***************************************************************************)
(* The source of SourceText.                                               *)
(***************************************************************************)
Characters == [class : Classes, at : Nat]

SplitInv ==
    /\ source \in Sources(Characters) /\ Paired(source.note) /\ Paired(source.text)
    /\ chunkSize \in Nat \ {0, 1}
    /\ chunks = <<>> \/ chunks = splitNoteSources(source, chunkSize)

LEMMA TextsAreTyped ==
  ASSUME NEW K, NEW n \in Nat, NEW classes \in [1..n -> K]
  PROVE  /\ TextOf(classes) \in Seq([class : K, at : Nat]) /\ Len(TextOf(classes)) = n
         /\ \A i \in 1..n : TextOf(classes)[i].class = classes[i]
<1>1. TextOf(classes) = [i \in 1..n |-> [class |-> classes[i], at |-> i]]
  BY DEF TextOf
<1>2. \A i \in 1..n : TextOf(classes)[i] = [class |-> classes[i], at |-> i]
  BY <1>1
<1>3. ASSUME NEW i \in 1..n  PROVE TextOf(classes)[i] \in [class : K, at : Nat]
  <2>1. classes[i] \in K /\ i \in Nat
    OBVIOUS
  <2>2. [class |-> classes[i], at |-> i] \in [class : K, at : Nat]
    BY <2>1
  <2> QED BY <1>2, <2>2
<1>4. TextOf(classes) = [i \in 1..n |-> TextOf(classes)[i]]
  BY <1>1
<1> DEFINE T == [class : K, at : Nat]
<1> HIDE DEF T
<1>6. \A i \in 1..n : TextOf(classes)[i] \in T
  BY <1>3 DEF T
<1>5. TextOf(classes) \in Seq(T) /\ Len(TextOf(classes)) = n
  BY <1>4, <1>6, SequenceOf
<1> QED BY <1>2, <1>5 DEF T

LEMMA WellFormedIsPaired ==
  ASSUME NEW m \in Nat, NEW classes \in TextsOfLength(m)
  PROVE  TextOf(classes) \in Seq(Characters) /\ Paired(TextOf(classes))
<1> DEFINE text == TextOf(classes)
<1>1. classes \in [1..m -> Classes] /\ WellFormed(classes)
  BY DEF TextsOfLength
<1>2. text \in Seq(Characters) /\ Len(text) = m /\ \A i \in 1..m : text[i].class = classes[i]
  BY <1>1, TextsAreTyped DEF Characters
<1>3. ASSUME NEW i \in 1..m, classes[i] = "high"
      PROVE  i < m /\ classes[i + 1] = "low" /\ i + 1 \in 1..m
  <2>1. DOMAIN classes = 1..m /\ Len(classes) = m
    BY <1>1
  <2>2. i < Len(classes) /\ classes[i + 1] = "low"
    BY <1>1, <1>3, <2>1 DEF WellFormed
  <2> QED BY <2>1, <2>2
<1> HIDE DEF text
<1>4. ASSUME NEW i \in 1..m, text[i].class = "high"
      PROVE  i < m /\ text[i + 1].class = "low"
  <2>1. classes[i] = "high"
    BY <1>2, <1>4
  <2>2. i < m /\ classes[i + 1] = "low" /\ i + 1 \in 1..m
    BY <1>3, <2>1
  <2> DEFINE j == i + 1
  <2>3. j \in 1..m /\ classes[j] = "low"
    BY <2>2
  <2> HIDE DEF j
  <2>4. text[j].class = "low"
    BY <1>2, <2>3
  <2> QED BY <2>2, <2>4 DEF j
<1>5. Paired(text)
  BY <1>2, <1>4 DEF Paired
<1> QED BY <1>2, <1>5 DEF text

LEMMA SplitInvInit == SourceInit => SplitInv
<1> SUFFICES ASSUME SourceInit PROVE SplitInv
  OBVIOUS
<1>1. PICK n \in 0..MaxText : \E m \in 0..MaxText - n :
        \E note \in TextsOfLength(n), text \in TextsOfLength(m) :
          source = [note |-> TextOf(note), text |-> TextOf(text)]
  BY DEF SourceInit
<1>2. PICK m \in 0..MaxText - n :
        \E note \in TextsOfLength(n), text \in TextsOfLength(m) :
          source = [note |-> TextOf(note), text |-> TextOf(text)]
  BY <1>1
<1>3. PICK note \in TextsOfLength(n), text \in TextsOfLength(m) :
        source = [note |-> TextOf(note), text |-> TextOf(text)]
  BY <1>2
<1>4. n \in Nat /\ m \in Nat
  OBVIOUS
<1>5. /\ TextOf(note) \in Seq(Characters) /\ Paired(TextOf(note))
      /\ TextOf(text) \in Seq(Characters) /\ Paired(TextOf(text))
  BY <1>4, WellFormedIsPaired
<1>6. source \in Sources(Characters) /\ Paired(source.note) /\ Paired(source.text)
  BY <1>3, <1>5 DEF Sources
<1>7. chunkSize \in Nat \ {0, 1} /\ chunks = <<>>
  BY SourceTextAssumption DEF SourceInit
<1> QED BY <1>6, <1>7 DEF SplitInv

LEMMA SplitInvImplies == SplitInv => SplitIsLossless
<1> SUFFICES ASSUME SplitInv, chunks # <<>> PROVE SplitIsLossless
  BY DEF SplitIsLossless
<1>1. source \in Sources(Characters) /\ chunkSize \in Nat \ {0} /\ chunkSize \in Nat \ {0, 1}
      /\ Paired(source.note) /\ Paired(source.text)
      /\ chunks = splitNoteSources(source, chunkSize)
  BY DEF SplitInv
<1>2. Cuttable(source.note, chunkSize) /\ Cuttable(source.text, chunkSize)
  BY <1>1 DEF Cuttable
<1>3. LET cs == splitNoteSources(source, chunkSize)
      IN /\ cs \in Seq(ChunksOf(Characters, source, chunkSize)) /\ cs # <<>>
         /\ Adds("note", cs, <<>>, source.note)
         /\ Adds("text", cs, <<>>, source.text)
         /\ \A k \in 1..Len(cs) : cs[k].note = <<>> /\ cs[k].text = <<>> => cs = <<source>>
  BY <1>1, <1>2, SourceIsSplit
<1>4. /\ chunks \in Seq(ChunksOf(Characters, source, chunkSize))
      /\ Adds("note", chunks, <<>>, source.note)
      /\ Adds("text", chunks, <<>>, source.text)
      /\ \A k \in 1..Len(chunks) : chunks[k].note = <<>>
         /\ chunks[k].text = <<>> => chunks = <<source>>
  BY <1>1, <1>3
<1>5. Len(chunks) \in Nat /\ DOMAIN chunks = 1..Len(chunks)
  BY <1>4
<1>6. Joined("note", chunks) = source.note /\ Joined("text", chunks) = source.text
  BY <1>4, <1>5, JoinedAdds
<1>7. ASSUME NEW i \in DOMAIN chunks
      PROVE  /\ Len(chunks[i].note) + Len(chunks[i].text) <= chunkSize
             /\ Len(chunks) > 1 => chunks[i].note \o chunks[i].text # <<>>
             /\ chunks[i].note # <<>> => Last(chunks[i].note).class # "high"
             /\ chunks[i].text # <<>> => Last(chunks[i].text).class # "high"
  <2>1. chunks[i] \in ChunksOf(Characters, source, chunkSize)
    BY <1>4, <1>5
  <2>2. chunks[i].note \in Seq(Characters) /\ chunks[i].text \in Seq(Characters)
        /\ Len(chunks[i].note) + Len(chunks[i].text) <= chunkSize
        /\ (chunks[i].note # <<>> => Last(chunks[i].note).class # "high")
        /\ (chunks[i].text # <<>> => Last(chunks[i].text).class # "high")
    BY <1>1, <2>1 DEF ChunksOf, Sources
  <2>3. ASSUME Len(chunks) > 1, chunks[i].note \o chunks[i].text = <<>>  PROVE FALSE
    <3>1. chunks[i].note = <<>> /\ chunks[i].text = <<>>
      BY <2>2, <2>3, ConcatEqualIffEmpty
    <3>2. chunks = <<source>>
      BY <1>4, <1>5, <3>1
    <3> QED BY <2>3, <3>2
  <2> QED BY <2>2, <2>3
<1> QED BY <1>6, <1>7 DEF SplitIsLossless

\* However a text is cut for the model, no character of the note or of the transcript is lost,
\* repeated or moved, the chunks are within the budget and none is empty, and no surrogate pair is
\* torn: splitNoteSources, for sources of any length and budgets of any size but 1.
THEOREM SplitLosesNothing == SourceSpec => []SplitIsLossless
<1>1. SourceInit => SplitInv
  BY SplitInvInit
<1>2. SplitInv /\ [SplitSource]_sourceVars => SplitInv'
  <2>1. ASSUME SplitInv, SplitSource  PROVE SplitInv'
    BY <2>1 DEF SplitInv, SplitSource
  <2>2. ASSUME SplitInv, UNCHANGED sourceVars  PROVE SplitInv'
    BY <2>2 DEF SplitInv, sourceVars
  <2> QED BY <2>1, <2>2
<1>3. SplitInv => SplitIsLossless
  BY SplitInvImplies
<1> QED BY <1>1, <1>2, <1>3, PTL DEF SourceSpec

(***************************************************************************)
(* More about what records add up to.                                      *)
(***************************************************************************)
\* Texts before and after.
LEMMA AddsAfter ==
  ASSUME NEW C, NEW field, NEW cs, Len(cs) \in Nat, NEW a \in Seq(C), NEW b,
         \A k \in 1..Len(cs) : cs[k][field] \in Seq(C),
         Adds(field, cs, <<>>, b)
  PROVE  Adds(field, cs, a, a \o b) /\ b \in Seq(C)
<1> DEFINE n == Len(cs)
<1>1. PICK g : g[0] = <<>> /\ g[n] = b /\ \A k \in 1..n : g[k] = g[k - 1] \o cs[k][field]
  BY DEF Adds
<1>2. n \in Nat /\ \A k \in 1..n : cs[k][field] \in Seq(C)
  OBVIOUS
<1> HIDE DEF n
<1> DEFINE S == {k \in Nat : k \in 0..n => g[k] \in Seq(C)}
<1>3. ASSUME NEW j \in 1..n, g[j - 1] \in Seq(C)  PROVE g[j] \in Seq(C)
  <2> DEFINE u == g[j - 1]
             v == cs[j][field]
  <2>1. u \in Seq(C) /\ v \in Seq(C) /\ g[j] = u \o v
    BY <1>1, <1>2, <1>3
  <2> HIDE DEF u, v
  <2>2. u \o v \in Seq(C)
    BY <2>1, ConcatProperties
  <2> QED BY <2>1, <2>2
<1>4. 0 \in S
  <2>1. <<>> \in Seq(C)
    OBVIOUS
  <2> QED BY <1>1, <2>1
<1>5. ASSUME NEW k \in Nat, k \in S  PROVE k + 1 \in S
  <2>1. CASE k + 1 \in 0..n
    <3> DEFINE j == k + 1
    <3>1. j \in 1..n /\ j - 1 = k /\ g[k] \in Seq(C)
      BY <1>2, <1>5, <2>1
    <3> HIDE DEF j
    <3>2. g[j] \in Seq(C)
      BY <1>3, <3>1
    <3> QED BY <3>2 DEF j
  <2> QED BY <2>1
<1>6. Nat \subseteq S
  <2> HIDE DEF S
  <2> QED BY <1>4, <1>5, InductionOverSet
<1>7. ASSUME NEW k \in 0..n  PROVE g[k] \in Seq(C)
  <2>1. k \in S
    BY <1>6
  <2> QED BY <2>1
<1> HIDE DEF S
<1> DEFINE h == [k \in 0..n |-> a \o g[k]]
<1>8. h[0] = a /\ h[n] = a \o b
  <2>1. a \o <<>> = a
    BY ConcatEmptySeq
  <2>2. 0 \in 0..n /\ n \in 0..n
    BY <1>2
  <2> QED BY <1>1, <2>1, <2>2
<1>9. ASSUME NEW k \in 1..n  PROVE h[k] = h[k - 1] \o cs[k][field]
  <2> DEFINE u == g[k - 1]
             v == cs[k][field]
  <2>1. k - 1 \in 0..n /\ k \in 0..n
    BY <1>2
  <2>2. u \in Seq(C) /\ v \in Seq(C) /\ g[k] = u \o v
    BY <1>1, <1>2, <1>7, <2>1
  <2>3. h[k] = a \o g[k] /\ h[k - 1] = a \o u
    BY <2>1
  <2> HIDE DEF u, v, h
  <2>4. (a \o u) \o v = a \o (u \o v)
    <3>1. u \in Seq(C)
      BY <2>2
    <3>2. v \in Seq(C)
      BY <2>2
    <3> QED BY <3>1, <3>2, ConcatAssociative
  <2>5. h[k] = h[k - 1] \o v
    BY <2>2, <2>3, <2>4
  <2> QED BY <2>5 DEF v
<1> HIDE DEF h
<1>10. b \in Seq(C)
  BY <1>1, <1>2, <1>7
<1>11. \E x : x[0] = a /\ x[n] = a \o b /\ \A k \in 1..n : x[k] = x[k - 1] \o cs[k][field]
  BY <1>8, <1>9
<1> QED BY <1>10, <1>11 DEF Adds, n

\* All but the first.
LEMMA AddsTail ==
  ASSUME NEW T, NEW field, NEW cs \in Seq(T), cs # <<>>, NEW a, NEW b, Adds(field, cs, a, b)
  PROVE  Adds(field, Tail(cs), a \o cs[1][field], b)
<1> DEFINE n == Len(cs)
           rest == Tail(cs)
<1>1. PICK g : g[0] = a /\ g[n] = b /\ \A k \in 1..n : g[k] = g[k - 1] \o cs[k][field]
  BY DEF Adds
<1>2. n \in Nat \ {0} /\ Len(rest) = n - 1 /\ \A k \in 1..(n - 1) : rest[k] = cs[k + 1]
  OBVIOUS
<1> HIDE DEF n, rest
<1> DEFINE h == [k \in 0..(n - 1) |-> g[k + 1]]
<1>3. h[0] = a \o cs[1][field]
  <2>1. 1 \in 1..n /\ 0 \in 0..(n - 1) /\ 0 + 1 = 1 /\ 1 - 1 = 0
    BY <1>2
  <2>2. h[0] = g[1]
    BY <2>1
  <2>3. g[1] = g[1 - 1] \o cs[1][field]
    BY <1>1, <2>1
  <2> HIDE DEF h
  <2> QED BY <1>1, <2>1, <2>2, <2>3, Zenon
<1>4. h[n - 1] = b
  <2>1. \A k \in 0..(n - 1) : h[k] = g[k + 1]
    OBVIOUS
  <2> DEFINE j == n - 1
  <2>2. j \in 0..(n - 1) /\ j + 1 = n
    BY <1>2
  <2> HIDE DEF h, j
  <2>3. h[j] = b
    BY <1>1, <2>1, <2>2
  <2> QED BY <2>3 DEF j
<1>5. ASSUME NEW k \in 1..(n - 1)  PROVE h[k] = h[k - 1] \o rest[k][field]
  <2> DEFINE j == k + 1
  <2>1. j \in 1..n /\ j - 1 = k /\ k \in 0..(n - 1) /\ k - 1 \in 0..(n - 1) /\ k - 1 + 1 = k
    BY <1>2
  <2>2. h[k] = g[j] /\ h[k - 1] = g[k] /\ rest[k] = cs[j]
    BY <1>2, <2>1
  <2> HIDE DEF h, j
  <2>3. g[j] = g[j - 1] \o cs[j][field]
    BY <1>1, <2>1
  <2>4. g[j] = g[k] \o cs[j][field]
    BY <2>1, <2>3, Zenon
  <2> QED BY <2>2, <2>4
<1> HIDE DEF h
<1>6. \E x : /\ x[0] = a \o cs[1][field] /\ x[Len(rest)] = b
             /\ \A k \in 1..Len(rest) : x[k] = x[k - 1] \o rest[k][field]
  BY <1>2, <1>3, <1>4, <1>5
<1> QED BY <1>6 DEF Adds, rest

LEMMA AddsOne ==
  ASSUME NEW field, NEW c, NEW a
  PROVE  Adds(field, <<c>>, a, a \o c[field])
<1> DEFINE cs == <<c>>
           g == [k \in 0..1 |-> IF k = 0 THEN a ELSE a \o c[field]]
<1>1. Len(cs) = 1 /\ cs[1] = c /\ g[0] = a /\ g[1] = a \o c[field]
  OBVIOUS
<1>2. \A k \in 1..1 : k = 1 /\ k - 1 = 0
  OBVIOUS
<1> HIDE DEF cs, g
<1>3. \A k \in 1..1 : g[k] = g[k - 1] \o cs[k][field]
  BY <1>1, <1>2
<1> QED BY <1>1, <1>3 DEF Adds, cs

LEMMA AddsTwo ==
  ASSUME NEW C, NEW field, NEW cs, Len(cs) = 2, cs[1][field] \in Seq(C), cs[2][field] \in Seq(C)
  PROVE  Adds(field, cs, <<>>, cs[1][field] \o cs[2][field])
<1> DEFINE u == cs[1][field]
           v == cs[2][field]
           g == [k \in 0..2 |-> IF k = 0 THEN <<>> ELSE IF k = 1 THEN u ELSE u \o v]
<1>1. u \in Seq(C) /\ <<>> \o u = u
  BY ConcatEmptySeq
<1> HIDE DEF u, v
<1>2. g[0] = <<>> /\ g[1] = u /\ g[2] = u \o v
  OBVIOUS
<1>3. \A k \in 1..2 : (k = 1 /\ k - 1 = 0) \/ (k = 2 /\ k - 1 = 1)
  OBVIOUS
<1> HIDE DEF g
<1>4. ASSUME NEW k \in 1..2  PROVE g[k] = g[k - 1] \o cs[k][field]
  <2>1. CASE k = 1 /\ k - 1 = 0
    BY <1>1, <1>2, <2>1, Zenon DEF u
  <2>2. CASE k = 2 /\ k - 1 = 1
    BY <1>2, <2>2, Zenon DEF v
  <2> QED BY <1>3, <2>1, <2>2
<1>5. \E x : /\ x[0] = <<>> /\ x[2] = u \o v
             /\ \A k \in 1..2 : x[k] = x[k - 1] \o cs[k][field]
  BY <1>2, <1>4
<1> QED BY <1>5 DEF Adds, u, v

(***************************************************************************)
(* The minutes of MinutesGeneration.                                       *)
(***************************************************************************)
PlainCharacters == [class : {"plain"}, at : Nat]
PlainSources == Sources(PlainCharacters)
SourcePieces == [source : PlainSources, depth : Nat]
Sayings == {"text", "title", "marked", "nothing"}
SourceParts ==
    [note : Seq(PlainCharacters), text : Seq(PlainCharacters), depth : Nat, says : Sayings]
ChunkWorkers == [todo : Seq(SourcePieces), parts : Seq(SourceParts), throttled : Nat,
                 state : {"busy", "done", "failed", "truncated"}]
TextFields == {"note", "text"}

SourcesOf(todo) == [i \in 1..Len(todo) |-> todo[i].source]

\* Unless it failed, the worker has extracted the beginning of the chunk, and the rest is to do.
WorksOn(w, chunk) ==
    w.state \in {"busy", "done"} =>
      /\ w.state = "done" <=> w.todo = <<>>
      /\ \A f \in TextFields :
           \E so_far : Adds(f, w.parts, <<>>, so_far) /\ Adds(f, SourcesOf(w.todo), so_far, chunk[f])

\* A piece that is not a half is the whole chunk, and so the only part of it; only the older prompt
\* is answered with nothing.
LeavesOut(w, by) ==
    /\ \A j \in 1..Len(w.todo) : w.todo[j].depth = 0 => w.parts = <<>> /\ Len(w.todo) = 1
    /\ \A i \in 1..Len(w.parts) : w.parts[i].says = "nothing" =>
         by = "legacy" /\ (w.parts[i].depth > 0 \/ (w.todo = <<>> /\ Len(w.parts) = 1))

\* Nothing is left out but halves, and those by the older prompt.
HalvesAtMost(parts, by) ==
    \A i \in 1..Len(parts) : parts[i].says = "nothing" => by = "legacy" /\ parts[i].depth > 0

\* The parts are what the first n chunks of the source hold.
MergedUpTo(f, cs, whole, parts, n) ==
    \E g : /\ g[0] = <<>> /\ g[Len(cs)] = whole[f]
           /\ \A k \in 1..Len(cs) : g[k] = g[k - 1] \o cs[k][f]
           /\ Adds(f, parts, <<>>, g[n])

GenTypes ==
    /\ session \in PlainSources
    /\ merged = [parts |-> merged.parts, title |-> merged.title] /\ merged.parts \in Seq(SourceParts)

GenStart == stage = "start" => taken = 0 /\ workers = <<>> /\ merged = NothingMerged

GenChunked ==
    stage \in {"extract", "overview", "title", "judge", "legacy"} =>
      /\ sourceChunks \in Seq(PlainSources)
      /\ \A f \in TextFields : Adds(f, sourceChunks, <<>>, session[f])

GenExtracting ==
    stage \in {"extract", "legacy"} =>
      /\ taken \in 0..Len(sourceChunks)
      /\ workers \in Seq(ChunkWorkers) /\ Len(workers) \in 0..2 /\ Len(workers) <= taken
      /\ stage = "legacy" => Len(workers) <= 1
      /\ \A i \in 1..Len(workers) : /\ WorksOn(workers[i], sourceChunks[taken - Len(workers) + i])
                                   /\ LeavesOut(workers[i], stage)
      /\ \A f \in TextFields : MergedUpTo(f, sourceChunks, session, merged.parts, taken - Len(workers))
      /\ HalvesAtMost(merged.parts, stage)

GenMerged ==
    stage \in {"overview", "title", "judge"} =>
      /\ \A f \in TextFields : Adds(f, merged.parts, <<>>, session[f])
      /\ HalvesAtMost(merged.parts, "extract")

GenContent ==
    content.kind \in {"structured", "legacy"} =>
      /\ content.parts \in Seq(SourceParts)
      /\ \A f \in TextFields : Adds(f, content.parts, <<>>, session[f])
      /\ HalvesAtMost(content.parts, content.kind)

GenInv == GenTypes /\ GenStart /\ GenChunked /\ GenExtracting /\ GenMerged /\ GenContent

LEMMA PlainIsCuttable ==
  ASSUME NEW text \in Seq(PlainCharacters), NEW maxChars \in Nat \ {0}
  PROVE  Cuttable(text, maxChars)
<1>1. ASSUME NEW i \in 1..Len(text)  PROVE text[i].class # "high"
  <2>1. text[i] \in PlainCharacters
    OBVIOUS
  <2> QED BY <2>1 DEF PlainCharacters
<1> QED BY <1>1 DEF Cuttable

\* The cut of a plain source.
LEMMA PlainSourceIsSplit ==
  ASSUME NEW whole \in PlainSources, NEW maxChars \in Nat \ {0}
  PROVE  LET cs == splitNoteSources(whole, maxChars)
         IN /\ cs \in Seq(PlainSources) /\ cs # <<>>
            /\ \A f \in TextFields : Adds(f, cs, <<>>, whole[f])
<1> DEFINE cs == splitNoteSources(whole, maxChars)
           T == ChunksOf(PlainCharacters, whole, maxChars)
<1>1. whole.note \in Seq(PlainCharacters) /\ whole.text \in Seq(PlainCharacters)
  BY DEF PlainSources, Sources
<1>2. Cuttable(whole.note, maxChars) /\ Cuttable(whole.text, maxChars)
  BY <1>1, PlainIsCuttable
<1>3. /\ cs \in Seq(T) /\ cs # <<>>
      /\ Adds("note", cs, <<>>, whole.note)
      /\ Adds("text", cs, <<>>, whole.text)
  BY <1>2, SourceIsSplit DEF PlainSources
<1>4. T \subseteq PlainSources
  BY DEF ChunksOf, PlainSources
<1> HIDE DEF cs, T
<1>5. cs \in Seq(PlainSources)
  BY <1>3, <1>4
<1>6. \A f \in TextFields : Adds(f, cs, <<>>, whole[f])
  BY <1>3 DEF TextFields
<1> QED BY <1>3, <1>5, <1>6 DEF cs

LEMMA AddsOfNone ==
  ASSUME NEW field, NEW a, NEW b, Adds(field, <<>>, a, b)
  PROVE  a = b
BY DEF Adds

LEMMA FieldsOfSources ==
  ASSUME NEW f \in TextFields
  PROVE  /\ \A c \in PlainSources : c[f] \in Seq(PlainCharacters)
         /\ \A p \in SourceParts : p[f] \in Seq(PlainCharacters)
BY DEF TextFields, PlainSources, Sources, SourceParts

LEMMA SourcesOfPieces ==
  ASSUME NEW todo \in Seq(SourcePieces)
  PROVE  /\ SourcesOf(todo) \in Seq(PlainSources) /\ Len(SourcesOf(todo)) = Len(todo)
         /\ \A i \in 1..Len(todo) : SourcesOf(todo)[i] = todo[i].source
<1>1. Len(todo) \in Nat /\ \A i \in 1..Len(todo) : todo[i].source \in PlainSources
  <2>1. \A i \in 1..Len(todo) : todo[i] \in SourcePieces
    OBVIOUS
  <2> QED BY <2>1 DEF SourcePieces
<1>2. \A i \in 1..Len(todo) : SourcesOf(todo)[i] = todo[i].source
  BY DEF SourcesOf
<1>3. SourcesOf(todo) = [i \in 1..Len(todo) |-> SourcesOf(todo)[i]]
  BY DEF SourcesOf
<1> QED BY <1>1, <1>2, <1>3, SequenceOf

\* A new worker has its chunk still to do.
LEMMA NewWorkerWorks ==
  ASSUME NEW c \in PlainSources
  PROVE  Worker(<<Whole(c)>>) \in ChunkWorkers /\ WorksOn(Worker(<<Whole(c)>>), c)
<1> DEFINE todo == <<Whole(c)>>
           w == Worker(todo)
<1>1. Whole(c) \in SourcePieces /\ Whole(c).source = c
  BY DEF Whole, SourcePieces
<1>2. todo \in Seq(SourcePieces) /\ Len(todo) = 1 /\ todo[1] = Whole(c) /\ todo # <<>>
  BY <1>1
<1> HIDE DEF todo
<1>3. w.todo = todo /\ w.parts = <<>> /\ w.state = "busy" /\ w \in ChunkWorkers
  BY <1>2 DEF Worker, ChunkWorkers
<1>4. ASSUME NEW f \in TextFields
      PROVE  Adds(f, <<>>, <<>>, <<>>) /\ Adds(f, SourcesOf(todo), <<>>, c[f])
  <2>1. Adds(f, <<>>, <<>>, <<>>)
    BY AddsNothing
  <2> DEFINE ss == SourcesOf(todo)
  <2>2. Len(ss) = 1 /\ ss[1] = c
    BY <1>1, <1>2, SourcesOfPieces
  <2>3. c[f] \in Seq(PlainCharacters)
    BY FieldsOfSources
  <2> HIDE DEF ss
  <2>4. Len(ss) \in Nat \ {0} /\ ss[1][f] = c[f] /\ \A k \in 2..Len(ss) : ss[k][f] = <<>>
    BY <2>2
  <2>5. Adds(f, ss, <<>>, c[f])
    BY <2>3, <2>4, AddsFirst
  <2> QED BY <2>1, <2>5 DEF ss
<1> HIDE DEF w
<1>5. WorksOn(w, c)
  BY <1>2, <1>3, <1>4 DEF WorksOn
<1> QED BY <1>3, <1>5 DEF w, todo

LEMMA SourcesOfTail ==
  ASSUME NEW todo \in Seq(SourcePieces), todo # <<>>
  PROVE  /\ Tail(todo) \in Seq(SourcePieces)
         /\ SourcesOf(Tail(todo)) = Tail(SourcesOf(todo))
<1> DEFINE n == Len(todo)
           rest == Tail(todo)
           ss == SourcesOf(todo)
<1>1. n \in Nat \ {0} /\ rest \in Seq(SourcePieces) /\ Len(rest) = n - 1
      /\ \A k \in 1..(n - 1) : rest[k] = todo[k + 1]
  OBVIOUS
<1>2. ss \in Seq(PlainSources) /\ Len(ss) = n /\ \A i \in 1..n : ss[i] = todo[i].source
  BY SourcesOfPieces
<1>3. SourcesOf(rest) \in Seq(PlainSources) /\ Len(SourcesOf(rest)) = Len(rest)
      /\ \A i \in 1..Len(rest) : SourcesOf(rest)[i] = rest[i].source
  <2> HIDE DEF rest
  <2> QED BY <1>1, SourcesOfPieces
<1> HIDE DEF ss, n, rest
<1>4. Tail(ss) \in Seq(PlainSources) /\ Len(Tail(ss)) = n - 1
      /\ \A k \in 1..(n - 1) : Tail(ss)[k] = ss[k + 1]
  BY <1>1, <1>2
<1>5. ASSUME NEW k \in 1..(n - 1)  PROVE SourcesOf(rest)[k] = Tail(ss)[k]
  <2> DEFINE j == k + 1
  <2>1. j \in 1..n
    BY <1>1
  <2>2. SourcesOf(rest)[k] = rest[k].source /\ rest[k] = todo[j] /\ Tail(ss)[k] = ss[j]
    BY <1>1, <1>3, <1>4
  <2> HIDE DEF j
  <2> QED BY <1>2, <2>1, <2>2
<1>6. SourcesOf(rest) = Tail(ss)
  <2> DEFINE x == SourcesOf(rest)
             y == Tail(ss)
  <2>1. x \in Seq(PlainSources) /\ y \in Seq(PlainSources) /\ Len(x) = Len(y)
        /\ \A k \in 1..Len(x) : x[k] = y[k]
    BY <1>1, <1>3, <1>4, <1>5
  <2> HIDE DEF x, y
  <2>2. x = y
    BY <2>1, SeqEqual
  <2> QED BY <2>2 DEF x, y
<1> QED BY <1>1, <1>6 DEF rest, ss

LEMMA SourcesOfBoth ==
  ASSUME NEW a \in Seq(SourcePieces), NEW b \in Seq(SourcePieces)
  PROVE  SourcesOf(a \o b) = SourcesOf(a) \o SourcesOf(b)
<1> DEFINE n == Len(a)
           m == Len(b)
           both == a \o b
           x == SourcesOf(a)
           y == SourcesOf(b)
           z == SourcesOf(both)
<1>1. n \in Nat /\ m \in Nat
  OBVIOUS
<1>2. both \in Seq(SourcePieces) /\ Len(both) = n + m
      /\ \A k \in 1..(n + m) : both[k] = IF k <= n THEN a[k] ELSE b[k - n]
  BY ConcatProperties, Zenon
<1>3. x \in Seq(PlainSources) /\ Len(x) = n /\ \A k \in 1..n : x[k] = a[k].source
  BY SourcesOfPieces
<1>4. y \in Seq(PlainSources) /\ Len(y) = m /\ \A k \in 1..m : y[k] = b[k].source
  BY SourcesOfPieces
<1>5. z \in Seq(PlainSources) /\ Len(z) = Len(both) /\ \A k \in 1..Len(both) : z[k] = both[k].source
  <2> HIDE DEF both
  <2> QED BY <1>2, SourcesOfPieces
<1> HIDE DEF x, y, z, both, n, m
<1>6. /\ x \o y \in Seq(PlainSources) /\ Len(x \o y) = Len(x) + Len(y)
      /\ \A k \in 1..(Len(x) + Len(y)) : (x \o y)[k] = IF k <= Len(x) THEN x[k] ELSE y[k - Len(x)]
  <2>1. x \in Seq(PlainSources) /\ y \in Seq(PlainSources)
    BY <1>3, <1>4
  <2> QED BY <2>1, ConcatProperties, Zenon
<1>7. ASSUME NEW k \in 1..(n + m)  PROVE z[k] = (x \o y)[k]
  <2> DEFINE xy == x \o y
  <2>1. z[k] = both[k].source
    BY <1>2, <1>5
  <2>2. xy[k] = IF k <= n THEN x[k] ELSE y[k - n]
    BY <1>3, <1>4, <1>6
  <2> HIDE DEF xy
  <2>3. CASE k <= n
    <3>1. k \in 1..n
      BY <1>1, <2>3
    <3> QED BY <1>2, <1>3, <2>1, <2>2, <2>3, <3>1 DEF xy
  <2>4. CASE ~(k <= n)
    <3> DEFINE j == k - n
    <3>1. j \in 1..m
      BY <1>1, <2>4
    <3>2. both[k] = b[j] /\ xy[k] = y[j]
      BY <1>2, <2>2, <2>4
    <3> HIDE DEF j
    <3> QED BY <1>4, <2>1, <3>1, <3>2 DEF xy
  <2> QED BY <2>3, <2>4
<1>8. z = x \o y
  <2> DEFINE xy == x \o y
  <2>1. xy \in Seq(PlainSources) /\ Len(xy) = n + m /\ z \in Seq(PlainSources) /\ Len(z) = n + m
        /\ \A k \in 1..Len(z) : z[k] = xy[k]
    BY <1>2, <1>3, <1>4, <1>5, <1>6, <1>7
  <2> HIDE DEF xy
  <2>2. z = xy
    BY <2>1, SeqEqual
  <2> QED BY <2>2 DEF xy
<1> QED BY <1>8 DEF x, y, z, both

LEMMA FirstAndRest ==
  ASSUME NEW T, NEW s \in Seq(T), s # <<>>
  PROVE  /\ Head(s) \in T /\ Head(s) = s[1] /\ Tail(s) \in Seq(T)
         /\ Len(s) \in Nat \ {0} /\ Len(Tail(s)) = Len(s) - 1
         /\ Tail(s) = <<>> <=> Len(s) = 1
<1>1. Len(s) \in Nat \ {0} /\ Head(s) = s[1] /\ Tail(s) \in Seq(T) /\ Len(Tail(s)) = Len(s) - 1
  OBVIOUS
<1>2. s[1] \in T
  BY <1>1
<1> DEFINE rest == Tail(s)
<1>3. rest \in Seq(T) /\ Len(rest) = Len(s) - 1
  BY <1>1
<1> HIDE DEF rest
<1>4. rest = <<>> <=> Len(rest) = 0
  BY <1>3, EmptySeq
<1>5. rest = <<>> <=> Len(s) = 1
  BY <1>1, <1>3, <1>4
<1> QED BY <1>1, <1>2, <1>5 DEF rest

\* The first piece is extracted.
LEMMA DoneWorks ==
  ASSUME NEW w \in ChunkWorkers, w.state = "busy", NEW c \in PlainSources, WorksOn(w, c),
         NEW says \in Sayings
  PROVE  LET v == Done(w, <<Part(Head(w.todo), says)>>)
         IN v \in ChunkWorkers /\ WorksOn(v, c)
<1> DEFINE todo == w.todo
           piece == Head(todo)
           part == Part(piece, says)
           v == Done(w, <<part>>)
           ss == SourcesOf(todo)
<1>1. todo \in Seq(SourcePieces) /\ w.parts \in Seq(SourceParts) /\ w.throttled \in Nat /\ todo # <<>>
      /\ Len(todo) \in Nat \ {0}
  BY DEF ChunkWorkers, WorksOn
<1>2. piece \in SourcePieces /\ piece = todo[1] /\ piece.source \in PlainSources /\ piece.depth \in Nat
  <2> HIDE DEF todo
  <2>1. Head(todo) \in SourcePieces /\ Head(todo) = todo[1]
    BY <1>1, FirstAndRest
  <2>2. \A p \in SourcePieces : p.source \in PlainSources /\ p.depth \in Nat
    BY DEF SourcePieces
  <2> QED BY <2>1, <2>2
<1>3. part \in SourceParts /\ \A f \in TextFields : part[f] = piece.source[f]
  <2> HIDE DEF piece
  <2> QED BY <1>2 DEF Part, SourceParts, PlainSources, Sources, TextFields
<1>4. v = [todo |-> Tail(todo), parts |-> w.parts \o <<part>>, throttled |-> 0,
           state |-> IF Len(todo) = 1 THEN "done" ELSE "busy"]
  BY DEF Done
<1>5. Tail(todo) \in Seq(SourcePieces) /\ SourcesOf(Tail(todo)) = Tail(ss)
  <2> HIDE DEF todo
  <2> QED BY <1>1, SourcesOfTail
<1>6. Tail(todo) = <<>> <=> Len(todo) = 1
  <2> HIDE DEF todo
  <2> QED BY <1>1, FirstAndRest
<1> HIDE DEF part
<1> DEFINE one == <<part>>
<1>7. one \in Seq(SourceParts) /\ w.parts \o one \in Seq(SourceParts)
  <2>1. one \in Seq(SourceParts)
    BY <1>3
  <2> HIDE DEF one
  <2> QED BY <1>1, <2>1, ConcatProperties
<1>8. v \in ChunkWorkers
  <2> DEFINE rest == Tail(todo)
             all == w.parts \o one
             state == IF Len(todo) = 1 THEN "done" ELSE "busy"
  <2>1. rest \in Seq(SourcePieces) /\ all \in Seq(SourceParts)
        /\ state \in {"busy", "done", "failed", "truncated"}
    BY <1>5, <1>7
  <2>2. v = [todo |-> rest, parts |-> all, throttled |-> 0, state |-> state]
    BY <1>4
  <2> HIDE DEF rest, all, state, v
  <2> QED BY <2>1, <2>2 DEF ChunkWorkers
<1>9. ASSUME NEW f \in TextFields
      PROVE  \E so_far : Adds(f, w.parts \o one, <<>>, so_far) /\ Adds(f, Tail(ss), so_far, c[f])
  <2>1. PICK x : Adds(f, w.parts, <<>>, x) /\ Adds(f, ss, x, c[f])
    BY DEF WorksOn
  <2>2. ss \in Seq(PlainSources) /\ ss # <<>> /\ ss[1] = piece.source
    <3>1. ss \in Seq(PlainSources) /\ Len(ss) = Len(todo) /\ ss[1] = todo[1].source
      <4>1. 1 \in 1..Len(todo)
        BY <1>1
      <4> HIDE DEF todo
      <4> QED BY <1>1, <4>1, SourcesOfPieces
    <3> HIDE DEF ss, todo, piece
    <3> QED BY <1>1, <1>2, <3>1
  <2>3. Adds(f, Tail(ss), x \o ss[1][f], c[f])
    <3> HIDE DEF ss
    <3> QED BY <2>1, <2>2, AddsTail
  <2>4. Adds(f, one, x, x \o part[f])
    BY AddsOne
  <2>5. Adds(f, w.parts \o one, <<>>, x \o part[f])
    <3> HIDE DEF one
    <3> QED BY <1>1, <1>7, <2>1, <2>4, AddsBoth
  <2>6. part[f] = ss[1][f]
    <3> HIDE DEF piece, ss
    <3> QED BY <1>3, <2>2
  <2> HIDE DEF one, ss
  <2> QED BY <2>3, <2>5, <2>6
<1>10. WorksOn(v, c)
  <2>1. v.todo = Tail(todo) /\ v.parts = w.parts \o one
        /\ v.state = IF Len(todo) = 1 THEN "done" ELSE "busy"
    <3> HIDE DEF v
    <3> QED BY <1>4
  <2> HIDE DEF v, todo, one, ss
  <2>2. v.state = "done" <=> v.todo = <<>>
    BY <1>6, <2>1
  <2>3. \A f \in TextFields :
          \E so_far : Adds(f, v.parts, <<>>, so_far) /\ Adds(f, SourcesOf(v.todo), so_far, c[f])
    BY <1>5, <1>9, <2>1
  <2> QED BY <2>2, <2>3 DEF WorksOn
<1> QED BY <1>8, <1>10 DEF part

LEMMA WorkerStopped ==
  ASSUME NEW w \in ChunkWorkers, NEW s \in {"failed", "truncated"}, NEW c
  PROVE  LET v == [w EXCEPT !.state = s]
         IN v \in ChunkWorkers /\ WorksOn(v, c)
<1> DEFINE v == [w EXCEPT !.state = s]
<1>1. v \in ChunkWorkers /\ v.state = s
  BY DEF ChunkWorkers
<1> HIDE DEF v
<1>2. ~(v.state \in {"busy", "done"})
  BY <1>1
<1>3. WorksOn(v, c)
  BY <1>2 DEF WorksOn
<1> QED BY <1>1, <1>3 DEF v

LEMMA WorkerThrottled ==
  ASSUME NEW w \in ChunkWorkers, NEW c, WorksOn(w, c)
  PROVE  Throttled(w) \in ChunkWorkers /\ WorksOn(Throttled(w), c)
<1> DEFINE v == [w EXCEPT !.throttled = @ + 1]
<1>1. v \in ChunkWorkers /\ v.todo = w.todo /\ v.parts = w.parts /\ v.state = w.state
  BY DEF ChunkWorkers
<1> HIDE DEF v
<1>2. WorksOn(v, c)
  BY <1>1 DEF WorksOn
<1>3. [w EXCEPT !.state = "failed"] \in ChunkWorkers /\ WorksOn([w EXCEPT !.state = "failed"], c)
  BY WorkerStopped
<1>4. Throttled(w) = IF w.throttled < ThrottleMaxRetries THEN v ELSE [w EXCEPT !.state = "failed"]
  BY DEF Throttled, v
<1> DEFINE u == [w EXCEPT !.state = "failed"]
<1> HIDE DEF u
<1>5. u \in ChunkWorkers /\ WorksOn(u, c)
  BY <1>3 DEF u
<1>6. Throttled(w) = v \/ Throttled(w) = u
  BY <1>4 DEF u
<1> QED BY <1>1, <1>2, <1>5, <1>6

\* The halves of a piece hold what it holds.
LEMMA HalvesHold ==
  ASSUME NEW piece \in SourcePieces, Size(piece.source) \in Nat \ {0}
  PROVE  LET cs == splitNoteSources(piece.source, (Size(piece.source) + 1) \div 2)
         IN /\ Halves(piece) \in Seq(SourcePieces) /\ Halves(piece) # <<>>
            /\ SourcesOf(Halves(piece)) = cs
            /\ \A f \in TextFields : Adds(f, cs, <<>>, piece.source[f])
<1> DEFINE budget == (Size(piece.source) + 1) \div 2
           cs == splitNoteSources(piece.source, budget)
           hs == Halves(piece)
           n == Len(cs)
<1>1. piece.source \in PlainSources /\ piece.depth \in Nat
  BY DEF SourcePieces
<1>2. budget \in Nat \ {0}
  <2> DEFINE s == Size(piece.source)
  <2>1. s \in Nat \ {0}
    OBVIOUS
  <2> HIDE DEF s
  <2>2. (s + 1) \div 2 \in Nat \ {0}
    BY <2>1
  <2> QED BY <2>2 DEF s
<1> HIDE DEF budget
<1>3. cs \in Seq(PlainSources) /\ cs # <<>>
      /\ \A f \in TextFields : Adds(f, cs, <<>>, piece.source[f])
  BY <1>1, <1>2, PlainSourceIsSplit
<1>4. hs = [i \in DOMAIN cs |-> [source |-> cs[i], depth |-> piece.depth + 1]]
  BY DEF Halves, budget
<1> HIDE DEF cs, hs
<1>5. n \in Nat \ {0} /\ DOMAIN cs = 1..n
  BY <1>3, EmptySeq
<1>6. \A i \in 1..n : hs[i] = [source |-> cs[i], depth |-> piece.depth + 1]
  BY <1>4, <1>5
<1>7. ASSUME NEW i \in 1..n  PROVE hs[i] \in SourcePieces /\ hs[i].source = cs[i]
  <2> DEFINE its == cs[i]
             deeper == piece.depth + 1
  <2>1. its \in PlainSources /\ deeper \in Nat /\ hs[i] = [source |-> its, depth |-> deeper]
    BY <1>1, <1>3, <1>6
  <2> HIDE DEF its, deeper
  <2>2. hs[i] \in SourcePieces /\ hs[i].source = its
    BY <2>1 DEF SourcePieces
  <2> QED BY <2>2 DEF its
<1>8. hs = [i \in 1..n |-> hs[i]]
  BY <1>4, <1>5
<1>9. hs \in Seq(SourcePieces) /\ Len(hs) = n
  BY <1>5, <1>7, <1>8, SequenceOf
<1>10. hs # <<>>
  BY <1>5, <1>9, EmptySeq
<1>11. SourcesOf(hs) = cs
  <2> DEFINE x == SourcesOf(hs)
  <2>1. x \in Seq(PlainSources) /\ Len(x) = n /\ \A i \in 1..n : x[i] = hs[i].source
    BY <1>9, SourcesOfPieces
  <2> HIDE DEF x
  <2>2. \A i \in 1..n : x[i] = cs[i]
    BY <1>7, <2>1
  <2>3. x = cs
    BY <1>3, <2>1, <2>2, SeqEqual
  <2> QED BY <2>3 DEF x
<1> QED BY <1>3, <1>9, <1>10, <1>11 DEF hs, cs, budget

\* The first piece is halved.
LEMMA HalvedWorks ==
  ASSUME NEW w \in ChunkWorkers, w.state = "busy", NEW c \in PlainSources, WorksOn(w, c),
         Size(Head(w.todo).source) \in Nat \ {0}
  PROVE  Halved(w) \in ChunkWorkers /\ WorksOn(Halved(w), c)
<1> DEFINE todo == w.todo
           piece == Head(todo)
           ss == SourcesOf(todo)
           hs == Halves(piece)
           cs == SourcesOf(hs)
           new == hs \o Tail(todo)
<1>1. todo \in Seq(SourcePieces) /\ w.parts \in Seq(SourceParts) /\ todo # <<>>
  BY DEF ChunkWorkers, WorksOn
<1>2. piece \in SourcePieces /\ piece = todo[1] /\ piece.source \in PlainSources
  <2> HIDE DEF todo
  <2>1. Head(todo) \in SourcePieces /\ Head(todo) = todo[1]
    BY <1>1, FirstAndRest
  <2>2. \A p \in SourcePieces : p.source \in PlainSources
    BY DEF SourcePieces
  <2> QED BY <2>1, <2>2
<1>3. /\ hs \in Seq(SourcePieces) /\ hs # <<>>
      /\ \A f \in TextFields : Adds(f, cs, <<>>, piece.source[f])
  <2> HIDE DEF piece
  <2>1. Size(piece.source) \in Nat \ {0}
    BY DEF piece
  <2> QED BY <1>2, <2>1, HalvesHold
<1>4. Tail(todo) \in Seq(SourcePieces) /\ SourcesOf(Tail(todo)) = Tail(ss)
  <2> HIDE DEF todo
  <2> QED BY <1>1, SourcesOfTail
<1>5. new \in Seq(SourcePieces) /\ new # <<>> /\ SourcesOf(new) = cs \o Tail(ss)
      /\ cs \in Seq(PlainSources) /\ Tail(ss) \in Seq(PlainSources)
  <2> DEFINE rest == Tail(todo)
  <2>1. rest \in Seq(SourcePieces) /\ SourcesOf(rest) = Tail(ss)
    BY <1>4
  <2> HIDE DEF rest, hs
  <2>2. hs \o rest \in Seq(SourcePieces)
    BY <1>3, <2>1, ConcatProperties
  <2>3. hs \o rest # <<>>
    BY <1>3, <2>1, ConcatEqualIffEmpty
  <2>4. SourcesOf(hs \o rest) = SourcesOf(hs) \o SourcesOf(rest)
    BY <1>3, <2>1, SourcesOfBoth
  <2>5. SourcesOf(hs) \in Seq(PlainSources) /\ SourcesOf(rest) \in Seq(PlainSources)
    BY <1>3, <2>1, SourcesOfPieces
  <2> HIDE DEF ss
  <2> QED BY <2>1, <2>2, <2>3, <2>4, <2>5 DEF rest
<1>6. ASSUME NEW f \in TextFields
      PROVE  \E so_far : Adds(f, w.parts, <<>>, so_far) /\ Adds(f, cs \o Tail(ss), so_far, c[f])
  <2>1. PICK x : Adds(f, w.parts, <<>>, x) /\ Adds(f, ss, x, c[f])
    BY DEF WorksOn
  <2>2. ss \in Seq(PlainSources) /\ ss # <<>> /\ ss[1] = piece.source
    <3>1. ss \in Seq(PlainSources) /\ Len(ss) = Len(todo) /\ ss[1] = todo[1].source
          /\ Len(todo) \in Nat \ {0}
      <4> HIDE DEF todo
      <4>1. Len(todo) \in Nat \ {0}
        BY <1>1, FirstAndRest
      <4>2. 1 \in 1..Len(todo)
        BY <4>1
      <4> QED BY <1>1, <4>1, <4>2, SourcesOfPieces
    <3> HIDE DEF ss, todo, piece
    <3> QED BY <1>1, <1>2, <3>1
  <2>3. Adds(f, Tail(ss), x \o ss[1][f], c[f])
    <3> HIDE DEF ss
    <3> QED BY <2>1, <2>2, AddsTail
  <2>4. x \in Seq(PlainCharacters)
    <3> DEFINE parts == w.parts
               none == <<>>
    <3>1. none \in Seq(PlainCharacters) /\ Len(parts) \in Nat /\ Adds(f, parts, <<>>, x)
          /\ \A k \in 1..Len(parts) : parts[k] \in SourceParts
      BY <1>1, <2>1
    <3> HIDE DEF parts, none
    <3>2. \A k \in 1..Len(parts) : parts[k][f] \in Seq(PlainCharacters)
      BY <3>1, FieldsOfSources
    <3> QED BY <3>1, <3>2, AddsAfter
  <2>5. Adds(f, cs, x, x \o piece.source[f])
    <3> HIDE DEF cs, piece
    <3>1. cs \in Seq(PlainSources) /\ Adds(f, cs, <<>>, piece.source[f])
      BY <1>3, <1>5
    <3>2. Len(cs) \in Nat /\ \A k \in 1..Len(cs) : cs[k][f] \in Seq(PlainCharacters)
      BY <3>1, FieldsOfSources
    <3> QED BY <2>4, <3>1, <3>2, AddsAfter
  <2>6. Adds(f, cs, x, x \o ss[1][f])
    <3> HIDE DEF cs, ss, piece
    <3> QED BY <2>2, <2>5
  <2> DEFINE rest == Tail(ss)
  <2>7. rest \in Seq(PlainSources) /\ cs \in Seq(PlainSources)
    BY <1>5
  <2>8. Adds(f, rest, x \o ss[1][f], c[f])
    BY <2>3
  <2> HIDE DEF cs, ss, rest
  <2>10. Adds(f, cs \o rest, x, c[f])
    BY <2>6, <2>7, <2>8, AddsBoth
  <2> QED BY <2>1, <2>10 DEF rest
<1> DEFINE v == Halved(w)
<1>7. v = [w EXCEPT !.todo = new, !.throttled = 0]
  <2> HIDE DEF hs
  <2> QED BY DEF Halved, hs
<1>8. v \in ChunkWorkers /\ v.todo = new /\ v.parts = w.parts /\ v.state = w.state
  <2>1. new \in Seq(SourcePieces) /\ 0 \in Nat
    BY <1>5
  <2> HIDE DEF new, v
  <2> QED BY <1>7, <2>1 DEF ChunkWorkers
<1> HIDE DEF new, v, cs, ss, todo
<1>9. v.state = "done" <=> v.todo = <<>>
  BY <1>5, <1>8
<1>10. \A f \in TextFields :
          \E so_far : Adds(f, v.parts, <<>>, so_far) /\ Adds(f, SourcesOf(v.todo), so_far, c[f])
  BY <1>5, <1>6, <1>8
<1>11. WorksOn(v, c)
  BY <1>9, <1>10 DEF WorksOn
<1> QED BY <1>8, <1>11 DEF v

\* What is left out depends on the pieces and the parts only.
LEMMA LeavesOutSame ==
  ASSUME NEW w, NEW v, NEW by, LeavesOut(w, by), v.todo = w.todo, v.parts = w.parts
  PROVE  LeavesOut(v, by)
BY DEF LeavesOut

LEMMA DoneLeavesOut ==
  ASSUME NEW w \in ChunkWorkers, w.state = "busy", NEW c, WorksOn(w, c), NEW by, LeavesOut(w, by),
         NEW says \in Sayings, says = "nothing" => by = "legacy"
  PROVE  LeavesOut(Done(w, <<Part(Head(w.todo), says)>>), by)
<1> DEFINE todo == w.todo
           parts == w.parts
           piece == Head(todo)
           part == Part(piece, says)
           one == <<part>>
           v == Done(w, one)
           rest == Tail(todo)
           all == parts \o one
           n == Len(parts)
<1>1. todo \in Seq(SourcePieces) /\ parts \in Seq(SourceParts) /\ todo # <<>>
  BY DEF ChunkWorkers, WorksOn
<1>2. /\ \A j \in 1..Len(todo) : todo[j].depth = 0 => parts = <<>> /\ Len(todo) = 1
      /\ \A i \in 1..n : parts[i].says = "nothing" =>
           by = "legacy" /\ (parts[i].depth > 0 \/ (todo = <<>> /\ n = 1))
  BY DEF LeavesOut
<1>3. v.todo = rest /\ v.parts = all
  BY DEF Done
<1>4. /\ piece = todo[1] /\ piece.depth \in Nat /\ Len(todo) \in Nat \ {0} /\ Len(rest) = Len(todo) - 1
      /\ rest = <<>> <=> Len(todo) = 1
      /\ \A j \in 1..Len(rest) : rest[j] = todo[j + 1]
  <2> HIDE DEF todo
  <2>1. /\ piece = todo[1] /\ piece \in SourcePieces /\ Len(todo) \in Nat \ {0}
        /\ Len(rest) = Len(todo) - 1 /\ (rest = <<>> <=> Len(todo) = 1)
    BY <1>1, FirstAndRest
  <2>2. \A p \in SourcePieces : p.depth \in Nat
    BY DEF SourcePieces
  <2>3. \A j \in 1..Len(rest) : rest[j] = todo[j + 1]
    BY <1>1, <2>1
  <2> HIDE DEF rest, piece
  <2> QED BY <2>1, <2>2, <2>3
<1>5. part.depth = piece.depth /\ part.says = says
  BY DEF Part
<1> HIDE DEF part, piece
<1>6. n \in Nat /\ Len(all) = n + 1 /\ all[n + 1] = part /\ \A i \in 1..n : all[i] = parts[i]
  <2> HIDE DEF parts
  <2> QED BY <1>1
<1> HIDE DEF todo, parts, rest, all, v, one, n
<1>7. ASSUME NEW j \in 1..Len(rest), rest[j].depth = 0  PROVE FALSE
  <2>1. j + 1 \in 1..Len(todo) /\ todo[j + 1].depth = 0
    BY <1>4, <1>7
  <2>2. Len(todo) = 1
    BY <1>2, <2>1
  <2> QED BY <1>4, <2>1, <2>2
<1>8. ASSUME NEW i \in 1..Len(all), all[i].says = "nothing"
      PROVE  by = "legacy" /\ (all[i].depth > 0 \/ (rest = <<>> /\ Len(all) = 1))
  <2>1. CASE i \in 1..n
    BY <1>1, <1>2, <1>6, <1>8, <2>1
  <2>2. CASE i = n + 1
    <3>1. by = "legacy"
      BY <1>5, <1>6, <1>8, <2>2
    <3>2. CASE piece.depth = 0
      <4>1. 1 \in 1..Len(todo) /\ todo[1].depth = 0
        BY <1>4, <3>2
      <4>2. parts = <<>> /\ Len(todo) = 1
        BY <1>2, <4>1
      <4>3. n = 0
        BY <4>2 DEF n
      <4> QED BY <1>4, <1>6, <3>1, <4>2, <4>3
    <3>3. CASE piece.depth > 0
      BY <1>5, <1>6, <2>2, <3>1, <3>3
    <3> QED BY <1>4, <3>2, <3>3
  <2> QED BY <1>6, <2>1, <2>2
<1>9. LeavesOut(v, by)
  BY <1>3, <1>7, <1>8 DEF LeavesOut
<1> QED BY <1>9 DEF v, one, part, piece, todo

LEMMA HalvedLeavesOut ==
  ASSUME NEW w \in ChunkWorkers, w.state = "busy", NEW c \in PlainSources, WorksOn(w, c),
         Size(Head(w.todo).source) \in Nat \ {0}, NEW by, LeavesOut(w, by)
  PROVE  LeavesOut(Halved(w), by)
<1> DEFINE todo == w.todo
           piece == Head(todo)
           hs == Halves(piece)
           rest == Tail(todo)
           new == hs \o rest
           v == Halved(w)
           cs == splitNoteSources(piece.source, (Size(piece.source) + 1) \div 2)
<1>1. todo \in Seq(SourcePieces) /\ todo # <<>>
  BY DEF ChunkWorkers, WorksOn
<1>2. /\ piece \in SourcePieces /\ piece.depth \in Nat
      /\ Len(todo) \in Nat \ {0} /\ Len(rest) = Len(todo) - 1
      /\ rest \in Seq(SourcePieces) /\ \A j \in 1..Len(rest) : rest[j] = todo[j + 1]
  <2> HIDE DEF todo
  <2>1. /\ piece \in SourcePieces /\ Len(todo) \in Nat \ {0} /\ Len(rest) = Len(todo) - 1
        /\ rest \in Seq(SourcePieces)
    BY <1>1, FirstAndRest
  <2>2. \A p \in SourcePieces : p.depth \in Nat
    BY DEF SourcePieces
  <2>3. \A j \in 1..Len(rest) : rest[j] = todo[j + 1]
    BY <1>1, <2>1
  <2> HIDE DEF rest, piece
  <2> QED BY <2>1, <2>2, <2>3
<1>3. hs \in Seq(SourcePieces)
  <2> HIDE DEF piece
  <2>1. Size(piece.source) \in Nat \ {0}
    BY DEF piece
  <2> QED BY <1>2, <2>1, HalvesHold
<1>4. \A i \in DOMAIN hs : hs[i].depth = piece.depth + 1
  <2>1. hs = [i \in DOMAIN cs |-> [source |-> cs[i], depth |-> piece.depth + 1]]
    BY DEF Halves
  <2> HIDE DEF cs, piece, hs
  <2> QED BY <2>1
<1>5. v.todo = new /\ v.parts = w.parts
  <2> HIDE DEF hs
  <2> QED BY DEF Halved, hs, ChunkWorkers
<1>6. /\ \A j \in 1..Len(todo) : todo[j].depth = 0 => Len(todo) = 1
      /\ \A i \in 1..Len(w.parts) : w.parts[i].says = "nothing" =>
           by = "legacy" /\ (w.parts[i].depth > 0 \/ todo = <<>>)
  BY DEF LeavesOut
<1> HIDE DEF todo, piece, hs, rest, cs, v
<1>7. /\ Len(new) = Len(hs) + Len(rest) /\ Len(hs) \in Nat /\ Len(rest) \in Nat /\ DOMAIN hs = 1..Len(hs)
      /\ \A k \in 1..(Len(hs) + Len(rest)) : new[k] = IF k <= Len(hs) THEN hs[k] ELSE rest[k - Len(hs)]
  BY <1>2, <1>3, ConcatProperties
<1> HIDE DEF new
<1>8. ASSUME NEW j \in 1..Len(new), new[j].depth = 0  PROVE FALSE
  <2>1. CASE j <= Len(hs)
    <3>1. j \in DOMAIN hs /\ hs[j].depth = 0
      BY <1>7, <1>8, <2>1
    <3> QED BY <1>2, <1>4, <3>1
  <2>2. CASE ~(j <= Len(hs))
    <3> DEFINE k == j - Len(hs)
    <3>1. k \in 1..Len(rest) /\ rest[k].depth = 0
      BY <1>7, <1>8, <2>2
    <3> HIDE DEF k
    <3>2. k + 1 \in 1..Len(todo) /\ todo[k + 1].depth = 0
      BY <1>2, <3>1
    <3>3. Len(todo) = 1
      BY <1>6, <3>2
    <3> QED BY <1>2, <3>1, <3>3
  <2> QED BY <2>1, <2>2
<1>9. LeavesOut(v, by)
  BY <1>1, <1>5, <1>6, <1>8 DEF LeavesOut
<1> QED BY <1>9 DEF v

LEMMA NewWorkerLeavesOut ==
  ASSUME NEW c, NEW by
  PROVE  LeavesOut(Worker(<<Whole(c)>>), by)
<1> DEFINE w == Worker(<<Whole(c)>>)
<1>1. Len(w.todo) = 1 /\ w.parts = <<>>
  BY DEF Worker
<1> HIDE DEF w
<1>2. LeavesOut(w, by)
  BY <1>1 DEF LeavesOut
<1> QED BY <1>2 DEF w

\* The answer of the model to a call, in the structured extraction or by the older prompt.
OutcomesOf(w, by) == IF by = "legacy" THEN LegacyOutcomes(w) ELSE ExtractOutcomes(w)

LEMMA OutcomeWorks ==
  ASSUME NEW w \in ChunkWorkers, w.state = "busy", NEW c \in PlainSources, WorksOn(w, c),
         NEW by \in {"extract", "legacy"}, LeavesOut(w, by), NEW v \in OutcomesOf(w, by)
  PROVE  v \in ChunkWorkers /\ WorksOn(v, c) /\ LeavesOut(v, by)
<1> DEFINE piece == Head(w.todo)
<1>1. piece \in SourcePieces /\ piece.source \in PlainSources
  <2> DEFINE todo == w.todo
  <2>1. todo \in Seq(SourcePieces) /\ todo # <<>>
    BY DEF ChunkWorkers, WorksOn
  <2> HIDE DEF todo
  <2>2. Head(todo) \in SourcePieces
    BY <2>1, FirstAndRest
  <2>3. \A p \in SourcePieces : p.source \in PlainSources
    BY DEF SourcePieces
  <2> QED BY <2>2, <2>3 DEF todo
<1> HIDE DEF piece
<1>2. Size(piece.source) \in Nat
  <2> DEFINE a == piece.source.note
             b == piece.source.text
  <2>1. a \in Seq(PlainCharacters) /\ b \in Seq(PlainCharacters)
    BY <1>1 DEF PlainSources, Sources
  <2> HIDE DEF a, b
  <2>2. Len(a) + Len(b) \in Nat
    BY <2>1
  <2> QED BY <2>2 DEF Size, a, b
<1>3. (MayDoubt(piece) \/ MayHalve(piece)) => Size(piece.source) \in Nat \ {0}
  <2> DEFINE s == Size(piece.source)
  <2>1. LowDetailChars \in Nat \ {0} /\ MinSplitChars \in Nat
    BY GenerationAssumption
  <2>2. MayDoubt(piece) => s >= LowDetailChars
    BY DEF MayDoubt
  <2>3. MayHalve(piece) => s > MinSplitChars
    BY DEF MayHalve
  <2> HIDE DEF s
  <2>4. s \in Nat
    BY <1>2 DEF s
  <2>5. (MayDoubt(piece) \/ MayHalve(piece)) => s \in Nat \ {0}
    BY <2>1, <2>2, <2>3, <2>4
  <2> QED BY <2>5 DEF s
<1>4. \/ \E says \in Sayings : (says = "nothing" => by = "legacy") /\ v = Done(w, <<Part(piece, says)>>)
      \/ (MayDoubt(piece) \/ MayHalve(piece)) /\ v = Halved(w)
      \/ v = [w EXCEPT !.state = "truncated"]
      \/ v = [w EXCEPT !.state = "failed"]
      \/ v = Throttled(w)
  <2>1. CASE by = "legacy"
    <3>1. v \in LegacyOutcomes(w)
      BY <2>1 DEF OutcomesOf
    <3>2. \/ \E says \in {"text", "title", "nothing"} : v = Done(w, <<Part(piece, says)>>)
          \/ MayHalve(piece) /\ v = Halved(w)
          \/ v = Done(w, <<Part(piece, "marked")>>)
          \/ v = [w EXCEPT !.state = "failed"]
          \/ v = Throttled(w)
      BY <3>1 DEF LegacyOutcomes, piece
    <3> QED BY <2>1, <3>2 DEF Sayings
  <2>2. CASE by = "extract"
    <3>1. v \in ExtractOutcomes(w)
      BY <2>2 DEF OutcomesOf
    <3>2. \/ \E says \in {"text", "title"} : v = Done(w, <<Part(piece, says)>>)
          \/ (MayDoubt(piece) \/ MayHalve(piece)) /\ v = Halved(w)
          \/ v = [w EXCEPT !.state = "truncated"]
          \/ v = [w EXCEPT !.state = "failed"]
          \/ v = Throttled(w)
      BY <3>1 DEF ExtractOutcomes, piece
    <3> QED BY <3>2 DEF Sayings
  <2> QED BY <2>1, <2>2
<1>5. ASSUME NEW says \in Sayings, says = "nothing" => by = "legacy", v = Done(w, <<Part(piece, says)>>)
      PROVE  v \in ChunkWorkers /\ WorksOn(v, c) /\ LeavesOut(v, by)
  <2> DEFINE u == Done(w, <<Part(Head(w.todo), says)>>)
  <2>1. u \in ChunkWorkers /\ WorksOn(u, c)
    BY DoneWorks
  <2>2. LeavesOut(u, by)
    BY <1>5, DoneLeavesOut
  <2>3. v = u
    BY <1>5 DEF piece
  <2> HIDE DEF u
  <2> QED BY <2>1, <2>2, <2>3
<1>6. ASSUME MayDoubt(piece) \/ MayHalve(piece), v = Halved(w)
      PROVE  v \in ChunkWorkers /\ WorksOn(v, c) /\ LeavesOut(v, by)
  <2>1. Size(Head(w.todo).source) \in Nat \ {0}
    BY <1>3, <1>6 DEF piece
  <2>2. Halved(w) \in ChunkWorkers /\ WorksOn(Halved(w), c)
    BY <2>1, HalvedWorks
  <2>3. LeavesOut(Halved(w), by)
    BY <2>1, HalvedLeavesOut
  <2> QED BY <1>6, <2>2, <2>3
<1>7. ASSUME NEW s \in {"failed", "truncated"}, v = [w EXCEPT !.state = s]
      PROVE  v \in ChunkWorkers /\ WorksOn(v, c) /\ LeavesOut(v, by)
  <2> DEFINE u == [w EXCEPT !.state = s]
  <2>1. u \in ChunkWorkers /\ WorksOn(u, c)
    BY WorkerStopped
  <2>2. v = u
    BY <1>7
  <2>3. u.todo = w.todo /\ u.parts = w.parts
    BY DEF ChunkWorkers
  <2> HIDE DEF u
  <2>4. LeavesOut(u, by)
    BY <2>3, LeavesOutSame
  <2> QED BY <2>1, <2>2, <2>4
<1>8. ASSUME v = Throttled(w)  PROVE v \in ChunkWorkers /\ WorksOn(v, c) /\ LeavesOut(v, by)
  <2>1. Throttled(w) \in ChunkWorkers /\ WorksOn(Throttled(w), c)
    BY WorkerThrottled
  <2>2. Throttled(w).todo = w.todo /\ Throttled(w).parts = w.parts
    BY DEF Throttled, ChunkWorkers
  <2>3. v.todo = w.todo /\ v.parts = w.parts
    BY <1>8, <2>2
  <2>4. LeavesOut(v, by)
    BY <2>3, LeavesOutSame
  <2> QED BY <1>8, <2>1, <2>4
<1> QED BY <1>4, <1>5, <1>6, <1>7, <1>8

LEMMA HalvesOfBoth ==
  ASSUME NEW a \in Seq(SourceParts), NEW b \in Seq(SourceParts), NEW by,
         HalvesAtMost(a, by), HalvesAtMost(b, by)
  PROVE  HalvesAtMost(a \o b, by)
<1> DEFINE n == Len(a)
           m == Len(b)
           ab == a \o b
<1>1. n \in Nat /\ m \in Nat /\ Len(ab) = n + m
      /\ \A k \in 1..(n + m) : ab[k] = IF k <= n THEN a[k] ELSE b[k - n]
  BY ConcatProperties
<1>2. /\ \A i \in 1..n : a[i].says = "nothing" => by = "legacy" /\ a[i].depth > 0
      /\ \A i \in 1..m : b[i].says = "nothing" => by = "legacy" /\ b[i].depth > 0
  BY DEF HalvesAtMost
<1> HIDE DEF ab, n, m
<1>3. ASSUME NEW k \in 1..(n + m), ab[k].says = "nothing"  PROVE by = "legacy" /\ ab[k].depth > 0
  <2>1. CASE k <= n
    BY <1>1, <1>2, <1>3, <2>1
  <2>2. CASE ~(k <= n)
    <3>1. k - n \in 1..m
      BY <1>1, <2>2
    <3> QED BY <1>1, <1>2, <1>3, <2>2, <3>1
  <2> QED BY <2>1, <2>2
<1>4. HalvesAtMost(ab, by)
  BY <1>1, <1>3 DEF HalvesAtMost
<1> QED BY <1>4 DEF ab

\* A worker that is done has extracted the whole chunk.
LEMMA DoneHolds ==
  ASSUME NEW w \in ChunkWorkers, w.state = "done", NEW c, WorksOn(w, c), NEW f \in TextFields
  PROVE  w.parts \in Seq(SourceParts) /\ Adds(f, w.parts, <<>>, c[f])
<1>1. PICK x : Adds(f, w.parts, <<>>, x) /\ Adds(f, SourcesOf(w.todo), x, c[f])
  BY DEF WorksOn
<1>2. w.todo = <<>> /\ w.parts \in Seq(SourceParts)
  BY DEF WorksOn, ChunkWorkers
<1>3. SourcesOf(<<>>) = <<>>
  BY DEF SourcesOf
<1>4. x = c[f]
  BY <1>1, <1>2, <1>3, AddsOfNone
<1> QED BY <1>1, <1>2, <1>4

\* What one chunk holds is merged behind what is merged.
LEMMA MergesOne ==
  ASSUME NEW f \in TextFields, NEW cs \in Seq(PlainSources), NEW whole, NEW parts \in Seq(SourceParts),
         NEW q \in Seq(SourceParts), NEW k \in 0..(Len(cs) - 1),
         MergedUpTo(f, cs, whole, parts, k), Adds(f, q, <<>>, cs[k + 1][f])
  PROVE  parts \o q \in Seq(SourceParts) /\ MergedUpTo(f, cs, whole, parts \o q, k + 1)
<1>1. PICK g : /\ g[0] = <<>> /\ g[Len(cs)] = whole[f]
               /\ \A j \in 1..Len(cs) : g[j] = g[j - 1] \o cs[j][f]
               /\ Adds(f, parts, <<>>, g[k])
  BY DEF MergedUpTo
<1> DEFINE a == g[k]
           j == k + 1
           b == cs[j][f]
<1>2. a \in Seq(PlainCharacters)
  <2> DEFINE none == <<>>
  <2>1. none \in Seq(PlainCharacters) /\ Len(parts) \in Nat /\ Adds(f, parts, <<>>, a)
        /\ \A i \in 1..Len(parts) : parts[i][f] \in Seq(PlainCharacters)
    <3>1. \A i \in 1..Len(parts) : parts[i] \in SourceParts
      OBVIOUS
    <3> QED BY <1>1, <3>1, FieldsOfSources
  <2> HIDE DEF none, a
  <2> QED BY <2>1, AddsAfter
<1>3. Adds(f, q, a, a \o b)
  <2>1. Len(q) \in Nat /\ \A i \in 1..Len(q) : q[i][f] \in Seq(PlainCharacters)
    <3>1. \A i \in 1..Len(q) : q[i] \in SourceParts
      OBVIOUS
    <3> QED BY <3>1, FieldsOfSources
  <2>2. Adds(f, q, <<>>, b)
    OBVIOUS
  <2> HIDE DEF a, b
  <2> QED BY <1>2, <2>1, <2>2, AddsAfter
<1>4. g[j] = a \o b
  <2>1. j \in 1..Len(cs) /\ j - 1 = k
    OBVIOUS
  <2> HIDE DEF j
  <2>2. g[j] = g[j - 1] \o cs[j][f]
    BY <1>1, <2>1
  <2> QED BY <2>1, <2>2, Zenon
<1>5. Adds(f, parts \o q, <<>>, g[j])
  <2> DEFINE c == g[j]
  <2>1. Adds(f, parts, <<>>, a) /\ Adds(f, q, a, c)
    BY <1>1, <1>3, <1>4
  <2> HIDE DEF a, c
  <2>2. Adds(f, parts \o q, <<>>, c)
    BY <2>1, AddsBoth
  <2> QED BY <2>2 DEF c
<1> HIDE DEF j
<1>6. MergedUpTo(f, cs, whole, parts \o q, j)
  BY <1>1, <1>5 DEF MergedUpTo
<1>7. parts \o q \in Seq(SourceParts)
  BY ConcatProperties
<1> QED BY <1>6, <1>7 DEF j

LEMMA MergesNothing ==
  ASSUME NEW f, NEW cs, NEW whole, Adds(f, cs, <<>>, whole[f])
  PROVE  MergedUpTo(f, cs, whole, <<>>, 0)
<1>1. PICK g : /\ g[0] = <<>> /\ g[Len(cs)] = whole[f]
               /\ \A k \in 1..Len(cs) : g[k] = g[k - 1] \o cs[k][f]
  BY DEF Adds
<1>2. Adds(f, <<>>, <<>>, <<>>)
  BY AddsNothing
<1>3. Adds(f, <<>>, <<>>, g[0])
  BY <1>1, <1>2
<1> QED BY <1>1, <1>3 DEF MergedUpTo

\* What a batch of one or two chunks holds is merged behind what is merged.
LEMMA MergesBatch ==
  ASSUME NEW f \in TextFields, NEW cs \in Seq(PlainSources), NEW whole, NEW parts \in Seq(SourceParts),
         NEW batch \in Seq(ChunkWorkers), Len(batch) \in {1, 2}, NEW n \in 0..Len(cs), Len(batch) <= n,
         \A i \in 1..Len(batch) : batch[i].state = "done"
         /\ WorksOn(batch[i], cs[n - Len(batch) + i]),
         MergedUpTo(f, cs, whole, parts, n - Len(batch))
  PROVE  /\ parts \o Extracted(batch) \in Seq(SourceParts)
         /\ MergedUpTo(f, cs, whole, parts \o Extracted(batch), n)
<1>1. \A i \in 1..Len(batch) : batch[i] \in ChunkWorkers
  OBVIOUS
<1> DEFINE p == batch[1].parts
           q == batch[2].parts
<1>2. CASE Len(batch) = 1
  <2> DEFINE k == n - 1
  <2>1. k \in 0..(Len(cs) - 1) /\ k + 1 = n /\ 1 \in 1..Len(batch) /\ n - Len(batch) + 1 = n
        /\ n - Len(batch) = k
    BY <1>2
  <2> HIDE DEF k
  <2>2. batch[1] \in ChunkWorkers /\ batch[1].state = "done" /\ WorksOn(batch[1], cs[k + 1])
        /\ MergedUpTo(f, cs, whole, parts, k)
    BY <1>1, <2>1
  <2>3. p \in Seq(SourceParts) /\ Adds(f, p, <<>>, cs[k + 1][f])
    BY <2>2, DoneHolds
  <2>4. Joined("parts", batch) = p
    <3>1. Len(batch) \in Nat \ {0} /\ batch[1]["parts"] = p /\ 2..Len(batch) = {}
      BY <1>2
    <3> HIDE DEF p
    <3>2. Adds("parts", batch, <<>>, p)
      BY <2>3, <3>1, AddsFirst
    <3> QED BY <3>1, <3>2, JoinedAdds
  <2> HIDE DEF p
  <2>5. parts \o p \in Seq(SourceParts) /\ MergedUpTo(f, cs, whole, parts \o p, k + 1)
    BY <2>1, <2>2, <2>3, MergesOne
  <2> QED BY <2>1, <2>4, <2>5 DEF Extracted
<1>3. CASE Len(batch) = 2
  <2> DEFINE k == n - 2
             m == n - 1
  <2>1. /\ k \in 0..(Len(cs) - 1) /\ m \in 0..(Len(cs) - 1) /\ k + 1 = m /\ m + 1 = n
        /\ 1 \in 1..Len(batch) /\ 2 \in 1..Len(batch) /\ n - Len(batch) + 1 = m
           /\ n - Len(batch) + 2 = n
        /\ n - Len(batch) = k
    BY <1>3
  <2> HIDE DEF k, m
  <2>2. /\ batch[1] \in ChunkWorkers /\ batch[1].state = "done" /\ WorksOn(batch[1], cs[k + 1])
        /\ batch[2] \in ChunkWorkers /\ batch[2].state = "done" /\ WorksOn(batch[2], cs[m + 1])
        /\ MergedUpTo(f, cs, whole, parts, k)
    BY <1>1, <2>1
  <2>3. p \in Seq(SourceParts) /\ Adds(f, p, <<>>, cs[k + 1][f])
    BY <2>2, DoneHolds
  <2>4. q \in Seq(SourceParts) /\ Adds(f, q, <<>>, cs[m + 1][f])
    BY <2>2, DoneHolds
  <2>5. Joined("parts", batch) = p \o q
    <3>1. Len(batch) = 2 /\ batch[1]["parts"] = p /\ batch[2]["parts"] = q /\ Len(batch) \in Nat
      BY <1>3
    <3> HIDE DEF p, q
    <3>2. Adds("parts", batch, <<>>, batch[1]["parts"] \o batch[2]["parts"])
      BY <2>3, <2>4, <3>1, AddsTwo
    <3>3. Adds("parts", batch, <<>>, p \o q)
      BY <3>1, <3>2
    <3> QED BY <3>1, <3>3, JoinedAdds
  <2> HIDE DEF p, q
  <2>6. parts \o p \in Seq(SourceParts) /\ MergedUpTo(f, cs, whole, parts \o p, m)
    BY <2>1, <2>2, <2>3, MergesOne
  <2>7. (parts \o p) \o q \in Seq(SourceParts) /\ MergedUpTo(f, cs, whole, (parts \o p) \o q, m + 1)
    <3> DEFINE more == parts \o p
    <3> HIDE DEF more
    <3>1. more \in Seq(SourceParts) /\ MergedUpTo(f, cs, whole, more, m)
      BY <2>6 DEF more
    <3>2. more \o q \in Seq(SourceParts) /\ MergedUpTo(f, cs, whole, more \o q, m + 1)
      BY <2>1, <2>4, <3>1, MergesOne
    <3> QED BY <3>2 DEF more
  <2>8. (parts \o p) \o q = parts \o (p \o q)
    <3>1. p \in Seq(SourceParts)
      BY <2>3
    <3>2. q \in Seq(SourceParts)
      BY <2>4
    <3> QED BY <3>1, <3>2, ConcatAssociative
  <2> QED BY <2>1, <2>5, <2>7, <2>8 DEF Extracted
<1> QED BY <1>2, <1>3

\* What a batch leaves out is halves at most, if each of its chunks says something.
LEMMA BatchLeavesHalves ==
  ASSUME NEW by, NEW parts \in Seq(SourceParts), HalvesAtMost(parts, by),
         NEW batch \in Seq(ChunkWorkers), Len(batch) \in {1, 2},
         \A i \in 1..Len(batch) : LeavesOut(batch[i], by) /\ (by = "legacy" => Written(batch[i]))
  PROVE  HalvesAtMost(parts \o Extracted(batch), by)
<1>1. ASSUME NEW i \in 1..Len(batch)
      PROVE  batch[i].parts \in Seq(SourceParts) /\ HalvesAtMost(batch[i].parts, by)
  <2> DEFINE ps == batch[i].parts
             todo == batch[i].todo
  <2>1. ps \in Seq(SourceParts)
    <3>1. batch[i] \in ChunkWorkers
      OBVIOUS
    <3> QED BY <3>1 DEF ChunkWorkers
  <2>2. \A k \in 1..Len(ps) : ps[k].says = "nothing" =>
           by = "legacy" /\ (ps[k].depth > 0 \/ (todo = <<>> /\ Len(ps) = 1))
    BY DEF LeavesOut
  <2>3. by = "legacy" => \E k \in DOMAIN ps : ps[k].says # "nothing"
    BY DEF Written
  <2> HIDE DEF ps, todo
  <2>4. ASSUME NEW k \in 1..Len(ps), ps[k].says = "nothing"  PROVE by = "legacy" /\ ps[k].depth > 0
    <3>1. CASE Len(ps) = 1
      <4>1. k = 1 /\ DOMAIN ps = 1..1
        BY <2>1, <3>1
      <4> QED BY <2>2, <2>3, <2>4, <4>1
    <3>2. CASE Len(ps) # 1
      BY <2>2, <2>4, <3>2
    <3> QED BY <3>1, <3>2
  <2>5. HalvesAtMost(ps, by)
    BY <2>4 DEF HalvesAtMost
  <2> QED BY <2>1, <2>5 DEF ps
<1> DEFINE p == batch[1].parts
           q == batch[2].parts
<1>2. CASE Len(batch) = 1
  <2>1. p \in Seq(SourceParts) /\ HalvesAtMost(p, by)
    BY <1>1, <1>2
  <2>2. Joined("parts", batch) = p
    <3>1. Len(batch) \in Nat \ {0} /\ batch[1]["parts"] = p /\ 2..Len(batch) = {}
      BY <1>2
    <3> HIDE DEF p
    <3>2. Adds("parts", batch, <<>>, p)
      BY <2>1, <3>1, AddsFirst
    <3> QED BY <3>1, <3>2, JoinedAdds
  <2> HIDE DEF p
  <2> QED BY <2>1, <2>2, HalvesOfBoth DEF Extracted
<1>3. CASE Len(batch) = 2
  <2>1. p \in Seq(SourceParts) /\ HalvesAtMost(p, by) /\ q \in Seq(SourceParts)
        /\ HalvesAtMost(q, by)
    BY <1>1, <1>3
  <2>2. Joined("parts", batch) = p \o q
    <3>1. Len(batch) = 2 /\ batch[1]["parts"] = p /\ batch[2]["parts"] = q /\ Len(batch) \in Nat
      BY <1>3
    <3> HIDE DEF p, q
    <3>2. Adds("parts", batch, <<>>, batch[1]["parts"] \o batch[2]["parts"])
      BY <2>1, <3>1, AddsTwo
    <3>3. Adds("parts", batch, <<>>, p \o q)
      BY <3>1, <3>2
    <3> QED BY <3>1, <3>3, JoinedAdds
  <2> HIDE DEF p, q
  <2>3. p \o q \in Seq(SourceParts) /\ HalvesAtMost(p \o q, by)
    BY <2>1, HalvesOfBoth, ConcatProperties
  <2> DEFINE pq == p \o q
  <2> HIDE DEF pq
  <2>4. pq \in Seq(SourceParts) /\ HalvesAtMost(pq, by)
    BY <2>3 DEF pq
  <2>5. HalvesAtMost(parts \o pq, by)
    BY <2>4, HalvesOfBoth
  <2> QED BY <2>2, <2>5 DEF Extracted, pq
<1> QED BY <1>2, <1>3

LEMMA NothingLeftOut ==
  ASSUME NEW by
  PROVE  HalvesAtMost(<<>>, by)
BY DEF HalvesAtMost

LEMMA GenInvInit == GenerationInit => GenInv
<1> SUFFICES ASSUME GenerationInit PROVE GenInv
  OBVIOUS
<1>1. PICK n \in 0..MaxSource, m \in 0..MaxSource :
        session = [note |-> TextOf([i \in 1..n |-> "plain"]), text |-> TextOf([i \in 1..m |-> "plain"])]
  BY DEF GenerationInit
<1> DEFINE note == [i \in 1..n |-> "plain"]
           text == [i \in 1..m |-> "plain"]
<1>2. n \in Nat /\ m \in Nat /\ note \in [1..n -> {"plain"}] /\ text \in [1..m -> {"plain"}]
  BY GenerationAssumption
<1> HIDE DEF note, text
<1>3. TextOf(note) \in Seq(PlainCharacters) /\ TextOf(text) \in Seq(PlainCharacters)
  BY <1>2, TextsAreTyped DEF PlainCharacters
<1>4. session \in PlainSources
  BY <1>1, <1>3 DEF PlainSources, Sources, note, text
<1>5. /\ merged = NothingMerged /\ taken = 0 /\ workers = <<>> /\ stage = "start"
      /\ content = [kind |-> "none", parts |-> <<>>]
  BY DEF GenerationInit
<1>6. GenTypes
  BY <1>4, <1>5 DEF GenTypes, NothingMerged
<1> QED BY <1>5, <1>6 DEF GenInv, GenStart, GenChunked, GenExtracting, GenMerged, GenContent

LEMMA NoWorkers ==
  ASSUME NEW cs \in Seq(PlainSources), NEW ws, ws = <<>>, NEW t \in 0..Len(cs)
  PROVE  /\ Len(ws) = 0 /\ t - Len(ws) = t /\ ws \in Seq(ChunkWorkers)
         /\ Len(ws) \in 0..2 /\ Len(ws) <= t
         /\ \A i \in 1..Len(ws) : FALSE
<1>1. Len(ws) = 0 /\ ws \in Seq(ChunkWorkers) /\ t \in Nat
  OBVIOUS
<1> QED BY <1>1

\* The next attempt, structured or not, starts from the chunks.
LEMMA NextAttemptStep ==
  ASSUME GenInv, stage \in {"extract", "title", "judge"}, NEW truncated, NextAttempt(truncated),
         UNCHANGED <<session, sourceChunks, content>>
  PROVE  GenInv'
<1>1. stage' \in {"extract", "legacy"} /\ taken' = 0 /\ merged' = NothingMerged /\ workers' = <<>>
  BY DEF NextAttempt
<1>2. session' = session /\ sourceChunks' = sourceChunks /\ content' = content
  OBVIOUS
<1>3. GenTypes'
  BY <1>1, <1>2 DEF GenInv, GenTypes, NothingMerged
<1>4. GenStart' /\ GenMerged' /\ GenContent'
  BY <1>1, <1>2 DEF GenInv, GenStart, GenMerged, GenContent
<1>5. GenChunked'
  BY <1>1, <1>2 DEF GenInv, GenChunked
<1>6. GenExtracting'
  <2>1. workers' = <<>> /\ taken' = 0 /\ merged'.parts = <<>>
    BY <1>1 DEF NothingMerged
  <2>2. sourceChunks \in Seq(PlainSources)
        /\ \A f \in TextFields : Adds(f, sourceChunks, <<>>, session[f])
    BY DEF GenInv, GenChunked
  <2>3. \A f \in TextFields : MergedUpTo(f, sourceChunks, session, <<>>, 0)
    BY <2>2, MergesNothing
  <2>4. /\ taken' \in 0..Len(sourceChunks') /\ Len(workers') = 0 /\ taken' - Len(workers') = 0
        /\ workers' \in Seq(ChunkWorkers) /\ Len(workers') \in 0..2 /\ Len(workers') <= taken'
    <3>1. 0 \in 0..Len(sourceChunks)
      BY <2>2
    <3>2. /\ Len(workers') = 0 /\ 0 - Len(workers') = 0 /\ workers' \in Seq(ChunkWorkers)
          /\ Len(workers') \in 0..2 /\ Len(workers') <= 0
      BY <2>1, <2>2, <3>1, NoWorkers
    <3> QED BY <1>2, <2>1, <3>1, <3>2
  <2>5. \A f \in TextFields :
              MergedUpTo(f, sourceChunks', session', merged'.parts, taken' - Len(workers'))
    BY <1>2, <2>1, <2>3, <2>4
  <2>6. \A i \in 1..Len(workers') : /\ WorksOn(workers'[i], sourceChunks'[taken' - Len(workers') + i])
                                   /\ LeavesOut(workers'[i], stage')
    BY <2>4
  <2>7. HalvesAtMost(merged'.parts, stage')
    BY <2>1, NothingLeftOut
  <2>8. Len(workers') <= 1
    BY <2>4
  <2> QED BY <2>4, <2>5, <2>6, <2>7, <2>8 DEF GenExtracting
<1> QED BY <1>3, <1>4, <1>5, <1>6 DEF GenInv

LEMMA GenStarts ==
  ASSUME GenInv, generateResultPayload
  PROVE  GenInv'
<1>1. stage = "start" /\ session' = session /\ merged' = merged /\ taken' = taken
      /\ workers' = workers
      /\ taken = 0 /\ workers = <<>> /\ merged = NothingMerged
  BY DEF generateResultPayload, GenInv, GenStart
<1>2. GenTypes'
  BY <1>1 DEF GenInv, GenTypes
<1>3. CASE Size(session) = 0
  <2>1. stage' = "done" /\ content' = [kind |-> "notice", parts |-> <<>>]
    BY <1>3 DEF generateResultPayload
  <2> QED BY <1>2, <2>1 DEF GenInv, GenStart, GenChunked, GenExtracting, GenMerged, GenContent
<1>4. CASE Size(session) # 0
  <2>1. stage' = "extract" /\ content' = content
        /\ sourceChunks' = splitNoteSources(session, SourceChunkChars)
    BY <1>4 DEF generateResultPayload
  <2>2. session \in PlainSources /\ SourceChunkChars \in Nat \ {0}
    BY GenerationAssumption DEF GenInv, GenTypes
  <2>3. LET cs == splitNoteSources(session, SourceChunkChars)
        IN cs \in Seq(PlainSources) /\ cs # <<>>
           /\ \A f \in TextFields : Adds(f, cs, <<>>, session[f])
    BY <2>2, PlainSourceIsSplit
  <2> DEFINE cs == sourceChunks'
  <2>4. cs \in Seq(PlainSources) /\ \A f \in TextFields : Adds(f, cs, <<>>, session[f])
    BY <2>1, <2>3
  <2>5. GenChunked'
    BY <1>1, <2>4 DEF GenChunked
  <2>6. \A f \in TextFields : MergedUpTo(f, cs, session, <<>>, 0)
    BY <2>4, MergesNothing
  <2>7. /\ workers' = <<>> /\ taken' = 0 /\ merged'.parts = <<>> /\ Len(workers') = 0
           /\ taken' - Len(workers') = 0
        /\ taken' \in 0..Len(cs) /\ workers' \in Seq(ChunkWorkers) /\ Len(workers') \in 0..2
           /\ Len(workers') <= taken'
    <3>1. workers' = <<>> /\ taken' = 0 /\ merged'.parts = <<>>
      BY <1>1 DEF NothingMerged
    <3>2. 0 \in 0..Len(cs)
      BY <2>4
    <3> HIDE DEF cs
    <3>3. /\ Len(workers') = 0 /\ 0 - Len(workers') = 0 /\ workers' \in Seq(ChunkWorkers)
          /\ Len(workers') \in 0..2 /\ Len(workers') <= 0
      BY <2>4, <3>1, <3>2, NoWorkers
    <3> QED BY <3>1, <3>2, <3>3
  <2>8. \A f \in TextFields : MergedUpTo(f, cs, session', merged'.parts, taken' - Len(workers'))
    <3> HIDE DEF cs
    <3> QED BY <1>1, <2>6, <2>7
  <2>9. \A i \in 1..Len(workers') : /\ WorksOn(workers'[i], sourceChunks'[taken' - Len(workers') + i])
                                   /\ LeavesOut(workers'[i], stage')
    BY <2>7
  <2>10. GenExtracting'
    <3>1. HalvesAtMost(merged'.parts, stage')
      BY <2>7, NothingLeftOut
    <3> QED BY <2>1, <2>7, <2>8, <2>9, <3>1 DEF GenExtracting
  <2>11. GenStart' /\ GenMerged' /\ GenContent'
    BY <1>1, <2>1 DEF GenInv, GenStart, GenMerged, GenContent
  <2> QED BY <1>2, <2>5, <2>10, <2>11 DEF GenInv
<1> QED BY <1>3, <1>4

\* The next batch of workers.
LEMMA GenTakes ==
  ASSUME GenInv, extractStructuredNotes
  PROVE  GenInv'
<1> DEFINE batch == SubSeq(sourceChunks, taken + 1,
                       IF taken + 2 > Len(sourceChunks) THEN Len(sourceChunks) ELSE taken + 2)
           n == Len(sourceChunks)
           last == IF taken + 2 > n THEN n ELSE taken + 2
           m == Len(batch)
<1>1. /\ stage = "extract" /\ workers = <<>> /\ taken < n
      /\ workers' = [i \in DOMAIN batch |-> Worker(<<Whole(batch[i])>>)]
      /\ taken' = taken + m
      /\ stage' = stage /\ session' = session /\ sourceChunks' = sourceChunks /\ merged' = merged
         /\ content' = content
  BY DEF extractStructuredNotes
<1>2. sourceChunks \in Seq(PlainSources) /\ taken \in 0..n /\ n \in Nat /\ taken \in Nat
  BY <1>1 DEF GenInv, GenChunked, GenExtracting
<1>3. /\ \A f \in TextFields : MergedUpTo(f, sourceChunks, session, merged.parts, taken)
      /\ HalvesAtMost(merged.parts, stage)
  <2>1. taken - Len(workers) = taken
    BY <1>1, <1>2
  <2>2. /\ \A f \in TextFields : MergedUpTo(f, sourceChunks, session, merged.parts, taken - Len(workers))
        /\ HalvesAtMost(merged.parts, stage)
    BY <1>1 DEF GenInv, GenExtracting
  <2> QED BY <2>1, <2>2
<1>4. /\ batch \in Seq(PlainSources) /\ m = last - taken /\ m \in 1..2 /\ taken + m \in 0..n
      /\ \A i \in 1..m : batch[i] = sourceChunks[taken + i]
  <2> DEFINE b == SubSeq(sourceChunks, taken + 1, last)
  <2>1. taken + 1 \in Int /\ last \in Int /\ last \in taken + 1..n /\ last <= taken + 2
    BY <1>1, <1>2
  <2>2. \A i \in (taken + 1)..last : sourceChunks[i] \in PlainSources
    <3>1. \A i \in (taken + 1)..last : i \in 1..n
      BY <1>2, <2>1
    <3> HIDE DEF last
    <3> QED BY <1>2, <3>1
  <2>3. /\ b \in Seq(PlainSources)
        /\ Len(b) = IF taken + 1 <= last THEN last - (taken + 1) + 1 ELSE 0
        /\ \A i \in 1..(last - (taken + 1) + 1) : b[i] = sourceChunks[taken + 1 + i - 1]
    <3> HIDE DEF last
    <3> QED BY <1>2, <2>1, <2>2, SubSeqProperties
  <2>4. b = batch
    OBVIOUS
  <2> HIDE DEF last, b, batch
  <2>5. Len(b) = last - taken
    BY <1>2, <2>1, <2>3
  <2>6. ASSUME NEW i \in 1..(last - taken)  PROVE b[i] = sourceChunks[taken + i]
    <3>1. i \in 1..(last - (taken + 1) + 1) /\ taken + 1 + i - 1 = taken + i
      BY <1>2, <2>1
    <3> QED BY <2>3, <3>1
  <2>7. Len(b) \in 1..2 /\ taken + Len(b) \in 0..n
    <3> DEFINE k == Len(b)
    <3>1. k = last - taken
      BY <2>5
    <3> HIDE DEF k, n
    <3>2. k \in 1..2 /\ taken + k \in 0..n
      BY <1>2, <2>1, <3>1
    <3> QED BY <3>2 DEF k
  <2> QED BY <2>3, <2>4, <2>5, <2>6, <2>7
<1> HIDE DEF batch, n, last, m
<1>5. ASSUME NEW i \in 1..m
      PROVE  workers'[i] \in ChunkWorkers /\ WorksOn(workers'[i], sourceChunks[taken + i])
             /\ LeavesOut(workers'[i], stage)
  <2>1. batch[i] \in PlainSources /\ DOMAIN batch = 1..m
    BY <1>4 DEF m
  <2>2. workers'[i] = Worker(<<Whole(batch[i])>>)
    BY <1>1, <2>1
  <2> DEFINE c == batch[i]
  <2>3. c \in PlainSources /\ workers'[i] = Worker(<<Whole(c)>>) /\ c = sourceChunks[taken + i]
    BY <1>4, <2>1, <2>2
  <2> HIDE DEF c
  <2>4. Worker(<<Whole(c)>>) \in ChunkWorkers /\ WorksOn(Worker(<<Whole(c)>>), c)
        /\ LeavesOut(Worker(<<Whole(c)>>), stage)
    BY <2>3, NewWorkerWorks, NewWorkerLeavesOut
  <2> QED BY <2>3, <2>4
<1>6. workers' \in Seq(ChunkWorkers) /\ Len(workers') = m
  <2> DEFINE ws == workers'
  <2>1. DOMAIN batch = 1..m /\ m \in Nat
    BY <1>4 DEF m
  <2>2. ws = [i \in 1..m |-> ws[i]]
    BY <1>1, <2>1
  <2>3. \A i \in 1..m : ws[i] \in ChunkWorkers
    BY <1>5
  <2> HIDE DEF ws
  <2>4. ws \in Seq(ChunkWorkers) /\ Len(ws) = m
    BY <2>1, <2>2, <2>3, SequenceOf
  <2> QED BY <2>4 DEF ws
<1>7. taken' - Len(workers') = taken /\ taken' \in 0..Len(sourceChunks') /\ Len(workers') <= taken'
      /\ Len(workers') \in 0..2
  <2>1. taken' = taken + m /\ Len(workers') = m /\ taken + m \in 0..n /\ m \in 1..2 /\ taken \in Nat
    BY <1>1, <1>2, <1>4, <1>6
  <2>2. n = Len(sourceChunks')
    BY <1>1 DEF n
  <2> DEFINE k == Len(workers')
             t == taken'
  <2>3. t = taken + m /\ k = m /\ t \in 0..n
    BY <2>1
  <2> HIDE DEF k, t
  <2>4. t - k = taken /\ k <= t /\ k \in 0..2
    BY <2>1, <2>3
  <2> QED BY <2>2, <2>3, <2>4 DEF k, t
<1>8. GenExtracting'
  <2>1. \A i \in 1..Len(workers') : /\ WorksOn(workers'[i], sourceChunks'[taken' - Len(workers') + i])
                                   /\ LeavesOut(workers'[i], stage')
    BY <1>1, <1>5, <1>6, <1>7
  <2>2. \A f \in TextFields :
              MergedUpTo(f, sourceChunks', session', merged'.parts, taken' - Len(workers'))
    BY <1>1, <1>3, <1>7
  <2>3. HalvesAtMost(merged'.parts, stage')
    BY <1>1, <1>3
  <2> QED BY <1>1, <1>6, <1>7, <2>1, <2>2, <2>3 DEF GenExtracting
<1>9. GenTypes' /\ GenChunked' /\ GenContent'
  BY <1>1 DEF GenInv, GenTypes, GenChunked, GenContent
<1>10. GenStart' /\ GenMerged'
  BY <1>1 DEF GenInv, GenStart, GenMerged
<1> QED BY <1>8, <1>9, <1>10 DEF GenInv

LEMMA GenExtracts ==
  ASSUME GenInv, NEW i \in DOMAIN workers, extractChunk(i) \/ generateLegacyChunk(i)
  PROVE  GenInv'
<1>1. PICK v \in OutcomesOf(workers[i], stage) : workers' = [workers EXCEPT ![i] = v]
  BY DEF extractChunk, generateLegacyChunk, OutcomesOf
<1>2. /\ stage \in {"extract", "legacy"} /\ workers[i].state = "busy"
      /\ stage' = stage /\ taken' = taken /\ session' = session /\ sourceChunks' = sourceChunks
         /\ merged' = merged
      /\ content' = content
  BY DEF extractChunk, generateLegacyChunk
<1> DEFINE m == Len(workers)
<1>3. /\ sourceChunks \in Seq(PlainSources) /\ taken \in 0..Len(sourceChunks)
         /\ workers \in Seq(ChunkWorkers)
      /\ m \in 0..2 /\ m <= taken /\ (stage = "legacy" => m <= 1)
      /\ \A j \in 1..m : WorksOn(workers[j], sourceChunks[taken - m + j]) /\ LeavesOut(workers[j], stage)
      /\ HalvesAtMost(merged.parts, stage)
      /\ \A f \in TextFields : MergedUpTo(f, sourceChunks, session, merged.parts, taken - m)
  BY <1>2 DEF GenInv, GenChunked, GenExtracting
<1>4. i \in 1..m /\ workers[i] \in ChunkWorkers
  BY <1>3
<1>5. sourceChunks[taken - m + i] \in PlainSources
  <2>1. taken - m + i \in 1..Len(sourceChunks)
    <3> HIDE DEF m
    <3>1. Len(sourceChunks) \in Nat
      BY <1>3
    <3> QED BY <1>3, <1>4, <3>1
  <2> QED BY <1>3, <2>1
<1>6. v \in ChunkWorkers /\ WorksOn(v, sourceChunks[taken - m + i]) /\ LeavesOut(v, stage)
  <2> DEFINE c == sourceChunks[taken - m + i]
             w == workers[i]
  <2>1. c \in PlainSources /\ w \in ChunkWorkers /\ w.state = "busy" /\ WorksOn(w, c)
        /\ v \in OutcomesOf(w, stage) /\ LeavesOut(w, stage) /\ stage \in {"extract", "legacy"}
    BY <1>2, <1>3, <1>4, <1>5
  <2> HIDE DEF c, w
  <2>2. v \in ChunkWorkers /\ WorksOn(v, c) /\ LeavesOut(v, stage)
    BY <2>1, OutcomeWorks
  <2> QED BY <2>2 DEF c
<1>7. workers' \in Seq(ChunkWorkers) /\ Len(workers') = m
      /\ \A j \in 1..m : workers'[j] = IF j = i THEN v ELSE workers[j]
  BY <1>1, <1>3, <1>4, <1>6
<1>8. \A j \in 1..m : WorksOn(workers'[j], sourceChunks[taken - m + j]) /\ LeavesOut(workers'[j], stage)
  <2> HIDE DEF m
  <2> QED BY <1>3, <1>6, <1>7
<1>9. GenExtracting'
  <2>1. Len(workers') = m
    BY <1>7
  <2> HIDE DEF m
  <2> QED BY <1>2, <1>3, <1>7, <1>8, <2>1 DEF GenExtracting
<1>10. GenTypes' /\ GenChunked' /\ GenContent' /\ GenStart' /\ GenMerged'
  BY <1>2 DEF GenInv, GenTypes, GenChunked, GenContent, GenStart, GenMerged
<1> QED BY <1>9, <1>10 DEF GenInv

LEMMA GenSettles ==
  ASSUME GenInv, SettleBatch
  PROVE  GenInv'
<1> DEFINE bad == FailedOf(workers)
           m == Len(workers)
<1>1. stage = "extract" /\ workers # <<>> /\ (\A i \in DOMAIN workers : workers[i].state # "busy")
      /\ session' = session /\ sourceChunks' = sourceChunks /\ content' = content
  BY DEF SettleBatch
<1>2. CASE bad # {}
  <2>1. NextAttempt(workers[Min(bad)].state = "truncated")
    BY <1>2 DEF SettleBatch
  <2> DEFINE truncated == workers[Min(bad)].state = "truncated"
  <2>2. NextAttempt(truncated)
    BY <2>1
  <2> HIDE DEF truncated
  <2> QED BY <1>1, <2>2, NextAttemptStep
<1>3. CASE bad = {}
  <2>1. /\ workers' = <<>> /\ merged' = Merge(merged.parts \o Extracted(workers)) /\ taken' = taken
        /\ \/ taken < Len(sourceChunks) /\ stage' = stage
           \/ ~(taken < Len(sourceChunks)) /\ stage' \in {"title", "overview"}
    BY <1>3 DEF SettleBatch
  <2>2. /\ sourceChunks \in Seq(PlainSources) /\ taken \in 0..Len(sourceChunks)
           /\ workers \in Seq(ChunkWorkers)
        /\ m \in 0..2 /\ m <= taken /\ Len(sourceChunks) \in Nat
        /\ \A j \in 1..m : /\ WorksOn(workers[j], sourceChunks[taken - m + j])
                          /\ LeavesOut(workers[j], "extract")
        /\ \A f \in TextFields : MergedUpTo(f, sourceChunks, session, merged.parts, taken - m)
        /\ HalvesAtMost(merged.parts, "extract")
        /\ merged.parts \in Seq(SourceParts)
    BY <1>1 DEF GenInv, GenTypes, GenChunked, GenExtracting
  <2>3. m \in {1, 2}
    <3>1. m # 0
      BY <1>1, <2>2
    <3> HIDE DEF m
    <3> QED BY <2>2, <3>1
  <2>4. \A j \in 1..m : workers[j].state = "done"
    <3>1. ASSUME NEW j \in 1..m  PROVE workers[j].state = "done"
      <4>1. j \in DOMAIN workers /\ workers[j] \in ChunkWorkers
        BY <2>2
      <4>2. workers[j].state \in {"busy", "done", "failed", "truncated"}
        BY <4>1 DEF ChunkWorkers
      <4>3. ~(workers[j].state \in {"failed", "truncated"})
        BY <1>3, <4>1 DEF FailedOf
      <4> QED BY <1>1, <4>1, <4>2, <4>3
    <3> QED BY <3>1
  <2> DEFINE parts == merged.parts
             batch == workers
             all == parts \o Extracted(batch)
  <2>5. ASSUME NEW f \in TextFields
        PROVE  all \in Seq(SourceParts) /\ MergedUpTo(f, sourceChunks, session, all, taken)
    <3>1. /\ parts \in Seq(SourceParts) /\ batch \in Seq(ChunkWorkers) /\ Len(batch) \in {1, 2}
          /\ taken \in 0..Len(sourceChunks) /\ Len(batch) <= taken
          /\ \A i \in 1..Len(batch) : batch[i].state = "done"
             /\ WorksOn(batch[i], sourceChunks[taken - Len(batch) + i])
          /\ MergedUpTo(f, sourceChunks, session, parts, taken - Len(batch))
          /\ sourceChunks \in Seq(PlainSources)
      BY <2>2, <2>3, <2>4
    <3> HIDE DEF parts, batch
    <3>2. /\ parts \o Extracted(batch) \in Seq(SourceParts)
          /\ MergedUpTo(f, sourceChunks, session, parts \o Extracted(batch), taken)
      BY <3>1, MergesBatch
    <3> QED BY <3>2
  <2>6. merged' = [parts |-> all, title |-> merged'.title] /\ merged'.parts = all
    <3> HIDE DEF all
    <3>1. merged' = Merge(all)
      BY <2>1 DEF all
    <3> QED BY <3>1 DEF Merge
  <2>7. all \in Seq(SourceParts)
        /\ \A f \in TextFields : MergedUpTo(f, sourceChunks, session, all, taken)
    <3>1. "note" \in TextFields
      BY DEF TextFields
    <3> HIDE DEF all
    <3> QED BY <2>5, <3>1
  <2>12. HalvesAtMost(all, "extract")
    <3>1. /\ parts \in Seq(SourceParts) /\ batch \in Seq(ChunkWorkers) /\ Len(batch) \in {1, 2}
          /\ \A i \in 1..Len(batch) : LeavesOut(batch[i], "extract")
          /\ HalvesAtMost(parts, "extract")
      BY <2>2, <2>3
    <3>2. \A i \in 1..Len(batch) : "extract" = "legacy" => Written(batch[i])
      OBVIOUS
    <3> HIDE DEF parts, batch
    <3> QED BY <3>1, <3>2, BatchLeavesHalves
  <2> HIDE DEF all
  <2>8. GenTypes'
    BY <1>1, <2>6, <2>7 DEF GenInv, GenTypes
  <2>9. GenStart' /\ GenContent' /\ GenChunked'
    BY <1>1, <2>1 DEF GenInv, GenStart, GenContent, GenChunked
  <2>10. GenExtracting'
    <3>1. Len(workers') = 0 /\ workers' \in Seq(ChunkWorkers) /\ taken' - Len(workers') = taken
          /\ taken' \in 0..Len(sourceChunks') /\ Len(workers') \in 0..2 /\ Len(workers') <= taken'
      BY <1>1, <2>1, <2>2
    <3>2. \A i \in 1..Len(workers') : /\ WorksOn(workers'[i], sourceChunks'[taken' - Len(workers') + i])
                                     /\ LeavesOut(workers'[i], stage')
      BY <3>1
    <3>3. \A f \in TextFields :
                MergedUpTo(f, sourceChunks', session', merged'.parts, taken' - Len(workers'))
      BY <1>1, <2>6, <2>7, <3>1
    <3>4. stage' = "extract" => HalvesAtMost(merged'.parts, stage')
      BY <2>6, <2>12
    <3>5. stage' # "legacy"
      BY <1>1, <2>1
    <3> QED BY <3>1, <3>2, <3>3, <3>4, <3>5 DEF GenExtracting
  <2>11. GenMerged'
    <3>1. ASSUME ~(taken < Len(sourceChunks)), NEW f \in TextFields
          PROVE Adds(f, all, <<>>, session[f])
      <4>1. taken = Len(sourceChunks)
        BY <2>2, <3>1
      <4> QED BY <2>7, <4>1 DEF MergedUpTo
    <3> QED BY <1>1, <2>1, <2>6, <2>12, <3>1 DEF GenMerged
  <2> QED BY <2>8, <2>9, <2>10, <2>11 DEF GenInv
<1> QED BY <1>2, <1>3

LEMMA GenOverviews ==
  ASSUME GenInv, synthesizeOverview
  PROVE  GenInv'
<1>1. /\ stage = "overview" /\ session' = session /\ sourceChunks' = sourceChunks
         /\ content' = content
      /\ stage' \in {"overview", "title"}
      /\ merged' = merged \/ \E title : merged' = [merged EXCEPT !.title = title]
  BY DEF synthesizeOverview, Overviewed
<1>2. merged'.parts = merged.parts /\ merged' = [parts |-> merged'.parts, title |-> merged'.title]
  <2>1. merged = [parts |-> merged.parts, title |-> merged.title]
    BY DEF GenInv, GenTypes
  <2>2. CASE merged' = merged
    BY <2>1, <2>2
  <2>3. ASSUME NEW title, merged' = [merged EXCEPT !.title = title]
        PROVE  merged'.parts = merged.parts
               /\ merged' = [parts |-> merged'.parts, title |-> merged'.title]
    <3> DEFINE p == merged.parts
               t == merged.title
    <3>1. merged = [parts |-> p, title |-> t]
      BY <2>1
    <3> HIDE DEF p, t
    <3>2. merged' = [parts |-> p, title |-> title]
      BY <2>3, <3>1
    <3> QED BY <3>2 DEF p
  <2> QED BY <1>1, <2>2, <2>3
<1>3. GenTypes' /\ GenMerged'
  BY <1>1, <1>2 DEF GenInv, GenTypes, GenMerged
<1>4. GenStart' /\ GenContent' /\ GenChunked' /\ GenExtracting'
  BY <1>1 DEF GenInv, GenStart, GenContent, GenChunked, GenExtracting
<1> QED BY <1>3, <1>4 DEF GenInv

\* The steps after the extraction, and those that touch none of it.
LEMMA GenFinishes ==
  ASSUME GenInv, SaveSuggestedTitle \/ AcceptExtraction
  PROVE  GenInv'
<1>1. /\ session' = session /\ sourceChunks' = sourceChunks /\ merged' = merged
      /\ \/ stage = "title" /\ stage' = "judge" /\ content' = content
         \/ /\ stage = "judge" /\ stage' = "done"
            /\ content' = [kind |-> "structured", parts |-> merged.parts]
  BY DEF SaveSuggestedTitle, AcceptExtraction
<1>2. GenTypes' /\ GenStart' /\ GenChunked' /\ GenExtracting' /\ GenMerged'
  BY <1>1 DEF GenInv, GenTypes, GenStart, GenChunked, GenExtracting, GenMerged
<1>3. GenContent'
  BY <1>1 DEF GenInv, GenTypes, GenMerged, GenContent, HalvesAtMost
<1> QED BY <1>2, <1>3 DEF GenInv

\* The older prompt takes the next chunk.
LEMMA GenTakesLegacy ==
  ASSUME GenInv, generateMeetingResult
  PROVE  GenInv'
<1> DEFINE n == Len(sourceChunks)
           c == sourceChunks[taken + 1]
           w == Worker(<<Whole(c)>>)
<1>1. /\ stage = "legacy" /\ workers = <<>> /\ taken < n /\ workers' = <<w>> /\ taken' = taken + 1
      /\ stage' = stage /\ session' = session /\ sourceChunks' = sourceChunks /\ merged' = merged
         /\ content' = content
  BY DEF generateMeetingResult
<1>2. sourceChunks \in Seq(PlainSources) /\ taken \in 0..n /\ n \in Nat
  BY <1>1 DEF GenInv, GenChunked, GenExtracting
<1>3. /\ \A f \in TextFields : MergedUpTo(f, sourceChunks, session, merged.parts, taken)
      /\ HalvesAtMost(merged.parts, "legacy")
  <2>1. taken - Len(workers) = taken
    BY <1>1, <1>2
  <2>2. /\ \A f \in TextFields : MergedUpTo(f, sourceChunks, session, merged.parts, taken - Len(workers))
        /\ HalvesAtMost(merged.parts, "legacy")
    BY <1>1 DEF GenInv, GenExtracting
  <2> QED BY <2>1, <2>2
<1>4. c \in PlainSources /\ w \in ChunkWorkers /\ WorksOn(w, c) /\ LeavesOut(w, "legacy")
  <2>1. c \in PlainSources
    BY <1>1, <1>2
  <2> HIDE DEF c
  <2> QED BY <2>1, NewWorkerWorks, NewWorkerLeavesOut
<1> HIDE DEF w
<1>5. /\ Len(workers') = 1 /\ workers'[1] = w /\ workers' \in Seq(ChunkWorkers)
      /\ taken' - Len(workers') = taken /\ taken' \in 0..n /\ Len(workers') <= taken'
         /\ taken' - Len(workers') + 1 = taken + 1
  BY <1>1, <1>2, <1>4
<1>6. \A i \in 1..Len(workers') : /\ WorksOn(workers'[i], sourceChunks'[taken' - Len(workers') + i])
                                 /\ LeavesOut(workers'[i], stage')
  <2>1. \A i \in 1..Len(workers') : i = 1
    BY <1>5
  <2> QED BY <1>1, <1>4, <1>5, <2>1
<1>7. GenExtracting'
  BY <1>1, <1>3, <1>5, <1>6 DEF GenExtracting
<1>8. GenTypes' /\ GenChunked' /\ GenContent' /\ GenStart' /\ GenMerged'
  BY <1>1 DEF GenInv, GenTypes, GenChunked, GenContent, GenStart, GenMerged
<1> QED BY <1>7, <1>8 DEF GenInv

\* The older prompt goes on behind a chunk that says something.
LEMMA GenPushes ==
  ASSUME GenInv, PushChunk
  PROVE  GenInv'
<1> DEFINE parts == merged.parts
           batch == workers
           all == parts \o Extracted(batch)
<1>1. /\ stage = "legacy" /\ workers # <<>> /\ Written(workers[1])
      /\ merged' = Merge(all) /\ workers' = <<>> /\ taken' = taken
      /\ stage' = stage /\ session' = session /\ sourceChunks' = sourceChunks /\ content' = content
  BY DEF PushChunk
<1>2. /\ sourceChunks \in Seq(PlainSources) /\ taken \in 0..Len(sourceChunks)
      /\ batch \in Seq(ChunkWorkers) /\ Len(batch) <= 1 /\ Len(batch) <= taken
      /\ \A i \in 1..Len(batch) : /\ WorksOn(batch[i], sourceChunks[taken - Len(batch) + i])
                                 /\ LeavesOut(batch[i], "legacy")
      /\ \A f \in TextFields : MergedUpTo(f, sourceChunks, session, parts, taken - Len(batch))
      /\ HalvesAtMost(parts, "legacy") /\ parts \in Seq(SourceParts)
  BY <1>1 DEF GenInv, GenTypes, GenChunked, GenExtracting
<1>3. Len(batch) = 1
  <2> HIDE DEF batch
  <2>1. batch # <<>>
    BY <1>1 DEF batch
  <2> DEFINE k == Len(batch)
  <2>2. k # 0 /\ k \in Nat /\ k <= 1
    BY <1>2, <2>1, EmptySeq
  <2> HIDE DEF k
  <2>3. k = 1
    BY <2>2
  <2> QED BY <2>3 DEF k
<1>4. \A i \in 1..Len(batch) : batch[i].state = "done" /\ Written(batch[i])
  <2>1. \A i \in 1..Len(batch) : i = 1
    BY <1>3
  <2> QED BY <1>1, <2>1 DEF Written
<1>5. ASSUME NEW f \in TextFields
      PROVE  all \in Seq(SourceParts) /\ MergedUpTo(f, sourceChunks, session, all, taken)
  <2> HIDE DEF parts, batch
  <2> QED BY <1>2, <1>3, <1>4, MergesBatch
<1>6. HalvesAtMost(all, "legacy")
  <2> HIDE DEF parts, batch
  <2> QED BY <1>2, <1>3, <1>4, BatchLeavesHalves
<1>7. all \in Seq(SourceParts) /\ \A f \in TextFields : MergedUpTo(f, sourceChunks, session, all, taken)
  <2>1. "note" \in TextFields
    BY DEF TextFields
  <2> HIDE DEF all
  <2> QED BY <1>5, <2>1
<1> HIDE DEF all
<1>8. merged' = [parts |-> all, title |-> merged'.title] /\ merged'.parts = all
  BY <1>1 DEF Merge
<1>9. GenExtracting'
  <2>1. Len(workers') = 0 /\ workers' \in Seq(ChunkWorkers) /\ taken' - Len(workers') = taken
        /\ taken' \in 0..Len(sourceChunks') /\ Len(workers') <= taken'
    BY <1>1, <1>2
  <2>2. \A i \in 1..Len(workers') : /\ WorksOn(workers'[i], sourceChunks'[taken' - Len(workers') + i])
                                   /\ LeavesOut(workers'[i], stage')
    BY <2>1
  <2>3. /\ \A f \in TextFields :
              MergedUpTo(f, sourceChunks', session', merged'.parts, taken' - Len(workers'))
        /\ HalvesAtMost(merged'.parts, stage')
    BY <1>1, <1>6, <1>7, <1>8, <2>1
  <2> QED BY <2>1, <2>2, <2>3 DEF GenExtracting
<1>10. GenTypes'
  BY <1>1, <1>7, <1>8 DEF GenInv, GenTypes
<1>11. GenChunked' /\ GenContent' /\ GenStart' /\ GenMerged'
  BY <1>1 DEF GenInv, GenChunked, GenContent, GenStart, GenMerged
<1> QED BY <1>9, <1>10, <1>11 DEF GenInv

\* The document of the older prompt is accepted, or given up.
LEMMA GenFallsBack ==
  ASSUME GenInv, AcceptLegacy \/ buildFallbackContent
  PROVE  GenInv'
<1>1. /\ stage = "legacy" /\ stage' = "done"
      /\ session' = session /\ sourceChunks' = sourceChunks /\ merged' = merged
      /\ \/ /\ workers = <<>> /\ taken = Len(sourceChunks)
            /\ content' = [kind |-> "legacy", parts |-> merged.parts]
         \/ content'.kind = "raw"
  BY DEF AcceptLegacy, buildFallbackContent, LegacyWritten
<1>2. GenTypes' /\ GenStart' /\ GenChunked' /\ GenExtracting' /\ GenMerged'
  BY <1>1 DEF GenInv, GenTypes, GenStart, GenChunked, GenExtracting, GenMerged
<1>3. GenContent'
  <2>1. CASE content'.kind = "raw"
    BY <2>1 DEF GenContent
  <2>2. CASE /\ workers = <<>> /\ taken = Len(sourceChunks)
             /\ content' = [kind |-> "legacy", parts |-> merged.parts]
    <3>1. /\ sourceChunks \in Seq(PlainSources) /\ merged.parts \in Seq(SourceParts)
          /\ \A f \in TextFields :
               MergedUpTo(f, sourceChunks, session, merged.parts, taken - Len(workers))
          /\ HalvesAtMost(merged.parts, "legacy")
      BY <1>1 DEF GenInv, GenTypes, GenChunked, GenExtracting
    <3>2. taken - Len(workers) = Len(sourceChunks)
      BY <2>2, <3>1
    <3>3. \A f \in TextFields : Adds(f, merged.parts, <<>>, session[f])
      BY <3>1, <3>2 DEF MergedUpTo
    <3>4. content'.kind = "legacy" /\ content'.parts = merged.parts
      BY <2>2
    <3> QED BY <1>1, <3>1, <3>3, <3>4 DEF GenContent
  <2> QED BY <1>1, <2>1, <2>2
<1> QED BY <1>2, <1>3 DEF GenInv

LEMMA GenRests ==
  ASSUME GenInv, UNCHANGED <<session, stage, sourceChunks, taken, workers, merged, content>>
  PROVE  GenInv'
BY DEF GenInv, GenTypes, GenStart, GenChunked, GenExtracting, GenMerged, GenContent

LEMMA GenInvNext == GenInv /\ [GenerationNext]_generationVars => GenInv'
<1> SUFFICES ASSUME GenInv, [GenerationNext]_generationVars PROVE GenInv'
  OBVIOUS
<1>1. CASE generateResultPayload
  BY <1>1, GenStarts
<1>2. CASE extractStructuredNotes
  BY <1>2, GenTakes
<1>3. CASE \E i \in DOMAIN workers : extractChunk(i) \/ generateLegacyChunk(i)
  BY <1>3, GenExtracts
<1>4. CASE SettleBatch
  BY <1>4, GenSettles
<1>5. CASE synthesizeOverview
  BY <1>5, GenOverviews
<1>6. CASE SaveSuggestedTitle \/ AcceptExtraction
  BY <1>6, GenFinishes
<1>7. CASE FailTitle \/ RejectExtraction
  <2>1. stage \in {"title", "judge"} /\ NextAttempt(FALSE)
        /\ UNCHANGED <<session, sourceChunks, content>>
    BY <1>7 DEF FailTitle, RejectExtraction
  <2> QED BY <2>1, NextAttemptStep
<1>8. CASE generateMeetingResult \/ PushChunk
  BY <1>8, GenTakesLegacy, GenPushes
<1>10. CASE AcceptLegacy \/ buildFallbackContent
  BY <1>10, GenFallsBack
<1>9. CASE UserNamesMeeting \/ UNCHANGED generationVars
  <2>1. UNCHANGED <<session, stage, sourceChunks, taken, workers, merged, content>>
    BY <1>9 DEF UserNamesMeeting, generationVars
  <2> QED BY <2>1, GenRests
<1> QED BY <1>1, <1>2, <1>3, <1>4, <1>5, <1>6, <1>7, <1>8, <1>9, <1>10 DEF GenerationNext, GenerationStep

LEMMA GenInvImplies == GenInv => MinutesCoverSource
<1> SUFFICES ASSUME GenInv, content.kind \in {"structured", "legacy"}
    PROVE  /\ Joined("note", content.parts) = session.note
           /\ Joined("text", content.parts) = session.text
           /\ \A i \in DOMAIN content.parts :
                content.parts[i].says = "nothing" =>
                  content.kind = "legacy" /\ content.parts[i].depth > 0
  BY DEF MinutesCoverSource
<1> DEFINE cs == content.parts
<1>1. Len(cs) \in Nat /\ DOMAIN cs = 1..Len(cs) /\ Adds("note", cs, <<>>, session.note)
      /\ Adds("text", cs, <<>>, session.text) /\ HalvesAtMost(cs, content.kind)
  BY DEF GenInv, GenContent, TextFields
<1> HIDE DEF cs
<1>2. Joined("note", cs) = session.note /\ Joined("text", cs) = session.text
  BY <1>1, JoinedAdds
<1>3. \A i \in DOMAIN cs : cs[i].says = "nothing" => content.kind = "legacy" /\ cs[i].depth > 0
  BY <1>1 DEF HalvesAtMost
<1> QED BY <1>2, <1>3 DEF cs

\* Minutes that a model has written rest on the whole note and the whole transcript in their order,
\* however often a chunk was halved or an attempt repeated; all that the older prompt leaves out is
\* halves that were answered with nothing (extractStructuredNotes, generateMeetingResult,
\* generateContentWithAI), for any number of chunks, any depth of halving and any number of attempts.
THEOREM MinutesRestOnTheWholeSource == GenerationSpec => []MinutesCoverSource
<1>1. GenerationInit => GenInv
  BY GenInvInit
<1>2. GenInv /\ [GenerationNext]_generationVars => GenInv'
  BY GenInvNext
<1>3. GenInv => MinutesCoverSource
  BY GenInvImplies
<1> QED BY <1>1, <1>2, <1>3, PTL DEF GenerationSpec
=============================================================================
