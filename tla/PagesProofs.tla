----------------------------- MODULE PagesProofs -----------------------------
(***************************************************************************)
(* The headers of a page, for any number of lines, in any pieces.  What     *)
(* inputHeaders keeps between two pieces is only its state and how far it   *)
(* has parsed: the invariant says which lines it must have read to be       *)
(* there, and that it never leaves a complete line behind unless the fate   *)
(* of the page is decided.                                                  *)
(*                                                                          *)
(* The names of links, of any length.  The loop of fileNormalize ends, as   *)
(* each of its rounds leaves less of the name to read (ByRounds), so a      *)
(* round is all there is to look at (RoundSteps).  No round leaves a "//",  *)
(* "." or ".." behind (LoopSettles), and none changes what the name means   *)
(* (LoopMeans).                                                             *)
(*                                                                          *)
(* The robots.txt, for any number of records, names and rules, wherever it  *)
(* is cut.  The text is taken from its end: what stands from a record, a    *)
(* rule or a name on (Rest, FromRule, FromAgent) begins with the next token *)
(* (ReadRecord, ReadRules, ReadAgents).  The invariant (RInv) says where in *)
(* the file the parser is and whose rules it holds: those of the best of    *)
(* the records read so far (Between, Within, InNames, Skipping), or that a  *)
(* cut text has ended.  A part has no token that the whole has not          *)
(* (CutToken).                                                              *)
(***************************************************************************)
EXTENDS Pages, QueueLemmas

-----------------------------------------------------------------------------
(* The line that decides *)

\* The lines that end the headers of a page that is there, and of one that moved.
OkSet == {"end", "other type", "too long"}
MovedSet == {"end", "location", "location cgi"}

\* Line i is the first of the set after the answer.
FirstAt(ls, set, i) ==
    i \in 2..Len(ls) /\ ls[i] \in set /\ \A j \in 2..(i - 1) : ls[j] \notin set

\* The first line of the set decides.
LEMMA DecidesAt ==
    ASSUME NEW S, NEW ls \in Seq(S), NEW set, NEW i, FirstAt(ls, set, i)
    PROVE  Decides(ls, set) = ls[i]
<1> DEFINE I == {k \in 2..Len(ls) : ls[k] \in set}
<1>1. i \in I /\ \A k \in I : i <= k
  <2>1. Len(ls) \in Nat
    OBVIOUS
  <2>2. i \in I
    BY DEF FirstAt
  <2>3. ASSUME NEW k \in I PROVE i <= k
    BY <2>1, <2>3 DEF FirstAt
  <2> QED  BY <2>2, <2>3
<1>2. I \subseteq Int
  OBVIOUS
<1>3. Min(I) = i
  <2> HIDE DEF I
  <2>1. \A k \in I : (\A j \in I : k <= j) => k = i
    BY <1>1, <1>2
  <2> QED  BY <1>1, <2>1 DEF Min
<1>4. SelectInSubSeq(ls, 2, Len(ls), LAMBDA line: line \in set) = i
  BY <1>1, <1>3 DEF SelectInSubSeq
<1>5. i # 0
  BY DEF FirstAt
<1> QED  BY <1>4, <1>5 DEF Decides

\* No line of the set, and nothing is decided.
LEMMA DecidesNothing ==
    ASSUME NEW S, NEW ls \in Seq(S), NEW set,
           \A j \in 2..Len(ls) : ls[j] \notin set
    PROVE  Decides(ls, set) = "none"
<1>1. {k \in 2..Len(ls) : ls[k] \in set} = {}
  OBVIOUS
<1>2. SelectInSubSeq(ls, 2, Len(ls), LAMBDA line: line \in set) = 0
  BY <1>1 DEF SelectInSubSeq
<1> QED  BY <1>2 DEF Decides

-----------------------------------------------------------------------------
(* The invariant *)

Words == Answers \cup Headers

\* An answer, then headers.
AreHeaders(ls) ==
    /\ ls \in Seq(Words)
    /\ ls # <<>> => ls[1] \in Answers
    /\ \A i \in 2..Len(ls) : ls[i] \in Headers

LinesType ==
    /\ AreHeaders(lines)
    /\ half \in BOOLEAN /\ (half => lines # <<>>)
    /\ inputting \in BOOLEAN
    /\ parsed \in 0..Len(Lines)

\* No line of the set among the first n.
NoneOf(ls, set, n) == \A i \in 2..n : ls[i] \notin set

\* The page is given up at its line n, for reason e.
GivenUp(ls, n, e) ==
    \/ e = "earlyStop" /\ ls[1] = "short"
    \/ e = "err40X" /\ ls[1] = "4xx"
    \/ e = "badType" /\ ls[1] = "2xx" /\ FirstAt(ls, OkSet, n) /\ ls[n] = "other type"
    \/ e = "tooBig" /\ ls[1] = "2xx" /\ FirstAt(ls, OkSet, n) /\ ls[n] = "too long"
    \/ e = "err40X" /\ ls[1] = "3xx" /\ FirstAt(ls, MovedSet, n) /\ ls[n] = "end"
    \/ e = "err30X" /\ ls[1] = "3xx" /\ FirstAt(ls, MovedSet, n) /\ ls[n] # "end"

\* The state s, when n of the lines are parsed.
IsAt(ls, s, n, e) ==
    /\ s \in {"none", "parsing", "closed"} \cup HeaderStates \cup {"html"}
    /\ s = "answer" => n = 0
    /\ s = "headers" => n > 0 /\ ls[1] = "2xx" /\ NoneOf(ls, OkSet, n)
    /\ s = "headers30x" => n > 0 /\ ls[1] = "3xx" /\ NoneOf(ls, MovedSet, n)
    /\ s = "html" => ls[1] = "2xx" /\ FirstAt(ls, OkSet, n) /\ ls[n] = "end"
    /\ s \in HeaderStates \cup {"html"} => e = "success"

\* The lines are gone once the page is complete or has failed.
Gone(ls, s, n, e) ==
    /\ s \in {"none", "parsing"} => ls = <<>>
    /\ s = "closed" => ls = <<>> \/ (n > 0 /\ GivenUp(ls, n, e))

\* Nothing complete is left to parse between two pieces.
AllParsed == ~inputting /\ state \in HeaderStates => parsed = Len(Lines)

OnlyInHeaders == inputting => state \in HeaderStates \cup {"html"}

HInv ==
    /\ LinesType
    /\ IsAt(Lines, state, parsed, errno)
    /\ Gone(Lines, state, parsed, errno)
    /\ state \in {"none", "parsing"} => lines = <<>>
    /\ AllParsed /\ OnlyInHeaders

LEMMA NoHeaders == AreHeaders(<<>>)
<1>1. 2..Len(<<>>) = {}
  OBVIOUS
<1> QED  BY <1>1 DEF AreHeaders

\* The complete lines are lines.
LEMMA LinesAre ==
    ASSUME LinesType
    PROVE  /\ AreHeaders(Lines)
           /\ Len(Lines) = IF half THEN Len(lines) - 1 ELSE Len(lines)
           /\ \A i \in 1..Len(Lines) : Lines[i] = lines[i]
<1>1. CASE ~half
  BY <1>1 DEF LinesType, Lines
<1>2. CASE half
  <2>1. lines \in Seq(Words) /\ lines # <<>>
    BY <1>2 DEF LinesType, AreHeaders
  <2>2. Len(lines) \in Nat /\ Len(lines) > 0
    BY <2>1, EmptySeq
  <2>3. Lines = SubSeq(lines, 1, Len(lines) - 1)
    BY <1>2 DEF Lines, Front
  <2>4. /\ Lines \in Seq(Words)
        /\ Len(Lines) = Len(lines) - 1
        /\ \A i \in 1..Len(Lines) : Lines[i] = lines[i]
    <3>1. Len(lines) - 1 \in 0..Len(lines)
      BY <2>2
    <3> QED  BY <2>1, <2>2, <2>3, <3>1, CutSeq
  <2>5. Lines # <<>> => Len(Lines) > 0
    BY <2>4, EmptySeq
  <2> QED  BY <1>2, <2>1, <2>2, <2>4, <2>5 DEF LinesType, AreHeaders
<1> QED  BY <1>1, <1>2 DEF LinesType

\* What the lines say of the page, once they decide.
LEMMA ExpectedOf ==
    ASSUME NEW ls, AreHeaders(ls), NEW s, NEW n, NEW e, ls # <<>>,
           IsAt(ls, s, n, e), Gone(ls, s, n, e),
           s \in HeaderStates => n = Len(ls)
    PROVE  Expected(ls) = IF e = "success" THEN s ELSE e
<1>1. ls \in Seq(Words) /\ Len(ls) \in Nat /\ Len(ls) > 0
  BY EmptySeq DEF AreHeaders
<1>2. s # "none" /\ s # "parsing" /\ s # "answer"
  BY <1>1 DEF Gone, IsAt, HeaderStates
<1>3. CASE s = "headers"
  <2>1. ls[1] = "2xx" /\ e = "success" /\ n = Len(ls) /\ NoneOf(ls, OkSet, n)
    BY <1>3 DEF IsAt, HeaderStates
  <2>2. Decides(ls, OkSet) = "none"
    BY <1>1, <2>1, DecidesNothing DEF NoneOf
  <2> QED  BY <1>3, <2>1, <2>2 DEF Expected, OkSet
<1>4. CASE s = "headers30x"
  <2>1. ls[1] = "3xx" /\ e = "success" /\ n = Len(ls) /\ NoneOf(ls, MovedSet, n)
    BY <1>4 DEF IsAt, HeaderStates
  <2>2. Decides(ls, MovedSet) = "none"
    BY <1>1, <2>1, DecidesNothing DEF NoneOf
  <2> QED  BY <1>4, <2>1, <2>2 DEF Expected, MovedSet
<1>5. CASE s = "html"
  <2>1. ls[1] = "2xx" /\ e = "success" /\ FirstAt(ls, OkSet, n) /\ ls[n] = "end"
    BY <1>5 DEF IsAt
  <2>2. Decides(ls, OkSet) = "end"
    BY <1>1, <2>1, DecidesAt
  <2> QED  BY <1>5, <2>1, <2>2 DEF Expected, OkSet
<1>6. CASE s = "closed"
  <2>1. GivenUp(ls, n, e)
    BY <1>6 DEF Gone
  <2>2. CASE e = "earlyStop" /\ ls[1] = "short"
    BY <2>2 DEF Expected
  <2>3. CASE e = "err40X" /\ ls[1] = "4xx"
    BY <2>3 DEF Expected
  <2>4. CASE e = "badType" /\ ls[1] = "2xx" /\ FirstAt(ls, OkSet, n) /\ ls[n] = "other type"
    <3>1. Decides(ls, OkSet) = "other type"
      BY <1>1, <2>4, DecidesAt
    <3> QED  BY <2>4, <3>1 DEF Expected, OkSet
  <2>5. CASE e = "tooBig" /\ ls[1] = "2xx" /\ FirstAt(ls, OkSet, n) /\ ls[n] = "too long"
    <3>1. Decides(ls, OkSet) = "too long"
      BY <1>1, <2>5, DecidesAt
    <3> QED  BY <2>5, <3>1 DEF Expected, OkSet
  <2>6. CASE e = "err40X" /\ ls[1] = "3xx" /\ FirstAt(ls, MovedSet, n) /\ ls[n] = "end"
    <3>1. Decides(ls, MovedSet) = "end"
      BY <1>1, <2>6, DecidesAt
    <3> QED  BY <2>6, <3>1 DEF Expected, MovedSet
  <2>7. CASE e = "err30X" /\ ls[1] = "3xx" /\ FirstAt(ls, MovedSet, n) /\ ls[n] # "end"
    <3>1. Decides(ls, MovedSet) \in {"location", "location cgi"}
      BY <1>1, <2>7, DecidesAt DEF FirstAt, MovedSet
    <3> QED  BY <2>7, <3>1 DEF Expected, MovedSet
  <2> QED  BY <2>1, <2>2, <2>3, <2>4, <2>5, <2>6, <2>7 DEF GivenUp
<1> QED  BY <1>2, <1>3, <1>4, <1>5, <1>6 DEF IsAt, HeaderStates

\* The invariant implies the property.
LEMMA ReadHeaders == HInv => HeadersRead
<1> SUFFICES ASSUME HInv, Lines # <<>>, ~inputting
             PROVE  Expected(Lines) = IF errno = "success" THEN state ELSE errno
  BY DEF HeadersRead
<1>1. AreHeaders(Lines)
  BY LinesAre DEF HInv
<1>2. /\ IsAt(Lines, state, parsed, errno)
      /\ Gone(Lines, state, parsed, errno)
      /\ state \in HeaderStates => parsed = Len(Lines)
  BY DEF HInv, AllParsed
<1> HIDE DEF Lines
<1> QED  BY ONLY <1>1, <1>2, Lines # <<>>, ExpectedOf

-----------------------------------------------------------------------------
(* The steps *)

LEMMA InitHeaders == Init => HInv
<1> SUFFICES ASSUME Init PROVE HInv
  OBVIOUS
<1>1. state = "none" /\ lines = <<>> /\ half = FALSE /\ parsed = 0 /\ inputting = FALSE
  BY DEF Init
<1>2. Lines = <<>> /\ Len(Lines) = 0
  BY <1>1 DEF Lines
<1>3. LinesType
  <2>1. AreHeaders(lines)
    BY <1>1, NoHeaders
  <2>2. half \in BOOLEAN /\ (half => lines # <<>>)
    BY <1>1
  <2>3. inputting \in BOOLEAN
    BY <1>1
  <2>4. parsed \in 0..Len(Lines)
    BY <1>1, <1>2
  <2> QED  BY <2>1, <2>2, <2>3, <2>4 DEF LinesType
<1> QED  BY <1>1, <1>2, <1>3 DEF HInv, IsAt, Gone, AllParsed, OnlyInHeaders, HeaderStates

\* Only what the headers are about.
headerVars == <<state, lines, half, parsed, inputting, errno>>

LEMMA SameHeaders == ASSUME HInv, UNCHANGED headerVars PROVE HInv'
<1>1. Lines' = Lines
  BY DEF headerVars, Lines
<1> QED
  BY <1>1 DEF headerVars, HInv, LinesType, AllParsed, OnlyInHeaders

\* The lines are gone: StartPage, and the end of a page before its content.
LEMMA NoLines ==
    ASSUME lines' = <<>>, half' = FALSE, parsed' = 0, inputting' = FALSE,
           \/ state' = "answer" /\ errno' = "success"
           \/ state' \in {"none", "parsing", "closed"}
    PROVE  HInv'
<1>1. Lines' = <<>> /\ Len(Lines') = 0 /\ Len(lines') = 0
  BY DEF Lines
<1>2. LinesType'
  <2>1. AreHeaders(lines')
    BY <1>1, NoHeaders
  <2>2. half' \in BOOLEAN /\ (half' => lines' # <<>>)
    OBVIOUS
  <2>3. inputting' \in BOOLEAN
    OBVIOUS
  <2>4. parsed' \in 0..Len(Lines')
    BY <1>1
  <2> QED  BY <2>1, <2>2, <2>3, <2>4 DEF LinesType
<1> QED  BY <1>1, <1>2 DEF HInv, IsAt, Gone, AllParsed, OnlyInHeaders, HeaderStates

\* A piece that comes after some lines, or before all of them.
IsPiece(more, some) ==
    /\ more \in Seq(Words) /\ Len(more) \in Nat
    /\ ~some /\ more # <<>> => more[1] \in Answers
    /\ \A i \in 1..Len(more) : some \/ i > 1 => more[i] \in Headers
    /\ more # <<>> => Len(more) > 0

LEMMA PieceOf ==
    ASSUME NEW more, NEW ls, more \in Following(ls)
    PROVE  IsPiece(more, ls # <<>>)
<1> DEFINE next == IF ls = <<>> THEN Answers ELSE Headers
<1>1. \/ more = <<>>
      \/ \E l \in next : more = <<l>>
      \/ \E l \in next, m \in Headers : more = <<l, m>>
  BY DEF Following
<1>2. CASE more = <<>>
  BY <1>2 DEF IsPiece
<1>3. ASSUME NEW l \in next, more = <<l>>
      PROVE  IsPiece(more, ls # <<>>)
  BY <1>3 DEF Words, IsPiece
<1>4. ASSUME NEW l \in next, NEW m \in Headers, more = <<l, m>>
      PROVE  IsPiece(more, ls # <<>>)
  <2>1. l \in Words /\ m \in Words
    BY DEF Words
  <2>2. Len(more) = 2 /\ more[1] = l /\ more[2] = m /\ more \in Seq(Words)
    BY <1>4, <2>1
  <2>3. \A i \in 1..2 : i = 1 \/ i = 2
    OBVIOUS
  <2> QED  BY <2>2, <2>3 DEF IsPiece
<1> QED  BY <1>1, <1>2, <1>3, <1>4

\* A piece only adds lines.
LEMMA ArriveLines ==
    ASSUME LinesType, NEW more, more \in Following(lines), lines' = lines \o more,
           half' \in IF more = <<>> THEN {FALSE} ELSE BOOLEAN, more = <<>> => half
    PROVE  /\ AreHeaders(lines') /\ lines' # <<>> /\ half' \in BOOLEAN
           /\ Len(Lines') >= Len(Lines)
           /\ \A i \in 1..Len(Lines) : Lines'[i] = Lines[i]
<1>1. lines \in Seq(Words) /\ Len(lines) \in Nat /\ (lines # <<>> => Len(lines) > 0)
  BY EmptySeq DEF LinesType, AreHeaders
<1>2. /\ more \in Seq(Words) /\ Len(more) \in Nat
      /\ lines = <<>> /\ more # <<>> => more[1] \in Answers
      /\ \A i \in 1..Len(more) : lines # <<>> \/ i > 1 => more[i] \in Headers
      /\ more # <<>> => Len(more) > 0
  BY PieceOf DEF IsPiece
<1>3. /\ lines' \in Seq(Words) /\ Len(lines') = Len(lines) + Len(more)
      /\ \A i \in 1..Len(lines') :
           lines'[i] = IF i <= Len(lines) THEN lines[i] ELSE more[i - Len(lines)]
  BY <1>1, <1>2, ConcatProperties
<1>4. lines # <<>> \/ more # <<>>
  BY DEF LinesType
<1>5. Len(lines') > 0 /\ lines' # <<>>
  BY <1>1, <1>2, <1>3, <1>4
<1>6. lines'[1] \in Answers
  <2>1. CASE lines # <<>>
    BY <1>1, <1>3, <1>5, <2>1 DEF LinesType, AreHeaders
  <2>2. CASE lines = <<>>
    BY <1>1, <1>2, <1>3, <1>4, <1>5, <2>2
  <2> QED  BY <2>1, <2>2
<1>7. ASSUME NEW i \in 2..Len(lines') PROVE lines'[i] \in Headers
  <2>1. CASE i <= Len(lines)
    BY <1>1, <1>2, <1>3, <2>1 DEF LinesType, AreHeaders
  <2>2. CASE i > Len(lines)
    <3>1. i - Len(lines) \in 1..Len(more) /\ (lines # <<>> \/ i - Len(lines) > 1)
      BY <1>1, <1>2, <1>3, <2>2
    <3> QED  BY <1>1, <1>2, <1>3, <2>2, <3>1
  <2> QED  BY <1>1, <2>1, <2>2
<1>8. AreHeaders(lines') /\ half' \in BOOLEAN
  BY <1>3, <1>6, <1>7 DEF AreHeaders
<1>9. /\ Len(Lines') = IF half' THEN Len(lines') - 1 ELSE Len(lines')
      /\ \A i \in 1..Len(Lines') : Lines'[i] = lines'[i]
  <2>1. CASE ~half'
    BY <2>1 DEF Lines
  <2>2. CASE half'
    <3>1. Len(lines') - 1 \in 0..Len(lines') /\ Lines' = SubSeq(lines', 1, Len(lines') - 1)
      BY <1>3, <1>5, <2>2, <1>1, <1>2 DEF Lines, Front
    <3> QED  BY <1>3, <2>2, <3>1, CutSeq
  <2> QED  BY <1>8, <2>1, <2>2
<1>10. /\ Len(Lines) = IF half THEN Len(lines) - 1 ELSE Len(lines)
       /\ \A i \in 1..Len(Lines) : Lines[i] = lines[i]
  BY LinesAre
<1>11. Len(Lines') >= Len(Lines) /\ Len(Lines) <= Len(lines)
       /\ Len(Lines) \in Int /\ Len(Lines') \in Int
  <2>1. CASE more = <<>>
    BY <1>1, <1>2, <1>3, <1>9, <1>10, <2>1 DEF LinesType
  <2>2. CASE more # <<>>
    BY <1>1, <1>2, <1>3, <1>8, <1>9, <1>10, <2>2 DEF LinesType
  <2> QED  BY <2>1, <2>2
<1> QED
  <2>1. ASSUME NEW i \in 1..Len(Lines) PROVE Lines'[i] = Lines[i]
    <3>1. i \in 1..Len(Lines') /\ i \in 1..Len(lines') /\ i <= Len(lines)
      BY <1>1, <1>2, <1>3, <1>11
    <3> QED  BY <1>3, <1>9, <1>10, <3>1
  <2> QED  BY <1>5, <1>8, <1>11, <2>1


\* Between two pieces, and while one is parsed.
LEMMA ArriveHeaders == ASSUME HInv, Arrive PROVE HInv'
<1>1. PICK more \in Following(lines) :
        /\ lines' = lines \o more
        /\ half' \in IF more = <<>> THEN {FALSE} ELSE BOOLEAN
        /\ more = <<>> => half
  BY DEF Arrive
<1>2. /\ AreHeaders(lines') /\ lines' # <<>> /\ half' \in BOOLEAN
      /\ Len(Lines') >= Len(Lines)
      /\ \A i \in 1..Len(Lines) : Lines'[i] = Lines[i]
  BY <1>1, ArriveLines DEF HInv
<1>3. /\ state' = state /\ parsed' = parsed /\ errno' = errno /\ inputting' = TRUE
      /\ state \in HeaderStates
  BY DEF Arrive, Unread
<1>4. /\ parsed \in 0..Len(Lines) /\ Len(Lines) \in Nat
      /\ IsAt(Lines, state, parsed, errno)
  BY LinesAre DEF HInv, LinesType, AreHeaders
<1>5. Len(Lines') \in Nat
  <2>1. Len(lines') \in Nat /\ Len(lines') > 0
    BY <1>2, EmptySeq DEF AreHeaders
  <2>2. CASE ~half'
    BY <2>1, <2>2 DEF Lines
  <2>3. CASE half'
    <3>1. Len(lines') - 1 \in 0..Len(lines') /\ Lines' = SubSeq(lines', 1, Len(lines') - 1)
      BY <2>1, <2>3 DEF Lines, Front
    <3> QED  BY <1>2, <2>1, <3>1, CutSeq DEF AreHeaders
  <2> QED  BY <1>2, <2>2, <2>3
<1>6. LinesType'
  BY <1>2, <1>3, <1>4, <1>5 DEF LinesType
<1>7. \A n \in 1..parsed : Lines'[n] = Lines[n]
  BY <1>2, <1>4
<1>8. IsAt(Lines', state, parsed, errno)
  <2>1. parsed > 0 => Lines'[1] = Lines[1]
    BY <1>4, <1>7
  <2>2. ASSUME NEW set, NoneOf(Lines, set, parsed) PROVE NoneOf(Lines', set, parsed)
    BY <1>4, <1>7, <2>2 DEF NoneOf
  <2>3. state # "html"
    BY <1>3 DEF HeaderStates
  <2> QED  BY <1>4, <2>1, <2>2, <2>3 DEF IsAt
<1>9. Gone(Lines', state, parsed, errno)
  BY <1>3 DEF Gone, HeaderStates
<1> QED
  BY <1>3, <1>6, <1>8, <1>9 DEF HInv, AllParsed, OnlyInHeaders, HeaderStates

LEMMA InputEndHeaders == ASSUME HInv, InputEnd PROVE HInv'
<1>1. /\ UNCHANGED <<state, lines, half, parsed, errno>> /\ inputting' = FALSE
      /\ state = "html" \/ parsed = Len(Lines)
  BY DEF InputEnd
<1>2. Lines' = Lines
  BY <1>1 DEF Lines
<1>3. LinesType'
  BY <1>1, <1>2 DEF HInv, LinesType
<1> QED
  BY <1>1, <1>2, <1>3 DEF HInv, AllParsed, OnlyInHeaders, HeaderStates

-----------------------------------------------------------------------------
(* A line is parsed *)

\* The next line is the first of the set, or not of it.
LEMMA NextLine ==
    ASSUME NEW ls \in Seq(Words), NEW n \in Nat, n > 0, n < Len(ls), NEW set,
           NoneOf(ls, set, n)
    PROVE  /\ ls[n + 1] \in set => FirstAt(ls, set, n + 1)
           /\ ls[n + 1] \notin set => NoneOf(ls, set, n + 1)
<1>1. Len(ls) \in Nat
  OBVIOUS
<1>2. n + 1 \in 2..Len(ls) /\ (n + 1) - 1 = n
  BY <1>1
<1>3. \A j \in 2..(n + 1) : j \in 2..n \/ j = n + 1
  OBVIOUS
<1> QED  BY <1>2, <1>3 DEF NoneOf, FirstAt

\* What is left to show of a step that parses one line.
LEMMA OneMore ==
    ASSUME HInv, inputting, parsed < Len(Lines), parsed' = parsed + 1,
           UNCHANGED <<lines, half>>, inputting' \in BOOLEAN,
           IsAt(Lines, state', parsed', errno'), Gone(Lines, state', parsed', errno'),
           state' \notin {"none", "parsing"},
           inputting' = (state' # "closed")
    PROVE  HInv'
<1>1. Lines' = Lines
  BY DEF Lines
<1>2. Len(Lines) \in Nat /\ parsed \in 0..Len(Lines)
  BY LinesAre DEF HInv, LinesType, AreHeaders
<1>3. parsed' \in 0..Len(Lines')
  BY <1>1, <1>2
<1>4. LinesType'
  BY <1>1, <1>3 DEF HInv, LinesType
<1>5. state' \in {"closed"} \cup HeaderStates \cup {"html"}
  BY DEF IsAt
<1> QED
  BY <1>1, <1>4, <1>5 DEF HInv, AllParsed, OnlyInHeaders, HeaderStates

LEMMA CmdlineHeaders == ASSUME HInv, parseCmdline PROVE HInv'
<1>1. PICK line \in Answers :
        /\ AtLine(line)
        /\ CASE line = "2xx" -> GoOn("headers")
             [] line = "3xx" -> GoOn("headers30x")
             [] line = "4xx" -> GiveUp("err40X")
             [] line = "short" -> GiveUp("earlyStop")
  BY DEF parseCmdline
<1>2. /\ state = "answer" /\ parsed' = parsed + 1 /\ UNCHANGED <<lines, half>>
      /\ inputting /\ inputting \in BOOLEAN /\ parsed < Len(Lines)
      /\ parsed = 0 /\ parsed' = 1 /\ Lines[1] = line /\ errno = "success"
  BY <1>1 DEF parseCmdline, AtLine, HInv, IsAt, LinesType, HeaderStates
<1>3. NoneOf(Lines, OkSet, 1) /\ NoneOf(Lines, MovedSet, 1)
  BY DEF NoneOf
<1>4. \/ line = "2xx" /\ state' = "headers" /\ errno' = errno /\ inputting' = TRUE
      \/ line = "3xx" /\ state' = "headers30x" /\ errno' = errno /\ inputting' = TRUE
      \/ line = "4xx" /\ state' = "closed" /\ errno' = "err40X" /\ inputting' = FALSE
      \/ line = "short" /\ state' = "closed" /\ errno' = "earlyStop" /\ inputting' = FALSE
  BY <1>1, <1>2 DEF GoOn, GiveUp, Answers
<1>5. IsAt(Lines, state', parsed', errno') /\ Gone(Lines, state', parsed', errno')
  <2>1. IsAt(Lines, state', 1, errno')
    BY <1>2, <1>3, <1>4 DEF IsAt, HeaderStates
  <2>2. Gone(Lines, state', 1, errno')
    <3>1. state' = "closed" => GivenUp(Lines, 1, errno')
      BY <1>2, <1>4 DEF GivenUp
    <3> QED  BY <1>4, <3>1 DEF Gone
  <2> QED  BY <1>2, <2>1, <2>2
<1>6. inputting' = (state' # "closed") /\ state' \notin {"none", "parsing"}
      /\ inputting' \in BOOLEAN
  BY <1>4
<1> QED  BY <1>2, <1>5, <1>6, OneMore

LEMMA HeaderHeaders == ASSUME HInv, parseHeader PROVE HInv'
<1>1. PICK line \in Headers :
        /\ AtLine(line)
        /\ CASE line = "end" -> GoOn("html")
             [] line = "other type" -> GiveUp("badType")
             [] line = "too long" -> GiveUp("tooBig")
             [] OTHER -> GoOn("headers")
  BY DEF parseHeader
<1>2. /\ state = "headers" /\ parsed' = parsed + 1 /\ UNCHANGED <<lines, half>>
      /\ inputting /\ inputting \in BOOLEAN /\ parsed < Len(Lines)
      /\ Lines[parsed + 1] = line
      /\ IsAt(Lines, state, parsed, errno)
  BY <1>1 DEF parseHeader, AtLine, HInv, LinesType
<1>3. Lines \in Seq(Words) /\ parsed \in Nat
  BY LinesAre DEF HInv, LinesType, AreHeaders
<1>4. parsed > 0 /\ Lines[1] = "2xx" /\ NoneOf(Lines, OkSet, parsed) /\ errno = "success"
  BY <1>2 DEF IsAt, HeaderStates
<1>5. /\ line \in OkSet => FirstAt(Lines, OkSet, parsed + 1)
      /\ line \notin OkSet => NoneOf(Lines, OkSet, parsed + 1)
  BY <1>2, <1>3, <1>4, NextLine
<1>6. \/ line = "end" /\ state' = "html" /\ errno' = errno /\ inputting' = inputting
      \/ line = "other type" /\ state' = "closed" /\ errno' = "badType" /\ inputting' = FALSE
      \/ line = "too long" /\ state' = "closed" /\ errno' = "tooBig" /\ inputting' = FALSE
      \/ line \notin OkSet /\ state' = "headers" /\ errno' = errno /\ inputting' = inputting
  BY <1>1 DEF GoOn, GiveUp, OkSet
<1>7. parsed + 1 > 0
  BY <1>3
<1>8. IsAt(Lines, state', parsed', errno') /\ Gone(Lines, state', parsed', errno')
  <2> DEFINE n == parsed + 1
  <2>1. n = parsed + 1
    OBVIOUS
  <2> HIDE DEF n
  <2>2. IsAt(Lines, state', n, errno')
    BY <1>2, <1>4, <1>5, <1>6, <1>7, <2>1 DEF IsAt, HeaderStates, OkSet
  <2>3. Gone(Lines, state', n, errno')
    BY <1>2, <1>4, <1>5, <1>6, <1>7, <2>1 DEF Gone, GivenUp, OkSet
  <2> QED  BY <1>2, <2>1, <2>2, <2>3
<1>9. inputting' = (state' # "closed") /\ state' \notin {"none", "parsing"}
      /\ inputting' \in BOOLEAN
  BY <1>2, <1>6
<1> QED  BY <1>2, <1>8, <1>9, OneMore

LEMMA Header30XHeaders == ASSUME HInv, parseHeader30X PROVE HInv'
<1>1. PICK line \in Headers :
        /\ AtLine(line)
        /\ CASE line = "end" -> GiveUp("err40X")
             [] line \in {"location", "location cgi"} -> GiveUp("err30X")
             [] OTHER -> GoOn("headers30x")
  BY DEF parseHeader30X
<1>2. /\ state = "headers30x" /\ parsed' = parsed + 1 /\ UNCHANGED <<lines, half>>
      /\ inputting /\ inputting \in BOOLEAN /\ parsed < Len(Lines)
      /\ Lines[parsed + 1] = line
      /\ IsAt(Lines, state, parsed, errno)
  BY <1>1 DEF parseHeader30X, AtLine, HInv, LinesType
<1>3. Lines \in Seq(Words) /\ parsed \in Nat
  BY LinesAre DEF HInv, LinesType, AreHeaders
<1>4. parsed > 0 /\ Lines[1] = "3xx" /\ NoneOf(Lines, MovedSet, parsed) /\ errno = "success"
  BY <1>2 DEF IsAt, HeaderStates
<1>5. /\ line \in MovedSet => FirstAt(Lines, MovedSet, parsed + 1)
      /\ line \notin MovedSet => NoneOf(Lines, MovedSet, parsed + 1)
  BY <1>2, <1>3, <1>4, NextLine
<1>6. \/ line = "end" /\ state' = "closed" /\ errno' = "err40X" /\ inputting' = FALSE
      \/ line \in MovedSet \ {"end"} /\ state' = "closed" /\ errno' = "err30X" /\ inputting' = FALSE
      \/ line \notin MovedSet /\ state' = "headers30x" /\ errno' = errno /\ inputting' = inputting
  BY <1>1 DEF GoOn, GiveUp, MovedSet
<1>7. parsed + 1 > 0
  BY <1>3
<1>8. IsAt(Lines, state', parsed', errno') /\ Gone(Lines, state', parsed', errno')
  <2> DEFINE n == parsed + 1
  <2>1. n = parsed + 1
    OBVIOUS
  <2> HIDE DEF n
  <2>2. IsAt(Lines, state', n, errno')
    BY <1>2, <1>4, <1>5, <1>6, <1>7, <2>1 DEF IsAt, HeaderStates
  <2>3. Gone(Lines, state', n, errno')
    BY <1>2, <1>4, <1>5, <1>6, <1>7, <2>1 DEF Gone, GivenUp, MovedSet
  <2> QED  BY <1>2, <2>1, <2>2, <2>3
<1>9. inputting' = (state' # "closed") /\ state' \notin {"none", "parsing"}
      /\ inputting' \in BOOLEAN
  BY <1>2, <1>6
<1> QED  BY <1>2, <1>8, <1>9, OneMore

-----------------------------------------------------------------------------
(* The theorem *)

LEMMA NextHeaders == ASSUME HInv, [Next]_vars PROVE HInv'
<1>1. CASE UNCHANGED vars
  BY <1>1, SameHeaders DEF vars, pageVars, headerVars
<1>2. CASE RobotsNext /\ UNCHANGED pageVars
  BY <1>2, SameHeaders DEF pageVars, headerVars
<1>3. CASE StartPage
  BY <1>3, NoLines DEF StartPage
<1>4. CASE Arrive
  BY <1>4, ArriveHeaders
<1>5. CASE parseCmdline
  BY <1>5, CmdlineHeaders
<1>6. CASE parseHeader
  BY <1>6, HeaderHeaders
<1>7. CASE parseHeader30X
  BY <1>7, Header30XHeaders
<1>8. CASE InputEnd
  BY <1>8, InputEndHeaders
<1>9. CASE endInput
  <2>1. lines' = <<>> /\ half' = FALSE /\ parsed' = 0 /\ inputting' = inputting /\ ~inputting
    BY <1>9 DEF endInput
  <2>2. inputting' = FALSE
    BY <2>1 DEF HInv, LinesType
  <2>3. state' \in {"none", "parsing", "closed"}
    BY <1>9 DEF endInput
  <2> QED  BY <2>1, <2>2, <2>3, NoLines
<1>10. CASE Fails
  <2>1. lines' = <<>> /\ half' = FALSE /\ parsed' = 0 /\ inputting' = inputting /\ ~inputting
    BY <1>10 DEF Fails
  <2>2. inputting' = FALSE
    BY <2>1 DEF HInv, LinesType
  <2> QED  BY <1>10, <2>1, <2>2, NoLines DEF Fails
<1>11. CASE Link \/ Base \/ NextTag
  BY <1>11, SameHeaders DEF Link, Base, NextTag, headerVars
<1>12. CASE EndOfPage
  <2>1. /\ state = "parsing" /\ state' = "closed"
        /\ UNCHANGED <<lines, half, parsed, inputting, errno>>
    BY <1>12 DEF EndOfPage
  <2>2. lines = <<>> /\ ~inputting
    BY <2>1 DEF HInv, OnlyInHeaders, HeaderStates
  <2>3. Lines' = Lines
    BY <2>1 DEF Lines
  <2>4. LinesType' /\ Lines = <<>>
    BY <2>1, <2>2, <2>3 DEF HInv, LinesType, Lines
  <2> QED
    BY <2>1, <2>2, <2>3, <2>4 DEF HInv, IsAt, Gone, AllParsed, OnlyInHeaders, HeaderStates
<1> QED
  BY <1>1, <1>2, <1>3, <1>4, <1>5, <1>6, <1>7, <1>8, <1>9, <1>10, <1>11, <1>12 DEF Next

\* What becomes of a page after its headers depends on their lines, and not on the
\* pieces in which they came: however many lines, and wherever they are cut
\* (inputHeaders and what it calls).
THEOREM HeadersAreRead == Spec => []HeadersRead
<1>1. Init => HInv
  BY InitHeaders
<1>2. HInv /\ [Next]_vars => HInv'
  BY NextHeaders
<1>3. HInv => HeadersRead
  BY ReadHeaders
<1> QED  BY <1>1, <1>2, <1>3, PTL DEF Spec


-----------------------------------------------------------------------------
(* Names of files: what a round of the loop of fileNormalize does *)

\* A name, and the position of the loop in it.
Names == Seq(Chars) \X Nat

\* What is left of a name from there on: each round leaves less.
LeftOf(x) == IF x[2] \in 1..Len(x[1]) THEN (Len(x[1]) + 1) - x[2] ELSE 0

LEMMA AtIs ==
    ASSUME NEW f \in Seq(Chars), NEW k \in Int
    PROVE  At(f, k) = IF k \in 1..Len(f) THEN f[k] ELSE NUL
<1>1. DOMAIN f = 1..Len(f)
  OBVIOUS
<1> QED  BY <1>1 DEF At

\* g is f without the n characters after its position i, where a "/" is.
Cuts(f, i, n, g) ==
    /\ f \in Seq(Chars) /\ g \in Seq(Chars)
    /\ Len(f) \in Nat /\ Len(g) \in Nat
    /\ i \in Nat /\ n \in Nat /\ i > 0 /\ i + n <= Len(f)
    /\ Len(g) = Len(f) - n
    /\ \A k \in 1..Len(g) : g[k] = IF k <= i THEN f[k] ELSE f[k + n]
    /\ f[i] = "/"

LEMMA WithoutCuts ==
    ASSUME NEW f \in Seq(Chars), NEW i \in Nat, NEW n \in Nat, i > 0, i + n <= Len(f),
           f[i] = "/"
    PROVE  Cuts(f, i, n, Without(f, i + 1, i + n + 1))
<1> DEFINE a == SubSeq(f, 1, i)
           b == SubSeq(f, i + n + 1, Len(f))
<1>1. Len(f) \in Nat /\ i \in 0..Len(f) /\ i + n \in 0..Len(f)
  OBVIOUS
<1>2. /\ a \in Seq(Chars) /\ Len(a) = i
      /\ \A k \in 1..i : a[k] = f[k]
  BY <1>1, CutSeq
<1>3. /\ b \in Seq(Chars) /\ Len(b) = Len(f) - (i + n)
      /\ \A k \in 1..Len(f) - (i + n) : b[k] = f[(i + n) + k]
  BY <1>1, CutSeq
<1>4. Without(f, i + 1, i + n + 1) = a \o b
  <2>1. (i + 1) - 1 = i
    OBVIOUS
  <2> QED  BY <2>1 DEF Without
<1> HIDE DEF a, b
<1>5. /\ a \o b \in Seq(Chars) /\ Len(a \o b) = Len(a) + Len(b)
      /\ \A k \in 1..Len(a) + Len(b) :
           (a \o b)[k] = IF k <= Len(a) THEN a[k] ELSE b[k - Len(a)]
  <2>1. a \in Seq(Chars) /\ b \in Seq(Chars)
    BY <1>2, <1>3
  <2> QED  BY ONLY <2>1, ConcatProperties
<1>6. Len(a \o b) = Len(f) - n /\ Len(a \o b) \in Nat
  BY <1>1, <1>2, <1>3, <1>5
<1>7. ASSUME NEW k \in 1..Len(a \o b)
      PROVE  (a \o b)[k] = IF k <= i THEN f[k] ELSE f[k + n]
  <2>1. CASE k <= i
    BY <1>1, <1>2, <1>3, <1>5, <1>6, <2>1
  <2>2. CASE k > i
    <3>1. k - i \in 1..Len(f) - (i + n) /\ (i + n) + (k - i) = k + n
      BY <1>1, <1>6, <2>2
    <3>2. (a \o b)[k] = b[k - i]
      BY <1>1, <1>2, <1>3, <1>5, <1>6, <2>2
    <3> QED  BY <1>3, <2>2, <3>1, <3>2
  <2> QED  BY <1>1, <1>6, <2>1, <2>2
<1> QED  BY <1>1, <1>4, <1>5, <1>6, <1>7 DEF Cuts

\* Up leads to a "/" before.
LEMMA UpLeads ==
    ASSUME NEW f \in Seq(Chars), NEW i \in Nat, i > 0, i <= Len(f) + 1
    PROVE  /\ Up(f, i) \in 0..(i - 1)
           /\ Up(f, i) > 0 => f[Up(f, i)] = "/"
           /\ \A k \in (Up(f, i) + 1)..(i - 1) : f[k] # "/"
<1> DEFINE I == {k \in 1..(i - 1) : f[k] = "/"}
<1>1. CASE I = {}
  <2>1. Up(f, i) = 0
    BY <1>1 DEF Up, SelectLastInSubSeq
  <2> QED  BY <1>1, <2>1
<1>2. CASE I # {}
  <2> DEFINE J == {j \in Nat : i - j \in I}
  <2>1. J # {} /\ J \subseteq Nat
    <3>1. PICK k \in I : TRUE
      BY <1>2
    <3>2. i - k \in Nat /\ i - (i - k) = k
      OBVIOUS
    <3> QED  BY <3>1, <3>2
  <2>2. PICK j \in J : \A l \in J : j <= l
    <3> HIDE DEF J
    <3> QED  BY <2>1, Least
  <2>3. i - j \in I /\ \A k \in I : k <= i - j
    <3>1. \A k \in I : i - k \in Nat /\ i - (i - k) = k
      OBVIOUS
    <3>2. \A k \in I : i - k \in J
      BY <3>1
    <3>3. j \in Nat
      OBVIOUS
    <3>4. \A k \in I : j <= i - k
      BY <2>2, <3>2
    <3> QED  BY <3>1, <3>3, <3>4
  <2>4. I \subseteq Int
    OBVIOUS
  <2>5. Max(I) = i - j
    <3> HIDE DEF I, J
    <3>1. ASSUME NEW k \in I, \A l \in I : k >= l PROVE k = i - j
      <4>1. k >= i - j /\ k <= i - j /\ k \in Int /\ i - j \in Int
        BY <2>3, <2>4, <3>1
      <4> QED  BY <4>1
    <3>2. i - j \in I /\ \A l \in I : i - j >= l
      BY <2>3, <2>4
    <3> HIDE <2>3
    <3> QED  BY <3>1, <3>2 DEF Max
  <2>6. Up(f, i) = i - j
    BY <1>2, <2>5 DEF Up, SelectLastInSubSeq
  <2>7. ASSUME NEW k \in (Up(f, i) + 1)..(i - 1) PROVE f[k] # "/"
    <3>1. i - j \in Int /\ k > i - j /\ k \in 1..(i - 1)
      BY <2>3, <2>6
    <3>2. k \notin I
      BY <2>3, <3>1
    <3> QED  BY <3>1, <3>2
  <2> QED  BY <2>3, <2>6, <2>7
<1> QED  BY <1>1, <1>2


\* From the "/" at position i it goes on with the name of a file.
GoesOn(f, i) == At(f, i + 1) # "/" /\ ~IsDot(f, i) /\ ~IsDotDot(f, i)

\* The characters that mean something else, or nothing.
Special == {"#", "%61", "%07", "%zz"}

\* A name that leaves the root, or has a bad escape.
Leaves(f, i) ==
    \/ At(f, i) \in {"%07", "%zz"}
    \/ At(f, i) = "/" /\ IsDotDot(f, i) /\ Up(f, i) = 0

\* From the "/" at position i a name ends in the directory that the "/" at u names.
EndsIn(f, i, u) ==
    /\ At(f, i) = "/"
    /\ \/ IsDot(f, i) /\ At(f, i + 2) = NUL /\ u = i
       \/ IsDotDot(f, i) /\ At(f, i + 3) = NUL /\ u = Up(f, i)

\* n characters after the "/" at position j say no more than that one.
SaysNoMore(f, i, j, n) ==
    /\ At(f, i) = "/"
    /\ \/ At(f, i + 1) = "/" /\ j = i /\ n = 1
       \/ IsDot(f, i) /\ At(f, i + 2) # NUL /\ j = i /\ n = 2
       \/ IsDotDot(f, i) /\ At(f, i + 3) # NUL /\ j = Up(f, i) /\ n = (i + 3) - j

\* r is returned: nothing, what is before the end or a "#", or what is up to a "/".
Stops(f, i, r) ==
    \/ r = NULL /\ Leaves(f, i)
    \/ At(f, i) \in {NUL, "#"} /\ r = SubSeq(f, 1, i - 1)
    \/ \E u \in 1..i : /\ u <= Len(f) /\ f[u] = "/" /\ r = SubSeq(f, 1, u)
                      /\ EndsIn(f, i, u)

\* The loop goes on at position j of g: after a "/" that stays, or with the next
\* character.
Goes(f, i, g, j) ==
    \/ \E n \in Nat : n > 0 /\ j <= i /\ Cuts(f, j, n, g) /\ SaysNoMore(f, i, j, n)
    \/ /\ i \in 1..Len(f) /\ j = i + 1
       /\ f[i] \in Escapes /\ isgraph(Decoded(f[i])) /\ g = [f EXCEPT ![i] = Decoded(f[i])]
    \/ /\ i \in 1..Len(f) /\ j = i + 1 /\ g = f
       /\ (f[i] = "/" => GoesOn(f, i)) /\ f[i] \notin Special

\* A round returns something, or is what the loop makes of what it goes on with,
\* which is less.
RoundDone(f, i) == \E r : Stops(f, i, r) /\ \A N : Round(N, f, i) = r

RoundGoes(f, i) ==
    \E g, j : /\ Goes(f, i, g, j)
              /\ <<g, j>> \in Names /\ LeftOf(<<g, j>>) < LeftOf(<<f, i>>)
              /\ \A N : Round(N, f, i) = N[<<g, j>>]

\* What is left when n characters after j are cut and the loop goes on there.
LEMMA CutsLeave ==
    ASSUME NEW f \in Seq(Chars), NEW i \in Nat, NEW j \in Nat, NEW n \in Nat, NEW g,
           Cuts(f, j, n, g), n > 0, i > 0, i <= Len(f), j <= i, j + n > i
    PROVE  <<g, j>> \in Names /\ LeftOf(<<g, j>>) < LeftOf(<<f, i>>)
<1>1. /\ g \in Seq(Chars) /\ Len(g) \in Nat /\ Len(f) \in Nat /\ Len(g) = Len(f) - n
      /\ j + n <= Len(f)
  BY DEF Cuts
<1>2. LeftOf(<<f, i>>) = (Len(f) + 1) - i
  BY <1>1 DEF LeftOf
<1>3. LeftOf(<<g, j>>) \in {0, (Len(g) + 1) - j}
  BY DEF LeftOf
<1> QED  BY <1>1, <1>2, <1>3 DEF Names

LEMMA RoundSteps ==
    ASSUME NEW f \in Seq(Chars), NEW i \in Nat
    PROVE  RoundDone(f, i) \/ RoundGoes(f, i)
<1>1. /\ Len(f) \in Nat
      /\ At(f, i) = IF i \in 1..Len(f) THEN f[i] ELSE NUL
      /\ At(f, i + 1) # NUL => i + 1 <= Len(f)
      /\ At(f, i + 2) # NUL => i + 2 <= Len(f)
      /\ At(f, i + 3) # NUL => i + 3 <= Len(f)
  <2>1. i \in Int /\ i + 1 \in Int /\ i + 2 \in Int /\ i + 3 \in Int
    OBVIOUS
  <2> QED  BY <2>1, AtIs
<1>0. At(f, i) = "/" => i > 0 /\ i <= Len(f) /\ f[i] = "/" /\ i \in 1..i
  <2>1. At(f, i) = "/" => i \in 1..Len(f) /\ f[i] = "/"
    BY <1>1 DEF NUL
  <2> QED  BY <1>1, <2>1
<1>2. CASE At(f, i) \in {NUL, "#"}
  <2>1. \A N : Round(N, f, i) = SubSeq(f, 1, i - 1)
    BY <1>2 DEF Round, NUL, Escapes
  <2> QED  BY <1>2, <2>1 DEF RoundDone, Stops
<1> USE <1>1
<1>3. CASE At(f, i) = "/" /\ IsDot(f, i) /\ At(f, i + 2) = NUL
  <2>1. \A N : Round(N, f, i) = SubSeq(f, 1, i)
    BY <1>3 DEF Round, IsDot, IsDotDot, NUL, Escapes
  <2>2. i \in 1..i /\ i <= Len(f) /\ f[i] = "/"
    BY <1>0, <1>3
  <2>3. Stops(f, i, SubSeq(f, 1, i))
    BY <1>3, <2>2 DEF Stops, EndsIn
  <2> QED  BY <2>1, <2>3 DEF RoundDone
<1>4. CASE At(f, i) = "/" /\ IsDot(f, i) /\ At(f, i + 2) # NUL
  <2> DEFINE g == Without(f, i + 1, i + 3)
  <2>1. \A N : Round(N, f, i) = N[<<g, i>>]
    BY <1>4 DEF Round, IsDot, IsDotDot, NUL, Escapes
  <2>2. i > 0 /\ i + 2 <= Len(f) /\ f[i] = "/"
    BY <1>0, <1>4
  <2>3. Cuts(f, i, 2, g)
    <3>1. (i + 2) + 1 = i + 3
      OBVIOUS
    <3> QED  BY <2>2, <3>1, WithoutCuts
  <2> HIDE DEF g
  <2>4. <<g, i>> \in Names /\ LeftOf(<<g, i>>) < LeftOf(<<f, i>>)
    BY <2>2, <2>3, CutsLeave
  <2>5. Goes(f, i, g, i)
    BY <1>4, <2>3 DEF Goes, SaysNoMore
  <2> QED  BY <2>1, <2>4, <2>5 DEF RoundGoes
<1>5. CASE At(f, i) = "/" /\ At(f, i + 1) = "/"
  <2> DEFINE g == Without(f, i + 1, i + 2)
  <2>1. \A N : Round(N, f, i) = N[<<g, i>>]
    BY <1>5 DEF Round, IsDot, IsDotDot, NUL, Escapes
  <2>2. i > 0 /\ i + 1 <= Len(f) /\ f[i] = "/"
    BY <1>0, <1>5 DEF NUL
  <2>3. Cuts(f, i, 1, g)
    <3>1. (i + 1) + 1 = i + 2
      OBVIOUS
    <3> QED  BY <2>2, <3>1, WithoutCuts
  <2> HIDE DEF g
  <2>4. <<g, i>> \in Names /\ LeftOf(<<g, i>>) < LeftOf(<<f, i>>)
    BY <2>2, <2>3, CutsLeave
  <2>5. Goes(f, i, g, i)
    BY <1>5, <2>3 DEF Goes, SaysNoMore
  <2> QED  BY <2>1, <2>4, <2>5 DEF RoundGoes
<1>6. CASE At(f, i) = "/" /\ IsDotDot(f, i)
  <2>1. i > 0 /\ i <= Len(f) /\ f[i] = "/"
    BY <1>0, <1>6
  <2>2. /\ Up(f, i) \in 0..(i - 1)
        /\ Up(f, i) > 0 => f[Up(f, i)] = "/"
    BY <2>1, UpLeads
  <2>3. At(f, i + 1) # "/" /\ ~IsDot(f, i)
    BY <1>6 DEF IsDotDot, IsDot, NUL
  <2>4. CASE Up(f, i) = 0
    <3>1. \A N : Round(N, f, i) = NULL
      BY <1>6, <2>3, <2>4 DEF Round, NUL, Escapes
    <3>2. Leaves(f, i)
      BY <1>6, <2>4 DEF Leaves
    <3> QED  BY <3>1, <3>2 DEF RoundDone, Stops
  <2>5. CASE Up(f, i) # 0 /\ At(f, i + 3) = NUL
    <3>1. \A N : Round(N, f, i) = SubSeq(f, 1, Up(f, i))
      BY <1>6, <2>3, <2>5 DEF Round, NUL, Escapes
    <3>2. Up(f, i) \in 1..i /\ Up(f, i) <= Len(f) /\ f[Up(f, i)] = "/"
      BY <2>1, <2>2, <2>5
    <3>3. Stops(f, i, SubSeq(f, 1, Up(f, i)))
      BY <1>6, <2>5, <3>2 DEF Stops, EndsIn
    <3> QED  BY <3>1, <3>3 DEF RoundDone
  <2>6. CASE Up(f, i) # 0 /\ At(f, i + 3) # NUL
    <3> DEFINE u == Up(f, i)
               g == Without(f, u + 1, i + 4)
               n == (i + 3) - u
    <3>1. \A N : Round(N, f, i) = N[<<g, u>>]
      BY <1>6, <2>3, <2>6 DEF Round, NUL, Escapes
    <3>2. u \in Nat /\ u > 0 /\ u < i /\ f[u] = "/" /\ n \in Nat /\ u + n = i + 3 /\ n > 0
      BY <2>2, <2>6
    <3>3. i + 3 <= Len(f)
      BY <2>6
    <3>4. u + n + 1 = i + 4
      BY <3>2
    <3>8. SaysNoMore(f, i, u, n)
      BY <1>6, <2>6 DEF SaysNoMore
    <3> HIDE DEF u, n
    <3>5. Cuts(f, u, n, g)
      BY <3>2, <3>3, <3>4, WithoutCuts
    <3> HIDE DEF g
    <3>6. <<g, u>> \in Names /\ LeftOf(<<g, u>>) < LeftOf(<<f, i>>)
      BY <2>1, <3>2, <3>5, CutsLeave
    <3>7. Goes(f, i, g, u)
      BY <3>2, <3>5, <3>8 DEF Goes
    <3> QED  BY <3>1, <3>6, <3>7 DEF RoundGoes
  <2> QED  BY <2>4, <2>5, <2>6
<1>7. CASE At(f, i) = "/" /\ GoesOn(f, i)
  <2>1. i \in 1..Len(f) /\ f[i] = "/"
    BY <1>7 DEF NUL
  <2>2. \A N : Round(N, f, i) = N[<<f, i + 1>>]
    BY <1>7 DEF Round, GoesOn, NUL, Escapes
  <2>3. <<f, i + 1>> \in Names /\ LeftOf(<<f, i + 1>>) < LeftOf(<<f, i>>)
    BY <2>1 DEF Names, LeftOf
  <2>4. Goes(f, i, f, i + 1)
    BY <1>7, <2>1 DEF Goes, Special
  <2> QED  BY <2>2, <2>3, <2>4 DEF RoundGoes
<1>8. CASE At(f, i) \notin {NUL, "#", "/"}
  <2>1. i \in 1..Len(f) /\ f[i] = At(f, i)
    BY <1>8
  <2>2. CASE f[i] \in Escapes /\ isgraph(Decoded(f[i]))
    <3> DEFINE g == [f EXCEPT ![i] = Decoded(f[i])]
    <3>1. \A N : Round(N, f, i) = N[<<g, i + 1>>]
      BY <1>8, <2>1, <2>2 DEF Round
    <3>2. Decoded(f[i]) \in Chars
      BY <2>2, UrlsAssumption DEF Decoded, isgraph, Escapes
    <3>3. g \in Seq(Chars) /\ Len(g) = Len(f)
      BY <2>1, <3>2, ExceptSeq
    <3> HIDE DEF g
    <3>4. <<g, i + 1>> \in Names /\ LeftOf(<<g, i + 1>>) < LeftOf(<<f, i>>)
      BY <2>1, <3>3 DEF Names, LeftOf
    <3>5. Goes(f, i, g, i + 1)
      BY <2>1, <2>2 DEF Goes, g
    <3> QED  BY <3>1, <3>4, <3>5 DEF RoundGoes
  <2>3. CASE f[i] \in Escapes /\ ~isgraph(Decoded(f[i])) /\ Decoded(f[i]) # " "
    <3>1. \A N : Round(N, f, i) = NULL
      BY <1>8, <2>1, <2>3 DEF Round
    <3>2. Leaves(f, i)
      BY <2>1, <2>3 DEF Leaves, Escapes, Decoded, isgraph
    <3> QED  BY <3>1, <3>2 DEF RoundDone, Stops
  <2>4. CASE f[i] \notin Escapes \/ (~isgraph(Decoded(f[i])) /\ Decoded(f[i]) = " ")
    <3>1. \A N : Round(N, f, i) = N[<<f, i + 1>>]
      BY <1>8, <2>1, <2>4 DEF Round
    <3>2. <<f, i + 1>> \in Names /\ LeftOf(<<f, i + 1>>) < LeftOf(<<f, i>>)
      BY <2>1 DEF Names, LeftOf
    <3>4. f[i] \notin Special
      BY <1>8, <2>1, <2>4 DEF Special, Escapes, Decoded, isgraph
    <3>3. Goes(f, i, f, i + 1)
      BY <1>8, <2>1, <3>4 DEF Goes
    <3> QED  BY <3>1, <3>2, <3>3 DEF RoundGoes
  <2> QED  BY <2>2, <2>3, <2>4
<1> QED  BY <1>2, <1>3, <1>4, <1>5, <1>6, <1>7, <1>8 DEF GoesOn


-----------------------------------------------------------------------------
(* The loop: fileNormalize is what its rounds say *)

LEMMA LeftNat == \A x \in Names : LeftOf(x) \in Nat
<1> SUFFICES ASSUME NEW x \in Names PROVE LeftOf(x) \in Nat
  OBVIOUS
<1>1. x[1] \in Seq(Chars) /\ x[2] \in Nat
  BY DEF Names
<1>2. Len(x[1]) \in Nat
  BY <1>1
<1> QED  BY <1>1, <1>2 DEF LeftOf

\* A set of names that has each one for which it has those with less left.
Hereditary(T) ==
    \A x \in Names : (\A y \in Names : LeftOf(y) < LeftOf(x) => y \in T) => x \in T

LEMMA ByRounds == ASSUME NEW T, Hereditary(T) PROVE Names \subseteq T
<1> DEFINE B == {x \in Names : x \notin T}
           L == {n \in Nat : \E x \in B : LeftOf(x) = n}
<1> SUFFICES ASSUME B # {} PROVE FALSE
  OBVIOUS
<1>1. L # {} /\ L \in SUBSET Nat
  BY LeftNat
<1>2. PICK n \in L : \A m \in L : n <= m
  <2> HIDE DEF L
  <2> QED  BY <1>1, Least
<1>3. PICK x \in B : LeftOf(x) = n
  OBVIOUS
<1>4. ASSUME NEW y \in Names, LeftOf(y) < LeftOf(x) PROVE y \in T
  <2>1. SUFFICES ASSUME y \notin T PROVE FALSE
    OBVIOUS
  <2>2. LeftOf(y) \in L
    BY <2>1, LeftNat
  <2>3. n <= LeftOf(y) /\ LeftOf(y) \in Nat /\ n \in Nat
    BY <1>2, <2>2
  <2> QED  BY <1>3, <1>4, <2>3
<1> QED  BY <1>4 DEF Hereditary

\* G is the loop for the names with less than n left; two such loops agree there.
LoopTo(G, n) == \A x \in Names : LeftOf(x) < n => G[x] = Round(G, x[1], x[2])

AgreeTo(G, H, n) == \A x \in Names : LeftOf(x) < n => G[x] = H[x]

\* A round looks only at what has less left.
LEMMA RoundLocal ==
    ASSUME NEW G, NEW H, NEW x \in Names, AgreeTo(G, H, LeftOf(x))
    PROVE  Round(G, x[1], x[2]) = Round(H, x[1], x[2])
<1>1. x[1] \in Seq(Chars) /\ x[2] \in Nat /\ x = <<x[1], x[2]>>
  BY DEF Names
<1>2. CASE RoundDone(x[1], x[2])
  BY <1>2 DEF RoundDone
<1>3. CASE RoundGoes(x[1], x[2])
  <2>1. PICK g, j : /\ <<g, j>> \in Names /\ LeftOf(<<g, j>>) < LeftOf(<<x[1], x[2]>>)
                    /\ \A N : Round(N, x[1], x[2]) = N[<<g, j>>]
    BY <1>3 DEF RoundGoes
  <2>2. G[<<g, j>>] = H[<<g, j>>]
    BY <1>1, <2>1 DEF AgreeTo
  <2>3. Round(G, x[1], x[2]) = G[<<g, j>>] /\ Round(H, x[1], x[2]) = H[<<g, j>>]
    BY <2>1
  <2> QED  BY <2>2, <2>3
<1> QED  BY <1>1, <1>2, <1>3, RoundSteps

LEMMA LoopsAgree ==
    ASSUME NEW n \in Nat, NEW G, NEW H, LoopTo(G, n), LoopTo(H, n)
    PROVE  AgreeTo(G, H, n)
<1> DEFINE T == {x \in Names : LeftOf(x) < n => G[x] = H[x]}
<1>1. ASSUME NEW x \in Names, \A y \in Names : LeftOf(y) < LeftOf(x) => y \in T
      PROVE  x \in T
  <2>1. SUFFICES ASSUME LeftOf(x) < n PROVE G[x] = H[x]
    OBVIOUS
  <2>2. AgreeTo(G, H, LeftOf(x))
    <3>1. SUFFICES ASSUME NEW y \in Names, LeftOf(y) < LeftOf(x) PROVE G[y] = H[y]
      BY DEF AgreeTo
    <3>2. y \in T
      BY <1>1, <3>1
    <3>3. LeftOf(y) \in Nat /\ LeftOf(x) \in Nat
      BY LeftNat
    <3>4. LeftOf(y) < n
      BY <2>1, <3>1, <3>3
    <3> QED  BY <3>2, <3>4
  <2>3. G[x] = Round(G, x[1], x[2]) /\ H[x] = Round(H, x[1], x[2])
    BY <2>1 DEF LoopTo
  <2> QED  BY <2>2, <2>3, RoundLocal
<1>2. Hereditary(T)
  <2> HIDE DEF T
  <2> QED  BY <1>1 DEF Hereditary
<1>3. Names \subseteq T
  <2> HIDE DEF T
  <2> QED  BY <1>2, ByRounds
<1> QED  BY <1>3 DEF AgreeTo

\* There is a loop to any depth.
LEMMA LoopsExist == \A n \in Nat : \E G : LoopTo(G, n)
<1> DEFINE T == {n \in Nat : \E G : LoopTo(G, n)}
<1>1. 0 \in T
  <2>1. LoopTo(<<>>, 0)
    BY LeftNat DEF LoopTo
  <2> QED  BY <2>1
<1>2. ASSUME NEW n \in T PROVE n + 1 \in T
  <2>1. PICK G : LoopTo(G, n)
    OBVIOUS
  <2>2. n \in Nat
    OBVIOUS
  <2> DEFINE H == [x \in Names |-> Round(G, x[1], x[2])]
  <2>3. AgreeTo(G, H, n)
    BY <2>1 DEF LoopTo, AgreeTo
  <2>4. ASSUME NEW x \in Names, LeftOf(x) < n + 1 PROVE H[x] = Round(H, x[1], x[2])
    <3>1. AgreeTo(G, H, LeftOf(x))
      <4>1. SUFFICES ASSUME NEW y \in Names, LeftOf(y) < LeftOf(x) PROVE G[y] = H[y]
        BY DEF AgreeTo
      <4>2. LeftOf(y) \in Nat /\ LeftOf(x) \in Nat
        BY LeftNat
      <4>3. LeftOf(y) < n
        BY <2>2, <2>4, <4>1, <4>2
      <4> QED  BY <2>3, <4>3 DEF AgreeTo
    <3>2. H[x] = Round(G, x[1], x[2])
      OBVIOUS
    <3> HIDE DEF H
    <3> QED  BY <3>1, <3>2, RoundLocal
  <2>5. LoopTo(H, n + 1)
    <3> HIDE DEF H
    <3> QED  BY <2>4 DEF LoopTo
  <2> QED  BY <2>2, <2>5
<1>3. T = Nat
  <2> HIDE DEF T
  <2>1. T \in SUBSET Nat
    BY DEF T
  <2> QED  BY <1>1, <1>2, <2>1, Induct
<1> QED  BY <1>3

\* The loop of the code is that of the module.
LEMMA NormalizedIs ==
    \A x \in Names : Normalized[x] = Round(Normalized, x[1], x[2])
<1> DEFINE D(n) == CHOOSE G : LoopTo(G, n)
           N == [x \in Names |-> D(LeftOf(x) + 1)[x]]
<1>1. \A n \in Nat : LoopTo(D(n), n)
  BY LoopsExist
<1> HIDE DEF D
<1>2. ASSUME NEW x \in Names PROVE N[x] = Round(N, x[1], x[2])
  <2> DEFINE k == LeftOf(x) + 1
  <2>1. LeftOf(x) \in Nat /\ k \in Nat /\ LeftOf(x) < k
    BY LeftNat
  <2>2. AgreeTo(N, D(k), LeftOf(x))
    <3>1. SUFFICES ASSUME NEW y \in Names, LeftOf(y) < LeftOf(x) PROVE N[y] = D(k)[y]
      BY DEF AgreeTo
    <3> DEFINE m == LeftOf(y) + 1
    <3>2. LeftOf(y) \in Nat /\ m \in Nat /\ LeftOf(y) < m /\ m <= k
      BY <2>1, <3>1, LeftNat
    <3>3. LoopTo(D(m), m) /\ LoopTo(D(k), k)
      <4> HIDE DEF m, k
      <4> QED  BY <1>1, <2>1, <3>2
    <3>4. LoopTo(D(k), m)
      <4>1. \A z \in Names : LeftOf(z) < m => LeftOf(z) < k
        <5> HIDE DEF m, k
        <5> QED  BY <2>1, <3>2, LeftNat
      <4> HIDE DEF m, k
      <4> QED  BY <3>3, <4>1 DEF LoopTo
    <3>5. AgreeTo(D(m), D(k), m)
      <4> HIDE DEF m, k
      <4> QED  BY <3>2, <3>3, <3>4, LoopsAgree
    <3>6. D(m)[y] = D(k)[y]
      <4> HIDE DEF m, k
      <4> QED  BY <3>2, <3>5 DEF AgreeTo
    <3>7. N[y] = D(m)[y]
      OBVIOUS
    <3> QED  BY <3>6, <3>7
  <2>3. N[x] = D(k)[x]
    OBVIOUS
  <2>4. D(k)[x] = Round(D(k), x[1], x[2])
    <3> HIDE DEF k
    <3> QED  BY <1>1, <2>1 DEF LoopTo
  <2> HIDE DEF N, k
  <2>5. Round(N, x[1], x[2]) = Round(D(k), x[1], x[2])
    BY <2>2, RoundLocal
  <2> QED  BY <2>3, <2>4, <2>5
<1>3. N = [x \in Names |-> Round(N, x[1], x[2])]
  <2> DEFINE R == [x \in Names |-> Round(N, x[1], x[2])]
  <2>1. \A x \in Names : N[x] = R[x]
    BY <1>2
  <2> QED  BY <2>1
<1> HIDE DEF N
<1>4. Normalized = [x \in Names |-> Round(Normalized, x[1], x[2])]
  BY <1>3 DEF Normalized, Names
<1> DEFINE M == Normalized
<1>5. M = [x \in Names |-> Round(M, x[1], x[2])]
  BY <1>4
<1> HIDE DEF M
<1>6. \A x \in Names : M[x] = Round(M, x[1], x[2])
  BY <1>5
<1> QED  BY <1>6 DEF M


-----------------------------------------------------------------------------
(* A normalized name is settled *)

SettledTo(f, n) == \A k \in 1..n : f[k] = "/" => GoesOn(f, k)

\* The loop at position i of f: what it has passed is settled.
Ready(f, i) ==
    /\ f \in Seq(Chars) /\ Len(f) \in Nat /\ Len(f) > 0 /\ f[1] = "/" /\ Plain(f)
    /\ i \in Nat /\ i > 0 /\ i <= Len(f) + 1
    /\ SettledTo(f, i - 1)

\* What goes on from the "/" before another "/" is between the two.
LEMMA SettledUpTo ==
    ASSUME NEW f \in Seq(Chars), NEW g \in Seq(Chars), NEW u \in Nat, u > 0,
           u <= Len(f), u <= Len(g), \A k \in 1..u : g[k] = f[k], f[u] = "/",
           SettledTo(f, u - 1)
    PROVE  SettledTo(g, u - 1)
<1> SUFFICES ASSUME NEW k \in 1..(u - 1), g[k] = "/" PROVE GoesOn(g, k)
  BY DEF SettledTo
<1>1. Len(f) \in Nat /\ Len(g) \in Nat
  OBVIOUS
<1>2. \A j \in 1..u : At(f, j) = At(g, j)
  <2>1. \A j \in 1..u : j \in Int /\ j \in 1..Len(f) /\ j \in 1..Len(g)
    BY <1>1
  <2> QED  BY <2>1, AtIs
<1>3. GoesOn(f, k)
  BY DEF SettledTo
<1>4. At(f, u) = "/"
  BY <1>1, AtIs
<1>5. k + 1 \in 1..u /\ (k + 1 = u \/ k + 2 \in 1..u) /\ (k + 1 = u \/ k + 2 = u \/ k + 3 \in 1..u)
  OBVIOUS
<1>6. At(g, k + 1) = At(f, k + 1) /\ At(f, k + 1) # "/"
  BY <1>2, <1>3, <1>5 DEF GoesOn
<1>7. k + 1 # u /\ At(g, k + 2) = At(f, k + 2)
  BY <1>2, <1>4, <1>5, <1>6
<1>8. ~IsDot(g, k)
  BY <1>3, <1>6, <1>7 DEF GoesOn, IsDot
<1>9. ~IsDotDot(g, k)
  <2>1. CASE k + 2 = u
    BY <1>4, <1>7, <2>1 DEF IsDotDot
  <2>2. CASE k + 2 # u
    <3>1. At(g, k + 3) = At(f, k + 3)
      BY <1>2, <1>5, <1>7, <2>2
    <3> QED  BY <1>3, <1>6, <1>7, <3>1 DEF GoesOn, IsDotDot
  <2> QED  BY <2>1, <2>2
<1> QED  BY <1>6, <1>8, <1>9 DEF GoesOn

\* What is returned at the end of a name, or of what is before a "#".
LEMMA EndSettled ==
    ASSUME NEW f, NEW i, Ready(f, i), At(f, i) \in {NUL, "#"}
    PROVE  Settled(SubSeq(f, 1, i - 1)) /\ SubSeq(f, 1, i - 1) \in Seq(Chars)
<1> DEFINE r == SubSeq(f, 1, i - 1)
<1>1. /\ f \in Seq(Chars) /\ Len(f) \in Nat /\ Len(f) > 0 /\ f[1] = "/"
      /\ i \in Nat /\ i > 0 /\ i <= Len(f) + 1 /\ SettledTo(f, i - 1)
  BY DEF Ready
<1>2. \A k \in Int : At(f, k) = IF k \in 1..Len(f) THEN f[k] ELSE NUL
  BY <1>1, AtIs
<1>3. i > 1
  <2>1. At(f, 1) = "/"
    BY <1>1, <1>2
  <2>2. i # 1
    BY <2>1 DEF NUL
  <2> QED  BY <1>1, <2>2
<1>4. /\ r \in Seq(Chars) /\ Len(r) = i - 1
      /\ \A k \in 1..(i - 1) : r[k] = f[k]
  <2>1. i - 1 \in 0..Len(f)
    BY <1>1, <1>3
  <2> QED  BY <1>1, <2>1, CutSeq
<1> HIDE DEF r
<1>5. \A k \in Int : At(r, k) = IF k \in 1..(i - 1) THEN At(f, k) ELSE NUL
  <2> SUFFICES ASSUME NEW k \in Int
               PROVE  At(r, k) = IF k \in 1..(i - 1) THEN At(f, k) ELSE NUL
    OBVIOUS
  <2>1. At(r, k) = IF k \in 1..(i - 1) THEN r[k] ELSE NUL
    BY <1>4, AtIs
  <2>2. k \in 1..(i - 1) => At(f, k) = f[k]
    BY <1>1, <1>2
  <2> QED  BY <1>4, <2>1, <2>2
<1>6. ASSUME NEW k \in 1..(i - 1), r[k] = "/" PROVE GoesOn(r, k)
  <2>1. GoesOn(f, k)
    BY <1>1, <1>4, <1>6 DEF SettledTo
  <2>2. At(f, i) = "#" => At(f, i - 1) # "."
    <3>1. At(f, i) = "#" => i \in DOMAIN f /\ f[i] = "#"
      BY DEF At, NUL
    <3> QED  BY <3>1 DEF Ready, Plain
  <2>3. k + 1 \in Int /\ k + 2 \in Int /\ k + 3 \in Int
    OBVIOUS
  <2>4. At(r, k + 1) = IF k + 1 < i THEN At(f, k + 1) ELSE NUL
    BY <1>1, <1>5, <2>3
  <2>5. At(r, k + 2) = IF k + 2 < i THEN At(f, k + 2) ELSE NUL
    BY <1>1, <1>5, <2>3
  <2>6. At(r, k + 3) = IF k + 3 < i THEN At(f, k + 3) ELSE NUL
    BY <1>1, <1>5, <2>3
  <2>7. At(r, k + 1) # "/"
    BY <2>1, <2>4 DEF GoesOn, NUL
  <2>8. ~IsDot(r, k)
    <3>1. CASE k + 2 < i
      <4>1. k + 1 < i
        BY <1>1, <3>1
      <4> QED  BY <2>1, <2>4, <2>5, <3>1, <4>1 DEF GoesOn, IsDot
    <3>2. CASE k + 2 = i
      <4>1. k + 1 < i /\ i - 1 = k + 1
        BY <3>2
      <4> QED  BY <2>1, <2>2, <2>4, <3>2, <4>1 DEF GoesOn, IsDot, NUL
    <3>3. CASE k + 1 = i
      BY <2>4, <3>3 DEF IsDot, NUL
    <3> QED  BY <1>1, <3>1, <3>2, <3>3
  <2>9. ~IsDotDot(r, k)
    <3>1. CASE k + 3 < i
      <4>1. k + 1 < i /\ k + 2 < i
        BY <1>1, <3>1
      <4> QED  BY <2>1, <2>4, <2>5, <2>6, <3>1, <4>1 DEF GoesOn, IsDotDot
    <3>2. CASE k + 3 = i
      <4>1. k + 1 < i /\ k + 2 < i /\ i - 1 = k + 2
        BY <3>2
      <4> QED  BY <2>1, <2>2, <2>4, <2>5, <3>2, <4>1 DEF GoesOn, IsDotDot, NUL
    <3>3. CASE k + 2 >= i
      <4>1. ~(k + 2 < i)
        BY <1>1, <3>3
      <4>2. At(r, k + 2) = NUL
        BY <2>5, <4>1
      <4> QED  BY <4>2 DEF IsDotDot, NUL
    <3> QED  BY <1>1, <3>1, <3>2, <3>3
  <2> QED  BY <2>7, <2>8, <2>9 DEF GoesOn
<1>7. At(r, 1) = "/"
  BY <1>1, <1>2, <1>3, <1>5
<1>8. DOMAIN r = 1..(i - 1)
  BY <1>4
<1>9. Settled(r)
  BY <1>6, <1>7, <1>8 DEF Settled, GoesOn
<1> QED  BY <1>4, <1>9 DEF r

\* What is returned up to a "/".
LEMMA DirSettled ==
    ASSUME NEW f, NEW i, Ready(f, i), NEW u \in 1..i, u <= Len(f), f[u] = "/"
    PROVE  Settled(SubSeq(f, 1, u)) /\ SubSeq(f, 1, u) \in Seq(Chars)
<1> DEFINE r == SubSeq(f, 1, u)
<1>1. /\ f \in Seq(Chars) /\ Len(f) \in Nat /\ f[1] = "/"
      /\ i \in Nat /\ SettledTo(f, i - 1) /\ u \in Nat /\ u > 0
  BY DEF Ready
<1>2. /\ r \in Seq(Chars) /\ Len(r) = u
      /\ \A k \in 1..u : r[k] = f[k]
  BY <1>1, CutSeq
<1> HIDE DEF r
<1>3. SettledTo(f, u - 1)
  <2>1. \A k \in 1..(u - 1) : k \in 1..(i - 1)
    BY <1>1
  <2> QED  BY <1>1, <2>1 DEF SettledTo
<1>4. SettledTo(r, u - 1)
  BY <1>1, <1>2, <1>3, SettledUpTo
<1>5. At(r, u + 1) = NUL /\ At(r, 1) = "/"
  BY <1>1, <1>2, AtIs
<1>6. GoesOn(r, u)
  BY <1>5 DEF GoesOn, IsDot, IsDotDot, NUL
<1>7. ASSUME NEW k \in 1..u, r[k] = "/" PROVE GoesOn(r, k)
  <2>1. k = u \/ k \in 1..(u - 1)
    OBVIOUS
  <2> QED  BY <1>4, <1>6, <1>7, <2>1 DEF SettledTo
<1>8. DOMAIN r = 1..u
  BY <1>2
<1>9. Settled(r)
  BY <1>5, <1>7, <1>8 DEF Settled, GoesOn
<1> QED  BY <1>2, <1>9 DEF r


\* The loop goes on with what it has passed settled.
LEMMA CutReady ==
    ASSUME NEW f, NEW i, Ready(f, i), NEW n \in Nat, n > 0, NEW g, NEW j, j <= i,
           Cuts(f, j, n, g)
    PROVE  Ready(g, j)
<1>1. /\ f \in Seq(Chars) /\ Len(f) \in Nat /\ f[1] = "/" /\ i \in Nat
      /\ SettledTo(f, i - 1) /\ Plain(f)
      /\ g \in Seq(Chars) /\ Len(g) \in Nat /\ j \in Nat /\ j > 0 /\ j + n <= Len(f)
      /\ Len(g) = Len(f) - n /\ f[j] = "/"
      /\ \A k \in 1..Len(g) : g[k] = IF k <= j THEN f[k] ELSE f[k + n]
  BY DEF Ready, Cuts
<1>2. j <= Len(g) /\ Len(g) > 0 /\ j <= Len(f) /\ \A k \in 1..j : g[k] = f[k]
  <2>1. j <= Len(g) /\ Len(g) > 0 /\ j <= Len(f)
    BY <1>1
  <2>2. ASSUME NEW k \in 1..j PROVE g[k] = f[k]
    <3>1. k \in 1..Len(g) /\ k <= j
      BY <1>1, <2>1
    <3> QED  BY <1>1, <3>1
  <2> QED  BY <2>1, <2>2
<1>3. SettledTo(f, j - 1)
  <2>1. \A k \in 1..(j - 1) : k \in 1..(i - 1)
    BY <1>1
  <2> QED  BY <1>1, <2>1 DEF SettledTo
<1>4. SettledTo(g, j - 1)
  BY <1>1, <1>2, <1>3, SettledUpTo
<1>5. DOMAIN f = 1..Len(f) /\ DOMAIN g = 1..Len(g)
  BY <1>1
<1>6. \A k \in 1..Len(g) : g[k] \notin {"%2E", "%2F", "%25"}
  <2> SUFFICES ASSUME NEW k \in 1..Len(g) PROVE g[k] \notin {"%2E", "%2F", "%25"}
    OBVIOUS
  <2>1. k \in 1..Len(f) /\ k + n \in 1..Len(f)
    BY <1>1
  <2> QED  BY <1>1, <1>5, <2>1 DEF Plain
<1>7. ASSUME NEW k \in 1..Len(g), g[k] = "#" PROVE At(g, k - 1) # "."
  <2>1. k - 1 \in Int /\ (k + n) - 1 \in Int /\ k \in 1..Len(f) /\ k + n \in 1..Len(f)
    BY <1>1
  <2>2. At(g, k - 1) = IF k - 1 \in 1..Len(g) THEN g[k - 1] ELSE NUL
    BY <1>1, <2>1, AtIs
  <2>3. CASE k <= j
    <3>1. f[k] = "#" /\ At(f, k - 1) # "."
      BY <1>1, <1>5, <1>7, <2>1, <2>3 DEF Plain
    <3>2. At(f, k - 1) = IF k - 1 \in 1..Len(f) THEN f[k - 1] ELSE NUL
      BY <1>1, <2>1, AtIs
    <3>3. k - 1 \in 1..Len(g) => k - 1 \in 1..Len(f) /\ g[k - 1] = f[k - 1]
      <4>1. k - 1 \in 1..Len(g) => k - 1 <= j /\ k - 1 \in 1..Len(f)
        BY <1>1, <2>3
      <4> QED  BY <1>1, <4>1
    <3> QED  BY <2>2, <3>1, <3>2, <3>3 DEF NUL
  <2>4. CASE k = j + 1
    <3>1. g[k - 1] = "/" /\ k - 1 \in 1..Len(g)
      BY <1>1, <1>2, <2>4
    <3> QED  BY <2>2, <3>1
  <2>5. CASE k > j + 1
    <3>0. ~(k <= j)
      BY <1>1, <2>5
    <3>1. f[k + n] = "#" /\ At(f, (k + n) - 1) # "."
      <4>1. g[k] = f[k + n]
        BY <1>1, <3>0
      <4> QED  BY <1>1, <1>5, <1>7, <2>1, <4>1 DEF Plain
    <3>2. At(f, (k + n) - 1) = f[(k + n) - 1]
      <4>1. (k + n) - 1 \in 1..Len(f)
        BY <1>1, <2>5
      <4> QED  BY <1>1, <2>1, <4>1, AtIs
    <3>3. k - 1 \in 1..Len(g) /\ (k - 1) + n = (k + n) - 1 /\ ~(k - 1 <= j)
      BY <1>1, <2>5
    <3>4. g[k - 1] = f[(k + n) - 1]
      BY <1>1, <3>3
    <3> QED  BY <2>2, <3>1, <3>2, <3>3, <3>4
  <2> QED  BY <1>1, <2>3, <2>4, <2>5
<1>8. Plain(g)
  BY <1>5, <1>6, <1>7 DEF Plain
<1>9. g[1] = "/"
  BY <1>1, <1>2
<1> QED  BY <1>1, <1>2, <1>4, <1>8, <1>9 DEF Ready

LEMMA NextReady ==
    ASSUME NEW f, NEW i, Ready(f, i), i <= Len(f), f[i] = "/" => GoesOn(f, i)
    PROVE  Ready(f, i + 1)
<1>1. i \in Nat /\ i > 0 /\ SettledTo(f, i - 1) /\ (i + 1) - 1 = i
  BY DEF Ready
<1>2. SettledTo(f, i)
  <2>1. \A k \in 1..i : k = i \/ k \in 1..(i - 1)
    BY <1>1
  <2> QED  BY <1>1, <2>1 DEF SettledTo
<1> QED  BY <1>1, <1>2 DEF Ready

LEMMA DecodedReady ==
    ASSUME NEW f, NEW i, Ready(f, i), i \in 1..Len(f),
           f[i] \in Escapes, isgraph(Decoded(f[i])), NEW g,
           g = [f EXCEPT ![i] = Decoded(f[i])]
    PROVE  Ready(g, i + 1)
<1>1. /\ f \in Seq(Chars) /\ Len(f) \in Nat /\ Len(f) > 0 /\ f[1] = "/" /\ Plain(f)
      /\ i \in Nat /\ i > 0 /\ i <= Len(f) /\ SettledTo(f, i - 1)
  BY DEF Ready
<1>2. DOMAIN f = 1..Len(f)
  BY <1>1
<1>3. f[i] \in {"%61"} /\ Decoded(f[i]) = "a"
  BY <1>1, <1>2 DEF Plain, Escapes, Decoded, isgraph
<1>4. g \in Seq(Chars) /\ Len(g) = Len(f) /\ DOMAIN g = 1..Len(f)
  <2>1. Decoded(f[i]) \in Chars
    BY <1>3, UrlsAssumption
  <2>2. g \in Seq(Chars) /\ Len(g) = Len(f)
    BY <1>1, <2>1, ExceptSeq
  <2> QED  BY <1>1, <2>2
<1>5. \A k \in 1..Len(f) : g[k] = IF k = i THEN "a" ELSE f[k]
  BY <1>1, <1>2, <1>3
<1>6. \A k \in Int : /\ At(f, k) = IF k \in 1..Len(f) THEN f[k] ELSE NUL
                     /\ At(g, k) = IF k \in 1..Len(f) THEN g[k] ELSE NUL
  BY <1>1, <1>4, AtIs
<1>7. \A k \in Int : /\ At(g, k) = At(f, k) \/ (At(f, k) = "%61" /\ At(g, k) = "a")
  BY <1>3, <1>5, <1>6
<1>8. ASSUME NEW k \in 1..(i - 1), g[k] = "/" PROVE GoesOn(g, k)
  <2>1. f[k] = "/"
    BY <1>1, <1>5, <1>8
  <2>2. GoesOn(f, k)
    BY <1>1, <2>1 DEF SettledTo
  <2>3. k + 1 \in Int /\ k + 2 \in Int /\ k + 3 \in Int
    OBVIOUS
  <2>4. /\ At(g, k + 1) = At(f, k + 1) \/ (At(f, k + 1) = "%61" /\ At(g, k + 1) = "a")
        /\ At(g, k + 2) = At(f, k + 2) \/ (At(f, k + 2) = "%61" /\ At(g, k + 2) = "a")
        /\ At(g, k + 3) = At(f, k + 3) \/ (At(f, k + 3) = "%61" /\ At(g, k + 3) = "a")
    BY <1>7, <2>3
  <2> QED  BY <2>2, <2>4 DEF GoesOn, IsDot, IsDotDot, NUL
<1>9. SettledTo(g, i)
  <2>1. \A k \in 1..i : k = i \/ k \in 1..(i - 1)
    BY <1>1
  <2>2. g[i] # "/"
    BY <1>1, <1>5
  <2> QED  BY <1>8, <2>1, <2>2 DEF SettledTo
<1>10. Plain(g)
  <2>1. \A k \in 1..Len(f) : g[k] \notin {"%2E", "%2F", "%25"}
    BY <1>1, <1>2, <1>5 DEF Plain
  <2>2. ASSUME NEW k \in 1..Len(f), g[k] = "#" PROVE At(g, k - 1) # "."
    <3>1. f[k] = "#" /\ k - 1 \in Int
      BY <1>5, <2>2
    <3>2. At(f, k - 1) # "."
      BY <1>1, <1>2, <3>1 DEF Plain
    <3>3. At(g, k - 1) = At(f, k - 1) \/ At(g, k - 1) = "a"
      BY <1>7, <3>1
    <3> QED  BY <3>2, <3>3
  <2> QED  BY <1>4, <2>1, <2>2 DEF Plain
<1>11. i # 1
  BY <1>1, <1>3
<1>12. g[1] = "/" /\ (i + 1) - 1 = i /\ i + 1 <= Len(g) + 1
  BY <1>1, <1>4, <1>5, <1>11
<1> QED  BY <1>1, <1>4, <1>9, <1>10, <1>12 DEF Ready

\* The names of which the loop makes a settled one, or none.
Settling == {x \in Names : Ready(x[1], x[2]) =>
    Normalized[x] = NULL \/ (Normalized[x] \in Seq(Chars) /\ Settled(Normalized[x]))}

LEMMA LoopSettles == Names \subseteq Settling
<1>1. ASSUME NEW x \in Names, \A y \in Names : LeftOf(y) < LeftOf(x) => y \in Settling
      PROVE  x \in Settling
  <2> DEFINE f == x[1]
             i == x[2]
  <2>1. f \in Seq(Chars) /\ i \in Nat /\ x = <<f, i>>
    BY DEF Names
  <2>2. Normalized[x] = Round(Normalized, f, i)
    BY NormalizedIs
  <2> HIDE DEF f, i
  <2>3. SUFFICES ASSUME Ready(f, i)
                 PROVE  \/ Normalized[x] = NULL
                        \/ Normalized[x] \in Seq(Chars) /\ Settled(Normalized[x])
    BY DEF Settling, f, i
  <2>4. CASE RoundDone(f, i)
    <3>1. PICK r : Stops(f, i, r) /\ \A N : Round(N, f, i) = r
      BY <2>4 DEF RoundDone
    <3>2. Normalized[x] = r
      BY <2>2, <3>1
    <3>3. r = NULL \/ (r \in Seq(Chars) /\ Settled(r))
      BY <2>3, <3>1, EndSettled, DirSettled DEF Stops
    <3> QED  BY <3>2, <3>3
  <2>5. CASE RoundGoes(f, i)
    <3>1. PICK g, j : /\ Goes(f, i, g, j)
                      /\ <<g, j>> \in Names /\ LeftOf(<<g, j>>) < LeftOf(<<f, i>>)
                      /\ \A N : Round(N, f, i) = N[<<g, j>>]
      BY <2>5 DEF RoundGoes
    <3> DEFINE y == <<g, j>>
    <3>2. y \in Settling
      BY <1>1, <2>1, <3>1
    <3>3. y[1] = g /\ y[2] = j
      OBVIOUS
    <3>4. Normalized[x] = Normalized[y]
      BY <2>2, <3>1
    <3>5. Ready(g, j)
      <4>1. ASSUME NEW n \in Nat, n > 0, j <= i, Cuts(f, j, n, g) PROVE Ready(g, j)
        BY <2>3, <4>1, CutReady
      <4>2. CASE i \in 1..Len(f) /\ j = i + 1 /\ g = f /\ (f[i] = "/" => GoesOn(f, i))
        <5>1. i <= Len(f)
          BY <2>1, <4>2
        <5> QED  BY <2>3, <4>2, <5>1, NextReady
      <4>3. CASE /\ i \in 1..Len(f) /\ j = i + 1
                 /\ f[i] \in Escapes /\ isgraph(Decoded(f[i]))
                 /\ g = [f EXCEPT ![i] = Decoded(f[i])]
        BY <2>3, <4>3, DecodedReady
      <4> QED  BY <3>1, <4>1, <4>2, <4>3 DEF Goes
    <3> HIDE DEF y
    <3> QED  BY <3>2, <3>3, <3>4, <3>5 DEF Settling
  <2> QED  BY <2>1, <2>4, <2>5, RoundSteps
<1>2. Hereditary(Settling)
  BY <1>1 DEF Hereditary
<1> QED  BY <1>2, ByRounds

\* What fileNormalize makes of a plain name, for every name.
LEMMA NormalizeSettles ==
    ASSUME NEW f \in Seq(Chars), At(f, 1) = "/", Plain(f)
    PROVE  \/ fileNormalize(f) = NULL
           \/ fileNormalize(f) \in Seq(Chars) /\ Settled(fileNormalize(f))
<1> DEFINE x == <<f, 1>>
<1>1. x \in Names /\ x[1] = f /\ x[2] = 1
  BY DEF Names
<1>2. Len(f) \in Nat /\ Len(f) > 0 /\ f[1] = "/"
  <2>1. At(f, 1) = IF 1 \in 1..Len(f) THEN f[1] ELSE NUL
    BY AtIs
  <2>2. 1 \in 1..Len(f) /\ f[1] = "/"
    BY <2>1 DEF NUL
  <2> QED  BY <2>2
<1>3. SettledTo(f, 1 - 1)
  BY DEF SettledTo
<1>4. Ready(f, 1)
  BY <1>2, <1>3 DEF Ready
<1> HIDE DEF x
<1>5. x \in Settling
  BY <1>1, LoopSettles
<1>6. fileNormalize(f) = Normalized[x]
  BY DEF fileNormalize, x
<1> QED  BY <1>1, <1>4, <1>5, <1>6 DEF Settling


-----------------------------------------------------------------------------
(* A name that begins with a "/" keeps it *)

Rooted(f) == f \in Seq(Chars) /\ At(f, 1) = "/"

LEMMA RootedIs ==
    ASSUME NEW f \in Seq(Chars)
    PROVE  Rooted(f) <=> Len(f) > 0 /\ f[1] = "/"
<1>1. At(f, 1) = IF 1 \in 1..Len(f) THEN f[1] ELSE NUL
  BY AtIs
<1>2. 1 \in 1..Len(f) <=> Len(f) > 0
  OBVIOUS
<1>3. At(f, 1) = "/" <=> Len(f) > 0 /\ f[1] = "/"
  BY <1>1, <1>2 DEF NUL
<1> QED  BY <1>3 DEF Rooted

LEMMA StartRooted ==
    ASSUME NEW f, Rooted(f), NEW u \in 1..Len(f)
    PROVE  Rooted(SubSeq(f, 1, u))
<1>1. f \in Seq(Chars) /\ Len(f) > 0 /\ f[1] = "/" /\ Len(f) \in Nat
  <2>1. f \in Seq(Chars)
    BY DEF Rooted
  <2> QED  BY <2>1, RootedIs
<1>2. /\ SubSeq(f, 1, u) \in Seq(Chars) /\ Len(SubSeq(f, 1, u)) = u
      /\ \A k \in 1..u : SubSeq(f, 1, u)[k] = f[k]
  BY <1>1, CutSeq
<1>3. 1 \in 1..u /\ u > 0
  BY <1>1
<1>4. SubSeq(f, 1, u)[1] = "/" /\ Len(SubSeq(f, 1, u)) > 0
  BY <1>1, <1>2, <1>3
<1> QED  BY <1>2, <1>4, RootedIs

\* The loop is on its way in a name that begins with a "/".
OnItsWay(f, i) == Rooted(f) /\ i \in 1..Len(f) + 1

Rooting == {x \in Names : OnItsWay(x[1], x[2]) =>
    Normalized[x] = NULL \/ Rooted(Normalized[x])}

LEMMA StopsRooted ==
    ASSUME NEW f, NEW i, OnItsWay(f, i), NEW r, Stops(f, i, r)
    PROVE  r = NULL \/ Rooted(r)
<1>1. f \in Seq(Chars) /\ Len(f) > 0 /\ f[1] = "/" /\ Len(f) \in Nat
  <2>1. f \in Seq(Chars)
    BY DEF OnItsWay, Rooted
  <2> QED  BY <2>1, RootedIs DEF OnItsWay
<1>2. i \in 1..Len(f) + 1 /\ Rooted(f)
  BY DEF OnItsWay
<1>3. ASSUME At(f, i) \in {NUL, "#"}, r = SubSeq(f, 1, i - 1) PROVE Rooted(r)
  <2>1. At(f, 1) = "/"
    BY <1>2 DEF Rooted
  <2>2. i # 1
    BY <1>3, <2>1 DEF NUL
  <2>3. i - 1 \in 1..Len(f)
    BY <1>1, <1>2, <2>2
  <2> QED  BY <1>2, <1>3, <2>3, StartRooted
<1>4. ASSUME NEW u \in 1..i, u <= Len(f), r = SubSeq(f, 1, u) PROVE Rooted(r)
  <2>1. u \in 1..Len(f)
    BY <1>1, <1>2, <1>4
  <2> QED  BY <1>2, <1>4, <2>1, StartRooted
<1> QED  BY <1>3, <1>4 DEF Stops

LEMMA GoesRooted ==
    ASSUME NEW f, NEW i, OnItsWay(f, i), NEW g, NEW j, Goes(f, i, g, j),
           <<g, j>> \in Names
    PROVE  OnItsWay(g, j)
<1>1. f \in Seq(Chars) /\ Len(f) > 0 /\ f[1] = "/" /\ Len(f) \in Nat
  <2>1. f \in Seq(Chars)
    BY DEF OnItsWay, Rooted
  <2> QED  BY <2>1, RootedIs DEF OnItsWay
<1>2. i \in 1..Len(f) + 1 /\ Rooted(f) /\ g \in Seq(Chars) /\ j \in Nat
  BY DEF OnItsWay, Names
<1>3. ASSUME NEW n \in Nat, n > 0, j <= i, Cuts(f, j, n, g) PROVE OnItsWay(g, j)
  <2>1. /\ j > 0 /\ j + n <= Len(f) /\ Len(g) = Len(f) - n
        /\ \A k \in 1..Len(g) : g[k] = IF k <= j THEN f[k] ELSE f[k + n]
    BY <1>3 DEF Cuts
  <2>2. j \in 1..Len(g) + 1 /\ 1 \in 1..Len(g) /\ 1 <= j
    BY <1>1, <1>2, <2>1
  <2>3. g[1] = "/" /\ Len(g) > 0
    BY <1>1, <2>1, <2>2
  <2> QED  BY <1>2, <2>2, <2>3, RootedIs DEF OnItsWay
<1>4. ASSUME i \in 1..Len(f), j = i + 1,
             f[i] \in Escapes, g = [f EXCEPT ![i] = Decoded(f[i])]
      PROVE  OnItsWay(g, j)
  <2>1. i # 1
    BY <1>1, <1>4 DEF Escapes
  <2>2. Len(g) = Len(f) /\ g[1] = f[1]
    BY <1>1, <1>2, <1>4, <2>1
  <2>3. j \in 1..Len(g) + 1
    BY <1>1, <1>4, <2>2
  <2> QED  BY <1>1, <1>2, <2>2, <2>3, RootedIs DEF OnItsWay
<1>5. ASSUME i \in 1..Len(f), j = i + 1, g = f PROVE OnItsWay(g, j)
  <2>1. j \in 1..Len(g) + 1
    BY <1>1, <1>5
  <2> QED  BY <1>2, <1>5, <2>1 DEF OnItsWay
<1> QED  BY <1>3, <1>4, <1>5 DEF Goes

LEMMA LoopRooted == Names \subseteq Rooting
<1>1. ASSUME NEW x \in Names, \A y \in Names : LeftOf(y) < LeftOf(x) => y \in Rooting
      PROVE  x \in Rooting
  <2> DEFINE f == x[1]
             i == x[2]
  <2>1. f \in Seq(Chars) /\ i \in Nat /\ x = <<f, i>>
    BY DEF Names
  <2>2. Normalized[x] = Round(Normalized, f, i)
    BY NormalizedIs
  <2> HIDE DEF f, i
  <2>3. SUFFICES ASSUME OnItsWay(f, i)
                 PROVE  Normalized[x] = NULL \/ Rooted(Normalized[x])
    BY DEF Rooting, f, i
  <2>4. CASE RoundDone(f, i)
    <3>1. PICK r : Stops(f, i, r) /\ \A N : Round(N, f, i) = r
      BY <2>4 DEF RoundDone
    <3>2. Normalized[x] = r
      BY <2>2, <3>1
    <3> QED  BY <2>3, <3>1, <3>2, StopsRooted
  <2>5. CASE RoundGoes(f, i)
    <3>1. PICK g, j : /\ Goes(f, i, g, j)
                      /\ <<g, j>> \in Names /\ LeftOf(<<g, j>>) < LeftOf(<<f, i>>)
                      /\ \A N : Round(N, f, i) = N[<<g, j>>]
      BY <2>5 DEF RoundGoes
    <3> DEFINE y == <<g, j>>
    <3>2. y \in Rooting
      BY <1>1, <2>1, <3>1
    <3>3. y[1] = g /\ y[2] = j
      OBVIOUS
    <3>4. Normalized[x] = Normalized[y]
      BY <2>2, <3>1
    <3>5. OnItsWay(g, j)
      BY <2>3, <3>1, GoesRooted
    <3> HIDE DEF y
    <3> QED  BY <3>2, <3>3, <3>4, <3>5 DEF Rooting
  <2> QED  BY <2>1, <2>4, <2>5, RoundSteps
<1>2. Hereditary(Rooting)
  BY <1>1 DEF Hereditary
<1> QED  BY <1>2, ByRounds

LEMMA NormalizeRooted ==
    ASSUME NEW f, Rooted(f)
    PROVE  fileNormalize(f) = NULL \/ Rooted(fileNormalize(f))
<1> DEFINE x == <<f, 1>>
<1>1. f \in Seq(Chars) /\ Len(f) \in Nat
  BY DEF Rooted
<1>2. x \in Names /\ x[1] = f /\ x[2] = 1
  BY <1>1 DEF Names
<1>3. OnItsWay(f, 1)
  BY <1>1 DEF OnItsWay
<1> HIDE DEF x
<1>4. x \in Rooting
  BY <1>2, LoopRooted
<1>5. fileNormalize(f) = Normalized[x]
  BY DEF fileNormalize, x
<1> QED  BY <1>2, <1>3, <1>4, <1>5 DEF Rooting


-----------------------------------------------------------------------------
(* The name a link is asked for under *)

\* A url with a file; the base of a page may be none.
IsUrl(u) == DOMAIN u = {"host", "port", "file"} /\ Rooted(u.file)

BaseOk(b) == b = NoUrl \/ IsUrl(b)

LEMMA NullFile == ASSUME NEW f, Rooted(f) PROVE f # NULL
BY DEF Rooted, NULL, At, NUL

LEMMA NormalizedUrlIs ==
    ASSUME NEW u, IsUrl(u), NormalizedUrl(u) # NoUrl
    PROVE  IsUrl(NormalizedUrl(u)) /\ NormalizedUrl(u).file = fileNormalize(u.file)
<1> DEFINE n == fileNormalize(u.file)
<1>1. u.file # NULL
  BY NullFile DEF IsUrl
<1>2. n # NULL /\ NormalizedUrl(u) = [u EXCEPT !.file = n]
  BY <1>1 DEF NormalizedUrl
<1>3. Rooted(n)
  BY <1>2, NormalizeRooted DEF IsUrl
<1> HIDE DEF n
<1>4. NormalizedUrl(u).file = n /\ DOMAIN NormalizedUrl(u) = {"host", "port", "file"}
  BY <1>2 DEF IsUrl
<1> QED  BY <1>3, <1>4 DEF IsUrl, n

LEMMA ParseNames ==
    ASSUME NEW arg \in Seq(Chars), parse(arg) # NoUrl
    PROVE  IsUrl(parse(arg))
<1> DEFINE stop == SelectInSeq(arg, LAMBDA c: c \in {"/", ":"})
           fin == IF stop = 0 THEN Len(arg) + 1 ELSE stop
           after == IF At(arg, fin) = ":" THEN Past(arg, fin + 1, ToSet(Digits)) ELSE fin
           host == SubSeq(arg, 1, fin - 1)
           port == IF At(arg, fin) = ":" THEN Port(SubSeq(arg, fin + 1, after - 1)) ELSE 80
           file == IF At(arg, after) = "/" THEN SubSeq(arg, after, Len(arg)) ELSE <<"/">>
<1>1. parse(arg) = IF fin = 1 THEN NoUrl ELSE [host |-> host, port |-> port, file |-> file]
  BY DEF parse
<1>2. Rooted(file)
  <2> HIDE DEF after
  <2>1. CASE At(arg, after) = "/"
    <3>1. after \in 1..Len(arg) /\ arg[after] = "/"
      BY <2>1 DEF At, NUL
    <3>2. after - 1 \in 0..Len(arg) /\ (after - 1) + 1 = after /\ Len(arg) \in Nat
      BY <3>1
    <3> DEFINE r == SubSeq(arg, after, Len(arg))
    <3>3. /\ r \in Seq(Chars) /\ Len(r) = Len(arg) - (after - 1)
          /\ \A k \in 1..Len(arg) - (after - 1) : r[k] = arg[(after - 1) + k]
      BY <3>2, CutSeq
    <3> HIDE DEF r
    <3>4. 1 \in 1..Len(arg) - (after - 1) /\ Len(r) > 0
      BY <3>1, <3>2, <3>3
    <3>5. r[1] = "/"
      BY <3>1, <3>2, <3>3, <3>4
    <3>6. Rooted(r)
      BY <3>3, <3>4, <3>5, RootedIs
    <3> QED  BY <2>1, <3>6 DEF r
  <2>2. CASE At(arg, after) # "/"
    <3>1. <<"/">> \in Seq(Chars) /\ Len(<<"/">>) = 1 /\ <<"/">>[1] = "/"
      BY UrlsAssumption
    <3>2. Rooted(<<"/">>)
      BY <3>1 DEF Rooted, At
    <3> QED  BY <2>2, <3>2
  <2> QED  BY <2>1, <2>2
<1> HIDE DEF host, port, file, fin
<1>3. parse(arg) = [host |-> host, port |-> port, file |-> file]
  BY <1>1
<1> QED  BY <1>2, <1>3 DEF IsUrl

LEMMA UrlNames ==
    ASSUME NEW says \in Seq(Chars), NEW b, BaseOk(b), url(says, b) # NoUrl
    PROVE  /\ IsUrl(url(says, b)) /\ Rooted(NamedBy(says, b))
           /\ url(says, b).file = fileNormalize(NamedBy(says, b))
<1>1. CASE At(says, 1) = "http://"
  <2> DEFINE u == parse(Tail(says))
  <2>1. says # <<>> /\ Tail(says) \in Seq(Chars)
    BY <1>1 DEF At, NUL
  <2>2. url(says, b) = NormalizedUrl(u)
    BY <1>1 DEF url
  <2>3. u # NoUrl
    BY <2>2 DEF NormalizedUrl, NoUrl, NULL
  <2>4. IsUrl(u)
    BY <2>1, <2>3, ParseNames
  <2>5. NamedBy(says, b) = u.file
    BY <1>1 DEF NamedBy
  <2> HIDE DEF u
  <2> QED  BY <2>2, <2>4, <2>5, NormalizedUrlIs DEF IsUrl
<1>2. CASE At(says, 1) # "http://"
  <2> DEFINE t == IF At(says, 1) = "http:" THEN Tail(says) ELSE says
             name == IF At(t, 1) = "/" THEN t ELSE b.file \o t
             u == [b EXCEPT !.file = name]
  <2>1. IsUrl(b) /\ url(says, b) = parseWithBase(t, b)
    BY <1>2 DEF url, BaseOk
  <2>2. t \in Seq(Chars)
    <3>1. CASE At(says, 1) = "http:"
      <4>1. says # <<>>
        BY <3>1 DEF At, NUL
      <4> QED  BY <3>1, <4>1
    <3> QED  BY <3>1
  <2>3. NamedBy(says, b) = name
    <3>1. CASE At(says, 1) = "http:"
      <4>1. Len(says) > 0 /\ Len(says) \in Nat
        BY <3>1 DEF At, NUL
      <4>2. Tail(says) \in Seq(Chars) /\ Len(Tail(says)) = Len(says) - 1
        BY <4>1
      <4>3. 1 \in 1..Len(Tail(says)) <=> 2 \in 1..Len(says)
        BY <4>1, <4>2
      <4>4. 1 \in 1..Len(Tail(says)) => Tail(says)[1] = says[2]
        BY <4>1
      <4>5. At(says, 2) = IF 2 \in 1..Len(says) THEN says[2] ELSE NUL
        BY AtIs
      <4>6. At(Tail(says), 1) = At(says, 2)
        <5> DEFINE s == Tail(says)
        <5>1. s \in Seq(Chars)
          BY <4>2
        <5> HIDE DEF s
        <5>2. At(s, 1) = IF 1 \in 1..Len(s) THEN s[1] ELSE NUL
          BY <5>1, AtIs
        <5> QED  BY <4>3, <4>4, <4>5, <5>2 DEF s
      <4>7. t = Tail(says)
        BY <3>1
      <4>8. NamedBy(says, b) =
              IF At(says, 2) = "/" THEN Tail(says) ELSE b.file \o Tail(says)
        BY <3>1 DEF NamedBy
      <4> QED  BY <4>6, <4>7, <4>8
    <3>2. CASE At(says, 1) = "/"
      BY <3>2 DEF NamedBy
    <3>3. CASE At(says, 1) \notin {"http:", "/"}
      BY <1>2, <3>3 DEF NamedBy
    <3> QED  BY <3>1, <3>2, <3>3
  <2>4. Rooted(name)
    <3> HIDE DEF t
    <3>1. CASE At(t, 1) = "/"
      BY <2>2, <3>1 DEF Rooted
    <3>2. CASE At(t, 1) # "/"
      <4> DEFINE f == b.file
      <4>1. f \in Seq(Chars) /\ Len(f) > 0 /\ f[1] = "/"
        <5>1. Rooted(f) /\ f \in Seq(Chars)
          BY <2>1 DEF IsUrl, Rooted
        <5> HIDE DEF f
        <5> QED  BY <5>1, RootedIs
      <4> HIDE DEF f
      <4>2. /\ f \o t \in Seq(Chars) /\ Len(f \o t) = Len(f) + Len(t)
            /\ \A k \in 1..Len(f) + Len(t) :
                 (f \o t)[k] = IF k <= Len(f) THEN f[k] ELSE t[k - Len(f)]
        BY ONLY <2>2, <4>1, ConcatProperties
      <4>3. Len(f) \in Nat /\ Len(t) \in Nat
        BY <2>2, <4>1
      <4>4. Len(f \o t) > 0 /\ 1 \in 1..Len(f) + Len(t) /\ 1 <= Len(f)
        BY <4>1, <4>2, <4>3
      <4>5. (f \o t)[1] = "/"
        BY <4>1, <4>2, <4>4
      <4>6. Rooted(f \o t)
        BY <4>2, <4>4, <4>5, RootedIs
      <4> QED  BY <3>2, <4>6 DEF f
    <3> QED  BY <3>1, <3>2
  <2>5. parseWithBase(t, b) = NormalizedUrl(u)
    BY DEF parseWithBase
  <2> HIDE DEF name
  <2>6. IsUrl(u) /\ u.file = name
    BY <2>1, <2>4 DEF IsUrl
  <2> HIDE DEF u
  <2> QED  BY <2>1, <2>3, <2>4, <2>5, <2>6, NormalizedUrlIs
<1> QED  BY <1>1, <1>2


\* Where a link was met, the base was that of its page.
LinkOf(l) ==
    \/ l.url = NoUrl
    \/ l.says \in Seq(Chars) /\ BaseOk(l.from) /\ l.url = url(l.says, l.from)

NamesInv == BaseOk(base) /\ LinkOf(link)

LEMMA NoLinkNames == LinkOf(NoLink)
BY DEF LinkOf, NoLink

LEMMA SameNames == ASSUME NamesInv, base' = base, link' \in {link, NoLink} PROVE NamesInv'
BY NoLinkNames DEF NamesInv

LEMMA LinkNames ==
    ASSUME NEW says \in Seq(Chars), NEW d, NEW r, BaseOk(base), manageUrl(says, d, r)
    PROVE  LinkOf(link')
BY DEF manageUrl, LinkOf

\* The base of a page is the directory of its url.
LEMMA GivenBase == IsUrl(giveBase(Here))
<1> DEFINE f == Here.file
           u == SelectLastInSeq(f, LAMBDA c: c = "/")
           b == SubSeq(f, 1, u)
<1>1. Rooted(f) /\ f \in Seq(Chars) /\ DOMAIN Here = {"host", "port", "file"}
  BY PagesAssumption DEF Rooted
<1>2. giveBase(Here) = [Here EXCEPT !.file = b]
  BY DEF giveBase
<1>3. u = Up(f, Len(f) + 1)
  <2>1. (Len(f) + 1) - 1 = Len(f)
    BY <1>1
  <2> QED  BY <2>1 DEF Up, SelectLastInSeq, SelectLastInSubSeq
<1> HIDE DEF f
<1>4. Len(f) \in Nat /\ Len(f) > 0 /\ f[1] = "/"
  BY <1>1, RootedIs
<1>5. u \in 1..Len(f)
  <2> DEFINE i == Len(f) + 1
  <2>1. i \in Nat /\ i > 0 /\ i <= Len(f) + 1 /\ i - 1 = Len(f)
    BY <1>4
  <2> HIDE DEF i
  <2>2. /\ Up(f, i) \in 0..(i - 1)
        /\ \A k \in (Up(f, i) + 1)..(i - 1) : f[k] # "/"
    BY <1>1, <2>1, UpLeads
  <2> HIDE DEF u
  <2>3. u \in 0..Len(f) /\ (\A k \in (u + 1)..Len(f) : f[k] # "/")
    BY <1>3, <2>1, <2>2 DEF i
  <2>4. 1 \in 1..Len(f)
    BY <1>4
  <2>5. u # 0
    BY <1>4, <2>3, <2>4
  <2> QED  BY <1>4, <2>3, <2>5
<1> HIDE DEF u
<1>6. Rooted(b)
  BY <1>1, <1>5, StartRooted
<1> HIDE DEF b
<1> QED  BY <1>1, <1>2, <1>6 DEF IsUrl

\* The base of a BASE tag is the url of what stands up to its last "/".
LEMMA TaggedBase ==
    ASSUME NEW says \in Seq(Chars), NEW slash,
           slash = SelectLastInSeq(says, LAMBDA c: c = "/")
    PROVE  BaseOk(url(SubSeq(says, 1, slash), NoUrl))
<1> DEFINE i == Len(says) + 1
           s == SubSeq(says, 1, slash)
<1>1. i \in Nat /\ i > 0 /\ i <= Len(says) + 1 /\ i - 1 = Len(says) /\ Len(says) \in Nat
  OBVIOUS
<1>2. slash = Up(says, i)
  BY <1>1 DEF Up, SelectLastInSeq, SelectLastInSubSeq
<1> HIDE DEF i
<1>3. slash \in 0..Len(says)
  BY <1>1, <1>2, UpLeads
<1>4. s \in Seq(Chars)
  BY <1>3, CutSeq
<1> HIDE DEF s
<1>5. BaseOk(NoUrl)
  BY DEF BaseOk
<1>6. BaseOk(url(s, NoUrl))
  BY <1>4, <1>5, UrlNames DEF BaseOk
<1> QED  BY <1>6 DEF s

LEMMA NextNames == ASSUME NamesInv, [Next]_vars PROVE NamesInv'
<1>1. CASE UNCHANGED vars
  BY <1>1, SameNames DEF vars, pageVars
<1>2. CASE RobotsNext /\ UNCHANGED pageVars
  BY <1>2, SameNames DEF pageVars
<1>3. CASE StartPage
  BY <1>3, GivenBase, NoLinkNames DEF StartPage, NamesInv, BaseOk
<1>4. CASE Arrive
  BY <1>4, SameNames DEF Arrive, Unread
<1>5. CASE parseCmdline
  BY <1>5, SameNames DEF parseCmdline, Unread
<1>6. CASE parseHeader
  BY <1>6, SameNames DEF parseHeader, Unread
<1>7. CASE parseHeader30X
  <2>1. base' = base
    BY <1>7 DEF parseHeader30X, Unread
  <2>2. ASSUME NEW says \in Redirects, manageUrl(says, depth, TRUE) PROVE LinkOf(link')
    <3>1. says \in Seq(Chars)
      BY PagesAssumption
    <3> QED  BY <2>2, <3>1, LinkNames DEF NamesInv
  <2>3. link' = link \/ \E says \in Redirects : manageUrl(says, depth, TRUE)
    BY <1>7 DEF parseHeader30X
  <2> QED  BY <2>1, <2>2, <2>3 DEF NamesInv
<1>8. CASE InputEnd
  BY <1>8, SameNames DEF InputEnd, Unread
<1>9. CASE endInput
  BY <1>9, SameNames DEF endInput, Unread
<1>10. CASE Fails
  BY <1>10, SameNames DEF Fails, Unread
<1>11. CASE Link
  <2>1. base' = base
    BY <1>11 DEF Link
  <2>2. PICK says \in Links : manageUrl(says, depth - 1, FALSE)
    BY <1>11 DEF Link
  <2>3. says \in Seq(Chars)
    BY PagesAssumption
  <2>4. LinkOf(link')
    BY <2>2, <2>3, LinkNames DEF NamesInv
  <2> QED  BY <2>1, <2>4 DEF NamesInv
<1>12. CASE Base
  <2>1. PICK says \in BaseTags :
          LET slash == SelectLastInSeq(says, LAMBDA c: c = "/")
              tmpbase == url(SubSeq(says, 1, slash), NoUrl)
          IN  base' = IF isValid(tmpbase) THEN tmpbase ELSE NoUrl
    BY <1>12 DEF Base
  <2>2. says \in Seq(Chars)
    BY PagesAssumption
  <2> DEFINE slash == SelectLastInSeq(says, LAMBDA c: c = "/")
             tmpbase == url(SubSeq(says, 1, slash), NoUrl)
  <2>3. base' = tmpbase \/ base' = NoUrl
    BY <2>1
  <2>4. BaseOk(tmpbase)
    BY <2>2, TaggedBase
  <2> HIDE DEF tmpbase
  <2>5. BaseOk(base')
    BY <2>3, <2>4 DEF BaseOk
  <2>6. link' = link
    BY <1>12 DEF Base
  <2> QED  BY <2>5, <2>6 DEF NamesInv
<1>13. CASE NextTag
  BY <1>13, SameNames DEF NextTag
<1>14. CASE EndOfPage
  BY <1>14, SameNames DEF EndOfPage
<1> QED
  BY <1>1, <1>2, <1>3, <1>4, <1>5, <1>6, <1>7, <1>8, <1>9, <1>10, <1>11, <1>12,
     <1>13, <1>14 DEF Next

LEMMA LinkSettled == NamesInv => NamesSettled
<1> SUFFICES ASSUME NamesInv, link.url # NoUrl, Plain(Named) PROVE Settled(link.url.file)
  BY DEF NamesSettled
<1> DEFINE u == url(link.says, link.from)
<1>1. link.says \in Seq(Chars) /\ BaseOk(link.from) /\ link.url = u
  BY DEF NamesInv, LinkOf
<1>2. IsUrl(u) /\ Rooted(Named) /\ u.file = fileNormalize(Named)
  BY <1>1, UrlNames DEF Named
<1> HIDE DEF u
<1>3. u.file # NULL
  BY <1>2, NullFile DEF IsUrl
<1>4. Settled(u.file)
  BY <1>2, <1>3, NormalizeSettles DEF Rooted
<1> QED  BY <1>1, <1>4

\* A link whose name in the page is plain is asked for under a name that stays
\* below the root of the server: no "//", no "." and no ".." is left of it, whatever
\* its length, whatever the base of the page.  A name with "%2E", "%2F", "%25" or a
\* "." before "#" is not plain, and "/%2E%2E/a" does become "/../a" (url::url,
\* fileNormalize).
THEOREM NamesAreSettled == Spec => []NamesSettled
<1>1. Init => NamesInv
  BY NoLinkNames DEF Init, NamesInv, BaseOk
<1>2. NamesInv /\ [Next]_vars => NamesInv'
  BY NextNames
<1>3. NamesInv => NamesSettled
  BY LinkSettled
<1> QED  BY <1>1, <1>2, <1>3, PTL DEF Spec


-----------------------------------------------------------------------------
(* The walk that a name describes *)

WalkStates == [ok: BOOLEAN, path: Seq(Seq(Chars)), seg: Seq(Chars)]

\* w is the walk along the first n characters of f.
WalkOn(w, f, n) ==
    w[0] = WalkStart /\ \A k \in 1..n : w[k] = Read(w[k - 1], f[k])

LEMMA WalksExist == ASSUME NEW f PROVE \A n \in Nat : \E w : WalkOn(w, f, n)
<1> DEFINE T == {n \in Nat : \E w : WalkOn(w, f, n)}
<1>1. 0 \in T
  <2> DEFINE w == [k \in 0..0 |-> WalkStart]
  <2>1. w[0] = WalkStart /\ 1..0 = {}
    OBVIOUS
  <2> QED  BY <2>1 DEF WalkOn
<1>2. ASSUME NEW n \in T PROVE n + 1 \in T
  <2>1. PICK w : WalkOn(w, f, n)
    OBVIOUS
  <2> DEFINE v == [k \in 0..(n + 1) |-> IF k = n + 1 THEN Read(w[n], f[n + 1]) ELSE w[k]]
  <2>2. v[0] = WalkStart
    BY <2>1 DEF WalkOn
  <2>3. ASSUME NEW k \in 1..(n + 1) PROVE v[k] = Read(v[k - 1], f[k])
    <3>1. k - 1 \in 0..(n + 1) /\ k - 1 # n + 1 /\ k \in 0..(n + 1)
      OBVIOUS
    <3>2. v[k - 1] = w[k - 1]
      BY <3>1
    <3>3. CASE k = n + 1
      <4>1. k - 1 = n
        BY <3>3
      <4> QED  BY <3>1, <3>2, <3>3, <4>1
    <3>4. CASE k # n + 1
      <4>1. k \in 1..n
        BY <3>4
      <4>2. v[k] = w[k]
        BY <3>1, <3>4
      <4> QED  BY <2>1, <3>2, <4>1, <4>2 DEF WalkOn
    <3> QED  BY <3>3, <3>4
  <2> HIDE DEF v
  <2>4. WalkOn(v, f, n + 1)
    BY <2>2, <2>3 DEF WalkOn
  <2> QED  BY <2>4
<1>3. T \in SUBSET Nat
  OBVIOUS
<1> HIDE DEF T
<1>4. T = Nat
  BY <1>1, <1>2, <1>3, Induct
<1> QED  BY <1>4 DEF T

LEMMA WalksAre ==
    ASSUME NEW f \in Seq(Chars)
    PROVE  WalkOn(Walks(f), f, Len(f))
<1> DEFINE N == Len(f)
           Good(w) == w = [n \in 0..N |-> IF n = 0 THEN WalkStart ELSE Read(w[n - 1], f[n])]
<1>1. N \in Nat
  OBVIOUS
<1>2. \E w : Good(w)
  <2>1. PICK w : WalkOn(w, f, N)
    BY <1>1, WalksExist
  <2> DEFINE v == [n \in 0..N |-> w[n]]
  <2>2. \A n \in 0..N : v[n] = IF n = 0 THEN WalkStart ELSE Read(v[n - 1], f[n])
    <3> SUFFICES ASSUME NEW n \in 0..N
                 PROVE  v[n] = IF n = 0 THEN WalkStart ELSE Read(v[n - 1], f[n])
      OBVIOUS
    <3>1. CASE n = 0
      BY <1>1, <2>1, <3>1 DEF WalkOn
    <3>2. CASE n # 0
      <4>1. n \in 1..N /\ n - 1 \in 0..N
        BY <1>1, <3>2
      <4> QED  BY <2>1, <3>2, <4>1 DEF WalkOn
    <3> QED  BY <3>1, <3>2
  <2>3. Good(v)
    <3> DEFINE u == [n \in 0..N |-> IF n = 0 THEN WalkStart ELSE Read(v[n - 1], f[n])]
    <3>1. \A n \in 0..N : v[n] = u[n]
      BY <2>2
    <3> QED  BY <3>1
  <2> QED  BY <2>3
<1>3. Walks(f) = CHOOSE w : Good(w)
  BY DEF Walks
<1>4. Good(Walks(f))
  BY <1>2, <1>3
<1> DEFINE v == Walks(f)
<1> HIDE DEF N
<1>5. v = [n \in 0..N |-> IF n = 0 THEN WalkStart ELSE Read(v[n - 1], f[n])]
  BY <1>4
<1> HIDE DEF v
<1>6. v[0] = WalkStart
  BY <1>1, <1>5
<1>7. ASSUME NEW k \in 1..N PROVE v[k] = Read(v[k - 1], f[k])
  <2>1. k \in 0..N /\ k # 0
    BY <1>1
  <2> QED  BY <1>5, <2>1
<1>8. WalkOn(v, f, N)
  BY <1>6, <1>7 DEF WalkOn
<1> QED  BY <1>8 DEF v, N

\* Two characters that say the same.
Alike(c, d) == c = d \/ (c = "%61" /\ d = "a")

LEMMA ReadAlike == ASSUME NEW w, NEW c, NEW d, Alike(c, d) PROVE Read(w, c) = Read(w, d)
<1>1. CASE c = "%61" /\ d = "a"
  BY <1>1 DEF Read
<1> QED  BY <1>1 DEF Alike

\* The m characters after a in f and after b in g.
AlikeAfter(f, a, g, b, m) ==
    /\ f \in Seq(Chars) /\ g \in Seq(Chars) /\ a \in Nat /\ b \in Nat /\ m \in Nat
    /\ a + m <= Len(f) /\ b + m <= Len(g)
    /\ \A k \in 1..m : Alike(f[a + k], g[b + k])

\* Two names that say the same from where their walks are in the same place.
LEMMA SameWalk ==
    ASSUME NEW f, NEW g, NEW a, NEW b, NEW m, AlikeAfter(f, a, g, b, m),
           Walks(f)[a] = Walks(g)[b]
    PROVE  Walks(f)[a + m] = Walks(g)[b + m]
<1> USE DEF AlikeAfter
<1> DEFINE v == Walks(f)
           w == Walks(g)
           T == {n \in Nat : n <= m => v[a + n] = w[b + n]}
<1>1. /\ \A k \in 1..Len(f) : v[k] = Read(v[k - 1], f[k])
      /\ \A k \in 1..Len(g) : w[k] = Read(w[k - 1], g[k])
  BY WalksAre DEF WalkOn
<1>2. v[a] = w[b] /\ Len(f) \in Nat /\ Len(g) \in Nat
  OBVIOUS
<1> HIDE DEF v, w
<1>3. 0 \in T
  BY <1>2
<1>4. ASSUME NEW n \in T PROVE n + 1 \in T
  <2>1. SUFFICES ASSUME n + 1 <= m PROVE v[a + (n + 1)] = w[b + (n + 1)]
    OBVIOUS
  <2>2. v[a + n] = w[b + n]
    BY <2>1
  <2>3. /\ a + (n + 1) \in 1..Len(f) /\ (a + (n + 1)) - 1 = a + n
        /\ b + (n + 1) \in 1..Len(g) /\ (b + (n + 1)) - 1 = b + n
        /\ n + 1 \in 1..m
    BY <1>2, <2>1
  <2>4. Alike(f[a + (n + 1)], g[b + (n + 1)])
    BY <2>3
  <2>5. v[a + (n + 1)] = Read(v[a + n], f[a + (n + 1)])
    BY <1>1, <2>3
  <2>6. w[b + (n + 1)] = Read(w[b + n], g[b + (n + 1)])
    BY <1>1, <2>3
  <2> QED  BY <2>2, <2>4, <2>5, <2>6, ReadAlike
<1>5. T \in SUBSET Nat
  OBVIOUS
<1> HIDE DEF T
<1>6. m \in T
  BY <1>3, <1>4, <1>5, Induct
<1> QED  BY <1>6 DEF T, v, w

LEMMA DotsDiffer == Above \notin Dot
<1>1. Len(<<>>) = 0 /\ \A c : Len(<<c>>) = 1 /\ Len(<<c, c>>) = 2
  OBVIOUS
<1>2. <<".", ".">> # <<>> /\ <<".", ".">> # <<".">>
  BY <1>1
<1> QED  BY <1>2 DEF Dot, Above

LEMMA ReadType ==
    ASSUME NEW w \in WalkStates, NEW c \in Chars
    PROVE  /\ Read(w, c) \in WalkStates
           /\ ~w.ok => ~Read(w, c).ok
<1>1. w.ok \in BOOLEAN /\ w.path \in Seq(Seq(Chars)) /\ w.seg \in Seq(Chars)
  BY DEF WalkStates
<1>2. CASE c = "/"
  <2>1. Enter(w).path \in Seq(Seq(Chars))
    <3>1. CASE w.seg \in Dot
      <4>1. w.seg # Above
        BY <3>1, DotsDiffer
      <4> QED  BY <1>1, <3>1, <4>1 DEF Enter
    <3>2. CASE w.seg = Above
      <4>1. w.seg \notin Dot
        BY <3>2, DotsDiffer
      <4>2. w.path # <<>> => Front(w.path) \in Seq(Seq(Chars))
        <5>1. w.path # <<>> => Len(w.path) \in Nat /\ Len(w.path) - 1 \in 0..Len(w.path)
          BY <1>1
        <5> QED  BY <1>1, <5>1, CutSeq DEF Front
      <4> QED  BY <1>1, <3>2, <4>1, <4>2 DEF Enter
    <3>3. CASE w.seg \notin Dot /\ w.seg # Above
      BY <1>1, <3>3 DEF Enter
    <3> QED  BY <3>1, <3>2, <3>3
  <2>2. Enter(w).ok \in BOOLEAN /\ (~w.ok => ~Enter(w).ok) /\ Enter(w).seg \in Seq(Chars)
    <3>1. Enter(w).ok = (w.ok /\ (w.seg = Above => w.path # <<>>)) /\ Enter(w).seg = <<>>
      BY DEF Enter
    <3>2. <<>> \in Seq(Chars)
      BY EmptySeq
    <3>3. Enter(w).ok \in BOOLEAN
      BY <1>1, <3>1
    <3>4. ~w.ok => ~Enter(w).ok
      BY <3>1
    <3> QED  BY <3>1, <3>2, <3>3, <3>4
  <2>3. Enter(w) = [ok |-> Enter(w).ok, path |-> Enter(w).path, seg |-> Enter(w).seg]
    BY DEF Enter
  <2>4. Enter(w) \in WalkStates
    BY <2>1, <2>2, <2>3 DEF WalkStates
  <2> QED  BY <1>2, <2>2, <2>4 DEF Read
<1>3. CASE c \in {"%07", "%zz"}
  BY <1>1, <1>3 DEF Read, WalkStates
<1>4. CASE c \notin {"/", "%07", "%zz"}
  <2> DEFINE d == IF c = "%61" THEN "a" ELSE c
  <2>1. d \in Chars
    BY UrlsAssumption
  <2>2. Read(w, c) = [w EXCEPT !.seg = Append(w.seg, d)]
    BY <1>4 DEF Read
  <2> HIDE DEF d
  <2>3. Append(w.seg, d) \in Seq(Chars)
    BY <1>1, <2>1
  <2> QED  BY <1>1, <2>2, <2>3 DEF WalkStates
<1> QED  BY <1>2, <1>3, <1>4

\* A walk that has stopped does not go on.
LEMMA WalkType ==
    ASSUME NEW f \in Seq(Chars), NEW a \in 0..Len(f), NEW m \in Nat, a + m <= Len(f)
    PROVE  /\ Walks(f)[a] \in WalkStates
           /\ ~Walks(f)[a].ok => ~Walks(f)[a + m].ok
<1> DEFINE v == Walks(f)
           T == {n \in Nat : n <= Len(f) => v[n] \in WalkStates}
           U == {n \in Nat : n <= m => (~v[a].ok => ~v[a + n].ok)}
<1>1. v[0] = WalkStart /\ \A k \in 1..Len(f) : v[k] = Read(v[k - 1], f[k])
  BY WalksAre DEF WalkOn
<1>2. Len(f) \in Nat /\ \A k \in 1..Len(f) : f[k] \in Chars
  OBVIOUS
<1> HIDE DEF v
<1>3. T = Nat
  <2>1. 0 \in T
    <3>1. <<>> \in Seq(Seq(Chars)) /\ <<>> \in Seq(Chars)
      BY EmptySeq
    <3>2. WalkStart \in WalkStates
      BY <3>1 DEF WalkStart, WalkStates
    <3> QED  BY <1>1, <3>2
  <2>2. ASSUME NEW n \in T PROVE n + 1 \in T
    <3>1. SUFFICES ASSUME n + 1 <= Len(f) PROVE v[n + 1] \in WalkStates
      OBVIOUS
    <3>2. n + 1 \in 1..Len(f) /\ (n + 1) - 1 = n /\ n <= Len(f)
      BY <1>2, <3>1
    <3>3. v[n] \in WalkStates /\ f[n + 1] \in Chars /\ v[n + 1] = Read(v[n], f[n + 1])
      BY <1>1, <1>2, <3>2
    <3> QED  BY <3>3, ReadType
  <2>3. T \in SUBSET Nat
    OBVIOUS
  <2> HIDE DEF T
  <2> QED  BY <2>1, <2>2, <2>3, Induct
<1>4. \A n \in 0..Len(f) : v[n] \in WalkStates
  BY <1>2, <1>3
<1>5. U = Nat
  <2>1. 0 \in U
    BY <1>2
  <2>2. ASSUME NEW n \in U PROVE n + 1 \in U
    <3>1. SUFFICES ASSUME n + 1 <= m, ~v[a].ok PROVE ~v[a + (n + 1)].ok
      OBVIOUS
    <3>2. /\ a + (n + 1) \in 1..Len(f) /\ (a + (n + 1)) - 1 = a + n /\ n <= m
          /\ a + n \in 0..Len(f)
      BY <1>2, <3>1
    <3>3. /\ v[a + n] \in WalkStates /\ f[a + (n + 1)] \in Chars
          /\ v[a + (n + 1)] = Read(v[a + n], f[a + (n + 1)]) /\ ~v[a + n].ok
      BY <1>1, <1>2, <1>4, <3>1, <3>2
    <3> QED  BY <3>3, ReadType
  <2>3. U \in SUBSET Nat
    OBVIOUS
  <2> HIDE DEF U
  <2> QED  BY <2>1, <2>2, <2>3, Induct
<1>6. m \in U
  BY <1>5
<1> QED  BY <1>4, <1>6 DEF v


\* Of a name, what stands before its first "#" counts.
LEMMA LengthIs ==
    ASSUME NEW f \in Seq(Chars), NEW n \in 0..Len(f), \A k \in 1..n : f[k] # "#",
           n < Len(f) => f[n + 1] = "#"
    PROVE  Length(f) = n
<1> DEFINE I == {k \in 1..Len(f) : f[k] = "#"}
<1>1. Len(f) \in Nat /\ n \in Nat
  OBVIOUS
<1>2. CASE n = Len(f)
  <2>1. I = {}
    BY <1>2
  <2>2. SelectInSeq(f, LAMBDA c: c = "#") = 0
    BY <2>1 DEF SelectInSeq
  <2> QED  BY <1>2, <2>2 DEF Length
<1>3. CASE n # Len(f)
  <2>1. n + 1 \in I /\ \A k \in I : n + 1 <= k
    <3>1. n + 1 \in I
      BY <1>1, <1>3
    <3>2. ASSUME NEW k \in I PROVE n + 1 <= k
      BY <1>1, <3>2
    <3> QED  BY <3>1, <3>2
  <2>2. I \subseteq Int
    OBVIOUS
  <2>3. Min(I) = n + 1
    <3> HIDE DEF I
    <3>1. \A k \in I : (\A j \in I : k <= j) => k = n + 1
      BY <1>1, <2>1, <2>2
    <3> QED  BY <2>1, <3>1 DEF Min
  <2>4. SelectInSeq(f, LAMBDA c: c = "#") = n + 1
    BY <2>1, <2>3 DEF SelectInSeq
  <2>5. n + 1 # 0 /\ (n + 1) - 1 = n
    BY <1>1
  <2> QED  BY <2>4, <2>5 DEF Length
<1> QED  BY <1>2, <1>3

LEMMA LengthType ==
    ASSUME NEW f \in Seq(Chars)
    PROVE  /\ Length(f) \in 0..Len(f) /\ \A k \in 1..Length(f) : f[k] # "#"
           /\ Length(f) < Len(f) => f[Length(f) + 1] = "#"
<1> DEFINE H == {n \in Nat : n = Len(f) \/ (n < Len(f) /\ f[n + 1] = "#")}
<1>1. Len(f) \in Nat
  OBVIOUS
<1>2. PICK n \in H : \A k \in H : n <= k
  <2>1. H \in SUBSET Nat /\ Len(f) \in H
    BY <1>1
  <2> HIDE DEF H
  <2> QED  BY <2>1, Least
<1>3. n \in 0..Len(f) /\ (n < Len(f) => f[n + 1] = "#")
  BY <1>1
<1>4. ASSUME NEW k \in 1..n, f[k] = "#" PROVE FALSE
  <2>1. k - 1 \in Nat /\ k - 1 < Len(f) /\ (k - 1) + 1 = k
    BY <1>1, <1>3
  <2>2. k - 1 \in H
    BY <1>4, <2>1
  <2>3. n <= k - 1
    BY <1>2, <2>2
  <2> QED  BY <1>3, <2>3
<1>5. Length(f) = n
  BY <1>3, <1>4, LengthIs
<1> QED  BY <1>3, <1>4, <1>5

\* The name of a directory, from the names on its path.
Flat(path) == FlattenSeq([k \in DOMAIN path |-> <<"/">> \o path[k]])

SlashOf == [s \in Seq(Chars) |-> <<"/">> \o s]

LEMMA FlatIs ==
    ASSUME NEW path \in Seq(Seq(Chars))
    PROVE  Flat(path) = Texts(SlashOf, path) /\ HasTexts(Chars, Seq(Chars), SlashOf, path)
<1>1. DOMAIN path = 1..Len(path) /\ \A k \in 1..Len(path) : path[k] \in Seq(Chars)
  OBVIOUS
<1>2. [k \in DOMAIN path |-> <<"/">> \o path[k]] = [k \in DOMAIN path |-> SlashOf[path[k]]]
  BY <1>1 DEF SlashOf
<1>3. Flat(path) = Texts(SlashOf, path)
  BY <1>2 DEF Flat, Texts, TextSeq
<1>4. SlashOf \in [Seq(Chars) -> Seq(Chars)]
  <2>1. <<"/">> \in Seq(Chars)
    BY UrlsAssumption
  <2>2. \A s \in Seq(Chars) : <<"/">> \o s \in Seq(Chars)
    BY <2>1
  <2> QED  BY <2>2 DEF SlashOf
<1> QED  BY <1>3, <1>4 DEF HasTexts

LEMMA FlatNone == Flat(<<>>) = <<>>
<1>1. <<>> \in Seq(Seq(Chars))
  BY EmptySeq
<1> QED  BY <1>1, FlatIs, TextsOfNone

LEMMA FlatAppend ==
    ASSUME NEW path \in Seq(Seq(Chars)), NEW s \in Seq(Chars)
    PROVE  Flat(Append(path, s)) = Flat(path) \o (<<"/">> \o s)
<1>1. Append(path, s) \in Seq(Seq(Chars))
  OBVIOUS
<1>2. Texts(SlashOf, Append(path, s)) = Texts(SlashOf, path) \o SlashOf[s]
  BY FlatIs, TextsAppend
<1>3. SlashOf[s] = <<"/">> \o s
  BY DEF SlashOf
<1>4. Flat(Append(path, s)) = Texts(SlashOf, Append(path, s)) /\ Flat(path) = Texts(SlashOf, path)
  BY <1>1, FlatIs
<1> QED  BY <1>2, <1>3, <1>4

\* A part of a name.
LEMMA PartOf ==
    ASSUME NEW f \in Seq(Chars), NEW u \in Nat, NEW n \in Nat, u <= n, n <= Len(f)
    PROVE  /\ SubSeq(f, u + 1, n) \in Seq(Chars) /\ Len(SubSeq(f, u + 1, n)) = n - u
           /\ \A k \in 1..(n - u) : SubSeq(f, u + 1, n)[k] = f[u + k]
<1> DEFINE p == SubSeq(f, 1, n)
<1>1. p \in Seq(Chars) /\ Len(p) = n /\ \A k \in 1..n : p[k] = f[k]
  BY FirstOf
<1>2. u \in 0..Len(p)
  BY <1>1
<1>3. \A k \in 1..(n - u) : u + k \in 1..n
  OBVIOUS
<1>4. Len(f) \in Nat /\ \A k \in (u + 1)..n : f[k] \in Chars
  <2>1. Len(f) \in Nat
    OBVIOUS
  <2>2. ASSUME NEW k \in (u + 1)..n PROVE f[k] \in Chars
    <3>1. k \in 1..Len(f)
      BY <2>1
    <3> QED  BY <3>1
  <2> QED  BY <2>1, <2>2
<1>5. SubSeq(f, u + 1, n) = [k \in 1..(n - u) |-> f[u + k]]
  <2>1. SubSeq(f, u + 1, n) = [k \in 1..((1 + n) - (u + 1)) |-> f[(k + (u + 1)) - 1]]
    BY <1>4
  <2>2. (1 + n) - (u + 1) = n - u /\ \A k \in 1..(n - u) : (k + (u + 1)) - 1 = u + k
    OBVIOUS
  <2> QED  BY <2>1, <2>2
<1> DEFINE s == [k \in 1..(n - u) |-> f[u + k]]
<1>6. s \in [1..(n - u) -> Chars] /\ n - u \in Nat
  <2>1. \A k \in 1..(n - u) : u + k \in (u + 1)..n
    OBVIOUS
  <2> QED  BY <1>4, <2>1
<1>7. s \in Seq(Chars) /\ Len(s) = n - u
  BY <1>6, SeqDef
<1> QED  BY <1>5, <1>7

\* What stands up to a "/", the "/" and what stands behind it.
LEMMA JoinAt ==
    ASSUME NEW f \in Seq(Chars), NEW u \in Nat, NEW n \in Nat, u > 0, u <= n, n <= Len(f),
           f[u] = "/"
    PROVE  /\ SubSeq(f, 1, u - 1) \o (<<"/">> \o SubSeq(f, u + 1, n)) = SubSeq(f, 1, n)
           /\ SubSeq(f, 1, u - 1) \o <<"/">> = SubSeq(f, 1, u)
<1> DEFINE a == SubSeq(f, 1, u - 1)
           b == SubSeq(f, u + 1, n)
           o == <<"/">>
           r == SubSeq(f, 1, n)
           d == SubSeq(f, 1, u)
<1>1. Len(f) \in Nat /\ u - 1 \in Nat /\ u - 1 <= Len(f) /\ u <= Len(f)
  OBVIOUS
<1>2. a \in Seq(Chars) /\ Len(a) = u - 1 /\ \A k \in 1..(u - 1) : a[k] = f[k]
  BY <1>1, FirstOf
<1>3. b \in Seq(Chars) /\ Len(b) = n - u /\ \A k \in 1..(n - u) : b[k] = f[u + k]
  BY PartOf
<1>4. r \in Seq(Chars) /\ Len(r) = n /\ \A k \in 1..n : r[k] = f[k]
  BY FirstOf
<1>5. d \in Seq(Chars) /\ Len(d) = u /\ \A k \in 1..u : d[k] = f[k]
  BY <1>1, FirstOf
<1>6. o \in Seq(Chars) /\ Len(o) = 1 /\ o[1] = "/"
  BY UrlsAssumption
<1> HIDE DEF a, b, o, r, d
<1>7. /\ o \o b \in Seq(Chars) /\ Len(o \o b) = 1 + (n - u)
      /\ \A k \in 1..(1 + (n - u)) : (o \o b)[k] = IF k <= 1 THEN o[k] ELSE b[k - 1]
  <2>1. o \in Seq(Chars) /\ b \in Seq(Chars)
    BY <1>3, <1>6
  <2>2. /\ o \o b \in Seq(Chars) /\ Len(o \o b) = Len(o) + Len(b)
        /\ \A k \in 1..(Len(o) + Len(b)) :
             (o \o b)[k] = IF k <= Len(o) THEN o[k] ELSE b[k - Len(o)]
    BY ONLY <2>1, ConcatProperties
  <2> QED  BY <1>3, <1>6, <2>2
<1> DEFINE c == o \o b
<1> HIDE DEF c
<1>8. /\ c \in Seq(Chars) /\ Len(c) = 1 + (n - u)
      /\ \A k \in 1..(1 + (n - u)) : c[k] = IF k <= 1 THEN o[k] ELSE b[k - 1]
  BY <1>7 DEF c
<1>9. /\ a \o c \in Seq(Chars) /\ Len(a \o c) = (u - 1) + (1 + (n - u))
      /\ \A k \in 1..((u - 1) + (1 + (n - u))) :
           (a \o c)[k] = IF k <= u - 1 THEN a[k] ELSE c[k - (u - 1)]
  <2>1. a \in Seq(Chars) /\ c \in Seq(Chars)
    BY <1>2, <1>8
  <2>2. /\ a \o c \in Seq(Chars) /\ Len(a \o c) = Len(a) + Len(c)
        /\ \A k \in 1..(Len(a) + Len(c)) :
             (a \o c)[k] = IF k <= Len(a) THEN a[k] ELSE c[k - Len(a)]
    BY ONLY <2>1, ConcatProperties
  <2> QED  BY <1>2, <1>8, <2>2
<1>10. a \o c = r
  <2> DEFINE e == a \o c
  <2>1. e \in Seq(Chars) /\ Len(e) = n
    BY <1>1, <1>9
  <2>2. ASSUME NEW k \in 1..n PROVE e[k] = r[k]
    <3>1. e[k] = IF k <= u - 1 THEN a[k] ELSE c[k - (u - 1)]
      BY <1>1, <1>9
    <3> HIDE DEF e
    <3>2. CASE k <= u - 1
      BY <1>2, <1>4, <3>1, <3>2
    <3>3. CASE k = u
      <4>1. k - (u - 1) = 1 /\ ~(k <= u - 1) /\ 1 \in 1..(1 + (n - u))
        BY <3>3
      <4>2. c[1] = "/"
        BY <1>6, <1>8, <4>1
      <4> QED  BY <1>4, <3>1, <3>3, <4>1, <4>2
    <3>4. CASE k > u
      <4>1. /\ ~(k <= u - 1) /\ k - (u - 1) \in 1..(1 + (n - u)) /\ ~(k - (u - 1) <= 1)
            /\ (k - (u - 1)) - 1 = k - u /\ k - u \in 1..(n - u) /\ u + (k - u) = k
        BY <3>4
      <4>2. c[k - (u - 1)] = b[k - u]
        BY <1>8, <4>1
      <4>3. b[k - u] = f[k]
        BY <1>3, <4>1
      <4> QED  BY <1>4, <3>1, <4>1, <4>2, <4>3
    <3> QED  BY <3>2, <3>3, <3>4
  <2> HIDE DEF e
  <2>3. e = r
    BY <1>4, <2>1, <2>2, SeqEqual
  <2> QED  BY <2>3 DEF e
<1>11. a \o o = d
  <2> DEFINE e == a \o o
  <2>1. /\ e \in Seq(Chars) /\ Len(e) = (u - 1) + 1
        /\ \A k \in 1..((u - 1) + 1) : e[k] = IF k <= u - 1 THEN a[k] ELSE o[k - (u - 1)]
    <3>1. a \in Seq(Chars) /\ o \in Seq(Chars)
      BY <1>2, <1>6
    <3>2. /\ a \o o \in Seq(Chars) /\ Len(a \o o) = Len(a) + Len(o)
          /\ \A k \in 1..(Len(a) + Len(o)) :
               (a \o o)[k] = IF k <= Len(a) THEN a[k] ELSE o[k - Len(a)]
      BY ONLY <3>1, ConcatProperties
    <3> QED  BY <1>2, <1>6, <3>2
  <2>2. (u - 1) + 1 = u
    OBVIOUS
  <2> HIDE DEF e
  <2>3. ASSUME NEW k \in 1..u PROVE e[k] = d[k]
    <3>1. e[k] = IF k <= u - 1 THEN a[k] ELSE o[k - (u - 1)]
      BY <2>1, <2>2
    <3>2. CASE k <= u - 1
      BY <1>2, <1>5, <3>1, <3>2
    <3>3. CASE k = u
      <4>1. k - (u - 1) = 1 /\ ~(k <= u - 1)
        BY <3>3
      <4> QED  BY <1>5, <1>6, <3>1, <3>3, <4>1
    <3> QED  BY <3>2, <3>3
  <2>4. e = d
    BY <1>5, <2>1, <2>2, <2>3, SeqEqual
  <2> QED  BY <2>4 DEF e
<1> QED  BY <1>10, <1>11 DEF a, b, c, d, o, r


\* The walk in the directory of a path, with a segment read.
On(path, s) == [ok |-> TRUE, path |-> path, seg |-> s]

LEMMA EnterDot == ASSUME NEW path, NEW s \in Dot PROVE Enter(On(path, s)) = On(path, <<>>)
<1>1. s # Above
  BY DEF Dot, Above
<1> QED  BY <1>1 DEF Enter, On

LEMMA EnterNew ==
    ASSUME NEW path, NEW s, s \notin Dot, s # Above
    PROVE  Enter(On(path, s)) = On(Append(path, s), <<>>)
BY DEF Enter, On

LEMMA EnterAbove ==
    ASSUME NEW path \in Seq(Seq(Chars)), NEW s \in Seq(Chars)
    PROVE  Enter(On(Append(path, s), Above)) = On(path, <<>>)
<1> DEFINE p == Append(path, s)
<1>1. Above \notin Dot
  BY DEF Dot, Above
<1>2. p # <<>> /\ Front(p) = path
  <2>1. /\ p \in Seq(Seq(Chars)) /\ Len(p) = Len(path) + 1 /\ Len(path) \in Nat
        /\ \A k \in 1..Len(path) : p[k] = path[k]
    OBVIOUS
  <2> HIDE DEF p
  <2>2. Len(p) - 1 = Len(path) /\ Len(path) <= Len(p)
    BY <2>1
  <2> DEFINE q == SubSeq(p, 1, Len(path))
  <2>3. q \in Seq(Seq(Chars)) /\ Len(q) = Len(path) /\ \A k \in 1..Len(path) : q[k] = p[k]
    BY <2>1, <2>2, FirstOf
  <2> HIDE DEF q
  <2>4. q = path
    BY <2>1, <2>3, SeqEqual
  <2>5. Front(p) = q
    BY <2>2 DEF Front, q
  <2> QED  BY <2>1, <2>4, <2>5
<1> HIDE DEF p
<1> QED  BY <1>1, <1>2 DEF Enter, On, p

LEMMA EnterRoot == Enter(On(<<>>, Above)).ok = FALSE
BY DEF Enter, On

LEMMA ReadOn ==
    ASSUME NEW path, NEW s, NEW c
    PROVE  /\ c = "/" => Read(On(path, s), c) = Enter(On(path, s))
           /\ c \notin Special \cup {"/"} => Read(On(path, s), c) = On(path, Append(s, c))
<1>1. CASE c = "/"
  BY <1>1 DEF Read
<1>2. CASE c \notin Special \cup {"/"}
  BY <1>2 DEF Read, On, Special
<1> QED  BY <1>1, <1>2

\* What a name has between two "/", of which the first goes on with a segment.
LEMMA SegmentOf ==
    ASSUME NEW f \in Seq(Chars), NEW u \in Nat, NEW n \in Nat, u > 0, u <= n, n <= Len(f),
           GoesOn(f, u), At(f, n + 1) \in {"/", NUL}
    PROVE  /\ SubSeq(f, u + 1, n) \notin {<<".">>, Above}
           /\ SubSeq(f, u + 1, n) = <<>> => At(f, n + 1) # "/" /\ n = u
<1> DEFINE s == SubSeq(f, u + 1, n)
<1>1. s \in Seq(Chars) /\ Len(s) = n - u /\ \A k \in 1..(n - u) : s[k] = f[u + k]
  BY PartOf
<1>2. \A k \in Int : At(f, k) = IF k \in 1..Len(f) THEN f[k] ELSE NUL
  BY AtIs
<1>3. Len(f) \in Nat
  OBVIOUS
<1> HIDE DEF s
<1>4. ASSUME s = <<".">> PROVE FALSE
  <2>1. Len(s) = 1 /\ s[1] = "."
    BY <1>4
  <2>3. n - u = 1
    BY <1>1, <2>1
  <2>4. n = u + 1 /\ u + 1 \in 1..Len(f) /\ n + 1 = u + 2 /\ 1 \in 1..(n - u)
    BY <1>3, <2>3
  <2>5. f[u + 1] = "."
    BY <1>1, <2>1, <2>4
  <2>2. n = u + 1 /\ f[u + 1] = "." /\ u + 1 \in 1..Len(f) /\ n + 1 = u + 2
    BY <2>4, <2>5
  <2>6. At(f, u + 1) = "."
    BY <1>2, <2>2
  <2> QED  BY <2>2, <2>6 DEF GoesOn, IsDot
<1>5. ASSUME s = Above PROVE FALSE
  <2>1. Len(s) = 2 /\ s[1] = "." /\ s[2] = "."
    BY <1>5 DEF Above
  <2>3. n - u = 2
    BY <1>1, <2>1
  <2>4. /\ n = u + 2 /\ n + 1 = u + 3 /\ 1 \in 1..(n - u) /\ 2 \in 1..(n - u)
        /\ u + 1 \in 1..Len(f) /\ u + 2 \in 1..Len(f)
    BY <1>3, <2>3
  <2>5. f[u + 1] = "." /\ f[u + 2] = "."
    BY <1>1, <2>1, <2>4
  <2>2. /\ n = u + 2 /\ f[u + 1] = "." /\ f[u + 2] = "." /\ n + 1 = u + 3
        /\ u + 1 \in 1..Len(f) /\ u + 2 \in 1..Len(f)
    BY <2>4, <2>5
  <2>6. At(f, u + 1) = "." /\ At(f, u + 2) = "."
    BY <1>2, <2>2
  <2> QED  BY <2>2, <2>6 DEF GoesOn, IsDotDot
<1>6. ASSUME s = <<>> PROVE At(f, n + 1) # "/" /\ n = u
  <2>1. n = u
    BY <1>1, <1>6
  <2> QED  BY <2>1 DEF GoesOn
<1> QED  BY <1>4, <1>5, <1>6 DEF s

\* The loop has passed the first n characters of f.
Passed(f, n) ==
    /\ f \in Seq(Chars) /\ Len(f) \in Nat /\ Len(f) > 0 /\ f[1] = "/"
    /\ n \in 1..Len(f) /\ SettledTo(f, n - 1)
    /\ \A k \in 1..n : f[k] \notin Special

\* The walk along them is in the directory that its last "/" ends.
WalkIs(f, n, u, path) ==
    /\ u \in 1..n /\ f[u] = "/" /\ \A k \in (u + 1)..n : f[k] # "/"
    /\ path \in Seq(Seq(Chars)) /\ Flat(path) = SubSeq(f, 1, u - 1)
    /\ Walks(f)[u] = On(path, <<>>)
    /\ Walks(f)[n] = On(path, SubSeq(f, u + 1, n))

LEMMA EmptyPart == ASSUME NEW f \in Seq(Chars), NEW u \in Nat, u <= Len(f)
                   PROVE  SubSeq(f, u + 1, u) = <<>> /\ SubSeq(f, 1, 0) = <<>>
<1>1. Len(SubSeq(f, u + 1, u)) = 0 /\ SubSeq(f, u + 1, u) \in Seq(Chars)
  BY PartOf
<1>2. Len(SubSeq(f, 1, 0)) = 0 /\ SubSeq(f, 1, 0) \in Seq(Chars)
  BY FirstOf
<1> QED  BY <1>1, <1>2, EmptySeq

LEMMA FirstWalk == ASSUME NEW f, Passed(f, 1) PROVE WalkIs(f, 1, 1, <<>>)
<1>1. f \in Seq(Chars) /\ Len(f) \in Nat /\ Len(f) > 0 /\ f[1] = "/" /\ 1 \in 1..Len(f)
  BY DEF Passed
<1>2. Walks(f)[1] = Read(WalkStart, "/")
  BY <1>1, WalksAre DEF WalkOn
<1>3. WalkStart = On(<<>>, <<>>) /\ <<>> \in Dot
  BY DEF WalkStart, On, Dot
<1>4. Walks(f)[1] = On(<<>>, <<>>)
  BY <1>2, <1>3, ReadOn, EnterDot
<1>5. SubSeq(f, 1 + 1, 1) = <<>> /\ SubSeq(f, 1, 1 - 1) = <<>>
  BY <1>1, EmptyPart
<1>6. <<>> \in Seq(Seq(Chars))
  BY EmptySeq
<1>7. 1 \in 1..1 /\ \A k \in (1 + 1)..1 : f[k] # "/"
  OBVIOUS
<1>8. Walks(f)[1] = On(<<>>, SubSeq(f, 1 + 1, 1)) /\ Flat(<<>>) = SubSeq(f, 1, 1 - 1)
  BY <1>4, <1>5, FlatNone
<1> QED  BY <1>1, <1>4, <1>6, <1>7, <1>8 DEF WalkIs

LEMMA NextWalk ==
    ASSUME NEW f, NEW n \in Nat, Passed(f, n), Passed(f, n + 1), NEW u, NEW path,
           WalkIs(f, n, u, path)
    PROVE  \E v, p : WalkIs(f, n + 1, v, p)
<1> DEFINE c == f[n + 1]
           s == SubSeq(f, u + 1, n)
<1>1. /\ f \in Seq(Chars) /\ Len(f) \in Nat /\ n + 1 \in 1..Len(f) /\ n \in 1..Len(f)
      /\ c \in Chars /\ c \notin Special
      /\ \A k \in 1..n : f[k] = "/" => GoesOn(f, k)
  <2>1. n + 1 \in 1..(n + 1) /\ (n + 1) - 1 = n
    OBVIOUS
  <2> QED  BY <2>1 DEF Passed, SettledTo
<1>2. /\ u \in 1..n /\ f[u] = "/" /\ \A k \in (u + 1)..n : f[k] # "/"
      /\ path \in Seq(Seq(Chars)) /\ Flat(path) = SubSeq(f, 1, u - 1)
      /\ Walks(f)[u] = On(path, <<>>)
      /\ Walks(f)[n] = On(path, s)
  BY DEF WalkIs
<1>3. Walks(f)[n + 1] = Read(On(path, s), c)
  <2>1. (n + 1) - 1 = n
    OBVIOUS
  <2> QED  BY <1>1, <1>2, <2>1, WalksAre DEF WalkOn
<1>4. s \in Seq(Chars) /\ Len(s) = n - u /\ \A k \in 1..(n - u) : s[k] = f[u + k]
  BY <1>1, <1>2, PartOf
<1>5. CASE c # "/"
  <2> DEFINE t == SubSeq(f, u + 1, n + 1)
  <2>1. t \in Seq(Chars) /\ Len(t) = (n + 1) - u /\ \A k \in 1..((n + 1) - u) : t[k] = f[u + k]
    BY <1>1, <1>2, PartOf
  <2>2. /\ Append(s, c) \in Seq(Chars) /\ Len(Append(s, c)) = Len(s) + 1
        /\ \A k \in 1..Len(s) : Append(s, c)[k] = s[k]
        /\ Append(s, c)[Len(s) + 1] = c
    <3> HIDE DEF s, c
    <3> QED  BY <1>1, <1>4, AppendProperties
  <2> DEFINE a == Append(s, c)
  <2>3. a = t
    <3> HIDE DEF t, a
    <3>1. ASSUME NEW k \in 1..Len(a) PROVE a[k] = t[k]
      <4>1. k \in 1..((n + 1) - u) /\ (k \in 1..(n - u) \/ k = (n - u) + 1)
        BY <1>1, <1>2, <1>4, <2>2 DEF a
      <4>2. CASE k \in 1..(n - u)
        BY <1>4, <2>1, <2>2, <4>1, <4>2 DEF a
      <4>3. CASE k = (n - u) + 1
        <5>1. u + k = n + 1
          BY <1>2, <4>3
        <5> QED  BY <1>4, <2>1, <2>2, <4>1, <4>3, <5>1 DEF a
      <4> QED  BY <4>1, <4>2, <4>3
    <3>2. Len(a) = Len(t)
      BY <1>2, <1>4, <2>1, <2>2 DEF a
    <3>3. a \in Seq(Chars)
      BY <2>2 DEF a
    <3> QED  BY <2>1, <3>1, <3>2, <3>3, SeqEqual
  <2>4. Walks(f)[n + 1] = On(path, t)
    <3>1. Read(On(path, s), c) = On(path, a)
      BY <1>1, <1>5, ReadOn
    <3> QED  BY <1>3, <2>3, <3>1
  <2>5. \A k \in (u + 1)..(n + 1) : k \in (u + 1)..n \/ k = n + 1
    BY <1>2
  <2>6. \A k \in (u + 1)..(n + 1) : f[k] # "/"
    BY <1>2, <1>5, <2>5
  <2>7. u \in 1..(n + 1)
    BY <1>2
  <2> HIDE DEF s, c, a
  <2>8. WalkIs(f, n + 1, u, path)
    BY <1>2, <2>4, <2>6, <2>7 DEF WalkIs
  <2> QED  BY <2>8
<1>6. CASE c = "/"
  <2> DEFINE p == Append(path, s)
  <2>1. GoesOn(f, u) /\ u \in Nat /\ u > 0 /\ u <= n /\ n <= Len(f)
    BY <1>1, <1>2
  <2>2. At(f, n + 1) = "/"
    BY <1>1, <1>6, AtIs
  <2>3. s \notin {<<".">>, Above} /\ s # <<>>
    BY <1>1, <2>1, <2>2, SegmentOf
  <2>4. s \notin Dot /\ s # Above
    BY <2>3 DEF Dot
  <2>5. Walks(f)[n + 1] = On(p, <<>>)
    <3> HIDE DEF s, c
    <3>1. Read(On(path, s), c) = Enter(On(path, s))
      BY <1>6, ReadOn
    <3>2. Enter(On(path, s)) = On(Append(path, s), <<>>)
      BY <2>4, EnterNew
    <3> QED  BY <1>3, <3>1, <3>2
  <2>6. Flat(p) = SubSeq(f, 1, n)
    <3>1. Flat(p) = Flat(path) \o (<<"/">> \o s)
      BY <1>2, <1>4, FlatAppend
    <3>2. SubSeq(f, 1, u - 1) \o (<<"/">> \o s) = SubSeq(f, 1, n)
      BY <1>1, <1>2, <2>1, JoinAt
    <3> QED  BY <1>2, <3>1, <3>2
  <2>7. p \in Seq(Seq(Chars))
    <3> HIDE DEF s
    <3> QED  BY <1>2, <1>4
  <2>8. (n + 1) - 1 = n /\ SubSeq(f, (n + 1) + 1, n + 1) = <<>>
    BY <1>1, EmptyPart
  <2>9. n + 1 \in 1..(n + 1) /\ \A k \in ((n + 1) + 1)..(n + 1) : FALSE
    OBVIOUS
  <2> HIDE DEF p
  <2>10. WalkIs(f, n + 1, n + 1, p)
    BY <1>6, <2>5, <2>6, <2>7, <2>8, <2>9 DEF WalkIs
  <2> QED  BY <2>10
<1> QED  BY <1>5, <1>6

LEMMA WalkAlong == ASSUME NEW f, NEW n, Passed(f, n) PROVE \E u, path : WalkIs(f, n, u, path)
<1> DEFINE T == {m \in Nat : m \in 1..n => \E u, path : WalkIs(f, m, u, path)}
<1>1. n \in Nat /\ \A m \in 1..n : Passed(f, m)
  <2>1. n \in Nat /\ n <= Len(f) /\ Len(f) \in Nat
    BY DEF Passed
  <2>2. ASSUME NEW m \in 1..n PROVE Passed(f, m)
    <3>1. m \in 1..Len(f) /\ (\A k \in 1..m : k \in 1..n) /\ \A k \in 1..(m - 1) : k \in 1..(n - 1)
      BY <2>1
    <3> QED  BY <3>1 DEF Passed, SettledTo
  <2> QED  BY <2>1, <2>2
<1>2. 0 \in T
  OBVIOUS
<1>3. ASSUME NEW m \in T PROVE m + 1 \in T
  <2>1. SUFFICES ASSUME m + 1 \in 1..n PROVE \E u, path : WalkIs(f, m + 1, u, path)
    OBVIOUS
  <2>2. Passed(f, m + 1)
    BY <1>1, <2>1
  <2>3. CASE m = 0
    <3>1. m + 1 = 1
      BY <2>3
    <3> QED  BY <2>2, <3>1, FirstWalk
  <2>4. CASE m # 0
    <3>1. m \in 1..n /\ m \in Nat
      BY <1>1, <2>1, <2>4
    <3>2. PICK u, path : WalkIs(f, m, u, path)
      BY <3>1
    <3> HIDE DEF T
    <3> QED  BY <1>1, <2>2, <3>1, <3>2, NextWalk
  <2> QED  BY <2>3, <2>4
<1>4. T \in SUBSET Nat
  OBVIOUS
<1> HIDE DEF T
<1>5. n \in T
  BY <1>1, <1>2, <1>3, <1>4, Induct
<1>6. n \in 1..n
  BY <1>1 DEF Passed
<1> QED  BY <1>5, <1>6 DEF T


-----------------------------------------------------------------------------
(* Where the walk ends *)

End(w) ==
    IF ~Enter(w).ok THEN NULL
    ELSE Flat(Enter(w).path) \o (IF w.seg \in Dot \cup {Above} THEN <<"/">> ELSE <<>>)

LEMMA MeantIs == ASSUME NEW f PROVE Meant(f) = End(Walks(f)[Length(f)])
BY DEF Meant, End, Flat

\* The loop at position i of f, with nothing left to decode before it.
InLoop(f, i) == Ready(f, i) /\ \A k \in 1..(i - 1) : f[k] \notin Special

LEMMA AtIn ==
    ASSUME NEW f \in Seq(Chars), NEW k \in Int, At(f, k) # NUL
    PROVE  k \in 1..Len(f) /\ f[k] = At(f, k)
BY AtIs

LEMMA LoopIs ==
    ASSUME NEW f, NEW i, InLoop(f, i)
    PROVE  /\ f \in Seq(Chars) /\ Len(f) \in Nat /\ Len(f) > 0 /\ f[1] = "/"
           /\ i \in Nat /\ i > 0 /\ i <= Len(f) + 1
           /\ \A k \in 1..(i - 1) : f[k] # "#" /\ (f[k] = "/" => GoesOn(f, k))
           /\ \A k \in Int : /\ At(f, k) = IF k \in 1..Len(f) THEN f[k] ELSE NUL
                             /\ At(f, k) # NUL <=> k \in 1..Len(f)
           /\ i > 1 => Passed(f, i - 1)
           /\ At(f, i) = "/" => Passed(f, i)
<1>1. /\ f \in Seq(Chars) /\ Len(f) \in Nat /\ Len(f) > 0 /\ f[1] = "/"
      /\ i \in Nat /\ i > 0 /\ i <= Len(f) + 1 /\ SettledTo(f, i - 1)
      /\ \A k \in 1..(i - 1) : f[k] \notin Special
  BY DEF InLoop, Ready
<1>2. \A k \in 1..(i - 1) : f[k] # "#" /\ (f[k] = "/" => GoesOn(f, k))
  BY <1>1 DEF SettledTo, Special
<1>3. \A k \in Int : /\ At(f, k) = IF k \in 1..Len(f) THEN f[k] ELSE NUL
                     /\ At(f, k) # NUL <=> k \in 1..Len(f)
  <2> SUFFICES ASSUME NEW k \in Int
               PROVE  /\ At(f, k) = IF k \in 1..Len(f) THEN f[k] ELSE NUL
                      /\ At(f, k) # NUL <=> k \in 1..Len(f)
    OBVIOUS
  <2>1. At(f, k) = IF k \in 1..Len(f) THEN f[k] ELSE NUL
    BY <1>1, AtIs
  <2>2. k \in 1..Len(f) => f[k] \in Chars
    BY <1>1
  <2> QED  BY <2>1, <2>2, UrlsAssumption
<1>4. ASSUME i > 1 PROVE Passed(f, i - 1)
  <2>1. i - 1 \in 1..Len(f) /\ \A k \in 1..((i - 1) - 1) : k \in 1..(i - 1)
    BY <1>1, <1>4
  <2> QED  BY <1>1, <2>1 DEF Passed, SettledTo
<1>5. ASSUME At(f, i) = "/" PROVE Passed(f, i)
  <2>1. i \in 1..Len(f) /\ f[i] = "/"
    <3>1. i \in Int /\ At(f, i) # NUL
      BY <1>1, <1>5 DEF NUL
    <3> QED  BY <1>1, <1>5, <3>1, AtIn
  <2>2. \A k \in 1..i : k \in 1..(i - 1) \/ k = i
    BY <1>1
  <2>3. \A k \in 1..i : f[k] \notin Special
    BY <1>1, <2>1, <2>2 DEF Special
  <2> QED  BY <1>1, <2>1, <2>3 DEF Passed
<1> QED  BY <1>1, <1>2, <1>3, <1>4, <1>5

\* At a "/", the walk is in the directory that it ends.
LEMMA AtSlash ==
    ASSUME NEW f, NEW i, InLoop(f, i), At(f, i) = "/"
    PROVE  \E path \in Seq(Seq(Chars)) :
             /\ Flat(path) = SubSeq(f, 1, i - 1) /\ Walks(f)[i] = On(path, <<>>)
             /\ i = 1 => path = <<>>
<1>0. f \in Seq(Chars) /\ Len(f) \in Nat /\ i \in Nat /\ i > 0 /\ Passed(f, i)
  BY LoopIs
<1>1. /\ f \in Seq(Chars) /\ i \in Nat /\ i > 0 /\ i <= Len(f) /\ f[i] = "/"
      /\ Passed(f, i)
  <2>1. i \in Int /\ At(f, i) # NUL
    BY <1>0 DEF NUL
  <2>2. i \in 1..Len(f) /\ f[i] = "/"
    BY <1>0, <2>1, AtIn
  <2> QED  BY <1>0, <2>2
<1>2. CASE i = 1
  <2>1. WalkIs(f, 1, 1, <<>>)
    BY <1>1, <1>2, FirstWalk
  <2> QED  BY <1>2, <2>1 DEF WalkIs
<1>3. CASE i # 1
  <2>1. PICK u, path : WalkIs(f, i, u, path)
    BY <1>1, WalkAlong
  <2>2. u = i
    <3>1. u \in 1..i /\ \A k \in (u + 1)..i : f[k] # "/"
      BY <2>1 DEF WalkIs
    <3>2. u < i => i \in (u + 1)..i
      BY <1>1, <3>1
    <3> QED  BY <1>1, <3>1, <3>2
  <2> QED  BY <1>3, <2>1, <2>2 DEF WalkIs
<1> QED  BY <1>2, <1>3

\* The directory it comes from is the one where Up leads.
LEMMA AtUp ==
    ASSUME NEW f, NEW i, InLoop(f, i), At(f, i) = "/", NEW j, j = Up(f, i), j # 0
    PROVE  /\ j \in Nat /\ j > 0 /\ j < i /\ f[j] = "/"
           /\ \E path \in Seq(Seq(Chars)), s \in Seq(Chars) :
                /\ Flat(path) = SubSeq(f, 1, j - 1) /\ Walks(f)[j] = On(path, <<>>)
                /\ Walks(f)[i] = On(Append(path, s), <<>>)
<1>0. /\ f \in Seq(Chars) /\ Len(f) \in Nat /\ i \in Nat /\ i > 0
      /\ (i > 1 => Passed(f, i - 1))
      /\ \A k \in 1..(i - 1) : f[k] = "/" => GoesOn(f, k)
  BY LoopIs
<1>1. /\ f \in Seq(Chars) /\ Len(f) \in Nat /\ i \in Nat /\ i > 0 /\ i <= Len(f)
      /\ f[i] = "/" /\ (i > 1 => Passed(f, i - 1))
      /\ \A k \in 1..(i - 1) : f[k] = "/" => GoesOn(f, k)
  <2>1. i \in Int /\ At(f, i) # NUL
    BY <1>0 DEF NUL
  <2>2. i \in 1..Len(f) /\ f[i] = "/"
    BY <1>0, <2>1, AtIn
  <2> QED  BY <1>0, <2>2
<1>2. j \in 0..(i - 1) /\ f[j] = "/" /\ \A k \in (j + 1)..(i - 1) : f[k] # "/"
  <2>1. i <= Len(f) + 1
    BY <1>1
  <2>2. /\ Up(f, i) \in 0..(i - 1) /\ (Up(f, i) > 0 => f[Up(f, i)] = "/")
        /\ \A k \in (Up(f, i) + 1)..(i - 1) : f[k] # "/"
    BY <1>1, <2>1, UpLeads
  <2> QED  BY <1>1, <2>2
<1>3. j \in Nat /\ j > 0 /\ j < i /\ i > 1 /\ i - 1 \in Nat
  BY <1>1, <1>2
<1>4. PICK u, path : WalkIs(f, i - 1, u, path)
  BY <1>1, <1>3, WalkAlong
<1>5. u \in 1..(i - 1) /\ f[u] = "/" /\ \A k \in (u + 1)..(i - 1) : f[k] # "/"
  BY <1>4 DEF WalkIs
<1>6. u = j
  <2>1. u < j => j \in (u + 1)..(i - 1)
    BY <1>2, <1>3, <1>5
  <2>2. j < u => u \in (j + 1)..(i - 1)
    BY <1>2, <1>3, <1>5
  <2> QED  BY <1>2, <1>3, <1>5, <2>1, <2>2
<1> DEFINE s == SubSeq(f, j + 1, i - 1)
<1>7. /\ path \in Seq(Seq(Chars)) /\ Flat(path) = SubSeq(f, 1, j - 1)
      /\ Walks(f)[j] = On(path, <<>>) /\ Walks(f)[i - 1] = On(path, s)
  BY <1>4, <1>6 DEF WalkIs
<1>8. j <= i - 1 /\ i - 1 <= Len(f) /\ (i - 1) + 1 = i /\ GoesOn(f, j)
  BY <1>1, <1>2, <1>3
<1>9. s \in Seq(Chars)
  BY <1>1, <1>3, <1>8, PartOf
<1>10. s \notin Dot /\ s # Above
  <2> DEFINE n == i - 1
  <2>1. n \in Nat /\ j <= n /\ n <= Len(f) /\ At(f, n + 1) = "/"
    BY <1>3, <1>8
  <2>3. s = SubSeq(f, j + 1, n)
    OBVIOUS
  <2> HIDE DEF n, s
  <2>2. s \notin {<<".">>, Above} /\ s # <<>>
    BY <1>1, <1>3, <1>8, <2>1, <2>3, SegmentOf
  <2> QED  BY <2>2 DEF Dot
<1>11. Walks(f)[i] = Read(Walks(f)[i - 1], f[i])
  BY <1>1, WalksAre DEF WalkOn
<1> HIDE DEF s
<1>12. Walks(f)[i] = On(Append(path, s), <<>>)
  <2>1. Read(On(path, s), "/") = Enter(On(path, s))
    BY ReadOn
  <2> QED  BY <1>1, <1>7, <1>10, <1>11, <2>1, EnterNew
<1> QED  BY <1>2, <1>3, <1>7, <1>9, <1>12

\* Behind a "/" the walk reads dots.
LEMMA ReadDots ==
    ASSUME NEW f \in Seq(Chars), NEW i \in Nat, NEW path, Walks(f)[i] = On(path, <<>>),
           At(f, i + 1) = "."
    PROVE  /\ Walks(f)[i + 1] = On(path, <<".">>) /\ i + 1 \in 1..Len(f) /\ f[i + 1] = "."
           /\ At(f, i + 2) = "." =>
                Walks(f)[i + 2] = On(path, Above) /\ i + 2 \in 1..Len(f) /\ f[i + 2] = "."
<1>2. i + 1 \in 1..Len(f) /\ f[i + 1] = "." /\ (i + 1) - 1 = i
  <2>1. i + 1 \in Int /\ At(f, i + 1) # NUL
    <3>1. NUL # "."
      BY DEF NUL
    <3> QED  BY <3>1
  <2>2. i + 1 \in 1..Len(f) /\ f[i + 1] = "."
    BY <2>1, AtIn
  <2> QED  BY <2>2
<1>3. \A k \in 1..Len(f) : Walks(f)[k] = Read(Walks(f)[k - 1], f[k])
  BY WalksAre DEF WalkOn
<1>4. "." \notin Special \cup {"/"}
  BY DEF Special
<1>5. Walks(f)[i + 1] = On(path, <<".">>)
  <2>1. Walks(f)[i + 1] = Read(On(path, <<>>), ".")
    BY <1>2, <1>3
  <2>2. Append(<<>>, ".") = <<".">>
    OBVIOUS
  <2>3. Read(On(path, <<>>), ".") = On(path, Append(<<>>, "."))
    BY <1>4, ReadOn
  <2> QED  BY <2>1, <2>2, <2>3
<1>6. ASSUME At(f, i + 2) = "."
      PROVE  Walks(f)[i + 2] = On(path, Above) /\ i + 2 \in 1..Len(f) /\ f[i + 2] = "."
  <2>1. i + 2 \in 1..Len(f) /\ f[i + 2] = "." /\ (i + 2) - 1 = i + 1
    <3>1. i + 2 \in Int /\ At(f, i + 2) # NUL
      <4>1. NUL # "."
        BY DEF NUL
      <4> QED  BY <1>6, <4>1
    <3>2. i + 2 \in 1..Len(f) /\ f[i + 2] = "."
      BY <1>6, <3>1, AtIn
    <3> QED  BY <3>2
  <2>2. Walks(f)[i + 2] = Read(On(path, <<".">>), ".")
    BY <1>3, <1>5, <2>1
  <2>3. Append(<<".">>, ".") = Above
    <3> DEFINE a == Append(<<".">>, ".")
               b == <<".", ".">>
    <3>1. <<".">> \in Seq(Chars) /\ "." \in Chars /\ Len(<<".">>) = 1 /\ <<".">>[1] = "."
      BY UrlsAssumption
    <3>2. a \in Seq(Chars) /\ Len(a) = 1 + 1 /\ a[1] = "." /\ a[1 + 1] = "."
      BY <3>1, AppendProperties
    <3>3. b \in Seq(Chars) /\ Len(b) = 2 /\ b[1] = "." /\ b[2] = "."
      BY UrlsAssumption
    <3> HIDE DEF a, b
    <3>4. Len(a) = 2 /\ \A k \in 1..2 : a[k] = b[k]
      <4>1. \A k \in 1..2 : k = 1 \/ k = 2
        OBVIOUS
      <4> QED  BY <3>2, <3>3, <4>1
    <3>5. a = b
      BY <3>2, <3>3, <3>4, SeqEqual
    <3> QED  BY <3>5 DEF a, b, Above
  <2>4. Read(On(path, <<".">>), ".") = On(path, Append(<<".">>, "."))
    BY <1>4, ReadOn
  <2> QED  BY <2>1, <2>2, <2>3, <2>4
<1> QED  BY <1>2, <1>5, <1>6


\* What the end of a walk says: a directory, or a file of it.
LEMMA EndDir ==
    ASSUME NEW f \in Seq(Chars), NEW u \in Nat, u > 0, u <= Len(f), f[u] = "/",
           NEW path \in Seq(Seq(Chars)), Flat(path) = SubSeq(f, 1, u - 1), NEW s \in Dot
    PROVE  End(On(path, s)) = SubSeq(f, 1, u)
<1> DEFINE w == On(path, s)
<1>1. SubSeq(f, 1, u - 1) \o <<"/">> = SubSeq(f, 1, u)
  <2>1. u <= u
    OBVIOUS
  <2> QED  BY <2>1, JoinAt
<1>2. w.seg \in Dot \cup {Above} /\ Enter(w) = On(path, <<>>)
  BY EnterDot DEF On
<1>3. On(path, <<>>).ok = TRUE /\ On(path, <<>>).path = path
  BY DEF On
<1> HIDE DEF w
<1>4. End(w) = Flat(path) \o <<"/">>
  BY <1>2, <1>3 DEF End
<1> QED  BY <1>1, <1>4 DEF w

LEMMA EndUp ==
    ASSUME NEW f \in Seq(Chars), NEW u \in Nat, u > 0, u <= Len(f), f[u] = "/",
           NEW path \in Seq(Seq(Chars)), Flat(path) = SubSeq(f, 1, u - 1), NEW x \in Seq(Chars)
    PROVE  End(On(Append(path, x), Above)) = SubSeq(f, 1, u)
<1> DEFINE w == On(Append(path, x), Above)
<1>1. SubSeq(f, 1, u - 1) \o <<"/">> = SubSeq(f, 1, u)
  <2>1. u <= u
    OBVIOUS
  <2> QED  BY <2>1, JoinAt
<1>2. w.seg \in Dot \cup {Above} /\ Enter(w) = On(path, <<>>)
  BY EnterAbove DEF On
<1>3. On(path, <<>>).ok = TRUE /\ On(path, <<>>).path = path
  BY DEF On
<1> HIDE DEF w
<1>4. End(w) = Flat(path) \o <<"/">>
  BY <1>2, <1>3 DEF End
<1> QED  BY <1>1, <1>4 DEF w

\* After the path, which ends before the "/" at u, the segment s up to n.
IsFile(f, u, n, path, s) ==
    /\ f \in Seq(Chars) /\ u \in Nat /\ n \in Nat /\ u > 0 /\ u <= n /\ n <= Len(f)
    /\ f[u] = "/" /\ path \in Seq(Seq(Chars)) /\ Flat(path) = SubSeq(f, 1, u - 1)
    /\ s = SubSeq(f, u + 1, n) /\ s \notin Dot /\ s # Above

LEMMA EndFile ==
    ASSUME NEW f, NEW u, NEW n, NEW path, NEW s, IsFile(f, u, n, path, s)
    PROVE  End(On(path, s)) = SubSeq(f, 1, n)
<1> DEFINE w == On(path, s)
           p == Append(path, s)
<1> USE DEF IsFile
<1>1. SubSeq(f, 1, u - 1) \o (<<"/">> \o SubSeq(f, u + 1, n)) = SubSeq(f, 1, n)
  BY JoinAt
<1>2. w.seg \notin Dot \cup {Above} /\ Enter(w) = On(p, <<>>)
  BY EnterNew DEF On
<1>3. On(p, <<>>).ok = TRUE /\ On(p, <<>>).path = p
  BY DEF On
<1>4. s \in Seq(Chars)
  BY PartOf
<1>5. Flat(p) = SubSeq(f, 1, n)
  <2>1. Flat(p) = Flat(path) \o (<<"/">> \o s)
    BY <1>4, FlatAppend
  <2> QED  BY <1>1, <2>1
<1> HIDE DEF w, p
<1>6. End(w) = Flat(p) \o <<>>
  BY <1>2, <1>3 DEF End
<1>7. SubSeq(f, 1, n) \in Seq(Chars)
  BY FirstOf
<1>8. SubSeq(f, 1, n) \o <<>> = SubSeq(f, 1, n)
  BY <1>7, ConcatEmptySeq
<1> QED  BY <1>5, <1>6, <1>8 DEF w

\* The loop ends where the name does: what it has passed is what the name means.
LEMMA EndMeans ==
    ASSUME NEW f, NEW i, InLoop(f, i), At(f, i) \in {NUL, "#"}
    PROVE  Meant(f) = SubSeq(f, 1, i - 1)
<1> DEFINE n == i - 1
<1>1. /\ f \in Seq(Chars) /\ Len(f) \in Nat /\ Len(f) > 0 /\ f[1] = "/"
      /\ i \in Nat /\ i > 0 /\ i <= Len(f) + 1
      /\ \A k \in 1..(i - 1) : f[k] # "#" /\ (f[k] = "/" => GoesOn(f, k))
      /\ \A k \in Int : /\ At(f, k) = IF k \in 1..Len(f) THEN f[k] ELSE NUL
                        /\ At(f, k) # NUL <=> k \in 1..Len(f)
      /\ i > 1 => Passed(f, i - 1)
  BY LoopIs
<1>2. i > 1
  <2>1. At(f, 1) = "/"
    BY <1>1
  <2>2. i # 1
    BY <2>1 DEF NUL
  <2> QED  BY <1>1, <2>2
<1>3. n \in Nat /\ n > 0 /\ n <= Len(f) /\ n + 1 = i /\ Passed(f, n)
  BY <1>1, <1>2
<1>4. \A k \in 1..n : f[k] # "#" /\ (f[k] = "/" => GoesOn(f, k))
  BY <1>1
<1>5. At(f, n + 1) \in {NUL, "#"} /\ (At(f, n + 1) = "#" => n < Len(f) /\ f[n + 1] = "#")
      /\ (n < Len(f) => At(f, n + 1) # NUL)
  <2>1. n + 1 \in Int /\ (At(f, n + 1) # NUL <=> n + 1 \in 1..Len(f))
    BY <1>1, <1>3
  <2>2. At(f, n + 1) = "#" => n + 1 \in 1..Len(f) /\ f[n + 1] = "#"
    <3>1. "#" # NUL
      BY DEF NUL
    <3> QED  BY <1>1, <2>1, <3>1, AtIn
  <2>3. n + 1 \in 1..Len(f) <=> n < Len(f)
    BY <1>1, <1>3
  <2> QED  BY <1>3, <2>1, <2>2, <2>3
<1> HIDE DEF n
<1>6. Length(f) = n
  <2>1. n \in 0..Len(f) /\ (n < Len(f) => f[n + 1] = "#")
    BY <1>1, <1>3, <1>5
  <2> QED  BY <1>1, <1>4, <2>1, LengthIs
<1>7. PICK u, path : WalkIs(f, n, u, path)
  BY <1>3, WalkAlong
<1> DEFINE s == SubSeq(f, u + 1, n)
<1>8. /\ u \in Nat /\ u > 0 /\ u <= n /\ f[u] = "/" /\ GoesOn(f, u)
      /\ path \in Seq(Seq(Chars)) /\ Flat(path) = SubSeq(f, 1, u - 1)
      /\ Walks(f)[n] = On(path, s)
  <2>1. u \in 1..n /\ f[u] = "/"
    BY <1>7 DEF WalkIs
  <2>2. GoesOn(f, u)
    BY <1>4, <2>1
  <2> QED  BY <1>3, <1>7, <2>1, <2>2 DEF WalkIs
<1>9. s \notin {<<".">>, Above}
  <2>1. CASE At(f, n + 1) = NUL
    BY <1>1, <1>3, <1>8, <2>1, SegmentOf
  <2>2. CASE At(f, n + 1) = "#"
    <3>1. At(f, n) # "."
      <4>1. Plain(f) /\ DOMAIN f = 1..Len(f)
        BY <1>1 DEF InLoop, Ready
      <4>2. n + 1 \in 1..Len(f) /\ f[n + 1] = "#" /\ (n + 1) - 1 = n
        BY <1>1, <1>3, <1>5, <2>2
      <4> QED  BY <4>1, <4>2 DEF Plain
    <3>2. f[n] # "."
      <4>1. n \in 1..Len(f) /\ n \in Int
        BY <1>1, <1>3
      <4> QED  BY <1>1, <3>1, <4>1
    <3>3. s \in Seq(Chars) /\ Len(s) = n - u /\ \A k \in 1..(n - u) : s[k] = f[u + k]
      BY <1>1, <1>3, <1>8, PartOf
    <3> HIDE DEF s
    <3>4. ASSUME s \in {<<".">>, Above} PROVE FALSE
      <4>1. Len(s) \in Nat /\ Len(s) > 0 /\ s[Len(s)] = "."
        BY <3>4 DEF Above
      <4>2. n - u > 0
        BY <3>3, <4>1
      <4>3. n - u \in 1..(n - u) /\ u + (n - u) = n
        BY <1>3, <1>8, <4>2
      <4>4. s[n - u] = f[n]
        BY <3>3, <4>3
      <4> QED  BY <3>2, <3>3, <4>1, <4>4
    <3> QED  BY <3>4
  <2> QED  BY <1>5, <2>1, <2>2
<1>10. End(On(path, s)) = SubSeq(f, 1, n)
  <2>1. CASE s = <<>>
    <3>1. s \in Seq(Chars) /\ Len(s) = n - u
      BY <1>1, <1>3, <1>8, PartOf
    <3> HIDE DEF s
    <3>2. n = u
      <4>1. n - u = 0
        BY <2>1, <3>1
      <4> QED  BY <1>3, <1>8, <4>1
    <3>3. s \in Dot
      BY <2>1 DEF Dot
    <3> QED  BY <1>1, <1>3, <1>8, <3>2, <3>3, EndDir
  <2>2. CASE s # <<>>
    <3>1. s \notin Dot /\ s # Above
      BY <1>9, <2>2 DEF Dot
    <3>2. s = SubSeq(f, u + 1, n)
      OBVIOUS
    <3> HIDE DEF s
    <3>3. IsFile(f, u, n, path, s)
      BY <1>1, <1>3, <1>8, <3>1, <3>2 DEF IsFile
    <3> QED  BY <3>3, EndFile
  <2> QED  BY <2>1, <2>2
<1>11. Meant(f) = SubSeq(f, 1, n)
  BY <1>6, <1>8, <1>10, MeantIs
<1> QED  BY <1>11 DEF n

\* It ends with dots: the name means the directory that they lead to.
LEMMA DotsMean ==
    ASSUME NEW f, NEW i, InLoop(f, i), NEW u, u > 0, EndsIn(f, i, u)
    PROVE  Meant(f) = SubSeq(f, 1, u)
<1>1. /\ f \in Seq(Chars) /\ Len(f) \in Nat
      /\ i \in Nat /\ i > 0 /\ i <= Len(f) + 1
      /\ \A k \in 1..(i - 1) : f[k] # "#"
      /\ \A k \in Int : At(f, k) # NUL <=> k \in 1..Len(f)
  BY LoopIs
<1>2. i \in 1..Len(f) /\ f[i] = "/" /\ At(f, i) = "/"
  <2>1. At(f, i) = "/" /\ i \in Int /\ At(f, i) # NUL
    <3>1. At(f, i) = "/"
      BY DEF EndsIn
    <3>2. NUL # "/"
      BY DEF NUL
    <3> QED  BY <1>1, <3>1, <3>2
  <2> QED  BY <1>1, <2>1, AtIn
<1>3. CASE IsDot(f, i) /\ At(f, i + 2) = NUL /\ u = i
  <2>1. PICK path \in Seq(Seq(Chars)) :
          Flat(path) = SubSeq(f, 1, i - 1) /\ Walks(f)[i] = On(path, <<>>)
    BY <1>2, AtSlash
  <2>2. /\ Walks(f)[i + 1] = On(path, <<".">>) /\ i + 1 \in 1..Len(f) /\ f[i + 1] = "."
    <3>1. At(f, i + 1) = "."
      BY <1>3 DEF IsDot
    <3> QED  BY <1>1, <2>1, <3>1, ReadDots
  <2>3. Len(f) = i + 1
    <3>1. i + 2 \in Int /\ i + 2 \notin 1..Len(f)
      BY <1>1, <1>3
    <3> QED  BY <1>1, <2>2, <3>1
  <2>4. Length(f) = i + 1
    <3>1. ASSUME NEW k \in 1..(i + 1) PROVE f[k] # "#"
      <4>1. k \in 1..(i - 1) \/ k = i \/ k = i + 1
        BY <1>1
      <4> QED  BY <1>1, <1>2, <2>2, <4>1
    <3>2. i + 1 \in 0..Len(f) /\ ~(i + 1 < Len(f))
      BY <2>2, <2>3
    <3> QED  BY <1>1, <3>1, <3>2, LengthIs
  <2>5. <<".">> \in Dot
    BY DEF Dot
  <2>6. End(On(path, <<".">>)) = SubSeq(f, 1, i)
    <3>1. i <= Len(f)
      BY <1>1, <1>2
    <3> QED  BY <1>1, <1>2, <2>1, <2>5, <3>1, EndDir
  <2> QED  BY <1>3, <2>2, <2>4, <2>6, MeantIs
<1>4. CASE IsDotDot(f, i) /\ At(f, i + 3) = NUL /\ u = Up(f, i)
  <2>1. u # 0
    OBVIOUS
  <2>2. u \in Nat /\ u > 0 /\ u < i /\ f[u] = "/"
    BY <1>2, <1>4, <2>1, AtUp
  <2>3. PICK path \in Seq(Seq(Chars)), s \in Seq(Chars) :
          /\ Flat(path) = SubSeq(f, 1, u - 1)
          /\ Walks(f)[i] = On(Append(path, s), <<>>)
    BY <1>2, <1>4, <2>1, AtUp
  <2>4. /\ Walks(f)[i + 2] = On(Append(path, s), Above)
        /\ i + 1 \in 1..Len(f) /\ f[i + 1] = "." /\ i + 2 \in 1..Len(f) /\ f[i + 2] = "."
    <3>1. At(f, i + 1) = "." /\ At(f, i + 2) = "."
      BY <1>4 DEF IsDotDot
    <3> QED  BY <1>1, <2>3, <3>1, ReadDots
  <2>5. Len(f) = i + 2
    <3>1. i + 3 \in Int /\ i + 3 \notin 1..Len(f)
      BY <1>1, <1>4
    <3> QED  BY <1>1, <2>4, <3>1
  <2>6. Length(f) = i + 2
    <3>1. ASSUME NEW k \in 1..(i + 2) PROVE f[k] # "#"
      <4>1. k \in 1..(i - 1) \/ k = i \/ k = i + 1 \/ k = i + 2
        BY <1>1
      <4> QED  BY <1>1, <1>2, <2>4, <4>1
    <3>2. i + 2 \in 0..Len(f) /\ ~(i + 2 < Len(f))
      BY <2>4, <2>5
    <3> QED  BY <1>1, <3>1, <3>2, LengthIs
  <2>7. End(On(Append(path, s), Above)) = SubSeq(f, 1, u)
    <3>1. u <= Len(f)
      BY <1>1, <1>2, <2>2
    <3> QED  BY <1>1, <2>2, <2>3, <3>1, EndUp
  <2> QED  BY <2>4, <2>6, <2>7, MeantIs
<1> QED  BY <1>3, <1>4 DEF EndsIn


\* A name is read at least as far as there is no "#".
LEMMA LengthPast ==
    ASSUME NEW f \in Seq(Chars), NEW n \in 0..Len(f), \A k \in 1..n : f[k] # "#"
    PROVE  n <= Length(f)
<1>1. /\ Length(f) \in 0..Len(f)
      /\ Length(f) < Len(f) => f[Length(f) + 1] = "#"
  BY LengthType
<1>2. Len(f) \in Nat
  OBVIOUS
<1> DEFINE L == Length(f)
<1>3. L \in 0..Len(f) /\ (L < Len(f) => f[L + 1] = "#")
  BY <1>1
<1> HIDE DEF L
<1>4. ASSUME ~(n <= L) PROVE FALSE
  <2>1. L < Len(f) /\ L + 1 \in 1..n
    BY <1>2, <1>3, <1>4
  <2> QED  BY <1>3, <2>1
<1> QED  BY <1>2, <1>3, <1>4 DEF L

\* A walk that has stopped leads nowhere.
LEMMA StoppedMeans ==
    ASSUME NEW f \in Seq(Chars), NEW n \in Nat, n <= Length(f), ~Walks(f)[n].ok
    PROVE  Meant(f) = NULL
<1> DEFINE L == Length(f)
           m == L - n
<1>1. Len(f) \in Nat /\ L \in 0..Len(f)
  BY LengthType
<1>2. n \in 0..Len(f) /\ m \in Nat /\ n + m = L /\ n + m <= Len(f) /\ L \in Nat
  BY <1>1
<1> HIDE DEF m, L
<1>3. ~Walks(f)[n + m].ok
  BY <1>2, WalkType
<1> DEFINE w == Walks(f)[L]
<1>4. ~w.ok
  BY <1>2, <1>3
<1>5. Meant(f) = End(w)
  BY MeantIs DEF L
<1> HIDE DEF w
<1>6. Enter(w).ok = (w.ok /\ (w.seg = Above => w.path # <<>>))
  BY DEF Enter
<1>7. ~Enter(w).ok
  BY <1>4, <1>6
<1> QED  BY <1>5, <1>7 DEF End

\* A name that leaves the root or has a bad escape means nothing.
LEMMA LeavesMean ==
    ASSUME NEW f, NEW i, InLoop(f, i), Leaves(f, i)
    PROVE  Meant(f) = NULL
<1>1. /\ f \in Seq(Chars) /\ Len(f) \in Nat /\ Len(f) > 0 /\ f[1] = "/"
      /\ i \in Nat /\ i > 0 /\ i <= Len(f) + 1
      /\ \A k \in 1..(i - 1) : f[k] # "#"
      /\ \A k \in Int : At(f, k) # NUL <=> k \in 1..Len(f)
  BY LoopIs
<1>2. \A k \in 1..Len(f) : Walks(f)[k] = Read(Walks(f)[k - 1], f[k])
  BY <1>1, WalksAre DEF WalkOn
<1>3. CASE At(f, i) \in {"%07", "%zz"}
  <2>1. i \in 1..Len(f) /\ f[i] \in {"%07", "%zz"}
    <3>1. NUL \notin {"%07", "%zz"}
      BY DEF NUL
    <3>2. i \in Int /\ At(f, i) # NUL
      BY <1>1, <1>3, <3>1
    <3> QED  BY <1>1, <1>3, <3>2, AtIn
  <2>2. ASSUME NEW k \in 1..i PROVE f[k] # "#"
    <3>1. k \in 1..(i - 1) \/ k = i
      BY <1>1
    <3> QED  BY <1>1, <2>1, <3>1
  <2>3. i \in 0..Len(f) /\ i - 1 \in 0..Len(f) /\ (i - 1) + 0 <= Len(f)
    BY <1>1, <2>1
  <2>4. i <= Length(f)
    BY <1>1, <2>2, <2>3, LengthPast
  <2> DEFINE w == Walks(f)[i - 1]
  <2>5. w \in WalkStates
    BY <1>1, <2>3, WalkType
  <2>6. Walks(f)[i] = Read(w, f[i])
    BY <1>2, <2>1
  <2> HIDE DEF w
  <2>7. Read(w, f[i]) = [w EXCEPT !.ok = FALSE]
    BY <2>1 DEF Read
  <2>8. ~Walks(f)[i].ok
    BY <2>5, <2>6, <2>7 DEF WalkStates
  <2> QED  BY <1>1, <2>4, <2>8, StoppedMeans
<1>4. CASE At(f, i) = "/" /\ IsDotDot(f, i) /\ Up(f, i) = 0
  <2>1. i = 1
    <3>1. \A k \in (Up(f, i) + 1)..(i - 1) : f[k] # "/"
      BY <1>1, UpLeads
    <3>2. i # 1 => 1 \in (Up(f, i) + 1)..(i - 1)
      BY <1>1, <1>4
    <3> QED  BY <1>1, <3>1, <3>2
  <2>2. Walks(f)[1] = On(<<>>, <<>>)
    BY <1>4, <2>1, AtSlash
  <2>3. Walks(f)[1 + 2] = On(<<>>, Above) /\ 1 + 1 \in 1..Len(f) /\ f[1 + 1] = "."
        /\ 1 + 2 \in 1..Len(f) /\ f[1 + 2] = "."
    <3>1. At(f, 1 + 1) = "." /\ At(f, 1 + 2) = "."
      BY <1>4, <2>1 DEF IsDotDot
    <3> QED  BY <1>1, <2>2, <3>1, ReadDots
  <2>4. Walks(f)[3] = On(<<>>, Above) /\ Len(f) >= 3 /\ f[2] = "." /\ f[3] = "."
    <3>1. 1 + 1 = 2 /\ 1 + 2 = 3
      OBVIOUS
    <3> QED  BY <1>1, <2>3, <3>1
  <2>5. At(f, 4) \in {"/", NUL}
    <3>1. 1 + 3 = 4
      OBVIOUS
    <3> QED  BY <1>4, <2>1, <3>1 DEF IsDotDot
  <2>6. ASSUME NEW k \in 1..3 PROVE f[k] # "#"
    <3>1. k = 1 \/ k = 2 \/ k = 3
      OBVIOUS
    <3> QED  BY <1>1, <2>4, <3>1
  <2>7. CASE At(f, 4) = "/"
    <3>1. 4 \in 1..Len(f) /\ f[4] = "/"
      <4>1. NUL # "/"
        BY DEF NUL
      <4>2. 4 \in Int /\ At(f, 4) # NUL
        BY <2>7, <4>1
      <4> QED  BY <1>1, <2>7, <4>2, AtIn
    <3>2. ASSUME NEW k \in 1..4 PROVE f[k] # "#"
      <4>1. k \in 1..3 \/ k = 4
        OBVIOUS
      <4> QED  BY <2>6, <3>1, <4>1
    <3>3. 4 <= Length(f) /\ 4 \in Nat
      <4>1. 4 \in 0..Len(f)
        BY <1>1, <3>1
      <4> QED  BY <1>1, <3>2, <4>1, LengthPast
    <3>4. Walks(f)[4] = Read(On(<<>>, Above), "/")
      <4>1. 4 - 1 = 3
        OBVIOUS
      <4> QED  BY <1>2, <2>4, <3>1, <4>1
    <3>5. ~Walks(f)[4].ok
      BY <3>4, ReadOn, EnterRoot
    <3> QED  BY <1>1, <3>3, <3>5, StoppedMeans
  <2>8. CASE At(f, 4) = NUL
    <3>1. Len(f) = 3
      <4>1. ~(4 \in 1..Len(f))
        <5>1. 4 \in Int
          OBVIOUS
        <5> QED  BY <1>1, <2>8, <5>1
      <4>2. Len(f) \in Nat /\ Len(f) >= 3
        BY <1>1, <2>4
      <4>3. \A n \in Nat : n >= 3 /\ ~(4 \in 1..n) => n = 3
        OBVIOUS
      <4> QED  BY ONLY <4>1, <4>2, <4>3
    <3>2. Length(f) = 3
      <4>1. 3 \in 0..Len(f) /\ ~(3 < Len(f))
        BY <3>1
      <4> QED  BY <1>1, <2>6, <4>1, LengthIs
    <3>3. Meant(f) = End(On(<<>>, Above))
      BY <2>4, <3>2, MeantIs
    <3> QED  BY <3>3, EnterRoot DEF End
  <2> QED  BY <2>5, <2>7, <2>8
<1> QED  BY <1>3, <1>4 DEF Leaves


\* n characters after a "/" that bring the walk back to it change nothing.
LEMMA CutSame ==
    ASSUME NEW f, NEW j, NEW n, NEW g, Cuts(f, j, n, g), j + n <= Length(f),
           Walks(f)[j + n] = Walks(f)[j]
    PROVE  Meant(g) = Meant(f)
<1> DEFINE L == Length(f)
           m == L - (j + n)
<1>1. /\ f \in Seq(Chars) /\ g \in Seq(Chars)
      /\ Len(f) \in Nat /\ Len(g) \in Nat
      /\ j \in Nat /\ n \in Nat /\ j > 0 /\ j + n <= Len(f) /\ Len(g) = Len(f) - n
      /\ \A k \in 1..Len(g) : g[k] = IF k <= j THEN f[k] ELSE f[k + n]
  BY DEF Cuts
<1>2. /\ L \in 0..Len(f) /\ \A k \in 1..L : f[k] # "#"
      /\ L < Len(f) => f[L + 1] = "#"
  BY <1>1, LengthType
<1>3. j + n <= L
  OBVIOUS
<1> HIDE DEF L
<1>4. m \in Nat /\ j <= Len(g) /\ j + m = L - n /\ (j + n) + m = L /\ L - n \in 0..Len(g)
  BY <1>1, <1>2, <1>3
<1> HIDE DEF m
<1>5. Length(g) = L - n
  <2>1. ASSUME NEW k \in 1..(L - n) PROVE g[k] # "#"
    <3>1. k \in 1..Len(g) /\ k \in 1..L /\ k + n \in 1..L
      BY <1>1, <1>2, <1>4
    <3> QED  BY <1>1, <1>2, <3>1
  <2>2. ASSUME L - n < Len(g) PROVE g[(L - n) + 1] = "#"
    <3>1. /\ L < Len(f) /\ (L - n) + 1 \in 1..Len(g) /\ ((L - n) + 1) + n = L + 1
          /\ ~((L - n) + 1 <= j)
      BY <1>1, <1>2, <1>3, <2>2
    <3> QED  BY <1>1, <1>2, <3>1
  <2> QED  BY <1>1, <1>4, <2>1, <2>2, LengthIs
<1>6. Walks(f)[j] = Walks(g)[j]
  <2>1. Walks(f)[0] = Walks(g)[0]
    BY <1>1, WalksAre DEF WalkOn
  <2>2. \A k \in 1..j : Alike(f[0 + k], g[0 + k])
    <3> SUFFICES ASSUME NEW k \in 1..j PROVE Alike(f[0 + k], g[0 + k])
      OBVIOUS
    <3>1. k \in 1..Len(g) /\ k <= j /\ 0 + k = k
      BY <1>1, <1>4
    <3>2. g[k] = f[k]
      BY <1>1, <3>1
    <3> QED  BY <3>1, <3>2 DEF Alike
  <2>3. 0 + j <= Len(f) /\ 0 + j <= Len(g) /\ 0 + j = j /\ 0 \in Nat
    BY <1>1, <1>4
  <2>4. Walks(f)[0 + j] = Walks(g)[0 + j]
    <3>1. AlikeAfter(f, 0, g, 0, j)
      BY <1>1, <2>2, <2>3 DEF AlikeAfter
    <3> QED  BY <2>1, <3>1, SameWalk
  <2> QED  BY <2>3, <2>4
<1>7. Walks(f)[(j + n) + m] = Walks(g)[j + m]
  <2>1. \A k \in 1..m : Alike(f[(j + n) + k], g[j + k])
    <3> SUFFICES ASSUME NEW k \in 1..m PROVE Alike(f[(j + n) + k], g[j + k])
      OBVIOUS
    <3>1. j + k \in 1..Len(g) /\ ~(j + k <= j) /\ (j + k) + n = (j + n) + k
      BY <1>1, <1>4
    <3>2. g[j + k] = f[(j + n) + k]
      BY <1>1, <3>1
    <3> QED  BY <3>2 DEF Alike
  <2>2. j + n \in Nat /\ (j + n) + m <= Len(f) /\ j + m <= Len(g)
    BY <1>1, <1>2, <1>4
  <2>3. Walks(f)[j + n] = Walks(g)[j]
    BY <1>6
  <2>4. AlikeAfter(f, j + n, g, j, m)
    BY <1>1, <1>4, <2>1, <2>2 DEF AlikeAfter
  <2> QED  BY <2>3, <2>4, SameWalk
<1>8. Walks(f)[L] = Walks(g)[Length(g)]
  BY <1>4, <1>5, <1>7
<1>9. Meant(f) = End(Walks(f)[L]) /\ Meant(g) = End(Walks(g)[Length(g)])
  BY MeantIs DEF L
<1> QED  BY <1>8, <1>9

\* A second "/", a "." or a segment and its ".." say nothing.
LEMMA CutMeans ==
    ASSUME NEW f, NEW i, InLoop(f, i), NEW j, NEW n, NEW g, SaysNoMore(f, i, j, n),
           Cuts(f, j, n, g)
    PROVE  Meant(g) = Meant(f)
<1>1. /\ f \in Seq(Chars) /\ Len(f) \in Nat /\ i \in Nat /\ i > 0
      /\ \A k \in 1..(i - 1) : f[k] # "#"
  BY LoopIs
<1>2. j \in Nat /\ j > 0 /\ At(f, i) = "/"
  BY DEF Cuts, SaysNoMore
<1>3. NUL # "/" /\ \A k \in 1..Len(f) : Walks(f)[k] = Read(Walks(f)[k - 1], f[k])
  <2>1. NUL # "/"
    BY DEF NUL
  <2> QED  BY <1>1, <2>1, WalksAre DEF WalkOn
<1>4. i \in 1..Len(f) /\ f[i] = "/"
  <2>1. i \in Int /\ At(f, i) # NUL
    BY <1>1, <1>2, <1>3
  <2> QED  BY <1>1, <1>2, <2>1, AtIn
<1>5. <<>> \in Dot /\ <<".">> \in Dot
  BY DEF Dot
<1>6. CASE At(f, i + 1) = "/" /\ j = i /\ n = 1
  <2>1. PICK path \in Seq(Seq(Chars)) : Walks(f)[i] = On(path, <<>>)
    BY <1>2, AtSlash
  <2>2. i + 1 \in 1..Len(f) /\ f[i + 1] = "/" /\ (i + 1) - 1 = i
    <3>1. i + 1 \in Int /\ At(f, i + 1) # NUL
      BY <1>1, <1>3, <1>6
    <3> QED  BY <1>1, <1>6, <3>1, AtIn
  <2>3. Walks(f)[i + 1] = Walks(f)[i]
    <3>1. Walks(f)[i + 1] = Read(On(path, <<>>), "/")
      BY <1>3, <2>1, <2>2
    <3>2. Read(On(path, <<>>), "/") = Enter(On(path, <<>>))
      BY ReadOn
    <3> QED  BY <1>5, <2>1, <3>1, <3>2, EnterDot
  <2>4. i + 1 <= Length(f)
    <3>1. ASSUME NEW k \in 1..(i + 1) PROVE f[k] # "#"
      <4>1. k \in 1..(i - 1) \/ k = i \/ k = i + 1
        BY <1>1
      <4> QED  BY <1>1, <1>4, <2>2, <4>1
    <3>2. i + 1 \in 0..Len(f)
      BY <2>2
    <3> QED  BY <1>1, <3>1, <3>2, LengthPast
  <2> QED  BY <1>6, <2>3, <2>4, CutSame
<1>7. CASE IsDot(f, i) /\ At(f, i + 2) # NUL /\ j = i /\ n = 2
  <2>1. PICK path \in Seq(Seq(Chars)) : Walks(f)[i] = On(path, <<>>)
    BY <1>2, AtSlash
  <2>2. At(f, i + 1) = "." /\ At(f, i + 2) = "/"
    BY <1>7 DEF IsDot
  <2>3. Walks(f)[i + 1] = On(path, <<".">>) /\ i + 1 \in 1..Len(f) /\ f[i + 1] = "."
    BY <1>1, <2>1, <2>2, ReadDots
  <2>4. i + 2 \in 1..Len(f) /\ f[i + 2] = "/" /\ (i + 2) - 1 = i + 1
    <3>1. i + 2 \in Int /\ At(f, i + 2) # NUL
      BY <1>1, <1>3, <2>2
    <3> QED  BY <1>1, <2>2, <3>1, AtIn
  <2>5. Walks(f)[i + 2] = Walks(f)[i]
    <3>1. Walks(f)[i + 2] = Read(On(path, <<".">>), "/")
      BY <1>3, <2>3, <2>4
    <3>2. Read(On(path, <<".">>), "/") = Enter(On(path, <<".">>))
      BY ReadOn
    <3> QED  BY <1>5, <2>1, <3>1, <3>2, EnterDot
  <2>6. i + 2 <= Length(f)
    <3>1. ASSUME NEW k \in 1..(i + 2) PROVE f[k] # "#"
      <4>1. k \in 1..(i - 1) \/ k = i \/ k = i + 1 \/ k = i + 2
        BY <1>1
      <4> QED  BY <1>1, <1>4, <2>3, <2>4, <4>1
    <3>2. i + 2 \in 0..Len(f)
      BY <2>4
    <3> QED  BY <1>1, <3>1, <3>2, LengthPast
  <2> QED  BY <1>7, <2>5, <2>6, CutSame
<1>8. CASE IsDotDot(f, i) /\ At(f, i + 3) # NUL /\ j = Up(f, i) /\ n = (i + 3) - j
  <2>0. j # 0
    BY <1>2
  <2>1. PICK path \in Seq(Seq(Chars)), s \in Seq(Chars) :
          /\ Walks(f)[j] = On(path, <<>>)
          /\ Walks(f)[i] = On(Append(path, s), <<>>)
    BY <1>2, <1>8, <2>0, AtUp
  <2>2. At(f, i + 1) = "." /\ At(f, i + 2) = "." /\ At(f, i + 3) = "/"
    BY <1>8 DEF IsDotDot
  <2>3. /\ Walks(f)[i + 2] = On(Append(path, s), Above)
        /\ i + 1 \in 1..Len(f) /\ f[i + 1] = "." /\ i + 2 \in 1..Len(f) /\ f[i + 2] = "."
    BY <1>1, <2>1, <2>2, ReadDots
  <2>4. i + 3 \in 1..Len(f) /\ f[i + 3] = "/" /\ (i + 3) - 1 = i + 2
    <3>1. i + 3 \in Int /\ At(f, i + 3) # NUL
      BY <1>1, <1>3, <2>2
    <3> QED  BY <1>1, <2>2, <3>1, AtIn
  <2>5. Walks(f)[i + 3] = Walks(f)[j]
    <3>1. Walks(f)[i + 3] = Read(On(Append(path, s), Above), "/")
      BY <1>3, <2>3, <2>4
    <3>2. Read(On(Append(path, s), Above), "/") = Enter(On(Append(path, s), Above))
      BY ReadOn
    <3> QED  BY <2>1, <3>1, <3>2, EnterAbove
  <2>6. i + 3 <= Length(f)
    <3>1. ASSUME NEW k \in 1..(i + 3) PROVE f[k] # "#"
      <4>1. k \in 1..(i - 1) \/ k = i \/ k = i + 1 \/ k = i + 2 \/ k = i + 3
        BY <1>1
      <4> QED  BY <1>1, <1>4, <2>3, <2>4, <4>1
    <3>2. i + 3 \in 0..Len(f)
      BY <2>4
    <3> QED  BY <1>1, <3>1, <3>2, LengthPast
  <2>7. j + n = i + 3
    BY <1>1, <1>2, <1>8
  <2> QED  BY <2>5, <2>6, <2>7, CutSame
<1> QED  BY <1>6, <1>7, <1>8 DEF SaysNoMore


\* An escape says what it stands for.
LEMMA DecodeMeans ==
    ASSUME NEW f, NEW i, InLoop(f, i), i \in 1..Len(f),
           f[i] \in Escapes, isgraph(Decoded(f[i])), NEW g,
           g = [f EXCEPT ![i] = Decoded(f[i])]
    PROVE  InLoop(g, i + 1) /\ Meant(g) = Meant(f)
<1>1. /\ f \in Seq(Chars) /\ Len(f) \in Nat /\ i \in Nat /\ i > 0 /\ Plain(f)
      /\ Ready(f, i) /\ \A k \in 1..(i - 1) : f[k] \notin Special
  BY DEF InLoop, Ready
<1>2. DOMAIN f = 1..Len(f)
  BY <1>1
<1>3. f[i] = "%61" /\ Decoded(f[i]) = "a"
  BY <1>1, <1>2 DEF Plain, Escapes, Decoded, isgraph
<1>4. g \in Seq(Chars) /\ Len(g) = Len(f)
  <2>1. Decoded(f[i]) \in Chars
    BY <1>3, UrlsAssumption
  <2> QED  BY <1>1, <2>1, ExceptSeq
<1>5. \A k \in 1..Len(f) : g[k] = IF k = i THEN "a" ELSE f[k]
  BY <1>1, <1>2, <1>3
<1>6. Ready(g, i + 1)
  BY <1>1, DecodedReady
<1>7. InLoop(g, i + 1)
  <2>1. "a" \notin Special
    BY DEF Special
  <2>2. \A k \in 1..((i + 1) - 1) : k \in 1..Len(f) /\ (k = i \/ k \in 1..(i - 1))
    BY <1>1
  <2>3. \A k \in 1..((i + 1) - 1) : g[k] \notin Special
    BY <1>1, <1>5, <2>1, <2>2
  <2> QED  BY <1>6, <2>3 DEF InLoop
<1> DEFINE L == Length(f)
<1>8. /\ L \in 0..Len(f) /\ \A k \in 1..L : f[k] # "#"
      /\ L < Len(f) => f[L + 1] = "#"
  BY <1>1, LengthType
<1>9. Meant(f) = End(Walks(f)[L])
  BY MeantIs
<1> HIDE DEF L
<1>10. Length(g) = L
  <2>1. ASSUME NEW k \in 1..L PROVE g[k] # "#"
    <3>1. k \in 1..Len(f)
      BY <1>1, <1>8
    <3> QED  BY <1>5, <1>8, <3>1
  <2>2. ASSUME L < Len(g) PROVE g[L + 1] = "#"
    <3>1. f[L + 1] = "#" /\ L + 1 \in 1..Len(f)
      BY <1>1, <1>4, <1>8, <2>2
    <3>2. L + 1 # i
      BY <1>3, <3>1
    <3> QED  BY <1>5, <3>1, <3>2
  <2>3. L \in 0..Len(g)
    BY <1>4, <1>8
  <2> QED  BY <1>4, <2>1, <2>2, <2>3, LengthIs
<1>11. Walks(f)[L] = Walks(g)[L]
  <2>1. Walks(f)[0] = Walks(g)[0]
    BY <1>1, <1>4, WalksAre DEF WalkOn
  <2>2. \A k \in 1..L : Alike(f[0 + k], g[0 + k])
    <3> SUFFICES ASSUME NEW k \in 1..L PROVE Alike(f[0 + k], g[0 + k])
      OBVIOUS
    <3>1. k \in 1..Len(f) /\ 0 + k = k
      BY <1>1, <1>8
    <3> QED  BY <1>3, <1>5, <3>1 DEF Alike
  <2>3. 0 + L <= Len(f) /\ 0 + L <= Len(g) /\ 0 + L = L /\ 0 \in Nat /\ L \in Nat
    BY <1>1, <1>4, <1>8
  <2>4. AlikeAfter(f, 0, g, 0, L)
    BY <1>1, <1>4, <2>2, <2>3 DEF AlikeAfter
  <2>5. Walks(f)[0 + L] = Walks(g)[0 + L]
    BY <2>1, <2>4, SameWalk
  <2> QED  BY <2>3, <2>5
<1>12. Meant(g) = End(Walks(g)[L])
  BY <1>10, MeantIs
<1> QED  BY <1>7, <1>9, <1>11, <1>12

\* The loop stays in what it has passed when it cuts.
LEMMA CutInLoop ==
    ASSUME NEW f, NEW i, InLoop(f, i), NEW n \in Nat, n > 0, NEW g, NEW j, j <= i,
           Cuts(f, j, n, g)
    PROVE  InLoop(g, j)
<1>1. Ready(f, i) /\ i \in Nat /\ \A k \in 1..(i - 1) : f[k] \notin Special
  BY DEF InLoop, Ready
<1>2. /\ j \in Nat /\ j > 0 /\ Len(f) \in Nat /\ j + n <= Len(f) /\ Len(g) = Len(f) - n
      /\ \A k \in 1..Len(g) : g[k] = IF k <= j THEN f[k] ELSE f[k + n]
  BY DEF Cuts
<1>3. Ready(g, j)
  BY <1>1, CutReady
<1>4. ASSUME NEW k \in 1..(j - 1) PROVE g[k] \notin Special
  <2>1. k \in 1..Len(g) /\ k <= j /\ k \in 1..(i - 1)
    BY <1>1, <1>2
  <2> QED  BY <1>1, <1>2, <2>1
<1> QED  BY <1>3, <1>4 DEF InLoop

LEMMA NextInLoop ==
    ASSUME NEW f, NEW i, InLoop(f, i), i \in 1..Len(f), f[i] = "/" => GoesOn(f, i),
           f[i] \notin Special
    PROVE  InLoop(f, i + 1)
<1>1. Ready(f, i) /\ i \in Nat /\ i <= Len(f) /\ \A k \in 1..(i - 1) : f[k] \notin Special
  BY DEF InLoop, Ready
<1>2. Ready(f, i + 1)
  BY <1>1, NextReady
<1>3. \A k \in 1..((i + 1) - 1) : k = i \/ k \in 1..(i - 1)
  BY <1>1
<1> QED  BY <1>1, <1>2, <1>3 DEF InLoop

\* The names of which the loop makes what they mean.
Meaning == {x \in Names : InLoop(x[1], x[2]) => Normalized[x] = Meant(x[1])}

LEMMA LoopMeans == Names \subseteq Meaning
<1>1. ASSUME NEW x \in Names, \A y \in Names : LeftOf(y) < LeftOf(x) => y \in Meaning
      PROVE  x \in Meaning
  <2> DEFINE f == x[1]
             i == x[2]
  <2>1. f \in Seq(Chars) /\ i \in Nat /\ x = <<f, i>>
    BY DEF Names
  <2>2. Normalized[x] = Round(Normalized, f, i)
    BY NormalizedIs
  <2> HIDE DEF f, i
  <2>3. SUFFICES ASSUME InLoop(f, i) PROVE Normalized[x] = Meant(f)
    BY DEF Meaning, f, i
  <2>4. CASE RoundDone(f, i)
    <3>1. PICK r : Stops(f, i, r) /\ \A N : Round(N, f, i) = r
      BY <2>4 DEF RoundDone
    <3>2. Normalized[x] = r
      BY <2>2, <3>1
    <3>3. CASE r = NULL /\ Leaves(f, i)
      BY <2>3, <3>2, <3>3, LeavesMean
    <3>4. CASE At(f, i) \in {NUL, "#"} /\ r = SubSeq(f, 1, i - 1)
      BY <2>3, <3>2, <3>4, EndMeans
    <3>5. ASSUME NEW u \in 1..i, r = SubSeq(f, 1, u), EndsIn(f, i, u)
          PROVE  Normalized[x] = Meant(f)
      <4>1. u > 0
        OBVIOUS
      <4> QED  BY <2>3, <3>2, <3>5, <4>1, DotsMean
    <3> QED  BY <3>1, <3>3, <3>4, <3>5 DEF Stops
  <2>5. CASE RoundGoes(f, i)
    <3>1. PICK g, j : /\ Goes(f, i, g, j)
                      /\ <<g, j>> \in Names /\ LeftOf(<<g, j>>) < LeftOf(<<f, i>>)
                      /\ \A N : Round(N, f, i) = N[<<g, j>>]
      BY <2>5 DEF RoundGoes
    <3> DEFINE y == <<g, j>>
    <3>2. y \in Meaning
      BY <1>1, <2>1, <3>1
    <3>3. y[1] = g /\ y[2] = j
      OBVIOUS
    <3>4. Normalized[x] = Normalized[y]
      BY <2>2, <3>1
    <3>5. InLoop(g, j) /\ Meant(g) = Meant(f)
      <4>1. ASSUME NEW n \in Nat, n > 0, j <= i, Cuts(f, j, n, g), SaysNoMore(f, i, j, n)
            PROVE  InLoop(g, j) /\ Meant(g) = Meant(f)
        BY <2>3, <4>1, CutInLoop, CutMeans
      <4>2. CASE /\ i \in 1..Len(f) /\ j = i + 1 /\ g = f
                 /\ (f[i] = "/" => GoesOn(f, i)) /\ f[i] \notin Special
        BY <2>3, <4>2, NextInLoop
      <4>3. CASE /\ i \in 1..Len(f) /\ j = i + 1
                 /\ f[i] \in Escapes /\ isgraph(Decoded(f[i]))
                 /\ g = [f EXCEPT ![i] = Decoded(f[i])]
        BY <2>3, <4>3, DecodeMeans
      <4> QED  BY <3>1, <4>1, <4>2, <4>3 DEF Goes
    <3> HIDE DEF y
    <3> QED  BY <3>2, <3>3, <3>4, <3>5 DEF Meaning
  <2> QED  BY <2>1, <2>4, <2>5, RoundSteps
<1>2. Hereditary(Meaning)
  BY <1>1 DEF Hereditary
<1> QED  BY <1>2, ByRounds

\* fileNormalize makes of a plain name what it means, for every name.
LEMMA NormalizeMeans ==
    ASSUME NEW f, Rooted(f), Plain(f)
    PROVE  fileNormalize(f) = Meant(f)
<1> DEFINE x == <<f, 1>>
<1>1. f \in Seq(Chars) /\ At(f, 1) = "/"
  BY DEF Rooted
<1>2. x \in Names /\ x[1] = f /\ x[2] = 1
  BY <1>1 DEF Names
<1>3. Len(f) \in Nat /\ Len(f) > 0 /\ f[1] = "/"
  <2>1. At(f, 1) = IF 1 \in 1..Len(f) THEN f[1] ELSE NUL
    BY <1>1, AtIs
  <2>2. 1 \in 1..Len(f) /\ f[1] = "/"
    BY <1>1, <2>1 DEF NUL
  <2> QED  BY <1>1, <2>2
<1>4. InLoop(f, 1)
  <2>1. \A k \in 1..(1 - 1) : FALSE
    OBVIOUS
  <2>2. SettledTo(f, 1 - 1)
    BY DEF SettledTo
  <2> QED  BY <1>1, <1>3, <2>1, <2>2 DEF InLoop, Ready
<1> HIDE DEF x
<1>5. x \in Meaning
  BY <1>2, LoopMeans
<1>6. fileNormalize(f) = Normalized[x]
  BY DEF fileNormalize, x
<1> QED  BY <1>2, <1>4, <1>5, <1>6 DEF Meaning

LEMMA LinkMeans == NamesInv => NamesResolved
<1> SUFFICES ASSUME NamesInv, link.url # NoUrl, Plain(Named)
             PROVE  link.url.file = Meant(Named)
  BY DEF NamesResolved
<1> DEFINE u == url(link.says, link.from)
<1>1. link.says \in Seq(Chars) /\ BaseOk(link.from) /\ link.url = u
  BY DEF NamesInv, LinkOf
<1>2. Rooted(Named) /\ u.file = fileNormalize(Named)
  BY <1>1, UrlNames DEF Named
<1> HIDE DEF u
<1>3. fileNormalize(Named) = Meant(Named)
  BY <1>2, NormalizeMeans
<1> QED  BY <1>1, <1>2, <1>3

\* A link is asked for under the name it means: the loop of fileNormalize, which
\* rewrites the name in place and steps back at every "..", comes to where a walk
\* from directory to directory comes, or refuses the name when the walk cannot be
\* made. So two plain names of one file are one url, whatever their length
\* (url::url, fileNormalize).
THEOREM NamesAreResolved == Spec => []NamesResolved
<1>1. Init => NamesInv
  BY NoLinkNames DEF Init, NamesInv, BaseOk
<1>2. NamesInv /\ [Next]_vars => NamesInv'
  BY NextNames
<1>3. NamesInv => NamesResolved
  BY LinkMeans
<1> QED  BY <1>1, <1>2, <1>3, PTL DEF Spec

-----------------------------------------------------------------------------
(* Loops that end *)

\* A loop over the elements of S: it is done at those of D, and goes on from any
\* other with one of a smaller measure.
Loop(S, D, nx, m, N) ==
    /\ N \in Nat
    /\ \A x \in S : m[x] \in Nat /\ m[x] <= N
    /\ \A x \in S : x \notin D => nx[x] \in S /\ m[nx[x]] < m[x]

LEMMA LoopExists ==
    ASSUME NEW S, NEW D, NEW nx, NEW m, NEW N, Loop(S, D, nx, m, N), NEW res
    PROVE  \E F : F = [x \in S |-> IF x \in D THEN res[x] ELSE F[nx[x]]]
<1> DEFINE T == {n \in Nat : \E F : \A x \in S :
                    m[x] < n => F[x] = IF x \in D THEN res[x] ELSE F[nx[x]]}
<1>1. /\ N \in Nat
      /\ \A x \in S : m[x] \in Nat /\ m[x] <= N
      /\ \A x \in S : x \notin D => nx[x] \in S /\ m[nx[x]] < m[x]
  BY DEF Loop
<1>2. 0 \in T
  BY <1>1
<1>3. ASSUME NEW n \in T PROVE n + 1 \in T
  <2>1. PICK F : \A x \in S : m[x] < n => F[x] = IF x \in D THEN res[x] ELSE F[nx[x]]
    OBVIOUS
  <2> DEFINE G == [x \in S |-> IF m[x] < n THEN F[x]
                               ELSE IF x \in D THEN res[x] ELSE F[nx[x]]]
  <2>2. ASSUME NEW x \in S, m[x] < n + 1
        PROVE  G[x] = IF x \in D THEN res[x] ELSE G[nx[x]]
    <3>1. x \notin D => nx[x] \in S /\ m[nx[x]] < n
      BY <1>1, <2>2
    <3>2. x \notin D => G[nx[x]] = F[nx[x]]
      BY <3>1
    <3>3. G[x] = IF x \in D THEN res[x] ELSE F[nx[x]]
      BY <2>1
    <3> QED  BY <3>2, <3>3
  <2> HIDE DEF G
  <2> QED  BY <2>2
<1>4. T \in SUBSET Nat
  OBVIOUS
<1>5. N + 1 \in T
  <2> HIDE DEF T
  <2> QED  BY <1>1, <1>2, <1>3, <1>4, Induct
<1>6. PICK F : \A x \in S : m[x] < N + 1 => F[x] = IF x \in D THEN res[x] ELSE F[nx[x]]
  BY <1>5
<1> DEFINE G == [x \in S |-> F[x]]
           H == [x \in S |-> IF x \in D THEN res[x] ELSE G[nx[x]]]
<1>7. ASSUME NEW x \in S PROVE G[x] = H[x]
  <2>1. m[x] < N + 1
    BY <1>1
  <2> QED  BY <1>1, <1>6, <2>1
<1>8. G = H
  BY <1>7
<1> QED  BY <1>8

\* The least of some naturals is one of them.
LEMMA MinIs ==
    ASSUME NEW I \in SUBSET Nat, I # {}
    PROVE  Min(I) \in I /\ \A k \in I : Min(I) <= k
<1>1. PICK n \in I : \A k \in I : n <= k
  BY Least
<1> QED  BY <1>1 DEF Min

\* The first place of c in t from p on.
LEMMA NewlineIs ==
    ASSUME NEW t \in Seq(Chars), NEW p \in Nat, p > 0, NEW k,
           k = SelectInSubSeq(t, p, Len(t), LAMBDA c: c = "\n")
    PROVE  \/ k = 0 /\ \A j \in p..Len(t) : t[j] # "\n"
           \/ k \in p..Len(t) /\ t[k] = "\n" /\ \A j \in p..(k - 1) : t[j] # "\n"
<1> DEFINE I == {i \in p..Len(t) : t[i] = "\n"}
<1>1. k = IF I # {} THEN Min(I) ELSE 0
  BY DEF SelectInSubSeq
<1>2. I \in SUBSET Nat /\ Len(t) \in Nat
  OBVIOUS
<1>3. CASE I = {}
  BY <1>1, <1>3
<1>4. CASE I # {}
  <2>1. k \in I /\ \A j \in I : k <= j
    <3> HIDE DEF I
    <3> QED  BY <1>1, <1>2, <1>4, MinIs
  <2>2. ASSUME NEW j \in p..(k - 1) PROVE t[j] # "\n"
    <3>1. j \in p..Len(t) /\ j < k
      BY <1>2, <2>1
    <3>2. j \notin I
      BY <1>2, <2>1, <3>1
    <3> QED  BY <3>1, <3>2
  <2> QED  BY <2>1, <2>2
<1> QED  BY <1>3, <1>4

Separators == Spaces \cup {":"}

LEMMA WordEndIs ==
    ASSUME NEW t \in Seq(Chars), NEW p \in Nat, p > 0, NEW k,
           k = SelectInSubSeq(t, p, Len(t), LAMBDA c: c \in Spaces \cup {":"})
    PROVE  \/ k = 0 /\ \A j \in p..Len(t) : t[j] \notin Separators
           \/ k \in p..Len(t) /\ t[k] \in Separators /\ \A j \in p..(k - 1) : t[j] \notin Separators
<1> DEFINE I == {i \in p..Len(t) : t[i] \in Spaces \cup {":"}}
<1>1. k = IF I # {} THEN Min(I) ELSE 0
  BY DEF SelectInSubSeq
<1>2. I \in SUBSET Nat /\ Len(t) \in Nat
  OBVIOUS
<1>3. CASE I = {}
  BY <1>1, <1>3 DEF Separators
<1>4. CASE I # {}
  <2>1. k \in I /\ \A j \in I : k <= j
    <3> HIDE DEF I
    <3>1. Min(I) \in I /\ \A j \in I : Min(I) <= j
      BY <1>2, <1>4, MinIs
    <3>2. k = Min(I)
      BY <1>1, <1>4
    <3> QED  BY <3>1, <3>2
  <2>2. ASSUME NEW j \in p..(k - 1) PROVE t[j] \notin Separators
    <3>1. k \in Int /\ j \in p..Len(t) /\ j < k
      BY <1>2, <2>1
    <3>2. j \notin I
      <4> HIDE DEF I
      <4>1. j \in Int
        BY <1>2, <3>1
      <4>2. j \in I => k <= j
        BY <2>1
      <4> QED  BY ONLY <3>1, <4>1, <4>2
    <3> QED  BY <3>1, <3>2 DEF Separators
  <2> QED  BY <2>1, <2>2 DEF Separators
<1> QED  BY <1>3, <1>4

-----------------------------------------------------------------------------
(* Where the next word starts *)

LEMMA WordSteps ==
    ASSUME NEW t \in Seq(Chars), NEW p \in Nat, p > 0
    PROVE  /\ At(t, p) \in Separators => WordStart(t)[p] = WordStart(t)[p + 1]
           /\ At(t, p) = "#" =>
                \/ /\ \A j \in p..Len(t) : t[j] # "\n"
                   /\ WordStart(t)[p] = Len(t) + 1
                \/ \E k \in p..Len(t) :
                     /\ t[k] = "\n" /\ \A j \in p..(k - 1) : t[j] # "\n"
                     /\ WordStart(t)[p] = WordStart(t)[k + 1]
           /\ At(t, p) \notin Separators \cup {"#"} => WordStart(t)[p] = p
<1> DEFINE nl == [q \in Nat |-> SelectInSubSeq(t, q, Len(t), LAMBDA c: c = "\n")]
           body(F, q) == CASE At(t, q) \in Spaces \cup {":"} -> F[q + 1]
                           [] At(t, q) = "#" -> IF nl[q] = 0 THEN Len(t) + 1 ELSE F[nl[q] + 1]
                           [] OTHER -> q
           Good(F) == F = [q \in Nat |-> body(F, q)]
           D == {q \in Nat : At(t, q) \notin Separators /\ (At(t, q) = "#" => nl[q] = 0)}
           res == [q \in Nat |-> IF At(t, q) = "#" THEN Len(t) + 1 ELSE q]
           nx == [q \in Nat |-> IF At(t, q) \in Separators THEN q + 1 ELSE nl[q] + 1]
           m == [q \in Nat |-> IF q <= Len(t) THEN (Len(t) + 1) - q ELSE 0]
<1>1. Len(t) \in Nat /\ \A q \in Nat : At(t, q) = IF q \in 1..Len(t) THEN t[q] ELSE NUL
  BY AtIs
<1>2. "#" \notin Separators /\ NUL \notin Separators \cup {"#"}
  BY DEF Separators, Spaces, NUL
<1>3. \A q \in Nat : q > 0 =>
          \/ nl[q] = 0 /\ \A j \in q..Len(t) : t[j] # "\n"
          \/ nl[q] \in q..Len(t) /\ t[nl[q]] = "\n" /\ \A j \in q..(nl[q] - 1) : t[j] # "\n"
  BY NewlineIs
<1>4. Loop(Nat, D, nx, m, Len(t) + 1)
  <2>1. \A q \in Nat : m[q] \in Nat /\ m[q] <= Len(t) + 1
    BY <1>1
  <2>2. ASSUME NEW q \in Nat, q \notin D PROVE nx[q] \in Nat /\ nx[q] > q /\ q \in 1..Len(t)
    <3>1. q \in 1..Len(t)
      <4>1. At(t, q) # NUL
        BY <1>2, <2>2
      <4> QED  BY <1>1, <4>1
    <3>2. CASE At(t, q) \in Separators
      <4>1. nx[q] = q + 1
        BY <3>2
      <4> QED  BY <3>1, <4>1
    <3>3. CASE At(t, q) \notin Separators
      <4>1. nl[q] # 0 /\ nx[q] = nl[q] + 1
        BY <2>2, <3>3
      <4>2. nl[q] \in q..Len(t)
        <5> HIDE DEF nl
        <5> QED  BY <1>3, <3>1, <4>1
      <4> HIDE DEF nl, nx
      <4> QED  BY <3>1, <4>1, <4>2
    <3> QED  BY <3>1, <3>2, <3>3
  <2>3. ASSUME NEW q \in Nat, q \notin D PROVE nx[q] \in Nat /\ m[nx[q]] < m[q]
    <3> DEFINE n == nx[q]
    <3>1. n \in Nat /\ n > q /\ q \in 1..Len(t)
      BY <2>2, <2>3
    <3> HIDE DEF n
    <3>2. m[n] < m[q]
      BY <1>1, <3>1
    <3> QED  BY <3>1, <3>2 DEF n
  <2> HIDE DEF D, nx, m
  <2> QED  BY <1>1, <2>1, <2>3 DEF Loop
<1>5. PICK F : F = [q \in Nat |-> IF q \in D THEN res[q] ELSE F[nx[q]]]
  <2> HIDE DEF D, nx, m, res
  <2> QED  BY <1>4, LoopExists
<1>6. Good(F)
  <2> DEFINE G == [q \in Nat |-> body(F, q)]
  <2>1. ASSUME NEW q \in Nat PROVE F[q] = G[q]
    <3>1. F[q] = IF q \in D THEN res[q] ELSE F[nx[q]]
      BY <1>5
    <3>2. G[q] = body(F, q)
      OBVIOUS
    <3>3. CASE At(t, q) \in Separators
      <4>1. q \notin D /\ nx[q] = q + 1
        BY <3>3
      <4>2. body(F, q) = F[q + 1]
        <5> HIDE DEF nl
        <5> QED  BY <1>2, <3>3 DEF Separators
      <4> QED  BY <3>1, <3>2, <4>1, <4>2
    <3>4. CASE At(t, q) = "#"
      <4>1. body(F, q) = IF nl[q] = 0 THEN Len(t) + 1 ELSE F[nl[q] + 1]
        BY <1>2, <3>4 DEF Separators
      <4>2. (q \in D <=> nl[q] = 0) /\ nx[q] = nl[q] + 1 /\ res[q] = Len(t) + 1
        <5> HIDE DEF nl
        <5> QED  BY <1>2, <3>4
      <4> QED  BY <3>1, <3>2, <4>1, <4>2
    <3>5. CASE At(t, q) \notin Separators \cup {"#"}
      <4>1. body(F, q) = q
        BY <3>5 DEF Separators
      <4>2. q \in D /\ res[q] = q
        BY <3>5
      <4> QED  BY <3>1, <3>2, <4>1, <4>2
    <3> QED  BY <3>3, <3>4, <3>5
  <2> HIDE DEF D, res, nx, nl
  <2>2. F = G
    BY <1>5, <2>1
  <2> QED  BY <2>2
<1>7. WordStart(t) = CHOOSE G : Good(G)
  BY DEF WordStart
<1> DEFINE W == WordStart(t)
<1>8. Good(W)
  <2> HIDE DEF Good
  <2> QED  BY <1>6, <1>7
<1>9. W[p] = CASE At(t, p) \in Separators -> W[p + 1]
              [] At(t, p) = "#" -> IF nl[p] = 0 THEN Len(t) + 1 ELSE W[nl[p] + 1]
              [] OTHER -> p
  <2> HIDE DEF W, nl
  <2> QED  BY <1>8 DEF Separators
<1> HIDE DEF W, nl
<1>10. At(t, p) \in Separators => W[p] = W[p + 1]
  BY <1>2, <1>9
<1>11. At(t, p) = "#" => W[p] = IF nl[p] = 0 THEN Len(t) + 1 ELSE W[nl[p] + 1]
  BY <1>2, <1>9
<1>12. At(t, p) \notin Separators \cup {"#"} => W[p] = p
  BY <1>2, <1>9
<1>13. ASSUME At(t, p) = "#"
       PROVE  \/ /\ \A j \in p..Len(t) : t[j] # "\n"
                 /\ W[p] = Len(t) + 1
              \/ \E k \in p..Len(t) :
                   /\ t[k] = "\n" /\ \A j \in p..(k - 1) : t[j] # "\n"
                   /\ W[p] = W[k + 1]
  <2> DEFINE k == nl[p]
  <2>1. \/ k = 0 /\ \A j \in p..Len(t) : t[j] # "\n"
        \/ k \in p..Len(t) /\ t[k] = "\n" /\ \A j \in p..(k - 1) : t[j] # "\n"
    BY <1>3
  <2>2. W[p] = IF k = 0 THEN Len(t) + 1 ELSE W[k + 1]
    BY <1>11, <1>13
  <2> HIDE DEF k
  <2>3. k = 0 \/ k # 0
    OBVIOUS
  <2>4. CASE k = 0
    <3>1. k \notin p..Len(t)
      BY <1>1, <2>4
    <3> QED  BY <2>1, <2>2, <2>4, <3>1
  <2>5. CASE k # 0
    BY <2>1, <2>2, <2>5
  <2> QED  BY <2>4, <2>5
<1> QED  BY <1>10, <1>12, <1>13 DEF W
-----------------------------------------------------------------------------
(* The next token *)

LEMMA TokenIs ==
    ASSUME NEW t \in Seq(Chars), NEW p \in Nat, NEW q \in Nat, q > 0, WordStart(t)[p] = q
    PROVE  \/ /\ \A j \in q..Len(t) : t[j] \notin Separators
              /\ nextToken(t, p) = [tok |-> SubSeq(t, q, Len(t)), pos |-> Len(t) + 1]
           \/ \E k \in q..Len(t) :
                /\ t[k] \in Separators /\ \A j \in q..(k - 1) : t[j] \notin Separators
                /\ nextToken(t, p) = [tok |-> SubSeq(t, q, k - 1), pos |-> k]
<1> DEFINE k == SelectInSubSeq(t, q, Len(t), LAMBDA c: c \in Spaces \cup {":"})
           fin == IF k = 0 THEN Len(t) + 1 ELSE k
<1>1. nextToken(t, p) = [tok |-> SubSeq(t, q, fin - 1), pos |-> fin]
  BY DEF nextToken
<1>2. \/ k = 0 /\ \A j \in q..Len(t) : t[j] \notin Separators
      \/ k \in q..Len(t) /\ t[k] \in Separators /\ \A j \in q..(k - 1) : t[j] \notin Separators
  BY WordEndIs
<1>3. Len(t) \in Nat
  OBVIOUS
<1> HIDE DEF k
<1>4. CASE k = 0 /\ \A j \in q..Len(t) : t[j] \notin Separators
  <2>1. fin = Len(t) + 1 /\ fin - 1 = Len(t)
    BY <1>3, <1>4
  <2> HIDE DEF fin
  <2> QED  BY <1>1, <1>4, <2>1
<1>5. CASE /\ k \in q..Len(t) /\ t[k] \in Separators
           /\ \A j \in q..(k - 1) : t[j] \notin Separators
  <2>1. fin = k
    BY <1>3, <1>5
  <2> HIDE DEF fin
  <2> QED  BY <1>1, <1>5, <2>1
<1> QED  BY <1>2, <1>4, <1>5

LEMMA SameStart ==
    ASSUME NEW t, NEW p, NEW q, WordStart(t)[p] = WordStart(t)[q]
    PROVE  nextToken(t, p) = nextToken(t, q)
BY DEF nextToken

\* A separator is skipped.
LEMMA SkipSeparator ==
    ASSUME NEW t \in Seq(Chars), NEW p \in 1..Len(t), t[p] \in Separators
    PROVE  nextToken(t, p) = nextToken(t, p + 1)
<1>1. Len(t) \in Nat /\ p \in Nat /\ p > 0
  OBVIOUS
<1>2. At(t, p) = t[p]
  BY <1>1, AtIs
<1>3. WordStart(t)[p] = WordStart(t)[p + 1]
  BY <1>1, <1>2, WordSteps
<1> QED  BY <1>3, SameStart

\* A comment is skipped, up to the end of its line.
LEMMA SkipComment ==
    ASSUME NEW t \in Seq(Chars), NEW p \in 1..Len(t), t[p] = "#",
           NEW k \in p..Len(t), t[k] = "\n", \A j \in p..(k - 1) : t[j] # "\n"
    PROVE  nextToken(t, p) = nextToken(t, k + 1)
<1>1. Len(t) \in Nat /\ p \in Nat /\ p > 0
  OBVIOUS
<1>2. At(t, p) = t[p]
  BY <1>1, AtIs
<1>3. \E i \in p..Len(t) : /\ t[i] = "\n" /\ \A j \in p..(i - 1) : t[j] # "\n"
                           /\ WordStart(t)[p] = WordStart(t)[i + 1]
  BY <1>1, <1>2, WordSteps
<1>4. PICK i \in p..Len(t) : /\ t[i] = "\n" /\ \A j \in p..(i - 1) : t[j] # "\n"
                             /\ WordStart(t)[p] = WordStart(t)[i + 1]
  BY <1>3
<1>5. i \in Int /\ k \in Int
  BY <1>1
<1>6. ~(k < i)
  <2>1. k < i => k \in p..(i - 1)
    BY <1>1, <1>5
  <2> QED  BY <1>4, <2>1
<1>7. ~(i < k)
  <2>1. i < k => i \in p..(k - 1)
    BY <1>1, <1>5
  <2> QED  BY <1>4, <2>1
<1>8. i = k
  BY ONLY <1>5, <1>6, <1>7
<1> QED  BY <1>4, <1>8, SameStart

\* A word is read up to the separator after it.
LEMMA ReadWord ==
    ASSUME NEW t \in Seq(Chars), NEW p \in 1..Len(t), t[p] # "#",
           NEW k \in p..Len(t), k > p, t[k] \in Separators,
           \A j \in p..(k - 1) : t[j] \notin Separators
    PROVE  nextToken(t, p) = [tok |-> SubSeq(t, p, k - 1), pos |-> k]
<1>1. Len(t) \in Nat /\ p \in Nat /\ p > 0 /\ k \in Int
  OBVIOUS
<1>2. At(t, p) = t[p]
  BY <1>1, AtIs
<1>3. t[p] \notin Separators
  <2>1. p \in p..(k - 1)
    BY <1>1
  <2> QED  BY <2>1
<1>4. WordStart(t)[p] = p
  BY <1>1, <1>2, <1>3, WordSteps
<1>5. ~(\A j \in p..Len(t) : t[j] \notin Separators)
  OBVIOUS
<1>6. PICK i \in p..Len(t) :
        /\ t[i] \in Separators /\ \A j \in p..(i - 1) : t[j] \notin Separators
        /\ nextToken(t, p) = [tok |-> SubSeq(t, p, i - 1), pos |-> i]
  BY <1>1, <1>4, <1>5, TokenIs
<1>7. i \in Int
  BY <1>1
<1>8. ~(k < i)
  <2>1. k < i => k \in p..(i - 1)
    BY <1>1, <1>7
  <2> QED  BY <1>6, <2>1
<1>9. ~(i < k)
  <2>1. i < k => i \in p..(k - 1)
    BY <1>1, <1>7
  <2> QED  BY <1>6, <2>1
<1>10. i = k
  BY ONLY <1>1, <1>7, <1>8, <1>9
<1> QED  BY <1>6, <1>10

\* There is no word after the end.
LEMMA NoWord ==
    ASSUME NEW t \in Seq(Chars)
    PROVE  nextToken(t, Len(t) + 1).tok = NULL
<1> DEFINE p == Len(t) + 1
<1>1. Len(t) \in Nat /\ p \in Nat /\ p > 0
  OBVIOUS
<1>2. At(t, p) = NUL
  BY <1>1, AtIs
<1>3. NUL \notin Separators \cup {"#"}
  BY DEF Separators, Spaces, NUL
<1> HIDE DEF p
<1>4. WordStart(t)[p] = p
  BY <1>1, <1>2, <1>3, WordSteps
<1>5. \A k \in Int : k \notin p..Len(t)
  BY <1>1 DEF p
<1>6. nextToken(t, p) = [tok |-> SubSeq(t, p, Len(t)), pos |-> Len(t) + 1]
  <2>1. ~(\E k \in p..Len(t) : /\ t[k] \in Separators /\ \A j \in p..(k - 1) : t[j] \notin Separators
                /\ nextToken(t, p) = [tok |-> SubSeq(t, p, k - 1), pos |-> k])
    BY <1>1, <1>5
  <2> QED  BY <1>1, <1>4, <2>1, TokenIs
<1>7. SubSeq(t, p, Len(t)) = <<>>
  BY <1>1 DEF p
<1> QED  BY <1>6, <1>7 DEF NULL, p

-----------------------------------------------------------------------------
(* Text that stands at a position *)

\* From position p on, x is what t holds.
Has(t, p, x) ==
    /\ t \in Seq(Chars) /\ x \in Seq(Chars) /\ Len(t) \in Nat /\ Len(x) \in Nat
    /\ p \in Nat /\ p > 0 /\ p + Len(x) = Len(t) + 1
    /\ \A k \in 1..Len(x) : t[(p + k) - 1] = x[k]

LEMMA HasWhole == ASSUME NEW t \in Seq(Chars) PROVE Has(t, 1, t)
<1>1. Len(t) \in Nat /\ 1 + Len(t) = Len(t) + 1
  OBVIOUS
<1>2. \A k \in 1..Len(t) : (1 + k) - 1 = k
  BY <1>1
<1> QED  BY <1>1, <1>2 DEF Has

\* It is a, and b after it.
HasBoth(t, p, a, b) ==
    /\ Has(t, p + Len(a), b)
    /\ \A k \in 1..Len(a) : t[(p + k) - 1] = a[k]
    /\ Len(a) \in Nat /\ Len(b) \in Nat /\ p + Len(a) + Len(b) = Len(t) + 1

LEMMA HasAfter ==
    ASSUME NEW t, NEW p, NEW a \in Seq(Chars), NEW b \in Seq(Chars), Has(t, p, a \o b)
    PROVE  HasBoth(t, p, a, b)
<1> DEFINE x == a \o b
           q == p + Len(a)
<1>1. /\ x \in Seq(Chars) /\ Len(a) \in Nat /\ Len(b) \in Nat
      /\ Len(x) = Len(a) + Len(b)
      /\ \A k \in 1..Len(x) : x[k] = IF k <= Len(a) THEN a[k] ELSE b[k - Len(a)]
  BY ConcatProperties
<1>2. /\ t \in Seq(Chars) /\ Len(t) \in Nat /\ p \in Nat /\ p > 0 /\ p + Len(x) = Len(t) + 1
      /\ \A k \in 1..Len(x) : t[(p + k) - 1] = x[k]
  BY DEF Has
<1> HIDE DEF x
<1>3. q \in Nat /\ q > 0 /\ q + Len(b) = Len(t) + 1
  BY <1>1, <1>2
<1>4. ASSUME NEW k \in 1..Len(a) PROVE t[(p + k) - 1] = a[k]
  <2>1. k \in 1..Len(x) /\ k <= Len(a)
    BY <1>1
  <2> QED  BY <1>1, <1>2, <2>1
<1>5. ASSUME NEW k \in 1..Len(b) PROVE t[(q + k) - 1] = b[k]
  <2> DEFINE j == Len(a) + k
  <2>1. j \in 1..Len(x) /\ ~(j <= Len(a)) /\ j - Len(a) = k /\ (q + k) - 1 = (p + j) - 1
    BY <1>1, <1>2
  <2> HIDE DEF j, q
  <2>2. x[j] = b[k]
    BY <1>1, <2>1
  <2> QED  BY <1>2, <2>1, <2>2
<1>6. Has(t, q, b)
  <2> HIDE DEF q
  <2> QED  BY <1>1, <1>2, <1>3, <1>5 DEF Has
<1> QED  BY <1>1, <1>3, <1>4, <1>6 DEF HasBoth

LEMMA HasSeparator ==
    ASSUME NEW t, NEW p, NEW c \in Chars, NEW x \in Seq(Chars), Has(t, p, <<c>> \o x),
           c \in Separators
    PROVE  nextToken(t, p) = nextToken(t, p + 1) /\ Has(t, p + 1, x)
<1>1. <<c>> \in Seq(Chars) /\ Len(<<c>>) = 1 /\ <<c>>[1] = c
  OBVIOUS
<1>2. /\ Has(t, p + 1, x)
      /\ \A k \in 1..1 : t[(p + k) - 1] = <<c>>[k]
      /\ Len(x) \in Nat /\ p + 1 + Len(x) = Len(t) + 1
  <2> DEFINE a == <<c>>
  <2> HIDE DEF a
  <2>1. a \in Seq(Chars) /\ Len(a) = 1
    BY <1>1 DEF a
  <2>2. Has(t, p, a \o x)
    BY DEF a
  <2>3. /\ Has(t, p + Len(a), x)
        /\ \A k \in 1..Len(a) : t[(p + k) - 1] = a[k]
        /\ Len(x) \in Nat /\ p + Len(a) + Len(x) = Len(t) + 1
    <3>1. HasBoth(t, p, a, x)
      BY <2>1, <2>2, HasAfter
    <3> QED  BY <3>1 DEF HasBoth
  <2> QED  BY <2>1, <2>3 DEF a
<1>3. t \in Seq(Chars) /\ Len(t) \in Nat /\ p \in Nat /\ p > 0
  BY DEF Has
<1>4. p \in 1..Len(t) /\ t[p] = c
  <2>1. 1 \in 1..1 /\ (p + 1) - 1 = p
    BY <1>3
  <2> QED  BY <1>1, <1>2, <1>3, <2>1
<1> QED  BY <1>2, <1>3, <1>4, SkipSeparator

\* The comment that ends the text of a record.
Comment == <<"#", "a", "\n">>

LEMMA HasComment ==
    ASSUME NEW t, NEW p, NEW x \in Seq(Chars), Has(t, p, Comment \o x)
    PROVE  nextToken(t, p) = nextToken(t, p + 3) /\ Has(t, p + 3, x)
<1> DEFINE a == Comment
<1>1. a \in Seq(Chars) /\ Len(a) = 3 /\ a[1] = "#" /\ a[2] = "a" /\ a[3] = "\n"
  <2>1. "#" \in Chars /\ "a" \in Chars /\ "\n" \in Chars
    BY RobotsAssumption, UrlsAssumption DEF Spaces
  <2> QED  BY <2>1 DEF Comment
<1> HIDE DEF a
<1>2. /\ Has(t, p + 3, x)
      /\ \A k \in 1..3 : t[(p + k) - 1] = a[k]
      /\ Len(x) \in Nat /\ p + 3 + Len(x) = Len(t) + 1
  <2>1. Has(t, p, a \o x)
    BY DEF a
  <2>2. /\ Has(t, p + Len(a), x)
        /\ \A k \in 1..Len(a) : t[(p + k) - 1] = a[k]
        /\ Len(x) \in Nat /\ p + Len(a) + Len(x) = Len(t) + 1
    <3>1. HasBoth(t, p, a, x)
      BY <1>1, <2>1, HasAfter
    <3> QED  BY <3>1 DEF HasBoth
  <2> QED  BY <1>1, <2>2
<1>3. t \in Seq(Chars) /\ Len(t) \in Nat /\ p \in Nat /\ p > 0
  BY DEF Has
<1>4. /\ (p + 1) - 1 = p /\ (p + 2) - 1 = p + 1 /\ (p + 3) - 1 = p + 2
      /\ 1 \in 1..3 /\ 2 \in 1..3 /\ 3 \in 1..3 /\ (p + 2) + 1 = p + 3
  BY <1>3
<1>5. t[p] = a[1] /\ t[p + 1] = a[2] /\ t[p + 2] = a[3]
  BY <1>2, <1>4
<1>6. t[p] = "#" /\ t[p + 1] # "\n" /\ t[p + 2] = "\n"
  BY <1>1, <1>5
<1>7. p \in 1..Len(t) /\ p + 2 \in p..Len(t) /\ \A j \in p..((p + 2) - 1) : j = p \/ j = p + 1
  BY <1>2, <1>3
<1>8. \A j \in p..((p + 2) - 1) : t[j] # "\n"
  BY <1>6, <1>7
<1>9. nextToken(t, p) = nextToken(t, (p + 2) + 1)
  BY <1>3, <1>6, <1>7, <1>8, SkipComment
<1> QED  BY <1>2, <1>4, <1>9

\* A word as nextToken reads them.
Reads(w) ==
    /\ w \in Seq(Chars) /\ w # <<>> /\ w[1] # "#"
    /\ \A k \in DOMAIN w: w[k] \notin Separators

LEMMA HasWord ==
    ASSUME NEW t, NEW p, NEW w, Reads(w), NEW c \in Chars, c \in Separators,
           NEW x \in Seq(Chars), Has(t, p, w \o (<<c>> \o x))
    PROVE  /\ nextToken(t, p) = [tok |-> w, pos |-> p + Len(w)]
           /\ Has(t, p + Len(w), <<c>> \o x)
<1> DEFINE b == <<c>> \o x
           k == p + Len(w)
<1>1. /\ w \in Seq(Chars) /\ Len(w) \in Nat /\ w[1] # "#" /\ Len(w) > 0
      /\ \A j \in 1..Len(w) : w[j] \notin Separators
  BY EmptySeq DEF Reads
<1>2. b \in Seq(Chars) /\ Len(b) = 1 + Len(x) /\ b[1] = c /\ Len(x) \in Nat
  OBVIOUS
<1> HIDE DEF b
<1>3. t \in Seq(Chars) /\ Len(t) \in Nat /\ p \in Nat /\ p > 0 /\ k \in Nat
  BY <1>1 DEF Has
<1>4. /\ Has(t, k, b) /\ \A j \in 1..Len(w) : t[(p + j) - 1] = w[j]
      /\ k + Len(b) = Len(t) + 1
  <2>1. Has(t, p, w \o b)
    BY DEF b
  <2>2. HasBoth(t, p, w, b)
    BY <1>1, <1>2, <2>1, HasAfter
  <2> QED  BY <1>3, <2>2 DEF HasBoth
<1>5. k \in p..Len(t) /\ k > p /\ p \in 1..Len(t)
  BY <1>1, <1>2, <1>3, <1>4
<1>6. t[k] = c
  <2>1. 1 \in 1..Len(b) /\ (k + 1) - 1 = k
    BY <1>2, <1>3
  <2>2. t[(k + 1) - 1] = b[1]
    <3> HIDE DEF k
    <3> QED  BY <1>4, <2>1 DEF Has
  <2> QED  BY <1>2, <2>1, <2>2
<1>7. ASSUME NEW j \in p..(k - 1) PROVE t[j] = w[(j - p) + 1] /\ t[j] \notin Separators
  <2>1. (j - p) + 1 \in 1..Len(w) /\ (p + ((j - p) + 1)) - 1 = j
    BY <1>1, <1>3
  <2> QED  BY <1>1, <1>4, <2>1
<1>8. t[p] # "#"
  <2>1. p \in p..(k - 1) /\ (p - p) + 1 = 1
    BY <1>3, <1>5
  <2> QED  BY <1>1, <1>7, <2>1
<1>9. nextToken(t, p) = [tok |-> SubSeq(t, p, k - 1), pos |-> k]
  <2> HIDE DEF k
  <2> QED  BY <1>3, <1>5, <1>6, <1>7, <1>8, ReadWord
<1>10. SubSeq(t, p, k - 1) = w
  <2> DEFINE s == SubSeq(t, p, k - 1)
  <2>1. /\ s \in Seq(Chars) /\ Len(s) = k - p
        /\ \A j \in 1..(k - p) : s[j] = t[(p + j) - 1]
    <3> HIDE DEF k
    <3>1. p \in 1..Len(t) + 1 /\ k - 1 \in (p - 1)..Len(t) /\ (k - 1) - p + 1 = k - p
      BY <1>3, <1>5
    <3> QED  BY <1>3, <1>5, <3>1
  <2>2. k - p = Len(w)
    BY <1>1, <1>3
  <2> HIDE DEF s, k
  <2>3. \A j \in 1..Len(s) : s[j] = w[j]
    BY <1>4, <2>1, <2>2
  <2>4. s = w
    BY <1>1, <2>1, <2>2, <2>3, SeqEqual
  <2> QED  BY <2>4 DEF s, k
<1> QED  BY <1>4, <1>9, <1>10 DEF b

LEMMA HasNothing ==
    ASSUME NEW t, NEW p, Has(t, p, <<>>)
    PROVE  nextToken(t, p).tok = NULL
<1>1. t \in Seq(Chars) /\ Len(<<>>) = 0 /\ p \in Nat /\ Len(t) \in Nat
  BY DEF Has
<1>2. p = Len(t) + 1
  BY <1>1 DEF Has
<1> QED  BY <1>1, <1>2, NoWord

-----------------------------------------------------------------------------
(* A text that did not come whole *)

\* The greatest of some naturals up to n is one of them.
LEMMA MaxIs ==
    ASSUME NEW n \in Nat, NEW I \in SUBSET (0..n), I # {}
    PROVE  Max(I) \in I /\ \A k \in I : k <= Max(I)
<1> DEFINE J == {n - i : i \in I}
<1>1. \A i \in I : i \in Nat /\ n - i \in Nat
  OBVIOUS
<1>2. J \in SUBSET Nat /\ J # {}
  BY <1>1
<1>3. PICK j \in J : \A i \in J : j <= i
  <2> HIDE DEF J
  <2> QED  BY <1>2, Least
<1>4. PICK k \in I : j = n - k
  OBVIOUS
<1>5. ASSUME NEW i \in I PROVE k >= i
  <2>1. n - i \in J
    OBVIOUS
  <2>2. j <= n - i
    BY <1>3, <2>1
  <2>3. i \in Nat /\ k \in Nat
    BY <1>1
  <2> QED  BY <1>4, <2>2, <2>3
<1>6. Max(I) \in I /\ \A i \in I : Max(I) >= i
  <2> HIDE DEF J
  <2> QED  BY <1>5 DEF Max
<1>7. \A i \in I : Max(I) >= i => i <= Max(I)
  BY <1>1, <1>6
<1> QED  BY <1>6, <1>7

\* t is what is left of the first n characters of all: all of them up to last,
\* which is a space, and spaces after it.
IsCut(all, n, t, last) ==
    /\ all \in Seq(Chars) /\ t \in Seq(Chars) /\ Len(all) \in Nat /\ Len(t) = n
    /\ n \in Nat /\ n <= Len(all) /\ last \in Nat /\ last <= n
    /\ \A i \in 1..last : t[i] = all[i]
    /\ \A i \in (last + 1)..n : t[i] = " "
    /\ last > 0 => all[last] \in Separators

LEMMA BlankedIs ==
    ASSUME NEW all \in Seq(Chars), NEW n \in 0..Len(all)
    PROVE  \E last : IsCut(all, n, Blanked(SubSeq(all, 1, n)), last)
<1> DEFINE s == SubSeq(all, 1, n)
           I == {i \in 1..Len(s) : s[i] \in Spaces}
           last == SelectLastInSeq(s, LAMBDA c: c \in Spaces)
           t == Blanked(s)
<1>1. Len(all) \in Nat /\ n \in Nat /\ n <= Len(all)
  OBVIOUS
<1>2. s \in Seq(Chars) /\ Len(s) = n /\ \A i \in 1..n : s[i] = all[i]
  BY <1>1, FirstOf
<1>3. t = [i \in 1..n |-> IF i > last THEN " " ELSE s[i]]
  <2>1. DOMAIN s = 1..n
    BY <1>1, <1>2
  <2> QED  BY <2>1 DEF Blanked
<1>4. last = IF I # {} THEN Max(I) ELSE 0
  BY DEF SelectLastInSeq, SelectLastInSubSeq
<1>5. last = 0 \/ (last \in 1..n /\ s[last] \in Spaces)
  <2>1. CASE I = {}
    BY <1>4, <2>1
  <2>2. CASE I # {}
    <3>1. I \in SUBSET (0..n)
      BY <1>1, <1>2
    <3>2. last \in I
      <4> HIDE DEF I, last
      <4> QED  BY <1>1, <1>4, <2>2, <3>1, MaxIs
    <3> QED  BY <1>2, <3>2
  <2> QED  BY <2>1, <2>2
<1> HIDE DEF s, last, t, I
<1>6. last \in Nat /\ last <= n
  BY <1>1, <1>5
<1>7. last > 0 => all[last] \in Separators
  BY <1>2, <1>5, <1>6 DEF Separators
<1>8. \A i \in 1..last : t[i] = all[i]
  <2>1. \A i \in 1..last : i \in 1..n /\ ~(i > last)
    BY <1>1, <1>6
  <2>2. \A i \in 1..last : t[i] = s[i]
    BY <1>3, <2>1
  <2> QED  BY <1>2, <2>1, <2>2
<1>9. \A i \in (last + 1)..n : t[i] = " "
  <2>1. \A i \in (last + 1)..n : i \in 1..n /\ i > last
    BY <1>1, <1>6
  <2> QED  BY <1>3, <2>1
<1>10. t \in Seq(Chars) /\ Len(t) = n
  <2>1. " " \in Chars
    BY RobotsAssumption DEF Spaces
  <2>2. \A i \in 1..n : s[i] \in Chars
    BY <1>1, <1>2
  <2>3. \A i \in 1..n : (IF i > last THEN " " ELSE s[i]) \in Chars
    BY <2>1, <2>2
  <2>4. t \in [1..n -> Chars]
    BY <1>3, <2>3
  <2> QED  BY <1>1, <2>4, IsASeq, LenProperties
<1>11. IsCut(all, n, t, last)
  BY <1>1, <1>6, <1>7, <1>8, <1>9, <1>10 DEF IsCut
<1> QED  BY <1>11 DEF t, s

\* From position p on, no token of the part is read that the whole has not.
CutGood(all, t, last, p) ==
    \/ nextToken(t, p).tok = NULL
    \/ p <= last /\ nextToken(t, p) = nextToken(all, p)

LEMMA CutAtEnd ==
    ASSUME NEW t \in Seq(Chars), NEW p \in Nat, NEW q \in Nat, q > Len(t),
           WordStart(t)[p] = q
    PROVE  nextToken(t, p).tok = NULL
<1>1. Len(t) \in Nat /\ q > 0
  OBVIOUS
<1>2. \A k \in Int : k \notin q..Len(t)
  BY <1>1
<1>3. nextToken(t, p) = [tok |-> SubSeq(t, q, Len(t)), pos |-> Len(t) + 1]
  <2>1. ~(\E k \in q..Len(t) : /\ t[k] \in Separators /\ \A j \in q..(k - 1) : t[j] \notin Separators
                /\ nextToken(t, p) = [tok |-> SubSeq(t, q, k - 1), pos |-> k])
    BY <1>1, <1>2
  <2> QED  BY <1>1, <2>1, TokenIs
<1>4. SubSeq(t, q, Len(t)) = <<>>
  BY <1>1
<1> QED  BY <1>3, <1>4 DEF NULL

LEMMA CutStep ==
    ASSUME NEW all, NEW n, NEW t, NEW last, IsCut(all, n, t, last),
           NEW p \in Nat, p > 0,
           \A q \in Nat : q > p => CutGood(all, t, last, q)
    PROVE  CutGood(all, t, last, p)
<1>0. /\ n \in Nat /\ last \in Nat /\ last <= n
      /\ Len(all) \in Nat /\ n <= Len(all) /\ Len(t) = n
  BY DEF IsCut
<1>1. /\ all \in Seq(Chars) /\ t \in Seq(Chars)
      /\ \A i \in 1..last : t[i] = all[i]
      /\ last > 0 => all[last] \in Separators
  BY DEF IsCut
<1>9. \A i \in (last + 1)..n : t[i] = " "
  BY DEF IsCut
<1>2. At(t, p) = IF p \in 1..n THEN t[p] ELSE NUL
  BY <1>0, <1>1, AtIs
<1>3. NUL \notin Separators \cup {"#"} /\ " " \in Separators /\ "#" \notin Separators
      /\ " " # "#" /\ " " # "\n" /\ "\n" \in Separators
  BY DEF Separators, Spaces, NUL
<1>4. CASE p > n
  <2>1. WordStart(t)[p] = p
    <3>1. At(t, p) = NUL
      BY <1>0, <1>1, <1>2, <1>4
    <3> QED  BY <1>0, <1>1, <1>3, <3>1, WordSteps
  <2> QED  BY <1>0, <1>1, <1>4, <2>1, CutAtEnd DEF CutGood
<1>5. CASE p <= n /\ p > last
  <2>1. p \in (last + 1)..n /\ p \in 1..Len(t) /\ p + 1 \in Nat /\ p + 1 > p /\ ~(p + 1 <= last)
    BY <1>0, <1>5
  <2>2. t[p] \in Separators
    BY <1>3, <1>9, <2>1
  <2>3. nextToken(t, p) = nextToken(t, p + 1)
    BY <1>0, <1>1, <2>1, <2>2, SkipSeparator
  <2>4. CutGood(all, t, last, p + 1)
    BY <2>1
  <2> QED  BY <2>1, <2>3, <2>4 DEF CutGood
<1>6. CASE p <= last
  <2>1. /\ p \in 1..last /\ p \in 1..Len(t) /\ p \in 1..Len(all) /\ p + 1 \in Nat /\ p + 1 > p
        /\ last > 0
    BY <1>0, <1>6
  <2>2. t[p] = all[p] /\ At(t, p) = t[p] /\ all[last] \in Separators /\ t[last] = all[last]
    <3>1. last \in 1..last
      BY <1>0, <1>1, <2>1
    <3> QED  BY <1>0, <1>1, <1>2, <2>1, <3>1
  <2>3. CASE t[p] \in Separators
    <3>1. nextToken(t, p) = nextToken(t, p + 1) /\ nextToken(all, p) = nextToken(all, p + 1)
      BY <1>0, <1>1, <2>1, <2>2, <2>3, SkipSeparator
    <3>2. CutGood(all, t, last, p + 1)
      BY <2>1
    <3> QED  BY <1>6, <3>1, <3>2 DEF CutGood
  <2>4. CASE t[p] = "#"
    <3>1. \/ /\ \A j \in p..Len(t) : t[j] # "\n"
             /\ WordStart(t)[p] = Len(t) + 1
          \/ \E k \in p..Len(t) :
               /\ t[k] = "\n" /\ \A j \in p..(k - 1) : t[j] # "\n"
               /\ WordStart(t)[p] = WordStart(t)[k + 1]
      <4>1. At(t, p) = "#"
        BY <2>2, <2>4
      <4> QED  BY <1>1, <4>1, WordSteps
    <3>2. CASE WordStart(t)[p] = Len(t) + 1
      <4>1. Len(t) + 1 \in Nat /\ Len(t) + 1 > Len(t)
        BY <1>0
      <4> QED  BY <1>0, <1>1, <3>2, <4>1, CutAtEnd DEF CutGood
    <3>3. CASE \E k \in p..Len(t) :
                 /\ t[k] = "\n" /\ \A j \in p..(k - 1) : t[j] # "\n"
                 /\ WordStart(t)[p] = WordStart(t)[k + 1]
      <4>1. PICK k \in p..Len(t) :
              /\ t[k] = "\n" /\ \A j \in p..(k - 1) : t[j] # "\n"
              /\ WordStart(t)[p] = WordStart(t)[k + 1]
        BY <3>3
      <4>2. k \in Int /\ k <= n /\ p <= k /\ k + 1 \in Nat /\ k + 1 > p
        BY <1>0
      <4>3. k <= last
        <5>1. k > last => k \in (last + 1)..n
          BY <1>0, <4>2
        <5>2. k > last => t[k] = " "
          BY <1>9, <5>1
        <5>3. ~(k > last)
          BY <1>3, <4>1, <5>2
        <5> QED  BY <1>0, <4>2, <5>3
      <4>4. k \in p..Len(all) /\ all[k] = "\n" /\ \A j \in p..(k - 1) : all[j] # "\n"
        <5>1. k \in 1..last /\ k \in p..Len(all) /\ \A j \in p..(k - 1) : j \in 1..last
          BY <1>0, <4>2, <4>3
        <5> QED  BY <1>0, <1>1, <4>1, <5>1
      <4>5. nextToken(all, p) = nextToken(all, k + 1)
        BY <1>0, <1>1, <2>1, <2>2, <2>4, <4>4, SkipComment
      <4>6. nextToken(t, p) = nextToken(t, k + 1)
        BY <4>1, SameStart
      <4>7. CutGood(all, t, last, k + 1)
        BY <4>2
      <4> QED  BY <1>6, <4>5, <4>6, <4>7 DEF CutGood
    <3> QED  BY <3>1, <3>2, <3>3
  <2>5. CASE t[p] \notin Separators \cup {"#"}
    <3>1. WordStart(t)[p] = p
      BY <1>0, <1>1, <2>2, <2>5, WordSteps
    <3>2. last \in p..Len(t)
      BY <1>0, <1>6
    <3>3. PICK k \in p..Len(t) :
            /\ t[k] \in Separators /\ \A j \in p..(k - 1) : t[j] \notin Separators
            /\ nextToken(t, p) = [tok |-> SubSeq(t, p, k - 1), pos |-> k]
      <4>1. ~(\A j \in p..Len(t) : t[j] \notin Separators)
        BY <2>2, <3>2
      <4> QED  BY <1>1, <3>1, <4>1, TokenIs
    <3>4. k \in Int /\ k <= n /\ p <= k /\ k # p
      BY <1>0, <1>1, <2>5, <3>3
    <3>5. k <= last
      <4>1. k > last => last \in p..(k - 1)
        BY <1>0, <1>6, <3>4
      <4> QED  BY <1>0, <1>1, <2>2, <3>3, <3>4, <4>1
    <3>6. /\ k \in p..Len(all) /\ k > p
          /\ all[k] \in Separators /\ \A j \in p..(k - 1) : all[j] \notin Separators
      <4>1. k \in 1..last /\ k \in p..Len(all) /\ k > p /\ \A j \in p..(k - 1) : j \in 1..last
        BY <1>0, <1>1, <3>4, <3>5
      <4> QED  BY <1>0, <1>1, <3>3, <4>1
    <3>7. nextToken(all, p) = [tok |-> SubSeq(all, p, k - 1), pos |-> k]
      BY <1>0, <1>1, <2>1, <2>2, <2>5, <3>6, ReadWord
    <3>8. SubSeq(all, p, k - 1) = SubSeq(t, p, k - 1)
      <4> DEFINE a == SubSeq(all, p, k - 1)
                 b == SubSeq(t, p, k - 1)
      <4>1. /\ a \in Seq(Chars) /\ Len(a) = k - p
            /\ \A j \in 1..(k - p) : a[j] = all[(p + j) - 1]
        BY <1>0, <1>1, <3>4, <3>5
      <4>2. /\ b \in Seq(Chars) /\ Len(b) = k - p
            /\ \A j \in 1..(k - p) : b[j] = t[(p + j) - 1]
        BY <1>0, <1>1, <3>4, <3>5
      <4>3. \A j \in 1..(k - p) : (p + j) - 1 \in 1..last
        BY <1>0, <1>1, <3>4, <3>5
      <4> HIDE DEF a, b
      <4>4. \A j \in 1..Len(a) : a[j] = b[j]
        BY <1>0, <1>1, <4>1, <4>2, <4>3
      <4>5. a = b
        BY <4>1, <4>2, <4>4, SeqEqual
      <4> QED  BY <4>5 DEF a, b
    <3> QED  BY <1>6, <3>3, <3>7, <3>8 DEF CutGood
  <2> QED  BY <2>3, <2>4, <2>5
<1> QED  BY <1>0, <1>1, <1>4, <1>5, <1>6

LEMMA CutToken ==
    ASSUME NEW all, NEW n, NEW t, NEW last, IsCut(all, n, t, last),
           NEW p \in Nat, p > 0
    PROVE  nextToken(t, p).tok = NULL \/ nextToken(t, p) = nextToken(all, p)
<1> DEFINE T == {m \in Nat : \A q \in Nat : q > 0 /\ q + m > n => CutGood(all, t, last, q)}
<1>1. n \in Nat
  BY DEF IsCut
<1>2. ASSUME NEW q \in Nat, q > n PROVE CutGood(all, t, last, q)
  <2>1. t \in Seq(Chars) /\ Len(t) = n
    BY DEF IsCut
  <2>2. At(t, q) = NUL
    BY <1>1, <1>2, <2>1, AtIs
  <2>3. NUL \notin Separators \cup {"#"}
    BY DEF Separators, Spaces, NUL
  <2>4. WordStart(t)[q] = q
    BY <1>1, <1>2, <2>1, <2>2, <2>3, WordSteps
  <2> QED  BY <1>1, <1>2, <2>1, <2>4, CutAtEnd DEF CutGood
<1>3. 0 \in T
  BY <1>1, <1>2
<1>4. ASSUME NEW m \in T PROVE m + 1 \in T
  <2>1. ASSUME NEW q \in Nat, q > 0, q + (m + 1) > n PROVE CutGood(all, t, last, q)
    <3>1. \A r \in Nat : r > q => r > 0 /\ r + m > n
      BY <1>1, <2>1
    <3>2. \A r \in Nat : r > q => CutGood(all, t, last, r)
      BY <3>1
    <3> QED  BY <2>1, <3>2, CutStep
  <2> QED  BY <2>1
<1>5. T \in SUBSET Nat
  OBVIOUS
<1>6. n \in T
  <2> HIDE DEF T
  <2> QED  BY <1>1, <1>3, <1>4, <1>5, Induct
<1>7. p + n > n
  BY <1>1
<1>8. CutGood(all, t, last, p)
  BY <1>6, <1>7
<1> QED  BY <1>8 DEF CutGood

-----------------------------------------------------------------------------
(* The text of a robots.txt, from its end *)

\* The texts of the elements from i on.
TextsFrom(F, q, i) == Texts(F, SubSeq(q, i, Len(q)))

SplitAt(S, A, F, q, i) ==
    /\ TextsFrom(F, q, i) \in Seq(S)
    /\ i = Len(q) + 1 => TextsFrom(F, q, i) = <<>>
    /\ i <= Len(q) => /\ TextsFrom(F, q, i) = F[q[i]] \o TextsFrom(F, q, i + 1)
                      /\ q[i] \in A /\ F[q[i]] \in Seq(S)
                      /\ TextsFrom(F, q, i + 1) \in Seq(S)

LEMMA TextsSplit ==
    ASSUME NEW S, NEW A, NEW F, NEW q, HasTexts(S, A, F, q), NEW i \in 1..Len(q) + 1
    PROVE  SplitAt(S, A, F, q, i)
<1>1. F \in [A -> Seq(S)] /\ q \in Seq(A)
  BY DEF HasTexts
<1>2. Len(q) \in Nat /\ i \in Nat /\ i > 0 /\ i <= Len(q) + 1
  BY <1>1
<1>3. ASSUME NEW j \in 1..Len(q) + 1
      PROVE  SubSeq(q, j, Len(q)) \in Seq(A) /\ TextsFrom(F, q, j) \in Seq(S)
  <2>1. SubSeq(q, j, Len(q)) \in Seq(A)
    BY <1>1, <1>2
  <2>2. HasTexts(S, A, F, SubSeq(q, j, Len(q)))
    BY <1>1, <2>1 DEF HasTexts
  <2> QED  BY <2>1, <2>2, TextsType DEF TextsFrom
<1>4. CASE i = Len(q) + 1
  <2>1. SubSeq(q, i, Len(q)) = <<>>
    BY <1>1, <1>2, <1>4
  <2>2. ~(i <= Len(q))
    BY <1>2, <1>4
  <2> QED  BY <1>3, <1>4, <2>1, <2>2, TextsOfNone DEF TextsFrom, SplitAt
<1>5. CASE i <= Len(q)
  <2> DEFINE s == SubSeq(q, i, Len(q))
  <2>1. s \in Seq(A) /\ s # <<>> /\ Head(s) = q[i] /\ Tail(s) = SubSeq(q, i + 1, Len(q))
    <3>1. q \in Seq(A) /\ i \in 1..Len(q) /\ Len(q) \in i..Len(q)
      BY <1>1, <1>2, <1>5
    <3>2. Head(s) = q[i] /\ Tail(s) = SubSeq(q, i + 1, Len(q))
      BY ONLY <3>1, HeadTailOfSubSeq
    <3>3. s \in Seq(A) /\ Len(s) = (Len(q) - i) + 1
      BY <1>1, <1>2, <3>1
    <3>4. Len(s) # 0
      BY <1>2, <1>5, <3>3
    <3> HIDE DEF s
    <3>5. s # <<>>
      BY <3>3, <3>4
    <3> QED  BY <3>2, <3>3, <3>5
  <2>2. Texts(F, s) = F[Head(s)] \o Texts(F, Tail(s))
    <3>1. HasTexts(S, A, F, s)
      BY <1>1, <2>1 DEF HasTexts
    <3> HIDE DEF s
    <3> QED  BY <2>1, <3>1, TextsHead
  <2>3. TextsFrom(F, q, i) = F[q[i]] \o TextsFrom(F, q, i + 1)
    BY <2>1, <2>2 DEF TextsFrom
  <2>4. i + 1 \in 1..Len(q) + 1 /\ i # Len(q) + 1 /\ q[i] \in A
    BY <1>1, <1>2, <1>5
  <2>5. F[q[i]] \in Seq(S)
    BY <1>1, <2>4
  <2> QED  BY <1>3, <2>3, <2>4, <2>5 DEF SplitAt
<1>6. i = Len(q) + 1 \/ i <= Len(q)
  BY <1>2
<1> QED  BY <1>4, <1>5, <1>6 DEF SplitAt

Records == [agents: Seq(Seq(Chars)), rules: Seq(Seq(Chars))]

SpaceOf == [w \in Seq(Chars) |-> <<" ">> \o w]

RuleOf == [w \in Seq(Chars) |-> Line(disallow, <<w>>)]

RecordOf == [r \in Records |-> RecordText(r) \o Comment]

\* What stands from record i of a file on, from rule r of it, from name k of it.
Rest(file, i) == TextsFrom(RecordOf, file, i)

FromRule(file, i, r) ==
    TextsFrom(RuleOf, file[i].rules, r) \o (Comment \o Rest(file, i + 1))

FromAgent(file, i, k) ==
    TextsFrom(SpaceOf, file[i].agents, k) \o (<<"\n">> \o FromRule(file, i, 1))

LEMMA CharsAre ==
    /\ <<" ">> \in Seq(Chars) /\ <<":">> \in Seq(Chars) /\ <<"\n">> \in Seq(Chars)
    /\ useragent \in Seq(Chars) /\ disallow \in Seq(Chars) /\ Comment \in Seq(Chars)
<1>1. /\ " " \in Chars /\ ":" \in Chars /\ "\n" \in Chars /\ "#" \in Chars
      /\ "user-agent" \in Chars /\ "disallow" \in Chars
  BY RobotsAssumption DEF Spaces
<1>2. "a" \in Chars
  BY UrlsAssumption
<1>3. \A a, b, c \in Chars : <<a>> \in Seq(Chars) /\ <<a, b, c>> \in Seq(Chars)
  OBVIOUS
<1>4. /\ <<" ">> \in Seq(Chars) /\ <<":">> \in Seq(Chars) /\ <<"\n">> \in Seq(Chars)
      /\ <<"user-agent">> \in Seq(Chars) /\ <<"disallow">> \in Seq(Chars)
      /\ <<"#", "a", "\n">> \in Seq(Chars)
  BY <1>1, <1>2, <1>3
<1> QED  BY <1>4 DEF useragent, disallow, Comment

\* Two sequences of characters, one after the other, and three.
LEMMA JoinType ==
    \A a, b \in Seq(Chars) : a \o b \in Seq(Chars)
BY ConcatProperties

JoinsThree(a, b, c) == (a \o b) \o c = a \o (b \o c)

LEMMA JoinThree ==
    \A a, b, c \in Seq(Chars) : JoinsThree(a, b, c)
BY ConcatAssociative DEF JoinsThree

LEMMA SpacesOf ==
    ASSUME NEW q \in Seq(Seq(Chars))
    PROVE  /\ HasTexts(Chars, Seq(Chars), SpaceOf, q)
           /\ FlattenSeq([i \in DOMAIN q |-> <<" ">> \o q[i]]) = Texts(SpaceOf, q)
<1>1. DOMAIN q = 1..Len(q) /\ \A k \in 1..Len(q) : q[k] \in Seq(Chars)
  OBVIOUS
<1>2. [i \in DOMAIN q |-> <<" ">> \o q[i]] = [i \in DOMAIN q |-> SpaceOf[q[i]]]
  BY <1>1 DEF SpaceOf
<1>3. SpaceOf \in [Seq(Chars) -> Seq(Chars)]
  <2>1. \A s \in Seq(Chars) : <<" ">> \o s \in Seq(Chars)
    BY CharsAre, JoinType
  <2> QED  BY <2>1 DEF SpaceOf
<1> QED  BY <1>2, <1>3 DEF Texts, TextSeq, HasTexts

\* The parts of a line.
LEMMA LineIs ==
    ASSUME NEW word \in Seq(Chars), NEW q \in Seq(Seq(Chars))
    PROVE  /\ Line(word, q) = word \o (<<":">> \o (Texts(SpaceOf, q) \o <<"\n">>))
           /\ Line(word, q) \in Seq(Chars) /\ Texts(SpaceOf, q) \in Seq(Chars)
<1> DEFINE a == <<":">>
           b == Texts(SpaceOf, q)
           c == <<"\n">>
<1>1. a \in Seq(Chars) /\ b \in Seq(Chars) /\ c \in Seq(Chars)
  <2>1. b \in Seq(Chars)
    BY SpacesOf, TextsType
  <2> QED  BY <2>1, CharsAre
<1>2. Line(word, q) = ((word \o a) \o b) \o c
  BY SpacesOf DEF Line
<1> HIDE DEF a, b, c
<1>3. word \o a \in Seq(Chars) /\ b \o c \in Seq(Chars)
  BY <1>1, JoinType
<1>4. ((word \o a) \o b) \o c = (word \o a) \o (b \o c)
  <2>1. JoinsThree(word \o a, b, c)
    BY <1>1, <1>3, JoinThree
  <2> QED  BY <2>1 DEF JoinsThree
<1>5. (word \o a) \o (b \o c) = word \o (a \o (b \o c))
  <2>1. JoinsThree(word, a, b \o c)
    BY <1>1, <1>3, JoinThree
  <2> QED  BY <2>1 DEF JoinsThree
<1>6. (word \o a) \o (b \o c) \in Seq(Chars)
  BY <1>3, JoinType
<1> QED  BY <1>1, <1>2, <1>4, <1>5, <1>6 DEF a, b, c

LEMMA RulesOf ==
    ASSUME NEW q \in Seq(Seq(Chars))
    PROVE  /\ HasTexts(Chars, Seq(Chars), RuleOf, q)
           /\ FlattenSeq([i \in DOMAIN q |-> Line(disallow, <<q[i]>>)]) = Texts(RuleOf, q)
<1>1. DOMAIN q = 1..Len(q) /\ \A k \in 1..Len(q) : q[k] \in Seq(Chars)
  OBVIOUS
<1>2. [i \in DOMAIN q |-> Line(disallow, <<q[i]>>)] = [i \in DOMAIN q |-> RuleOf[q[i]]]
  BY <1>1 DEF RuleOf
<1>3. RuleOf \in [Seq(Chars) -> Seq(Chars)]
  <2>1. \A s \in Seq(Chars) : Line(disallow, <<s>>) \in Seq(Chars)
    <3> SUFFICES ASSUME NEW s \in Seq(Chars) PROVE Line(disallow, <<s>>) \in Seq(Chars)
      OBVIOUS
    <3>1. <<s>> \in Seq(Seq(Chars))
      OBVIOUS
    <3> QED  BY <3>1, CharsAre, LineIs
  <2> QED  BY <2>1 DEF RuleOf
<1> QED  BY <1>2, <1>3 DEF Texts, TextSeq, HasTexts

\* The line of a rule.
LEMMA RuleIs ==
    ASSUME NEW w \in Seq(Chars)
    PROVE  RuleOf[w] = disallow \o (<<":">> \o (<<" ">> \o (w \o <<"\n">>)))
<1>1. <<w>> \in Seq(Seq(Chars)) /\ Len(<<w>>) = 1 /\ <<w>>[1] = w
  OBVIOUS
<1>2. Line(disallow, <<w>>) = disallow \o (<<":">> \o (Texts(SpaceOf, <<w>>) \o <<"\n">>))
  BY <1>1, CharsAre, LineIs
<1>3. Texts(SpaceOf, <<w>>) = <<" ">> \o w
  <2>1. TextSeq(SpaceOf, <<w>>) = << <<" ">> \o w >>
    <3>1. SpaceOf[w] = <<" ">> \o w
      BY DEF SpaceOf
    <3>2. DOMAIN <<w>> = 1..1 /\ \A i \in 1..1 : <<w>>[i] = w
      OBVIOUS
    <3>3. TextSeq(SpaceOf, <<w>>) = [i \in 1..1 |-> SpaceOf[w]]
      BY <3>2 DEF TextSeq
    <3> DEFINE x == <<" ">> \o w
    <3> HIDE DEF x
    <3>4. [i \in 1..1 |-> x] = <<x>>
      OBVIOUS
    <3> QED  BY <3>1, <3>3, <3>4 DEF x
  <2>2. FlattenSeq(<< <<" ">> \o w >>) = <<" ">> \o w
    <3>1. <<" ">> \o w \in Seq(Chars)
      BY CharsAre, JoinType
    <3> QED  BY <3>1, FlattenOne
  <2> QED  BY <2>1, <2>2 DEF Texts
<1>4. (<<" ">> \o w) \o <<"\n">> = <<" ">> \o (w \o <<"\n">>)
  <2> DEFINE a == <<" ">>
             c == <<"\n">>
  <2>1. a \in Seq(Chars) /\ c \in Seq(Chars)
    BY CharsAre
  <2> HIDE DEF a, c
  <2>2. (a \o w) \o c = a \o (w \o c)
    <3>1. JoinsThree(a, w, c)
      BY <2>1, JoinThree
    <3> QED  BY <3>1 DEF JoinsThree
  <2> QED  BY <2>2 DEF a, c
<1> QED  BY <1>2, <1>3, <1>4 DEF RuleOf

LEMMA RecordsOf ==
    ASSUME NEW file \in Seq(Records)
    PROVE  /\ HasTexts(Chars, Records, RecordOf, file)
           /\ Text(file) = Texts(RecordOf, file)
<1>1. DOMAIN file = 1..Len(file) /\ \A k \in 1..Len(file) : file[k] \in Records
  OBVIOUS
<1>2. [i \in DOMAIN file |-> RecordText(file[i]) \o Comment] = [i \in DOMAIN file |-> RecordOf[file[i]]]
  BY <1>1 DEF RecordOf
<1>3. Text(file) = FlattenSeq([i \in DOMAIN file |-> RecordText(file[i]) \o Comment])
  BY DEF Text, Comment
<1>4. RecordOf \in [Records -> Seq(Chars)]
  <2>1. ASSUME NEW r \in Records PROVE RecordText(r) \o Comment \in Seq(Chars)
    <3> DEFINE a == IF r.agents = <<>> THEN <<>> ELSE Line(useragent, r.agents)
               b == FlattenSeq([i \in DOMAIN r.rules |-> Line(disallow, <<r.rules[i]>>)])
    <3>1. r.agents \in Seq(Seq(Chars)) /\ r.rules \in Seq(Seq(Chars))
      BY DEF Records
    <3>2. a \in Seq(Chars)
      <4>1. Line(useragent, r.agents) \in Seq(Chars) /\ <<>> \in Seq(Chars)
        BY <3>1, CharsAre, LineIs, EmptySeq
      <4> QED  BY <4>1
    <3>3. b \in Seq(Chars)
      <4> DEFINE q == r.rules
      <4> HIDE DEF q
      <4>1. q \in Seq(Seq(Chars))
        BY <3>1 DEF q
      <4>2. HasTexts(Chars, Seq(Chars), RuleOf, q)
        BY <4>1, RulesOf
      <4>3. Texts(RuleOf, q) \in Seq(Chars)
        BY <4>2, TextsType
      <4>4. FlattenSeq([i \in DOMAIN q |-> Line(disallow, <<q[i]>>)]) = Texts(RuleOf, q)
        BY <4>1, RulesOf
      <4> QED  BY <4>3, <4>4 DEF q
    <3>4. RecordText(r) = a \o b
      BY DEF RecordText
    <3> HIDE DEF a, b
    <3> QED  BY <3>2, <3>3, <3>4, CharsAre, JoinType
  <2> QED  BY <2>1 DEF RecordOf
<1> QED  BY <1>1, <1>2, <1>3, <1>4 DEF HasTexts, Texts, TextSeq

\* All that stands in a file is text.
LEMMA RestType ==
    ASSUME NEW file \in Seq(Records)
    PROVE  /\ \A i \in 1..Len(file) + 1 : Rest(file, i) \in Seq(Chars)
           /\ Rest(file, Len(file) + 1) = <<>>
           /\ Rest(file, 1) = Text(file)
<1>1. HasTexts(Chars, Records, RecordOf, file) /\ Text(file) = Texts(RecordOf, file)
  BY RecordsOf
<1>2. Len(file) \in Nat /\ Len(file) + 1 \in 1..Len(file) + 1
  OBVIOUS
<1>3. SubSeq(file, 1, Len(file)) = file
  OBVIOUS
<1>4. Rest(file, 1) = Text(file)
  BY <1>1, <1>3 DEF Rest, TextsFrom
<1>5. \A i \in 1..Len(file) + 1 : Rest(file, i) \in Seq(Chars)
  BY <1>1, TextsSplit DEF Rest, SplitAt
<1>6. Rest(file, Len(file) + 1) = <<>>
  BY <1>1, <1>2, TextsSplit DEF Rest, SplitAt
<1> QED  BY <1>4, <1>5, <1>6

\* A line, with what comes after it.
JoinsLine(d, a, b, w, c, z) ==
    (d \o (a \o (b \o (w \o c)))) \o z = d \o (a \o (b \o (w \o (c \o z))))

LEMMA JoinLine ==
    \A d, a, b, w, c, z \in Seq(Chars) : JoinsLine(d, a, b, w, c, z)
<1> SUFFICES ASSUME NEW d \in Seq(Chars), NEW a \in Seq(Chars), NEW b \in Seq(Chars),
                    NEW w \in Seq(Chars), NEW c \in Seq(Chars), NEW z \in Seq(Chars)
             PROVE  JoinsLine(d, a, b, w, c, z)
  OBVIOUS
<1>1. ASSUME NEW u \in Seq(Chars), NEW v \in Seq(Chars)
      PROVE  u \o v \in Seq(Chars) /\ (u \o v) \o z = u \o (v \o z)
  <2>1. u \o v \in Seq(Chars)
    BY ConcatProperties
  <2>2. (u \o v) \o z = u \o (v \o z)
    <3>1. JoinsThree(u, v, z)
      BY JoinThree
    <3> QED  BY <3>1 DEF JoinsThree
  <2> QED  BY <2>1, <2>2
<1> DEFINE k == w \o c
           l == b \o k
           m == a \o l
<1>2. k \in Seq(Chars) /\ k \o z = w \o (c \o z)
  BY <1>1
<1> HIDE DEF k
<1>3. l \in Seq(Chars) /\ l \o z = b \o (k \o z)
  BY <1>1, <1>2
<1> HIDE DEF l
<1>4. m \in Seq(Chars) /\ m \o z = a \o (l \o z)
  BY <1>1, <1>3
<1> HIDE DEF m
<1>5. (d \o m) \o z = d \o (m \o z)
  BY <1>1, <1>4
<1>6. (d \o m) \o z = d \o (a \o (b \o (w \o (c \o z))))
  BY <1>2, <1>3, <1>4, <1>5
<1> QED  BY <1>6 DEF m, l, k, JoinsLine

\* What follows a rule or a name.
AfterColon(file, i, r) ==
    <<" ">> \o (file[i].rules[r] \o (<<"\n">> \o FromRule(file, i, r + 1)))

LEMMA FromRuleIs ==
    ASSUME NEW file \in Seq(Records), NEW i \in 1..Len(file),
           NEW r \in 1..Len(file[i].rules) + 1
    PROVE  /\ FromRule(file, i, r) \in Seq(Chars)
           /\ r = Len(file[i].rules) + 1 =>
                FromRule(file, i, r) = Comment \o Rest(file, i + 1)
           /\ r <= Len(file[i].rules) =>
                /\ FromRule(file, i, r) = disallow \o (<<":">> \o AfterColon(file, i, r))
                /\ FromRule(file, i, r + 1) \in Seq(Chars)
                /\ AfterColon(file, i, r) \in Seq(Chars)
                /\ file[i].rules[r] \in Seq(Chars)
<1> DEFINE q == file[i].rules
           end == Comment \o Rest(file, i + 1)
           d == disallow
           a == <<":">>
           b == <<" ">>
           c == <<"\n">>
           x == TextsFrom(RuleOf, q, r)
           y == TextsFrom(RuleOf, q, r + 1)
           w == q[r]
<1>1. q \in Seq(Seq(Chars)) /\ Len(q) \in Nat /\ i + 1 \in 1..Len(file) + 1
  <2>1. file[i] \in Records
    OBVIOUS
  <2> QED  BY <2>1 DEF Records
<1>2. end \in Seq(Chars)
  <2>1. Rest(file, i + 1) \in Seq(Chars)
    BY <1>1, RestType
  <2> QED  BY <2>1, CharsAre, JoinType
<1>3. d \in Seq(Chars) /\ a \in Seq(Chars) /\ b \in Seq(Chars) /\ c \in Seq(Chars)
  BY CharsAre
<1>4. /\ x \in Seq(Chars)
      /\ r = Len(q) + 1 => x = <<>>
      /\ r <= Len(q) => x = RuleOf[w] \o y /\ w \in Seq(Chars) /\ y \in Seq(Chars)
  <2>1. HasTexts(Chars, Seq(Chars), RuleOf, q)
    BY <1>1, RulesOf
  <2>2. r \in 1..Len(q) + 1
    OBVIOUS
  <2> HIDE DEF q, x, y, w
  <2>3. SplitAt(Chars, Seq(Chars), RuleOf, q, r)
    BY <2>1, <2>2, TextsSplit
  <2> QED  BY <2>3 DEF x, y, w, SplitAt
<1>5. FromRule(file, i, r) = x \o end /\ FromRule(file, i, r + 1) = y \o end
  BY DEF FromRule
<1>6. AfterColon(file, i, r) = b \o (w \o (c \o FromRule(file, i, r + 1)))
  BY DEF AfterColon
<1>7. w \in Seq(Chars) => RuleOf[w] = d \o (a \o (b \o (w \o c)))
  BY RuleIs
<1>8. r \in Nat /\ (r <= Len(q) \/ r = Len(q) + 1)
  BY <1>1
<1> HIDE DEF q, end, d, a, b, c, x, y, w
<1>9. CASE r = Len(q) + 1
  <2>1. x \o end = end
    BY <1>2, <1>4, <1>9, ConcatEmptySeq
  <2>2. ~(r <= Len(q))
    BY <1>1, <1>9
  <2> QED  BY <1>2, <1>5, <1>9, <2>1, <2>2 DEF q, end
<1>10. CASE r <= Len(q)
  <2> DEFINE z == y \o end
  <2>1. x = RuleOf[w] \o y /\ w \in Seq(Chars) /\ y \in Seq(Chars)
    BY <1>4, <1>10
  <2>2. z \in Seq(Chars)
    BY <1>2, <2>1, JoinType
  <2>3. w \o c \in Seq(Chars) /\ b \o (w \o c) \in Seq(Chars)
        /\ a \o (b \o (w \o c)) \in Seq(Chars) /\ RuleOf[w] \in Seq(Chars)
    BY <1>3, <1>7, <2>1, JoinType
  <2>4. x \o end = RuleOf[w] \o z
    <3>1. JoinsThree(RuleOf[w], y, end)
      BY <1>2, <2>1, <2>3, JoinThree
    <3>2. (RuleOf[w] \o y) \o end = RuleOf[w] \o (y \o end)
      BY <3>1 DEF JoinsThree
    <3> QED  BY <2>1, <3>2 DEF z
  <2> HIDE DEF z
  <2>5. RuleOf[w] \o z = d \o (a \o (b \o (w \o (c \o z))))
    <3>1. (d \o (a \o (b \o (w \o c)))) \o z = d \o (a \o (b \o (w \o (c \o z))))
      <4>1. JoinsLine(d, a, b, w, c, z)
        BY <1>3, <2>1, <2>2, JoinLine
      <4> QED  BY <4>1 DEF JoinsLine
    <3> QED  BY <1>7, <2>1, <3>1
  <2>9. c \o z \in Seq(Chars) /\ w \o (c \o z) \in Seq(Chars) /\ b \o (w \o (c \o z)) \in Seq(Chars)
    BY <1>3, <2>1, <2>2, JoinType
  <2>10. x \o end = d \o (a \o (b \o (w \o (c \o z))))
    BY <2>4, <2>5
  <2>11. x \o end \in Seq(Chars)
    BY <1>2, <1>4, JoinType
  <2>12. r # Len(q) + 1
    BY <1>1, <1>10
  <2>13. FromRule(file, i, r + 1) = z /\ AfterColon(file, i, r) = b \o (w \o (c \o z))
    BY <1>5, <1>6 DEF z
  <2>14. FromRule(file, i, r) = d \o (a \o AfterColon(file, i, r))
    BY <1>5, <2>10, <2>13
  <2> QED  BY <1>5, <2>1, <2>2, <2>9, <2>11, <2>12, <2>13, <2>14 DEF q, w, d, a
<1> QED  BY <1>8, <1>9, <1>10

JoinsFour(d, a, b, c, z) == (d \o (a \o (b \o c))) \o z = d \o (a \o (b \o (c \o z)))

LEMMA JoinFour ==
    \A d, a, b, c, z \in Seq(Chars) : JoinsFour(d, a, b, c, z)
<1> SUFFICES ASSUME NEW d \in Seq(Chars), NEW a \in Seq(Chars), NEW b \in Seq(Chars),
                    NEW c \in Seq(Chars), NEW z \in Seq(Chars)
             PROVE  JoinsFour(d, a, b, c, z)
  OBVIOUS
<1>1. ASSUME NEW u \in Seq(Chars), NEW v \in Seq(Chars)
      PROVE  u \o v \in Seq(Chars) /\ (u \o v) \o z = u \o (v \o z)
  <2>1. u \o v \in Seq(Chars)
    BY ConcatProperties
  <2>2. (u \o v) \o z = u \o (v \o z)
    <3>1. JoinsThree(u, v, z)
      BY JoinThree
    <3> QED  BY <3>1 DEF JoinsThree
  <2> QED  BY <2>1, <2>2
<1> DEFINE l == b \o c
           m == a \o l
<1>3. l \in Seq(Chars) /\ l \o z = b \o (c \o z)
  BY <1>1
<1> HIDE DEF l
<1>4. m \in Seq(Chars) /\ m \o z = a \o (l \o z)
  BY <1>1, <1>3
<1> HIDE DEF m
<1>5. (d \o m) \o z = d \o (m \o z)
  BY <1>1, <1>4
<1>6. (d \o m) \o z = d \o (a \o (b \o (c \o z)))
  BY <1>3, <1>4, <1>5
<1> QED  BY <1>6 DEF m, l, JoinsFour

LEMMA FromAgentIs ==
    ASSUME NEW file \in Seq(Records), NEW i \in 1..Len(file),
           NEW k \in 1..Len(file[i].agents) + 1
    PROVE  /\ FromAgent(file, i, k) \in Seq(Chars)
           /\ k = Len(file[i].agents) + 1 =>
                FromAgent(file, i, k) = <<"\n">> \o FromRule(file, i, 1)
           /\ k <= Len(file[i].agents) =>
                /\ FromAgent(file, i, k) = <<" ">> \o (file[i].agents[k] \o FromAgent(file, i, k + 1))
                /\ FromAgent(file, i, k + 1) \in Seq(Chars)
                /\ file[i].agents[k] \in Seq(Chars)
                /\ file[i].agents[k] \o FromAgent(file, i, k + 1) \in Seq(Chars)
<1> DEFINE q == file[i].agents
           end == <<"\n">> \o FromRule(file, i, 1)
           b == <<" ">>
           x == TextsFrom(SpaceOf, q, k)
           y == TextsFrom(SpaceOf, q, k + 1)
           w == q[k]
<1>1. q \in Seq(Seq(Chars)) /\ Len(q) \in Nat /\ file[i].rules \in Seq(Seq(Chars))
  <2>1. file[i] \in Records
    OBVIOUS
  <2> QED  BY <2>1 DEF Records
<1>2. end \in Seq(Chars)
  <2>1. 1 \in 1..Len(file[i].rules) + 1
    BY <1>1
  <2>2. FromRule(file, i, 1) \in Seq(Chars)
    BY <2>1, FromRuleIs
  <2> QED  BY <2>2, CharsAre, JoinType
<1>3. b \in Seq(Chars)
  BY CharsAre
<1>4. /\ x \in Seq(Chars)
      /\ k = Len(q) + 1 => x = <<>>
      /\ k <= Len(q) => x = SpaceOf[w] \o y /\ w \in Seq(Chars) /\ y \in Seq(Chars)
  <2>1. HasTexts(Chars, Seq(Chars), SpaceOf, q)
    BY <1>1, SpacesOf
  <2>2. k \in 1..Len(q) + 1
    OBVIOUS
  <2> HIDE DEF q, x, y, w
  <2>3. SplitAt(Chars, Seq(Chars), SpaceOf, q, k)
    BY <2>1, <2>2, TextsSplit
  <2> QED  BY <2>3 DEF x, y, w, SplitAt
<1>5. FromAgent(file, i, k) = x \o end /\ FromAgent(file, i, k + 1) = y \o end
  BY DEF FromAgent
<1>7. w \in Seq(Chars) => SpaceOf[w] = b \o w
  BY DEF SpaceOf
<1>8. k \in Nat /\ (k <= Len(q) \/ k = Len(q) + 1)
  BY <1>1
<1> HIDE DEF q, end, b, x, y, w
<1>9. CASE k = Len(q) + 1
  <2>1. x \o end = end
    BY <1>2, <1>4, <1>9, ConcatEmptySeq
  <2>2. ~(k <= Len(q))
    BY <1>1, <1>9
  <2> QED  BY <1>2, <1>5, <1>9, <2>1, <2>2 DEF q, end
<1>10. CASE k <= Len(q)
  <2> DEFINE z == y \o end
  <2>1. x = SpaceOf[w] \o y /\ w \in Seq(Chars) /\ y \in Seq(Chars) /\ SpaceOf[w] = b \o w
    BY <1>4, <1>7, <1>10
  <2>2. z \in Seq(Chars)
    BY <1>2, <2>1, JoinType
  <2>3. b \o w \in Seq(Chars)
    BY <1>3, <2>1, JoinType
  <2>4. x \o end = (b \o w) \o z
    <3>1. SpaceOf[w] \in Seq(Chars)
      BY <2>1, <2>3
    <3>2. (SpaceOf[w] \o y) \o end = SpaceOf[w] \o (y \o end)
      <4>1. JoinsThree(SpaceOf[w], y, end)
        BY <1>2, <2>1, <3>1, JoinThree
      <4> QED  BY <4>1 DEF JoinsThree
    <3> QED  BY <2>1, <3>2
  <2> HIDE DEF z
  <2>5. (b \o w) \o z = b \o (w \o z)
    <3>1. JoinsThree(b, w, z)
      BY <1>3, <2>1, <2>2, JoinThree
    <3> QED  BY <3>1 DEF JoinsThree
  <2>6. w \o z \in Seq(Chars)
    BY <2>1, <2>2, JoinType
  <2>7. x \o end \in Seq(Chars)
    BY <1>2, <1>4, JoinType
  <2>8. k # Len(q) + 1
    BY <1>1, <1>10
  <2>9. FromAgent(file, i, k + 1) = z
    BY <1>5 DEF z
  <2>10. FromAgent(file, i, k) = b \o (w \o z)
    BY <1>5, <2>4, <2>5
  <2> QED  BY <1>5, <2>1, <2>2, <2>6, <2>7, <2>8, <2>9, <2>10 DEF q, w, b
<1> QED  BY <1>8, <1>9, <1>10

LEMMA RestIs ==
    ASSUME NEW file \in Seq(Records), NEW i \in 1..Len(file)
    PROVE  Rest(file, i) = IF file[i].agents = <<>> THEN FromRule(file, i, 1)
                           ELSE useragent \o (<<":">> \o FromAgent(file, i, 1))
<1> DEFINE r == file[i]
           end == Comment \o Rest(file, i + 1)
           a == IF r.agents = <<>> THEN <<>> ELSE Line(useragent, r.agents)
           b == TextsFrom(RuleOf, r.rules, 1)
           c == Comment
           y == Rest(file, i + 1)
           z == FromRule(file, i, 1)
<1>1. /\ r \in Records /\ r.agents \in Seq(Seq(Chars)) /\ r.rules \in Seq(Seq(Chars))
      /\ Len(file) \in Nat /\ Len(r.rules) \in Nat
  <2>1. r \in Records
    OBVIOUS
  <2> QED  BY <2>1 DEF Records
<1>2. Rest(file, i) = RecordOf[r] \o y /\ y \in Seq(Chars)
  <2>1. HasTexts(Chars, Records, RecordOf, file) /\ i \in 1..Len(file) + 1 /\ i <= Len(file)
    BY <1>1, RecordsOf
  <2>2. SplitAt(Chars, Records, RecordOf, file, i)
    BY <2>1, TextsSplit
  <2> QED  BY <2>1, <2>2 DEF SplitAt, Rest
<1>3. b = FlattenSeq([j \in DOMAIN r.rules |-> Line(disallow, <<r.rules[j]>>)]) /\ b \in Seq(Chars)
  <2> DEFINE q == r.rules
  <2>1. q \in Seq(Seq(Chars)) /\ SubSeq(q, 1, Len(q)) = q
    BY <1>1
  <2> HIDE DEF q
  <2>2. HasTexts(Chars, Seq(Chars), RuleOf, q)
    BY <2>1, RulesOf
  <2>3. Texts(RuleOf, q) \in Seq(Chars)
    BY <2>2, TextsType
  <2>4. FlattenSeq([j \in DOMAIN q |-> Line(disallow, <<q[j]>>)]) = Texts(RuleOf, q)
    BY <2>1, RulesOf
  <2>5. TextsFrom(RuleOf, q, 1) = Texts(RuleOf, q)
    BY <2>1 DEF TextsFrom
  <2> QED  BY <2>3, <2>4, <2>5 DEF q
<1>4. RecordOf[r] = (a \o b) \o c
  BY <1>1, <1>3 DEF RecordOf, RecordText
<1>5. z = b \o (c \o y)
  BY DEF FromRule
<1>6. c \in Seq(Chars)
  BY CharsAre
<1>7. r.agents # <<>> => a = useragent \o (<<":">> \o (Texts(SpaceOf, r.agents) \o <<"\n">>))
  BY <1>1, CharsAre, LineIs
<1>8. a \in Seq(Chars)
  <2>1. <<>> \in Seq(Chars)
    BY EmptySeq
  <2>2. Line(useragent, r.agents) \in Seq(Chars)
    BY <1>1, CharsAre, LineIs
  <2> QED  BY <2>1, <2>2
<1>9. FromAgent(file, i, 1) = Texts(SpaceOf, r.agents) \o (<<"\n">> \o z)
  <2>1. SubSeq(r.agents, 1, Len(r.agents)) = r.agents
    BY <1>1
  <2> QED  BY <2>1 DEF FromAgent, TextsFrom
<1>10. Texts(SpaceOf, r.agents) \in Seq(Chars)
  BY <1>1, CharsAre, LineIs
<1>14. r.agents = <<>> => a = <<>>
  OBVIOUS
<1> HIDE DEF r, a, b, c, y, z
<1>11. b \o (c \o y) \in Seq(Chars) /\ a \o b \in Seq(Chars) /\ c \o y \in Seq(Chars)
  BY <1>2, <1>3, <1>6, <1>8, JoinType
<1>12. ((a \o b) \o c) \o y = (a \o b) \o (c \o y)
  <2>1. JoinsThree(a \o b, c, y)
    BY <1>2, <1>6, <1>11, JoinThree
  <2> QED  BY <2>1 DEF JoinsThree
<1>13. (a \o b) \o (c \o y) = a \o (b \o (c \o y))
  <2>1. JoinsThree(a, b, c \o y)
    BY <1>3, <1>8, <1>11, JoinThree
  <2> QED  BY <2>1 DEF JoinsThree
<1>15. Rest(file, i) = a \o z
  BY <1>2, <1>4, <1>5, <1>12, <1>13
<1>16. z \in Seq(Chars)
  BY <1>5, <1>11
<1>17. CASE r.agents = <<>>
  <2>1. a \o z = z
    BY <1>14, <1>16, <1>17, ConcatEmptySeq
  <2> QED  BY <1>15, <1>17, <2>1 DEF r, z
<1>18. CASE r.agents # <<>>
  <2> DEFINE u == useragent
             v == <<":">>
             t == Texts(SpaceOf, r.agents)
             n == <<"\n">>
  <2>1. u \in Seq(Chars) /\ v \in Seq(Chars) /\ n \in Seq(Chars)
    BY CharsAre
  <2>2. t \in Seq(Chars) /\ a = u \o (v \o (t \o n)) /\ FromAgent(file, i, 1) = t \o (n \o z)
    BY <1>7, <1>9, <1>10, <1>18
  <2> HIDE DEF u, v, t, n
  <2>3. JoinsFour(u, v, t, n, z)
    BY <1>16, <2>1, <2>2, JoinFour
  <2>4. Rest(file, i) = u \o (v \o FromAgent(file, i, 1))
    BY <1>15, <2>2, <2>3 DEF JoinsFour
  <2> QED  BY <1>18, <2>4 DEF r, u, v
<1> QED  BY <1>17, <1>18

-----------------------------------------------------------------------------
(* The tokens of a robots.txt *)

\* Where the parser is in the text of a file, when it has read token tk: at
\* record i, at the line of rule r or after the last one, at the rule itself, at
\* name k.
AtRecord(file, i, tk) ==
    \/ i = Len(file) + 1 /\ tk.tok = NULL
    \/ /\ i \in 1..Len(file) /\ file[i].agents # <<>> /\ tk.tok = useragent
       /\ Has(Text(file), tk.pos, <<":">> \o FromAgent(file, i, 1))

AtRules(file, i, r, tk) ==
    \/ /\ r \in 1..Len(file[i].rules) /\ tk.tok = disallow
       /\ Has(Text(file), tk.pos, <<":">> \o AfterColon(file, i, r))
    \/ r = Len(file[i].rules) + 1 /\ AtRecord(file, i + 1, tk)

AtRule(file, i, r, tk) ==
    /\ r \in 1..Len(file[i].rules) /\ tk.tok = file[i].rules[r]
    /\ Has(Text(file), tk.pos, <<"\n">> \o FromRule(file, i, r + 1))

AtAgent(file, i, k, tk) ==
    /\ k \in 1..Len(file[i].agents) /\ tk.tok = file[i].agents[k]
    /\ Has(Text(file), tk.pos, FromAgent(file, i, k + 1))

LEMMA SeparatorsAre ==
    /\ " " \in Separators /\ ":" \in Separators /\ "\n" \in Separators
    /\ " " \in Chars /\ ":" \in Chars /\ "\n" \in Chars
<1>1. " " \in Separators /\ ":" \in Separators /\ "\n" \in Separators
  BY DEF Separators, Spaces
<1>2. " " \in Chars /\ ":" \in Chars /\ "\n" \in Chars
  BY RobotsAssumption DEF Spaces
<1> QED  BY <1>1, <1>2

LEMMA KeywordsRead == Reads(useragent) /\ Reads(disallow)
<1>1. "user-agent" \notin Separators /\ "disallow" \notin Separators
      /\ "user-agent" # "#" /\ "disallow" # "#"
  BY DEF Separators, Spaces
<1>2. \A c : Len(<<c>>) = 1 /\ <<c>>[1] = c /\ <<c>> # <<>> /\ DOMAIN <<c>> = 1..1
  OBVIOUS
<1>3. \A k \in 1..1 : k = 1
  OBVIOUS
<1>4. Reads(useragent)
  BY <1>1, <1>2, <1>3, CharsAre DEF Reads, useragent
<1>5. Reads(disallow)
  BY <1>1, <1>2, <1>3, CharsAre DEF Reads, disallow
<1> QED  BY <1>4, <1>5

LEMMA WordsRead ==
    ASSUME NEW w, IsWord(w)
    PROVE  Reads(w) /\ w # NULL /\ ~Keyword(w)
BY DEF IsWord, Reads, Separators, NULL

LEMMA FilesAre ==
    ASSUME NEW file, WellWritten(file)
    PROVE  /\ file \in Seq(Records) /\ Len(file) \in Nat
           /\ \A i \in 1..Len(file) :
                /\ file[i] \in Records
                /\ file[i].agents \in Seq(Seq(Chars)) /\ Len(file[i].agents) \in Nat
                /\ file[i].rules \in Seq(Seq(Chars)) /\ Len(file[i].rules) \in Nat
                /\ \A k \in 1..Len(file[i].agents) : IsWord(file[i].agents[k])
                /\ \A k \in 1..Len(file[i].rules) :
                     IsWord(file[i].rules[k]) /\ Plain(GoodToken(file[i].rules[k]))
                /\ i > 1 => file[i].agents # <<>>
<1>1. file \in Seq(Records) /\ Len(file) \in Nat /\ DOMAIN file = 1..Len(file)
  BY DEF WellWritten, Records
<1>2. ASSUME NEW i \in 1..Len(file)
      PROVE  /\ file[i] \in Records
             /\ file[i].agents \in Seq(Seq(Chars)) /\ Len(file[i].agents) \in Nat
             /\ file[i].rules \in Seq(Seq(Chars)) /\ Len(file[i].rules) \in Nat
             /\ DOMAIN file[i].agents = 1..Len(file[i].agents)
             /\ DOMAIN file[i].rules = 1..Len(file[i].rules)
  <2>1. file[i] \in Records
    BY <1>1
  <2>2. file[i].agents \in Seq(Seq(Chars)) /\ file[i].rules \in Seq(Seq(Chars))
    BY <2>1 DEF Records
  <2> QED  BY <2>1, <2>2
<1>3. ASSUME NEW i \in 1..Len(file)
      PROVE  /\ \A k \in 1..Len(file[i].agents) : IsWord(file[i].agents[k])
             /\ \A k \in 1..Len(file[i].rules) :
                  IsWord(file[i].rules[k]) /\ Plain(GoodToken(file[i].rules[k]))
             /\ i > 1 => file[i].agents # <<>>
  BY <1>1, <1>2 DEF WellWritten
<1> QED  BY <1>1, <1>2, <1>3

LEMMA ReadRecord ==
    ASSUME NEW file, WellWritten(file), NEW i \in 1..Len(file) + 1,
           i <= Len(file) => file[i].agents # <<>>,
           NEW p, Has(Text(file), p, Rest(file, i))
    PROVE  AtRecord(file, i, nextToken(Text(file), p))
<1>1. file \in Seq(Records) /\ Len(file) \in Nat
  BY FilesAre
<1>2. CASE i = Len(file) + 1
  <2>1. Has(Text(file), p, <<>>)
    BY <1>1, <1>2, RestType
  <2> QED  BY <1>2, <2>1, HasNothing DEF AtRecord
<1>3. CASE i \in 1..Len(file)
  <2> DEFINE x == FromAgent(file, i, 1)
             t == Text(file)
             tk == nextToken(t, p)
  <2>1. file[i].agents # <<>>
    BY <1>1, <1>3
  <2>2. x \in Seq(Chars)
    <3>1. 1 \in 1..Len(file[i].agents) + 1
      BY <1>3, FilesAre
    <3> QED  BY <1>1, <1>3, <3>1, FromAgentIs
  <2>3. Has(t, p, useragent \o (<<":">> \o x))
    BY <1>1, <1>3, <2>1, RestIs
  <2> HIDE DEF x, t
  <2>4. tk = [tok |-> useragent, pos |-> p + Len(useragent)] /\ Has(t, p + Len(useragent), <<":">> \o x)
    BY <2>2, <2>3, KeywordsRead, SeparatorsAre, HasWord
  <2>5. tk.tok = useragent /\ Has(t, tk.pos, <<":">> \o x)
    BY <2>4
  <2> QED  BY <1>3, <2>1, <2>5 DEF AtRecord, x, t
<1>4. i = Len(file) + 1 \/ i \in 1..Len(file)
  BY <1>1
<1> QED  BY <1>2, <1>3, <1>4

LEMMA ReadRules ==
    ASSUME NEW file, WellWritten(file), NEW i \in 1..Len(file),
           NEW r \in 1..Len(file[i].rules) + 1,
           NEW p, Has(Text(file), p, FromRule(file, i, r))
    PROVE  AtRules(file, i, r, nextToken(Text(file), p))
<1>1. file \in Seq(Records) /\ Len(file) \in Nat /\ Len(file[i].rules) \in Nat
      /\ i + 1 \in 1..Len(file) + 1 /\ i + 1 > 1
  BY FilesAre
<1> DEFINE t == Text(file)
           tk == nextToken(t, p)
<1>2. CASE r = Len(file[i].rules) + 1
  <2>1. FromRule(file, i, r) = Comment \o Rest(file, i + 1) /\ Rest(file, i + 1) \in Seq(Chars)
    BY <1>1, <1>2, FromRuleIs, RestType
  <2>2. Has(t, p, Comment \o Rest(file, i + 1))
    BY <2>1
  <2>3. tk = nextToken(t, p + 3) /\ Has(t, p + 3, Rest(file, i + 1))
    <3> DEFINE x == Rest(file, i + 1)
    <3> HIDE DEF x, t
    <3> QED  BY <2>1, <2>2, HasComment DEF x
  <2>4. i + 1 <= Len(file) => file[i + 1].agents # <<>>
    BY <1>1, FilesAre
  <2>5. AtRecord(file, i + 1, nextToken(t, p + 3))
    BY <1>1, <2>3, <2>4, ReadRecord
  <2> QED  BY <1>2, <2>3, <2>5 DEF AtRules
<1>3. CASE r \in 1..Len(file[i].rules)
  <2> DEFINE x == AfterColon(file, i, r)
  <2>1. FromRule(file, i, r) = disallow \o (<<":">> \o x) /\ x \in Seq(Chars)
    <3>1. file \in Seq(Records) /\ i \in 1..Len(file) /\ Len(file[i].rules) \in Nat
      BY <1>1
    <3>2. r \in 1..Len(file[i].rules) + 1 /\ r <= Len(file[i].rules)
      BY <1>3, <3>1
    <3> HIDE DEF x
    <3>3. /\ FromRule(file, i, r) = disallow \o (<<":">> \o AfterColon(file, i, r))
          /\ AfterColon(file, i, r) \in Seq(Chars)
      BY <3>1, <3>2, FromRuleIs
    <3> QED  BY <3>3 DEF x
  <2>2. Has(t, p, disallow \o (<<":">> \o x))
    BY <2>1
  <2> HIDE DEF x, t
  <2>3. tk = [tok |-> disallow, pos |-> p + Len(disallow)] /\ Has(t, p + Len(disallow), <<":">> \o x)
    BY <2>1, <2>2, KeywordsRead, SeparatorsAre, HasWord
  <2>4. tk.tok = disallow /\ Has(t, tk.pos, <<":">> \o x)
    BY <2>3
  <2> QED  BY <1>3, <2>4 DEF AtRules, x, t
<1>4. r = Len(file[i].rules) + 1 \/ r \in 1..Len(file[i].rules)
  BY <1>1
<1> QED  BY <1>2, <1>3, <1>4

\* After a name comes a separator.
LEMMA AgentStarts ==
    ASSUME NEW file \in Seq(Records), NEW i \in 1..Len(file),
           NEW k \in 1..Len(file[i].agents) + 1
    PROVE  \E c \in Chars : \E x \in Seq(Chars) :
             c \in Separators /\ FromAgent(file, i, k) = <<c>> \o x
<1>1. Len(file[i].agents) \in Nat /\ Len(file[i].rules) \in Nat
  <2>1. file[i] \in Records
    OBVIOUS
  <2> QED  BY <2>1 DEF Records
<1>2. k = Len(file[i].agents) + 1 \/ k <= Len(file[i].agents)
  BY <1>1
<1>3. CASE k = Len(file[i].agents) + 1
  <2> DEFINE x == FromRule(file, i, 1)
  <2>1. FromAgent(file, i, k) = <<"\n">> \o x
    BY <1>3, FromAgentIs
  <2>2. x \in Seq(Chars)
    <3>1. 1 \in 1..Len(file[i].rules) + 1
      BY <1>1
    <3> QED  BY <3>1, FromRuleIs
  <2> HIDE DEF x
  <2> QED  BY <2>1, <2>2, SeparatorsAre
<1>4. CASE k <= Len(file[i].agents)
  <2> DEFINE x == file[i].agents[k] \o FromAgent(file, i, k + 1)
  <2>1. FromAgent(file, i, k) = <<" ">> \o x /\ x \in Seq(Chars)
    BY <1>4, FromAgentIs
  <2> HIDE DEF x
  <2> QED  BY <2>1, SeparatorsAre
<1> QED  BY <1>2, <1>3, <1>4

LEMMA ReadAgents ==
    ASSUME NEW file, WellWritten(file), NEW i \in 1..Len(file),
           NEW k \in 1..Len(file[i].agents) + 1,
           NEW p, Has(Text(file), p, FromAgent(file, i, k))
    PROVE  \/ AtAgent(file, i, k, nextToken(Text(file), p))
           \/ k = Len(file[i].agents) + 1 /\ AtRules(file, i, 1, nextToken(Text(file), p))
<1> DEFINE t == Text(file)
           tk == nextToken(t, p)
<1>1. file \in Seq(Records) /\ Len(file[i].agents) \in Nat /\ Len(file[i].rules) \in Nat
      /\ 1 \in 1..Len(file[i].rules) + 1
  BY FilesAre
<1>2. k = Len(file[i].agents) + 1 \/ k \in 1..Len(file[i].agents)
  BY <1>1
<1>3. CASE k = Len(file[i].agents) + 1
  <2> DEFINE x == FromRule(file, i, 1)
  <2>1. x \in Seq(Chars)
    BY <1>1, FromRuleIs
  <2>2. Has(t, p, <<"\n">> \o x)
    BY <1>1, <1>3, FromAgentIs
  <2>3. tk = nextToken(t, p + 1) /\ Has(t, p + 1, x)
    <3> HIDE DEF x, t
    <3> QED  BY <2>1, <2>2, SeparatorsAre, HasSeparator
  <2>4. AtRules(file, i, 1, nextToken(t, p + 1))
    BY <1>1, <2>3, ReadRules
  <2> QED  BY <1>3, <2>3, <2>4
<1>4. CASE k \in 1..Len(file[i].agents)
  <2> DEFINE w == file[i].agents[k]
             z == FromAgent(file, i, k + 1)
  <2>1. FromAgent(file, i, k) = <<" ">> \o (w \o z) /\ w \o z \in Seq(Chars) /\ z \in Seq(Chars)
    <3>1. k <= Len(file[i].agents)
      BY <1>4
    <3> QED  BY <1>1, <3>1, FromAgentIs
  <2>2. Reads(w)
    <3>1. IsWord(file[i].agents[k])
      BY <1>4, FilesAre
    <3> QED  BY <3>1, WordsRead
  <2>3. \E c \in Chars : \E x \in Seq(Chars) : c \in Separators /\ z = <<c>> \o x
    <3>1. k + 1 \in 1..Len(file[i].agents) + 1
      BY <1>1, <1>4
    <3> QED  BY <1>1, <3>1, AgentStarts
  <2>4. Has(t, p, <<" ">> \o (w \o z))
    BY <2>1
  <2>5. tk = nextToken(t, p + 1) /\ Has(t, p + 1, w \o z)
    <3> DEFINE x == w \o z
    <3>1. x \in Seq(Chars) /\ Has(t, p, <<" ">> \o x)
      BY <2>1, <2>4
    <3> HIDE DEF x, t, z, w
    <3>2. nextToken(t, p) = nextToken(t, p + 1) /\ Has(t, p + 1, x)
      BY <3>1, SeparatorsAre, HasSeparator
    <3> QED  BY <3>2 DEF x
  <2> HIDE DEF w, z, t
  <2>6. PICK c \in Chars : \E x \in Seq(Chars) : c \in Separators /\ z = <<c>> \o x
    BY <2>3
  <2>7. PICK x \in Seq(Chars) : c \in Separators /\ z = <<c>> \o x
    BY <2>6
  <2>8. Has(t, p + 1, w \o (<<c>> \o x))
    BY <2>5, <2>7
  <2>9. /\ nextToken(t, p + 1) = [tok |-> w, pos |-> p + 1 + Len(w)]
        /\ Has(t, p + 1 + Len(w), <<c>> \o x)
    BY <2>2, <2>7, <2>8, HasWord
  <2>10. tk.tok = w /\ Has(t, tk.pos, z)
    BY <2>5, <2>7, <2>9
  <2> QED  BY <1>4, <2>10 DEF AtAgent, w, z, t
<1> QED  BY <1>2, <1>3, <1>4

\* The next token.
LEMMA NextAfterRecord ==
    ASSUME NEW file, WellWritten(file), NEW i, NEW tk, AtRecord(file, i, tk), tk.tok # NULL
    PROVE  /\ i \in 1..Len(file) /\ file[i].agents # <<>> /\ tk.tok = useragent
           /\ AtAgent(file, i, 1, nextToken(Text(file), tk.pos))
<1> DEFINE t == Text(file)
           p == tk.pos
           x == FromAgent(file, i, 1)
<1>1. i \in 1..Len(file) /\ file[i].agents # <<>> /\ tk.tok = useragent
      /\ Has(t, p, <<":">> \o x)
  BY DEF AtRecord
<1>2. /\ file \in Seq(Records) /\ file[i].agents \in Seq(Seq(Chars))
      /\ Len(file[i].agents) \in Nat
  BY <1>1, FilesAre
<1>3. 1 \in 1..Len(file[i].agents) + 1 /\ 1 # Len(file[i].agents) + 1
  BY <1>1, <1>2, EmptySeq
<1>4. x \in Seq(Chars)
  BY <1>1, <1>2, <1>3, FromAgentIs
<1>5. nextToken(t, p) = nextToken(t, p + 1) /\ Has(t, p + 1, x)
  <2> HIDE DEF x, t, p
  <2> QED  BY <1>1, <1>4, SeparatorsAre, HasSeparator
<1>6. AtAgent(file, i, 1, nextToken(t, p + 1))
  BY <1>1, <1>3, <1>5, ReadAgents
<1> QED  BY <1>1, <1>5, <1>6

LEMMA NextAfterAgent ==
    ASSUME NEW file, WellWritten(file), NEW i \in 1..Len(file), NEW k, NEW tk,
           AtAgent(file, i, k, tk)
    PROVE  \/ AtAgent(file, i, k + 1, nextToken(Text(file), tk.pos))
           \/ k = Len(file[i].agents) /\ AtRules(file, i, 1, nextToken(Text(file), tk.pos))
<1>1. k \in 1..Len(file[i].agents) /\ Has(Text(file), tk.pos, FromAgent(file, i, k + 1))
  BY DEF AtAgent
<1>2. Len(file[i].agents) \in Nat
  BY FilesAre
<1>3. k + 1 \in 1..Len(file[i].agents) + 1
      /\ (k + 1 = Len(file[i].agents) + 1 => k = Len(file[i].agents))
  BY <1>1, <1>2
<1> QED  BY <1>1, <1>3, ReadAgents

LEMMA NextAfterDisallow ==
    ASSUME NEW file, WellWritten(file), NEW i \in 1..Len(file), NEW r, NEW tk,
           AtRules(file, i, r, tk), tk.tok = disallow
    PROVE  AtRule(file, i, r, nextToken(Text(file), tk.pos))
<1> DEFINE t == Text(file)
           p == tk.pos
           w == file[i].rules[r]
           y == FromRule(file, i, r + 1)
           z == <<"\n">> \o y
           x == w \o z
<1>1. r \in 1..Len(file[i].rules) /\ Has(t, p, <<":">> \o AfterColon(file, i, r))
  <2>1. useragent # disallow /\ disallow # NULL
    <3>1. "user-agent" # "disallow"
      OBVIOUS
    <3>2. \A a, b : <<a>> = <<b>> => a = b
      OBVIOUS
    <3>3. \A a : <<a>> # <<>>
      OBVIOUS
    <3> QED  BY <3>1, <3>2, <3>3 DEF useragent, disallow, NULL
  <2> QED  BY <2>1 DEF AtRules, AtRecord
<1>2. file \in Seq(Records) /\ Len(file[i].rules) \in Nat /\ r \in 1..Len(file[i].rules) + 1
      /\ r <= Len(file[i].rules)
  <2>1. file \in Seq(Records) /\ Len(file[i].rules) \in Nat
    BY FilesAre
  <2> QED  BY <1>1, <2>1
<1>3. y \in Seq(Chars) /\ AfterColon(file, i, r) \in Seq(Chars)
  BY <1>2, FromRuleIs
<1>4. AfterColon(file, i, r) = <<" ">> \o x
  BY DEF AfterColon
<1>5. Reads(w) /\ w \in Seq(Chars)
  <2>1. IsWord(file[i].rules[r])
    BY <1>1, FilesAre
  <2> QED  BY <2>1, WordsRead DEF Reads
<1>6. nextToken(t, p) = nextToken(t, p + 1) /\ Has(t, p + 1, <<" ">> \o x)
  <2>1. Has(t, p, <<":">> \o AfterColon(file, i, r)) /\ AfterColon(file, i, r) \in Seq(Chars)
    BY <1>1, <1>3
  <2> DEFINE u == AfterColon(file, i, r)
  <2> HIDE DEF u, t, p
  <2>2. u \in Seq(Chars) /\ Has(t, p, <<":">> \o u)
    BY <2>1 DEF u
  <2>3. nextToken(t, p) = nextToken(t, p + 1) /\ Has(t, p + 1, u)
    BY <2>2, SeparatorsAre, HasSeparator
  <2> QED  BY <1>4, <2>3 DEF u
<1>7. z \in Seq(Chars) /\ x \in Seq(Chars)
  <2>1. z \in Seq(Chars)
    BY <1>3, CharsAre, JoinType
  <2> HIDE DEF z
  <2> QED  BY <1>5, <2>1, JoinType
<1> HIDE DEF x
<1>8. nextToken(t, p + 1) = nextToken(t, p + 1 + 1) /\ Has(t, p + 1 + 1, x)
  <2> HIDE DEF t, p
  <2> QED  BY <1>6, <1>7, SeparatorsAre, HasSeparator
<1>9. Has(t, p + 1 + 1, w \o (<<"\n">> \o y))
  BY <1>8 DEF x
<1>10. /\ nextToken(t, p + 1 + 1) = [tok |-> w, pos |-> p + 1 + 1 + Len(w)]
       /\ Has(t, p + 1 + 1 + Len(w), <<"\n">> \o y)
  <2> HIDE DEF t, p, w, y
  <2> QED  BY <1>3, <1>5, <1>9, SeparatorsAre, HasWord
<1>11. nextToken(t, p) = [tok |-> w, pos |-> p + 1 + 1 + Len(w)]
  BY <1>6, <1>8, <1>10
<1> DEFINE n == nextToken(t, p)
<1>12. n.tok = w /\ Has(t, n.pos, <<"\n">> \o y)
  BY <1>10, <1>11
<1> QED  BY <1>1, <1>12 DEF AtRule

LEMMA NextAfterRule ==
    ASSUME NEW file, WellWritten(file), NEW i \in 1..Len(file), NEW r, NEW tk,
           AtRule(file, i, r, tk)
    PROVE  AtRules(file, i, r + 1, nextToken(Text(file), tk.pos))
<1> DEFINE t == Text(file)
           p == tk.pos
           y == FromRule(file, i, r + 1)
<1>1. r \in 1..Len(file[i].rules) /\ Has(t, p, <<"\n">> \o y)
  BY DEF AtRule
<1>2. file \in Seq(Records) /\ Len(file[i].rules) \in Nat
  BY FilesAre
<1>3. r + 1 \in 1..Len(file[i].rules) + 1
  BY <1>1, <1>2
<1>4. y \in Seq(Chars)
  BY <1>2, <1>3, FromRuleIs
<1>5. nextToken(t, p) = nextToken(t, p + 1) /\ Has(t, p + 1, y)
  <2> HIDE DEF t, p, y
  <2> QED  BY <1>1, <1>4, SeparatorsAre, HasSeparator
<1>6. AtRules(file, i, r + 1, nextToken(t, p + 1))
  BY <1>3, <1>5, ReadRules
<1> QED  BY <1>5, <1>6

-----------------------------------------------------------------------------
(* The rules of a record *)

LEMMA FirstJoined ==
    ASSUME NEW v \in Seq(Chars), NEW u \in Seq(Chars), Len(v) = 1
    PROVE  v \o u \in Seq(Chars) /\ Len(v \o u) > 0 /\ (v \o u)[1] = v[1]
<1>1. /\ v \o u \in Seq(Chars) /\ Len(v \o u) = Len(v) + Len(u)
      /\ \A i \in 1..Len(v) + Len(u) : (v \o u)[i] = IF i <= Len(v) THEN v[i] ELSE u[i - Len(v)]
  BY ConcatProperties
<1>2. 1 \in 1..Len(v) + Len(u) /\ Len(v) + Len(u) > 0
  OBVIOUS
<1> QED  BY <1>1, <1>2

\* A rule is forbidden as it is meant.
LEMMA RuleMeans ==
    ASSUME NEW w, IsWord(w), Plain(GoodToken(w))
    PROVE  fileNormalize(GoodToken(w)) = Meant(GoodToken(w)) /\ Rooted(GoodToken(w))
<1> DEFINE f == GoodToken(w)
<1>1. w \in Seq(Chars) /\ w # <<>>
  BY DEF IsWord
<1>2. Tail(w) \in Seq(Chars) /\ Head(w) = w[1] /\ Len(w) \in Nat /\ Len(w) > 0
  BY <1>1, EmptySeq
<1>3. "/" \in Chars /\ <<"/">> \in Seq(Chars) /\ Len(<<"/">>) = 1 /\ <<"/">>[1] = "/"
  BY UrlsAssumption
<1>4. \A u \in Seq(Chars) : /\ <<"/">> \o u \in Seq(Chars) /\ Len(<<"/">> \o u) > 0
                            /\ (<<"/">> \o u)[1] = "/"
  <2>1. \A v, u \in Seq(Chars) : Len(v) = 1 =>
           v \o u \in Seq(Chars) /\ Len(v \o u) > 0 /\ (v \o u)[1] = v[1]
    BY FirstJoined
  <2> QED  BY <1>3, <2>1
<1>5. f \in Seq(Chars) /\ Len(f) > 0 /\ f[1] = "/"
  <2>1. CASE Head(w) = "*"
    BY <1>2, <1>4, <2>1 DEF GoodToken
  <2>2. CASE Head(w) = "/"
    <3>1. "/" # "*"
      OBVIOUS
    <3>2. f = w
      BY <2>2, <3>1 DEF GoodToken
    <3> HIDE DEF f
    <3> QED  BY <1>1, <1>2, <2>2, <3>2
  <2>3. CASE Head(w) # "*" /\ Head(w) # "/"
    BY <1>1, <1>4, <2>3 DEF GoodToken
  <2> QED  BY <2>1, <2>2, <2>3
<1>6. Rooted(f)
  <2> HIDE DEF f
  <2> QED  BY <1>5, RootedIs
<1> QED  BY <1>6, NormalizeMeans

\* What a rule adds to the forbidden files.
KeptOf(A) == [w \in A |-> IF Meant(GoodToken(w)) = NULL THEN <<>> ELSE <<Meant(GoodToken(w))>>]

\* What the rules of a set mean.
MeaningsOf(A) == {Meant(GoodToken(w)) : w \in A}

\* As many rules as count.
Limit(n) == IF n < maxRobotsItem THEN n ELSE maxRobotsItem

LEMMA KeptHas ==
    ASSUME NEW A, NEW q \in Seq(A)
    PROVE  HasTexts(MeaningsOf(A), A, KeptOf(A), q)
<1>1. ASSUME NEW w \in A PROVE KeptOf(A)[w] \in Seq(MeaningsOf(A))
  <2> DEFINE m == Meant(GoodToken(w))
  <2>1. m \in MeaningsOf(A)
    BY DEF MeaningsOf
  <2>2. KeptOf(A)[w] = IF m = NULL THEN <<>> ELSE <<m>>
    BY DEF KeptOf
  <2> HIDE DEF m
  <2>3. <<m>> \in Seq(MeaningsOf(A)) /\ <<>> \in Seq(MeaningsOf(A))
    BY <2>1
  <2> QED  BY <2>2, <2>3
<1>2. KeptOf(A) = [w \in A |-> KeptOf(A)[w]]
  BY DEF KeptOf
<1> QED  BY <1>1, <1>2 DEF HasTexts

LEMMA RulesMeantIs ==
    ASSUME NEW A, NEW q \in Seq(A)
    PROVE  /\ Limit(Len(q)) \in Nat /\ Limit(Len(q)) <= Len(q)
           /\ SubSeq(q, 1, Limit(Len(q))) \in Seq(A)
           /\ RulesMeant(q) = Texts(KeptOf(A), SubSeq(q, 1, Limit(Len(q))))
           /\ RulesMeant(q) \in Seq(MeaningsOf(A))
<1> DEFINE n == Limit(Len(q))
           first == SubSeq(q, 1, n)
           meant == [i \in DOMAIN first |-> Meant(GoodToken(first[i]))]
<1>1. Len(q) \in Nat /\ maxRobotsItem \in Nat
  BY RobotsAssumption
<1>2. n \in Nat /\ n <= Len(q)
  BY <1>1 DEF Limit
<1>3. first \in Seq(A)
  BY <1>2, FirstOf
<1>4. RulesMeant(q) = FlattenSeq([i \in DOMAIN meant |-> IF meant[i] = NULL THEN <<>> ELSE <<meant[i]>>])
  BY DEF RulesMeant, Limit
<1>5. [i \in DOMAIN meant |-> IF meant[i] = NULL THEN <<>> ELSE <<meant[i]>>] = TextSeq(KeptOf(A), first)
  <2> HIDE DEF first
  <2>1. DOMAIN meant = DOMAIN first
    OBVIOUS
  <2>2. \A i \in DOMAIN first : first[i] \in A
    BY <1>3
  <2>3. ASSUME NEW i \in DOMAIN first
        PROVE  (IF meant[i] = NULL THEN <<>> ELSE <<meant[i]>>) = KeptOf(A)[first[i]]
    <3>1. first[i] \in A /\ meant[i] = Meant(GoodToken(first[i]))
      BY <2>2
    <3> QED  BY <3>1 DEF KeptOf
  <2> HIDE DEF meant
  <2> QED  BY <2>1, <2>3 DEF TextSeq
<1>6. RulesMeant(q) = Texts(KeptOf(A), first)
  BY <1>4, <1>5 DEF Texts
<1>7. Texts(KeptOf(A), first) \in Seq(MeaningsOf(A))
  <2> HIDE DEF first
  <2> QED  BY <1>3, KeptHas, TextsType
<1> QED  BY <1>2, <1>3, <1>6, <1>7

LEMMA RulesMeantNone == RulesMeant(<<>>) = <<>>
<1>1. <<>> \in Seq(Nat) /\ Len(<<>>) = 0
  OBVIOUS
<1>2. maxRobotsItem \in Nat
  BY RobotsAssumption
<1>3. Limit(0) = 0
  BY <1>2 DEF Limit
<1>4. SubSeq(<<>>, 1, 0) = <<>>
  OBVIOUS
<1>5. RulesMeant(<<>>) = Texts(KeptOf(Nat), SubSeq(<<>>, 1, Limit(Len(<<>>))))
  BY <1>1, RulesMeantIs
<1> QED  BY <1>1, <1>3, <1>4, <1>5, TextsOfNone

LEMMA RulesMeantAppend ==
    ASSUME NEW A, NEW q \in Seq(A), NEW w \in A
    PROVE  RulesMeant(Append(q, w)) =
             IF Limit(Len(q)) < maxRobotsItem /\ Meant(GoodToken(w)) # NULL
             THEN Append(RulesMeant(q), Meant(GoodToken(w))) ELSE RulesMeant(q)
<1> DEFINE s == Append(q, w)
           first == SubSeq(q, 1, Limit(Len(q)))
           more == SubSeq(s, 1, Limit(Len(s)))
           m == Meant(GoodToken(w))
<1>1. Len(q) \in Nat /\ maxRobotsItem \in Nat
  BY RobotsAssumption
<1>2. s \in Seq(A) /\ Len(s) = Len(q) + 1
      /\ \A i \in 1..Len(q) : s[i] = q[i]
      /\ s[Len(q) + 1] = w
  BY <1>1, AppendProperties
<1>3. /\ Limit(Len(q)) \in Nat /\ Limit(Len(q)) <= Len(q) /\ first \in Seq(A)
      /\ RulesMeant(q) = Texts(KeptOf(A), first) /\ RulesMeant(q) \in Seq(MeaningsOf(A))
  BY RulesMeantIs
<1> HIDE DEF s
<1>4. RulesMeant(s) = Texts(KeptOf(A), more) /\ more \in Seq(A)
  BY <1>2, RulesMeantIs
<1>5. CASE Limit(Len(q)) < maxRobotsItem
  <2>1. Limit(Len(q)) = Len(q) /\ Limit(Len(s)) = Len(q) + 1
    BY <1>1, <1>2, <1>5 DEF Limit
  <2>2. first = q /\ more = s
    BY <1>2, <2>1
  <2>3. Texts(KeptOf(A), s) = Texts(KeptOf(A), q) \o KeptOf(A)[w]
    <3>1. HasTexts(MeaningsOf(A), A, KeptOf(A), q)
      BY KeptHas
    <3> QED  BY <3>1, TextsAppend DEF s
  <2>4. KeptOf(A)[w] = IF m = NULL THEN <<>> ELSE <<m>>
    BY DEF KeptOf
  <2>5. m \in MeaningsOf(A)
    BY DEF MeaningsOf
  <2> HIDE DEF m
  <2>6. RulesMeant(s) = RulesMeant(q) \o (IF m = NULL THEN <<>> ELSE <<m>>)
    BY <1>3, <1>4, <2>2, <2>3, <2>4
  <2>7. RulesMeant(q) \o <<>> = RulesMeant(q) /\ RulesMeant(q) \o <<m>> = Append(RulesMeant(q), m)
    BY <1>3, <2>5, ConcatEmptySeq, AppendIsConcat
  <2> QED  BY <1>5, <2>6, <2>7 DEF s, m
<1>6. CASE ~(Limit(Len(q)) < maxRobotsItem)
  <2>1. Limit(Len(q)) = maxRobotsItem /\ Limit(Len(s)) = maxRobotsItem /\ maxRobotsItem <= Len(q)
    BY <1>1, <1>2, <1>6 DEF Limit
  <2>2. first = more
    <3>1. maxRobotsItem <= Len(s)
      BY <1>1, <1>2, <2>1
    <3> DEFINE k == maxRobotsItem
               a == SubSeq(q, 1, k)
               b == SubSeq(s, 1, k)
    <3>2. a \in Seq(A) /\ Len(a) = k /\ \A i \in 1..k : a[i] = q[i]
      BY <1>1, <2>1, FirstOf
    <3>3. b \in Seq(A) /\ Len(b) = k /\ \A i \in 1..k : b[i] = s[i]
      BY <1>1, <1>2, <3>1, FirstOf
    <3>4. \A i \in 1..k : i \in 1..Len(q)
      BY <1>1, <2>1
    <3> HIDE DEF a, b, k
    <3>5. \A i \in 1..Len(a) : a[i] = b[i]
      BY <1>2, <3>2, <3>3, <3>4
    <3>6. a = b
      BY <3>2, <3>3, <3>5, SeqEqual
    <3> QED  BY <2>1, <3>6 DEF a, b, k
  <2> QED  BY <1>3, <1>4, <1>6, <2>2 DEF s
<1> QED  BY <1>5, <1>6

-----------------------------------------------------------------------------
(* The record that concerns the program *)

Star == <<"*">>

\* The records that may be the one of the program.
Concerned(file, j) ==
    \/ j \in NamingUs(file) \/ j \in NamingAll(file)
    \/ j \in DOMAIN file /\ file[j].agents = <<>>

\* Of the first i records, of which only the last may name the program, b is the
\* one whose rules are held; 0 if there is none.
IsBest(file, b, i) ==
    /\ b \in 0..i
    /\ b # 0 => Concerned(file, b)
    /\ \A j \in (b + 1)..i : ~Concerned(file, j)
    /\ \A j \in 1..(i - 1) : j \notin NamingUs(file)

RulesUpTo(file, b) == IF b = 0 THEN <<>> ELSE file[b].rules

LEMMA ConcerningIs ==
    ASSUME NEW file, WellWritten(file), NEW i \in 0..Len(file), NEW b, IsBest(file, b, i),
           i = Len(file) \/ i \in NamingUs(file)
    PROVE  Rules(file) = RulesUpTo(file, b)
<1> DEFINE strong == NamingUs(file)
           weak == NamingAll(file)
           n == Len(file)
<1>1. n \in Nat /\ DOMAIN file = 1..n /\ i \in Nat /\ i <= n /\ file \in Seq(Records)
  BY FilesAre
<1>2. strong \subseteq 1..n /\ weak \subseteq 1..n
  BY <1>1 DEF NamingUs, NamingAll
<1>3. Concerning(file) = IF strong # {} THEN Min(strong) ELSE IF weak # {} THEN Max(weak)
                         ELSE IF file # <<>> /\ file[1].agents = <<>> THEN 1 ELSE 0
  BY DEF Concerning, Star
<1>4. /\ b \in 0..i /\ b \in Nat
      /\ b # 0 => Concerned(file, b)
      /\ \A j \in (b + 1)..i : ~Concerned(file, j)
      /\ \A j \in 1..(i - 1) : j \notin strong
  BY DEF IsBest
<1> HIDE DEF strong, weak, n
<1>5. \A j : j \in strong \/ j \in weak => Concerned(file, j)
  BY DEF Concerned, strong, weak
<1>6. Concerning(file) = b
  <2>1. CASE i \in strong
    <3>1. Min(strong) \in strong /\ \A k \in strong : Min(strong) <= k
      <4>1. strong \in SUBSET Nat /\ strong # {}
        BY <1>1, <1>2, <2>1
      <4> QED  BY <4>1, MinIs
    <3>2. Min(strong) = i
      <4> DEFINE k == Min(strong)
      <4> HIDE DEF k
      <4>1. k \in strong /\ k <= i /\ k \in 1..n
        BY <1>2, <2>1, <3>1 DEF k
      <4>2. ~(k < i)
        <5>1. k < i => k \in 1..(i - 1)
          BY <1>1, <4>1
        <5> QED  BY <1>4, <4>1, <5>1
      <4>3. k = i
        BY <1>1, <4>1, <4>2
      <4> QED  BY <4>3 DEF k
    <3>3. b = i
      <4>1. b < i => i \in (b + 1)..i
        BY <1>1, <1>4
      <4> QED  BY <1>1, <1>4, <1>5, <2>1, <4>1
    <3> QED  BY <1>3, <2>1, <3>2, <3>3
  <2>2. CASE i \notin strong /\ i = n
    <3>1. strong = {}
      <4>1. \A j \in 1..n : j = i \/ j \in 1..(i - 1)
        BY <1>1, <2>2
      <4> QED  BY <1>2, <1>4, <2>2, <4>1
    <3>2. \A j \in 1..n : Concerned(file, j) => j <= b
      <4>1. \A j \in 1..n : j <= b \/ j \in (b + 1)..i
        BY <1>1, <1>4, <2>2
      <4> QED  BY <1>4, <4>1
    <3>3. b # 0 => b \in 1..n /\ Concerned(file, b)
      BY <1>1, <1>4
    <3>4. CASE weak # {}
      <4>1. Max(weak) \in weak /\ \A k \in weak : k <= Max(weak)
        <5>1. weak \in SUBSET (0..n)
          BY <1>1, <1>2
        <5> QED  BY <1>1, <3>4, <5>1, MaxIs
      <4> DEFINE k == Max(weak)
      <4> HIDE DEF k
      <4>2. k \in weak /\ k \in 1..n /\ k <= b /\ \A j \in weak : j <= k
        BY <1>2, <1>5, <3>2, <4>1 DEF k
      <4>3. b # 0 /\ b \in 1..n
        BY <1>1, <1>4, <3>3, <4>2
      <4>4. b \in weak
        <5>1. b \in weak \/ (b \in strong) \/ file[b].agents = <<>>
          BY <3>3, <4>3 DEF Concerned, strong, weak
        <5>2. CASE file[b].agents = <<>>
          <6>1. ~(b > 1)
            BY <4>3, <5>2, FilesAre DEF n
          <6>2. k = b
            BY <1>1, <1>4, <4>2, <4>3, <6>1
          <6> QED  BY <4>2, <6>2
        <5> QED  BY <3>1, <5>1, <5>2
      <4>5. k = b
        BY <1>1, <4>2, <4>3, <4>4
      <4> QED  BY <1>3, <3>1, <3>4, <4>5 DEF k
    <3>5. CASE weak = {}
      <4>1. CASE file # <<>> /\ file[1].agents = <<>>
        <5>1. 1 \in 1..n
          <6>1. Len(file) # 0
            BY <1>1, <4>1, EmptySeq
          <6>2. n # 0
            BY <6>1 DEF n
          <6> QED  BY <1>1, <6>2
        <5>2. Concerned(file, 1)
          BY <1>1, <4>1, <5>1 DEF Concerned, n
        <5>3. 1 <= b
          BY <3>2, <5>1, <5>2
        <5>4. b # 0 /\ b \in 1..n
          BY <1>4, <3>3, <5>3
        <5>5. file[b].agents = <<>>
          BY <3>1, <3>3, <3>5, <5>4 DEF Concerned, strong, weak
        <5>6. ~(b > 1)
          BY <5>4, <5>5, FilesAre DEF n
        <5>7. b = 1
          BY <1>4, <5>3, <5>6
        <5> QED  BY <1>3, <3>1, <3>5, <4>1, <5>7
      <4>2. CASE ~(file # <<>> /\ file[1].agents = <<>>)
        <5>1. b = 0
          <6>1. SUFFICES ASSUME b # 0 PROVE FALSE
            OBVIOUS
          <6>2. b \in 1..n /\ file[b].agents = <<>>
            BY <3>1, <3>3, <3>5, <6>1 DEF Concerned, strong, weak
          <6>3. ~(b > 1)
            BY <6>2, FilesAre DEF n
          <6>4. b = 1 /\ n # 0
            BY <1>1, <6>2, <6>3
          <6>5. file # <<>>
            BY <6>4 DEF n
          <6> QED  BY <4>2, <6>2, <6>4, <6>5
        <5> QED  BY <1>3, <3>1, <3>5, <4>2, <5>1
      <4> QED  BY <4>1, <4>2
    <3> QED  BY <3>4, <3>5
  <2> QED  BY <2>1, <2>2 DEF strong, n
<1> QED  BY <1>6 DEF Rules, RulesUpTo

-----------------------------------------------------------------------------
(* The parser *)

\* The last token, and where it ends.
Tk == [tok |-> tok, pos |-> posParse]

\* The rules that count are those of q.
Held(q) == forbidden = RulesMeant(q) /\ items = Limit(Len(q))

\* After i records, b is the best.
Between(file, i, b) ==
    /\ i \in 0..Len(file) /\ IsBest(file, b, i) /\ Held(RulesUpTo(file, b))
    /\ concern = 2 <=> i \in NamingUs(file)
    /\ AtRecord(file, i + 1, Tk)

\* In record i, which concerns the program, before rule r.
Within(file, i, r) ==
    /\ i \in 1..Len(file) /\ IsBest(file, i, i)
    /\ r \in 1..Len(file[i].rules) + 1 /\ Held(SubSeq(file[i].rules, 1, r - 1))
    /\ concern # 0 /\ (concern = 2 <=> i \in NamingUs(file))

\* In record i, after k of its names.
InNames(file, i, b, k) ==
    /\ i \in 1..Len(file) /\ file[i].agents # <<>>
    /\ IsBest(file, b, i - 1) /\ i - 1 \notin NamingUs(file) /\ Held(RulesUpTo(file, b))
    /\ k \in 0..Len(file[i].agents)
    /\ concern = 2 <=> \E a \in 1..k : Ours(file[i].agents[a])
    /\ concern = 0 <=> \A a \in 1..k : ~Ours(file[i].agents[a]) /\ file[i].agents[a] # Star
    /\ \/ AtAgent(file, i, k + 1, Tk)
       \/ k = Len(file[i].agents) /\ AtRules(file, i, 1, Tk)

\* In record i, which does not concern the program.
Skipping(file, i, b, r) ==
    /\ i \in 1..Len(file) /\ IsBest(file, b, i) /\ b # i /\ Held(RulesUpTo(file, b))
    /\ concern = 0
    /\ AtRules(file, i, r, Tk) \/ AtRule(file, i, r, Tk)

Parsing(file) ==
    \/ where = "main" /\ \E i, b : Between(file, i, b)
    \/ where = "main" /\ \E i, r : Within(file, i, r) /\ AtRules(file, i, r, Tk)
    \/ where = "agents" /\ \E i, b, k : InNames(file, i, b, k)
    \/ where = "skip" /\ \E i, b, r : Skipping(file, i, b, r)
    \/ where = "disallow" /\ \E i, r : /\ Within(file, i, r)
                                       /\ AtRules(file, i, r, Tk) \/ AtRule(file, i, r, Tk)

\* Nothing is left of a text that did not come whole.
CutShort == ~asked.whole /\ tok = NULL

\* The text is that of the file, or a part.
Reading(file) ==
    \/ asked.whole /\ text = Text(file)
    \/ ~asked.whole /\ \E n, last : IsCut(Text(file), n, text, last)

LEMMA TokensDiffer ==
    /\ NULL # useragent /\ NULL # disallow /\ useragent # disallow
    /\ \A t : Keyword(t) <=> t = useragent \/ t = disallow
<1>1. "user-agent" # "disallow"
  OBVIOUS
<1>2. \A a, b : <<a>> = <<b>> => a = b
  OBVIOUS
<1>3. \A a : <<a>> # <<>>
  OBVIOUS
<1>4. NULL # useragent /\ NULL # disallow /\ useragent # disallow
  BY <1>1, <1>2, <1>3 DEF useragent, disallow, NULL
<1> QED  BY <1>4 DEF Keyword

LEMMA TokensAre ==
    ASSUME NEW file, WellWritten(file), NEW tk
    PROVE  /\ \A i : AtRecord(file, i, tk) => tk.tok \in {NULL, useragent}
           /\ \A i, r : AtRules(file, i, r, tk) => tk.tok \in {NULL, useragent, disallow}
           /\ \A i \in 1..Len(file) : \A r : AtRule(file, i, r, tk) =>
                tk.tok # NULL /\ ~Keyword(tk.tok)
           /\ \A i \in 1..Len(file) : \A k : AtAgent(file, i, k, tk) =>
                tk.tok # NULL /\ ~Keyword(tk.tok)
<1>1. \A i : AtRecord(file, i, tk) => tk.tok \in {NULL, useragent}
  BY DEF AtRecord
<1>2. \A i, r : AtRules(file, i, r, tk) => tk.tok \in {NULL, useragent, disallow}
  BY <1>1 DEF AtRules
<1>3. ASSUME NEW i \in 1..Len(file), NEW r, AtRule(file, i, r, tk)
      PROVE  tk.tok # NULL /\ ~Keyword(tk.tok)
  <2>1. IsWord(tk.tok)
    BY <1>3, FilesAre DEF AtRule
  <2> QED  BY <2>1, WordsRead
<1>4. ASSUME NEW i \in 1..Len(file), NEW k, AtAgent(file, i, k, tk)
      PROVE  tk.tok # NULL /\ ~Keyword(tk.tok)
  <2>1. IsWord(tk.tok)
    BY <1>4, FilesAre DEF AtAgent
  <2> QED  BY <2>1, WordsRead
<1> QED  BY <1>1, <1>2, <1>3, <1>4

\* After the last rule of a record comes the next one.
LEMMA RulesEndAt ==
    ASSUME NEW file, WellWritten(file), NEW i \in 1..Len(file), NEW r, NEW tk,
           AtRules(file, i, r, tk), tk.tok # disallow
    PROVE  r = Len(file[i].rules) + 1 /\ AtRecord(file, i + 1, tk)
BY DEF AtRules

\* The token that is read next is the next one of the file, or the part has ended.
LEMMA NextTokIs ==
    ASSUME NEW file, WellWritten(file), Reading(file), NEW x, Has(Text(file), posParse, x),
           NextTok, UNCHANGED asked
    PROVE  Tk' = nextToken(Text(file), posParse) \/ CutShort'
<1>1. /\ tok' = nextToken(text, posParse).tok
      /\ posParse' = nextToken(text, posParse).pos
  BY DEF NextTok
<1>2. Tk' = nextToken(text, posParse)
  <2>1. \E w, k : nextToken(text, posParse) = [tok |-> w, pos |-> k]
    BY DEF nextToken
  <2>2. PICK w, k : nextToken(text, posParse) = [tok |-> w, pos |-> k]
    BY <2>1
  <2> QED  BY <1>1, <2>2 DEF Tk
<1>3. CASE asked.whole /\ text = Text(file)
  BY <1>2, <1>3
<1>4. CASE ~asked.whole /\ \E n, last : IsCut(Text(file), n, text, last)
  <2>1. PICK n, last : IsCut(Text(file), n, text, last)
    BY <1>4
  <2>2. posParse \in Nat /\ posParse > 0
    BY DEF Has
  <2>3. \/ nextToken(text, posParse).tok = NULL
        \/ nextToken(text, posParse) = nextToken(Text(file), posParse)
    BY <2>1, <2>2, CutToken
  <2> QED  BY <1>1, <1>2, <1>4, <2>3 DEF CutShort
<1> QED  BY <1>3, <1>4 DEF Reading

\* A token that is no end stands in the text.
LEMMA TokenHas ==
    ASSUME NEW file, WellWritten(file), NEW tk, tk.tok # NULL,
           \/ \E i : AtRecord(file, i, tk)
           \/ \E i, r : AtRules(file, i, r, tk) \/ AtRule(file, i, r, tk)
           \/ \E i, k : AtAgent(file, i, k, tk)
    PROVE  \E x : Has(Text(file), tk.pos, x)
BY DEF AtRecord, AtRules, AtRule, AtAgent

-----------------------------------------------------------------------------
(* One step of the parser *)

\* A record has been read, at main.
LEMMA MainBetween ==
    ASSUME NEW file, WellWritten(file), Parsing(file), where = "main", tok # disallow
    PROVE  \E i, b : Between(file, i, b)
<1>1. CASE \E i, b : Between(file, i, b)
  BY <1>1
<1>2. ASSUME NEW i, NEW r, Within(file, i, r), AtRules(file, i, r, Tk)
      PROVE  Between(file, i, i)
  <2>1. i \in 1..Len(file) /\ Len(file) \in Nat /\ i # 0
        /\ file[i].rules \in Seq(Seq(Chars)) /\ Len(file[i].rules) \in Nat
    <3>1. i \in 1..Len(file)
      BY <1>2 DEF Within
    <3> QED  BY <3>1, FilesAre
  <2>2. r = Len(file[i].rules) + 1 /\ AtRecord(file, i + 1, Tk)
    <3>1. Tk.tok # disallow
      BY DEF Tk
    <3> QED  BY <1>2, <2>1, <3>1, RulesEndAt
  <2>3. SubSeq(file[i].rules, 1, r - 1) = file[i].rules
    <3>1. r - 1 = Len(file[i].rules)
      BY <2>1, <2>2
    <3> QED  BY <2>1, <3>1
  <2>4. RulesUpTo(file, i) = file[i].rules
    BY <2>1 DEF RulesUpTo
  <2>5. i \in 0..Len(file)
    BY <2>1
  <2> QED  BY <1>2, <2>2, <2>3, <2>4, <2>5 DEF Within, Between
<1>3. \/ \E i, b : Between(file, i, b)
      \/ \E i, r : Within(file, i, r) /\ AtRules(file, i, r, Tk)
  BY DEF Parsing
<1> QED  BY <1>1, <1>2, <1>3

LEMMA UserAgentParses ==
    ASSUME NEW file, WellWritten(file), Reading(file), Parsing(file), UserAgent
    PROVE  Parsing(file)' \/ CutShort'
<1>1. /\ where = "main" /\ tok = useragent /\ concern # 2 /\ concern' = 0
      /\ where' = "agents" /\ NextTok /\ UNCHANGED <<text, asked, items, forbidden>>
  BY DEF UserAgent, Same
<1>2. PICK i, b : Between(file, i, b)
  <2>1. tok # disallow
    BY <1>1, TokensDiffer
  <2> QED  BY <1>1, <2>1, MainBetween
<1>3. /\ i \in 0..Len(file) /\ IsBest(file, b, i) /\ Held(RulesUpTo(file, b))
      /\ i \notin NamingUs(file) /\ AtRecord(file, i + 1, Tk)
  BY <1>1, <1>2 DEF Between
<1>4. Tk.tok = useragent /\ Tk.tok # NULL /\ Tk.pos = posParse
  BY <1>1, TokensDiffer DEF Tk
<1>5. /\ i + 1 \in 1..Len(file) /\ file[i + 1].agents # <<>>
      /\ AtAgent(file, i + 1, 1, nextToken(Text(file), posParse))
  BY <1>3, <1>4, NextAfterRecord
<1>6. PICK x : Has(Text(file), posParse, x)
  BY <1>3, <1>4, TokenHas
<1>7. Tk' = nextToken(Text(file), posParse) \/ CutShort'
  BY <1>1, <1>6, NextTokIs
<1>8. CASE Tk' = nextToken(Text(file), posParse)
  <2>1. AtAgent(file, i + 1, 0 + 1, Tk')
    BY <1>5, <1>8
  <2>2. /\ (i + 1) - 1 = i /\ 0 \in 0..Len(file[i + 1].agents)
    BY <1>3, <1>5, FilesAre
  <2>3. Held(RulesUpTo(file, b))'
    BY <1>1, <1>3 DEF Held
  <2>4. \A a \in 1..0 : FALSE
    OBVIOUS
  <2>5. InNames(file, i + 1, b, 0)'
    BY <1>1, <1>3, <1>5, <2>1, <2>2, <2>3, <2>4 DEF InNames
  <2> QED  BY <1>1, <2>5 DEF Parsing
<1> QED  BY <1>7, <1>8

LEMMA NamingIs ==
    ASSUME NEW file, WellWritten(file), NEW i \in 1..Len(file)
    PROVE  /\ i \in NamingUs(file) <=> \E a \in 1..Len(file[i].agents) : Ours(file[i].agents[a])
           /\ i \in NamingAll(file) <=> \E a \in 1..Len(file[i].agents) : file[i].agents[a] = Star
<1>1. i \in DOMAIN file /\ DOMAIN file[i].agents = 1..Len(file[i].agents)
  <2>1. file \in Seq(Records) /\ file[i].agents \in Seq(Seq(Chars))
    BY FilesAre
  <2> QED  BY <2>1
<1> QED  BY <1>1 DEF NamingUs, NamingAll, Star

LEMMA BestMore ==
    ASSUME NEW file, WellWritten(file), NEW i \in 1..Len(file), NEW b, IsBest(file, b, i - 1),
           i - 1 \notin NamingUs(file)
    PROVE  /\ Concerned(file, i) => IsBest(file, i, i)
           /\ ~Concerned(file, i) => IsBest(file, b, i) /\ b # i
<1>1. i \in Nat /\ i > 0
  BY FilesAre
<1>2. /\ b \in 0..(i - 1)
      /\ b # 0 => Concerned(file, b)
      /\ \A j \in (b + 1)..(i - 1) : ~Concerned(file, j)
      /\ \A j \in 1..((i - 1) - 1) : j \notin NamingUs(file)
  BY DEF IsBest
<1>3. \A j \in 1..(i - 1) : j \notin NamingUs(file)
  <2>1. \A j \in 1..(i - 1) : j = i - 1 \/ j \in 1..((i - 1) - 1)
    BY <1>1
  <2> QED  BY <1>2, <2>1
<1>4. Concerned(file, i) => IsBest(file, i, i)
  <2>1. (i + 1)..i = {} /\ i \in 0..i
    BY <1>1
  <2> QED  BY <1>3, <2>1 DEF IsBest
<1>5. ~Concerned(file, i) => IsBest(file, b, i) /\ b # i
  <2>1. b \in 0..i /\ b # i /\ \A j \in (b + 1)..i : j = i \/ j \in (b + 1)..(i - 1)
    BY <1>1, <1>2
  <2> QED  BY <1>2, <1>3, <2>1 DEF IsBest
<1> QED  BY <1>4, <1>5

\* caseContain finds the parts of the program's name.
LEMMA ContainsOurs ==
    ASSUME NEW w \in Seq(Chars)
    PROVE  caseContain(w, USERAGENT) <=> Ours(w)
<1> DEFINE U == Lowered(USERAGENT)
           L == Lowered(w)
           n == Len(USERAGENT)
           m == Len(w)
<1>1. /\ USERAGENT \in Seq(Chars) /\ Lower \in [Chars -> Chars]
      /\ n \in Nat /\ m \in Nat /\ DOMAIN USERAGENT = 1..n /\ DOMAIN w = 1..m
  BY RobotsAssumption
<1>2. /\ U \in Seq(Chars) /\ Len(U) = n /\ \A j \in 1..n : U[j] = Lower[USERAGENT[j]]
      /\ L \in Seq(Chars) /\ Len(L) = m /\ \A j \in 1..m : L[j] = Lower[w[j]]
  <2>1. U \in [1..n -> Chars] /\ L \in [1..m -> Chars]
    BY <1>1 DEF Lowered
  <2> QED  BY <1>1, <2>1, SeqDef DEF Lowered
<1> HIDE DEF U, L, n, m
<1>3. caseContain(w, USERAGENT) <=>
        \E i \in 0..n - m : \A j \in 1..m : Lower[w[j]] = Lower[USERAGENT[i + j]]
  BY DEF caseContain, n, m
<1>4. \A i \in 0..n - m : \A j \in 1..m :
        i + j \in 1..n /\ (Lower[w[j]] = Lower[USERAGENT[i + j]] <=> L[j] = U[i + j])
  <2>1. \A i \in 0..n - m : \A j \in 1..m : i + j \in 1..n
    BY <1>1
  <2> QED  BY <1>2, <2>1
<1>5. caseContain(w, USERAGENT) <=> \E i \in 0..n - m : \A j \in 1..m : L[j] = U[i + j]
  BY <1>3, <1>4
<1>6. Ours(w) <=> \E i \in 1..n + 1, k \in 0..n : L = SubSeq(U, i, k)
  BY DEF Ours, U, L, n
<1>7. \A i \in 1..n + 1, k \in 0..n :
        /\ SubSeq(U, i, k) \in Seq(Chars)
        /\ Len(SubSeq(U, i, k)) = IF i <= k THEN k - i + 1 ELSE 0
        /\ \A j \in 1..k - i + 1 : SubSeq(U, i, k)[j] = U[i + j - 1]
  <2> SUFFICES ASSUME NEW i \in 1..n + 1, NEW k \in 0..n
               PROVE  /\ SubSeq(U, i, k) \in Seq(Chars)
                      /\ Len(SubSeq(U, i, k)) = IF i <= k THEN k - i + 1 ELSE 0
                      /\ \A j \in 1..k - i + 1 : SubSeq(U, i, k)[j] = U[i + j - 1]
    OBVIOUS
  <2>1. CASE i <= k
    BY <1>1, <1>2, <2>1
  <2>2. CASE ~(i <= k)
    <3>1. SubSeq(U, i, k) = <<>> /\ 1..k - i + 1 = {}
      BY <1>1, <1>2, <2>2
    <3> QED  BY <2>2, <3>1
  <2> QED  BY <2>1, <2>2
<1>8. ASSUME NEW i \in 0..n - m, \A j \in 1..m : L[j] = U[i + j]
      PROVE  \E p \in 1..n + 1, k \in 0..n : L = SubSeq(U, p, k)
  <2>1. i + 1 \in 1..n + 1 /\ i + m \in 0..n /\ (i + m) - (i + 1) + 1 = m
        /\ (i + 1 <= i + m <=> m # 0)
    BY <1>1
  <2> DEFINE S == SubSeq(U, i + 1, i + m)
  <2>2. S \in Seq(Chars) /\ Len(S) = m /\ \A j \in 1..m : S[j] = U[(i + 1) + j - 1]
    BY <1>1, <1>7, <2>1
  <2> HIDE DEF S
  <2>3. \A j \in 1..m : S[j] = L[j]
    <3>1. \A j \in 1..m : (i + 1) + j - 1 = i + j
      BY <1>1
    <3> QED  BY <1>8, <2>2, <3>1
  <2>4. L = S
    BY <1>2, <2>2, <2>3, SeqEqual
  <2> QED  BY <2>1, <2>4 DEF S
<1>9. ASSUME NEW p \in 1..n + 1, NEW k \in 0..n, L = SubSeq(U, p, k)
      PROVE  \E i \in 0..n - m : \A j \in 1..m : L[j] = U[i + j]
  <2>1. CASE p <= k
    <3>1. m = k - p + 1 /\ p - 1 \in 0..n - m
      BY <1>1, <1>2, <1>7, <1>9, <2>1
    <3>2. \A j \in 1..m : L[j] = U[(p - 1) + j]
      <4>1. \A j \in 1..m : L[j] = U[p + j - 1]
        BY <1>7, <1>9, <3>1
      <4>2. \A j \in 1..m : p + j - 1 = (p - 1) + j
        BY <1>1
      <4> QED  BY <4>1, <4>2
    <3> QED  BY <3>1, <3>2
  <2>2. CASE ~(p <= k)
    <3>1. m = 0
      BY <1>2, <1>7, <1>9, <2>2
    <3>2. 0 \in 0..n - m /\ 1..m = {}
      BY <1>1, <3>1
    <3> QED  BY <3>2
  <2> QED  BY <2>1, <2>2
<1> QED  BY <1>5, <1>6, <1>8, <1>9

LEMMA AgentParses ==
    ASSUME NEW file, WellWritten(file), Reading(file), Parsing(file), Agent
    PROVE  Parsing(file)' \/ CutShort'
<1>1. /\ where = "agents" /\ tok # NULL /\ ~Keyword(tok)
      /\ concern' = IF caseContain(tok, USERAGENT) THEN 2
                    ELSE IF concern = 0 /\ tok = Star THEN 1 ELSE concern
      /\ NextTok /\ UNCHANGED <<text, asked, where, items, forbidden>>
  BY DEF Agent, Same, Star
<1>2. PICK i, b, k : InNames(file, i, b, k)
  BY <1>1 DEF Parsing
<1>3. /\ i \in 1..Len(file) /\ file[i].agents # <<>>
      /\ IsBest(file, b, i - 1) /\ i - 1 \notin NamingUs(file) /\ Held(RulesUpTo(file, b))
      /\ k \in 0..Len(file[i].agents)
      /\ concern = 2 <=> \E a \in 1..k : Ours(file[i].agents[a])
      /\ concern = 0 <=> \A a \in 1..k : ~Ours(file[i].agents[a]) /\ file[i].agents[a] # Star
  BY <1>2 DEF InNames
<1>4. Tk.tok = tok /\ Tk.pos = posParse
  BY DEF Tk
<1>5. AtAgent(file, i, k + 1, Tk)
  <2>1. \A r : ~AtRules(file, i, r, Tk)
    BY <1>1, <1>4, TokensAre, TokensDiffer
  <2> QED  BY <1>2, <2>1 DEF InNames
<1>6. k + 1 \in 1..Len(file[i].agents) /\ tok = file[i].agents[k + 1]
      /\ k \in Nat /\ Len(file[i].agents) \in Nat
  <2>1. Len(file[i].agents) \in Nat
    BY <1>3, FilesAre
  <2> QED  BY <1>3, <1>4, <1>5, <2>1 DEF AtAgent
<1>7. concern' = IF Ours(tok) THEN 2 ELSE IF concern = 0 /\ tok = Star THEN 1 ELSE concern
  <2>1. tok \in Seq(Chars)
    BY <1>3, <1>6, FilesAre
  <2> QED  BY <1>1, <2>1, ContainsOurs
<1>8. PICK x : Has(Text(file), posParse, x)
  BY <1>1, <1>4, <1>5, TokenHas
<1>9. Tk' = nextToken(Text(file), posParse) \/ CutShort'
  BY <1>1, <1>8, NextTokIs
<1>10. CASE Tk' = nextToken(Text(file), posParse)
  <2>1. \/ AtAgent(file, i, (k + 1) + 1, Tk')
        \/ k + 1 = Len(file[i].agents) /\ AtRules(file, i, 1, Tk')
    BY <1>3, <1>4, <1>5, <1>10, NextAfterAgent
  <2>2. Held(RulesUpTo(file, b))'
    BY <1>1, <1>3 DEF Held
  <2>3. \A a : a \in 1..(k + 1) <=> a \in 1..k \/ a = k + 1
    BY <1>6
  <2>4. concern' = 2 <=> \E a \in 1..(k + 1) : Ours(file[i].agents[a])
    <3>1. (\E a \in 1..(k + 1) : Ours(file[i].agents[a])) <=> concern = 2 \/ Ours(tok)
      BY <1>3, <1>6, <2>3
    <3>2. concern' = 2 <=> concern = 2 \/ Ours(tok)
      BY <1>7
    <3> QED  BY <3>1, <3>2
  <2>5. concern' = 0 <=>
          \A a \in 1..(k + 1) : ~Ours(file[i].agents[a]) /\ file[i].agents[a] # Star
    <3>1. (\A a \in 1..(k + 1) : ~Ours(file[i].agents[a]) /\ file[i].agents[a] # Star)
            <=> concern = 0 /\ ~Ours(tok) /\ tok # Star
      BY <1>3, <1>6, <2>3
    <3>2. concern' = 0 <=> concern = 0 /\ ~Ours(tok) /\ tok # Star
      BY <1>7
    <3> QED  BY <3>1, <3>2
  <2>6. k + 1 \in 0..Len(file[i].agents)
    BY <1>6
  <2>7. InNames(file, i, b, k + 1)'
    BY <1>3, <2>1, <2>2, <2>4, <2>5, <2>6 DEF InNames
  <2> QED  BY <1>1, <2>7 DEF Parsing
<1> QED  BY <1>9, <1>10

LEMMA LimitNone == Limit(Len(<<>>)) = 0
<1>1. Len(<<>>) = 0 /\ maxRobotsItem \in Nat
  BY RobotsAssumption
<1> QED  BY <1>1 DEF Limit

LEMMA AgentsEndParses ==
    ASSUME NEW file, WellWritten(file), Parsing(file), AgentsEnd
    PROVE  Parsing(file)'
<1>1. /\ where = "agents" /\ (tok = NULL \/ Keyword(tok))
      /\ UNCHANGED <<text, asked, posParse, tok, concern>>
      /\ concern # 0 => where' = "main" /\ forbidden' = <<>> /\ items' = 0
      /\ concern = 0 => where' = "skip" /\ UNCHANGED <<forbidden, items>>
  BY DEF AgentsEnd, Same
<1>2. PICK i, b, k : InNames(file, i, b, k)
  BY <1>1 DEF Parsing
<1>3. /\ i \in 1..Len(file) /\ file[i].agents # <<>>
      /\ IsBest(file, b, i - 1) /\ i - 1 \notin NamingUs(file) /\ Held(RulesUpTo(file, b))
      /\ k \in 0..Len(file[i].agents)
      /\ concern = 2 <=> \E a \in 1..k : Ours(file[i].agents[a])
      /\ concern = 0 <=> \A a \in 1..k : ~Ours(file[i].agents[a]) /\ file[i].agents[a] # Star
  BY <1>2 DEF InNames
<1>4. Tk.tok = tok /\ Tk' = Tk
  BY <1>1 DEF Tk
<1>5. k = Len(file[i].agents) /\ AtRules(file, i, 1, Tk)
  <2>1. ~AtAgent(file, i, k + 1, Tk)
    BY <1>1, <1>3, <1>4, TokensAre
  <2> QED  BY <1>2, <2>1 DEF InNames
<1>6. /\ concern = 2 <=> i \in NamingUs(file)
      /\ concern = 0 <=> i \notin NamingUs(file) /\ i \notin NamingAll(file)
  BY <1>3, <1>5, NamingIs
<1>7. CASE concern # 0
  <2>1. Concerned(file, i)
    BY <1>6, <1>7 DEF Concerned
  <2>2. IsBest(file, i, i)
    BY <1>3, <2>1, BestMore
  <2>3. file[i].rules \in Seq(Seq(Chars)) /\ 1 \in 1..Len(file[i].rules) + 1
    BY <1>3, FilesAre
  <2>4. SubSeq(file[i].rules, 1, 1 - 1) = <<>>
    BY <2>3
  <2>5. Held(<<>>)'
    <3>1. forbidden' = <<>> /\ items' = 0
      BY <1>1, <1>7
    <3> QED  BY <3>1, LimitNone, RulesMeantNone DEF Held
  <2>6. Within(file, i, 1)'
    BY <1>1, <1>3, <1>6, <1>7, <2>2, <2>3, <2>4, <2>5 DEF Within
  <2>7. AtRules(file, i, 1, Tk')
    BY <1>4, <1>5
  <2> QED  BY <1>1, <1>7, <2>6, <2>7 DEF Parsing
<1>8. CASE concern = 0
  <2>1. ~Concerned(file, i)
    BY <1>3, <1>6, <1>8 DEF Concerned
  <2>2. IsBest(file, b, i) /\ b # i
    BY <1>3, <2>1, BestMore
  <2>3. Held(RulesUpTo(file, b))'
    BY <1>1, <1>3, <1>8 DEF Held
  <2>4. AtRules(file, i, 1, Tk')
    BY <1>4, <1>5
  <2>5. Skipping(file, i, b, 1)'
    BY <1>1, <1>3, <1>8, <2>2, <2>3, <2>4 DEF Skipping
  <2> QED  BY <1>1, <1>8, <2>5 DEF Parsing
<1> QED  BY <1>7, <1>8

LEMMA SkipParses ==
    ASSUME NEW file, WellWritten(file), Reading(file), Parsing(file), Skip
    PROVE  Parsing(file)' \/ CutShort'
<1>1. /\ where = "skip" /\ UNCHANGED <<text, asked, concern, items, forbidden>>
      /\ tok = NULL \/ tok = useragent => where' = "main" /\ UNCHANGED <<posParse, tok>>
      /\ ~(tok = NULL \/ tok = useragent) => NextTok /\ UNCHANGED where
  BY DEF Skip, Same
<1>2. PICK i, b, r : Skipping(file, i, b, r)
  BY <1>1 DEF Parsing
<1>3. /\ i \in 1..Len(file) /\ IsBest(file, b, i) /\ b # i /\ Held(RulesUpTo(file, b))
      /\ concern = 0
      /\ AtRules(file, i, r, Tk) \/ AtRule(file, i, r, Tk)
  BY <1>2 DEF Skipping
<1>4. Tk.tok = tok /\ Tk.pos = posParse
  BY DEF Tk
<1>5. Held(RulesUpTo(file, b))'
  BY <1>1, <1>3 DEF Held
<1>6. CASE tok = NULL \/ tok = useragent
  <2>1. AtRules(file, i, r, Tk)
    BY <1>3, <1>4, <1>6, TokensAre, TokensDiffer
  <2>2. AtRecord(file, i + 1, Tk)
    BY <1>3, <1>4, <1>6, <2>1, TokensDiffer, RulesEndAt
  <2>3. Tk' = Tk
    BY <1>1, <1>6 DEF Tk
  <2>4. AtRecord(file, i + 1, Tk')
    BY <2>2, <2>3
  <2>5. i \notin NamingUs(file) /\ i \in 0..Len(file)
    <3>1. i \in Nat
      BY <1>3, FilesAre
    <3>2. i \in (b + 1)..i
      BY <1>3, <3>1 DEF IsBest
    <3>3. ~Concerned(file, i)
      BY <1>3, <3>2 DEF IsBest
    <3> QED  BY <1>3, <3>1, <3>3, FilesAre DEF Concerned
  <2>6. Between(file, i, b)'
    BY <1>1, <1>3, <1>5, <2>4, <2>5 DEF Between
  <2> QED  BY <1>1, <1>6, <2>6 DEF Parsing
<1>7. CASE ~(tok = NULL \/ tok = useragent)
  <2>1. PICK x : Has(Text(file), posParse, x)
    BY <1>3, <1>4, <1>7, TokenHas
  <2>2. Tk' = nextToken(Text(file), posParse) \/ CutShort'
    BY <1>1, <1>7, <2>1, NextTokIs
  <2>3. CASE Tk' = nextToken(Text(file), posParse)
    <3>1. \E s : AtRules(file, i, s, Tk') \/ AtRule(file, i, s, Tk')
      <4>1. CASE AtRules(file, i, r, Tk)
        <5>1. Tk.tok = disallow
          BY <1>4, <1>7, <4>1, TokensAre
        <5> QED  BY <1>3, <1>4, <2>3, <4>1, <5>1, NextAfterDisallow
      <4>2. CASE AtRule(file, i, r, Tk)
        BY <1>3, <1>4, <2>3, <4>2, NextAfterRule
      <4> QED  BY <1>3, <4>1, <4>2
    <3>2. PICK s : AtRules(file, i, s, Tk') \/ AtRule(file, i, s, Tk')
      BY <3>1
    <3>3. Skipping(file, i, b, s)'
      BY <1>1, <1>3, <1>5, <3>2 DEF Skipping
    <3> QED  BY <1>1, <1>7, <3>3 DEF Parsing
  <2> QED  BY <2>2, <2>3
<1> QED  BY <1>6, <1>7

LEMMA DisallowParses ==
    ASSUME NEW file, WellWritten(file), Reading(file), Parsing(file), Disallow
    PROVE  Parsing(file)' \/ CutShort'
<1>1. /\ where = "main" /\ tok = disallow /\ where' = "disallow" /\ NextTok
      /\ UNCHANGED <<text, asked, concern, items, forbidden>>
  BY DEF Disallow, Same
<1>2. Tk.tok = tok /\ Tk.pos = posParse
  BY DEF Tk
<1>3. ~\E i, b : Between(file, i, b)
  BY <1>1, <1>2, TokensAre, TokensDiffer DEF Between
<1>4. PICK i, r : Within(file, i, r) /\ AtRules(file, i, r, Tk)
  BY <1>1, <1>3 DEF Parsing
<1>5. i \in 1..Len(file)
  BY <1>4 DEF Within
<1>6. PICK x : Has(Text(file), posParse, x)
  <2>1. Tk.tok # NULL
    BY <1>1, <1>2, TokensDiffer
  <2> QED  BY <1>2, <1>4, <2>1, TokenHas
<1>7. Tk' = nextToken(Text(file), posParse) \/ CutShort'
  BY <1>1, <1>6, NextTokIs
<1>8. CASE Tk' = nextToken(Text(file), posParse)
  <2>1. AtRule(file, i, r, Tk')
    BY <1>1, <1>2, <1>4, <1>5, <1>8, NextAfterDisallow
  <2>2. Within(file, i, r)'
    BY <1>1, <1>4 DEF Within, Held
  <2> QED  BY <1>1, <2>1, <2>2 DEF Parsing
<1> QED  BY <1>7, <1>8

\* What a rule makes of the forbidden files.
LEMMA RuleAt ==
    ASSUME NEW file, WellWritten(file), Parsing(file), Rule
    PROVE  \E i, r :
             /\ Within(file, i, r) /\ AtRule(file, i, r, Tk) /\ tok = file[i].rules[r]
             /\ fileNormalize(GoodToken(tok)) = Meant(GoodToken(tok))
             /\ r \in 1..Len(file[i].rules)
             /\ i \in 1..Len(file)
<1>1. where = "disallow" /\ tok # NULL /\ ~Keyword(tok)
  BY DEF Rule
<1>2. PICK i, r : Within(file, i, r) /\ (AtRules(file, i, r, Tk) \/ AtRule(file, i, r, Tk))
  BY <1>1 DEF Parsing
<1>3. Tk.tok = tok
  BY DEF Tk
<1>4. AtRule(file, i, r, Tk)
  BY <1>1, <1>2, <1>3, TokensAre, TokensDiffer
<1>5. i \in 1..Len(file) /\ r \in 1..Len(file[i].rules) /\ tok = file[i].rules[r]
  BY <1>2, <1>3, <1>4 DEF Within, AtRule
<1>6. IsWord(tok) /\ Plain(GoodToken(tok))
  BY <1>5, FilesAre
<1>7. fileNormalize(GoodToken(tok)) = Meant(GoodToken(tok))
  BY <1>6, RuleMeans
<1> QED  BY <1>2, <1>4, <1>5, <1>7

LEMMA RuleParses ==
    ASSUME NEW file, WellWritten(file), Reading(file), Parsing(file), Rule
    PROVE  Parsing(file)' \/ CutShort'
<1>1. /\ where = "disallow" /\ tok # NULL
      /\ NextTok /\ UNCHANGED <<text, asked, where, concern>>
  BY DEF Rule, Same
<1>2. PICK i, r :
        /\ Within(file, i, r) /\ AtRule(file, i, r, Tk) /\ tok = file[i].rules[r]
        /\ fileNormalize(GoodToken(tok)) = Meant(GoodToken(tok))
        /\ r \in 1..Len(file[i].rules)
        /\ i \in 1..Len(file)
  BY RuleAt
<1> DEFINE q == SubSeq(file[i].rules, 1, r - 1)
           m == Meant(GoodToken(tok))
<1>3. /\ forbidden' = IF items < maxRobotsItem /\ m # NULL THEN Append(forbidden, m) ELSE forbidden
      /\ items' = IF items < maxRobotsItem THEN items + 1 ELSE items
  BY <1>2 DEF Rule
<1>4. /\ file[i].rules \in Seq(Seq(Chars)) /\ Len(file[i].rules) \in Nat /\ r \in Nat /\ r > 0
      /\ r + 1 \in 1..Len(file[i].rules) + 1 /\ (r + 1) - 1 = r /\ r - 1 \in Nat
      /\ r - 1 <= Len(file[i].rules) /\ r <= Len(file[i].rules)
  <2>1. file[i].rules \in Seq(Seq(Chars)) /\ Len(file[i].rules) \in Nat
    BY <1>2, FilesAre
  <2> DEFINE n == Len(file[i].rules)
  <2>2. n \in Nat /\ r \in 1..n
    BY <1>2, <2>1
  <2> HIDE DEF n
  <2>3. r \in Nat /\ r > 0 /\ r + 1 \in 1..n + 1 /\ (r + 1) - 1 = r /\ r - 1 \in Nat
        /\ r - 1 <= n /\ r <= n
    BY <2>2
  <2> QED  BY <2>1, <2>3 DEF n
<1>5. q \in Seq(Seq(Chars)) /\ Len(q) = r - 1 /\ tok \in Seq(Chars)
      /\ \A k \in 1..(r - 1) : q[k] = file[i].rules[k]
  <2>1. tok \in Seq(Chars)
    BY <1>2, <1>4
  <2> QED  BY <1>4, <2>1, FirstOf
<1>6. SubSeq(file[i].rules, 1, r) = Append(q, tok)
  <2> DEFINE a == SubSeq(file[i].rules, 1, r)
             b == Append(q, tok)
  <2>1. a \in Seq(Seq(Chars)) /\ Len(a) = r /\ \A k \in 1..r : a[k] = file[i].rules[k]
    BY <1>4, FirstOf
  <2> HIDE DEF q
  <2>2. b \in Seq(Seq(Chars)) /\ Len(b) = (r - 1) + 1
        /\ (\A k \in 1..(r - 1) : b[k] = q[k]) /\ b[(r - 1) + 1] = tok
    BY <1>5, AppendProperties
  <2> HIDE DEF a, b
  <2>3. \A k \in 1..r : k = r \/ k \in 1..(r - 1)
    BY <1>4
  <2>4. (r - 1) + 1 = r
    BY <1>4
  <2>5. \A k \in 1..Len(a) : a[k] = b[k]
    BY <1>2, <1>5, <2>1, <2>2, <2>3, <2>4
  <2>6. a = b
    BY <2>1, <2>2, <2>4, <2>5, SeqEqual
  <2> QED  BY <2>6 DEF a, b
<1>7. forbidden = RulesMeant(q) /\ items = Limit(Len(q))
  BY <1>2 DEF Within, Held
<1>8. Held(SubSeq(file[i].rules, 1, r))'
  <2>1. RulesMeant(Append(q, tok)) =
          IF Limit(Len(q)) < maxRobotsItem /\ m # NULL
          THEN Append(RulesMeant(q), m) ELSE RulesMeant(q)
    <3> HIDE DEF q
    <3> QED  BY <1>5, RulesMeantAppend
  <2>2. Limit(r) = IF Limit(r - 1) < maxRobotsItem THEN Limit(r - 1) + 1 ELSE Limit(r - 1)
    BY <1>4, RobotsAssumption DEF Limit
  <2>3. Len(SubSeq(file[i].rules, 1, r)) = r
    BY <1>4, FirstOf
  <2> HIDE DEF q, m
  <2>4. forbidden' = RulesMeant(SubSeq(file[i].rules, 1, r))
    BY <1>3, <1>6, <1>7, <2>1
  <2>5. items' = Limit(r)
    BY <1>3, <1>5, <1>7, <2>2
  <2> QED  BY <2>3, <2>4, <2>5 DEF Held
<1>9. Tk.tok = tok /\ Tk.pos = posParse
  BY DEF Tk
<1>10. PICK x : Has(Text(file), posParse, x)
  BY <1>1, <1>2, <1>9, TokenHas
<1>11. Tk' = nextToken(Text(file), posParse) \/ CutShort'
  BY <1>1, <1>10, NextTokIs
<1>12. CASE Tk' = nextToken(Text(file), posParse)
  <2>1. AtRules(file, i, r + 1, Tk')
    BY <1>2, <1>9, <1>12, NextAfterRule
  <2>2. Within(file, i, r + 1)'
    <3>1. Held(SubSeq(file[i].rules, 1, (r + 1) - 1))'
      BY <1>4, <1>8
    <3> QED  BY <1>1, <1>2, <1>4, <3>1 DEF Within
  <2> QED  BY <1>1, <2>1, <2>2 DEF Parsing
<1> QED  BY <1>11, <1>12

LEMMA RulesEndParses ==
    ASSUME NEW file, WellWritten(file), Parsing(file), RulesEnd
    PROVE  Parsing(file)'
<1>1. /\ where = "disallow" /\ (tok = NULL \/ Keyword(tok)) /\ where' = "main"
      /\ UNCHANGED <<text, asked, posParse, tok, concern, items, forbidden>>
  BY DEF RulesEnd, Same
<1>2. PICK i, r : Within(file, i, r) /\ (AtRules(file, i, r, Tk) \/ AtRule(file, i, r, Tk))
  BY <1>1 DEF Parsing
<1>3. Tk.tok = tok /\ Tk' = Tk
  BY <1>1 DEF Tk
<1>4. AtRules(file, i, r, Tk)
  <2>1. i \in 1..Len(file)
    BY <1>2 DEF Within
  <2> QED  BY <1>1, <1>2, <1>3, <2>1, TokensAre
<1>5. Within(file, i, r)'
  BY <1>1, <1>2 DEF Within, Held
<1>6. AtRules(file, i, r, Tk')
  BY <1>3, <1>4
<1> QED  BY <1>1, <1>5, <1>6 DEF Parsing

\* At main there is always a keyword, or the end.
LEMMA NoOther ==
    ASSUME NEW file, WellWritten(file), Parsing(file), where = "main"
    PROVE  tok = NULL \/ Keyword(tok)
<1>1. Tk.tok = tok
  BY DEF Tk
<1>2. CASE \E i, b : Between(file, i, b)
  BY <1>1, <1>2, TokensAre, TokensDiffer DEF Between
<1>3. CASE \E i, r : AtRules(file, i, r, Tk)
  BY <1>1, <1>3, TokensAre, TokensDiffer
<1> QED  BY <1>2, <1>3 DEF Parsing

\* At the end the rules that count are those of the record that concerns the
\* program.
LEMMA EndHolds ==
    ASSUME NEW file, WellWritten(file), Parsing(file), where = "main",
           tok = NULL \/ (tok = useragent /\ concern = 2)
    PROVE  forbidden = RulesMeant(Rules(file))
<1>1. Tk.tok = tok /\ tok # disallow
  BY TokensDiffer DEF Tk
<1>2. PICK i, b : Between(file, i, b)
  BY <1>1, MainBetween
<1>3. /\ i \in 0..Len(file) /\ IsBest(file, b, i) /\ forbidden = RulesMeant(RulesUpTo(file, b))
      /\ concern = 2 <=> i \in NamingUs(file)
      /\ AtRecord(file, i + 1, Tk)
  BY <1>2 DEF Between, Held
<1>4. i = Len(file) \/ i \in NamingUs(file)
  <2>1. CASE tok = NULL
    <3>1. i + 1 = Len(file) + 1
      BY <1>1, <1>3, <2>1, TokensDiffer DEF AtRecord
    <3>2. Len(file) \in Nat
      BY FilesAre
    <3> QED  BY <1>3, <3>1, <3>2
  <2>2. CASE concern = 2
    BY <1>3, <2>2
  <2> QED  BY <2>1, <2>2
<1>5. Rules(file) = RulesUpTo(file, b)
  BY <1>3, <1>4, ConcerningIs
<1> QED  BY <1>3, <1>5


-----------------------------------------------------------------------------
(* The start of the parser *)

LEMMA ParseReads ==
    ASSUME NEW file, WellWritten(file), NEW size \in 0..Len(Text(file)),
           text' = IF size = Len(Text(file)) THEN Text(file) ELSE Blanked(SubSeq(Text(file), 1, size)),
           Tk' = nextToken(text, 1)',
           asked'.whole <=> size = Len(Text(file))
    PROVE  /\ Reading(file)'
           /\ Tk' = nextToken(Text(file), 1) \/ CutShort'
<1> DEFINE all == Text(file)
<1>1. all \in Seq(Chars)
  <2>1. file \in Seq(Records) /\ Len(file) \in Nat
    BY FilesAre
  <2>2. 1 \in 1..Len(file) + 1
    BY <2>1
  <2> QED  BY <2>1, <2>2, RestType
<1> HIDE DEF all
<1>2. CASE size = Len(all)
  <2>1. asked'.whole /\ text' = all
    BY <1>2 DEF all
  <2>2. nextToken(text, 1)' = nextToken(all, 1)
    BY <2>1
  <2> QED  BY <2>1, <2>2 DEF Reading, all
<1>3. CASE size # Len(all)
  <2>1. ~asked'.whole /\ text' = Blanked(SubSeq(all, 1, size))
    BY <1>3 DEF all
  <2>2. PICK last : IsCut(all, size, text', last)
    BY <1>1, <2>1, BlankedIs DEF all
  <2>3. Reading(file)'
    BY <2>1, <2>2 DEF Reading, all
  <2>4. nextToken(text', 1).tok = NULL \/ nextToken(text', 1) = nextToken(all, 1)
    BY <2>2, CutToken
  <2>5. Tk' = nextToken(text', 1) /\ Tk'.tok = tok'
    BY DEF Tk
  <2> QED  BY <2>1, <2>3, <2>4, <2>5 DEF CutShort, all
<1> QED  BY <1>2, <1>3

LEMMA ParseStarts ==
    ASSUME NEW file, WellWritten(file), Tk' = nextToken(Text(file), 1),
           forbidden' = <<>>, items' = 0, concern' = 1, where' = "main"
    PROVE  Parsing(file)'
<1>1. file \in Seq(Records) /\ Len(file) \in Nat
  BY FilesAre
<1>2. 0 \in 0..Len(file) /\ 1 \in 1..Len(file) + 1 /\ 0 + 1 = 1
  BY <1>1
<1>3. Has(Text(file), 1, Rest(file, 1))
  <2>1. Rest(file, 1) = Text(file) /\ Text(file) \in Seq(Chars)
    BY <1>1, <1>2, RestType
  <2> QED  BY <2>1, HasWhole
<1>4. Held(<<>>)'
  BY LimitNone, RulesMeantNone DEF Held
<1>5. concern' # 2 /\ concern' # 0
  OBVIOUS
<1>6. CASE 1 <= Len(file) => file[1].agents # <<>>
  <2>1. AtRecord(file, 0 + 1, Tk')
    BY <1>2, <1>3, <1>6, ReadRecord
  <2>2. IsBest(file, 0, 0)
    <3>1. 0 \in 0..0 /\ (0 + 1)..0 = {} /\ 1..(0 - 1) = {}
      OBVIOUS
    <3> QED  BY <3>1 DEF IsBest
  <2>3. 0 \notin NamingUs(file)
    <3>1. 0 \notin DOMAIN file
      BY <1>1
    <3> QED  BY <3>1 DEF NamingUs
  <2>4. RulesUpTo(file, 0) = <<>>
    BY DEF RulesUpTo
  <2>5. Between(file, 0, 0)'
    BY <1>2, <1>4, <1>5, <2>1, <2>2, <2>3, <2>4 DEF Between
  <2> QED  BY <2>5 DEF Parsing
<1>7. CASE 1 <= Len(file) /\ file[1].agents = <<>>
  <2>1. 1 \in 1..Len(file)
    BY <1>1, <1>7
  <2>2. file[1].rules \in Seq(Seq(Chars)) /\ 1 \in 1..Len(file[1].rules) + 1
        /\ DOMAIN file = 1..Len(file)
    BY <1>1, <2>1, FilesAre
  <2>3. AtRules(file, 1, 1, Tk')
    <3>1. Has(Text(file), 1, FromRule(file, 1, 1))
      BY <1>1, <1>3, <1>7, <2>1, RestIs
    <3> QED  BY <2>1, <2>2, <3>1, ReadRules
  <2>4. 1 \notin NamingUs(file)
    <3>1. Len(<<>>) = 0 /\ 1..0 = {}
      OBVIOUS
    <3> QED  BY <1>7, <2>1, <3>1, NamingIs
  <2>5. Concerned(file, 1)
    BY <1>7, <2>1, <2>2 DEF Concerned
  <2>6. IsBest(file, 1, 1)
    <3>1. 1 \in 0..1 /\ (1 + 1)..1 = {} /\ 1..(1 - 1) = {}
      OBVIOUS
    <3> QED  BY <2>5, <3>1 DEF IsBest
  <2>7. SubSeq(file[1].rules, 1, 1 - 1) = <<>>
    BY <2>2
  <2>8. Within(file, 1, 1)'
    BY <1>4, <1>5, <2>1, <2>2, <2>4, <2>6, <2>7 DEF Within
  <2> QED  BY <2>3, <2>8 DEF Parsing
<1> QED  BY <1>6, <1>7

-----------------------------------------------------------------------------
(* What is forbidden *)

Asks(file) == asked.rules = Rules(file) /\ asked.earlier = EarlierRules(file)

Loops == {"main", "agents", "skip", "disallow"}

Earlier == \A i \in DOMAIN forbidden : forbidden[i] \in MeaningsOf(asked.earlier)

\* While the text is parsed, the parser is where the file says; after it, what is
\* forbidden is what the file says.
RInv ==
    /\ where \in Loops \cup {"wait", "end", "page"}
    /\ where \in Loops =>
         \E file \in RobotsFiles :
             Asks(file) /\ Reading(file) /\ (Parsing(file) \/ CutShort)
    /\ where \in Loops \cup {"end"} => Earlier
    /\ where \in {"end", "page"} /\ asked.whole => forbidden = RulesMeant(asked.rules)

\* The theorems are about such files.
FilesAreWellWritten == \A file \in RobotsFiles : WellWritten(file)


\* The rules of a record that concerns the program are among the earlier ones.
LEMMA RuleIsEarlier ==
    ASSUME NEW file, WellWritten(file), NEW i \in 1..Len(file), Concerned(file, i),
           NEW r \in 1..Len(file[i].rules)
    PROVE  file[i].rules[r] \in EarlierRules(file)
<1>1. file[i].rules[r] \in ToSet(file[i].rules)
  <2>1. file[i].rules \in Seq(Seq(Chars))
    BY FilesAre
  <2>2. r \in DOMAIN file[i].rules
    BY <2>1
  <2> QED  BY <2>2 DEF ToSet
<1>2. i \in NamingUs(file) \cup NamingAll(file)
        \cup {j \in DOMAIN file : file[j].agents = <<>>}
  BY DEF Concerned
<1> QED  BY <1>1, <1>2 DEF EarlierRules, Star

\* A rule makes of the forbidden files earlier ones, if they were.
LEMMA RuleKeepsEarlier ==
    ASSUME NEW file, WellWritten(file), Parsing(file), Rule, Asks(file), Earlier
    PROVE  Earlier'
<1>1. PICK i, r :
        /\ Within(file, i, r) /\ AtRule(file, i, r, Tk) /\ tok = file[i].rules[r]
        /\ fileNormalize(GoodToken(tok)) = Meant(GoodToken(tok))
        /\ r \in 1..Len(file[i].rules)
        /\ i \in 1..Len(file)
  BY RuleAt
<1> DEFINE m == Meant(GoodToken(tok))
           A == MeaningsOf(asked.earlier)
           q == SubSeq(file[i].rules, 1, r - 1)
<1>2. forbidden' = Append(forbidden, m) \/ forbidden' = forbidden
  BY <1>1 DEF Rule
<1>3. asked' = asked
  BY DEF Rule, Same
<1>4. m \in A
  <2>1. Concerned(file, i)
    <3>1. i # 0
      BY <1>1, FilesAre
    <3> QED  BY <1>1, <3>1 DEF Within, IsBest
  <2>2. tok \in asked.earlier
    BY <1>1, <2>1, RuleIsEarlier DEF Asks
  <2> QED  BY <2>2 DEF MeaningsOf
<1>5. \E B : forbidden \in Seq(B)
  <2>1. q \in Seq(Seq(Chars))
    <3>1. file[i].rules \in Seq(Seq(Chars)) /\ Len(file[i].rules) \in Nat
      BY <1>1, FilesAre
    <3>2. r - 1 \in Nat /\ r - 1 <= Len(file[i].rules)
      BY <1>1, <3>1
    <3> QED  BY <3>1, <3>2, FirstOf
  <2>2. forbidden = RulesMeant(q)
    BY <1>1 DEF Within, Held
  <2> HIDE DEF q
  <2> QED  BY <2>1, <2>2, RulesMeantIs
<1>6. \A i_ \in DOMAIN forbidden' : forbidden'[i_] \in A
  <2>1. \A j \in DOMAIN forbidden : forbidden[j] \in A
    BY DEF Earlier
  <2> HIDE DEF m, A
  <2>2. CASE forbidden' = forbidden
    BY <2>1, <2>2
  <2>3. CASE forbidden' = Append(forbidden, m)
    <3>1. PICK B : forbidden \in Seq(B)
      BY <1>5
    <3>2. forbidden \in Seq(B \cup A) /\ m \in B \cup A
      BY <1>4, <3>1
    <3>3. /\ Append(forbidden, m) \in Seq(B \cup A)
          /\ Len(Append(forbidden, m)) = Len(forbidden) + 1
          /\ \A j \in 1..Len(forbidden) : Append(forbidden, m)[j] = forbidden[j]
          /\ Append(forbidden, m)[Len(forbidden) + 1] = m
      BY <3>2, AppendProperties
    <3>4. \A j \in DOMAIN Append(forbidden, m) : j = Len(forbidden) + 1 \/ j \in 1..Len(forbidden)
      BY <3>2, <3>3
    <3>5. \A j \in 1..Len(forbidden) : j \in DOMAIN forbidden
      BY <3>2
    <3> QED  BY <1>4, <2>1, <2>3, <3>3, <3>4, <3>5
  <2> QED  BY <1>2, <2>2, <2>3
<1> QED  BY <1>3, <1>6 DEF Earlier

LEMMA RInvInit == RobotsInit => RInv
<1> SUFFICES ASSUME RobotsInit PROVE RInv
  OBVIOUS
<1>1. where = "wait"
  BY DEF RobotsInit
<1>2. "wait" \notin Loops \cup {"end"} /\ "wait" \notin {"end", "page"}
  BY DEF Loops
<1> QED  BY <1>1, <1>2 DEF RInv

LEMMA RInvParse ==
    ASSUME FilesAreWellWritten, Parse
    PROVE  RInv'
<1>1. PICK file \in RobotsFiles : \E size \in 0..Len(FileTexts[file]) :
        LET all == FileTexts[file]
            t == IF size = Len(all) THEN all ELSE Blanked(SubSeq(all, 1, size))
            first == nextToken(t, 1)
        IN  /\ text' = t /\ tok' = first.tok /\ posParse' = first.pos
            /\ asked' = [rules |-> Rules(file), earlier |-> EarlierRules(file),
                         whole |-> size = Len(all)]
  BY DEF Parse
<1>2. FileTexts[file] = Text(file)
  BY DEF FileTexts
<1>3. PICK size \in 0..Len(Text(file)) :
        /\ text' = IF size = Len(Text(file)) THEN Text(file) ELSE Blanked(SubSeq(Text(file), 1, size))
        /\ tok' = nextToken(text', 1).tok /\ posParse' = nextToken(text', 1).pos
        /\ asked' = [rules |-> Rules(file), earlier |-> EarlierRules(file),
                     whole |-> size = Len(Text(file))]
  BY <1>1, <1>2
<1>4. forbidden' = <<>> /\ items' = 0 /\ concern' = 1 /\ where' = "main"
  BY DEF Parse
<1>5. WellWritten(file)
  BY DEF FilesAreWellWritten
<1>6. Tk' = nextToken(text, 1)'
  <2>1. \E w, k : nextToken(text', 1) = [tok |-> w, pos |-> k]
    BY DEF nextToken
  <2>2. PICK w, k : nextToken(text', 1) = [tok |-> w, pos |-> k]
    BY <2>1
  <2> QED  BY <1>3, <2>2 DEF Tk
<1>7. Reading(file)' /\ (Tk' = nextToken(Text(file), 1) \/ CutShort')
  <2>1. asked'.whole <=> size = Len(Text(file))
    BY <1>3
  <2>2. text' = IF size = Len(Text(file)) THEN Text(file) ELSE Blanked(SubSeq(Text(file), 1, size))
    BY <1>3
  <2> QED  BY <1>5, <1>6, <2>1, <2>2, ParseReads
<1>8. Parsing(file)' \/ CutShort'
  BY <1>4, <1>5, <1>7, ParseStarts
<1>9. Asks(file)'
  BY <1>3 DEF Asks
<1>10. Earlier'
  BY <1>4 DEF Earlier
<1>11. where' \in Loops /\ where' \notin {"end", "page"}
  BY <1>4 DEF Loops
<1> QED  BY <1>7, <1>8, <1>9, <1>10, <1>11 DEF RInv

\* A step of a loop that goes on.
LEMMA RInvLoop ==
    ASSUME NEW file \in RobotsFiles, Asks(file), Reading(file), UNCHANGED <<text, asked>>,
           Parsing(file)' \/ CutShort', where' \in Loops, Earlier'
    PROVE  RInv'
<1>1. Asks(file)' /\ Reading(file)'
  BY DEF Asks, Reading
<1>2. where' \notin {"end", "page"}
  BY DEF Loops
<1> QED  BY <1>1, <1>2 DEF RInv

LEMMA RInvNext ==
    ASSUME FilesAreWellWritten, RInv, RobotsNext
    PROVE  RInv'
<1>1. CASE Parse
  BY <1>1, RInvParse
<1>2. CASE where \in Loops /\ ~Parse
  <2>1. PICK file \in RobotsFiles : Asks(file) /\ Reading(file) /\ (Parsing(file) \/ CutShort)
    BY <1>2 DEF RInv
  <2>2. WellWritten(file) /\ Earlier
    BY <1>2 DEF FilesAreWellWritten, RInv
  <2>3. UNCHANGED <<text, asked>>
    BY <1>2 DEF RobotsNext, UserAgent, RecordEnd, Agent, AgentsEnd, Skip, Disallow, Rule,
                RulesEnd, Other, EndOfText, Same
  <2>4. tok # NULL \/ asked.whole => Parsing(file)
    BY <2>1 DEF CutShort
  <2>5. forbidden' = forbidden \/ forbidden' = <<>> => Earlier'
    BY <2>2, <2>3 DEF Earlier
  <2>6. /\ "main" \in Loops /\ "agents" \in Loops /\ "skip" \in Loops /\ "disallow" \in Loops
        /\ "end" \notin Loops
    BY DEF Loops
  <2>7. CASE UserAgent
    <3>1. where' \in Loops /\ forbidden' = forbidden /\ tok # NULL
      BY <2>6, <2>7, TokensDiffer DEF UserAgent
    <3>2. Parsing(file)' \/ CutShort'
      BY <2>1, <2>2, <2>4, <2>7, <3>1, UserAgentParses
    <3> QED  BY <2>1, <2>3, <2>5, <3>1, <3>2, RInvLoop
  <2>8. CASE Agent
    <3>1. where' \in Loops /\ forbidden' = forbidden /\ tok # NULL
      BY <1>2, <2>8 DEF Agent
    <3>2. Parsing(file)' \/ CutShort'
      BY <2>1, <2>2, <2>4, <2>8, <3>1, AgentParses
    <3> QED  BY <2>1, <2>3, <2>5, <3>1, <3>2, RInvLoop
  <2>9. CASE AgentsEnd
    <3>1. where' \in Loops /\ (forbidden' = forbidden \/ forbidden' = <<>>) /\ tok' = tok
      BY <2>6, <2>9 DEF AgentsEnd
    <3>2. Parsing(file)' \/ CutShort'
      BY <2>1, <2>2, <2>3, <2>9, <3>1, AgentsEndParses DEF CutShort
    <3> QED  BY <2>1, <2>3, <2>5, <3>1, <3>2, RInvLoop
  <2>10. CASE Skip
    <3>1. where' \in Loops /\ forbidden' = forbidden /\ (tok = NULL => tok' = tok)
      BY <1>2, <2>6, <2>10 DEF Skip
    <3>2. Parsing(file)' \/ CutShort'
      BY <2>1, <2>2, <2>3, <2>10, <3>1, SkipParses DEF CutShort
    <3> QED  BY <2>1, <2>3, <2>5, <3>1, <3>2, RInvLoop
  <2>11. CASE Disallow
    <3>1. where' \in Loops /\ forbidden' = forbidden /\ tok # NULL
      BY <2>6, <2>11, TokensDiffer DEF Disallow
    <3>2. Parsing(file)' \/ CutShort'
      BY <2>1, <2>2, <2>4, <2>11, <3>1, DisallowParses
    <3> QED  BY <2>1, <2>3, <2>5, <3>1, <3>2, RInvLoop
  <2>12. CASE Rule
    <3>1. where' \in Loops /\ tok # NULL
      BY <1>2, <2>12 DEF Rule
    <3>2. Parsing(file)' \/ CutShort'
      BY <2>1, <2>2, <2>4, <2>12, <3>1, RuleParses
    <3>3. Earlier'
      BY <2>1, <2>2, <2>4, <2>12, <3>1, RuleKeepsEarlier
    <3> QED  BY <2>1, <2>3, <3>1, <3>2, <3>3, RInvLoop
  <2>13. CASE RulesEnd
    <3>1. where' \in Loops /\ forbidden' = forbidden /\ tok' = tok
      BY <2>6, <2>13 DEF RulesEnd
    <3>2. Parsing(file)' \/ CutShort'
      BY <2>1, <2>2, <2>3, <2>13, <3>1, RulesEndParses DEF CutShort
    <3> QED  BY <2>1, <2>3, <2>5, <3>1, <3>2, RInvLoop
  <2>14. CASE Other
    <3>1. tok # NULL /\ ~Keyword(tok) /\ where = "main"
      BY <2>14 DEF Other
    <3> QED  BY <2>2, <2>4, <3>1, NoOther
  <2>15. CASE RecordEnd \/ EndOfText
    <3>1. /\ where = "main" /\ where' = "end" /\ forbidden' = forbidden
          /\ tok = NULL \/ (tok = useragent /\ concern = 2)
      BY <2>15 DEF RecordEnd, EndOfText
    <3>2. asked.whole => forbidden = RulesMeant(Rules(file))
      BY <2>2, <2>4, <3>1, EndHolds
    <3>3. asked'.whole => forbidden' = RulesMeant(asked'.rules)
      BY <2>1, <2>3, <3>1, <3>2 DEF Asks
    <3> QED  BY <2>5, <2>6, <3>1, <3>3 DEF RInv
  <2> QED  BY <1>2, <2>7, <2>8, <2>9, <2>10, <2>11, <2>12, <2>13, <2>14, <2>15 DEF RobotsNext
<1>3. where \in Loops \/ Parse
  BY DEF RobotsNext, UserAgent, RecordEnd, Agent, AgentsEnd, Skip, Disallow, Rule,
         RulesEnd, Other, EndOfText, Loops
<1> QED  BY <1>1, <1>2, <1>3

\* The pages leave what is forbidden as it is.
LEMMA RInvPages ==
    ASSUME RInv, where \in {"end", "page"}, where' = "page", forbidden' = forbidden,
           asked'.rules = asked.rules, asked'.whole = asked.whole
    PROVE  RInv'
<1>1. "page" \notin Loops /\ "page" # "end"
  BY DEF Loops
<1> QED  BY <1>1 DEF RInv

LEMMA RInvSame ==
    ASSUME RInv, UNCHANGED robotsVars
    PROVE  RInv'
<1>1. UNCHANGED <<text, posParse, tok, where, concern, items, forbidden, asked>>
  BY DEF robotsVars
<1>2. \A file : /\ Asks(file)' <=> Asks(file)
                /\ Reading(file)' <=> Reading(file)
  BY <1>1 DEF Asks, Reading
<1>3. (Earlier' <=> Earlier) /\ (CutShort' <=> CutShort)
  BY <1>1 DEF Earlier, CutShort
<1>4. \A file : Parsing(file)' <=> Parsing(file)
  <2>1. Tk' = Tk
    BY <1>1 DEF Tk
  <2>2. \A q : Held(q)' <=> Held(q)
    BY <1>1 DEF Held
  <2>3. \A file, i, b : Between(file, i, b)' <=> Between(file, i, b)
    BY <1>1, <2>1, <2>2 DEF Between
  <2>4. \A file, i, r : Within(file, i, r)' <=> Within(file, i, r)
    BY <1>1, <2>2 DEF Within
  <2>5. \A file, i, b, k : InNames(file, i, b, k)' <=> InNames(file, i, b, k)
    BY <1>1, <2>1, <2>2 DEF InNames
  <2>6. \A file, i, b, r : Skipping(file, i, b, r)' <=> Skipping(file, i, b, r)
    BY <1>1, <2>1, <2>2 DEF Skipping
  <2> QED  BY <1>1, <2>1, <2>3, <2>4, <2>5, <2>6 DEF Parsing
<1> QED  BY <1>1, <1>2, <1>3, <1>4 DEF RInv


LEMMA RInvStep ==
    ASSUME FilesAreWellWritten, RInv, [Next]_vars
    PROVE  RInv'
<1>1. CASE RobotsNext
  BY <1>1, RInvNext
<1>2. CASE StartPage
  <2>1. where \in {"end", "page"} /\ where' = "page" /\ forbidden' = forbidden
    BY <1>2 DEF StartPage
  <2>2. asked' = [asked EXCEPT !.earlier = {}]
    BY <1>2 DEF StartPage
  <2>3. asked'.rules = asked.rules /\ asked'.whole = asked.whole
    BY <2>2
  <2> QED  BY <2>1, <2>3, RInvPages
<1>3. CASE ~RobotsNext /\ ~StartPage
  <2>1. UNCHANGED robotsVars
    BY <1>3 DEF Next, vars, Unread, Arrive, parseCmdline, parseHeader, parseHeader30X,
                InputEnd, endInput, Fails, Link, Base, NextTag, EndOfPage
  <2> QED  BY <2>1, RInvSame
<1> QED  BY <1>1, <1>2, <1>3

\* For every well written file: when it came whole, what is forbidden is what the
\* record that concerns the program says, one that names it or a part of its name
\* in capitals or not if there is one, and no record before or after it, no
\* comment and no line adds to it or takes from it; wherever it was cut, what is
\* forbidden is made of whole rules of such records, and never of a part of one,
\* which would forbid more (robots::parse, parseRobots, nextToken).
THEOREM ForbiddenIsExact ==
    ASSUME FilesAreWellWritten
    PROVE  Spec => []ForbiddenExact
<1>1. Init => RInv
  BY RInvInit DEF Init
<1>2. RInv /\ [Next]_vars => RInv'
  BY RInvStep
<1>3. RInv => ForbiddenExact
  <2> SUFFICES ASSUME RInv, where = "end" PROVE ForbiddenExact
    BY DEF ForbiddenExact
  <2>1. Earlier /\ (asked.whole => forbidden = RulesMeant(asked.rules))
    BY DEF RInv
  <2> QED  BY <2>1 DEF ForbiddenExact, Earlier, MeaningsOf
<1> QED  BY <1>1, <1>2, <1>3, PTL DEF Spec

-----------------------------------------------------------------------------
(* A pattern that has no "*" *)

Starless(f) == f \in Seq(Chars) /\ \A k \in 1..Len(f) : f[k] # "*"

Starring ==
    {x \in Names : OnItsWay(x[1], x[2]) /\ Starless(x[1]) => Starless(Normalized[x])}

LEMMA StopsStarless ==
    ASSUME NEW f, NEW i, OnItsWay(f, i), Starless(f), NEW r, Stops(f, i, r)
    PROVE  Starless(r)
<1>1. f \in Seq(Chars) /\ Len(f) \in Nat /\ i \in 1..Len(f) + 1
  BY DEF Starless, OnItsWay
<1>2. CASE r = NULL
  <2>1. r \in Seq(Chars) /\ Len(r) = 0
    BY <1>2 DEF NULL
  <2>2. \A k \in 1..0 : FALSE
    OBVIOUS
  <2> QED  BY <2>1, <2>2 DEF Starless
<1>3. ASSUME NEW n \in Nat, n <= Len(f), r = SubSeq(f, 1, n) PROVE Starless(r)
  <2>1. r \in Seq(Chars) /\ Len(r) = n /\ \A k \in 1..n : r[k] = f[k]
    BY <1>1, <1>3, FirstOf
  <2>2. \A k \in 1..n : k \in 1..Len(f)
    BY <1>1, <1>3
  <2> QED  BY <2>1, <2>2 DEF Starless
<1>4. CASE At(f, i) \in {NUL, "#"} /\ r = SubSeq(f, 1, i - 1)
  <2>1. i - 1 \in Nat /\ i - 1 <= Len(f)
    BY <1>1
  <2> QED  BY <1>3, <1>4, <2>1
<1>5. ASSUME NEW u \in 1..i, u <= Len(f), r = SubSeq(f, 1, u) PROVE Starless(r)
  <2>1. u \in Nat
    BY <1>1
  <2> QED  BY <1>3, <1>5, <2>1
<1> QED  BY <1>2, <1>4, <1>5 DEF Stops


LEMMA GoesStarless ==
    ASSUME NEW f, NEW i, Starless(f), NEW g, NEW j, Goes(f, i, g, j)
    PROVE  Starless(g)
<1>1. f \in Seq(Chars) /\ Len(f) \in Nat /\ \A k \in 1..Len(f) : f[k] # "*"
  BY DEF Starless
<1>2. ASSUME NEW n \in Nat, n > 0, Cuts(f, j, n, g) PROVE Starless(g)
  <2>1. /\ g \in Seq(Chars) /\ j > 0 /\ j + n <= Len(f) /\ Len(g) = Len(f) - n
        /\ \A k \in 1..Len(g) : g[k] = IF k <= j THEN f[k] ELSE f[k + n]
    BY <1>2 DEF Cuts
  <2>2. \A k \in 1..Len(g) : k \in 1..Len(f) /\ k + n \in 1..Len(f)
    BY <1>1, <2>1
  <2> QED  BY <1>1, <2>1, <2>2 DEF Starless
<1>3. ASSUME i \in 1..Len(f), f[i] \in Escapes, isgraph(Decoded(f[i])),
             g = [f EXCEPT ![i] = Decoded(f[i])]
      PROVE  Starless(g)
  <2>1. Decoded(f[i]) \in Chars /\ Decoded(f[i]) # "*"
    BY <1>3, UrlsAssumption DEF Decoded, isgraph, Escapes
  <2>2. g \in Seq(Chars) /\ Len(g) = Len(f)
    BY <1>1, <1>3, <2>1, ExceptSeq
  <2>3. \A k \in 1..Len(f) : g[k] = f[k] \/ g[k] = Decoded(f[i])
    BY <1>1, <1>3
  <2> QED  BY <1>1, <2>1, <2>2, <2>3 DEF Starless
<1> QED  BY <1>2, <1>3 DEF Goes

LEMMA LoopStarless == Names \subseteq Starring
<1>1. ASSUME NEW x \in Names, \A y \in Names : LeftOf(y) < LeftOf(x) => y \in Starring
      PROVE  x \in Starring
  <2> DEFINE f == x[1]
             i == x[2]
  <2>1. f \in Seq(Chars) /\ i \in Nat /\ x = <<f, i>>
    BY DEF Names
  <2>2. Normalized[x] = Round(Normalized, f, i)
    BY NormalizedIs
  <2> HIDE DEF f, i
  <2>3. SUFFICES ASSUME OnItsWay(f, i), Starless(f) PROVE Starless(Normalized[x])
    BY DEF Starring, f, i
  <2>4. CASE RoundDone(f, i)
    <3>1. PICK r : Stops(f, i, r) /\ \A N : Round(N, f, i) = r
      BY <2>4 DEF RoundDone
    <3>2. Normalized[x] = r
      BY <2>2, <3>1
    <3> QED  BY <2>3, <3>1, <3>2, StopsStarless
  <2>5. CASE RoundGoes(f, i)
    <3>1. PICK g, j : /\ Goes(f, i, g, j)
                      /\ <<g, j>> \in Names /\ LeftOf(<<g, j>>) < LeftOf(<<f, i>>)
                      /\ \A N : Round(N, f, i) = N[<<g, j>>]
      BY <2>5 DEF RoundGoes
    <3> DEFINE y == <<g, j>>
    <3>2. y \in Starring
      BY <1>1, <2>1, <3>1
    <3>3. y[1] = g /\ y[2] = j
      OBVIOUS
    <3>4. Normalized[x] = Normalized[y]
      BY <2>2, <3>1
    <3>5. OnItsWay(g, j) /\ Starless(g)
      BY <2>3, <3>1, GoesRooted, GoesStarless
    <3> HIDE DEF y
    <3> QED  BY <3>2, <3>3, <3>4, <3>5 DEF Starring
  <2> QED  BY <2>1, <2>4, <2>5, RoundSteps
<1>2. Hereditary(Starring)
  BY <1>1 DEF Hereditary
<1> QED  BY <1>2, ByRounds

LEMMA NormalizeStarless ==
    ASSUME NEW f, Rooted(f), Starless(f)
    PROVE  Starless(fileNormalize(f))
<1> DEFINE x == <<f, 1>>
<1>1. f \in Seq(Chars) /\ Len(f) \in Nat
  BY DEF Rooted
<1>2. x \in Names /\ x[1] = f /\ x[2] = 1
  BY <1>1 DEF Names
<1>3. OnItsWay(f, 1)
  BY <1>1 DEF OnItsWay
<1> HIDE DEF x
<1>4. x \in Starring
  BY <1>2, LoopStarless
<1>5. fileNormalize(f) = Normalized[x]
  BY DEF fileNormalize, x
<1> QED  BY <1>2, <1>3, <1>4, <1>5 DEF Starring

\* One step of robotsMatch.
LEMMA MatchSteps ==
    ASSUME NEW a, Starless(a), NEW b \in Seq(Chars), NEW x \in Nat \X Nat
    PROVE  Matches(a, b)[x] = IF At(a, x[1]) = NUL THEN TRUE
                              ELSE IF At(a, x[1]) = At(b, x[2])
                                   THEN Matches(a, b)[<<x[1] + 1, x[2] + 1>>] ELSE FALSE
<1> DEFINE S == Nat \X Nat
           K == [y \in S |-> SelectInSubSeq(b, y[2], Len(b), LAMBDA c: c = At(a, y[1] + 1))]
           body(F, y) == CASE At(a, y[1]) = NUL -> TRUE
                           [] At(a, y[1]) = "*" ->
                                IF At(a, y[1] + 1) = NUL THEN TRUE
                                ELSE IF K[y] = 0 THEN FALSE ELSE F[<<y[1] + 1, K[y]>>]
                           [] OTHER -> IF At(a, y[1]) = At(b, y[2])
                                       THEN F[<<y[1] + 1, y[2] + 1>>] ELSE FALSE
           Good(F) == F = [y \in S |-> body(F, y)]
           D == {y \in S : At(a, y[1]) = NUL \/ At(a, y[1]) # At(b, y[2])}
           res == [y \in S |-> At(a, y[1]) = NUL]
           nx == [y \in S |-> <<y[1] + 1, y[2] + 1>>]
           m == [y \in S |-> IF y[1] <= Len(a) THEN (Len(a) + 1) - y[1] ELSE 0]
           simple(F, y) == IF At(a, y[1]) = NUL THEN TRUE
                           ELSE IF At(a, y[1]) = At(b, y[2])
                                THEN F[<<y[1] + 1, y[2] + 1>>] ELSE FALSE
<1>1. /\ a \in Seq(Chars) /\ Len(a) \in Nat
      /\ \A q \in Nat : At(a, q) = IF q \in 1..Len(a) THEN a[q] ELSE NUL
  BY AtIs DEF Starless
<1>2. \A q \in Nat : At(a, q) # "*"
  BY <1>1 DEF Starless, NUL
<1>3. \A y \in S : y[1] \in Nat /\ y[2] \in Nat /\ <<y[1] + 1, y[2] + 1>> \in S
  OBVIOUS
<1>4. Loop(S, D, nx, m, Len(a) + 1)
  <2>1. \A y \in S : m[y] \in Nat /\ m[y] <= Len(a) + 1
    BY <1>1, <1>3
  <2>2. ASSUME NEW y \in S, y \notin D PROVE nx[y] \in S /\ m[nx[y]] < m[y]
    <3>1. At(a, y[1]) # NUL
      BY <2>2
    <3>2. y[1] \in 1..Len(a)
      BY <1>1, <1>3, <3>1
    <3>3. nx[y] \in S /\ nx[y][1] = y[1] + 1
      BY <1>3
    <3>4. m[y] = (Len(a) + 1) - y[1]
      BY <3>2
    <3>5. m[nx[y]] = IF y[1] + 1 <= Len(a) THEN (Len(a) + 1) - (y[1] + 1) ELSE 0
      BY <3>3
    <3>6. m[nx[y]] < m[y]
      <4> HIDE DEF m, nx
      <4> QED  BY <1>1, <3>2, <3>4, <3>5
    <3> QED  BY <3>3, <3>6
  <2> HIDE DEF S, D, nx, m
  <2> QED  BY <1>1, <2>1, <2>2 DEF Loop
<1>5. PICK F : F = [y \in S |-> IF y \in D THEN res[y] ELSE F[nx[y]]]
  <2> HIDE DEF S, D, nx, m, res
  <2> QED  BY <1>4, LoopExists
<1>6. \A G : \A y \in S : body(G, y) = simple(G, y)
  <2> HIDE DEF K
  <2> QED  BY <1>2, <1>3
<1>7. Good(F)
  <2> DEFINE G == [y \in S |-> body(F, y)]
  <2>1. ASSUME NEW y \in S PROVE F[y] = G[y]
    <3>1. F[y] = IF y \in D THEN res[y] ELSE F[nx[y]]
      BY <1>5
    <3>2. G[y] = simple(F, y)
      <4>1. G[y] = body(F, y)
        OBVIOUS
      <4> QED  BY <1>6, <4>1
    <3>3. CASE At(a, y[1]) = NUL
      BY <3>1, <3>2, <3>3
    <3>4. CASE At(a, y[1]) # NUL /\ At(a, y[1]) # At(b, y[2])
      BY <3>1, <3>2, <3>4
    <3>5. CASE At(a, y[1]) # NUL /\ At(a, y[1]) = At(b, y[2])
      BY <3>1, <3>2, <3>5
    <3> QED  BY <3>3, <3>4, <3>5
  <2> HIDE DEF S, D, res, nx, K, body
  <2>2. F = G
    BY <1>5, <2>1
  <2> QED  BY <2>2
<1>8. Matches(a, b) = CHOOSE G : Good(G)
  BY DEF Matches
<1> DEFINE W == Matches(a, b)
<1>9. Good(W)
  <2> HIDE DEF S, K, body
  <2>1. \E G : Good(G)
    BY <1>7
  <2>2. Good(CHOOSE G : Good(G))
    BY <2>1
  <2> QED  BY <1>8, <2>2
<1>10. W[x] = body(W, x)
  <2> HIDE DEF W, K, body
  <2> QED  BY <1>9
<1>11. W[x] = simple(W, x)
  <2> HIDE DEF W, body, simple, K
  <2> QED  BY <1>6, <1>10
<1> QED  BY <1>11


\* Without a "*" a pattern forbids what begins with it.
LEMMA MatchIsPrefix ==
    ASSUME NEW a, Starless(a), NEW b \in Seq(Chars)
    PROVE  robotsMatch(a, b) <=> IsPrefix(a, b)
<1> DEFINE W == Matches(a, b)
           Agrees(i) == \A k \in i..Len(a) : At(a, k) = At(b, k)
           Right(i) == (W[<<i, i>>] = TRUE <=> Agrees(i)) /\ W[<<i, i>>] \in BOOLEAN
           T == {n \in Nat : \A i \in 1..Len(a) + 1 : i + n > Len(a) => Right(i)}
<1>1. /\ a \in Seq(Chars) /\ Len(a) \in Nat /\ Len(b) \in Nat
      /\ \A q \in Nat : At(a, q) = IF q \in 1..Len(a) THEN a[q] ELSE NUL
      /\ \A q \in Nat : At(b, q) = IF q \in 1..Len(b) THEN b[q] ELSE NUL
      /\ NUL \notin Chars /\ \A q \in 1..Len(a) : a[q] \in Chars
  <2>1. a \in Seq(Chars)
    BY DEF Starless
  <2> QED  BY <2>1, AtIs, UrlsAssumption
<1>2. ASSUME NEW i \in Nat
      PROVE  W[<<i, i>>] = IF At(a, i) = NUL THEN TRUE
                           ELSE IF At(a, i) = At(b, i) THEN W[<<i + 1, i + 1>>] ELSE FALSE
  <2> DEFINE x == <<i, i>>
  <2>1. x \in Nat \X Nat /\ x[1] = i /\ x[2] = i
    OBVIOUS
  <2> HIDE DEF x
  <2>2. W[x] = IF At(a, x[1]) = NUL THEN TRUE
               ELSE IF At(a, x[1]) = At(b, x[2]) THEN W[<<x[1] + 1, x[2] + 1>>] ELSE FALSE
    BY <2>1, MatchSteps
  <2> QED  BY <2>1, <2>2 DEF x
<1> HIDE DEF W
<1>3. ASSUME NEW i \in 1..Len(a) + 1, i > Len(a)
      PROVE  Right(i)
  <2>1. i \in Nat /\ At(a, i) = NUL /\ i..Len(a) = {}
    BY <1>1, <1>3
  <2>2. W[<<i, i>>] = TRUE
    BY <1>2, <2>1
  <2> QED  BY <2>1, <2>2
<1>4. ASSUME NEW i \in 1..Len(a), Right(i + 1)
      PROVE  Right(i)
  <2>1. i \in Nat /\ At(a, i) # NUL
    BY <1>1
  <2>2. W[<<i, i>>] = IF At(a, i) = At(b, i) THEN W[<<i + 1, i + 1>>] ELSE FALSE
    BY <1>2, <2>1
  <2>3. \A k : k \in i..Len(a) <=> k = i \/ k \in (i + 1)..Len(a)
    BY <1>1
  <2>4. Agrees(i) <=> At(a, i) = At(b, i) /\ Agrees(i + 1)
    BY <2>3
  <2> HIDE DEF Agrees
  <2>5. CASE At(a, i) = At(b, i)
    <3>1. W[<<i, i>>] = W[<<i + 1, i + 1>>]
      BY <2>2, <2>5
    <3> QED  BY <1>4, <2>4, <2>5, <3>1
  <2>6. CASE At(a, i) # At(b, i)
    <3>1. W[<<i, i>>] = FALSE
      BY <2>2, <2>6
    <3> QED  BY <2>4, <2>6, <3>1
  <2> QED  BY <2>5, <2>6
<1>5. 0 \in T
  <2> HIDE DEF Right
  <2> QED  BY <1>1, <1>3
<1>6. ASSUME NEW n \in T PROVE n + 1 \in T
  <2> HIDE DEF Right
  <2>1. ASSUME NEW i \in 1..Len(a) + 1, i + (n + 1) > Len(a) PROVE Right(i)
    <3>1. CASE i > Len(a)
      BY <1>3, <3>1
    <3>2. CASE i <= Len(a)
      <4>1. i \in 1..Len(a) /\ i + 1 \in 1..Len(a) + 1 /\ (i + 1) + n > Len(a)
        BY <1>1, <2>1, <3>2
      <4>2. Right(i + 1)
        BY <4>1
      <4> QED  BY <1>4, <4>1, <4>2
    <3>3. i > Len(a) \/ i <= Len(a)
      BY <1>1
    <3> QED  BY <3>1, <3>2, <3>3
  <2> QED  BY <2>1
<1>7. Len(a) \in T
  <2>1. T \in SUBSET Nat
    OBVIOUS
  <2> HIDE DEF T
  <2> QED  BY <1>1, <1>5, <1>6, <2>1, Induct
<1>8. Right(1)
  <2> HIDE DEF Right
  <2>1. 1 \in 1..Len(a) + 1 /\ 1 + Len(a) > Len(a)
    BY <1>1
  <2> QED  BY <1>7, <2>1
<1>9. Agrees(1) <=> IsPrefix(a, b)
  <2>1. ASSUME Agrees(1) PROVE IsPrefix(a, b)
    <3>1. Len(a) <= Len(b)
      <4>1. CASE Len(a) = 0
        BY <1>1, <4>1
      <4>2. CASE Len(a) # 0
        <5>1. Len(a) \in 1..Len(a)
          BY <1>1, <4>2
        <5>2. At(a, Len(a)) = At(b, Len(a)) /\ At(a, Len(a)) # NUL
          BY <1>1, <2>1, <5>1
        <5> QED  BY <1>1, <5>2
      <4> QED  BY <4>1, <4>2
    <3> DEFINE s == SubSeq(b, 1, Len(a))
    <3>2. s \in Seq(Chars) /\ Len(s) = Len(a) /\ \A k \in 1..Len(a) : s[k] = b[k]
      BY <1>1, <3>1, FirstOf
    <3>3. \A k \in 1..Len(a) : a[k] = b[k]
      BY <1>1, <2>1, <3>1
    <3> HIDE DEF s
    <3>4. \A k \in 1..Len(a) : a[k] = s[k]
      BY <3>2, <3>3
    <3>5. a = s
      BY <1>1, <3>2, <3>4, SeqEqual
    <3>6. SubSeq(a, 1, Len(a)) = a
      BY <1>1
    <3> QED  BY <3>1, <3>5, <3>6 DEF IsPrefix, s
  <2>2. ASSUME IsPrefix(a, b) PROVE Agrees(1)
    <3>1. Len(a) <= Len(b) /\ SubSeq(a, 1, Len(a)) = SubSeq(b, 1, Len(a))
      BY <2>2 DEF IsPrefix
    <3>2. \A k \in 1..Len(a) : SubSeq(b, 1, Len(a))[k] = b[k]
      BY <1>1, <3>1, FirstOf
    <3>3. SubSeq(a, 1, Len(a)) = a
      BY <1>1
    <3>4. \A k \in 1..Len(a) : a[k] = b[k] /\ k \in 1..Len(b)
      BY <1>1, <3>1, <3>2, <3>3
    <3> QED  BY <1>1, <3>4
  <2> QED  BY <2>1, <2>2
<1>10. robotsMatch(a, b) = W[<<1, 1>>]
  BY DEF robotsMatch, W
<1> HIDE DEF Agrees
<1> QED  BY <1>8, <1>9, <1>10


\* A rule is a pattern that forbids what begins with it.
LEMMA RulesAreStarless ==
    ASSUME NEW file, WellWritten(file), NoPatterns(file), NEW i \in 1..Len(file),
           NEW r \in 1..Len(file[i].rules)
    PROVE  Starless(Meant(GoodToken(file[i].rules[r])))
<1> DEFINE w == file[i].rules[r]
           f == GoodToken(w)
<1>1. IsWord(w) /\ Plain(f) /\ w \in Seq(Chars) /\ w # <<>>
  BY FilesAre DEF IsWord
<1>2. \A j \in 1..Len(w) : w[j] = "*" => j = 1
  <2>1. i \in DOMAIN file /\ r \in DOMAIN file[i].rules /\ DOMAIN w = 1..Len(w)
    <3>1. file \in Seq(Records) /\ file[i].rules \in Seq(Seq(Chars))
      BY FilesAre
    <3> QED  BY <1>1, <3>1
  <2> QED  BY <2>1 DEF NoPatterns
<1> HIDE DEF w
<1>3. Tail(w) \in Seq(Chars) /\ Head(w) = w[1] /\ Len(w) \in Nat /\ Len(w) > 0
      /\ Len(Tail(w)) = Len(w) - 1 /\ \A j \in 1..Len(w) - 1 : Tail(w)[j] = w[j + 1]
  <2>1. Len(w) \in Nat /\ Len(w) > 0
    BY <1>1, EmptySeq
  <2> QED  BY <1>1, <2>1
<1>4. \A u : Starless(u) => Starless(<<"/">> \o u)
  <2>1. ASSUME NEW u, Starless(u) PROVE Starless(<<"/">> \o u)
    <3> DEFINE v == <<"/">>
               s == v \o u
    <3>1. v \in Seq(Chars) /\ Len(v) = 1 /\ v[1] = "/"
      BY UrlsAssumption
    <3>2. u \in Seq(Chars) /\ Len(u) \in Nat
      BY <2>1 DEF Starless
    <3> HIDE DEF v
    <3>3. /\ s \in Seq(Chars) /\ Len(s) = Len(v) + Len(u)
          /\ \A k \in 1..Len(v) + Len(u) : s[k] = IF k <= Len(v) THEN v[k] ELSE u[k - Len(v)]
      BY <3>1, <3>2, ConcatProperties
    <3> HIDE DEF s
    <3>4. \A k \in 1..Len(s) : s[k] = "/" \/ \E j \in 1..Len(u) : s[k] = u[j]
      <4>1. \A k \in 1..1 + Len(u) : k = 1 \/ (~(k <= 1) /\ k - 1 \in 1..Len(u))
        BY <3>2
      <4> QED  BY <3>1, <3>3, <4>1
    <3>5. "/" # "*"
      OBVIOUS
    <3>6. Starless(s)
      BY <2>1, <3>3, <3>4, <3>5 DEF Starless
    <3> QED  BY <3>6 DEF s, v
  <2> QED  BY <2>1
<1>5. Starless(f)
  <2>1. CASE Head(w) = "*"
    <3>1. Starless(Tail(w))
      <4>1. \A j \in 1..Len(w) - 1 : j + 1 \in 1..Len(w) /\ j + 1 # 1
        BY <1>3
      <4> QED  BY <1>2, <1>3, <4>1 DEF Starless
    <3> QED  BY <1>4, <2>1, <3>1 DEF GoodToken
  <2>2. CASE Head(w) # "*"
    <3>1. Starless(w)
      <4>1. 1 \in 1..Len(w)
        BY <1>3
      <4> QED  BY <1>1, <1>2, <1>3, <2>2, <4>1 DEF Starless
    <3>2. f = w \/ f = <<"/">> \o w
      BY <2>2 DEF GoodToken
    <3> HIDE DEF f
    <3> QED  BY <1>4, <3>1, <3>2
  <2> QED  BY <2>1, <2>2
<1>6. fileNormalize(f) = Meant(f) /\ Rooted(f)
  BY <1>1, RuleMeans
<1> HIDE DEF f
<1>7. Starless(Meant(f))
  BY <1>5, <1>6, NormalizeStarless
<1> QED  BY <1>7 DEF f, w

\* The verdict about a link is that of what is forbidden.
VerdictOf(l) ==
    l.verdict \in {"checked", "fastRobots"} =>
        /\ l.url # NoUrl
        /\ l.url.host = Here.host /\ l.url.port = Here.port /\ l.dns = "doneDns" =>
              (l.verdict = "fastRobots" <=> ~testRobots(l.url.file))

\* The links are those of the pages, which come after the robots.txt.
VInv ==
    /\ where # "page" => link = NoLink /\ state = "none"
    /\ where # "wait" => \E file \in RobotsFiles : asked.rules = Rules(file)
    /\ VerdictOf(link)

LEMMA NoLinkVerdict == VerdictOf(NoLink) /\ VerdictOf(NoLink)'
BY DEF VerdictOf, NoLink

LEMMA LinkVerdict ==
    ASSUME NEW says, NEW d, NEW r, manageUrl(says, d, r), forbidden' = forbidden
    PROVE  VerdictOf(link)'
<1> DEFINE u == url(says, base)
<1>1. PICK dns \in DnsStates :
        link' = [says |-> says, from |-> base, url |-> u, depth |-> LinkDepth(u, d),
                 dns |-> dns, verdict |-> Verdict(u, d, dns, r)]
  BY DEF manageUrl
<1> HIDE DEF u
<1>2. link'.url = u /\ link'.dns = dns /\ link'.verdict = Verdict(u, d, dns, r)
  BY <1>1
<1>3. ASSUME link'.verdict \in {"checked", "fastRobots"}
      PROVE  isValid(u) /\ link'.verdict = initOK(u, LinkDepth(u, d), dns)
  BY <1>2, <1>3 DEF Verdict
<1>4. isValid(u) => u # NoUrl
  BY DEF isValid, NoUrl
<1>5. ASSUME link'.verdict \in {"checked", "fastRobots"},
             u.host = Here.host, u.port = Here.port, dns = "doneDns"
      PROVE  link'.verdict = "fastRobots" <=> ~testRobots(u.file)
  BY <1>3, <1>5 DEF initOK
<1>6. testRobots(link.url.file)' <=> testRobots(u.file)
  BY <1>2 DEF testRobots
<1>7. link'.verdict \in {"checked", "fastRobots"} => link'.url # NoUrl
  BY <1>2, <1>3, <1>4
<1>8. /\ link'.verdict \in {"checked", "fastRobots"}
      /\ link'.url.host = Here.host /\ link'.url.port = Here.port /\ link'.dns = "doneDns"
      => (link'.verdict = "fastRobots" <=> ~testRobots(link.url.file)')
  BY <1>2, <1>5, <1>6
<1> QED  BY <1>7, <1>8 DEF VerdictOf


\* A step that parses no link.
LEMMA SameVerdict ==
    ASSUME VInv, UNCHANGED robotsVars, link' \in {link, NoLink},
           where # "page" => state' = "none"
    PROVE  VInv'
<1>1. where' = where /\ forbidden' = forbidden /\ asked' = asked
  BY DEF robotsVars
<1>2. CASE link' = link
  <2>1. VerdictOf(link)' <=> VerdictOf(link)
    BY <1>1, <1>2 DEF VerdictOf, testRobots
  <2> QED  BY <1>1, <1>2, <2>1 DEF VInv
<1>3. CASE link' = NoLink
  <2>1. VerdictOf(link)'
    BY <1>3 DEF VerdictOf, NoLink
  <2> QED  BY <1>1, <1>3, <2>1 DEF VInv
<1> QED  BY <1>2, <1>3

LEMMA LinkedVerdict ==
    ASSUME VInv, UNCHANGED robotsVars, state # "none",
           NEW says, NEW d, NEW r, manageUrl(says, d, r)
    PROVE  VInv'
<1>1. where' = where /\ forbidden' = forbidden /\ asked' = asked
  BY DEF robotsVars
<1>2. where = "page"
  BY DEF VInv
<1>3. VerdictOf(link)'
  BY <1>1, LinkVerdict
<1> QED  BY <1>1, <1>2, <1>3 DEF VInv

LEMMA NextVerdict == ASSUME VInv, [Next]_vars PROVE VInv'
<1> DEFINE Still == UNCHANGED robotsVars /\ link' \in {link, NoLink}
<1>1. CASE UNCHANGED vars
  <2>1. UNCHANGED robotsVars /\ link' = link /\ state' = state
    BY <1>1 DEF vars, pageVars
  <2> QED  BY <2>1, SameVerdict DEF VInv
<1>2. CASE RobotsNext /\ UNCHANGED pageVars
  <2>1. /\ where \in Loops \cup {"wait"} /\ where' \in Loops \cup {"end"}
        /\ link' = link /\ state' = state
    BY <1>2 DEF RobotsNext, Parse, UserAgent, RecordEnd, Agent, AgentsEnd, Skip, Disallow,
                Rule, RulesEnd, Other, EndOfText, Loops, pageVars
  <2>2. "page" \notin Loops \cup {"wait", "end"} /\ "wait" \notin Loops \cup {"end"}
    BY DEF Loops
  <2>3. link = NoLink /\ state = "none"
    BY <2>1, <2>2 DEF VInv
  <2>4. \E file \in RobotsFiles : asked'.rules = Rules(file)
    <3>1. CASE Parse
      BY <3>1 DEF Parse
    <3>2. CASE ~Parse
      <4>1. where # "wait" /\ asked' = asked
        BY <1>2, <3>2 DEF RobotsNext, UserAgent, RecordEnd, Agent, AgentsEnd, Skip, Disallow,
                          Rule, RulesEnd, Other, EndOfText, Same
      <4> QED  BY <4>1 DEF VInv
    <3> QED  BY <3>1, <3>2
  <2>5. VerdictOf(link)'
    BY <2>1, <2>3 DEF VerdictOf, NoLink
  <2> QED  BY <2>1, <2>2, <2>3, <2>4, <2>5 DEF VInv
<1>3. CASE StartPage
  <2>1. where' = "page" /\ link' = NoLink /\ where # "wait"
    BY <1>3 DEF StartPage
  <2>2. asked'.rules = asked.rules
    BY <1>3 DEF StartPage
  <2>3. VerdictOf(link)'
    BY <2>1 DEF VerdictOf, NoLink
  <2>4. \E file \in RobotsFiles : asked'.rules = Rules(file)
    BY <2>1, <2>2 DEF VInv
  <2> QED  BY <2>1, <2>3, <2>4 DEF VInv
<1>4. CASE Arrive
  BY <1>4, SameVerdict DEF Arrive, Unread, VInv
<1>5. CASE parseCmdline
  BY <1>5, SameVerdict DEF parseCmdline, Unread, VInv
<1>6. CASE parseHeader
  BY <1>6, SameVerdict DEF parseHeader, Unread, VInv
<1>7. CASE parseHeader30X
  <2>1. UNCHANGED robotsVars /\ state # "none"
    BY <1>7 DEF parseHeader30X, Unread
  <2>2. where = "page"
    BY <2>1 DEF VInv
  <2>3. link' = link \/ \E says \in Redirects : manageUrl(says, depth, TRUE)
    BY <1>7 DEF parseHeader30X
  <2> QED  BY <2>1, <2>2, <2>3, SameVerdict, LinkedVerdict
<1>8. CASE InputEnd
  BY <1>8, SameVerdict DEF InputEnd, Unread, VInv
<1>9. CASE endInput
  BY <1>9, SameVerdict DEF endInput, Unread, VInv, HeaderStates
<1>10. CASE Fails
  BY <1>10, SameVerdict DEF Fails, Unread, VInv, HeaderStates
<1>11. CASE Link
  <2>1. UNCHANGED robotsVars /\ state # "none"
    BY <1>11 DEF Link
  <2>2. PICK says \in Links : manageUrl(says, depth - 1, FALSE)
    BY <1>11 DEF Link
  <2> QED  BY <2>1, <2>2, LinkedVerdict
<1>12. CASE Base
  BY <1>12, SameVerdict DEF Base, VInv
<1>13. CASE NextTag
  BY <1>13, SameVerdict DEF NextTag, VInv
<1>14. CASE EndOfPage
  BY <1>14, SameVerdict DEF EndOfPage, VInv
<1> QED
  BY <1>1, <1>2, <1>3, <1>4, <1>5, <1>6, <1>7, <1>8, <1>9, <1>10, <1>11, <1>12,
     <1>13, <1>14 DEF Next

\* The record that concerns the program, if there is one, is one of the file.
LEMMA ConcerningIn ==
    ASSUME NEW file, WellWritten(file)
    PROVE  Concerning(file) = 0 \/ Concerning(file) \in 1..Len(file)
<1> DEFINE strong == NamingUs(file)
           weak == NamingAll(file)
<1>1. Len(file) \in Nat /\ DOMAIN file = 1..Len(file) /\ file \in Seq(Records)
  BY FilesAre
<1>2. strong \in SUBSET Nat /\ strong \subseteq 1..Len(file)
      /\ weak \in SUBSET (0..Len(file)) /\ weak \subseteq 1..Len(file)
  BY <1>1 DEF NamingUs, NamingAll
<1>3. Concerning(file) = IF strong # {} THEN Min(strong) ELSE IF weak # {} THEN Max(weak)
                         ELSE IF file # <<>> /\ file[1].agents = <<>> THEN 1 ELSE 0
  BY DEF Concerning, Star
<1> HIDE DEF strong, weak
<1>4. CASE strong # {}
  <2>1. Min(strong) \in strong
    BY <1>2, <1>4, MinIs
  <2> QED  BY <1>2, <1>3, <1>4, <2>1
<1>5. CASE strong = {} /\ weak # {}
  <2>1. Max(weak) \in weak
    BY <1>1, <1>2, <1>5, MaxIs
  <2> QED  BY <1>2, <1>3, <1>5, <2>1
<1>6. CASE strong = {} /\ weak = {}
  <2>1. file # <<>> => 1 \in 1..Len(file)
    BY <1>1, EmptySeq
  <2>2. Concerning(file) = IF file # <<>> /\ file[1].agents = <<>> THEN 1 ELSE 0
    BY <1>3, <1>6
  <2> QED  BY <2>1, <2>2
<1> QED  BY <1>4, <1>5, <1>6

\* What the rules of a file mean are patterns that forbid what begins with them.
LEMMA MeantStarless ==
    ASSUME NEW file, WellWritten(file), NoPatterns(file)
    PROVE  \A i \in DOMAIN RulesMeant(Rules(file)) : Starless(RulesMeant(Rules(file))[i])
<1> DEFINE q == Rules(file)
           A == {w \in Seq(Chars) : Starless(Meant(GoodToken(w)))}
<1>1. q \in Seq(A)
  <2> DEFINE i == Concerning(file)
  <2>1. CASE i = 0
    <3>1. q = <<>>
      BY <2>1 DEF Rules
    <3> HIDE DEF q, A
    <3> QED  BY <3>1
  <2>2. CASE i \in 1..Len(file)
    <3>1. i # 0
      BY <2>2, FilesAre
    <3>2. q = file[i].rules
      BY <3>1 DEF Rules
    <3>3. q \in Seq(Seq(Chars)) /\ Len(q) \in Nat
      BY <2>2, <3>2, FilesAre
    <3> HIDE DEF i
    <3>4. \A r \in 1..Len(q) : Starless(Meant(GoodToken(q[r])))
      BY <2>2, <3>2, RulesAreStarless
    <3> HIDE DEF q
    <3>5. \A r \in 1..Len(q) : q[r] \in A
      BY <3>3, <3>4
    <3> HIDE DEF A
    <3>6. q \in [1..Len(q) -> A]
      BY <3>3, <3>5
    <3> QED  BY <3>3, <3>6
  <2> QED  BY <2>1, <2>2, ConcerningIn
<1> HIDE DEF q
<1>2. RulesMeant(q) \in Seq(MeaningsOf(A))
  <2> HIDE DEF A
  <2> QED  BY <1>1, RulesMeantIs
<1>3. \A m \in MeaningsOf(A) : Starless(m)
  BY DEF MeaningsOf
<1>4. \A i \in DOMAIN RulesMeant(q) : RulesMeant(q)[i] \in MeaningsOf(A)
  <2> HIDE DEF A
  <2> QED  BY <1>2
<1> QED  BY <1>3, <1>4 DEF q

\* The second theorem is about files without patterns.
NoPatternsAsked == \A file \in RobotsFiles : NoPatterns(file)

LEMMA VerdictObeys ==
    ASSUME FilesAreWellWritten, NoPatternsAsked, RInv, VInv, NamesInv
    PROVE  RobotsObeyed
<1> SUFFICES ASSUME link.verdict \in {"checked", "fastRobots"}, link.dns = "doneDns",
                    link.url.host = Here.host, link.url.port = Here.port,
                    asked.whole, Plain(Named)
             PROVE  link.verdict = "fastRobots" <=> Covered
  BY DEF RobotsObeyed
<1>1. /\ link.url # NoUrl
      /\ link.verdict = "fastRobots" <=> ~testRobots(link.url.file)
  BY DEF VInv, VerdictOf
<1>2. where = "page"
  <2>1. NoLink.verdict \notin {"checked", "fastRobots"}
    BY DEF NoLink
  <2> QED  BY <2>1 DEF VInv
<1>3. forbidden = RulesMeant(asked.rules)
  BY <1>2 DEF RInv
<1>4. PICK file \in RobotsFiles : asked.rules = Rules(file)
  BY <1>2 DEF VInv
<1>5. \A i \in DOMAIN forbidden : Starless(forbidden[i])
  <2>1. WellWritten(file) /\ NoPatterns(file)
    BY DEF FilesAreWellWritten, NoPatternsAsked
  <2> QED  BY <1>3, <1>4, <2>1, MeantStarless
<1>6. link.url.file = Meant(Named)
  BY <1>1, LinkMeans DEF NamesResolved
<1>7. link.url.file \in Seq(Chars)
  <2> DEFINE u == url(link.says, link.from)
  <2>1. link.says \in Seq(Chars) /\ BaseOk(link.from) /\ link.url = u
    BY <1>1 DEF NamesInv, LinkOf
  <2>2. IsUrl(u)
    BY <1>1, <2>1, UrlNames
  <2> HIDE DEF u
  <2> QED  BY <2>1, <2>2 DEF IsUrl, Rooted
<1>8. \A i \in DOMAIN forbidden :
        robotsMatch(forbidden[i], link.url.file) <=> IsPrefix(forbidden[i], link.url.file)
  BY <1>5, <1>7, MatchIsPrefix
<1>9. ~testRobots(link.url.file) <=> \E i \in DOMAIN forbidden : IsPrefix(forbidden[i], link.url.file)
  BY <1>8 DEF testRobots
<1>10. Covered <=> \E i \in DOMAIN forbidden : IsPrefix(forbidden[i], link.url.file)
  BY <1>3, <1>6 DEF Covered
<1> QED  BY <1>1, <1>9, <1>10

\* A link of the site is refused iff the rules of the robots.txt for the program
\* forbid it, however it is spelled, plainly, in the page and in the file, when
\* that came whole, is well written and has no patterns (url::initOK, NamedSite::testRobots, robotsMatch).
THEOREM RobotsAreObeyed ==
    ASSUME FilesAreWellWritten, NoPatternsAsked
    PROVE  Spec => []RobotsObeyed
<1>1. Init => RInv /\ VInv /\ NamesInv
  <2>1. Init => RInv
    BY RInvInit DEF Init
  <2>2. Init => VInv
    BY NoLinkVerdict DEF Init, RobotsInit, VInv
  <2>3. Init => NamesInv
    BY NoLinkNames DEF Init, NamesInv, BaseOk
  <2> QED  BY <2>1, <2>2, <2>3
<1>2. RInv /\ VInv /\ NamesInv /\ [Next]_vars => (RInv /\ VInv /\ NamesInv)'
  BY RInvStep, NextVerdict, NextNames
<1>3. RInv /\ VInv /\ NamesInv => RobotsObeyed
  BY VerdictObeys
<1> QED  BY <1>1, <1>2, <1>3, PTL DEF Spec

=============================================================================
