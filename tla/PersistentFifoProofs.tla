------------------------ MODULE PersistentFifoProofs ------------------------
(***************************************************************************)
(* What TLAPS proves of the fifo on disk (PersistentFifo): its buffers and  *)
(* its files are one queue of urls, for lines of any length, buffers and     *)
(* files of any size and any number of names.  The text not read yet is, in  *)
(* the order of the files, a sequence of whole lines in each file, as many    *)
(* as the counters in and out say: what a read or a flush cuts is in a buffer *)
(* of the same file, and a file ends where a line ends.                      *)
(***************************************************************************)
EXTENDS PersistentFifo, QueueLemmas

-----------------------------------------------------------------------------
(* Lines *)

Pieces == Items \X Nat

LineOf == [u \in Items |-> Line(u)]

\* The lines of urls
Lines(q) == Texts(LineOf, q)

\* A line is not empty, its pieces name its url, and its last one alone has the
\* newline.
LEMMA LineType ==
    ASSUME NEW u \in Items
    PROVE  /\ LineLen[u] \in Nat \ {0}
           /\ Line(u) \in Seq(Pieces) /\ Len(Line(u)) = LineLen[u]
           /\ \A i \in 1..LineLen[u] :
                Line(u)[i][1] = u /\ (Newline(Line(u)[i]) <=> i = LineLen[u])
  <1>1. LineLen[u] \in Nat \ {0}
    <2>1. LineLen[u] \in 1..MaxLine /\ MaxLine \in Nat
      BY PersistentAssumption
    <2> QED BY <2>1
  <1>2. Line(u) \in [1..LineLen[u] -> Pieces]
    BY <1>1 DEF Line, Pieces
  <1>3. Line(u) \in Seq(Pieces) /\ Len(Line(u)) = LineLen[u]
    BY <1>1, <1>2, SeqDef
  <1>4. ASSUME NEW i \in 1..LineLen[u]
        PROVE  Line(u)[i][1] = u /\ (Newline(Line(u)[i]) <=> i = LineLen[u])
    <2>1. Line(u)[i] = <<u, i>>
      BY DEF Line
    <2> QED BY <2>1 DEF Newline
  <1> QED BY <1>1, <1>3, <1>4

\* What a line is read back as.
LEMMA LineParsed ==
    ASSUME NEW u \in Items
    PROVE  /\ Parsed(Line(u)) = u
           /\ \A v \in Items : Line(v) = Line(u) => v = u
  <1>1. ASSUME NEW v \in Items, Line(v) = Line(u) PROVE v = u
    <2>1. 1 \in 1..LineLen[u] /\ 1 \in 1..LineLen[v]
      BY LineType
    <2>2. Line(u)[1][1] = u /\ Line(v)[1][1] = v
      BY <2>1, LineType
    <2> QED BY <1>1, <2>2
  <1>2. Parsed(Line(u)) \in Items /\ Line(u) = Line(Parsed(Line(u)))
    BY DEF Parsed
  <1> QED BY <1>1, <1>2

\* Lines are texts.
LEMMA LinesType ==
    /\ LineOf \in [Items -> Seq(Pieces)]
    /\ \A q \in Seq(Items) : HasTexts(Pieces, Items, LineOf, q) /\ Lines(q) \in Seq(Pieces)
  <1>1. LineOf \in [Items -> Seq(Pieces)]
    BY LineType DEF LineOf
  <1>2. ASSUME NEW q \in Seq(Items)
        PROVE  HasTexts(Pieces, Items, LineOf, q) /\ Lines(q) \in Seq(Pieces)
    <2>1. HasTexts(Pieces, Items, LineOf, q)
      BY <1>1 DEF HasTexts
    <2>2. Texts(LineOf, q) \in Seq(Pieces)
      BY <2>1, TextsType, Zenon
    <2> QED BY <2>1, <2>2 DEF Lines
  <1> QED BY <1>1, <1>2

\* No urls, no lines.
LEMMA LinesOfNone == Lines(<<>>) = <<>>
BY TextsOfNone DEF Lines

\* The line of a url more comes last.
LEMMA LinesAppend ==
    ASSUME NEW q \in Seq(Items), NEW u \in Items
    PROVE  Append(q, u) \in Seq(Items) /\ Lines(Append(q, u)) = Lines(q) \o Line(u)
  <1>1. HasTexts(Pieces, Items, LineOf, q)
    BY LinesType
  <1>2. Texts(LineOf, Append(q, u)) = Texts(LineOf, q) \o LineOf[u]
    BY <1>1, TextsAppend
  <1>3. LineOf[u] = Line(u) /\ Append(q, u) \in Seq(Items)
    BY AppendProperties DEF LineOf
  <1> QED BY <1>2, <1>3 DEF Lines

\* The line of the first url comes first.
LEMMA LinesHead ==
    ASSUME NEW q \in Seq(Items), q # <<>>
    PROVE  /\ Head(q) \in Items /\ Tail(q) \in Seq(Items) /\ Len(Tail(q)) = Len(q) - 1
           /\ Lines(q) = Line(Head(q)) \o Lines(Tail(q))
  <1>1. HasTexts(Pieces, Items, LineOf, q)
    BY LinesType
  <1>2. Texts(LineOf, q) = LineOf[Head(q)] \o Texts(LineOf, Tail(q))
    BY <1>1, TextsHead
  <1>3. Head(q) \in Items /\ Tail(q) \in Seq(Items) /\ Len(Tail(q)) = Len(q) - 1
    BY HeadTailProperties
  <1>4. LineOf[Head(q)] = Line(Head(q))
    BY <1>3 DEF LineOf
  <1> QED BY <1>2, <1>3, <1>4 DEF Lines

\* A text of lines is empty when there are no urls only.
LEMMA LinesEmpty ==
    ASSUME NEW q \in Seq(Items)
    PROVE  Lines(q) = <<>> <=> q = <<>>
  <1>1. ASSUME q # <<>> PROVE Lines(q) # <<>>
    <2>1. /\ Head(q) \in Items /\ Tail(q) \in Seq(Items)
          /\ Lines(q) = Line(Head(q)) \o Lines(Tail(q))
      BY <1>1, LinesHead
    <2> DEFINE a == Line(Head(q))
               b == Lines(Tail(q))
    <2>2. a \in Seq(Pieces) /\ b \in Seq(Pieces) /\ Len(a) \in Nat \ {0} /\ Len(b) \in Nat
      BY <2>1, LineType, LinesType, LenProperties
    <2> HIDE DEF a, b
    <2>3. Len(a \o b) = Len(a) + Len(b)
      BY <2>2, ConcatProperties
    <2>4. Len(a \o b) # 0
      BY <2>2, <2>3
    <2>5. a \o b # <<>>
      BY <2>4
    <2> QED BY <2>1, <2>5 DEF a, b
  <1> QED BY <1>1, LinesOfNone

-----------------------------------------------------------------------------
(* The urls of a text *)

\* g gives the urls whose lines end in the first pieces of a text.
Reads(text, g) ==
    /\ g \in [0..Len(text) -> Seq(Items)]
    /\ g[0] = <<>>
    /\ \A i \in 1..Len(text) :
         g[i] = IF Newline(text[i]) THEN Append(g[i - 1], text[i][1]) ELSE g[i - 1]

\* UrlsOf gives what any such function ends with.
LEMMA UrlsOfReads ==
    ASSUME NEW text \in Seq(Pieces), NEW g, Reads(text, g)
    PROVE  UrlsOf(text) = g[Len(text)]
  <1> DEFINE n == Len(text)
             F(f) == f = [i \in 0..n |->
                            IF i = 0 THEN <<>>
                            ELSE IF Newline(text[i]) THEN Append(f[i - 1], text[i][1])
                            ELSE f[i - 1]]
  <1>0. n \in Nat
    BY LenProperties
  <1>1. UrlsOf(text) = (CHOOSE f : F(f))[n]
    BY DEF UrlsOf
  <1>2. F(g)
    <2>1. /\ g \in [0..n -> Seq(Items)] /\ g[0] = <<>>
          /\ \A i \in 1..n : g[i] = IF Newline(text[i]) THEN Append(g[i - 1], text[i][1])
                                    ELSE g[i - 1]
      BY DEF Reads
    <2> HIDE DEF n
    <2>2. \A i \in 0..n : g[i] = IF i = 0 THEN <<>>
                                 ELSE IF Newline(text[i]) THEN Append(g[i - 1], text[i][1])
                                 ELSE g[i - 1]
      <3>1. \A i \in 0..n : i = 0 \/ (i # 0 /\ i \in 1..n)
        BY <1>0
      <3> QED BY <2>1, <3>1
    <2>3. g = [i \in 0..n |-> g[i]]
      BY <2>1
    <2> QED BY <2>2, <2>3
  <1>3. ASSUME NEW f, F(f) PROVE f[n] = g[n]
    <2> DEFINE T == {k \in Nat : k \in 0..n => f[k] = g[k]}
    <2>1. \A i \in 0..n : f[i] = IF i = 0 THEN <<>>
                                 ELSE IF Newline(text[i]) THEN Append(f[i - 1], text[i][1])
                                 ELSE f[i - 1]
      BY <1>3
    <2>2. \A i \in 0..n : g[i] = IF i = 0 THEN <<>>
                                 ELSE IF Newline(text[i]) THEN Append(g[i - 1], text[i][1])
                                 ELSE g[i - 1]
      BY <1>2
    <2> HIDE DEF n
    <2>3. 0 \in T
      BY <2>1, <2>2
    <2>4. ASSUME NEW k \in T PROVE k + 1 \in T
      <3>1. k \in Nat /\ k + 1 # 0 /\ (k + 1) - 1 = k
        OBVIOUS
      <3>2. k + 1 \in 0..n => k \in 0..n
        BY <1>0, <3>1
      <3>3. k + 1 \in 0..n => f[k] = g[k]
        BY <3>2
      <3>4. k + 1 \in 0..n => f[k + 1] = g[k + 1]
        BY <2>1, <2>2, <3>1, <3>3
      <3> QED BY <3>1, <3>4
    <2>5. T = Nat
      <3> HIDE DEF T
      <3>1. T \in SUBSET Nat
        BY DEF T
      <3> QED BY <2>3, <2>4, <3>1, Induct
    <2>6. n \in T /\ n \in 0..n
      <3> HIDE DEF T
      <3> QED BY <1>0, <2>5
    <2> QED BY <2>6
  <1> HIDE DEF F, n
  <1>4. F(CHOOSE f : F(f))
    BY <1>2
  <1>5. (CHOOSE f : F(f))[n] = g[n]
    BY <1>3, <1>4
  <1> QED BY <1>1, <1>5 DEF n

\* A line more in a text is a url more.
LEMMA ReadsLine ==
    ASSUME NEW s \in Seq(Pieces), NEW f, Reads(s, f), NEW u \in Items
    PROVE  \E g : Reads(s \o Line(u), g) /\ g[Len(s \o Line(u))] = Append(f[Len(s)], u)
  <1> DEFINE l == Line(u)
             t == s \o l
             n == Len(s)
             m == LineLen[u]
             a == f[n]
             g == [i \in 0..n + m |-> IF i <= n THEN f[i]
                                      ELSE IF i = n + m THEN Append(a, u) ELSE a]
  <1>1. /\ m \in Nat \ {0} /\ l \in Seq(Pieces) /\ Len(l) = m
        /\ \A i \in 1..m : l[i][1] = u /\ (Newline(l[i]) <=> i = m)
    BY LineType
  <1>2. n \in Nat
    BY LenProperties
  <1> HIDE DEF l, m
  <1>3. /\ t \in Seq(Pieces) /\ Len(t) = n + m
        /\ \A i \in 1..n + m : t[i] = IF i <= n THEN s[i] ELSE l[i - n]
    BY <1>1, ConcatProperties
  <1>4. /\ f \in [0..n -> Seq(Items)] /\ f[0] = <<>>
        /\ \A i \in 1..n : f[i] = IF Newline(s[i]) THEN Append(f[i - 1], s[i][1]) ELSE f[i - 1]
    BY DEF Reads
  <1> HIDE DEF n, t
  <1>5. a \in Seq(Items) /\ Append(a, u) \in Seq(Items)
    <2>1. n \in 0..n
      BY <1>2
    <2>2. a \in Seq(Items)
      BY <1>4, <2>1
    <2> QED BY <2>2, AppendProperties
  <1>6. /\ g \in [0..n + m -> Seq(Items)]
        /\ \A i \in 0..n : g[i] = f[i]
        /\ \A i \in n..n + m : i # n + m => g[i] = a
        /\ g[n + m] = Append(a, u)
    <2>1. g \in [0..n + m -> Seq(Items)]
      BY <1>1, <1>2, <1>4, <1>5
    <2>2. \A i \in 0..n : g[i] = f[i]
      BY <1>1, <1>2
    <2>3. \A i \in n..n + m : i # n + m => g[i] = a
      <3>1. \A i \in n..n + m : i \in 0..n + m /\ (i <= n => i = n)
        BY <1>1, <1>2
      <3> QED BY <3>1
    <2>4. g[n + m] = Append(a, u)
      <3>1. n + m \in 0..n + m /\ ~(n + m <= n)
        BY <1>1, <1>2
      <3> HIDE DEF a
      <3> QED BY <3>1
    <2> QED BY <2>1, <2>2, <2>3, <2>4
  <1> HIDE DEF g, a
  <1>7. ASSUME NEW i \in 1..n + m
        PROVE  g[i] = IF Newline(t[i]) THEN Append(g[i - 1], t[i][1]) ELSE g[i - 1]
    <2>1. CASE i <= n
      <3>1. i \in 1..n /\ i \in 0..n /\ i - 1 \in 0..n
        BY <1>2, <2>1
      <3>2. t[i] = s[i] /\ g[i] = f[i] /\ g[i - 1] = f[i - 1]
        BY <1>3, <1>6, <2>1, <3>1
      <3>3. f[i] = IF Newline(s[i]) THEN Append(f[i - 1], s[i][1]) ELSE f[i - 1]
        BY <1>4, <3>1
      <3> QED BY <3>2, <3>3
    <2>2. CASE ~(i <= n)
      <3>1. /\ i - n \in 1..m /\ i - 1 \in n..n + m /\ i - 1 # n + m
            /\ i \in n..n + m /\ (i - n = m <=> i = n + m)
        BY <1>1, <1>2, <2>2
      <3>2. t[i] = l[i - n]
        BY <1>3, <2>2
      <3>3. t[i][1] = u /\ (Newline(t[i]) <=> i = n + m)
        BY <1>1, <3>1, <3>2
      <3>4. g[i - 1] = a
        BY <1>6, <3>1
      <3>5. g[i] = IF i = n + m THEN Append(a, u) ELSE a
        BY <1>6, <3>1
      <3> QED BY <3>3, <3>4, <3>5
    <2> QED BY <2>1, <2>2
  <1>8. g[0] = <<>>
    <2>1. 0 \in 0..n
      BY <1>2
    <2> QED BY <1>4, <1>6, <2>1
  <1>9. Reads(t, g)
    BY <1>3, <1>6, <1>7, <1>8 DEF Reads
  <1>10. g[Len(t)] = Append(f[Len(s)], u)
    BY <1>3, <1>6 DEF a, n
  <1> QED BY <1>9, <1>10 DEF t, l

\* The urls of the lines of urls are those urls.
LEMMA UrlsOfLines ==
    ASSUME NEW q \in Seq(Items)
    PROVE  UrlsOf(Lines(q)) = q
  <1> DEFINE P(s) == \E g : Reads(Lines(s), g) /\ g[Len(Lines(s))] = s
             T == {n \in Nat : \A s \in Seq(Items) : Len(s) = n => P(s)}
  <1>1. 0 \in T
    <2> SUFFICES ASSUME NEW s \in Seq(Items), Len(s) = 0 PROVE P(s)
      OBVIOUS
    <2>1. s = <<>> /\ Lines(s) = <<>> /\ Len(<<>>) = 0
      BY LinesOfNone, EmptySeq
    <2> DEFINE g == [i \in 0..0 |-> <<>>]
    <2>2. g \in [0..0 -> Seq(Items)] /\ g[0] = <<>>
      BY EmptySeq
    <2>3. \A i \in 1..0 : FALSE
      OBVIOUS
    <2> HIDE DEF g
    <2>4. Reads(<<>>, g)
      BY <2>1, <2>2, <2>3 DEF Reads
    <2> QED BY <2>1, <2>2, <2>4
  <1>2. ASSUME NEW n \in T PROVE n + 1 \in T
    <2> SUFFICES ASSUME NEW s \in Seq(Items), Len(s) = n + 1 PROVE P(s)
      OBVIOUS
    <2>0. n \in Nat
      OBVIOUS
    <2> DEFINE f == SubSeq(s, 1, n)
               x == s[n + 1]
               r == Append(f, x)
    <2>1. f \in Seq(Items) /\ Len(f) = n /\ \A i \in 1..n : f[i] = s[i]
      <3>1. n <= Len(s)
        BY <2>0
      <3> QED BY <2>0, <3>1, FirstOf
    <2>2. x \in Items
      <3>1. n + 1 \in 1..Len(s)
        BY <2>0
      <3> QED BY <3>1, ElementOfSeq
    <2>3. P(f)
      BY <2>1
    <2> HIDE DEF f
    <2>4. s = r
      <3>1. /\ r \in Seq(Items) /\ Len(r) = n + 1 /\ r[n + 1] = x
            /\ \A i \in 1..n : r[i] = f[i]
        BY <2>1, <2>2, AppendProperties
      <3>2. \A i \in 1..n + 1 : i = n + 1 \/ i \in 1..n
        BY <2>0
      <3> HIDE DEF r
      <3>3. \A i \in 1..Len(s) : s[i] = r[i]
        BY <2>1, <3>1, <3>2
      <3> QED BY <3>1, <3>3, SeqEqual
    <2> HIDE DEF x
    <2>5. Lines(s) = Lines(f) \o Line(x) /\ Lines(f) \in Seq(Pieces)
      <3>1. Lines(r) = Lines(f) \o Line(x)
        BY <2>1, <2>2, LinesAppend
      <3>2. Lines(f) \in Seq(Pieces)
        BY <2>1, LinesType
      <3> HIDE DEF r
      <3> QED BY <2>4, <3>1, <3>2
    <2>6. PICK h : Reads(Lines(f), h) /\ h[Len(Lines(f))] = f
      BY <2>3
    <2>7. \E g : Reads(Lines(f) \o Line(x), g) /\ g[Len(Lines(f) \o Line(x))] = Append(f, x)
      <3> DEFINE t == Lines(f)
      <3>1. t \in Seq(Pieces) /\ Reads(t, h) /\ h[Len(t)] = f
        BY <2>5, <2>6
      <3> HIDE DEF t
      <3>2. \E g : Reads(t \o Line(x), g) /\ g[Len(t \o Line(x))] = Append(h[Len(t)], x)
        BY <2>2, <3>1, ReadsLine
      <3> QED BY <3>1, <3>2 DEF t
    <2> QED BY <2>4, <2>5, <2>7
  <1>3. T = Nat
    <2> HIDE DEF T
    <2>1. T \in SUBSET Nat
      BY DEF T
    <2> QED BY <1>1, <1>2, <2>1, Induct
  <1>4. P(q)
    <2>1. Len(q) \in T
      <3> HIDE DEF T
      <3> QED BY <1>3, LenProperties
    <2> QED BY <2>1
  <1>5. PICK g : Reads(Lines(q), g) /\ g[Len(Lines(q))] = q
    BY <1>4
  <1>6. Lines(q) \in Seq(Pieces)
    BY LinesType
  <1> QED BY <1>5, <1>6, UrlsOfReads


-----------------------------------------------------------------------------
(* The files, in their order *)

\* The place of the last file, from the first; the k-th after the first
LastNb == (fin + Names - fout) % Names
Named(k) == makeName(fout + k)

NamesInv == fin \in 0..Names - 1 /\ fout \in 0..Names - 1

\* Names go round: those of the files are different.
LEMMA NamesOf ==
    NamesInv =>
        /\ LastNb = IF fout <= fin THEN fin - fout ELSE fin + Names - fout
        /\ LastNb \in 0..Names - 1
        /\ \A k \in 0..Names - 1 :
             /\ Named(k) = IF fout + k < Names THEN fout + k ELSE fout + k - Names
             /\ Named(k) \in 0..Names - 1
             /\ Named(k) = fin <=> k = LastNb
        /\ \A j, k \in 0..Names - 1 : Named(j) = Named(k) => j = k
        /\ Named(0) = fout
        /\ makeName(fin + 1) = IF fin + 1 < Names THEN fin + 1 ELSE 0
        /\ makeName(fout + 1) = IF fout + 1 < Names THEN fout + 1 ELSE 0
  <1> SUFFICES ASSUME NamesInv
               PROVE  /\ LastNb = IF fout <= fin THEN fin - fout ELSE fin + Names - fout
                      /\ LastNb \in 0..Names - 1
                      /\ \A k \in 0..Names - 1 :
                           /\ Named(k) = IF fout + k < Names THEN fout + k ELSE fout + k - Names
                           /\ Named(k) \in 0..Names - 1
                           /\ Named(k) = fin <=> k = LastNb
                      /\ \A j, k \in 0..Names - 1 : Named(j) = Named(k) => j = k
                      /\ Named(0) = fout
                      /\ makeName(fin + 1) = IF fin + 1 < Names THEN fin + 1 ELSE 0
                      /\ makeName(fout + 1) = IF fout + 1 < Names THEN fout + 1 ELSE 0
    OBVIOUS
  <1>1. Names \in Nat \ {0} /\ fin \in 0..Names - 1 /\ fout \in 0..Names - 1
    BY PersistentAssumption DEF NamesInv
  <1> DEFINE M(x) == x % Names
  <1>2. \A x \in 0..2 * Names - 1 : M(x) = IF x < Names THEN x ELSE x - Names
    BY <1>1, ModRing
  <1>3. /\ LastNb = M(fin + Names - fout)
        /\ \A k : Named(k) = M(fout + k)
        /\ makeName(fin + 1) = M(fin + 1) /\ makeName(fout + 1) = M(fout + 1)
    BY DEF LastNb, Named, makeName
  <1> HIDE DEF M
  <1>4. /\ LastNb = IF fout <= fin THEN fin - fout ELSE fin + Names - fout
        /\ LastNb \in 0..Names - 1
    BY <1>1, <1>2, <1>3
  <1>5. \A k \in 0..Names - 1 :
          /\ Named(k) = IF fout + k < Names THEN fout + k ELSE fout + k - Names
          /\ Named(k) \in 0..Names - 1
    BY <1>1, <1>2, <1>3
  <1>6. \A k \in 0..Names - 1 : Named(k) = fin <=> k = LastNb
    BY <1>1, <1>4, <1>5
  <1>7. \A j, k \in 0..Names - 1 : Named(j) = Named(k) => j = k
    BY <1>1, <1>5
  <1>8. Named(0) = fout
    BY <1>1, <1>5
  <1>9. makeName(fin + 1) = IF fin + 1 < Names THEN fin + 1 ELSE 0
    BY <1>1, <1>2, <1>3
  <1>10. makeName(fout + 1) = IF fout + 1 < Names THEN fout + 1 ELSE 0
    BY <1>1, <1>2, <1>3
  <1> QED BY <1>4, <1>5, <1>6, <1>7, <1>8, <1>9, <1>10

\* What is not read yet of the first file, what is in the k-th after it, and this
\* with what is not written yet.
FirstPart == RestOf(buf, bufPos) \o RestOf(files[fout], rpos)
Part(k) == IF k = 0 THEN FirstPart ELSE files[Named(k)]
Whole(k) == IF k = LastNb THEN Part(k) \o outbuf ELSE Part(k)
Wholes == [i \in 1..LastNb + 1 |-> Whole(i - 1)]

\* The type invariant: the counters, the names, and where the buffers stand.
TypeInv ==
    /\ in \in Nat /\ out \in 0..UrlByFile - 1
    /\ NamesInv
    /\ \A f \in DOMAIN files : files[f] \in Seq(Pieces)
    /\ \A k \in 0..LastNb : Named(k) \in DOMAIN files
    /\ HasRest(Pieces, buf, bufPos)
    /\ HasRest(Pieces, files[fout], rpos)
    /\ outbuf \in Seq(Pieces)

\* z is made of t, the sequences of m, and b after the last.
Glued(t, m, b, z) ==
    /\ t \in Seq(Pieces) /\ m \in Seq(Seq(Pieces)) /\ b \in Seq(Pieces)
    /\ z \in Seq(Seq(Pieces)) /\ Len(z) = Len(m) + 1
    /\ \A i \in 1..Len(z) :
         z[i] = LET p == IF i = 1 THEN t ELSE m[i - 1] IN IF i = Len(z) THEN p \o b ELSE p

LEMMA FlattenGlued ==
    ASSUME NEW t, NEW m, NEW b, NEW z, Glued(t, m, b, z)
    PROVE  FlattenSeq(z) = (t \o FlattenSeq(m)) \o b
  <1>0. /\ t \in Seq(Pieces) /\ m \in Seq(Seq(Pieces)) /\ b \in Seq(Pieces)
        /\ z \in Seq(Seq(Pieces)) /\ Len(z) = Len(m) + 1
        /\ \A i \in 1..Len(z) :
             z[i] = LET p == IF i = 1 THEN t ELSE m[i - 1]
                    IN  IF i = Len(z) THEN p \o b ELSE p
    BY DEF Glued
  <1> DEFINE o == <<t>>
             y == o \o m
  <1>1. o \in Seq(Seq(Pieces)) /\ Len(o) = 1 /\ o[1] = t /\ Len(m) \in Nat
    BY <1>0, LenProperties
  <1> HIDE DEF o
  <1>2. /\ y \in Seq(Seq(Pieces)) /\ Len(y) = 1 + Len(m)
        /\ \A i \in 1..1 + Len(m) : y[i] = IF i <= 1 THEN o[i] ELSE m[i - 1]
    <2>1. /\ y \in Seq(Seq(Pieces)) /\ Len(y) = Len(o) + Len(m)
          /\ \A i \in 1..Len(o) + Len(m) : y[i] = IF i <= Len(o) THEN o[i] ELSE m[i - Len(o)]
      <3>1. o \in Seq(Seq(Pieces)) /\ m \in Seq(Seq(Pieces))
        BY <1>0, <1>1
      <3> QED BY ONLY <3>1, ConcatProperties
    <2> HIDE DEF y
    <2> QED BY <1>1, <2>1
  <1>3. FlattenSeq(y) = t \o FlattenSeq(m)
    <2>1. FlattenSeq(y) = FlattenSeq(o) \o FlattenSeq(m)
      BY <1>0, <1>1, FlattenConcat
    <2>2. FlattenSeq(o) = t
      BY <1>0, FlattenOne DEF o
    <2> QED BY <2>1, <2>2
  <1> HIDE DEF y
  <1>4. LastGrows(Pieces, y, z, b)
    <2>1. Len(y) = Len(z) /\ Len(y) # 0
      BY <1>0, <1>1, <1>2
    <2>2. ASSUME NEW i \in 1..Len(y) PROVE z[i] = IF i = Len(y) THEN y[i] \o b ELSE y[i]
      <3>1. y[i] = IF i = 1 THEN t ELSE m[i - 1]
        <4>1. i \in 1..1 + Len(m) /\ (i <= 1 <=> i = 1)
          BY <1>1, <1>2
        <4> QED BY <1>1, <1>2, <4>1
      <3>2. i \in 1..Len(z)
        BY <2>1
      <3> QED BY <1>0, <2>1, <3>1, <3>2
    <2> QED BY <1>0, <1>2, <2>1, <2>2 DEF LastGrows
  <1>5. FlattenSeq(z) = FlattenSeq(y) \o b
    BY ONLY <1>4, FlattenLast
  <1> QED BY <1>3, <1>5

\* The text not read yet is that of the files, in their order.
LEMMA StreamIsWholes ==
    TypeInv =>
        /\ \A k \in 0..LastNb : Part(k) \in Seq(Pieces) /\ Whole(k) \in Seq(Pieces)
        /\ Wholes \in Seq(Seq(Pieces)) /\ Len(Wholes) = LastNb + 1 /\ LastNb \in Nat
        /\ \A i \in 1..LastNb + 1 : Wholes[i] = Whole(i - 1)
        /\ Stream = FlattenSeq(Wholes)
  <1> SUFFICES ASSUME TypeInv
               PROVE  /\ \A k \in 0..LastNb : Part(k) \in Seq(Pieces) /\ Whole(k) \in Seq(Pieces)
                      /\ Wholes \in Seq(Seq(Pieces)) /\ Len(Wholes) = LastNb + 1
                      /\ LastNb \in Nat
                      /\ \A i \in 1..LastNb + 1 : Wholes[i] = Whole(i - 1)
                      /\ Stream = FlattenSeq(Wholes)
    OBVIOUS
  <1>1. LastNb \in 0..Names - 1 /\ Names \in Nat \ {0} /\ LastNb \in Nat
    <2>1. LastNb \in 0..Names - 1 /\ Names \in Nat \ {0}
      BY NamesOf, PersistentAssumption DEF TypeInv
    <2> QED BY <2>1
  <1>2. RestOf(buf, bufPos) \in Seq(Pieces) /\ RestOf(files[fout], rpos) \in Seq(Pieces)
    BY RestOfType DEF TypeInv
  <1>3. FirstPart \in Seq(Pieces)
    BY <1>2, ConcatProperties DEF FirstPart
  <1>4. ASSUME NEW k \in 0..LastNb PROVE Part(k) \in Seq(Pieces) /\ Whole(k) \in Seq(Pieces)
    <2>1. Part(k) \in Seq(Pieces)
      BY <1>3 DEF Part, TypeInv
    <2>2. outbuf \in Seq(Pieces)
      BY DEF TypeInv
    <2>3. Part(k) \o outbuf \in Seq(Pieces)
      BY <2>1, <2>2, ConcatProperties
    <2> QED BY <2>1, <2>3 DEF Whole
  <1>5. /\ Wholes \in Seq(Seq(Pieces)) /\ Len(Wholes) = LastNb + 1
        /\ \A i \in 1..LastNb + 1 : Wholes[i] = Whole(i - 1)
    <2>1. \A i \in 1..LastNb + 1 : i - 1 \in 0..LastNb
      BY <1>1
    <2>2. Wholes \in [1..LastNb + 1 -> Seq(Pieces)]
      BY <1>4, <2>1 DEF Wholes
    <2>3. Wholes \in Seq(Seq(Pieces)) /\ Len(Wholes) = LastNb + 1
      <3> DEFINE n == LastNb + 1
      <3>1. n \in Nat
        BY <1>1
      <3> HIDE DEF n
      <3>2. Wholes \in [1..n -> Seq(Pieces)]
        BY <2>2 DEF n
      <3>3. Wholes \in Seq(Seq(Pieces)) /\ Len(Wholes) = n
        BY <3>1, <3>2, SeqDef
      <3> QED BY <3>3 DEF n
    <2> QED BY <2>3 DEF Wholes
  <1> DEFINE m == [k \in DOMAIN Chain \ {0} |-> files[Chain[k]]]
  <1>6. m \in Seq(Seq(Pieces)) /\ Len(m) = LastNb /\ \A k \in 1..LastNb : m[k] = Part(k)
    <2>1. m = [k \in 1..LastNb |-> files[Named(k)]]
      <3>1. DOMAIN Chain = 0..LastNb
        BY DEF Chain, LastNb
      <3>2. 0..LastNb \ {0} = 1..LastNb
        BY <1>1
      <3>3. \A k \in 1..LastNb : Chain[k] = Named(k)
        <4>1. \A k \in 1..LastNb : k \in 0..LastNb
          BY <1>1
        <4> QED BY <4>1 DEF Chain, LastNb, Named
      <3> QED BY <3>1, <3>2, <3>3
    <2>2. \A k \in 1..LastNb : k \in 0..LastNb /\ k # 0
      BY <1>1
    <2> HIDE DEF m
    <2>3. m \in [1..LastNb -> Seq(Pieces)] /\ \A k \in 1..LastNb : m[k] = Part(k)
      BY <2>1, <2>2 DEF TypeInv, Part
    <2> QED BY <1>1, <2>3, SeqDef
  <1>7. Stream = (FirstPart \o FlattenSeq(m)) \o outbuf
    BY DEF Stream, FirstPart, RestOf, bufEnd
  <1> HIDE DEF m
  <1>8. Glued(FirstPart, m, outbuf, Wholes)
    <2>1. ASSUME NEW i \in 1..Len(Wholes)
          PROVE  Wholes[i] = LET p == IF i = 1 THEN FirstPart ELSE m[i - 1]
                             IN  IF i = Len(Wholes) THEN p \o outbuf ELSE p
      <3>1. i \in 1..LastNb + 1 /\ i - 1 \in 0..LastNb /\ (i - 1 = LastNb <=> i = Len(Wholes))
        BY <1>1, <1>5
      <3>2. Part(i - 1) = IF i = 1 THEN FirstPart ELSE m[i - 1]
        <4>1. CASE i = 1
          <5>1. i - 1 = 0
            BY <4>1
          <5> QED BY <4>1, <5>1 DEF Part
        <4>2. CASE i # 1
          <5>1. i - 1 \in 1..LastNb
            BY <3>1, <4>2
          <5> QED BY <1>6, <4>2, <5>1
        <4> QED BY <4>1, <4>2
      <3>3. Wholes[i] = Whole(i - 1)
        BY <1>5, <3>1
      <3> QED BY <3>1, <3>2, <3>3 DEF Whole
    <2>2. outbuf \in Seq(Pieces)
      BY DEF TypeInv
    <2> QED BY <1>3, <1>5, <1>6, <2>1, <2>2 DEF Glued
  <1>9. FlattenSeq(Wholes) = (FirstPart \o FlattenSeq(m)) \o outbuf
    BY <1>8, FlattenGlued
  <1> QED BY <1>1, <1>4, <1>5, <1>7, <1>9


-----------------------------------------------------------------------------
(* Writing *)

\* The files, with b written after the last one
Flushed(fs, b) ==
    /\ DOMAIN fs = DOMAIN files
    /\ \A f \in DOMAIN files : fs[f] = IF f = fin THEN files[f] \o b ELSE files[f]

\* Part, when the files are fs
PartIn(fs, k) ==
    IF k = 0 THEN RestOf(buf, bufPos) \o RestOf(fs[fout], rpos) ELSE fs[Named(k)]

\* What is written after the last file is at the end of its part.
LEMMA FlushedParts ==
    ASSUME TypeInv, NEW fs, NEW b \in Seq(Pieces), Flushed(fs, b)
    PROVE  /\ \A f \in DOMAIN fs : fs[f] \in Seq(Pieces)
           /\ HasRest(Pieces, fs[fout], rpos)
           /\ \A k \in 0..LastNb :
                PartIn(fs, k) = IF k = LastNb THEN Part(k) \o b ELSE Part(k)
  <1>1. /\ LastNb \in 0..Names - 1 /\ Names \in Nat \ {0} /\ LastNb \in Nat
        /\ Named(0) = fout
        /\ \A k \in 0..LastNb : Named(k) \in DOMAIN files /\ (Named(k) = fin <=> k = LastNb)
    <2>1. LastNb \in 0..Names - 1 /\ Names \in Nat \ {0} /\ Named(0) = fout
      BY NamesOf, PersistentAssumption DEF TypeInv
    <2>2. \A k \in 0..LastNb : k \in 0..Names - 1
      BY <2>1
    <2>3. \A k \in 0..LastNb : Named(k) = fin <=> k = LastNb
      BY <2>2, NamesOf DEF TypeInv
    <2> QED BY <2>1, <2>3 DEF TypeInv
  <1>2. fout \in DOMAIN files /\ (fout = fin <=> LastNb = 0)
    <2>1. 0 \in 0..LastNb
      BY <1>1
    <2> QED BY <1>1, <2>1
  <1>3. ASSUME NEW f \in DOMAIN fs PROVE fs[f] \in Seq(Pieces)
    <2>1. files[f] \in Seq(Pieces)
      BY DEF TypeInv, Flushed
    <2>2. files[f] \o b \in Seq(Pieces)
      BY <2>1, ConcatProperties
    <2> QED BY <2>1, <2>2 DEF Flushed
  <1> DEFINE s == files[fout]
             r == RestOf(s, rpos)
             a == RestOf(buf, bufPos)
  <1>4. HasRest(Pieces, s, rpos) /\ a \in Seq(Pieces) /\ r \in Seq(Pieces)
    BY RestOfType DEF TypeInv
  <1>5. fs[fout] = IF LastNb = 0 THEN s \o b ELSE s
    BY <1>2 DEF Flushed
  <1> HIDE DEF s
  <1>6. HasRest(Pieces, s \o b, rpos) /\ RestOf(s \o b, rpos) = r \o b
    <2>1. HasRest(Pieces, s, rpos) /\ b \in Seq(Pieces)
      BY <1>4
    <2>2. HasRest(Pieces, s \o b, rpos) /\ RestOf(s \o b, rpos) = RestOf(s, rpos) \o b
      BY ONLY <2>1, RestOfConcat
    <2> QED BY <2>2
  <1>7. HasRest(Pieces, fs[fout], rpos)
    BY <1>4, <1>5, <1>6
  <1> HIDE DEF a, r
  <1>8. (a \o r) \o b = a \o (r \o b)
    <2>1. Three(Pieces, a, r, b)
      BY <1>4 DEF Three
    <2> QED BY ONLY <2>1, Regrouped
  <1>9. ASSUME NEW k \in 0..LastNb
        PROVE  PartIn(fs, k) = IF k = LastNb THEN Part(k) \o b ELSE Part(k)
    <2>1. CASE k = 0
      <3>1. PartIn(fs, k) = a \o RestOf(fs[fout], rpos) /\ Part(k) = a \o r
        BY <2>1 DEF PartIn, Part, FirstPart, a, r, s
      <3>2. CASE LastNb = 0
        BY <1>5, <1>6, <1>8, <2>1, <3>1, <3>2
      <3>3. CASE LastNb # 0
        BY <1>5, <2>1, <3>1, <3>3 DEF r
      <3> QED BY <3>2, <3>3
    <2>2. CASE k # 0
      <3>1. PartIn(fs, k) = fs[Named(k)] /\ Part(k) = files[Named(k)]
        BY <2>2 DEF PartIn, Part
      <3>2. fs[Named(k)] = IF k = LastNb THEN files[Named(k)] \o b ELSE files[Named(k)]
        BY <1>1 DEF Flushed
      <3> QED BY <3>1, <3>2
    <2> QED BY <2>1, <2>2
  <1> QED BY <1>3, <1>7, <1>9

\* A step that writes l at the end of the text not read yet, in the last file (b
\* reaches the file, and the buffer has what remains), and leaves the reader
\* where it is.
Pushes(b, l) ==
    /\ in' \in Nat /\ out' = out /\ fin' = fin /\ fout' = fout /\ rpos' = rpos
    /\ HasRest(Pieces, buf', bufPos') /\ RestOf(buf', bufPos') = RestOf(buf, bufPos)
    /\ b \in Seq(Pieces) /\ l \in Seq(Pieces) /\ outbuf' \in Seq(Pieces)
    /\ Flushed(files', b)
    /\ b \o outbuf' = outbuf \o l

LEMMA PushesText ==
    ASSUME TypeInv, NEW b, NEW l, Pushes(b, l)
    PROVE  TypeInv' /\ LastGrows(Pieces, Wholes, Wholes', l) /\ Stream' = Stream \o l
  <1>1. /\ \A f \in DOMAIN files' : files'[f] \in Seq(Pieces)
        /\ HasRest(Pieces, files'[fout], rpos)
        /\ \A k \in 0..LastNb : PartIn(files', k) = IF k = LastNb THEN Part(k) \o b ELSE Part(k)
    BY FlushedParts DEF Pushes
  <1>2. LastNb' = LastNb /\ \A k \in 0..LastNb : Named(k)' = Named(k)
    BY DEF Pushes, LastNb, Named
  <1>3. \A k \in 0..LastNb : Part(k)' = PartIn(files', k)
    BY <1>2 DEF Part, PartIn, FirstPart, Pushes
  <1>4. TypeInv'
    <2>1. \A k \in 0..LastNb' : Named(k)' \in DOMAIN files'
      BY <1>2 DEF TypeInv, Pushes, Flushed
    <2>2. NamesInv'
      BY DEF TypeInv, NamesInv, Pushes
    <2> QED BY <1>1, <2>1, <2>2 DEF TypeInv, Pushes
  <1>5. \A k \in 0..LastNb : Part(k) \in Seq(Pieces)
    BY StreamIsWholes
  <1>6. ASSUME NEW k \in 0..LastNb
        PROVE  Whole(k)' = IF k = LastNb THEN Whole(k) \o l ELSE Whole(k)
    <2>1. CASE k # LastNb
      BY <1>1, <1>2, <1>3, <2>1 DEF Whole
    <2>2. CASE k = LastNb
      <3> DEFINE p == Part(k)
                 o == outbuf'
                 w == outbuf
      <3>1. Whole(k)' = (p \o b) \o o /\ Whole(k) = p \o w
        BY <1>1, <1>2, <1>3, <2>2 DEF Whole
      <3>2. /\ p \in Seq(Pieces) /\ b \in Seq(Pieces) /\ o \in Seq(Pieces) /\ w \in Seq(Pieces)
            /\ l \in Seq(Pieces) /\ b \o o = w \o l
        BY <1>5 DEF Pushes, TypeInv
      <3> HIDE DEF p, o, w
      <3>3. (p \o b) \o o = p \o (b \o o)
        <4>1. Three(Pieces, p, b, o)
          BY <3>2 DEF Three
        <4> QED BY ONLY <4>1, Regrouped
      <3>4. (p \o w) \o l = p \o (w \o l)
        <4>1. Three(Pieces, p, w, l)
          BY <3>2 DEF Three
        <4> QED BY ONLY <4>1, Regrouped
      <3> QED BY <2>2, <3>1, <3>2, <3>3, <3>4
    <2> QED BY <2>1, <2>2
  <1>7. LastGrows(Pieces, Wholes, Wholes', l) /\ Stream' = Stream \o l
    <2> DEFINE z == Wholes
               y == Wholes'
    <2>1. /\ z \in Seq(Seq(Pieces)) /\ Len(z) = LastNb + 1 /\ LastNb \in Nat
          /\ \A i \in 1..LastNb + 1 : z[i] = Whole(i - 1)
          /\ Stream = FlattenSeq(z)
      BY StreamIsWholes
    <2>2. /\ y \in Seq(Seq(Pieces)) /\ Len(y) = LastNb' + 1
          /\ \A i \in 1..LastNb' + 1 : y[i] = Whole(i - 1)'
          /\ Stream' = FlattenSeq(y)
      <3>1. (TypeInv => /\ Wholes \in Seq(Seq(Pieces)) /\ Len(Wholes) = LastNb + 1
                        /\ \A i \in 1..LastNb + 1 : Wholes[i] = Whole(i - 1)
                        /\ Stream = FlattenSeq(Wholes))'
        BY StreamIsWholes, PTL
      <3> QED BY <1>4, <3>1
    <2> HIDE DEF z, y
    <2>3. \A i \in 1..Len(z) : y[i] = IF i = Len(z) THEN z[i] \o l ELSE z[i]
      <3> SUFFICES ASSUME NEW i \in 1..Len(z)
                   PROVE  y[i] = IF i = Len(z) THEN z[i] \o l ELSE z[i]
        OBVIOUS
      <3>1. i \in 1..LastNb + 1 /\ i - 1 \in 0..LastNb /\ (i - 1 = LastNb <=> i = Len(z))
        BY <2>1
      <3>2. y[i] = Whole(i - 1)' /\ z[i] = Whole(i - 1)
        BY <1>2, <2>1, <2>2, <3>1
      <3> QED BY <1>6, <3>1, <3>2
    <2>4. LastGrows(Pieces, z, y, l)
      <3>1. Len(z) = Len(y) /\ Len(z) # 0
        BY <1>2, <2>1, <2>2
      <3> QED BY <2>1, <2>2, <2>3, <3>1 DEF LastGrows, Pushes
    <2>5. FlattenSeq(y) = FlattenSeq(z) \o l
      BY ONLY <2>4, FlattenLast
    <2> QED BY <2>1, <2>2, <2>4, <2>5 DEF z, y
  <1> QED BY <1>4, <1>7


\* A step that writes l at the end of the last file, what was not written before
\* it, and begins a new file; g is the files before the new one.
Rolls(g, l) ==
    /\ in' \in Nat /\ out' = out /\ fout' = fout /\ rpos' = rpos
    /\ buf' = buf /\ bufPos' = bufPos
    /\ fin' = makeName(fin + 1) /\ fin' # fout
    /\ l \in Seq(Pieces)
    /\ Flushed(g, outbuf \o l)
    /\ files' = Created(g, fin')
    /\ outbuf' = <<>>

LEMMA RollsText ==
    ASSUME TypeInv, NEW g, NEW l, Rolls(g, l)
    PROVE  /\ TypeInv'
           /\ \E y : LastGrows(Pieces, Wholes, y, l) /\ Wholes' = Append(y, <<>>)
           /\ Stream' = Stream \o l
  <1> DEFINE b == outbuf \o l
  <1>1. b \in Seq(Pieces) /\ outbuf \in Seq(Pieces) /\ l \in Seq(Pieces)
    <2>1. outbuf \in Seq(Pieces) /\ l \in Seq(Pieces)
      BY DEF TypeInv, Rolls
    <2> QED BY <2>1, ConcatProperties
  <1>2. Flushed(g, b)
    BY DEF Rolls
  <1> HIDE DEF b
  <1>3. /\ \A f \in DOMAIN g : g[f] \in Seq(Pieces)
        /\ HasRest(Pieces, g[fout], rpos)
        /\ \A k \in 0..LastNb : PartIn(g, k) = IF k = LastNb THEN Part(k) \o b ELSE Part(k)
    BY <1>1, <1>2, FlushedParts
  <1>4. /\ LastNb \in 0..Names - 1 /\ LastNb' \in 0..Names - 1 /\ Names \in Nat \ {0}
        /\ LastNb' = LastNb + 1
        /\ NamesInv'
        /\ \A k \in 0..Names - 1 : Named(k)' = Named(k) /\ (Named(k)' = fin' <=> k = LastNb')
    <2>1. /\ LastNb = IF fout <= fin THEN fin - fout ELSE fin + Names - fout
          /\ LastNb \in 0..Names - 1
          /\ fin' = IF fin + 1 < Names THEN fin + 1 ELSE 0
      BY NamesOf DEF TypeInv, Rolls
    <2>2. Names \in Nat \ {0} /\ fin \in 0..Names - 1 /\ fout \in 0..Names - 1 /\ fout' = fout
      BY PersistentAssumption DEF TypeInv, NamesInv, Rolls
    <2>3. NamesInv'
      BY <2>1, <2>2 DEF NamesInv
    <2>4. (NamesInv => /\ LastNb = IF fout <= fin THEN fin - fout ELSE fin + Names - fout
                       /\ LastNb \in 0..Names - 1
                       /\ \A k \in 0..Names - 1 :
                            /\ Named(k) = IF fout + k < Names THEN fout + k
                                          ELSE fout + k - Names
                            /\ Named(k) \in 0..Names - 1
                            /\ Named(k) = fin <=> k = LastNb)'
      BY NamesOf, PTL
    <2>5. LastNb' = LastNb + 1
      <3>1. fin' # fout
        BY DEF Rolls
      <3>2. LastNb' = IF fout <= fin' THEN fin' - fout ELSE fin' + Names - fout
        BY <2>2, <2>3, <2>4
      <3> QED BY <2>1, <2>2, <3>1, <3>2
    <2>6. \A k \in 0..Names - 1 : Named(k)' = Named(k)
      BY <2>2 DEF Named
    <2> QED BY <2>1, <2>2, <2>3, <2>4, <2>5, <2>6
  <1>5. \A k \in 0..LastNb : k \in 0..Names - 1 /\ Named(k)' = Named(k) /\ Named(k) # fin'
    <2>1. \A k \in 0..LastNb : k \in 0..Names - 1 /\ k # LastNb'
      BY <1>4
    <2> QED BY <1>4, <2>1
  <1>6. /\ LastNb' \in 0..Names - 1 /\ Named(LastNb)' = fin'
        /\ 0 \in 0..LastNb /\ Named(0) = fout /\ Named(0)' = fout
    <2>1. 0 \in 0..LastNb /\ Named(0) = fout
      BY <1>4, NamesOf DEF TypeInv
    <2> QED BY <1>4, <1>5, <2>1
  <1>7. /\ DOMAIN g = DOMAIN files
        /\ DOMAIN files' = DOMAIN g \cup {fin'}
        /\ files'[fin'] = <<>>
        /\ \A f \in DOMAIN g : f # fin' => files'[f] = g[f]
    BY DEF Rolls, Created, Flushed
  <1>8. \A k \in 0..LastNb : Named(k) \in DOMAIN g /\ files'[Named(k)] = g[Named(k)]
    BY <1>5, <1>7 DEF TypeInv
  <1>9. files'[fout] = g[fout]
    BY <1>6, <1>8
  <1>10. TypeInv'
    <2>1. \A f \in DOMAIN files' : files'[f] \in Seq(Pieces)
      <3>1. <<>> \in Seq(Pieces)
        BY EmptySeq
      <3> QED BY <1>3, <1>7, <3>1
    <2>2. ASSUME NEW k \in 0..LastNb' PROVE Named(k)' \in DOMAIN files'
      <3>1. k \in 0..LastNb \/ k = LastNb'
        BY <1>4
      <3>2. CASE k = LastNb'
        BY <1>6, <1>7, <3>2
      <3>3. CASE k \in 0..LastNb
        BY <1>5, <1>7, <1>8, <3>3
      <3> QED BY <3>1, <3>2, <3>3
    <2>3. HasRest(Pieces, buf', bufPos') /\ HasRest(Pieces, files'[fout'], rpos')
      BY <1>3, <1>9 DEF TypeInv, Rolls
    <2>4. outbuf' \in Seq(Pieces) /\ in' \in Nat /\ out' \in 0..UrlByFile - 1
      BY EmptySeq DEF Rolls, TypeInv
    <2> QED BY <1>4, <2>1, <2>2, <2>3, <2>4 DEF TypeInv
  <1>11. \A k \in 0..LastNb : Part(k) \in Seq(Pieces)
    BY StreamIsWholes
  <1>12. ASSUME NEW k \in 0..LastNb
         PROVE  Whole(k)' = IF k = LastNb THEN Whole(k) \o l ELSE Whole(k)
    <2>1. Part(k)' = PartIn(g, k)
      <3>1. CASE k = 0
        BY <1>9, <3>1 DEF Part, PartIn, FirstPart, Rolls
      <3>2. CASE k # 0
        BY <1>5, <1>8, <3>2 DEF Part, PartIn
      <3> QED BY <3>1, <3>2
    <2>2. Whole(k)' = Part(k)'
      <3>1. k # LastNb'
        BY <1>4
      <3> QED BY <3>1 DEF Whole
    <2>3. CASE k # LastNb
      BY <1>3, <2>1, <2>2, <2>3 DEF Whole
    <2>4. CASE k = LastNb
      <3>1. Three(Pieces, Part(k), outbuf, l)
        BY <1>1, <1>11 DEF Three
      <3>2. (Part(k) \o outbuf) \o l = Part(k) \o (outbuf \o l)
        BY ONLY <3>1, Regrouped
      <3> QED BY <1>3, <2>1, <2>2, <2>4, <3>2 DEF Whole, b
    <2> QED BY <2>3, <2>4
  <1>13. Whole(LastNb)' = <<>>
    <2>1. Part(LastNb)' = <<>>
      <3>1. LastNb' # 0
        BY <1>4
      <3> QED BY <1>6, <1>7, <3>1 DEF Part
    <2>2. outbuf' = <<>> /\ <<>> \o <<>> = <<>>
      <3>1. <<>> \in Seq(Pieces)
        BY EmptySeq
      <3> QED BY <3>1, ConcatEmptySeq DEF Rolls
    <2> QED BY <2>1, <2>2 DEF Whole
  <1>14. /\ \E y : LastGrows(Pieces, Wholes, y, l) /\ Wholes' = Append(y, <<>>)
         /\ Stream' = Stream \o l
    <2> DEFINE z == Wholes
               w == Wholes'
               n == LastNb + 1
               y == SubSeq(w, 1, n)
               e == Append(y, <<>>)
    <2>1. /\ z \in Seq(Seq(Pieces)) /\ Len(z) = LastNb + 1 /\ LastNb \in Nat
          /\ \A i \in 1..LastNb + 1 : z[i] = Whole(i - 1)
          /\ Stream = FlattenSeq(z)
      BY StreamIsWholes
    <2>2. /\ w \in Seq(Seq(Pieces)) /\ Len(w) = LastNb' + 1
          /\ \A i \in 1..LastNb' + 1 : w[i] = Whole(i - 1)'
          /\ Stream' = FlattenSeq(w)
      <3>1. (TypeInv => /\ Wholes \in Seq(Seq(Pieces)) /\ Len(Wholes) = LastNb + 1
                        /\ \A i \in 1..LastNb + 1 : Wholes[i] = Whole(i - 1)
                        /\ Stream = FlattenSeq(Wholes))'
        BY StreamIsWholes, PTL
      <3> QED BY <1>10, <3>1
    <2> HIDE DEF z, w
    <2>3. /\ n \in Nat /\ Len(z) = n /\ Len(w) = n + 1 /\ n # 0
          /\ \A i \in 1..n : w[i] = Whole(i - 1)' /\ z[i] = Whole(i - 1) /\ i - 1 \in 0..LastNb
          /\ w[n + 1] = <<>>
      <3>1. n \in Nat /\ Len(z) = n /\ Len(w) = n + 1 /\ n # 0
        BY <1>4, <2>1, <2>2
      <3>2. \A i \in 1..n : w[i] = Whole(i - 1)' /\ z[i] = Whole(i - 1) /\ i - 1 \in 0..LastNb
        BY <1>4, <2>1, <2>2
      <3>3. w[n + 1] = <<>>
        <4>1. n + 1 \in 1..LastNb' + 1 /\ (n + 1) - 1 = LastNb + 1
          BY <1>4, <2>1
        <4>2. w[n + 1] = Whole(LastNb)'
          <5>1. \A i : i = LastNb' => Whole(i)' = Whole(LastNb)'
            BY DEF Whole, Part, Named
          <5> QED BY <1>4, <2>2, <4>1, <5>1
        <4> QED BY <1>13, <4>2
      <3> QED BY <3>1, <3>2, <3>3
    <2>4. \A i \in 1..n : w[i] = IF i = n THEN z[i] \o l ELSE z[i]
      <3> SUFFICES ASSUME NEW i \in 1..n PROVE w[i] = IF i = n THEN z[i] \o l ELSE z[i]
        OBVIOUS
      <3>1. i - 1 \in 0..LastNb /\ w[i] = Whole(i - 1)' /\ z[i] = Whole(i - 1)
        BY <2>3
      <3>2. i - 1 = LastNb <=> i = n
        BY <2>1
      <3> QED BY <1>12, <3>1, <3>2
    <2> HIDE DEF n
    <2>5. y \in Seq(Seq(Pieces)) /\ Len(y) = n /\ \A i \in 1..n : y[i] = w[i]
      BY <2>2, <2>3, FirstOf
    <2> HIDE DEF y
    <2>6. LastGrows(Pieces, z, y, l)
      BY <1>1, <2>1, <2>3, <2>4, <2>5 DEF LastGrows
    <2>7. FlattenSeq(y) = FlattenSeq(z) \o l
      BY ONLY <2>6, FlattenLast
    <2>8. <<>> \in Seq(Pieces)
      BY EmptySeq
    <2>9. e = w
      <3>1. /\ e \in Seq(Seq(Pieces)) /\ Len(e) = n + 1 /\ e[n + 1] = <<>>
            /\ \A i \in 1..n : e[i] = y[i]
        BY <2>5, <2>8, AppendProperties
      <3> HIDE DEF e
      <3>2. \A i \in 1..Len(e) : i \in 1..n \/ i = n + 1
        BY <2>3, <3>1
      <3>3. \A i \in 1..Len(e) : e[i] = w[i]
        BY <2>3, <2>5, <3>1, <3>2
      <3> QED BY <2>2, <2>3, <3>1, <3>3, SeqEqual
    <2>10. FlattenSeq(e) = FlattenSeq(y) \o <<>>
      BY <2>5, <2>8, FlattenAppend
    <2>11. FlattenSeq(y) \o <<>> = FlattenSeq(y)
      <3>1. FlattenSeq(y) \in Seq(Pieces)
        BY <2>5, FlattenConcat
      <3> QED BY <3>1, ConcatEmptySeq
    <2>12. LastGrows(Pieces, Wholes, y, l) /\ Wholes' = Append(y, <<>>)
      BY <2>6, <2>9 DEF z, w
    <2> HIDE DEF e
    <2> QED BY <2>1, <2>2, <2>7, <2>9, <2>10, <2>11, <2>12
  <1> QED BY <1>10, <1>14


-----------------------------------------------------------------------------
(* Whole lines, and how many *)

\* What begins with a line, when it is lines.
LineCut(q, h, x) ==
    q \in Seq(Items) /\ h \in Items /\ x \in Seq(Pieces) /\ Lines(q) = Line(h) \o x

LEMMA LinesCut ==
    ASSUME NEW q, NEW h, NEW x, LineCut(q, h, x)
    PROVE  /\ q # <<>> /\ Head(q) = h
           /\ Tail(q) \in Seq(Items) /\ Len(Tail(q)) = Len(q) - 1 /\ Len(q) \in Nat \ {0}
           /\ x = Lines(Tail(q))
  <1>0. q \in Seq(Items) /\ h \in Items /\ x \in Seq(Pieces) /\ Lines(q) = Line(h) \o x
    BY DEF LineCut
  <1> DEFINE l == Line(h)
  <1>1. l \in Seq(Pieces) /\ Len(l) \in Nat \ {0} /\ Len(x) \in Nat /\ l[1][1] = h
    <2>1. Len(l) = LineLen[h] /\ l \in Seq(Pieces) /\ LineLen[h] \in Nat \ {0}
      BY <1>0, LineType
    <2>2. 1 \in 1..LineLen[h]
      BY <2>1
    <2>3. l[1][1] = h
      BY <1>0, <2>2, LineType
    <2> QED BY <1>0, <2>1, <2>3, LenProperties
  <1> HIDE DEF l
  <1>2. /\ Len(l \o x) = Len(l) + Len(x)
        /\ \A i \in 1..Len(l) + Len(x) : (l \o x)[i] = IF i <= Len(l) THEN l[i] ELSE x[i - Len(l)]
    BY <1>0, <1>1, ConcatProperties
  <1>3. q # <<>>
    <2>1. Lines(q) # <<>>
      <3>1. Len(l \o x) # 0
        BY <1>1, <1>2
      <3> QED BY <1>0, <3>1 DEF l
    <2> QED BY <2>1, LinesOfNone
  <1> DEFINE k == Line(Head(q))
             t == Lines(Tail(q))
  <1>4. /\ Head(q) \in Items /\ Tail(q) \in Seq(Items) /\ Len(Tail(q)) = Len(q) - 1
        /\ Lines(q) = k \o t
    BY <1>0, <1>3, LinesHead
  <1>5. /\ k \in Seq(Pieces) /\ Len(k) \in Nat \ {0} /\ k[1][1] = Head(q)
        /\ t \in Seq(Pieces) /\ Len(t) \in Nat
    <2>1. Len(k) = LineLen[Head(q)] /\ k \in Seq(Pieces) /\ LineLen[Head(q)] \in Nat \ {0}
      BY <1>4, LineType
    <2>2. 1 \in 1..LineLen[Head(q)]
      BY <2>1
    <2>3. k[1][1] = Head(q)
      BY <1>4, <2>2, LineType
    <2>4. t \in Seq(Pieces)
      BY <1>4, LinesType
    <2> QED BY <2>1, <2>3, <2>4, LenProperties
  <1> HIDE DEF k, t
  <1>6. \A i \in 1..Len(k) + Len(t) : (k \o t)[i] = IF i <= Len(k) THEN k[i] ELSE t[i - Len(k)]
    BY <1>5, ConcatProperties
  <1>7. Head(q) = h
    <2>1. (l \o x)[1] = l[1]
      <3>1. 1 \in 1..Len(l) + Len(x) /\ 1 <= Len(l)
        BY <1>1
      <3> QED BY <1>2, <3>1
    <2>2. (k \o t)[1] = k[1]
      <3>1. 1 \in 1..Len(k) + Len(t) /\ 1 <= Len(k)
        BY <1>5
      <3> QED BY <1>6, <3>1
    <2>3. l \o x = k \o t
      BY <1>0, <1>4 DEF l
    <2> QED BY <1>1, <1>5, <2>1, <2>2, <2>3
  <1>8. k = l
    BY <1>7 DEF k, l
  <1>9. SameCut(Pieces, l, x, k, t)
    <2>1. l \o x = k \o t
      BY <1>0, <1>4 DEF l
    <2> QED BY <1>0, <1>1, <1>5, <1>8, <2>1 DEF SameCut
  <1>10. x = t
    BY ONLY <1>9, SameParts
  <1>11. Len(q) \in Nat \ {0}
    BY <1>0, <1>3, EmptySeq
  <1> QED BY <1>3, <1>4, <1>7, <1>10, <1>11 DEF t

\* The part of lines up to its first newline is its first line.
FirstLine(q, a, c) ==
    /\ q \in Seq(Items) /\ a \in Seq(Pieces) /\ c \in Seq(Pieces)
    /\ a \o c = Lines(q)
    /\ Len(a) # 0 /\ Newline(a[Len(a)])
    /\ \A i \in 1..Len(a) - 1 : ~Newline(a[i])

LEMMA FirstLineIs ==
    ASSUME NEW q, NEW a, NEW c, FirstLine(q, a, c)
    PROVE  q # <<>> /\ Head(q) \in Items /\ a = Line(Head(q)) /\ LineCut(q, Head(q), c)
  <1>0. /\ q \in Seq(Items) /\ a \in Seq(Pieces) /\ c \in Seq(Pieces)
        /\ a \o c = Lines(q)
        /\ Len(a) # 0 /\ Newline(a[Len(a)])
        /\ \A i \in 1..Len(a) - 1 : ~Newline(a[i])
    BY DEF FirstLine
  <1>1. /\ Len(a) \in Nat \ {0} /\ Len(c) \in Nat
        /\ Len(a \o c) = Len(a) + Len(c)
        /\ \A i \in 1..Len(a) + Len(c) : (a \o c)[i] = IF i <= Len(a) THEN a[i] ELSE c[i - Len(a)]
    BY <1>0, LenProperties, ConcatProperties
  <1>2. q # <<>>
    <2>1. Len(a \o c) # 0
      BY <1>1
    <2>2. a \o c # <<>>
      BY <2>1
    <2> QED BY <1>0, <2>2, LinesOfNone
  <1> DEFINE h == Head(q)
             l == Line(h)
             t == Lines(Tail(q))
  <1>3. h \in Items /\ Tail(q) \in Seq(Items) /\ Lines(q) = l \o t
    BY <1>0, <1>2, LinesHead
  <1>4. /\ l \in Seq(Pieces) /\ Len(l) \in Nat \ {0}
        /\ \A i \in 1..Len(l) : Newline(l[i]) <=> i = Len(l)
        /\ t \in Seq(Pieces) /\ Len(t) \in Nat
    <2>1. /\ Len(l) = LineLen[h] /\ l \in Seq(Pieces) /\ LineLen[h] \in Nat \ {0}
          /\ \A i \in 1..LineLen[h] : Newline(l[i]) <=> i = LineLen[h]
      BY <1>3, LineType
    <2>2. t \in Seq(Pieces)
      BY <1>3, LinesType
    <2> QED BY <2>1, <2>2, LenProperties
  <1> HIDE DEF h, l, t
  <1>5. \A i \in 1..Len(l) + Len(t) : (l \o t)[i] = IF i <= Len(l) THEN l[i] ELSE t[i - Len(l)]
    BY <1>4, ConcatProperties
  <1>6. l \o t = a \o c
    BY <1>0, <1>3
  <1>7. ~(Len(l) < Len(a))
    <2> SUFFICES ASSUME Len(l) < Len(a) PROVE FALSE
      OBVIOUS
    <2> DEFINE k == Len(l)
    <2>1. k \in 1..Len(a) + Len(c) /\ k <= Len(a) /\ k \in 1..Len(l) + Len(t) /\ k <= Len(l)
          /\ k \in 1..Len(a) - 1 /\ k \in 1..Len(l)
      BY <1>1, <1>4
    <2>2. Newline(l[k])
      BY <1>4, <2>1
    <2> HIDE DEF k
    <2>3. l[k] = a[k]
      BY <1>1, <1>5, <1>6, <2>1
    <2> QED BY <1>0, <2>1, <2>2, <2>3
  <1>8. ~(Len(a) < Len(l))
    <2> SUFFICES ASSUME Len(a) < Len(l) PROVE FALSE
      OBVIOUS
    <2> DEFINE k == Len(a)
    <2>1. k \in 1..Len(a) + Len(c) /\ k <= Len(a) /\ k \in 1..Len(l) + Len(t) /\ k <= Len(l)
          /\ k \in 1..Len(l) /\ k # Len(l)
      BY <1>1, <1>4
    <2>2. ~Newline(l[k])
      BY <1>4, <2>1
    <2>3. Newline(a[k])
      BY <1>0
    <2> HIDE DEF k
    <2>4. l[k] = a[k]
      BY <1>1, <1>5, <1>6, <2>1
    <2> QED BY <2>2, <2>3, <2>4
  <1>9. Len(a) = Len(l)
    BY <1>1, <1>4, <1>7, <1>8
  <1>10. SameCut(Pieces, a, c, l, t)
    BY <1>0, <1>4, <1>6, <1>9 DEF SameCut
  <1>11. a = l /\ c = t
    BY ONLY <1>10, SameParts
  <1>12. LineCut(q, h, c)
    BY <1>0, <1>3, <1>11 DEF LineCut, l
  <1> QED BY <1>2, <1>3, <1>11, <1>12 DEF h, l

\* z is whole lines in each place: with the o urls taken of the first, UrlByFile,
\* or m in the last.
Chapter(p, o, m) == \E q \in Seq(Items) : p = Lines(q) /\ o + Len(q) = m

Chapters(z, o, m) ==
    \A i \in 1..Len(z) :
        Chapter(z[i], IF i = 1 THEN o ELSE 0, IF i = Len(z) THEN m ELSE UrlByFile)

\* A line more at the end.
LEMMA ChapterPut ==
    ASSUME NEW p, NEW o \in Nat, NEW m, Chapter(p, o, m), NEW u \in Items
    PROVE  Chapter(p \o Line(u), o, m + 1)
  <1>1. PICK q \in Seq(Items) : p = Lines(q) /\ o + Len(q) = m
    BY DEF Chapter
  <1> DEFINE r == Append(q, u)
  <1>2. r \in Seq(Items) /\ Lines(r) = Lines(q) \o Line(u) /\ Len(r) = Len(q) + 1 /\ Len(q) \in Nat
    BY LinesAppend, AppendProperties, LenProperties
  <1> HIDE DEF r
  <1>3. p \o Line(u) = Lines(r) /\ o + Len(r) = m + 1
    BY <1>1, <1>2
  <1> QED BY <1>2, <1>3 DEF Chapter

LEMMA ChaptersPut ==
    ASSUME NEW z, NEW y, NEW u \in Items, LastGrows(Pieces, z, y, Line(u)),
           NEW o \in Nat, NEW m, Chapters(z, o, m)
    PROVE  Chapters(y, o, m + 1)
  <1>1. /\ Len(z) = Len(y) /\ Len(z) # 0 /\ Len(z) \in Nat
        /\ \A i \in 1..Len(z) : y[i] = IF i = Len(z) THEN z[i] \o Line(u) ELSE z[i]
    BY LenProperties DEF LastGrows
  <1>2. ASSUME NEW i \in 1..Len(y)
        PROVE  Chapter(y[i], IF i = 1 THEN o ELSE 0, IF i = Len(y) THEN m + 1 ELSE UrlByFile)
    <2> DEFINE b == IF i = 1 THEN o ELSE 0
    <2>1. b \in Nat
      OBVIOUS
    <2>2. Chapter(z[i], b, IF i = Len(z) THEN m ELSE UrlByFile)
      BY <1>1 DEF Chapters
    <2> HIDE DEF b
    <2>3. Chapter(y[i], b, IF i = Len(y) THEN m + 1 ELSE UrlByFile)
      <3>1. CASE i = Len(y)
        <4>1. Chapter(z[i], b, m)
          BY <1>1, <2>2, <3>1
        <4>2. Chapter(z[i] \o Line(u), b, m + 1)
          BY <2>1, <4>1, ChapterPut
        <4>3. y[i] = z[i] \o Line(u)
          BY <1>1, <3>1
        <4> QED BY <3>1, <4>2, <4>3
      <3>2. CASE i # Len(y)
        BY <1>1, <2>2, <3>2
      <3> QED BY <3>1, <3>2
    <2> QED BY <2>3 DEF b
  <1> QED BY <1>2 DEF Chapters

\* The last file full, and a new one.
LEMMA ChaptersRoll ==
    ASSUME NEW y \in Seq(Seq(Pieces)), Len(y) # 0, NEW o \in Nat, Chapters(y, o, UrlByFile)
    PROVE  Chapters(Append(y, <<>>), o, 0)
  <1> DEFINE w == Append(y, <<>>)
             n == Len(y)
  <1>1. /\ w \in Seq(Seq(Pieces)) /\ Len(w) = n + 1 /\ n \in Nat \ {0}
        /\ w[n + 1] = <<>> /\ \A i \in 1..n : w[i] = y[i]
    <2>1. <<>> \in Seq(Pieces) /\ n \in Nat \ {0}
      BY EmptySeq, LenProperties
    <2> QED BY <2>1, AppendProperties
  <1> HIDE DEF w
  <1>2. ASSUME NEW i \in 1..Len(w)
        PROVE  Chapter(w[i], IF i = 1 THEN o ELSE 0, IF i = Len(w) THEN 0 ELSE UrlByFile)
    <2>1. CASE i = n + 1
      <3>1. <<>> \in Seq(Items) /\ Lines(<<>>) = <<>> /\ Len(<<>>) = 0
        BY LinesOfNone, EmptySeq
      <3>2. Chapter(<<>>, 0, 0)
        <4> DEFINE e == <<>>
        <4>1. e \in Seq(Items) /\ e = Lines(e) /\ 0 + Len(e) = 0
          BY <3>1
        <4> HIDE DEF e
        <4>2. Chapter(e, 0, 0)
          BY <4>1 DEF Chapter
        <4> QED BY <4>2 DEF e
      <3> QED BY <1>1, <2>1, <3>2
    <2>2. CASE i # n + 1
      <3>1. i \in 1..n
        BY <1>1, <2>2
      <3>2. Chapter(y[i], IF i = 1 THEN o ELSE 0, UrlByFile)
        BY <3>1 DEF Chapters
      <3> QED BY <1>1, <2>2, <3>1, <3>2
    <2> QED BY <2>1, <2>2
  <1>3. Chapters(w, o, 0)
    BY <1>2 DEF Chapters
  <1> QED BY <1>3 DEF w

\* The first line taken.
LEMMA ChapterTake ==
    ASSUME NEW p \in Seq(Pieces), NEW o \in Nat, NEW m, NEW h \in Items,
           Chapter(Line(h) \o p, o, m)
    PROVE  Chapter(p, o + 1, m)
  <1>1. PICK q \in Seq(Items) : Line(h) \o p = Lines(q) /\ o + Len(q) = m
    BY DEF Chapter
  <1>2. LineCut(q, h, p)
    BY <1>1 DEF LineCut
  <1>3. /\ Tail(q) \in Seq(Items) /\ Len(Tail(q)) = Len(q) - 1 /\ Len(q) \in Nat \ {0}
        /\ p = Lines(Tail(q))
    BY ONLY <1>2, LinesCut
  <1>4. o + 1 + Len(Tail(q)) = m
    BY <1>1, <1>3
  <1> QED BY <1>3, <1>4 DEF Chapter

LEMMA ChaptersTake ==
    ASSUME NEW z, NEW y, NEW h \in Items, FirstShrinks(Pieces, z, y, Line(h)),
           NEW o \in Nat, NEW m, Chapters(z, o, m)
    PROVE  Chapters(y, o + 1, m)
  <1>1. /\ Len(z) = Len(y) /\ Len(z) # 0 /\ Len(z) \in Nat
        /\ y \in Seq(Seq(Pieces))
        /\ \A i \in 1..Len(z) : z[i] = IF i = 1 THEN Line(h) \o y[i] ELSE y[i]
    BY LenProperties DEF FirstShrinks
  <1>2. ASSUME NEW i \in 1..Len(y)
        PROVE  Chapter(y[i], IF i = 1 THEN o + 1 ELSE 0, IF i = Len(y) THEN m ELSE UrlByFile)
    <2> DEFINE b == IF i = Len(y) THEN m ELSE UrlByFile
    <2>1. Chapter(z[i], IF i = 1 THEN o ELSE 0, b)
      BY <1>1 DEF Chapters
    <2> HIDE DEF b
    <2>2. y[i] \in Seq(Pieces)
      BY <1>1, ElementOfSeq
    <2>3. Chapter(y[i], IF i = 1 THEN o + 1 ELSE 0, b)
      <3>1. CASE i = 1
        <4>1. Chapter(Line(h) \o y[i], o, b)
          BY <1>1, <2>1, <3>1
        <4>2. Chapter(y[i], o + 1, b)
          BY <2>2, <4>1, ChapterTake
        <4> QED BY <3>1, <4>2
      <3>2. CASE i # 1
        BY <1>1, <2>1, <3>2
      <3> QED BY <3>1, <3>2
    <2> QED BY <2>3 DEF b
  <1> QED BY <1>2 DEF Chapters

\* The first file taken whole, the next one is first.
LEMMA ChaptersNext ==
    ASSUME NEW z \in Seq(Seq(Pieces)), Len(z) > 1, NEW o, NEW m, Chapters(z, o, m)
    PROVE  Chapters(Tail(z), 0, m)
  <1> DEFINE t == Tail(z)
             n == Len(z)
  <1>1. n \in Nat /\ n > 1 /\ z # <<>>
    BY LenProperties, EmptySeq
  <1>2. Len(t) = n - 1 /\ \A i \in 1..Len(t) : t[i] = z[i + 1]
    BY <1>1, HeadTailProperties
  <1> HIDE DEF t
  <1>3. ASSUME NEW i \in 1..Len(t)
        PROVE  Chapter(t[i], IF i = 1 THEN 0 ELSE 0, IF i = Len(t) THEN m ELSE UrlByFile)
    <2>1. i + 1 \in 1..n /\ i + 1 # 1 /\ (i + 1 = n <=> i = Len(t))
      BY <1>1, <1>2
    <2>2. Chapter(z[i + 1], 0, IF i + 1 = n THEN m ELSE UrlByFile)
      <3> DEFINE j == i + 1
      <3>1. j \in 1..Len(z) /\ j # 1
        BY <2>1
      <3> HIDE DEF j
      <3>2. Chapter(z[j], 0, IF j = n THEN m ELSE UrlByFile)
        BY <3>1 DEF Chapters
      <3> QED BY <3>2 DEF j
    <2> QED BY <1>2, <2>1, <2>2
  <1>4. Chapters(t, 0, m)
    BY <1>3 DEF Chapters
  <1> QED BY <1>4 DEF t


-----------------------------------------------------------------------------
(* The invariant, and the steps *)

\* All that is not read yet is whole lines, as many as in and out say.
LinesInv == \E q \in Seq(Items) : Stream = Lines(q) /\ in = out + Len(q)

\* The inductive invariant: the lines are whole in each file, and as many as were
\* put in it and not taken.
IInv == TypeInv /\ Chapters(Wholes, out, in % UrlByFile) /\ LinesInv

\* put: the line is at the end of the text not read yet, whole in one file.
LEMMA PutText ==
    ASSUME IInv, NEW u \in Items, Put(u)
    PROVE  IInv' /\ Stream' = Stream \o Line(u)
  <1> DEFINE l == Line(u)
             fits == Len(outbuf) + LineLen[u] < BufSize
             fs == IF fits THEN files ELSE FlushOut(outbuf)
             ob == IF fits THEN outbuf \o l ELSE l
             g == [fs EXCEPT ![fin] = fs[fin] \o ob]
             new == in' % UrlByFile = 0
  <1>1. /\ TypeInv /\ LinesInv /\ Chapters(Wholes, out, in % UrlByFile)
        /\ l \in Seq(Pieces) /\ outbuf \in Seq(Pieces) /\ in \in Nat
    BY LineType DEF IInv, TypeInv
  <1>2. /\ in' = in + 1 /\ out' = out /\ fout' = fout /\ rpos' = rpos
        /\ buf' = buf /\ bufPos' = bufPos
        /\ new => /\ fin' = makeName(fin + 1) /\ fin' # fout
                  /\ files' = Created(g, fin') /\ outbuf' = <<>>
        /\ ~new => files' = fs /\ outbuf' = ob /\ fin' = fin
    BY DEF Put
  <1> HIDE DEF l, new
  <1>3. /\ <<>> \in Seq(Pieces) /\ outbuf \o l \in Seq(Pieces)
        /\ <<>> \o (outbuf \o l) = outbuf \o l
        /\ \A s \in Seq(Pieces) : s \o <<>> = s
    <2>1. <<>> \in Seq(Pieces) /\ outbuf \o l \in Seq(Pieces)
      BY <1>1, EmptySeq, ConcatProperties
    <2> QED BY <2>1, ConcatEmptySeq
  <1>4. fin \in DOMAIN files /\ \A f \in DOMAIN files : files[f] \in Seq(Pieces)
    <2>1. LastNb \in 0..Names - 1 /\ Names \in Nat \ {0} /\ Named(LastNb) = fin
      BY <1>1, NamesOf, PersistentAssumption DEF TypeInv
    <2>2. LastNb \in 0..LastNb
      BY <2>1
    <2> QED BY <1>1, <2>1, <2>2 DEF TypeInv
  <1>5. Flushed(files, <<>>) /\ Flushed(FlushOut(outbuf), outbuf)
    BY <1>3, <1>4 DEF Flushed, FlushOut
  <1>6. Flushed(g, outbuf \o l)
    <2>1. \A f \in DOMAIN files : fits => fs[f] = files[f]
      OBVIOUS
    <2>2. DOMAIN fs = DOMAIN files
      BY DEF FlushOut
    <2>3. \A f \in DOMAIN files :
            ~fits => fs[f] = IF f = fin THEN files[f] \o outbuf ELSE files[f]
      BY DEF FlushOut
    <2> DEFINE s == files[fin]
    <2>4. Three(Pieces, s, outbuf, l)
      BY <1>1, <1>4 DEF Three
    <2> HIDE DEF s
    <2>5. (s \o outbuf) \o l = s \o (outbuf \o l)
      BY ONLY <2>4, Regrouped
    <2>6. fs[fin] \o ob = files[fin] \o (outbuf \o l)
      BY <1>4, <2>1, <2>3, <2>5 DEF s
    <2>7. \A f \in DOMAIN files : f # fin => fs[f] = files[f]
      BY <2>1, <2>3
    <2> HIDE DEF fs, ob
    <2> QED BY <1>4, <2>2, <2>6, <2>7 DEF Flushed
  <1>7. ASSUME ~new
        PROVE  \E b : Pushes(b, l)
    <2>1. in' \in Nat
      BY <1>1, <1>2
    <2>2. HasRest(Pieces, buf', bufPos') /\ RestOf(buf', bufPos') = RestOf(buf, bufPos)
      BY <1>1, <1>2 DEF TypeInv
    <2>3. CASE fits
      <3>1. Pushes(<<>>, l)
        BY <1>1, <1>2, <1>3, <1>5, <1>7, <2>1, <2>2, <2>3 DEF Pushes
      <3> QED BY <3>1
    <2>4. CASE ~fits
      <3>1. Pushes(outbuf, l)
        BY <1>1, <1>2, <1>3, <1>5, <1>7, <2>1, <2>2, <2>4 DEF Pushes
      <3> QED BY <3>1
    <2> QED BY <2>3, <2>4
  <1>8. ASSUME new PROVE Rolls(g, l)
    <2>1. in' \in Nat
      BY <1>1, <1>2
    <2> HIDE DEF g
    <2> QED BY <1>1, <1>2, <1>6, <1>8, <2>1 DEF Rolls
  <1> HIDE DEF fits, fs, ob, g
  <1>9. /\ UrlByFile \in Nat \ {0} /\ in % UrlByFile \in 0..UrlByFile - 1 /\ out \in Nat
        /\ in' % UrlByFile = IF in % UrlByFile = UrlByFile - 1 THEN 0
                             ELSE (in % UrlByFile) + 1
        /\ new <=> in % UrlByFile = UrlByFile - 1
    <2>1. UrlByFile \in Nat \ {0} /\ out \in Nat
      BY <1>1, PersistentAssumption DEF TypeInv
    <2>2. /\ in % UrlByFile \in 0..UrlByFile - 1
          /\ (in + 1) % UrlByFile = IF in % UrlByFile = UrlByFile - 1 THEN 0
                                    ELSE (in % UrlByFile) + 1
      BY <1>1, <2>1, ModSteps
    <2>3. in' % UrlByFile = (in + 1) % UrlByFile
      BY <1>2
    <2> QED BY <2>1, <2>2, <2>3 DEF new
  <1>10. /\ TypeInv' /\ Stream' = Stream \o l
         /\ Chapters(Wholes', out, in' % UrlByFile)
    <2>1. CASE new
      <3>1. Rolls(g, l)
        BY <1>8, <2>1
      <3>2. /\ TypeInv' /\ Stream' = Stream \o l
            /\ \E y : LastGrows(Pieces, Wholes, y, l) /\ Wholes' = Append(y, <<>>)
        BY <1>1, <3>1, RollsText
      <3>3. PICK y : LastGrows(Pieces, Wholes, y, l) /\ Wholes' = Append(y, <<>>)
        BY <3>2
      <3>4. Chapters(y, out, (in % UrlByFile) + 1)
        <4> DEFINE z == Wholes
                   m == in % UrlByFile
        <4>1. LastGrows(Pieces, z, y, Line(u)) /\ Chapters(z, out, m)
          BY <1>1, <3>3 DEF l
        <4> HIDE DEF z, m
        <4>2. Chapters(y, out, m + 1)
          BY <1>9, <4>1, ChaptersPut
        <4> QED BY <4>2 DEF m
      <3>5. (in % UrlByFile) + 1 = UrlByFile /\ in' % UrlByFile = 0
        BY <1>9, <2>1
      <3>6. Chapters(Append(y, <<>>), out, 0)
        <4>1. y \in Seq(Seq(Pieces)) /\ Len(y) # 0 /\ Chapters(y, out, UrlByFile)
          BY <3>3, <3>4, <3>5 DEF LastGrows
        <4> QED BY <1>9, <4>1, ChaptersRoll
      <3> QED BY <3>2, <3>3, <3>5, <3>6
    <2>2. CASE ~new
      <3>1. PICK b : Pushes(b, l)
        BY <1>7, <2>2
      <3>2. TypeInv' /\ LastGrows(Pieces, Wholes, Wholes', l) /\ Stream' = Stream \o l
        BY <1>1, <3>1, PushesText
      <3>3. Chapters(Wholes', out, (in % UrlByFile) + 1)
        <4> DEFINE z == Wholes
                   y == Wholes'
                   m == in % UrlByFile
        <4>1. LastGrows(Pieces, z, y, Line(u)) /\ Chapters(z, out, m)
          BY <1>1, <3>2 DEF l
        <4> HIDE DEF z, y, m
        <4>2. Chapters(y, out, m + 1)
          BY <1>9, <4>1, ChaptersPut
        <4> QED BY <4>2 DEF y, m
      <3>4. in' % UrlByFile = (in % UrlByFile) + 1
        BY <1>9, <2>2
      <3> QED BY <3>2, <3>3, <3>4
    <2> QED BY <2>1, <2>2
  <1>11. LinesInv'
    <2>1. PICK q \in Seq(Items) : Stream = Lines(q) /\ in = out + Len(q)
      BY <1>1 DEF LinesInv
    <2> DEFINE r == Append(q, u)
    <2>2. r \in Seq(Items) /\ Lines(r) = Lines(q) \o l /\ Len(r) = Len(q) + 1 /\ Len(q) \in Nat
      BY LinesAppend, AppendProperties, LenProperties DEF l
    <2> HIDE DEF r
    <2>3. Stream' = Lines(r) /\ in' = out' + Len(r)
      BY <1>2, <1>9, <1>10, <2>1, <2>2
    <2> QED BY <2>2, <2>3 DEF LinesInv
  <1> QED BY <1>2, <1>10, <1>11 DEF IInv, l

\* A step that leaves the text as it is, in each file.
LEMMA TextKept ==
    ASSUME IInv, TypeInv', Wholes' = Wholes, Stream' = Stream, in' = in, out' = out
    PROVE  IInv'
BY DEF IInv, LinesInv

LEMMA NothingPushed ==
    ASSUME NEW z, NEW y, LastGrows(Pieces, z, y, <<>>)
    PROVE  y = z
  <1>1. /\ z \in Seq(Seq(Pieces)) /\ y \in Seq(Seq(Pieces)) /\ Len(z) = Len(y)
        /\ \A i \in 1..Len(z) : y[i] = IF i = Len(z) THEN z[i] \o <<>> ELSE z[i]
    BY DEF LastGrows
  <1>2. ASSUME NEW i \in 1..Len(z) PROVE y[i] = z[i]
    <2>1. z[i] \in Seq(Pieces)
      BY <1>1, ElementOfSeq
    <2>2. z[i] \o <<>> = z[i]
      BY <2>1, ConcatEmptySeq
    <2> QED BY <1>1, <2>2
  <1> QED BY <1>1, <1>2, SeqEqual

LEMMA PushesNothing ==
    ASSUME IInv, NEW b, Pushes(b, <<>>), in' = in
    PROVE  IInv' /\ Stream' = Stream
  <1>1. TypeInv' /\ LastGrows(Pieces, Wholes, Wholes', <<>>) /\ Stream' = Stream \o <<>>
    BY PushesText DEF IInv
  <1>2. Wholes' = Wholes
    <2> DEFINE z == Wholes
               y == Wholes'
    <2>1. LastGrows(Pieces, z, y, <<>>)
      BY <1>1
    <2> HIDE DEF z, y
    <2>2. y = z
      BY ONLY <2>1, NothingPushed
    <2> QED BY <2>2 DEF z, y
  <1>3. Stream' = Stream
    <2>1. Stream \in Seq(Pieces)
      BY LinesType DEF IInv, LinesInv
    <2> QED BY <1>1, <2>1, ConcatEmptySeq
  <1>4. out' = out
    BY DEF Pushes
  <1> QED BY <1>1, <1>2, <1>3, <1>4, TextKept

\* Nothing is written, and the end of the text stays as it is.
LEMMA NothingFlushed ==
    ASSUME TypeInv
    PROVE  /\ Flushed(files, <<>>)
           /\ <<>> \in Seq(Pieces) /\ <<>> \o outbuf = outbuf \o <<>> /\ <<>> \o <<>> = <<>>
  <1>1. <<>> \in Seq(Pieces) /\ outbuf \in Seq(Pieces)
    BY EmptySeq DEF TypeInv
  <1>2. <<>> \o outbuf = outbuf \o <<>> /\ <<>> \o <<>> = <<>>
    BY <1>1, ConcatEmptySeq
  <1>3. \A f \in DOMAIN files : files[f] \o <<>> = files[f]
    <2> SUFFICES ASSUME NEW f \in DOMAIN files PROVE files[f] \o <<>> = files[f]
      OBVIOUS
    <2>1. files[f] \in Seq(Pieces)
      BY DEF TypeInv
    <2> QED BY <2>1, ConcatEmptySeq
  <1> QED BY <1>1, <1>2, <1>3 DEF Flushed


\* get begins: a buffer used up is emptied.
LEMMA GetText ==
    ASSUME IInv, Get
    PROVE  IInv' /\ Stream' = Stream
  <1>1. TypeInv /\ buf \in Seq(Pieces) /\ HasRest(Pieces, buf, bufPos)
    BY DEF IInv, TypeInv, HasRest
  <1>2. HasRest(Pieces, buf', bufPos') /\ RestOf(buf', bufPos') = RestOf(buf, bufPos)
    <2>1. CASE bufPos = bufEnd
      <3>1. buf' = <<>> /\ bufPos' = 0 /\ bufPos = Len(buf)
        BY <2>1 DEF Get, bufEnd
      <3>2. <<>> \in Seq(Pieces) /\ Len(<<>>) = 0
        BY EmptySeq
      <3>3. HasRest(Pieces, <<>>, 0)
        BY <3>2 DEF HasRest
      <3>4. RestOf(buf, Len(buf)) = <<>> /\ RestOf(<<>>, 0) = <<>>
        BY <1>1, <3>2, RestOfNone
      <3> QED BY <3>1, <3>3, <3>4
    <2>2. CASE bufPos # bufEnd
      BY <1>1, <2>2 DEF Get
    <2> QED BY <2>1, <2>2
  <1>3. Pushes(<<>>, <<>>)
    <2>1. /\ in' \in Nat /\ out' = out /\ fin' = fin /\ fout' = fout /\ rpos' = rpos
          /\ files' = files /\ outbuf' = outbuf /\ outbuf \in Seq(Pieces)
      BY <1>1 DEF Get, TypeInv
    <2> QED BY <1>1, <1>2, <2>1, NothingFlushed DEF Pushes
  <1>4. in' = in
    BY DEF Get
  <1> QED BY <1>3, <1>4, PushesNothing

\* A line that begins in the second half of the buffer is moved, not changed.
LEMMA CompactedRest ==
    ASSUME TypeInv
    PROVE  /\ HasRest(Pieces, Compacted, CompactedPos)
           /\ RestOf(Compacted, CompactedPos) = RestOf(buf, bufPos)
  <1>1. HasRest(Pieces, buf, bufPos)
    BY DEF TypeInv
  <1>2. CASE SecondHalf
    <2> DEFINE r == RestOf(buf, bufPos)
    <2>1. r \in Seq(Pieces)
      BY <1>1, RestOfType
    <2>2. Compacted = r /\ CompactedPos = 0
      BY <1>2 DEF Compacted, CompactedPos, RestOf, bufEnd
    <2> HIDE DEF r
    <2>3. HasRest(Pieces, r, 0)
      <3>1. Len(r) \in Nat
        BY <2>1, LenProperties
      <3> QED BY <2>1, <3>1 DEF HasRest
    <2>4. RestOf(r, 0) = r
      BY <2>1, RestOfNone
    <2> QED BY <2>2, <2>3, <2>4 DEF r
  <1>3. CASE ~SecondHalf
    BY <1>1, <1>3 DEF Compacted, CompactedPos
  <1> QED BY <1>2, <1>3

\* read gives nothing: what was not written is in the file, at the end of what is
\* not read yet.
LEMMA ReadNothingText ==
    ASSUME IInv, ReadNothing
    PROVE  IInv' /\ Stream' = Stream
  <1>1. TypeInv
    BY DEF IInv
  <1>2. Pushes(outbuf, <<>>)
    <2>1. /\ in' \in Nat /\ out' = out /\ fin' = fin /\ fout' = fout /\ rpos' = rpos
          /\ files' = FlushOut(outbuf) /\ outbuf' = <<>> /\ outbuf \in Seq(Pieces)
          /\ buf' = Compacted /\ bufPos' = CompactedPos
      BY <1>1 DEF ReadNothing, ReadMore, TypeInv
    <2>2. Flushed(files', outbuf)
      BY <2>1 DEF Flushed, FlushOut
    <2>3. HasRest(Pieces, buf', bufPos') /\ RestOf(buf', bufPos') = RestOf(buf, bufPos)
      BY <1>1, <2>1, CompactedRest
    <2>4. <<>> \in Seq(Pieces)
      BY EmptySeq
    <2> QED BY <2>1, <2>2, <2>3, <2>4 DEF Pushes
  <1>3. in' = in
    BY DEF ReadNothing, ReadMore
  <1> QED BY <1>2, <1>3, PushesNothing

\* read gives the next n pieces of the file: they are in the buffer now.
LEMMA ReadText ==
    ASSUME IInv, NEW n \in 1..BufSize, Read(n)
    PROVE  IInv' /\ Stream' = Stream
  <1> DEFINE F == files[fout]
             c == Compacted
             cp == CompactedPos
             v == rpos + n
             p == SubSeq(F, rpos + 1, v)
  <1>1. /\ TypeInv /\ HasRest(Pieces, F, rpos) /\ n \in Nat
        /\ rpos \in Nat /\ Len(F) \in Nat /\ rpos <= Len(F)
    <2>1. TypeInv /\ HasRest(Pieces, F, rpos)
      BY DEF IInv, TypeInv
    <2>2. rpos \in 0..Len(F) /\ Len(F) \in Nat
      BY <2>1, LenProperties DEF HasRest
    <2>3. BufSize \in Nat /\ n \in 1..BufSize
      BY PersistentAssumption
    <2> QED BY <2>1, <2>2, <2>3
  <1>2. /\ in' = in /\ out' = out /\ fin' = fin /\ fout' = fout
        /\ files' = files /\ outbuf' = outbuf
        /\ buf' = c \o p /\ bufPos' = cp /\ rpos' = v
        /\ n <= Len(F) - rpos
    BY DEF Read, ReadMore, Unread
  <1>3. HasRest(Pieces, c, cp) /\ RestOf(c, cp) = RestOf(buf, bufPos)
    BY <1>1, CompactedRest
  <1>4. v \in rpos..Len(F)
    BY <1>1, <1>2
  <1> HIDE DEF c, cp, F, v
  <1>5. HasRest(Pieces, F, v) /\ p \in Seq(Pieces) /\ RestOf(F, rpos) = p \o RestOf(F, v)
    <2>1. HasRest(Pieces, F, rpos)
      BY <1>1
    <2> QED BY <1>4, <2>1, RestOfCut
  <1> HIDE DEF p
  <1>6. HasRest(Pieces, c \o p, cp) /\ RestOf(c \o p, cp) = RestOf(c, cp) \o p
    <2>1. HasRest(Pieces, c, cp) /\ p \in Seq(Pieces)
      BY <1>3, <1>5
    <2> QED BY ONLY <2>1, RestOfConcat
  <1>7. TypeInv'
    <2>1. HasRest(Pieces, buf', bufPos')
      BY <1>2, <1>6
    <2>2. HasRest(Pieces, files'[fout'], rpos')
      BY <1>2, <1>5 DEF F
    <2>3. LastNb' = LastNb /\ (\A k \in 0..LastNb : Named(k) \in DOMAIN files) /\ NamesInv'
      BY <1>1, <1>2 DEF LastNb, TypeInv, NamesInv
    <2>4. \A k \in 0..LastNb' : Named(k)' \in DOMAIN files'
      BY <1>2, <2>3 DEF Named
    <2> QED BY <1>1, <1>2, <2>1, <2>2, <2>3, <2>4 DEF TypeInv
  <1>8. FirstPart' = FirstPart
    <2> DEFINE a == RestOf(buf, bufPos)
               d == RestOf(F, v)
    <2>1. a \in Seq(Pieces) /\ d \in Seq(Pieces)
      BY <1>1, <1>5, RestOfType DEF TypeInv
    <2>2. FirstPart' = (a \o p) \o d
      BY <1>2, <1>3, <1>6 DEF FirstPart, F
    <2>3. FirstPart = a \o (p \o d)
      BY <1>5 DEF FirstPart, F
    <2>4. Three(Pieces, a, p, d)
      BY <1>5, <2>1 DEF Three
    <2> HIDE DEF a, d
    <2>5. (a \o p) \o d = a \o (p \o d)
      BY ONLY <2>4, Regrouped
    <2> QED BY <2>2, <2>3, <2>5
  <1>9. Wholes' = Wholes
    <2>1. LastNb' = LastNb
      BY <1>2 DEF LastNb
    <2>2. [i \in 1..LastNb + 1 |-> Whole(i - 1)'] = [i \in 1..LastNb + 1 |-> Whole(i - 1)]
      <3> SUFFICES ASSUME NEW i \in 1..LastNb + 1 PROVE Whole(i - 1)' = Whole(i - 1)
        OBVIOUS
      <3> QED BY <1>2, <1>8, <2>1 DEF Whole, Part, Named
    <2> QED BY <2>1, <2>2 DEF Wholes
  <1>10. Stream' = Stream
    <2>1. Stream = FlattenSeq(Wholes)
      BY <1>1, StreamIsWholes
    <2>2. (TypeInv => /\ \A k \in 0..LastNb : Part(k) \in Seq(Pieces) /\ Whole(k) \in Seq(Pieces)
                      /\ Wholes \in Seq(Seq(Pieces)) /\ Len(Wholes) = LastNb + 1
                      /\ LastNb \in Nat
                      /\ \A i \in 1..LastNb + 1 : Wholes[i] = Whole(i - 1)
                      /\ Stream = FlattenSeq(Wholes))'
      BY StreamIsWholes, PTL
    <2>3. Stream' = FlattenSeq(Wholes')
      BY <1>7, <2>2
    <2> QED BY <1>9, <2>1, <2>3
  <1> QED BY <1>2, <1>7, <1>9, <1>10, TextKept


\* The next file is read, and the first one is gone: the places of the files are
\* those that were one more.
NextFile ==
    /\ fin' = fin /\ fout' = makeName(fout + 1) /\ files' = Unlinked(files, fout)
    /\ rpos' = 0 /\ outbuf' = outbuf /\ buf' = buf
    /\ HasRest(Pieces, buf, bufPos') /\ RestOf(buf, bufPos') = <<>>
    /\ in' \in Nat /\ out' = 0
    /\ LastNb # 0

LEMMA NextFileText ==
    ASSUME TypeInv, NextFile
    PROVE  TypeInv' /\ Wholes' = Tail(Wholes) /\ Stream = Wholes[1] \o Stream' /\ Len(Wholes) > 1
  <1>0. (NamesInv =>
          /\ LastNb = IF fout <= fin THEN fin - fout ELSE fin + Names - fout
          /\ LastNb \in 0..Names - 1
          /\ \A k \in 0..Names - 1 :
               /\ Named(k) = IF fout + k < Names THEN fout + k ELSE fout + k - Names
               /\ Named(k) \in 0..Names - 1
               /\ Named(k) = fin <=> k = LastNb
          /\ \A j, k \in 0..Names - 1 : Named(j) = Named(k) => j = k
          /\ Named(0) = fout
          /\ makeName(fin + 1) = IF fin + 1 < Names THEN fin + 1 ELSE 0
          /\ makeName(fout + 1) = IF fout + 1 < Names THEN fout + 1 ELSE 0)'
    BY NamesOf, PTL
  <1>1. /\ LastNb \in 0..Names - 1 /\ LastNb' \in 0..Names - 1 /\ Names \in Nat \ {0}
        /\ LastNb' = LastNb - 1 /\ LastNb \in Nat \ {0} /\ LastNb' \in Nat
        /\ NamesInv'
    <2>1. /\ LastNb = IF fout <= fin THEN fin - fout ELSE fin + Names - fout
          /\ LastNb \in 0..Names - 1
          /\ fout' = IF fout + 1 < Names THEN fout + 1 ELSE 0
      BY NamesOf DEF TypeInv, NextFile
    <2>2. /\ Names \in Nat \ {0} /\ fin \in 0..Names - 1 /\ fout \in 0..Names - 1 /\ fin' = fin
          /\ LastNb # 0
      BY PersistentAssumption DEF TypeInv, NamesInv, NextFile
    <2>3. NamesInv'
      BY <2>1, <2>2 DEF NamesInv
    <2>5. LastNb' = IF fout' <= fin THEN fin - fout' ELSE fin + Names - fout'
      BY <1>0, <2>2, <2>3
    <2>6. LastNb' = LastNb - 1
      BY <2>1, <2>2, <2>5
    <2>7. LastNb' \in 0..Names - 1
      BY <1>0, <2>3
    <2> QED BY <2>1, <2>2, <2>3, <2>6, <2>7
  <1>2. \A k \in 0..LastNb' :
          /\ k + 1 \in 0..LastNb /\ Named(k)' = Named(k + 1)
          /\ Named(k + 1) \in DOMAIN files /\ Named(k + 1) # fout
    <2> SUFFICES ASSUME NEW k \in 0..LastNb'
                 PROVE  /\ k + 1 \in 0..LastNb /\ Named(k)' = Named(k + 1)
                        /\ Named(k + 1) \in DOMAIN files /\ Named(k + 1) # fout
      OBVIOUS
    <2> DEFINE j == k + 1
    <2>1. k \in 0..Names - 1 /\ j \in 0..LastNb /\ j \in 0..Names - 1 /\ j # 0 /\ 0 \in 0..Names - 1
      BY <1>1
    <2>3. Named(k)' = IF fout' + k < Names THEN fout' + k ELSE fout' + k - Names
      BY <1>0, <1>1, <2>1
    <2>4. /\ Named(j) = IF fout + j < Names THEN fout + j ELSE fout + j - Names
          /\ fout' = IF fout + 1 < Names THEN fout + 1 ELSE 0
          /\ Named(0) = fout /\ (Named(j) = Named(0) => j = 0)
      BY <2>1, NamesOf DEF TypeInv, NextFile
    <2>5. fout \in 0..Names - 1
      BY DEF TypeInv, NamesInv
    <2>6. Named(k)' = Named(j)
      BY <1>1, <2>1, <2>3, <2>4, <2>5
    <2> HIDE DEF j
    <2>7. Named(j) \in DOMAIN files /\ Named(j) # fout
      BY <2>1, <2>4 DEF TypeInv
    <2> QED BY <2>1, <2>6, <2>7 DEF j
  <1>3. /\ DOMAIN files' = DOMAIN files \ {fout}
        /\ \A f \in DOMAIN files : f # fout => files'[f] = files[f]
    BY DEF NextFile, Unlinked
  <1>4. \A k \in 0..LastNb' : Named(k)' \in DOMAIN files' /\ files'[Named(k)'] = files[Named(k + 1)]
    BY <1>2, <1>3
  <1>5. 0 \in 0..LastNb' /\ 0 + 1 = 1 /\ Named(0)' = fout'
    BY <1>0, <1>1
  <1>6. files'[fout'] = files[Named(1)] /\ files[Named(1)] \in Seq(Pieces)
    <2>1. files'[fout'] = files[Named(0 + 1)] /\ Named(0 + 1) \in DOMAIN files
      BY <1>2, <1>4, <1>5
    <2> QED BY <1>5, <2>1 DEF TypeInv
  <1>7. TypeInv'
    <2>1. \A f \in DOMAIN files' : files'[f] \in Seq(Pieces)
      BY <1>3 DEF TypeInv
    <2>2. HasRest(Pieces, files'[fout'], rpos')
      <3>1. Len(files[Named(1)]) \in Nat
        BY <1>6, LenProperties
      <3> QED BY <1>6, <3>1 DEF HasRest, NextFile
    <2>3. \A k \in 0..LastNb' : Named(k)' \in DOMAIN files'
      BY <1>4
    <2>4. /\ in' \in Nat /\ out' \in 0..UrlByFile - 1
          /\ HasRest(Pieces, buf', bufPos') /\ outbuf' \in Seq(Pieces)
      BY PersistentAssumption DEF NextFile, TypeInv
    <2> QED BY <1>1, <2>1, <2>2, <2>3, <2>4 DEF TypeInv
  <1>8. FirstPart' = files[Named(1)]
    <2> DEFINE s == files[Named(1)]
    <2>1. s \in Seq(Pieces)
      BY <1>6
    <2>2. FirstPart' = <<>> \o RestOf(s, 0)
      BY <1>6 DEF FirstPart, NextFile
    <2> HIDE DEF s
    <2>3. RestOf(s, 0) = s /\ <<>> \o s = s
      BY <2>1, RestOfNone, ConcatEmptySeq
    <2> QED BY <2>2, <2>3 DEF s
  <1> DEFINE z == Wholes
             y == Wholes'
             t == Tail(z)
  <1>9. /\ z \in Seq(Seq(Pieces)) /\ Len(z) = LastNb + 1
        /\ \A i \in 1..LastNb + 1 : z[i] = Whole(i - 1)
        /\ Stream = FlattenSeq(z)
    BY StreamIsWholes
  <1>10. /\ y \in Seq(Seq(Pieces)) /\ Len(y) = LastNb' + 1
         /\ \A i \in 1..LastNb' + 1 : y[i] = Whole(i - 1)'
         /\ Stream' = FlattenSeq(y)
    <2>1. (TypeInv => /\ \A k \in 0..LastNb : Part(k) \in Seq(Pieces) /\ Whole(k) \in Seq(Pieces)
                      /\ Wholes \in Seq(Seq(Pieces)) /\ Len(Wholes) = LastNb + 1
                      /\ LastNb \in Nat
                      /\ \A i \in 1..LastNb + 1 : Wholes[i] = Whole(i - 1)
                      /\ Stream = FlattenSeq(Wholes))'
      BY StreamIsWholes, PTL
    <2> QED BY <1>7, <2>1
  <1> HIDE DEF z, y
  <1>11. z # <<>> /\ Len(z) > 1 /\ Len(y) = Len(z) - 1
    <2>1. Len(z) > 1 /\ Len(y) = Len(z) - 1
      BY <1>1, <1>9, <1>10
    <2> QED BY <2>1
  <1>12. /\ Head(z) = z[1] /\ t \in Seq(Seq(Pieces)) /\ Len(t) = Len(z) - 1
         /\ \A i \in 1..Len(t) : t[i] = z[i + 1]
    BY <1>9, <1>11, HeadTailProperties
  <1> HIDE DEF t
  <1>13. ASSUME NEW i \in 1..Len(y) PROVE y[i] = t[i]
    <2> DEFINE k == i - 1
               j == i + 1
    <2>1. /\ i \in 1..LastNb' + 1 /\ k \in 0..LastNb' /\ k + 1 = i /\ i \in 1..Len(t)
          /\ j \in 1..LastNb + 1 /\ j - 1 = i /\ i # 0 /\ i \in 0..LastNb
          /\ (k = LastNb' <=> i = LastNb) /\ (k = 0 <=> i = 1) /\ i \in Nat
      BY <1>1, <1>9, <1>10, <1>12
    <2>2. y[i] = Whole(k)'
      BY <1>10, <2>1
    <2>3. t[i] = z[j] /\ z[j] = Whole(i)
      <3>1. t[i] = z[j]
        BY <1>12, <2>1
      <3> HIDE DEF j
      <3>2. z[j] = Whole(j - 1)
        BY <1>9, <2>1
      <3> QED BY <2>1, <3>1, <3>2
    <2>4. Part(k)' = files[Named(i)]
      <3>1. CASE k = 0
        BY <1>8, <2>1, <3>1 DEF Part
      <3>2. CASE k # 0
        <4>1. files'[Named(k)'] = files[Named(k + 1)]
          BY <1>4, <2>1
        <4> QED BY <2>1, <3>2, <4>1 DEF Part
      <3> QED BY <3>1, <3>2
    <2>5. Part(i) = files[Named(i)]
      BY <2>1 DEF Part
    <2>6. outbuf' = outbuf
      BY DEF NextFile
    <2>7. Whole(k)' = IF k = LastNb' THEN Part(k)' \o outbuf' ELSE Part(k)'
      BY DEF Whole
    <2>8. Whole(i) = IF i = LastNb THEN Part(i) \o outbuf ELSE Part(i)
      BY DEF Whole
    <2> QED BY <2>1, <2>2, <2>3, <2>4, <2>5, <2>6, <2>7, <2>8
  <1>14. y = t
    BY <1>10, <1>11, <1>12, <1>13, SeqEqual
  <1>15. FlattenSeq(z) = Head(z) \o FlattenSeq(t)
    BY <1>9, <1>11, FlattenHead DEF t
  <1>16. Stream = z[1] \o Stream'
    BY <1>9, <1>10, <1>12, <1>14, <1>15
  <1> QED BY <1>7, <1>11, <1>14, <1>16 DEF t, y, z


\* A line is taken, of which the text not read yet is without now; the other files
\* stay as they are.
Takes(a) ==
    /\ in' = in /\ out' \in 0..UrlByFile - 1 /\ fin' = fin /\ fout' = fout /\ rpos' = rpos
    /\ files' = files /\ outbuf' = outbuf
    /\ HasRest(Pieces, buf', bufPos') /\ a \in Seq(Pieces)
    /\ RestOf(buf, bufPos) = a \o RestOf(buf', bufPos')

LEMMA TakesText ==
    ASSUME TypeInv, NEW a, Takes(a)
    PROVE  TypeInv' /\ FirstShrinks(Pieces, Wholes, Wholes', a) /\ Stream = a \o Stream'
  <1>1. LastNb' = LastNb /\ \A k \in 0..LastNb : Named(k)' = Named(k)
    BY DEF Takes, LastNb, Named
  <1>2. TypeInv'
    <2>1. \A k \in 0..LastNb' : Named(k)' \in DOMAIN files'
      BY <1>1 DEF TypeInv, Takes
    <2>2. NamesInv'
      BY DEF TypeInv, NamesInv, Takes
    <2> QED BY <2>1, <2>2 DEF TypeInv, Takes
  <1> DEFINE b == RestOf(buf', bufPos')
             f == RestOf(files[fout], rpos)
             o == outbuf
             p == b \o f
  <1>3. /\ a \in Seq(Pieces) /\ b \in Seq(Pieces) /\ f \in Seq(Pieces) /\ o \in Seq(Pieces)
        /\ FirstPart = (a \o b) \o f /\ FirstPart' = p
    BY RestOfType DEF TypeInv, Takes, FirstPart
  <1> HIDE DEF b, f, o
  <1>4. p \in Seq(Pieces)
    BY <1>3, ConcatProperties
  <1>5. FirstPart = a \o p
    <2>1. Three(Pieces, a, b, f)
      BY <1>3 DEF Three
    <2>2. (a \o b) \o f = a \o (b \o f)
      BY ONLY <2>1, Regrouped
    <2> QED BY <1>3, <2>2
  <1> HIDE DEF p
  <1>6. (a \o p) \o o = a \o (p \o o)
    <2>1. Three(Pieces, a, p, o)
      BY <1>3, <1>4 DEF Three
    <2> QED BY ONLY <2>1, Regrouped
  <1> DEFINE z == Wholes
             y == Wholes'
  <1>7. /\ z \in Seq(Seq(Pieces)) /\ Len(z) = LastNb + 1 /\ LastNb \in Nat
        /\ \A i \in 1..LastNb + 1 : z[i] = Whole(i - 1)
        /\ Stream = FlattenSeq(z)
    BY StreamIsWholes
  <1>8. /\ y \in Seq(Seq(Pieces)) /\ Len(y) = LastNb' + 1
        /\ \A i \in 1..LastNb' + 1 : y[i] = Whole(i - 1)'
        /\ Stream' = FlattenSeq(y)
    <2>1. (TypeInv => /\ \A k \in 0..LastNb : Part(k) \in Seq(Pieces) /\ Whole(k) \in Seq(Pieces)
                      /\ Wholes \in Seq(Seq(Pieces)) /\ Len(Wholes) = LastNb + 1
                      /\ LastNb \in Nat
                      /\ \A i \in 1..LastNb + 1 : Wholes[i] = Whole(i - 1)
                      /\ Stream = FlattenSeq(Wholes))'
      BY StreamIsWholes, PTL
    <2> QED BY <1>2, <2>1
  <1> HIDE DEF z, y
  <1>9. ASSUME NEW i \in 1..Len(z) PROVE z[i] = IF i = 1 THEN a \o y[i] ELSE y[i]
    <2> DEFINE k == i - 1
    <2>1. i \in 1..LastNb + 1 /\ i \in 1..LastNb' + 1 /\ k \in 0..LastNb /\ (k = 0 <=> i = 1)
      BY <1>1, <1>7
    <2>2. z[i] = Whole(k) /\ y[i] = Whole(k)'
      BY <1>7, <1>8, <2>1
    <2>3. Whole(k)' = IF k = LastNb THEN Part(k)' \o o ELSE Part(k)'
      BY <1>1 DEF Whole, Takes, o
    <2>4. Whole(k) = IF k = LastNb THEN Part(k) \o o ELSE Part(k)
      BY DEF Whole, o
    <2> HIDE DEF k
    <2>5. CASE k = 0
      <3>1. Part(k) = a \o p /\ Part(k)' = p
        BY <1>3, <1>5, <2>5 DEF Part
      <3>2. z[i] = a \o y[i]
        BY <1>6, <2>2, <2>3, <2>4, <3>1
      <3> QED BY <2>1, <2>5, <3>2
    <2>6. CASE k # 0
      <3>1. Part(k)' = Part(k)
        BY <1>1, <2>1, <2>6 DEF Part, Takes
      <3> QED BY <2>1, <2>2, <2>3, <2>4, <2>6, <3>1
    <2> QED BY <2>5, <2>6
  <1>10. FirstShrinks(Pieces, z, y, a)
    <2>1. Len(z) = Len(y) /\ Len(z) # 0
      BY <1>1, <1>7, <1>8
    <2> QED BY <1>3, <1>7, <1>8, <1>9, <2>1 DEF FirstShrinks
  <1>11. FlattenSeq(z) = a \o FlattenSeq(y)
    BY ONLY <1>10, FlattenFirst
  <1> QED BY <1>2, <1>7, <1>8, <1>10, <1>11 DEF z, y

\* Where Take finds the first newline.
NewlineAt == CHOOSE k \in Newlines : \A j \in Newlines : k <= j

LEMMA NewlineFirst ==
    ASSUME TypeInv, Newlines # {}
    PROVE  /\ NewlineAt \in bufPos..Len(buf) /\ NewlineAt > bufPos
           /\ Newline(buf[NewlineAt])
           /\ \A k \in bufPos + 1..NewlineAt - 1 : ~Newline(buf[k])
  <1>1. bufPos \in Nat /\ Len(buf) \in Nat /\ bufPos <= Len(buf)
    BY LenProperties DEF TypeInv, HasRest
  <1>2. Newlines \in SUBSET Nat
    BY <1>1 DEF Newlines, bufEnd
  <1>3. \E k \in Newlines : \A j \in Newlines : k <= j
    BY <1>2, Least
  <1>4. NewlineAt \in Newlines /\ \A j \in Newlines : NewlineAt <= j
    BY <1>3 DEF NewlineAt
  <1> DEFINE n == NewlineAt
  <1>5. n \in bufPos + 1..Len(buf) /\ Newline(buf[n])
    BY <1>4 DEF Newlines, bufEnd
  <1> HIDE DEF n
  <1>6. ASSUME NEW k \in bufPos + 1..n - 1, Newline(buf[k]) PROVE FALSE
    <2>1. k \in Newlines
      BY <1>1, <1>5, <1>6 DEF Newlines, bufEnd
    <2>2. n <= k
      BY <1>4, <2>1 DEF n
    <2> QED BY <1>1, <1>5, <2>2
  <1>7. n \in bufPos..Len(buf) /\ n > bufPos
    BY <1>1, <1>5
  <1> QED BY <1>5, <1>6, <1>7 DEF n

\* get returns the first url, whose line is whole in the buffer.
LEMMA TakeText ==
    ASSUME IInv, Take
    PROVE  IInv' /\ got' \in Items /\ Stream = Line(got') \o Stream'
  <1> DEFINE n == NewlineAt
             a == SubSeq(buf, bufPos + 1, n)
             b == RestOf(buf, n)
             f == RestOf(files[fout], rpos)
             p == b \o f
             r == IF LastNb = 0 THEN p \o outbuf ELSE p
             z == Wholes
  <1>1. /\ TypeInv /\ Chapters(z, out, in % UrlByFile)
        /\ n \in bufPos..Len(buf) /\ n > bufPos /\ Newline(buf[n])
        /\ \A k \in bufPos + 1..n - 1 : ~Newline(buf[k])
        /\ bufPos \in Nat /\ Len(buf) \in Nat
        /\ HasRest(Pieces, buf, bufPos) /\ outbuf \in Seq(Pieces) /\ f \in Seq(Pieces)
    <2>1. TypeInv /\ Chapters(z, out, in % UrlByFile) /\ Newlines # {}
      BY DEF IInv, Take
    <2>2. bufPos \in Nat /\ Len(buf) \in Nat
      BY <2>1, LenProperties DEF TypeInv, HasRest
    <2>3. f \in Seq(Pieces)
      BY <2>1, RestOfType DEF TypeInv
    <2> QED BY <2>1, <2>2, <2>3, NewlineFirst DEF TypeInv
  <1>2. /\ got' = Parsed(a) /\ bufPos' = n /\ buf' = buf /\ fin' = fin /\ outbuf' = outbuf
        /\ EndsFile(out + 1) => /\ files' = Unlinked(files, fout) /\ fout' = makeName(fout + 1)
                                /\ rpos' = 0 /\ in' = in - (out + 1) /\ out' = 0
        /\ ~EndsFile(out + 1) => /\ out' = out + 1 /\ files' = files /\ fout' = fout
                                 /\ rpos' = rpos /\ in' = in
    BY DEF Take, NewlineAt, InRebased
  <1> HIDE DEF n
  <1>3. /\ HasRest(Pieces, buf, n) /\ a \in Seq(Pieces) /\ Len(a) = n - bufPos
        /\ \A i \in 1..n - bufPos : a[i] = buf[bufPos + i]
        /\ RestOf(buf, bufPos) = a \o b
    <2>1. HasRest(Pieces, buf, bufPos) /\ n \in bufPos..Len(buf)
      BY <1>1
    <2> QED BY ONLY <2>1, RestOfCut
  <1>4. b \in Seq(Pieces)
    BY <1>3, RestOfType
  <1> HIDE DEF a, b, f
  <1>5. p \in Seq(Pieces) /\ p \o outbuf \in Seq(Pieces) /\ r \in Seq(Pieces)
    <2>1. p \in Seq(Pieces)
      BY <1>1, <1>4, ConcatProperties
    <2>2. p \o outbuf \in Seq(Pieces)
      BY <1>1, <2>1, ConcatProperties
    <2> QED BY <2>1, <2>2
  <1>6. FirstPart = a \o p
    <2>1. Three(Pieces, a, b, f)
      BY <1>1, <1>3, <1>4 DEF Three
    <2>2. (a \o b) \o f = a \o (b \o f)
      BY ONLY <2>1, Regrouped
    <2> QED BY <1>3, <2>2 DEF FirstPart, f
  <1> HIDE DEF p
  <1>7. (a \o p) \o outbuf = a \o (p \o outbuf)
    <2>1. Three(Pieces, a, p, outbuf)
      BY <1>1, <1>3, <1>5 DEF Three
    <2> QED BY ONLY <2>1, Regrouped
  <1>8. /\ z \in Seq(Seq(Pieces)) /\ Len(z) = LastNb + 1 /\ LastNb \in Nat
        /\ z[1] = Whole(0)
        /\ Stream = FlattenSeq(z)
    <2>1. /\ z \in Seq(Seq(Pieces)) /\ Len(z) = LastNb + 1 /\ LastNb \in Nat
          /\ \A i \in 1..LastNb + 1 : z[i] = Whole(i - 1)
          /\ Stream = FlattenSeq(z)
      BY <1>1, StreamIsWholes
    <2>2. 1 \in 1..LastNb + 1 /\ 1 - 1 = 0
      BY <2>1
    <2> HIDE DEF z
    <2>3. z[1] = Whole(1 - 1)
      BY <2>1, <2>2
    <2> QED BY <2>1, <2>2, <2>3
  <1>9. z[1] = a \o r
    BY <1>6, <1>7, <1>8 DEF Whole, Part
  <1> HIDE DEF z, r
  <1>10. PICK q \in Seq(Items) :
           z[1] = Lines(q) /\ out + Len(q) = IF 1 = Len(z) THEN in % UrlByFile ELSE UrlByFile
    <2>1. 1 \in 1..Len(z)
      BY <1>8
    <2>2. Chapter(z[1], out, IF 1 = Len(z) THEN in % UrlByFile ELSE UrlByFile)
      BY <1>1, <2>1 DEF Chapters
    <2> QED BY <2>2 DEF Chapter
  <1>11. FirstLine(q, a, r)
    <2>1. Len(a) # 0 /\ Newline(a[Len(a)])
      <3>1. Len(a) \in 1..n - bufPos /\ bufPos + Len(a) = n
        BY <1>1, <1>3
      <3> QED BY <1>1, <1>3, <3>1
    <2>2. ASSUME NEW i \in 1..Len(a) - 1 PROVE ~Newline(a[i])
      <3>1. i \in 1..n - bufPos /\ bufPos + i \in bufPos + 1..n - 1
        BY <1>1, <1>3
      <3>2. a[i] = buf[bufPos + i]
        BY <1>3, <3>1
      <3>3. ~Newline(buf[bufPos + i])
        BY <1>1, <3>1
      <3> QED BY <3>2, <3>3
    <2> QED BY <1>3, <1>5, <1>9, <1>10, <2>1, <2>2 DEF FirstLine
  <1> DEFINE h == Head(q)
  <1>12. q # <<>> /\ h \in Items /\ a = Line(h) /\ LineCut(q, h, r)
    BY ONLY <1>11, FirstLineIs
  <1>13. got' = h
    BY <1>2, <1>12, LineParsed
  <1>14. /\ Tail(q) \in Seq(Items) /\ Len(Tail(q)) = Len(q) - 1 /\ Len(q) \in Nat \ {0}
         /\ r = Lines(Tail(q))
    BY <1>12, LinesCut
  <1> HIDE DEF h
  <1>15. /\ UrlByFile \in Nat \ {0} /\ out \in 0..UrlByFile - 1 /\ in \in Nat
         /\ in % UrlByFile \in 0..UrlByFile - 1
         /\ EndsFile(out + 1) <=> out + 1 = UrlByFile
    <2>1. UrlByFile \in Nat \ {0} /\ out \in 0..UrlByFile - 1 /\ in \in Nat
      BY <1>1, PersistentAssumption DEF TypeInv
    <2>2. in % UrlByFile \in 0..UrlByFile - 1
      BY <2>1, ModSteps
    <2> DEFINE m == out + 1
    <2>3. m \in 0..2 * UrlByFile - 1 /\ m # 0 /\ m \in 1..UrlByFile
      BY <2>1
    <2> HIDE DEF m
    <2>4. m % UrlByFile = IF m < UrlByFile THEN m ELSE m - UrlByFile
      BY <2>1, <2>3, ModRing
    <2>5. EndsFile(m) <=> m = UrlByFile
      BY <2>1, <2>3, <2>4 DEF EndsFile
    <2> QED BY <2>1, <2>2, <2>5 DEF m
  <1>16. PICK s \in Seq(Items) : Stream = Lines(s) /\ in = out + Len(s)
    BY DEF IInv, LinesInv
  <1>17. ASSUME Stream = a \o Stream', Stream' \in Seq(Pieces)
         PROVE  /\ Tail(s) \in Seq(Items) /\ Stream' = Lines(Tail(s))
                /\ in = out + 1 + Len(Tail(s)) /\ Len(Tail(s)) \in Nat
    <2>1. LineCut(s, h, Stream')
      BY <1>12, <1>16, <1>17 DEF LineCut
    <2>2. /\ Tail(s) \in Seq(Items) /\ Len(Tail(s)) = Len(s) - 1 /\ Len(s) \in Nat \ {0}
          /\ Stream' = Lines(Tail(s))
      BY ONLY <2>1, LinesCut
    <2> QED BY <1>15, <1>16, <2>2
  <1>18. TypeInv' => Stream' \in Seq(Pieces)
    <2>1. (TypeInv => /\ \A k \in 0..LastNb : Part(k) \in Seq(Pieces) /\ Whole(k) \in Seq(Pieces)
                      /\ Wholes \in Seq(Seq(Pieces)) /\ Len(Wholes) = LastNb + 1
                      /\ LastNb \in Nat
                      /\ \A i \in 1..LastNb + 1 : Wholes[i] = Whole(i - 1)
                      /\ Stream = FlattenSeq(Wholes))'
      BY StreamIsWholes, PTL
    <2> DEFINE y == Wholes'
    <2>2. TypeInv' => y \in Seq(Seq(Pieces)) /\ Stream' = FlattenSeq(y)
      BY <2>1
    <2> HIDE DEF y
    <2> QED BY <2>2, FlattenConcat
  <1>19. CASE ~EndsFile(out + 1)
    <2>1. Takes(a)
      <3>1. out' \in 0..UrlByFile - 1
        BY <1>2, <1>15, <1>19
      <3>2. HasRest(Pieces, buf', bufPos') /\ RestOf(buf, bufPos) = a \o RestOf(buf', bufPos')
        BY <1>2, <1>3 DEF b
      <3>3. /\ in' = in /\ fin' = fin /\ fout' = fout /\ rpos' = rpos
            /\ files' = files /\ outbuf' = outbuf
        BY <1>2, <1>19
      <3> QED BY <1>3, <3>1, <3>2, <3>3 DEF Takes
    <2>2. TypeInv' /\ FirstShrinks(Pieces, z, Wholes', a) /\ Stream = a \o Stream'
      BY <1>1, <2>1, TakesText DEF z
    <2>3. Chapters(Wholes', out + 1, in % UrlByFile)
      <3> DEFINE y == Wholes'
                 m == in % UrlByFile
      <3>1. FirstShrinks(Pieces, z, y, Line(h)) /\ Chapters(z, out, m) /\ out \in Nat
        BY <1>1, <1>12, <1>15, <2>2
      <3> HIDE DEF y, m
      <3>2. Chapters(y, out + 1, m)
        BY <1>12, <3>1, ChaptersTake
      <3> QED BY <3>2 DEF y, m
    <2>4. LinesInv'
      BY <1>2, <1>17, <1>18, <1>19, <2>2 DEF LinesInv
    <2>5. Chapters(Wholes', out', in' % UrlByFile)
      BY <1>2, <1>19, <2>3
    <2> QED BY <1>12, <1>13, <2>2, <2>4, <2>5 DEF IInv
  <1>20. CASE EndsFile(out + 1)
    <2>1. out + 1 = UrlByFile /\ LastNb # 0 /\ Len(q) = 1
      BY <1>8, <1>10, <1>14, <1>15, <1>20
    <2>2. r = <<>> /\ r = p
      <3>1. Tail(q) = <<>>
        <4>1. Len(Tail(q)) = 0
          BY <1>14, <2>1
        <4> QED BY <1>14, <4>1, EmptySeq
      <3> QED BY <1>14, <2>1, <3>1, LinesOfNone DEF r
    <2>3. b = <<>>
      <3>1. Len(p) = Len(b) + Len(f) /\ Len(b) \in Nat /\ Len(f) \in Nat
        BY <1>1, <1>4, LenProperties, ConcatProperties DEF p
      <3>2. Len(p) = 0
        BY <2>2
      <3>3. Len(b) = 0
        <4> DEFINE x == Len(b)
                   w == Len(f)
                   v == Len(p)
        <4>1. v = x + w /\ x \in Nat /\ w \in Nat /\ v = 0
          BY <3>1, <3>2
        <4> HIDE DEF x, w, v
        <4>2. x = 0
          BY <4>1
        <4> QED BY <4>2 DEF x
      <3> QED BY <1>4, <3>3, EmptySeq
    <2>4. z[1] = a
      <3>1. a \o <<>> = a
        BY <1>3, ConcatEmptySeq
      <3> QED BY <1>9, <2>2, <3>1
    <2>5. in - (out + 1) \in Nat
      <3> DEFINE x == FlattenSeq(Tail(z))
      <3>1. Len(z) # 0 /\ z # <<>>
        BY <1>8, EmptySeq
      <3>2. Head(z) = z[1] /\ Tail(z) \in Seq(Seq(Pieces))
        BY <1>8, <3>1, HeadTailProperties
      <3>3. Stream = Head(z) \o x
        BY <1>8, <3>1, FlattenHead
      <3>4. x \in Seq(Pieces)
        BY <3>2, FlattenConcat
      <3> HIDE DEF x
      <3>5. LineCut(s, h, x)
        BY <1>12, <1>16, <2>4, <3>2, <3>3, <3>4 DEF LineCut
      <3>6. Len(s) \in Nat \ {0}
        BY ONLY <3>5, LinesCut
      <3> QED BY <1>15, <1>16, <3>6
    <2>6. NextFile
      BY <1>2, <1>3, <1>20, <2>1, <2>3, <2>5 DEF NextFile, b
    <2>7. TypeInv' /\ Wholes' = Tail(z) /\ Stream = a \o Stream' /\ Len(z) > 1
      BY <1>1, <2>4, <2>6, NextFileText DEF z
    <2>8. LinesInv'
      <3>1. /\ Tail(s) \in Seq(Items) /\ Stream' = Lines(Tail(s))
            /\ in = out + 1 + Len(Tail(s)) /\ Len(Tail(s)) \in Nat
        BY <1>17, <1>18, <2>7
      <3>2. in' = out' + Len(Tail(s))
        BY <1>2, <1>15, <1>20, <3>1
      <3> QED BY <3>1, <3>2 DEF LinesInv
    <2>9. in' % UrlByFile = in % UrlByFile
      <3> DEFINE i == in'
      <3>1. i \in Nat /\ in = i + UrlByFile
        BY <1>2, <1>15, <1>20, <2>1, <2>5
      <3> HIDE DEF i
      <3>2. (i + UrlByFile) % UrlByFile = i % UrlByFile
        BY <1>15, <3>1, ModSteps
      <3> QED BY <3>1, <3>2 DEF i
    <2>10. Chapters(Wholes', out', in' % UrlByFile)
      <3>1. Chapters(Tail(z), 0, in % UrlByFile)
        BY <1>1, <1>8, <2>7, ChaptersNext
      <3> QED BY <1>2, <1>20, <2>7, <2>9, <3>1
    <2> QED BY <1>12, <1>13, <2>7, <2>8, <2>10 DEF IInv
  <1> QED BY <1>19, <1>20


-----------------------------------------------------------------------------
(* The theorems *)

\* At first nothing is put, and the one file is empty.
LEMMA InitInv == Init => IInv /\ Stream = <<>>
  <1> SUFFICES ASSUME Init PROVE IInv /\ Stream = <<>>
    OBVIOUS
  <1> DEFINE e == <<>>
  <1>1. e \in Seq(Pieces) /\ Len(e) = 0 /\ e \o e = e
    <2>1. e \in Seq(Pieces) /\ Len(e) = 0
      BY EmptySeq
    <2> QED BY <2>1, ConcatEmptySeq
  <1>2. /\ in = 0 /\ out = 0 /\ fin = 0 /\ fout = 0 /\ rpos = 0 /\ bufPos = 0
        /\ files = [f \in {0} |-> e] /\ outbuf = e /\ buf = e
    BY DEF Init
  <1> HIDE DEF e
  <1>3. Names \in Nat \ {0} /\ UrlByFile \in Nat \ {0}
    BY PersistentAssumption
  <1>4. NamesInv /\ LastNb = 0 /\ Named(0) = 0
    <2>1. NamesInv
      BY <1>2, <1>3 DEF NamesInv
    <2> QED BY <1>2, <1>3, <2>1, NamesOf
  <1>5. DOMAIN files = {0} /\ files[0] = e
    BY <1>2
  <1>6. HasRest(Pieces, e, 0) /\ RestOf(e, 0) = e
    <2>1. 0 \in 0..Len(e)
      BY <1>1
    <2> QED BY <1>1, <2>1, RestOfNone DEF HasRest
  <1>7. TypeInv
    <2>1. \A k \in 0..LastNb : Named(k) \in DOMAIN files
      BY <1>4, <1>5
    <2>2. \A f \in DOMAIN files : files[f] \in Seq(Pieces)
      BY <1>1, <1>5
    <2> QED BY <1>1, <1>2, <1>3, <1>4, <1>5, <1>6, <2>1, <2>2 DEF TypeInv
  <1>8. Whole(0) = e
    BY <1>1, <1>2, <1>4, <1>5, <1>6 DEF Whole, Part, FirstPart
  <1> DEFINE z == Wholes
             o == <<e>>
  <1>9. z \in Seq(Seq(Pieces)) /\ Len(z) = 1 /\ z[1] = e /\ Stream = FlattenSeq(z)
    <2>1. /\ z \in Seq(Seq(Pieces)) /\ Len(z) = LastNb + 1
          /\ \A i \in 1..LastNb + 1 : z[i] = Whole(i - 1)
          /\ Stream = FlattenSeq(z)
      BY <1>7, StreamIsWholes
    <2> HIDE DEF z
    <2>2. 1 \in 1..LastNb + 1 /\ 1 - 1 = 0 /\ LastNb + 1 = 1
      BY <1>4
    <2>3. z[1] = Whole(1 - 1)
      BY <2>1, <2>2
    <2> QED BY <1>8, <2>1, <2>2, <2>3
  <1> HIDE DEF z
  <1>10. Stream = e
    <2>1. o \in Seq(Seq(Pieces)) /\ Len(o) = 1 /\ o[1] = e
      BY <1>1
    <2>2. FlattenSeq(o) = e
      BY <1>1, FlattenOne
    <2> HIDE DEF o
    <2>3. \A i \in 1..Len(z) : i = 1
      BY <1>9
    <2>4. \A i \in 1..Len(z) : z[i] = o[i]
      BY <1>9, <2>1, <2>3
    <2>5. z = o
      BY <1>9, <2>1, <2>4, SeqEqual
    <2> QED BY <1>9, <2>2, <2>5
  <1>11. e \in Seq(Items) /\ Lines(e) = e
    BY EmptySeq, LinesOfNone DEF e
  <1>12. LinesInv
    <2>1. Stream = Lines(e) /\ in = out + Len(e)
      BY <1>1, <1>2, <1>10, <1>11
    <2> QED BY <1>11, <2>1 DEF LinesInv
  <1>13. Chapters(z, out, in % UrlByFile)
    <2>1. in % UrlByFile = 0
      <3>1. 0 \in 0..2 * UrlByFile - 1 /\ 0 < UrlByFile
        BY <1>3
      <3>2. 0 % UrlByFile = 0
        BY <1>3, <3>1, ModRing
      <3> QED BY <1>2, <3>2
    <2>2. Chapter(e, 0, 0)
      <3>1. e = Lines(e) /\ 0 + Len(e) = 0
        BY <1>1, <1>11
      <3> QED BY <1>11, <3>1 DEF Chapter
    <2>3. \A i \in 1..Len(z) : i = 1 /\ i = Len(z)
      BY <1>9
    <2> QED BY <1>2, <1>9, <2>1, <2>2, <2>3 DEF Chapters
  <1> QED BY <1>7, <1>10, <1>12, <1>13 DEF IInv, e, z

\* Every step keeps the invariant, and put and get are those of a queue of urls.
LEMMA StepText ==
    ASSUME IInv, [Next]_vars
    PROVE  /\ IInv'
           /\ \/ \E u \in Items : Stream' = Stream \o Line(u) /\ got' = NoItem
              \/ got' \in Items /\ Stream = Line(got') \o Stream'
              \/ Stream' = Stream /\ got' = got
  <1>1. ASSUME NEW u \in Items, Put(u)
        PROVE  IInv' /\ Stream' = Stream \o Line(u) /\ got' = NoItem
    <2>1. got' = NoItem
      BY <1>1 DEF Put
    <2> QED BY <1>1, <2>1, PutText
  <1>2. CASE Get
    <2>1. got' = got
      BY <1>2 DEF Get
    <2> QED BY <1>2, <2>1, GetText
  <1>3. ASSUME NEW n \in 1..BufSize, Read(n) PROVE IInv' /\ Stream' = Stream /\ got' = got
    <2>1. got' = got
      BY <1>3 DEF Read, ReadMore
    <2> QED BY <1>3, <2>1, ReadText
  <1>4. CASE ReadNothing
    <2>1. got' = got
      BY <1>4 DEF ReadNothing, ReadMore
    <2> QED BY <1>4, <2>1, ReadNothingText
  <1>5. CASE Take
    BY <1>5, TakeText
  <1>6. CASE UNCHANGED vars
    <2>1. /\ in' = in /\ out' = out /\ fin' = fin /\ fout' = fout /\ rpos' = rpos
          /\ files' = files /\ outbuf' = outbuf /\ buf' = buf /\ bufPos' = bufPos /\ got' = got
      BY <1>6 DEF vars
    <2>2. TypeInv /\ in \in Nat /\ outbuf \in Seq(Pieces) /\ HasRest(Pieces, buf, bufPos)
      BY DEF IInv, TypeInv
    <2>3. Pushes(<<>>, <<>>)
      BY <2>1, <2>2, NothingFlushed DEF Pushes
    <2> QED BY <2>1, <2>3, PushesNothing
  <1> QED BY <1>1, <1>2, <1>3, <1>4, <1>5, <1>6 DEF Next, ReadStep

LEMMA InvHolds == Spec => []IInv
  <1>1. Init => IInv
    BY InitInv
  <1>2. IInv /\ [Next]_vars => IInv'
    BY StepText
  <1> QED BY <1>1, <1>2, PTL DEF Spec

\* The urls in the fifo, by the invariant
LEMMA ContentIs ==
    IInv => \E q \in Seq(Items) : Stream = Lines(q) /\ Content = q /\ in = out + Len(q)
  <1> SUFFICES ASSUME IInv
               PROVE  \E q \in Seq(Items) : Stream = Lines(q) /\ Content = q /\ in = out + Len(q)
    OBVIOUS
  <1>1. PICK q \in Seq(Items) : Stream = Lines(q) /\ in = out + Len(q)
    BY DEF IInv, LinesInv
  <1>2. UrlsOf(Lines(q)) = q
    BY UrlsOfLines
  <1> QED BY <1>1, <1>2 DEF Content

\* in and out count the urls that are in the fifo: the test in # out, before a get,
\* is that there is one.
THEOREM CountsAreContent == Spec => [](in - out = Len(Content))
  <1>1. IInv => in - out = Len(Content)
    <2> SUFFICES ASSUME IInv PROVE in - out = Len(Content)
      OBVIOUS
    <2>1. PICK q \in Seq(Items) : Content = q /\ in = out + Len(q)
      BY ContentIs
    <2>2. out \in Nat /\ Len(q) \in Nat
      <3>1. out \in 0..UrlByFile - 1 /\ UrlByFile \in Nat
        BY PersistentAssumption DEF IInv, TypeInv
      <3> QED BY <3>1, LenProperties
    <2> QED BY <2>1, <2>2
  <1> QED BY <1>1, InvHolds, PTL

\* A step is one of the queue, or leaves it as it is.
LEMMA NextQueue == IInv /\ [Next]_vars => [Abs!Next]_<<Content, got>>
  <1> SUFFICES ASSUME IInv, [Next]_vars PROVE [Abs!Next]_<<Content, got>>
    OBVIOUS
  <1>0. (IInv => \E q \in Seq(Items) : Stream = Lines(q) /\ Content = q /\ in = out + Len(q))'
    BY ContentIs, PTL
  <1>1. /\ IInv'
        /\ \/ \E u \in Items : Stream' = Stream \o Line(u) /\ got' = NoItem
           \/ got' \in Items /\ Stream = Line(got') \o Stream'
           \/ Stream' = Stream /\ got' = got
    BY StepText
  <1>2. PICK q \in Seq(Items) : Stream = Lines(q) /\ Content = q /\ in = out + Len(q)
    BY ContentIs
  <1>3. PICK r \in Seq(Items) : Stream' = Lines(r) /\ Content' = r
    BY <1>0, <1>1
  <1>4. ASSUME NEW u \in Items, Stream' = Stream \o Line(u), got' = NoItem
        PROVE  Abs!Put(u)
    <2>1. Append(q, u) \in Seq(Items) /\ Lines(Append(q, u)) = Lines(q) \o Line(u)
      BY LinesAppend
    <2>2. Lines(r) = Lines(Append(q, u))
      BY <1>2, <1>3, <1>4, <2>1
    <2>3. r = Append(q, u)
      <3>1. UrlsOf(Lines(r)) = r /\ UrlsOf(Lines(Append(q, u))) = Append(q, u)
        BY <2>1, UrlsOfLines
      <3> QED BY <2>2, <3>1
    <2> QED BY <1>2, <1>3, <1>4, <2>3 DEF Abs!Put
  <1>5. ASSUME got' \in Items, Stream = Line(got') \o Stream'
        PROVE  Abs!Get
    <2>1. LineCut(q, got', Stream')
      <3>1. Stream' \in Seq(Pieces)
        BY <1>3, LinesType
      <3> QED BY <1>2, <1>5, <3>1 DEF LineCut
    <2>2. q # <<>> /\ Head(q) = got' /\ Tail(q) \in Seq(Items) /\ Stream' = Lines(Tail(q))
      BY ONLY <2>1, LinesCut
    <2>3. r = Tail(q)
      <3>1. UrlsOf(Lines(r)) = r /\ UrlsOf(Lines(Tail(q))) = Tail(q)
        BY <2>2, UrlsOfLines
      <3> QED BY <1>3, <2>2, <3>1
    <2> QED BY <1>2, <1>3, <2>2, <2>3 DEF Abs!Get
  <1>6. ASSUME Stream' = Stream, got' = got
        PROVE  UNCHANGED <<Content, got>>
    BY <1>6 DEF Content
  <1> QED BY <1>1, <1>4, <1>5, <1>6 DEF Abs!Next

\* The buffers and the files are one queue: wherever a line is cut by a read, a
\* flush or the end of a file, urls come out as they were put, in their order, each
\* once.
THEOREM DiskIsQueue == Spec => IsQueue
  <1>1. Init => Abs!Init
    <2> SUFFICES ASSUME Init PROVE Abs!Init
      OBVIOUS
    <2>1. Stream = <<>> /\ got = NoItem
      BY InitInv DEF Init
    <2>2. UrlsOf(<<>>) = <<>>
      <3>1. <<>> \in Seq(Items)
        BY EmptySeq
      <3> QED BY <3>1, LinesOfNone, UrlsOfLines
    <2> QED BY <2>1, <2>2 DEF Abs!Init, Content
  <1> QED BY <1>1, InvHolds, NextQueue, PTL DEF Spec, IsQueue, Abs!Spec

=============================================================================
