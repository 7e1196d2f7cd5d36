-------------------------- MODULE AdnsStreamProofs --------------------------
(***************************************************************************)
(* What TLAPS proves of the bytes of the TCP connection (AdnsStream).  The   *)
(* server gets the queries whole and in order if no writev took one byte of   *)
(* one, and adns__procdgram the replies, for messages of any length, any      *)
(* number of them and any pieces, since the bytes in the buffers and on their *)
(* way are, from where the next message begins, the frames of the messages    *)
(* not given yet.                                                             *)
(***************************************************************************)
EXTENDS AdnsStream, QueueLemmas

-----------------------------------------------------------------------------
(* Cutting a sequence of bytes in two *)

\* Three pieces of the bytes put together in two ways.
LEMMA Regroup == \A a, b, c \in Seq(Nat) : (a \o b) \o c = a \o (b \o c)
BY ConcatAssociative

\* Two ways to cut one sequence, f being the shorter first part.  The lemma has
\* its hypotheses by name: the provers find the sequences that it is about by it.
Cuts(p, n, f, r) ==
    /\ p \in Seq(Nat) /\ n \in Seq(Nat) /\ f \in Seq(Nat) /\ r \in Seq(Nat)
    /\ p \o n = f \o r /\ Len(f) <= Len(p)

\* The shorter first part begins the other.
LEMMA CutTwice ==
    ASSUME NEW p, NEW n, NEW f, NEW r, Cuts(p, n, f, r)
    PROVE  /\ SubSeq(p, 1, Len(f)) = f
           /\ SubSeq(p, Len(f) + 1, Len(p)) \o n = r
  <1>0. /\ p \in Seq(Nat) /\ n \in Seq(Nat) /\ f \in Seq(Nat) /\ r \in Seq(Nat)
        /\ p \o n = f \o r /\ Len(f) <= Len(p)
    BY DEF Cuts
  <1> DEFINE k == Len(f)
             a == SubSeq(p, 1, k)
             b == SubSeq(p, k + 1, Len(p))
  <1>1. Len(p) \in Nat /\ k \in Nat /\ k \in 0..Len(p)
    BY <1>0, LenProperties
  <1> HIDE DEF k
  <1>2. a \in Seq(Nat) /\ b \in Seq(Nat) /\ a \o b = p /\ Len(a) = k
    <2>1. k \in 0..Len(p) /\ p \in Seq(Nat)
      BY <1>0, <1>1
    <2> QED BY <2>1, CutSeq
  <1> HIDE DEF a, b
  <1>3. b \o n \in Seq(Nat) /\ Len(b \o n) \in Nat /\ Len(r) \in Nat
    BY <1>0, <1>2, ConcatProperties, LenProperties
  <1>4. a \o (b \o n) = f \o r
    <2>1. (a \o b) \o n = a \o (b \o n)
      <3>1. a \in Seq(Nat) /\ b \in Seq(Nat) /\ n \in Seq(Nat)
        BY <1>0, <1>2
      <3> QED BY ONLY <3>1, Regroup, Zenon
    <2> QED BY <1>0, <1>2, <2>1
  <1> DEFINE c == b \o n
  <1> HIDE DEF c
  <1> USE DEF k
  <1>5. a = f
    <2>1. c \in Seq(Nat) /\ Len(c) \in Nat
      BY <1>3 DEF c
    <2>2. \A i \in 1..k : (a \o c)[i] = a[i]
      <3>1. \A i \in 1..Len(a) + Len(c) : (a \o c)[i] = IF i <= Len(a) THEN a[i] ELSE c[i - Len(a)]
        <4>1. a \in Seq(Nat) /\ c \in Seq(Nat)
          BY <1>2, <2>1
        <4> QED BY ONLY <4>1, ConcatProperties
      <3> QED BY <1>1, <1>2, <2>1, <3>1
    <2>3. \A i \in 1..k : (f \o r)[i] = f[i]
      <3>1. \A i \in 1..k + Len(r) : (f \o r)[i] = IF i <= k THEN f[i] ELSE r[i - k]
        BY <1>0, ConcatProperties
      <3> QED BY <1>1, <1>3, <3>1
    <2>4. a \o c = f \o r
      BY <1>4 DEF c
    <2>5. \A i \in 1..Len(a) : a[i] = f[i]
      BY <1>2, <2>2, <2>3, <2>4
    <2> QED BY <1>0, <1>2, <2>5, SeqEqual
  <1>6. c = r
    <2>1. f \o c = f \o r /\ c \in Seq(Nat)
      BY <1>3, <1>4, <1>5 DEF c
    <2> QED BY <1>0, <2>1, ConcatSimplifications
  <1> QED BY <1>5, <1>6 DEF a, b, c

-----------------------------------------------------------------------------
(* Frames *)

\* The two bytes of a length, and the length that is read from them.
LEMMA TwoBytes ==
    ASSUME NEW n \in Nat
    PROVE  /\ n \div Base \in Nat /\ n % Base \in Nat
           /\ Length(n \div Base, n % Base) = n
  <1>1. Base \in Nat \ {0}
    BY AdnsStreamAssumption
  <1>2. n \div Base \in Nat /\ n % Base \in 0..Base - 1
    BY <1>1
  <1>3. n % Base = n - Base * (n \div Base)
    BY <1>1
  <1> DEFINE q == n \div Base
             r == n % Base
  <1>4. q \in Nat /\ r \in Nat /\ r = n - Base * q
    BY <1>1, <1>2, <1>3
  <1> HIDE DEF q, r
  <1>5. q * Base = Base * q /\ Base * q \in Nat
    BY <1>1, <1>4
  <1>6. Length(q, r) = n
    BY <1>4, <1>5 DEF Length
  <1> QED BY <1>4, <1>6 DEF q, r

\* A frame: two bytes and the message.
LEMMA FrameType ==
    ASSUME NEW m \in Messages
    PROVE  /\ m.len \in Nat /\ m.id \in Nat
           /\ Body(m) \in Seq(Nat) /\ Len(Body(m)) = m.len
           /\ Frame(m) \in Seq(Nat) /\ Len(Frame(m)) = m.len + 2
           /\ Length(Frame(m)[1], Frame(m)[2]) = m.len
           /\ \A i \in 1..m.len : Frame(m)[i + 2] = Body(m)[i]
  <1>1. m.len \in Nat /\ m.id \in Nat
    <2>1. m.len \in Lengths /\ m.id \in 1..MaxMessages
      BY DEF Messages
    <2>2. m.len \in 0..Base * Base - 1
      BY <2>1, AdnsStreamAssumption
    <2> QED BY <2>1, <2>2
  <1>2. Body(m) \in Seq(Nat) /\ Len(Body(m)) = m.len
    <2>1. Body(m) \in [1..m.len -> Nat]
      BY <1>1 DEF Body
    <2> QED BY <1>1, <2>1, SeqDef
  <1> DEFINE hi == m.len \div Base
             lo == m.len % Base
             two == <<hi, lo>>
  <1>3. hi \in Nat /\ lo \in Nat /\ Length(hi, lo) = m.len
    BY <1>1, TwoBytes
  <1> HIDE DEF hi, lo
  <1>4. two \in Seq(Nat) /\ Len(two) = 2 /\ two[1] = hi /\ two[2] = lo
    BY <1>3
  <1>5. Frame(m) = two \o Body(m)
    BY DEF Frame, hi, lo
  <1> HIDE DEF two
  <1>6. /\ two \o Body(m) \in Seq(Nat) /\ Len(two \o Body(m)) = 2 + m.len
        /\ \A i \in 1..2 + m.len : (two \o Body(m))[i] = IF i <= 2 THEN two[i] ELSE Body(m)[i - 2]
    <2>1. /\ two \o Body(m) \in Seq(Nat) /\ Len(two \o Body(m)) = Len(two) + Len(Body(m))
          /\ \A i \in 1..Len(two) + Len(Body(m)) :
               (two \o Body(m))[i] = IF i <= Len(two) THEN two[i] ELSE Body(m)[i - Len(two)]
      BY <1>2, <1>4, ConcatProperties
    <2> QED BY <1>2, <1>4, <2>1
  <1>7. Frame(m)[1] = hi /\ Frame(m)[2] = lo
    <2>1. 1 \in 1..2 + m.len /\ 2 \in 1..2 + m.len /\ 1 <= 2 /\ 2 <= 2
      BY <1>1
    <2>2. (two \o Body(m))[1] = two[1] /\ (two \o Body(m))[2] = two[2]
      BY <1>6, <2>1
    <2> QED BY <1>4, <1>5, <2>2
  <1>8. ASSUME NEW i \in 1..m.len PROVE Frame(m)[i + 2] = Body(m)[i]
    <2>1. i + 2 \in 1..2 + m.len /\ ~(i + 2 <= 2) /\ (i + 2) - 2 = i
      BY <1>1
    <2> QED BY <1>5, <1>6, <2>1
  <1>9. Frame(m) \in Seq(Nat) /\ Len(Frame(m)) = m.len + 2
    <2>1. 2 + m.len = m.len + 2
      BY <1>1
    <2> QED BY <1>5, <1>6, <2>1
  <1>10. Length(Frame(m)[1], Frame(m)[2]) = m.len
    BY <1>3, <1>7
  <1> QED BY <1>1, <1>2, <1>8, <1>9, <1>10, Zenon

FrameOf == [m \in Messages |-> Frame(m)]

\* The frames of messages are their texts, put one after the other.
LEMMA FramesAreTexts ==
    /\ FrameOf \in [Messages -> Seq(Nat)]
    /\ \A ms \in Seq(Messages) : Frames(ms) = Texts(FrameOf, ms) /\ Frames(ms) \in Seq(Nat)
  <1>1. FrameOf \in [Messages -> Seq(Nat)]
    BY FrameType DEF FrameOf
  <1>2. ASSUME NEW ms \in Seq(Messages)
        PROVE  Frames(ms) = Texts(FrameOf, ms) /\ Frames(ms) \in Seq(Nat)
    <2>1. DOMAIN ms = 1..Len(ms) /\ \A i \in 1..Len(ms) : ms[i] \in Messages
      BY LenProperties
    <2>2. [i \in DOMAIN ms |-> Frame(ms[i])] = [i \in DOMAIN ms |-> FrameOf[ms[i]]]
      BY <2>1 DEF FrameOf
    <2>3. Texts(FrameOf, ms) \in Seq(Nat)
      <3>1. HasTexts(Nat, Messages, FrameOf, ms)
        BY <1>1 DEF HasTexts
      <3> QED BY <3>1, TextsType, Zenon
    <2> QED BY <2>2, <2>3 DEF Frames, Texts, TextSeq
  <1> QED BY <1>1, <1>2

\* No messages, no bytes.
LEMMA FramesOfNone == Frames(<<>>) = <<>>
  <1>1. <<>> \in Seq(Messages)
    BY EmptySeq
  <1> QED BY <1>1, FramesAreTexts, TextsOfNone

\* The frame of a message more comes last.
LEMMA FramesAppend ==
    ASSUME NEW ms \in Seq(Messages), NEW m \in Messages
    PROVE  Frames(Append(ms, m)) = Frames(ms) \o Frame(m)
  <1>1. Append(ms, m) \in Seq(Messages)
    BY AppendProperties
  <1>2. Texts(FrameOf, Append(ms, m)) = Texts(FrameOf, ms) \o FrameOf[m]
    <2>1. HasTexts(Nat, Messages, FrameOf, ms)
      BY FramesAreTexts DEF HasTexts
    <2> QED BY <2>1, TextsAppend
  <1>3. FrameOf[m] = Frame(m)
    BY DEF FrameOf
  <1> QED BY <1>1, <1>2, <1>3, FramesAreTexts

\* The frame of the first message comes first.
LEMMA FramesHead ==
    ASSUME NEW ms \in Seq(Messages), ms # <<>>
    PROVE  /\ Head(ms) \in Messages /\ Tail(ms) \in Seq(Messages)
           /\ Frames(ms) = Frame(Head(ms)) \o Frames(Tail(ms))
  <1>1. Head(ms) \in Messages /\ Tail(ms) \in Seq(Messages)
    BY HeadTailProperties
  <1>2. Texts(FrameOf, ms) = FrameOf[Head(ms)] \o Texts(FrameOf, Tail(ms))
    <2>1. HasTexts(Nat, Messages, FrameOf, ms)
      BY FramesAreTexts DEF HasTexts
    <2> QED BY <2>1, TextsHead
  <1>3. FrameOf[Head(ms)] = Frame(Head(ms))
    BY <1>1 DEF FrameOf
  <1> QED BY <1>1, <1>2, <1>3, FramesAreTexts

-----------------------------------------------------------------------------
(* Sending *)

\* What the kernel took of a message and what is kept are the message, unless the
\* kernel took one byte: adns__querysend_tcp then keeps the first byte of the
\* length and not the second.
LEMMA LeftIsRest ==
    ASSUME NEW m \in Messages, NEW w \in 0..m.len + 2, w # 1
    PROVE  /\ SubSeq(Frame(m), 1, w) \in Seq(Nat) /\ Left(m, w) \in Seq(Nat)
           /\ SubSeq(Frame(m), 1, w) \o Left(m, w) = Frame(m)
  <1>1. /\ m.len \in Nat
        /\ Body(m) \in Seq(Nat) /\ Len(Body(m)) = m.len
        /\ Frame(m) \in Seq(Nat) /\ Len(Frame(m)) = m.len + 2
        /\ \A i \in 1..m.len : Frame(m)[i + 2] = Body(m)[i]
    BY FrameType
  <1> DEFINE F == Frame(m)
             B == Body(m)
             n == m.len
  <1> HIDE DEF F, B, n
  <1>2. /\ n \in Nat /\ w \in 0..n + 2
        /\ B \in Seq(Nat) /\ Len(B) = n
        /\ F \in Seq(Nat) /\ Len(F) = n + 2
        /\ \A i \in 1..n : F[i + 2] = B[i]
    BY <1>1 DEF F, B, n
  <1>3. /\ SubSeq(F, 1, w) \in Seq(Nat)
        /\ SubSeq(F, w + 1, Len(F)) \in Seq(Nat)
        /\ Len(SubSeq(F, w + 1, Len(F))) = Len(F) - w
        /\ \A i \in 1..Len(F) - w : SubSeq(F, w + 1, Len(F))[i] = F[w + i]
        /\ SubSeq(F, 1, w) \o SubSeq(F, w + 1, Len(F)) = F
    <2>1. w \in 0..Len(F) /\ F \in Seq(Nat)
      BY <1>2
    <2> QED BY <2>1, CutSeq
  <1>4. CASE w < 2
    <2>1. w = 0
      BY <1>2, <1>4
    <2>2. 2 \in 0..Len(F) /\ F \in Seq(Nat)
      BY <1>2
    <2>3. /\ SubSeq(F, 1, 2) \in Seq(Nat)
          /\ SubSeq(F, 2 + 1, Len(F)) \in Seq(Nat)
          /\ Len(SubSeq(F, 2 + 1, Len(F))) = Len(F) - 2
          /\ \A i \in 1..Len(F) - 2 : SubSeq(F, 2 + 1, Len(F))[i] = F[2 + i]
          /\ SubSeq(F, 1, 2) \o SubSeq(F, 2 + 1, Len(F)) = F
      BY <2>2, CutSeq
    <2> DEFINE R == SubSeq(F, 2 + 1, Len(F))
    <2> HIDE DEF R
    <2>4. R = B
      <3>1. R \in Seq(Nat) /\ Len(R) = Len(B)
        BY <1>2, <2>3 DEF R
      <3>2. ASSUME NEW i \in 1..Len(R) PROVE R[i] = B[i]
        <4>1. i \in 1..n /\ i \in 1..Len(F) - 2 /\ 2 + i = i + 2
          BY <1>2, <3>1
        <4> QED BY <1>2, <2>3, <4>1 DEF R
      <3> QED BY <1>2, <3>1, <3>2, SeqEqual
    <2>5. Left(m, w) = SubSeq(F, 1, 2) \o B
      <3>1. 2 - w = 2
        BY <2>1
      <3> QED BY <1>4, <3>1 DEF Left, F, B
    <2>6. SubSeq(F, 1, 2) \o B = F
      BY <2>3, <2>4 DEF R
    <2>7. SubSeq(F, 1, w) = <<>>
      BY <2>1, SubSeqEmpty
    <2>8. <<>> \o F = F
      BY <1>2, ConcatEmptySeq
    <2> QED BY <1>2, <1>3, <2>5, <2>6, <2>7, <2>8 DEF F
  <1>5. CASE ~(w < 2)
    <2> DEFINE R == SubSeq(F, w + 1, Len(F))
               L == SubSeq(B, w - 1, n)
    <2>1. Left(m, w) = L
      BY <1>5 DEF Left, B, n
    <2>2. R \in Seq(Nat) /\ Len(R) = n + 2 - w /\ \A i \in 1..n + 2 - w : R[i] = F[w + i]
      <3>1. Len(F) - w = n + 2 - w
        BY <1>2
      <3> HIDE DEF R
      <3>2. R \in Seq(Nat) /\ Len(R) = Len(F) - w /\ \A i \in 1..Len(F) - w : R[i] = F[w + i]
        BY <1>3 DEF R
      <3> QED BY <3>1, <3>2
    <2>3. L \in Seq(Nat) /\ Len(L) = n + 2 - w /\ \A i \in 1..n + 2 - w : L[i] = B[w - 2 + i]
      <3> DEFINE k == w - 2
      <3>1. k \in 0..Len(B) /\ k + 1 = w - 1 /\ Len(B) - k = n + 2 - w
        BY <1>2, <1>5
      <3> HIDE DEF k
      <3>2. /\ SubSeq(B, k + 1, Len(B)) \in Seq(Nat)
            /\ Len(SubSeq(B, k + 1, Len(B))) = Len(B) - k
            /\ \A i \in 1..Len(B) - k : SubSeq(B, k + 1, Len(B))[i] = B[k + i]
        BY <1>2, <3>1, CutSeq
      <3> QED BY <1>2, <3>1, <3>2 DEF k
    <2> HIDE DEF R, L
    <2>4. ASSUME NEW i \in 1..Len(R) PROVE R[i] = L[i]
      <3>1. /\ w - 2 + i \in 1..n /\ (w - 2 + i) + 2 = w + i
            /\ i \in 1..n + 2 - w
        BY <1>2, <1>5, <2>2
      <3> QED BY <1>2, <2>2, <2>3, <3>1
    <2>5. R = L
      BY <2>2, <2>3, <2>4, SeqEqual
    <2>6. SubSeq(F, 1, w) \o R = F /\ SubSeq(F, 1, w) \in Seq(Nat)
      BY <1>3 DEF R
    <2> QED BY <2>1, <2>3, <2>5, <2>6 DEF F
  <1> QED BY <1>4, <1>5

\* One byte taken: what the server gets begins with the first byte of the length
\* twice, which is the frame only if the two bytes are the same one.
LEMMA OneByteTorn ==
    ASSUME NEW m \in Messages, m.len \div Base # m.len % Base
    PROVE  SubSeq(Frame(m), 1, 1) \o Left(m, 1) # Frame(m)
  <1>1. /\ m.len \in Nat
        /\ Body(m) \in Seq(Nat) /\ Len(Body(m)) = m.len
        /\ Frame(m) \in Seq(Nat) /\ Len(Frame(m)) = m.len + 2
    BY FrameType
  <1>2. m.len \div Base \in Nat /\ m.len % Base \in Nat
    BY <1>1, TwoBytes
  <1> DEFINE hi == m.len \div Base
             lo == m.len % Base
             F == Frame(m)
             B == Body(m)
  <1>3. F = <<hi, lo>> \o B
    BY DEF Frame
  <1> HIDE DEF hi, lo, F, B
  <1>4. F[1] = hi /\ F[2] = lo /\ hi # lo
    <2> DEFINE two == <<hi, lo>>
    <2>1. two \in Seq(Nat) /\ Len(two) = 2 /\ two[1] = hi /\ two[2] = lo
      BY <1>2 DEF hi, lo
    <2> HIDE DEF two
    <2>2. \A i \in 1..Len(two) + Len(B) :
            (two \o B)[i] = IF i <= Len(two) THEN two[i] ELSE B[i - Len(two)]
      BY <1>1, <2>1, ConcatProperties DEF B
    <2>3. 1 \in 1..Len(two) + Len(B) /\ 2 \in 1..Len(two) + Len(B)
      BY <1>1, <2>1 DEF B
    <2>4. (two \o B)[1] = hi /\ (two \o B)[2] = lo
      <3>1. 1 <= Len(two) /\ 2 <= Len(two)
        BY <2>1
      <3> QED BY <2>1, <2>2, <2>3, <3>1
    <2>5. hi # lo
      BY DEF hi, lo
    <2> QED BY <1>3, <2>4, <2>5 DEF two
  <1> DEFINE a == SubSeq(F, 1, 1)
             b == a \o B
  <1>5. a \in Seq(Nat) /\ Len(a) = 1 /\ a[1] = hi
    <2>1. 1 \in 0..Len(F) /\ F \in Seq(Nat)
      BY <1>1 DEF F
    <2> QED BY <1>4, <2>1, CutSeq
  <1>6. Left(m, 1) = b
    BY DEF Left, F, B
  <1> HIDE DEF a, b
  <1>7. b \in Seq(Nat) /\ b[1] = hi /\ Len(b) = 1 + m.len
    <2>1. /\ a \o B \in Seq(Nat) /\ Len(a \o B) = Len(a) + Len(B)
          /\ \A i \in 1..Len(a) + Len(B) : (a \o B)[i] = IF i <= Len(a) THEN a[i] ELSE B[i - Len(a)]
      BY <1>1, <1>5, ConcatProperties DEF B
    <2>2. 1 \in 1..Len(a) + Len(B) /\ Len(B) = m.len
      BY <1>1, <1>5 DEF B
    <2> QED BY <1>5, <2>1, <2>2 DEF b
  <1>8. (a \o b)[2] = hi
    <2>1. \A i \in 1..Len(a) + Len(b) : (a \o b)[i] = IF i <= Len(a) THEN a[i] ELSE b[i - Len(a)]
      BY <1>5, <1>7, ConcatProperties
    <2>2. 2 \in 1..Len(a) + Len(b) /\ ~(2 <= Len(a)) /\ 2 - Len(a) = 1
      BY <1>1, <1>5, <1>7
    <2> QED BY <1>7, <2>1, <2>2
  <1> QED BY <1>4, <1>6, <1>8 DEF a, F

\* The bytes that the kernel took and those that wait are the frames of the
\* queries, if it did not tear one.
SendInv ==
    /\ queries \in Seq(Messages) /\ torn \in BOOLEAN
    /\ wire \in Seq(Nat) /\ tcpsend \in Seq(Nat)
    /\ QueriesWhole

\* An empty connection has sent nothing.
LEMMA SendNothing ==
    queries = <<>> /\ wire = <<>> /\ tcpsend = <<>> /\ torn = FALSE => SendInv
  <1>1. <<>> \in Seq(Nat) /\ <<>> \in Seq(Messages)
    BY EmptySeq
  <1>2. <<>> \o <<>> = <<>>
    BY <1>1, ConcatEmptySeq
  <1> QED BY <1>1, <1>2, FramesOfNone DEF SendInv, QueriesWhole

\* Torn or not, bytes are kept.
LEMMA LeftType ==
    ASSUME NEW m \in Messages, NEW w \in 0..m.len + 2
    PROVE  SubSeq(Frame(m), 1, w) \in Seq(Nat) /\ Left(m, w) \in Seq(Nat)
  <1>1. /\ m.len \in Nat /\ Body(m) \in Seq(Nat)
        /\ Frame(m) \in Seq(Nat) /\ Len(Frame(m)) = m.len + 2
    BY FrameType
  <1>2. CASE w # 1
    BY <1>2, LeftIsRest
  <1>3. CASE w = 1
    <2>1. 1 \in 0..Len(Frame(m))
      BY <1>1
    <2>2. SubSeq(Frame(m), 1, 1) \in Seq(Nat)
      BY <1>1, <2>1, CutSeq
    <2>3. Left(m, w) = SubSeq(Frame(m), 1, 1) \o Body(m)
      BY <1>3 DEF Left
    <2>4. SubSeq(Frame(m), 1, 1) \o Body(m) \in Seq(Nat)
      BY <1>1, <2>2, ConcatProperties
    <2> QED BY <1>3, <2>2, <2>3, <2>4
  <1> QED BY <1>2, <1>3

LEMMA SendQuery ==
    ASSUME SendInv, NEW m \in Messages, adns__querysend_tcp(m)
    PROVE  SendInv'
  <1>1. /\ queries \in Seq(Messages) /\ wire \in Seq(Nat) /\ tcpsend \in Seq(Nat)
        /\ torn \in BOOLEAN
        /\ torn \/ wire \o tcpsend = Frames(queries)
    BY DEF SendInv, QueriesWhole
  <1>2. Frame(m) \in Seq(Nat) /\ m.len \in Nat
    BY FrameType
  <1>3. /\ queries' = Append(queries, m) /\ queries' \in Seq(Messages)
        /\ Frames(queries') = Frames(queries) \o Frame(m)
    BY <1>1, FramesAppend, AppendProperties DEF adns__querysend_tcp
  <1> DEFINE F == Frame(m)
  <1> HIDE DEF F
  <1>4. CASE tcpsend # <<>>
    <2>1. tcpsend' = tcpsend \o F /\ wire' = wire /\ torn' = torn
      BY <1>4 DEF adns__querysend_tcp, F
    <2>2. F \in Seq(Nat) /\ tcpsend \o F \in Seq(Nat)
      BY <1>1, <1>2, ConcatProperties DEF F
    <2>3. (wire \o tcpsend) \o F = wire \o (tcpsend \o F)
      <3>1. wire \in Seq(Nat) /\ tcpsend \in Seq(Nat) /\ F \in Seq(Nat)
        BY <1>1, <2>2
      <3> QED BY <3>1, Regroup, Zenon
    <2>4. QueriesWhole'
      BY <1>1, <1>3, <2>1, <2>3 DEF QueriesWhole, F
    <2> QED BY <1>1, <1>3, <2>1, <2>2, <2>4 DEF SendInv
  <1>5. CASE tcpsend = <<>>
    <2>1. PICK w \in {m.len + 2} \cup {n \in ShortWrites : n <= m.len + 2} :
            /\ wire' = wire \o SubSeq(Frame(m), 1, w)
            /\ tcpsend' = Left(m, w)
            /\ torn' = (torn \/ w = 1)
      BY <1>5 DEF adns__querysend_tcp
    <2>2. w \in 0..m.len + 2
      BY <1>2, AdnsStreamAssumption
    <2> DEFINE a == SubSeq(Frame(m), 1, w)
               b == Left(m, w)
    <2>3. a \in Seq(Nat) /\ b \in Seq(Nat) /\ (w # 1 => a \o b = F)
      BY <2>2, LeftType, LeftIsRest DEF F
    <2> HIDE DEF a, b
    <2>4. wire' = wire \o a /\ tcpsend' = b
      BY <2>1 DEF a, b
    <2>5. wire \o a \in Seq(Nat)
      BY <1>1, <2>3, ConcatProperties
    <2>6. (wire \o a) \o b = wire \o (a \o b)
      <3>1. wire \in Seq(Nat) /\ a \in Seq(Nat) /\ b \in Seq(Nat)
        BY <1>1, <2>3
      <3> QED BY <3>1, Regroup, Zenon
    <2>7. torn \/ wire = Frames(queries)
      BY <1>1, <1>5, ConcatEmptySeq
    <2>8. torn' \in BOOLEAN /\ (~torn' => ~torn /\ w # 1)
      BY <1>1, <2>1
    <2>9. QueriesWhole'
      BY <1>3, <2>3, <2>4, <2>6, <2>7, <2>8 DEF QueriesWhole, F
    <2> QED BY <1>3, <2>3, <2>4, <2>5, <2>8, <2>9 DEF SendInv
  <1> QED BY <1>4, <1>5

LEMMA SendFlush ==
    ASSUME SendInv, Flush
    PROVE  SendInv'
  <1>1. /\ queries \in Seq(Messages) /\ wire \in Seq(Nat) /\ tcpsend \in Seq(Nat)
        /\ torn \in BOOLEAN /\ Len(tcpsend) \in Nat
        /\ torn \/ wire \o tcpsend = Frames(queries)
    BY LenProperties DEF SendInv, QueriesWhole
  <1>2. PICK w \in 1..Len(tcpsend) :
          /\ wire' = wire \o SubSeq(tcpsend, 1, w)
          /\ tcpsend' = SubSeq(tcpsend, w + 1, Len(tcpsend))
    BY DEF Flush
  <1> DEFINE a == SubSeq(tcpsend, 1, w)
             b == SubSeq(tcpsend, w + 1, Len(tcpsend))
  <1>3. w \in 0..Len(tcpsend)
    BY <1>1
  <1>4. a \in Seq(Nat) /\ b \in Seq(Nat) /\ a \o b = tcpsend
    BY <1>1, <1>3, CutSeq
  <1> HIDE DEF a, b
  <1>5. wire' = wire \o a /\ tcpsend' = b
    BY <1>2 DEF a, b
  <1>6. wire \o a \in Seq(Nat)
    BY <1>1, <1>4, ConcatProperties
  <1>7. (wire \o a) \o b = wire \o (a \o b)
    <2>1. wire \in Seq(Nat) /\ a \in Seq(Nat) /\ b \in Seq(Nat)
      BY <1>1, <1>4
    <2> QED BY <2>1, Regroup, Zenon
  <1>8. queries' = queries /\ torn' = torn
    BY DEF Flush
  <1>9. QueriesWhole'
    BY <1>1, <1>4, <1>5, <1>7, <1>8 DEF QueriesWhole
  <1> QED BY <1>1, <1>4, <1>5, <1>6, <1>8, <1>9 DEF SendInv

\* What the server gets of the queries is the queries, whole and in order, and
\* what it does not get yet waits in tcpsend: for any queries, any pieces that
\* the kernel takes and any number of connections, as long as no writev took one
\* byte over this connection (what it then gets is OneByteTorn).
THEOREM QueriesAreWhole == Spec => []QueriesWhole
  <1>1. Init => SendInv
    BY SendNothing DEF Init
  <1>2. SendInv /\ [Next]_vars => SendInv'
    <2> SUFFICES ASSUME SendInv, [Next]_vars PROVE SendInv'
      OBVIOUS
    <2>1. CASE Connect \/ Broken
      <3>1. queries' = <<>> /\ wire' = <<>> /\ tcpsend' = <<>> /\ torn' = FALSE
        BY <2>1 DEF Connect, Broken, NewConnection
      <3>2. (queries = <<>> /\ wire = <<>> /\ tcpsend = <<>> /\ torn = FALSE => SendInv)'
        BY SendNothing, PTL
      <3> QED BY <3>1, <3>2
    <2>2. CASE Flush
      BY <2>2, SendFlush
    <2>3. CASE \E m \in Messages : adns__querysend_tcp(m)
      BY <2>3, SendQuery
    <2>4. CASE UNCHANGED <<queries, wire, tcpsend, torn>>
      BY <2>4 DEF SendInv, QueriesWhole
    <2>5. \/ Connect \/ Broken \/ Flush \/ \E m \in Messages : adns__querysend_tcp(m)
          \/ UNCHANGED <<queries, wire, tcpsend, torn>>
      BY DEF Next, StartRead, Deliver, Read, ReadEnd, ServerReplies, vars
    <2> QED BY <2>1, <2>2, <2>3, <2>4, <2>5
  <1>3. SendInv => QueriesWhole
    BY DEF SendInv
  <1> QED BY <1>1, <1>2, <1>3, PTL DEF Spec


-----------------------------------------------------------------------------
(* Receiving *)

\* What is in the buffer and was not done with
Pending(r) == SubSeq(r.buf, r.skip + 1, Len(r.buf))

\* The replies whose datagrams were not given yet
Rest == SubSeq(replies, Len(given) + 1, Len(replies))

VBufs == [buf: Seq(Nat), skip: Nat, avail: Nat]

\* The bytes in the buffer and on their way begin with a message, and are the
\* replies not given; a whole datagram waits only inside adns_processreadable.
ReceiveInv ==
    /\ replies \in Seq(Messages) /\ given \in Seq(Seq(Nat)) /\ net \in Seq(Nat)
    /\ tcprecv \in VBufs /\ tcprecv.skip <= Len(tcprecv.buf)
    /\ Len(given) <= Len(replies)
    /\ \A i \in 1..Len(given) : given[i] = Body(replies[i])
    /\ Pending(tcprecv) \o net = Frames(Rest)
    /\ ~reading => ~HasDgram(tcprecv)

\* The bytes of the buffer from skip on.
LEMMA PendingType ==
    ASSUME NEW r \in VBufs, r.skip <= Len(r.buf)
    PROVE  /\ r.buf \in Seq(Nat) /\ r.skip \in Nat /\ Len(r.buf) \in Nat
           /\ Pending(r) \in Seq(Nat)
           /\ Len(Pending(r)) = Len(r.buf) - r.skip
           /\ \A i \in 1..Len(r.buf) - r.skip : Pending(r)[i] = r.buf[r.skip + i]
  <1>1. r.buf \in Seq(Nat) /\ r.skip \in Nat /\ Len(r.buf) \in Nat
    BY LenProperties DEF VBufs
  <1> DEFINE b == r.buf
             k == r.skip
  <1>2. b \in Seq(Nat) /\ k \in 0..Len(b)
    BY <1>1
  <1> HIDE DEF b, k
  <1>3. /\ SubSeq(b, k + 1, Len(b)) \in Seq(Nat)
        /\ Len(SubSeq(b, k + 1, Len(b))) = Len(b) - k
        /\ \A i \in 1..Len(b) - k : SubSeq(b, k + 1, Len(b))[i] = b[k + i]
    BY <1>2, CutSeq
  <1> QED BY <1>1, <1>3 DEF Pending, b, k

\* The length in the buffer is the length of the first message.
LEMMA FirstLength ==
    ASSUME NEW r \in VBufs, r.skip <= Len(r.buf), NEW n \in Seq(Nat),
           NEW ms \in Seq(Messages), ms # <<>>, Pending(r) \o n = Frames(ms),
           HasLength(r)
    PROVE  DgramLen(r) = Head(ms).len
  <1> DEFINE p == Pending(r)
             f == Frame(Head(ms))
             g == Frames(Tail(ms))
             m == Head(ms)
  <1>1. /\ r.skip \in Nat /\ Len(r.buf) \in Nat
        /\ p \in Seq(Nat) /\ Len(p) = Len(r.buf) - r.skip
        /\ \A i \in 1..Len(r.buf) - r.skip : p[i] = r.buf[r.skip + i]
    BY PendingType
  <1>2. m \in Messages /\ Tail(ms) \in Seq(Messages) /\ Frames(ms) = f \o g
    BY FramesHead
  <1>3. /\ m.len \in Nat /\ f \in Seq(Nat) /\ Len(f) = m.len + 2
        /\ Length(f[1], f[2]) = m.len
    BY <1>2, FrameType
  <1>4. g \in Seq(Nat) /\ Len(g) \in Nat /\ Len(n) \in Nat
    BY <1>2, FramesAreTexts, LenProperties
  <1>5. p \o n = f \o g
    BY <1>2
  <1> HIDE DEF p, f, g, m
  <1>6. Len(r.buf) - r.skip >= 2
    BY <1>1 DEF HasLength, Used
  <1>7. p[1] = f[1] /\ p[2] = f[2]
    <2>1. \A i \in 1..Len(p) + Len(n) : (p \o n)[i] = IF i <= Len(p) THEN p[i] ELSE n[i - Len(p)]
      BY <1>1, ConcatProperties
    <2>2. \A i \in 1..Len(f) + Len(g) : (f \o g)[i] = IF i <= Len(f) THEN f[i] ELSE g[i - Len(f)]
      BY <1>3, <1>4, ConcatProperties
    <2>3. ASSUME NEW i \in 1..2 PROVE p[i] = f[i]
      <3>1. i <= Len(p) /\ i <= Len(f) /\ i \in 1..Len(p) + Len(n) /\ i \in 1..Len(f) + Len(g)
        <4>1. Len(p) \in Int /\ Len(p) >= 2
          BY <1>1, <1>6
        <4>2. Len(f) \in Int /\ Len(f) >= 2 /\ Len(g) \in Nat /\ Len(n) \in Nat
          BY <1>3, <1>4
        <4> QED BY ONLY <4>1, <4>2, i \in 1..2
      <3>2. (p \o n)[i] = p[i] /\ (f \o g)[i] = f[i]
        BY <2>1, <2>2, <3>1
      <3> QED BY <1>5, <3>2
    <2> QED BY <2>3
  <1>8. p[1] = r.buf[r.skip + 1] /\ p[2] = r.buf[r.skip + 2]
    <2>1. 1 \in 1..Len(r.buf) - r.skip /\ 2 \in 1..Len(r.buf) - r.skip
      BY <1>1, <1>6
    <2> QED BY <1>1, <2>1
  <1> QED BY <1>3, <1>7, <1>8 DEF DgramLen, m

\* The replies not given, one by one.
LEMMA RestType ==
    ASSUME ReceiveInv
    PROVE  /\ Len(replies) \in Nat /\ Len(given) \in Nat
           /\ Rest \in Seq(Messages) /\ Len(Rest) = Len(replies) - Len(given)
           /\ \A i \in 1..Len(replies) - Len(given) : Rest[i] = replies[Len(given) + i]
  <1>1. Len(replies) \in Nat /\ Len(given) \in Nat /\ replies \in Seq(Messages)
    BY LenProperties DEF ReceiveInv
  <1> DEFINE k == Len(given)
  <1>2. k \in 0..Len(replies)
    BY <1>1 DEF ReceiveInv
  <1> HIDE DEF k
  <1>3. /\ SubSeq(replies, k + 1, Len(replies)) \in Seq(Messages)
        /\ Len(SubSeq(replies, k + 1, Len(replies))) = Len(replies) - k
        /\ \A i \in 1..Len(replies) - k :
             SubSeq(replies, k + 1, Len(replies))[i] = replies[k + i]
    BY <1>1, <1>2, CutSeq
  <1> QED BY <1>1, <1>3 DEF Rest, k

\* An empty connection has received nothing.
LEMMA ReceiveNothing ==
    replies = <<>> /\ given = <<>> /\ net = <<>> /\ tcprecv \in VBufs
      /\ tcprecv.buf = <<>> /\ tcprecv.skip = 0
      => ReceiveInv
  <1> SUFFICES ASSUME replies = <<>>, given = <<>>, net = <<>>, tcprecv \in VBufs,
                      tcprecv.buf = <<>>, tcprecv.skip = 0
               PROVE  ReceiveInv
    OBVIOUS
  <1>1. <<>> \in Seq(Nat) /\ <<>> \in Seq(Messages) /\ <<>> \in Seq(Seq(Nat)) /\ Len(<<>>) = 0
    BY EmptySeq
  <1>2. Rest = <<>> /\ Pending(tcprecv) = <<>>
    <2>1. SubSeq(<<>>, 0 + 1, 0) = <<>>
      BY SubSeqEmpty
    <2> QED BY <1>1, <2>1 DEF Rest, Pending
  <1>3. <<>> \o <<>> = <<>>
    BY <1>1, ConcatEmptySeq
  <1>4. ~HasDgram(tcprecv)
    BY <1>1 DEF HasDgram, HasLength, Used
  <1> QED BY <1>1, <1>2, <1>3, <1>4, FramesOfNone DEF ReceiveInv

\* A reply more: its bytes come last.
LEMMA ReceiveReply ==
    ASSUME ReceiveInv, NEW m \in Messages, ServerReplies(m)
    PROVE  ReceiveInv'
  <1>1. replies' = Append(replies, m) /\ net' = net \o Frame(m)
    BY DEF ServerReplies
  <1>2. UNCHANGED <<tcprecv, given, reading>>
    BY DEF ServerReplies
  <1>3. Frame(m) \in Seq(Nat)
    BY FrameType
  <1>4. /\ Append(replies, m) \in Seq(Messages)
        /\ Len(Append(replies, m)) = Len(replies) + 1
        /\ \A i \in 1..Len(replies) : Append(replies, m)[i] = replies[i]
        /\ Append(replies, m)[Len(replies) + 1] = m
    BY AppendProperties DEF ReceiveInv
  <1>5. /\ Len(replies) \in Nat /\ Len(given) \in Nat
        /\ Rest \in Seq(Messages) /\ Len(Rest) = Len(replies) - Len(given)
        /\ \A i \in 1..Len(replies) - Len(given) : Rest[i] = replies[Len(given) + i]
    BY RestType
  <1> DEFINE R == replies'
             k == Len(given)
             s == SubSeq(R, k + 1, Len(R))
             a == Append(Rest, m)
  <1>6. R \in Seq(Messages) /\ Len(R) = Len(replies) + 1 /\ k \in 0..Len(R)
        /\ (\A i \in 1..Len(replies) : R[i] = replies[i]) /\ R[Len(replies) + 1] = m
        /\ k <= Len(replies)
    BY <1>1, <1>4, <1>5 DEF ReceiveInv
  <1>7. Rest' = s
    BY <1>2 DEF Rest
  <1> HIDE DEF R, k
  <1>8. s \in Seq(Messages) /\ Len(s) = Len(R) - k /\ \A i \in 1..Len(R) - k : s[i] = R[k + i]
    BY <1>6, CutSeq
  <1>9. /\ a \in Seq(Messages) /\ Len(a) = Len(Rest) + 1
        /\ \A i \in 1..Len(Rest) : a[i] = Rest[i]
        /\ a[Len(Rest) + 1] = m
    BY <1>5, AppendProperties
  <1> HIDE DEF s, a
  <1>10. s = a
    <2>0. Len(Rest) = Len(replies) - k /\ \A i \in 1..Len(replies) - k : Rest[i] = replies[k + i]
      BY <1>5 DEF k
    <2>3. k \in Nat /\ Len(replies) \in Nat /\ k <= Len(replies)
      BY <1>5, <1>6 DEF k
    <2>1. Len(s) = Len(a)
      <3>1. Len(s) = Len(replies) + 1 - k /\ Len(a) = Len(replies) - k + 1
        BY <1>6, <1>8, <1>9, <2>0
      <3> QED BY <2>3, <3>1
    <2>2. ASSUME NEW i \in 1..Len(s) PROVE s[i] = a[i]
      <3>1. i \in 1..Len(R) - k /\ s[i] = R[k + i]
        BY <1>8
      <3>2. CASE i = Len(Rest) + 1
        <4>1. k + i = Len(replies) + 1
          BY <1>5, <1>6, <2>0, <3>2
        <4> QED BY <1>6, <1>9, <3>1, <3>2, <4>1
      <3>3. CASE i # Len(Rest) + 1
        <4>1. i \in 1..Len(Rest) /\ k + i \in 1..Len(replies) /\ i \in 1..Len(replies) - k
          <5>1. i \in 1..(Len(replies) + 1) - k /\ i # (Len(replies) - k) + 1
            BY <1>6, <2>0, <3>1, <3>3
          <5>2. i \in 1..Len(replies) - k /\ k + i \in 1..Len(replies)
            BY ONLY <2>3, <5>1
          <5> QED BY <2>0, <5>2
        <4> QED BY <1>6, <1>9, <2>0, <3>1, <4>1
      <3> QED BY <3>2, <3>3
    <2> QED BY <1>8, <1>9, <2>1, <2>2, SeqEqual
  <1>11. Frames(a) = Frames(Rest) \o Frame(m)
    BY <1>5, FramesAppend DEF a
  <1>12. /\ Pending(tcprecv) \in Seq(Nat) /\ net \in Seq(Nat)
         /\ Pending(tcprecv) \o net = Frames(Rest)
    BY PendingType DEF ReceiveInv
  <1>13. (Pending(tcprecv) \o net) \o Frame(m) = Pending(tcprecv) \o (net \o Frame(m))
    BY <1>3, <1>12, Regroup, Zenon
  <1>14. Pending(tcprecv)' = Pending(tcprecv)
    BY <1>2 DEF Pending
  <1>15. (Pending(tcprecv) \o net = Frames(Rest))'
    BY <1>1, <1>7, <1>10, <1>11, <1>12, <1>13, <1>14
  <1>16. net' \in Seq(Nat)
    BY <1>1, <1>3, <1>12, ConcatProperties
  <1>17. replies' \in Seq(Messages) /\ Len(given) <= Len(replies')
         /\ \A i \in 1..Len(given) : given[i] = Body(replies'[i])
    BY <1>5, <1>6 DEF ReceiveInv, R, k
  <1>18. (~reading => ~HasDgram(tcprecv))'
    BY <1>2 DEF ReceiveInv, HasDgram, HasLength, DgramLen, Used
  <1> QED BY <1>2, <1>15, <1>16, <1>17, <1>18 DEF ReceiveInv


\* With no reply left there is nothing in the buffer and nothing on its way.
LEMMA NothingLeft ==
    ASSUME ReceiveInv, Rest = <<>>
    PROVE  ~HasLength(tcprecv)
  <1>1. /\ tcprecv.skip \in Nat /\ Len(tcprecv.buf) \in Nat
        /\ Pending(tcprecv) \in Seq(Nat)
        /\ Len(Pending(tcprecv)) = Len(tcprecv.buf) - tcprecv.skip
    BY PendingType DEF ReceiveInv
  <1>2. Pending(tcprecv) \o net = <<>> /\ net \in Seq(Nat)
    BY FramesOfNone DEF ReceiveInv
  <1>3. Pending(tcprecv) = <<>>
    BY <1>1, <1>2, ConcatSimplifications
  <1> QED BY <1>1, <1>3 DEF HasLength, Used

\* A whole datagram in the buffer is the first reply not given.
LEMMA ReceiveDeliver ==
    ASSUME ReceiveInv, Deliver
    PROVE  ReceiveInv'
  <1> DEFINE r == tcprecv
             p == Pending(r)
             m == Head(Rest)
             n == m.len
             f == Frame(m)
             g == Frames(Tail(Rest))
             end == r.skip + 2 + n
             d == SubSeq(r.buf, r.skip + 3, end)
  <1>1. /\ HasDgram(r) /\ HasLength(r) /\ reading
        /\ UNCHANGED <<replies, net, reading>>
    BY DEF Deliver, HasDgram
  <1>2. /\ r.buf \in Seq(Nat) /\ r.skip \in Nat /\ Len(r.buf) \in Nat
        /\ p \in Seq(Nat) /\ Len(p) = Len(r.buf) - r.skip
        /\ \A i \in 1..Len(r.buf) - r.skip : p[i] = r.buf[r.skip + i]
    BY PendingType DEF ReceiveInv
  <1>3. /\ Len(replies) \in Nat /\ Len(given) \in Nat /\ Len(given) <= Len(replies)
        /\ Rest \in Seq(Messages) /\ Len(Rest) = Len(replies) - Len(given)
        /\ \A i \in 1..Len(replies) - Len(given) : Rest[i] = replies[Len(given) + i]
    BY RestType DEF ReceiveInv
  <1>4. Rest # <<>>
    BY <1>1, NothingLeft
  <1>5. DgramLen(r) = n
    <2>1. /\ r \in VBufs /\ r.skip <= Len(r.buf) /\ net \in Seq(Nat)
          /\ Pending(r) \o net = Frames(Rest)
      BY DEF ReceiveInv
    <2> QED BY <1>1, <1>3, <1>4, <2>1, FirstLength
  <1>6. m \in Messages /\ Tail(Rest) \in Seq(Messages) /\ Frames(Rest) = f \o g
    BY <1>3, <1>4, FramesHead
  <1>7. /\ n \in Nat /\ f \in Seq(Nat) /\ Len(f) = n + 2
        /\ Body(m) \in Seq(Nat) /\ Len(Body(m)) = n
        /\ \A i \in 1..n : f[i + 2] = Body(m)[i]
    BY <1>6, FrameType
  <1>8. g \in Seq(Nat)
    BY <1>6, FramesAreTexts
  <1>9. p \o net = f \o g /\ net \in Seq(Nat)
    BY <1>6 DEF ReceiveInv
  <1>10. given' = Append(given, d) /\ tcprecv' = [r EXCEPT !.skip = end]
    BY <1>5 DEF Deliver
  <1>11. Len(r.buf) >= end
    BY <1>1, <1>5 DEF HasDgram, Used
  <1> HIDE DEF m, n, f, g, p
  <1>12. Len(f) <= Len(p)
    BY <1>2, <1>7, <1>11
  <1>13. SubSeq(p, 1, Len(f)) = f /\ SubSeq(p, Len(f) + 1, Len(p)) \o net = g
    <2>1. Cuts(p, net, f, g)
      BY <1>2, <1>7, <1>8, <1>9, <1>12 DEF Cuts
    <2> QED BY <2>1, CutTwice, Zenon
  <1>14. r.skip \in 0..Len(r.buf) /\ n + 2 <= Len(r.buf) - r.skip
    <2>1. \A k, l \in Nat : l >= k + 2 + n => k \in 0..l /\ n + 2 <= l - k
      BY <1>7
    <2> QED BY <1>2, <1>11, <2>1
  <1>15. d = SubSeq(p, 3, n + 2) /\ SubSeq(r.buf, end + 1, Len(r.buf)) = SubSeq(p, n + 3, Len(p))
    <2> DEFINE b == r.buf
               k == r.skip
    <2>1. b \in Seq(Nat) /\ k \in 0..Len(b) /\ p = SubSeq(b, k + 1, Len(b))
      BY <1>2, <1>14 DEF p, Pending
    <2>2. /\ 3 \in Nat \ {0} /\ n + 2 \in Nat /\ 3 <= n + 2 + 1 /\ n + 2 <= Len(b) - k
          /\ n + 3 \in Nat \ {0} /\ Len(p) \in Nat /\ n + 3 <= Len(p) + 1 /\ Len(p) <= Len(b) - k
      BY <1>2, <1>7, <1>14
    <2>3. k + 3 = k + 3 /\ k + (n + 2) = k + 2 + n /\ k + (n + 3) = k + 2 + n + 1
          /\ k + Len(p) = Len(b)
      <3>1. Len(p) = Len(b) - k /\ k \in Nat /\ Len(b) \in Nat
        BY <1>2
      <3> HIDE DEF b, k
      <3> QED BY <1>7, <3>1
    <2> HIDE DEF b, k
    <2>4. SubSeq(SubSeq(b, k + 1, Len(b)), 3, n + 2) = SubSeq(b, k + 3, k + (n + 2))
      BY <2>1, <2>2, SubSeqOfRest
    <2>5. SubSeq(SubSeq(b, k + 1, Len(b)), n + 3, Len(p)) = SubSeq(b, k + (n + 3), k + Len(p))
      BY <2>1, <2>2, SubSeqOfRest
    <2> QED BY <2>1, <2>3, <2>4, <2>5 DEF b, k
  <1>16. d \in Seq(Nat) /\ d = Body(m)
    <2> DEFINE j == n + 2
               e == SubSeq(p, 3, j)
    <2>1. j \in Nat /\ j >= 2 /\ j - 2 = n /\ Len(f) = j
      BY <1>7
    <2>6. d = e
      BY <1>15
    <2> HIDE DEF j
    <2>2. /\ e \in Seq(Nat) /\ Len(e) = IF 3 <= j THEN j - 3 + 1 ELSE 0
          /\ \A i \in 1..j - 3 + 1 : e[i] = p[3 + i - 1]
      <3>1. \A i \in 3..j : i \in 1..Len(p)
        BY <1>2, <1>12, <2>1
      <3>2. \A i \in 3..j : p[i] \in Nat
        BY <1>2, <3>1, ElementOfSeq
      <3>3. 3 \in Int /\ j \in Int
        BY <2>1
      <3> QED BY <3>2, <3>3, SubSeqProperties
    <2> HIDE DEF e
    <2>3. Len(e) = n
      BY <1>7, <2>1, <2>2
    <2>4. ASSUME NEW i \in 1..n PROVE e[i] = Body(m)[i]
      <3>1. i \in 1..j - 3 + 1 /\ 3 + i - 1 = i + 2 /\ i + 2 \in 1..Len(f)
        BY <1>7, <2>1
      <3>2. e[i] = p[i + 2]
        BY <2>2, <3>1
      <3>3. f[i + 2] = p[i + 2]
        <4>1. Len(f) \in 0..Len(p)
          BY <1>7, <1>12, <1>2
        <4>2. \A h \in 1..Len(f) : SubSeq(p, 1, Len(f))[h] = p[h]
          BY <1>2, <4>1, CutSeq
        <4> QED BY <1>7, <1>13, <3>1, <4>2
      <3> QED BY <1>7, <3>2, <3>3
    <2>5. e = Body(m)
      BY <1>7, <2>2, <2>3, <2>4, SeqEqual
    <2> QED BY <1>7, <2>5, <2>6
  <1> HIDE DEF d
  <1>17. /\ given' \in Seq(Seq(Nat)) /\ Len(given') = Len(given) + 1
         /\ \A i \in 1..Len(given) : given'[i] = given[i]
         /\ given'[Len(given) + 1] = d
    <2>1. given \in Seq(Seq(Nat))
      BY DEF ReceiveInv
    <2> QED BY <1>10, <1>16, <2>1, AppendProperties
  <1>18. /\ Len(replies) - Len(given) \in Nat \ {0}
         /\ Len(given) + 1 <= Len(replies) /\ m = replies[Len(given) + 1]
    <2>1. Len(Rest) \in Nat \ {0} /\ m = Rest[1]
      BY <1>3, <1>4, EmptySeq DEF m
    <2> QED BY <1>3, <2>1
  <1>19. Rest' = Tail(Rest)
    <2> DEFINE k == Len(given) + 1
               R == replies
               s == SubSeq(R, k + 1, Len(R))
               t == Tail(Rest)
    <2>1. R \in Seq(Messages) /\ k \in 0..Len(R)
      BY <1>3, <1>18 DEF ReceiveInv
    <2>2. Rest' = s
      BY <1>1, <1>17 DEF Rest
    <2>3. /\ t \in Seq(Messages) /\ Len(t) = Len(R) - k
          /\ \A i \in 1..Len(t) : t[i] = Rest[i + 1]
      <3>1. /\ t \in Seq(Messages) /\ Len(t) = Len(Rest) - 1
            /\ \A i \in 1..Len(t) : t[i] = Rest[i + 1]
        BY <1>3, <1>4, HeadTailProperties
      <3> QED BY <1>3, <3>1
    <2>4. k \in Nat /\ Len(R) \in Nat
      BY <1>3
    <2>5. \A i \in 1..Len(R) - k : Rest[i + 1] = R[k + i]
      <3> SUFFICES ASSUME NEW i \in 1..Len(R) - k PROVE Rest[i + 1] = R[k + i]
        OBVIOUS
      <3>1. i + 1 \in 1..Len(replies) - Len(given) /\ Len(given) + (i + 1) = k + i
        BY <1>3
      <3> QED BY <1>3, <3>1
    <2> HIDE DEF k, R, t
    <2>6. s \in Seq(Messages) /\ Len(s) = Len(R) - k /\ \A i \in 1..Len(R) - k : s[i] = R[k + i]
      BY <2>1, CutSeq
    <2> HIDE DEF s
    <2>7. s = t
      <3>1. \A i \in 1..Len(s) : s[i] = t[i]
        BY <2>3, <2>5, <2>6
      <3> QED BY <2>3, <2>6, <3>1, SeqEqual
    <2> QED BY <2>2, <2>7 DEF t
  <1>20. /\ tcprecv' \in VBufs /\ tcprecv'.buf = r.buf /\ tcprecv'.skip = end
         /\ tcprecv'.skip <= Len(tcprecv'.buf)
    <2>1. r \in VBufs /\ end \in Nat
      <3>1. \A k \in Nat : k + 2 + n \in Nat
        BY <1>7
      <3> QED BY <1>2, <3>1 DEF ReceiveInv
    <2> QED BY <1>10, <1>11, <2>1 DEF VBufs
  <1>21. Pending(tcprecv') = SubSeq(p, Len(f) + 1, Len(p))
    <2>1. Len(f) + 1 = n + 3
      BY <1>7
    <2> QED BY <1>15, <1>20, <2>1 DEF Pending
  <1>22. (Pending(tcprecv) \o net = Frames(Rest))'
    BY <1>1, <1>13, <1>19, <1>21 DEF g
  <1>23. \A i \in 1..Len(given') : given'[i] = Body(replies'[i])
    <2> SUFFICES ASSUME NEW i \in 1..Len(given') PROVE given'[i] = Body(replies'[i])
      OBVIOUS
    <2>1. CASE i = Len(given) + 1
      BY <1>1, <1>16, <1>17, <1>18, <2>1
    <2>2. CASE i # Len(given) + 1
      <3>1. i \in 1..Len(given)
        BY <1>3, <1>17, <2>2
      <3> QED BY <1>1, <1>17, <3>1 DEF ReceiveInv
    <2> QED BY <2>1, <2>2
  <1> QED BY <1>1, <1>17, <1>18, <1>20, <1>22, <1>23 DEF ReceiveInv

\* What adns_processreadable does to the buffer before it reads drops the bytes
\* done with, and no other.
LEMMA ReadyKeeps ==
    ASSUME ReceiveInv
    PROVE  /\ Ready(tcprecv) \in VBufs
           /\ Ready(tcprecv).buf = Pending(tcprecv) /\ Ready(tcprecv).skip = 0
           /\ HasDgram(Ready(tcprecv)) => HasDgram(tcprecv)
  <1> DEFINE r == tcprecv
             b == Ready(tcprecv)
             p == Pending(r)
             want == IF HasLength(r) THEN 2 + DgramLen(r) ELSE 2
  <1>1. /\ r.buf \in Seq(Nat) /\ r.skip \in Nat /\ Len(r.buf) \in Nat
        /\ p \in Seq(Nat) /\ Len(p) = Len(r.buf) - r.skip
        /\ \A i \in 1..Len(r.buf) - r.skip : p[i] = r.buf[r.skip + i]
    BY PendingType DEF ReceiveInv
  <1>2. HasLength(r) => /\ DgramLen(r) \in Nat
                        /\ p[1] = r.buf[r.skip + 1] /\ p[2] = r.buf[r.skip + 2]
    <2> SUFFICES ASSUME HasLength(r)
                 PROVE  /\ DgramLen(r) \in Nat
                        /\ p[1] = r.buf[r.skip + 1] /\ p[2] = r.buf[r.skip + 2]
      OBVIOUS
    <2>1. 1 \in 1..Len(r.buf) - r.skip /\ 2 \in 1..Len(r.buf) - r.skip
      BY <1>1 DEF HasLength, Used
    <2>2. p[1] = r.buf[r.skip + 1] /\ p[2] = r.buf[r.skip + 2] /\ p[1] \in Nat /\ p[2] \in Nat
      BY <1>1, <2>1, ElementOfSeq
    <2>3. p[1] * Base + p[2] \in Nat
      <3>1. \A x, y \in Nat : x * Base + y \in Nat
        BY AdnsStreamAssumption
      <3> QED BY <2>2, <3>1
    <2> QED BY <2>2, <2>3 DEF DgramLen, Length
  <1>3. want \in Nat
    BY <1>2
  <1>4. r.avail \in Nat
    BY DEF ReceiveInv, VBufs
  <1>5. b = [buf |-> p, skip |-> 0, avail |-> IF r.avail >= want THEN r.avail ELSE want]
    BY DEF Ready, Pending, Used
  <1> HIDE DEF b, p, want
  <1>6. b \in VBufs /\ b.buf = p /\ b.skip = 0
    BY <1>1, <1>3, <1>4, <1>5 DEF VBufs
  <1>7. ASSUME HasDgram(b) PROVE HasDgram(r)
    <2>1. /\ Len(p) >= 0 + 2 /\ Len(p) >= 0 + 2 + DgramLen(b)
          /\ DgramLen(b) = Length(p[0 + 1], p[0 + 2])
      BY <1>6, <1>7 DEF HasDgram, HasLength, Used, DgramLen
    <2>2. HasLength(r)
      BY <1>1, <2>1 DEF HasLength, Used
    <2>3. DgramLen(b) = DgramLen(r) /\ DgramLen(r) \in Nat
      BY <1>2, <2>1, <2>2 DEF DgramLen
    <2>4. Len(r.buf) >= r.skip + 2 + DgramLen(r)
      BY <1>1, <2>1, <2>3
    <2> QED BY <2>2, <2>4 DEF HasDgram, Used
  <1> QED BY <1>6, <1>7 DEF b, p

\* Bytes read go from their way into the buffer.
LEMMA ReceiveRead ==
    ASSUME ReceiveInv, Read
    PROVE  ReceiveInv'
  <1> DEFINE r == Ready(tcprecv)
             p == Pending(tcprecv)
  <1>1. r \in VBufs /\ r.buf = p /\ r.skip = 0 /\ r.avail \in Nat
    BY ReadyKeeps DEF VBufs
  <1>2. p \in Seq(Nat) /\ net \in Seq(Nat) /\ p \o net = Frames(Rest) /\ Len(p) \in Nat
    BY PendingType, LenProperties DEF ReceiveInv
  <1> HIDE DEF p
  <1>3. PICK n \in 1..r.avail - Used(r) :
          /\ n <= Len(net)
          /\ tcprecv' = [r EXCEPT !.buf = @ \o SubSeq(net, 1, n)]
          /\ net' = SubSeq(net, n + 1, Len(net))
    BY DEF Read
  <1> HIDE DEF r
  <1>4. n \in 0..Len(net)
    <2>1. n \in Nat
      BY <1>1, <1>2, <1>3 DEF Used
    <2> QED BY <1>2, <1>3, <2>1, LenProperties
  <1> DEFINE a == SubSeq(net, 1, n)
             b == SubSeq(net, n + 1, Len(net))
  <1>5. a \in Seq(Nat) /\ b \in Seq(Nat) /\ a \o b = net
    BY <1>2, <1>4, CutSeq
  <1> HIDE DEF a, b
  <1>6. p \o a \in Seq(Nat)
    BY <1>2, <1>5, ConcatProperties
  <1>7. /\ tcprecv' \in VBufs /\ tcprecv'.buf = p \o a /\ tcprecv'.skip = 0 /\ net' = b
    BY <1>1, <1>3, <1>6 DEF VBufs, a, b
  <1>8. Pending(tcprecv') = p \o a
    <2> DEFINE c == p \o a
    <2>1. c \in Seq(Nat) /\ SubSeq(c, 1, Len(c)) = c
      BY <1>6, SubSeqFull
    <2> HIDE DEF c
    <2>2. Pending(tcprecv') = SubSeq(c, 0 + 1, Len(c))
      BY <1>7 DEF Pending, c
    <2> QED BY <2>1, <2>2 DEF c
  <1>9. (p \o a) \o b = p \o (a \o b)
    BY <1>2, <1>5, Regroup, Zenon
  <1>10. UNCHANGED <<replies, given, reading>> /\ reading
    BY DEF Read
  <1>11. Rest' = Rest
    BY <1>10 DEF Rest
  <1>12. (Pending(tcprecv) \o net = Frames(Rest))'
    BY <1>2, <1>5, <1>7, <1>8, <1>9, <1>11
  <1>13. tcprecv'.skip <= Len(tcprecv'.buf)
    BY <1>6, <1>7, LenProperties
  <1> QED BY <1>5, <1>7, <1>10, <1>12, <1>13 DEF ReceiveInv

LEMMA ReceiveReadEnd ==
    ASSUME ReceiveInv, ReadEnd
    PROVE  ReceiveInv'
  <1> DEFINE r == Ready(tcprecv)
             p == Pending(tcprecv)
  <1>1. r \in VBufs /\ r.buf = p /\ r.skip = 0 /\ (HasDgram(r) => HasDgram(tcprecv))
    BY ReadyKeeps
  <1>2. p \in Seq(Nat) /\ Len(p) \in Nat
    BY PendingType, LenProperties DEF ReceiveInv
  <1>3. tcprecv' = r /\ ~HasDgram(tcprecv) /\ UNCHANGED <<replies, given, net>>
    BY DEF ReadEnd
  <1> HIDE DEF p, r
  <1>4. Pending(tcprecv') = p
    <2>1. SubSeq(p, 1, Len(p)) = p
      BY <1>2, SubSeqFull
    <2> QED BY <1>1, <1>3, <2>1 DEF Pending
  <1>5. Rest' = Rest
    BY <1>3 DEF Rest
  <1>6. (Pending(tcprecv) \o net = Frames(Rest))'
    BY <1>3, <1>4, <1>5 DEF ReceiveInv, p
  <1> QED BY <1>1, <1>2, <1>3, <1>6 DEF ReceiveInv

\* What ReceiveInv says of the datagrams given.
LEMMA ReceivedWhole ==
    ASSUME ReceiveInv
    PROVE  RepliesWhole
  <1>1. /\ Len(replies) \in Nat /\ Len(given) \in Nat /\ Len(given) <= Len(replies)
        /\ Rest \in Seq(Messages) /\ Len(Rest) = Len(replies) - Len(given)
    BY RestType DEF ReceiveInv
  <1>2. /\ given \in Seq(Seq(Nat)) /\ replies \in Seq(Messages)
        /\ \A i \in 1..Len(given) : given[i] = Body(replies[i])
    BY DEF ReceiveInv
  <1> DEFINE B == Bodies(replies)
  <1>3. B \in Seq(Seq(Nat)) /\ Len(B) = Len(replies) /\ \A i \in 1..Len(replies) : B[i] = Body(replies[i])
    <2>1. DOMAIN replies = 1..Len(replies) /\ \A i \in 1..Len(replies) : replies[i] \in Messages
      BY <1>2, LenProperties
    <2>2. \A i \in 1..Len(replies) : Body(replies[i]) \in Seq(Nat)
      BY <2>1, FrameType
    <2>3. B \in [1..Len(replies) -> Seq(Nat)]
      BY <2>1, <2>2 DEF Bodies
    <2>4. B \in Seq(Seq(Nat)) /\ Len(B) = Len(replies)
      BY <1>1, <2>3, SeqDef
    <2> QED BY <2>1, <2>4 DEF Bodies
  <1> HIDE DEF B
  <1>4. IsPrefix(given, B)
    <2> DEFINE n == Len(given)
               a == SubSeq(given, 1, n)
               b == SubSeq(B, 1, n)
    <2>1. n \in Nat /\ n <= Len(given) /\ n <= Len(B)
      BY <1>1, <1>3
    <2>2. a \in Seq(Seq(Nat)) /\ Len(a) = n /\ \A i \in 1..n : a[i] = given[i]
      BY <1>2, <2>1, FirstOf
    <2>3. b \in Seq(Seq(Nat)) /\ Len(b) = n /\ \A i \in 1..n : b[i] = B[i]
      BY <1>3, <2>1, FirstOf
    <2>4. \A i \in 1..n : given[i] = B[i]
      BY <1>1, <1>2, <1>3
    <2> HIDE DEF a, b
    <2>5. a = b
      BY <2>2, <2>3, <2>4, SeqEqual
    <2> QED BY <2>1, <2>5 DEF IsPrefix, a, b
  <1>5. ASSUME ~reading, net = <<>> PROVE given = B
    <2> DEFINE r == tcprecv
               p == Pending(r)
               m == Head(Rest)
               f == Frame(m)
               g == Frames(Tail(Rest))
    <2>1. /\ r \in VBufs /\ r.skip <= Len(r.buf) /\ net \in Seq(Nat)
          /\ p \o net = Frames(Rest) /\ ~HasDgram(r)
      BY <1>5 DEF ReceiveInv
    <2>2. r.skip \in Nat /\ Len(r.buf) \in Nat /\ p \in Seq(Nat) /\ Len(p) = Len(r.buf) - r.skip
      BY PendingType DEF ReceiveInv
    <2>3. ASSUME Rest # <<>> PROVE FALSE
      <3>1. m \in Messages /\ Tail(Rest) \in Seq(Messages) /\ Frames(Rest) = f \o g
        BY <1>1, <2>3, FramesHead
      <3>2. m.len \in Nat /\ f \in Seq(Nat) /\ Len(f) = m.len + 2 /\ g \in Seq(Nat)
        BY <3>1, FrameType, FramesAreTexts
      <3>3. p = f \o g
        BY <1>5, <2>1, <2>2, <3>1, ConcatEmptySeq
      <3>4. Len(f \o g) = Len(f) + Len(g) /\ Len(g) \in Nat
        BY <3>2, ConcatProperties, LenProperties
      <3>5. Len(p) >= m.len + 2
        <4> HIDE DEF p, f, g, m
        <4> QED BY <3>2, <3>3, <3>4
      <3>6. HasLength(r)
        <4> HIDE DEF p, f, g, m
        <4>1. \A k, l, n \in Nat : l - k >= n + 2 => l >= k + 2 /\ l >= k + 2 + n
          OBVIOUS
        <4>2. Len(r.buf) - r.skip >= m.len + 2
          BY <2>2, <3>5
        <4>3. Len(r.buf) >= r.skip + 2 /\ Len(r.buf) >= r.skip + 2 + m.len
          BY <2>2, <3>2, <4>1, <4>2
        <4> QED BY <4>3 DEF HasLength, Used
      <3>7. DgramLen(r) = m.len
        BY <1>1, <2>1, <2>3, <3>6, FirstLength
      <3> HIDE DEF p, f, g, m
      <3>8. Len(r.buf) >= r.skip + 2 + DgramLen(r)
        <4>1. \A k, l, n \in Nat : l - k >= n + 2 => l >= k + 2 + n
          OBVIOUS
        <4>2. Len(r.buf) - r.skip >= m.len + 2
          BY <2>2, <3>5
        <4>3. Len(r.buf) >= r.skip + 2 + m.len
          BY <2>2, <3>2, <4>1, <4>2
        <4> QED BY <3>7, <4>3
      <3> QED BY <2>1, <3>6, <3>8 DEF HasDgram, Used
    <2>4. Len(given) = Len(B)
      <3>1. Len(Rest) = 0
        BY <2>3
      <3> QED BY <1>1, <1>3, <3>1
    <2> QED BY <1>1, <1>2, <1>3, <2>4, SeqEqual
  <1> QED BY <1>4, <1>5 DEF RepliesWhole, B

\* The datagrams given to adns__procdgram are the replies, whole and in order,
\* and all those that came when adns_processreadable returns: for any replies
\* and any pieces in which their bytes are read.
THEOREM RepliesAreWhole == Spec => []RepliesWhole
  <1>1. Init => ReceiveInv
    <2>1. Init => tcprecv \in VBufs /\ tcprecv.buf = <<>> /\ tcprecv.skip = 0
      <3>1. <<>> \in Seq(Nat)
        BY EmptySeq
      <3> QED BY <3>1 DEF Init, VBufs
    <2> QED BY <2>1, ReceiveNothing DEF Init
  <1>2. ReceiveInv /\ [Next]_vars => ReceiveInv'
    <2> SUFFICES ASSUME ReceiveInv, [Next]_vars PROVE ReceiveInv'
      OBVIOUS
    <2>1. CASE Connect \/ Broken
      <3>1. /\ replies' = <<>> /\ given' = <<>> /\ net' = <<>>
            /\ tcprecv' = [tcprecv EXCEPT !.buf = <<>>, !.skip = 0]
        BY <2>1 DEF Connect, Broken, NewConnection
      <3>2. tcprecv' \in VBufs /\ tcprecv'.buf = <<>> /\ tcprecv'.skip = 0
        <4>1. tcprecv \in VBufs /\ <<>> \in Seq(Nat)
          BY EmptySeq DEF ReceiveInv
        <4> QED BY <3>1, <4>1 DEF VBufs
      <3>3. (replies = <<>> /\ given = <<>> /\ net = <<>> /\ tcprecv \in VBufs
              /\ tcprecv.buf = <<>> /\ tcprecv.skip = 0 => ReceiveInv)'
        BY ReceiveNothing, PTL
      <3> QED BY <3>1, <3>2, <3>3
    <2>2. CASE \E m \in Messages : ServerReplies(m)
      BY <2>2, ReceiveReply
    <2>3. CASE Deliver
      BY <2>3, ReceiveDeliver
    <2>4. CASE Read
      BY <2>4, ReceiveRead
    <2>5. CASE ReadEnd
      BY <2>5, ReceiveReadEnd
    <2>6. CASE StartRead
      <3>1. UNCHANGED <<replies, given, net, tcprecv>> /\ ~reading /\ reading'
        BY <2>6 DEF StartRead
      <3>2. Rest' = Rest
        BY <3>1 DEF Rest
      <3> QED BY <3>1, <3>2 DEF ReceiveInv, Pending
    <2>7. CASE UNCHANGED <<replies, given, net, tcprecv, reading>>
      <3>1. Rest' = Rest
        BY <2>7 DEF Rest
      <3> QED BY <2>7, <3>1 DEF ReceiveInv, Pending, HasDgram, HasLength, DgramLen, Used
    <2>8. \/ Connect \/ Broken \/ StartRead \/ Deliver \/ Read \/ ReadEnd
          \/ \E m \in Messages : ServerReplies(m)
          \/ UNCHANGED <<replies, given, net, tcprecv, reading>>
      BY DEF Next, Flush, adns__querysend_tcp, vars
    <2> QED BY <2>1, <2>2, <2>3, <2>4, <2>5, <2>6, <2>7, <2>8
  <1>3. ReceiveInv => RepliesWhole
    BY ReceivedWhole
  <1> QED BY <1>1, <1>2, <1>3, PTL DEF Spec

=============================================================================
