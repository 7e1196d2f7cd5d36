---------------------------- MODULE QueueLemmas ----------------------------
(***************************************************************************)
(* What append, head, tail and Off do to a queue that holds nothing twice, *)
(* seen as the set of what it holds: the queues of Fifo.h and              *)
(* ConstantSizedFifo.h (okSites, dnsSites and freeConns), and those of     *)
(* adns (dlist.h), from the middle of which elements are taken too.        *)
(*                                                                         *)
(* Then what a stream of bytes or of lines needs: that FlattenSeq, which   *)
(* the library defines by a recursive function, joins what it is given one *)
(* after the other (by induction on the length, with the least             *)
(* counterexample of a set of numbers); the text of a queue, cut at its    *)
(* first line and extended at its last one; cutting a sequence in two; and *)
(* the remainders a ring of files is indexed by.                           *)
(***************************************************************************)
EXTENDS Integers, Sequences, SequencesExt, Queues,
        FiniteSetTheorems, SequenceTheorems, WellFoundedInduction, TLAPS

\* r holds what q holds, and x.  The lemmas state this by name, for the
\* provers to cite without taking the two sets apart.
Adds(r, q, x) == ToSet(r) = ToSet(q) \cup {x}

\* A queue is empty exactly when it holds nothing.
LEMMA EmptyQueue ==
    ASSUME NEW S, NEW q \in Seq(S)
    PROVE  /\ q = <<>> <=> ToSet(q) = {}
           /\ ToSet(q) \subseteq S
           /\ q # <<>> => Len(q) \in Nat /\ Len(q) > 0
  <1>1. DOMAIN q = 1..Len(q) /\ Len(q) \in Nat /\ q \in [1..Len(q) -> S]
    BY LenProperties
  <1>2. q # <<>> => Len(q) > 0
    BY <1>1, EmptySeq
  <1>3. ToSet(q) \subseteq S
    BY <1>1 DEF ToSet
  <1>4. q = <<>> => ToSet(q) = {}
    <2>1. q = <<>> => 1..Len(q) = {}
      BY EmptySeq
    <2> QED BY <1>1, <2>1 DEF ToSet
  <1>5. ASSUME q # <<>> PROVE ToSet(q) # {}
    <2>1. 1 \in DOMAIN q
      BY <1>1, <1>2, <1>5
    <2> QED BY <2>1 DEF ToSet
  <1> QED BY <1>1, <1>2, <1>3, <1>4, <1>5

\* put: the new element is last, and the queue still holds nothing twice.
LEMMA PutQueue ==
    ASSUME NEW S, NEW q \in Seq(S), NEW x \in S
    PROVE  /\ Append(q, x) \in Seq(S)
           /\ Adds(Append(q, x), q, x)
           /\ IsInjective(q) /\ x \notin ToSet(q) => IsInjective(Append(q, x))
  <1>1. /\ Append(q, x) \in Seq(S)
        /\ Len(Append(q, x)) = Len(q) + 1
        /\ \A i \in 1..Len(q) : Append(q, x)[i] = q[i]
        /\ Append(q, x)[Len(q) + 1] = x
    BY AppendProperties
  <1>2. DOMAIN q = 1..Len(q) /\ Len(q) \in Nat
    BY LenProperties
  <1>3. DOMAIN Append(q, x) = 1..(Len(q) + 1)
    BY <1>1, LenProperties
  <1>4. ToSet(Append(q, x)) = ToSet(q) \cup {x}
    BY <1>1, <1>2, <1>3 DEF ToSet
  <1>5. ASSUME IsInjective(q), x \notin ToSet(q)
        PROVE  IsInjective(Append(q, x))
    BY <1>1, <1>2, <1>3, <1>5 DEF ToSet, IsInjective
  <1> QED BY <1>1, <1>4, <1>5 DEF Adds

\* get: the first element leaves the queue, for good if it was there once.
LEMMA GetQueue ==
    ASSUME NEW S, NEW q \in Seq(S), q # <<>>
    PROVE  /\ Head(q) \in S /\ Head(q) \in ToSet(q)
           /\ Tail(q) \in Seq(S)
           /\ Len(Tail(q)) = Len(q) - 1
           /\ IsInjective(q) => /\ IsInjective(Tail(q))
                                /\ ToSet(Tail(q)) = ToSet(q) \ {Head(q)}
  <1>1. /\ Head(q) \in S
        /\ Tail(q) \in Seq(S)
        /\ Len(Tail(q)) = Len(q) - 1
        /\ \A i \in 1..Len(Tail(q)) : Tail(q)[i] = q[i + 1]
    BY HeadTailProperties
  <1>2. Len(q) \in Nat \ {0} /\ DOMAIN q = 1..Len(q)
    BY EmptySeq, LenProperties
  <1>3. Head(q) = q[1]
    BY <1>2
  <1>4. DOMAIN Tail(q) = 1..(Len(q) - 1)
    BY <1>1, LenProperties
  <1>5. Head(q) \in ToSet(q)
    BY <1>2, <1>3 DEF ToSet
  <1>6. ASSUME IsInjective(q)
        PROVE  IsInjective(Tail(q)) /\ ToSet(Tail(q)) = ToSet(q) \ {Head(q)}
    <2>1. \A i, j \in 1..Len(q) : q[i] = q[j] => i = j
      BY <1>2, <1>6 DEF IsInjective
    <2>2. \A i \in 1..(Len(q) - 1) : Tail(q)[i] = q[i + 1] /\ i + 1 \in 2..Len(q)
      BY <1>1, <1>2
    <2>3. IsInjective(Tail(q))
      BY <1>2, <1>4, <2>1, <2>2 DEF IsInjective
    <2>4. ToSet(Tail(q)) \subseteq ToSet(q) \ {Head(q)}
      BY <1>2, <1>3, <1>4, <2>1, <2>2 DEF ToSet
    <2>5. ASSUME NEW i \in 1..Len(q), q[i] # Head(q)
          PROVE  q[i] \in ToSet(Tail(q))
      <3>1. i - 1 \in 1..(Len(q) - 1) /\ (i - 1) + 1 = i
        BY <1>2, <1>3, <2>5
      <3>2. Tail(q)[i - 1] = q[i]
        BY <2>2, <3>1
      <3> QED BY <1>4, <3>1, <3>2 DEF ToSet
    <2>6. ToSet(q) \ {Head(q)} \subseteq ToSet(Tail(q))
      BY <1>2, <2>5 DEF ToSet
    <2> QED BY <2>3, <2>4, <2>6
  <1> QED BY <1>1, <1>5, <1>6

\* rePut: the element is first again.
LEMMA RePutQueue ==
    ASSUME NEW S, NEW q \in Seq(S), NEW x \in S
    PROVE  /\ <<x>> \o q \in Seq(S)
           /\ Adds(<<x>> \o q, q, x)
           /\ IsInjective(q) /\ x \notin ToSet(q) => IsInjective(<<x>> \o q)
  <1>0. <<x>> \in Seq(S) /\ Len(<<x>>) = 1 /\ <<x>>[1] = x
    OBVIOUS
  <1>1. /\ <<x>> \o q \in Seq(S)
        /\ Len(<<x>> \o q) = 1 + Len(q)
        /\ \A i \in 1..(1 + Len(q)) :
             (<<x>> \o q)[i] = IF i <= 1 THEN <<x>>[i] ELSE q[i - 1]
    BY <1>0, ConcatProperties
  <1>2. DOMAIN q = 1..Len(q) /\ Len(q) \in Nat
    BY LenProperties
  <1>3. DOMAIN (<<x>> \o q) = 1..(1 + Len(q))
    BY <1>1, LenProperties
  <1>4. (<<x>> \o q)[1] = x /\ \A i \in 1..Len(q) : (<<x>> \o q)[i + 1] = q[i]
    BY <1>0, <1>1, <1>2
  <1>5. \A k \in 1..(1 + Len(q)) : k = 1 \/ (k - 1 \in 1..Len(q) /\ (k - 1) + 1 = k)
    BY <1>2
  <1>6. ToSet(<<x>> \o q) = ToSet(q) \cup {x}
    <2>1. ToSet(<<x>> \o q) \subseteq ToSet(q) \cup {x}
      BY <1>2, <1>3, <1>4, <1>5 DEF ToSet
    <2>2. \A i \in 1..Len(q) : i + 1 \in 1..(1 + Len(q)) /\ 1 \in 1..(1 + Len(q))
      BY <1>2
    <2>3. x \in ToSet(<<x>> \o q)
      BY <1>2, <1>3, <1>4 DEF ToSet
    <2>4. ASSUME NEW i \in 1..Len(q) PROVE q[i] \in ToSet(<<x>> \o q)
      <3>1. i + 1 \in DOMAIN (<<x>> \o q) /\ q[i] = (<<x>> \o q)[i + 1]
        BY <1>3, <1>4, <2>2
      <3> QED BY <3>1 DEF ToSet
    <2>5. ToSet(q) \subseteq ToSet(<<x>> \o q)
      BY <1>2, <2>4 DEF ToSet
    <2> QED BY <2>1, <2>3, <2>5
  <1>7. ASSUME IsInjective(q), x \notin ToSet(q)
        PROVE  IsInjective(<<x>> \o q)
    <2>1. \A i, j \in 1..Len(q) : q[i] = q[j] => i = j
      BY <1>2, <1>7 DEF IsInjective
    <2>2. \A i \in 1..Len(q) : q[i] # x
      BY <1>2, <1>7 DEF ToSet
    <2>3. \A k \in 1..(1 + Len(q)) : k # 1 => (<<x>> \o q)[k] = q[k - 1]
      BY <1>4, <1>5
    <2> QED BY <1>2, <1>3, <1>4, <1>5, <2>1, <2>2, <2>3 DEF IsInjective
  <1> QED BY <1>1, <1>6, <1>7 DEF Adds

\* get followed by put of the same element: a rotation holds the same elements.
LEMMA RotateQueue ==
    ASSUME NEW S, NEW q \in Seq(S), q # <<>>, IsInjective(q)
    PROVE  /\ Append(Tail(q), Head(q)) \in Seq(S)
           /\ IsInjective(Append(Tail(q), Head(q)))
           /\ ToSet(Append(Tail(q), Head(q))) = ToSet(q)
  <1>1. /\ Head(q) \in S /\ Head(q) \in ToSet(q)
        /\ Tail(q) \in Seq(S) /\ IsInjective(Tail(q))
        /\ ToSet(Tail(q)) = ToSet(q) \ {Head(q)}
    BY GetQueue
  <1>2. Head(q) \notin ToSet(Tail(q))
    BY <1>1
  <1>3. Append(Tail(q), Head(q)) \in Seq(S)
    BY <1>1
  <1>5. ToSet(Append(Tail(q), Head(q))) = ToSet(Tail(q)) \cup {Head(q)}
    <2>1. Adds(Append(Tail(q), Head(q)), Tail(q), Head(q))
      BY <1>1, PutQueue, Zenon
    <2> QED BY <2>1 DEF Adds
  <1>4. IsInjective(Append(Tail(q), Head(q)))
    BY <1>1, <1>2, PutQueue, Zenon
  <1> QED BY <1>1, <1>3, <1>4, <1>5

-----------------------------------------------------------------------------
(* Off, which takes elements off a queue of adns (dlist.h) *)

\* The cells of a set are ordered: each is the k-th for one k.
LEMMA NthCell ==
    ASSUME NEW n \in Nat, NEW S \in SUBSET (1..n)
    PROVE  /\ Cardinality(S) \in Nat
           /\ \A k \in 1..Cardinality(S) : Nth(S, k) \in S
           /\ \A i \in S : \E k \in 1..Cardinality(S) : Nth(S, k) = i
           /\ \A k, l \in 1..Cardinality(S) : k < l => Nth(S, k) < Nth(S, l)
  <1> DEFINE Upto(i) == {j \in S : j <= i}
             C == Cardinality(S)
             rank == [i \in S |-> Cardinality(Upto(i))]
  <1>1. IsFiniteSet(S) /\ C \in Nat
    <2>1. IsFiniteSet(1..n)
      BY FS_Interval
    <2> QED BY <2>1, FS_Subset, FS_CardinalityType
  <1>2. ASSUME NEW i \in S
        PROVE  IsFiniteSet(Upto(i)) /\ Cardinality(Upto(i)) \in 1..C
    <2>1. Upto(i) \in SUBSET S /\ i \in Upto(i) /\ i \in Nat
      OBVIOUS
    <2>2. IsFiniteSet(Upto(i)) /\ Cardinality(Upto(i)) \in Nat /\ Cardinality(Upto(i)) <= C
      BY <1>1, <2>1, FS_Subset, FS_CardinalityType
    <2>3. Cardinality(Upto(i)) # 0
      BY <2>1, <2>2, FS_EmptySet
    <2> QED BY <1>1, <2>2, <2>3
  <1>3. ASSUME NEW i \in S, NEW j \in S, i < j
        PROVE  Cardinality(Upto(i)) < Cardinality(Upto(j))
    <2>0. i \in Nat /\ j \in Nat /\ \A k \in S : k \in Nat
      OBVIOUS
    <2>1. j \in Upto(j) /\ j \notin Upto(i)
      <3>1. i \in Nat /\ j \in Nat
        BY <2>0
      <3>2. j <= j /\ ~(j <= i)
        BY ONLY <1>3, <3>1
      <3> QED BY <3>2
    <2>3. Upto(i) \in SUBSET Upto(j)
      <3>1. i \in Nat /\ j \in Nat
        BY <2>0
      <3>2. \A k \in Nat : k <= i => k <= j
        BY ONLY <1>3, <3>1
      <3> QED BY <2>0, <3>2
    <2>2. Cardinality(Upto(i)) # Cardinality(Upto(j)) /\ Cardinality(Upto(i)) <= Cardinality(Upto(j))
      BY <1>2, <2>1, <2>3, FS_Subset
    <2> QED BY <1>1, <1>2, <2>2
  <1>4. \A i, j \in S : Cardinality(Upto(i)) = Cardinality(Upto(j)) => i = j
    BY <1>1, <1>2, <1>3
  <1>5. \A k \in 1..C : \E i \in S : Cardinality(Upto(i)) = k
    <2>1. IsFiniteSet(1..C) /\ Cardinality(1..C) = C
      BY <1>1, FS_Interval
    <2> HIDE DEF Upto
    <2>2. rank \in Injection(S, 1..C)
      BY <1>2, <1>4 DEF Injection, IsInjective
    <2>3. rank \in Surjection(S, 1..C)
      BY <2>1, <2>2, FS_Injection, Zenon
    <2> QED BY <2>3 DEF Surjection
  <1>6. ASSUME NEW k \in 1..C
        PROVE  Nth(S, k) \in S /\ Cardinality(Upto(Nth(S, k))) = k
    BY <1>5 DEF Nth
  <1>7. ASSUME NEW i \in S PROVE Nth(S, Cardinality(Upto(i))) = i
    BY <1>2, <1>4, <1>6
  <1>8. ASSUME NEW k \in 1..C, NEW l \in 1..C, k < l PROVE Nth(S, k) < Nth(S, l)
    <2>1. Nth(S, k) \in 1..n /\ Nth(S, l) \in 1..n
      BY <1>6
    <2> DEFINE i == Nth(S, k)
               j == Nth(S, l)
    <2>2. i \in S /\ j \in S /\ Cardinality(Upto(i)) = k /\ Cardinality(Upto(j)) = l
      BY <1>6
    <2>3. i \in Nat /\ j \in Nat
      BY <2>1
    <2> HIDE DEF i, j, Upto
    <2>4. ~(j < i) /\ j # i
      BY <1>1, <1>3, <1>8, <2>2
    <2> QED BY <2>3, <2>4 DEF i, j
  <1> QED BY <1>1, <1>2, <1>6, <1>7, <1>8

\* unlink: the other elements stay, in the order they were in.
LEMMA OffQueue ==
    ASSUME NEW T, NEW q \in Seq(T), NEW gone
    PROVE  /\ Off(q, gone) \in Seq(T)
           /\ ToSet(Off(q, gone)) = ToSet(q) \ gone
           /\ IsInjective(q) => IsInjective(Off(q, gone))
           /\ \A k, l \in DOMAIN Off(q, gone) : k < l =>
                \E i, j \in DOMAIN q : i < j /\ q[i] = Off(q, gone)[k] /\ q[j] = Off(q, gone)[l]
  <1> DEFINE S == Remaining(q, gone)
             C == Cardinality(S)
             r == Off(q, gone)
  <1>1. Len(q) \in Nat /\ DOMAIN q = 1..Len(q) /\ \A i \in 1..Len(q) : q[i] \in T
    BY LenProperties
  <1>2. S \in SUBSET (1..Len(q)) /\ S = {i \in 1..Len(q) : q[i] \notin gone}
    BY <1>1 DEF Remaining
  <1>3. r = [k \in 1..C |-> q[Nth(S, k)]]
    BY DEF Off
  <1> HIDE DEF S, r
  <1>4. /\ C \in Nat
        /\ \A k \in 1..C : Nth(S, k) \in S
        /\ \A i \in S : \E k \in 1..C : Nth(S, k) = i
        /\ \A k, l \in 1..C : k < l => Nth(S, k) < Nth(S, l)
    <2>1. Len(q) \in Nat /\ S \in SUBSET (1..Len(q))
      BY <1>1, <1>2
    <2> QED BY <2>1, NthCell, Zenon
  <1> HIDE DEF C
  <1>5. /\ DOMAIN r = 1..C
        /\ \A k \in 1..C : r[k] = q[Nth(S, k)] /\ Nth(S, k) \in 1..Len(q) /\ r[k] \notin gone
    BY <1>2, <1>3, <1>4
  <1>6. r \in Seq(T)
    <2>1. r \in [1..C -> T]
      BY <1>1, <1>3, <1>5
    <2> QED BY <1>4, <2>1, SeqDef
  <1>7. ToSet(r) = ToSet(q) \ gone
    <2>1. ToSet(r) \subseteq ToSet(q) \ gone
      BY <1>1, <1>5 DEF ToSet
    <2>2. ASSUME NEW i \in 1..Len(q), q[i] \notin gone PROVE q[i] \in ToSet(r)
      <3>1. PICK k \in 1..C : Nth(S, k) = i
        BY <1>2, <1>4, <2>2
      <3> QED BY <1>5, <3>1 DEF ToSet
    <2> QED BY <1>1, <2>1, <2>2 DEF ToSet
  <1>8. ASSUME IsInjective(q) PROVE IsInjective(r)
    <2>1. \A i, j \in 1..Len(q) : q[i] = q[j] => i = j
      BY <1>1, <1>8 DEF IsInjective
    <2>2. \A k, l \in 1..C : Nth(S, k) = Nth(S, l) => k = l
      <3>1. \A k \in 1..C : Nth(S, k) \in Nat
        BY <1>5
      <3> QED BY <1>4, <3>1
    <2> QED BY <1>5, <2>1, <2>2 DEF IsInjective
  <1>9. \A k, l \in 1..C : k < l =>
          \E i, j \in 1..Len(q) : i < j /\ q[i] = r[k] /\ q[j] = r[l]
    BY <1>4, <1>5
  <1> QED BY <1>1, <1>5, <1>6, <1>7, <1>8, <1>9 DEF r

\* The k-th cell from a on.
LEMMA NthFrom ==
    ASSUME NEW n \in Nat, NEW a \in Nat, a <= n
    PROVE  /\ Cardinality(a + 1..n) = n - a
           /\ \A k \in 1..(n - a) : Nth(a + 1..n, k) = a + k
  <1> DEFINE S == a + 1..n
  <1>0. ASSUME NEW i \in Nat, a <= i PROVE Cardinality(a + 1..i) = i - a
    <2>1. a + 1 \in Int /\ i \in Int
      OBVIOUS
    <2>2. Cardinality(a + 1..i) = IF a + 1 > i THEN 0 ELSE i - (a + 1) + 1
      BY <2>1, FS_Interval
    <2> QED BY <1>0, <2>2
  <1>1. Cardinality(S) = n - a
    BY <1>0
  <1>2. ASSUME NEW k \in 1..(n - a) PROVE Nth(S, k) = a + k
    <2>1. \A i \in S : {j \in S : j <= i} = a + 1..i /\ Cardinality(a + 1..i) = i - a
      BY <1>0
    <2>2. a + k \in S /\ \A i \in S : i - a = k <=> i = a + k
      OBVIOUS
    <2> HIDE DEF S
    <2>3. \A i \in S : Cardinality({j \in S : j <= i}) = k <=> i = a + k
      BY <2>1, <2>2
    <2> QED BY <2>2, <2>3 DEF Nth
  <1> QED BY <1>1, <1>2

\* What is not on the queue cannot be taken off it.
LEMMA OffNone ==
    ASSUME NEW T, NEW q \in Seq(T), NEW gone, \A x \in gone : x \notin ToSet(q)
    PROVE  Off(q, gone) = q
  <1>1. Len(q) \in Nat /\ DOMAIN q = 1..Len(q) /\ q = [i \in 1..Len(q) |-> q[i]]
    BY LenProperties
  <1>2. Remaining(q, gone) = 0 + 1..Len(q)
    BY <1>1 DEF Remaining, ToSet
  <1>3. /\ Cardinality(0 + 1..Len(q)) = Len(q) - 0
        /\ \A k \in 1..(Len(q) - 0) : Nth(0 + 1..Len(q), k) = 0 + k
    <2>1. Len(q) \in Nat /\ 0 \in Nat /\ 0 <= Len(q)
      BY <1>1
    <2> QED BY <2>1, NthFrom
  <1>4. Len(q) - 0 = Len(q) /\ \A k \in 1..Len(q) : 0 + k = k
    BY <1>1
  <1>5. Off(q, gone) = [k \in 1..Len(q) |-> q[k]]
    BY <1>2, <1>3, <1>4 DEF Off
  <1> QED BY <1>1, <1>5

\* The head taken off a queue that holds it once leaves the tail.
LEMMA OffHead ==
    ASSUME NEW T, NEW q \in Seq(T), q # <<>>, IsInjective(q)
    PROVE  Off(q, {Head(q)}) = Tail(q)
  <1>1. /\ Len(q) \in Nat \ {0} /\ DOMAIN q = 1..Len(q) /\ Head(q) = q[1]
        /\ Tail(q) = [i \in 1..(Len(q) - 1) |-> q[i + 1]]
    <2>1. Len(q) \in Nat \ {0} /\ DOMAIN q = 1..Len(q)
      BY LenProperties, EmptySeq
    <2>2. Tail(q) \in Seq(T) /\ Len(Tail(q)) = Len(q) - 1
          /\ \A i \in 1..Len(Tail(q)) : Tail(q)[i] = q[i + 1]
      BY HeadTailProperties
    <2>3. Tail(q) = [i \in 1..(Len(q) - 1) |-> Tail(q)[i]]
      BY <2>2, LenProperties
    <2> QED BY <2>1, <2>2, <2>3
  <1>2. Remaining(q, {Head(q)}) = 1 + 1..Len(q)
    BY <1>1 DEF Remaining, IsInjective
  <1>3. /\ Cardinality(1 + 1..Len(q)) = Len(q) - 1
        /\ \A k \in 1..(Len(q) - 1) : Nth(1 + 1..Len(q), k) = 1 + k
    <2>1. Len(q) \in Nat /\ 1 \in Nat /\ 1 <= Len(q)
      BY <1>1
    <2> QED BY <2>1, NthFrom
  <1>4. \A k \in 1..(Len(q) - 1) : 1 + k = k + 1
    BY <1>1
  <1>5. Off(q, {Head(q)}) = [k \in 1..(Len(q) - 1) |-> q[k + 1]]
    BY <1>2, <1>3, <1>4 DEF Off
  <1> QED BY <1>1, <1>5

-----------------------------------------------------------------------------
(* FlattenSeq, which puts texts one after the other.  It recurses over the    *)
(* number of the texts: what it gives is shown by induction, as a set of      *)
(* naturals that holds 0 and, with n, n + 1.                                  *)

\* A set of naturals has a least element.
LEMMA Least ==
    ASSUME NEW T \in SUBSET Nat, T # {}
    PROVE  \E n \in T : \A m \in T : n <= m
  <1> DEFINE R == OpToRel(<, Nat)
  <1>1. IsWellFoundedOn(R, Nat)
    BY NatLessThanWellFounded
  <1> HIDE DEF R
  <1>2. \E x \in T : \A y \in T : ~ (<<y, x>> \in R)
    BY <1>1, WFMin
  <1>3. PICK x \in T : \A y \in T : ~ (<<y, x>> \in R)
    BY <1>2
  <1>4. ASSUME NEW y \in T PROVE x <= y
    <2>1. <<y, x>> \notin R
      BY <1>3
    <2>2. x \in Nat /\ y \in Nat
      OBVIOUS
    <2>3. <<y, x>> \in R <=> y < x
      BY <2>2 DEF R, OpToRel
    <2> QED BY <2>1, <2>2, <2>3
  <1> QED BY <1>4

\* Induction, for a set of naturals.
LEMMA Induct ==
    ASSUME NEW T \in SUBSET Nat, 0 \in T, \A n \in T : n + 1 \in T
    PROVE  T = Nat
  <1> DEFINE U == Nat \ T
  <1> SUFFICES ASSUME U # {} PROVE FALSE
    OBVIOUS
  <1>1. PICK n \in U : \A m \in U : n <= m
    BY Least
  <1>2. n # 0 /\ n \in Nat
    OBVIOUS
  <1>3. n - 1 \in T
    BY <1>1, <1>2
  <1> QED BY <1>1, <1>2, <1>3

\* g gives the concatenations of the first elements of ss.
Concats(S, ss, g) ==
    /\ g \in [0..Len(ss) -> Seq(S)]
    /\ g[0] = <<>>
    /\ \A i \in 1..Len(ss) : g[i] = g[i - 1] \o ss[i]

\* The first n elements of a sequence.
LEMMA FirstOf ==
    ASSUME NEW S, NEW s \in Seq(S), NEW n \in Nat, n <= Len(s)
    PROVE  /\ SubSeq(s, 1, n) \in Seq(S)
           /\ Len(SubSeq(s, 1, n)) = n
           /\ \A i \in 1..n : SubSeq(s, 1, n)[i] = s[i]
  <1>1. Len(s) \in Nat /\ \A i \in 1..n : s[i] \in S
    BY LenProperties
  <1> QED BY <1>1, SubSeqProperties

LEMMA ConcatsExists ==
    ASSUME NEW S, NEW ss \in Seq(Seq(S))
    PROVE  \E g : Concats(S, ss, g)
  <1> DEFINE T == {n \in Nat : \A s \in Seq(Seq(S)) : Len(s) = n => \E g : Concats(S, s, g)}
  <1>1. 0 \in T
    <2> SUFFICES ASSUME NEW s \in Seq(Seq(S)), Len(s) = 0 PROVE \E g : Concats(S, s, g)
      OBVIOUS
    <2>1. Concats(S, s, [i \in 0..0 |-> <<>>])
      <3>1. <<>> \in Seq(S) /\ 1..0 = {} /\ 0..0 = {0}
        BY EmptySeq
      <3> QED BY <3>1 DEF Concats
    <2> QED BY <2>1
  <1>2. ASSUME NEW n \in T PROVE n + 1 \in T
    <2> SUFFICES ASSUME NEW s \in Seq(Seq(S)), Len(s) = n + 1 PROVE \E g : Concats(S, s, g)
      OBVIOUS
    <2>0. n \in Nat
      OBVIOUS
    <2> DEFINE t == SubSeq(s, 1, n)
    <2>1. t \in Seq(Seq(S)) /\ Len(t) = n /\ \A i \in 1..n : t[i] = s[i]
      <3>1. n <= Len(s)
        BY <2>0
      <3> QED BY <2>0, <3>1, FirstOf
    <2>2. PICK g : Concats(S, t, g)
      BY <2>1
    <2> HIDE DEF t
    <2>3. /\ g \in [0..n -> Seq(S)] /\ g[0] = <<>>
          /\ \A i \in 1..n : g[i] = g[i - 1] \o s[i]
      BY <2>1, <2>2 DEF Concats
    <2> DEFINE h == [i \in 0..n + 1 |-> IF i = n + 1 THEN g[n] \o s[n + 1] ELSE g[i]]
    <2>4. s[n + 1] \in Seq(S) /\ g[n] \in Seq(S)
      <3>1. n + 1 \in 1..Len(s) /\ n \in 0..n
        BY <2>0
      <3> QED BY <2>3, <3>1, ElementOfSeq
    <2>5. g[n] \o s[n + 1] \in Seq(S)
      BY <2>4, ConcatProperties
    <2>6. h \in [0..n + 1 -> Seq(S)]
      BY <2>0, <2>3, <2>5
    <2>7. h[0] = <<>> /\ \A i \in 1..n + 1 : h[i] = h[i - 1] \o s[i]
      <3>1. 0 # n + 1 /\ 0 \in 0..n + 1 /\ h[0] = <<>>
        BY <2>0, <2>3
      <3>2. ASSUME NEW i \in 1..n PROVE h[i] = h[i - 1] \o s[i]
        <4>1. i \in 0..n + 1 /\ i - 1 \in 0..n + 1 /\ i # n + 1 /\ i - 1 # n + 1
          BY <2>0
        <4> QED BY <2>3, <4>1
      <3>3. h[n + 1] = h[(n + 1) - 1] \o s[n + 1]
        <4>1. n + 1 \in 0..n + 1 /\ (n + 1) - 1 = n /\ n \in 0..n + 1 /\ n # n + 1
          BY <2>0
        <4> QED BY <4>1
      <3>4. \A i \in 1..n + 1 : i \in 1..n \/ i = n + 1
        BY <2>0
      <3> QED BY <3>1, <3>2, <3>3, <3>4
    <2> HIDE DEF h
    <2> QED BY <2>6, <2>7 DEF Concats
  <1>3. T = Nat
    <2> HIDE DEF T
    <2>1. T \in SUBSET Nat
      BY DEF T
    <2> QED BY <1>1, <1>2, <2>1, Induct
  <1>4. Len(ss) \in Nat
    BY LenProperties
  <1> QED BY <1>3, <1>4

\* FlattenSeq is the last of them.
LEMMA FlattenConcats ==
    ASSUME NEW S, NEW ss \in Seq(Seq(S)), NEW g, Concats(S, ss, g)
    PROVE  FlattenSeq(ss) = g[Len(ss)]
  <1> DEFINE n == Len(ss)
  <1>1. n \in Nat
    BY LenProperties
  <1>2. CASE n = 0
    <2>1. FlattenSeq(ss) = ss
      BY <1>2 DEF FlattenSeq
    <2>2. ss = <<>>
      BY <1>2, EmptySeq
    <2> QED BY <1>2, <2>1, <2>2 DEF Concats
  <1>3. CASE n # 0
    <2> DEFINE F(f) == f = [i \in 1..n |-> IF i = 1 THEN ss[i] ELSE f[i - 1] \o ss[i]]
               h == [i \in 1..n |-> g[i]]
    <2>1. FlattenSeq(ss) = (CHOOSE f : F(f))[n]
      BY <1>3 DEF FlattenSeq
    <2>2. F(h)
      <3>1. g[1] = ss[1]
        <4>1. 1 \in 1..Len(ss) /\ 1 - 1 = 0
          BY <1>1, <1>3
        <4>2. ss[1] \in Seq(S)
          BY <4>1, ElementOfSeq
        <4>3. g[1] = <<>> \o ss[1]
          BY <4>1 DEF Concats
        <4> QED BY <4>2, <4>3, ConcatEmptySeq
      <3>2. \A i \in 1..n : i # 1 => g[i] = h[i - 1] \o ss[i]
        <4> SUFFICES ASSUME NEW i \in 1..n, i # 1 PROVE g[i] = h[i - 1] \o ss[i]
          OBVIOUS
        <4>1. i - 1 \in 1..n
          BY <1>1
        <4>2. g[i] = g[i - 1] \o ss[i]
          BY DEF Concats
        <4> QED BY <4>1, <4>2
      <3>3. \A i \in 1..n : g[i] = IF i = 1 THEN ss[i] ELSE h[i - 1] \o ss[i]
        BY <3>1, <3>2
      <3> QED BY <3>3
    <2>3. ASSUME NEW f, F(f) PROVE f[n] = g[n]
      <3> DEFINE T == {k \in Nat : k + 1 \in 1..n => f[k + 1] = h[k + 1]}
      <3>1. \A i \in 1..n : f[i] = IF i = 1 THEN ss[i] ELSE f[i - 1] \o ss[i]
        BY <2>3
      <3>2. \A i \in 1..n : h[i] = IF i = 1 THEN ss[i] ELSE h[i - 1] \o ss[i]
        BY <2>2
      <3> HIDE DEF h, n
      <3>3. 0 \in T
        BY <3>1, <3>2
      <3>4. ASSUME NEW k \in T PROVE k + 1 \in T
        <4>1. k \in Nat /\ k + 1 # 0 /\ k + 1 + 1 # 1 /\ (k + 1 + 1) - 1 = k + 1
          OBVIOUS
        <4>2. k + 1 + 1 \in 1..n => k + 1 \in 1..n
          BY <1>1, <4>1
        <4>3. k + 1 + 1 \in 1..n => f[k + 1 + 1] = h[k + 1 + 1]
          BY <3>1, <3>2, <4>1, <4>2
        <4> QED BY <4>1, <4>3
      <3>5. T = Nat
        <4> HIDE DEF T
        <4>1. T \in SUBSET Nat
          BY DEF T
        <4> QED BY <3>3, <3>4, <4>1, Induct
      <3>6. n - 1 \in T /\ (n - 1) + 1 = n /\ n \in 1..n
        <4>1. n - 1 \in Nat /\ (n - 1) + 1 = n /\ n \in 1..n
          BY <1>1, <1>3
        <4> HIDE DEF T
        <4> QED BY <3>5, <4>1
      <3>7. f[n] = h[n]
        BY <3>6
      <3> QED BY <3>6, <3>7 DEF h
    <2> HIDE DEF F, n
    <2>4. F(CHOOSE f : F(f))
      BY <2>2
    <2> QED BY <2>1, <2>3, <2>4 DEF n
  <1> QED BY <1>2, <1>3

\* The flattening of one sequence after the other.
LEMMA FlattenTwo ==
    ASSUME NEW S, NEW ss, NEW tt, ss \in Seq(Seq(S)), tt \in Seq(Seq(S))
    PROVE  /\ FlattenSeq(ss) \in Seq(S)
           /\ FlattenSeq(ss \o tt) = FlattenSeq(ss) \o FlattenSeq(tt)
  <1>1. PICK f : Concats(S, ss, f)
    BY ConcatsExists
  <1>2. PICK g : Concats(S, tt, g)
    BY ConcatsExists
  <1> DEFINE m == Len(ss)
             n == Len(tt)
             h == [i \in 0..m + n |-> IF i <= m THEN f[i] ELSE f[m] \o g[i - m]]
  <1>3. m \in Nat /\ n \in Nat
    BY LenProperties
  <1>4. /\ f \in [0..m -> Seq(S)] /\ f[0] = <<>>
        /\ \A i \in 1..m : f[i] = f[i - 1] \o ss[i]
    BY <1>1 DEF Concats
  <1>5. /\ g \in [0..n -> Seq(S)] /\ g[0] = <<>>
        /\ \A i \in 1..n : g[i] = g[i - 1] \o tt[i]
    BY <1>2 DEF Concats
  <1>6. FlattenSeq(ss) = f[m] /\ FlattenSeq(tt) = g[n]
    BY <1>1, <1>2, FlattenConcats
  <1>7. /\ ss \o tt \in Seq(Seq(S)) /\ Len(ss \o tt) = m + n
        /\ \A i \in 1..m + n : (ss \o tt)[i] = IF i <= m THEN ss[i] ELSE tt[i - m]
    BY ConcatProperties
  <1>8. f[m] \in Seq(S) /\ f[m] \o <<>> = f[m]
    <2>1. f[m] \in Seq(S)
      <3>1. m \in 0..m
        BY <1>3
      <3> QED BY <1>4, <3>1
    <2> QED BY <2>1, ConcatEmptySeq
  <1>9. (\A i \in 1..m : ss[i] \in Seq(S)) /\ (\A i \in 1..n : tt[i] \in Seq(S))
    BY ElementOfSeq
  <1> HIDE DEF m, n
  <1>10. h \in [0..m + n -> Seq(S)]
    <2>1. ASSUME NEW i \in 0..m + n, ~(i <= m) PROVE f[m] \o g[i - m] \in Seq(S)
      <3>1. i - m \in 0..n
        BY <1>3, <2>1
      <3>2. g[i - m] \in Seq(S)
        BY <1>5, <3>1
      <3> QED BY <1>8, <3>2, ConcatProperties
    <2>2. \A i \in 0..m + n : i <= m => f[i] \in Seq(S)
      BY <1>3, <1>4
    <2> QED BY <2>1, <2>2
  <1>11. ASSUME NEW i \in 0..n PROVE h[m + i] = f[m] \o g[i]
    <2>1. m + i \in 0..m + n /\ (m + i) - m = i /\ (m + i <= m <=> i = 0)
      BY <1>3
    <2>2. CASE i = 0
      <3>1. h[m + i] = f[m]
        BY <1>3, <2>1, <2>2
      <3> QED BY <1>5, <1>8, <2>2, <3>1
    <2>3. CASE i # 0
      BY <2>1, <2>3
    <2> QED BY <2>2, <2>3
  <1>12. h[0] = <<>>
    <2>1. 0 \in 0..m + n /\ 0 <= m
      BY <1>3
    <2> QED BY <1>4, <2>1
  <1>13. ASSUME NEW i \in 1..m + n PROVE h[i] = h[i - 1] \o (ss \o tt)[i]
    <2>1. CASE i <= m
      <3>1. i \in 0..m + n /\ i - 1 \in 0..m + n /\ i - 1 <= m /\ i \in 1..m
        BY <1>3, <2>1
      <3> QED BY <1>4, <1>7, <2>1, <3>1
    <2>2. CASE ~(i <= m)
      <3> DEFINE j == i - m
      <3>1. /\ j \in 1..n /\ j - 1 \in 0..n /\ j \in 0..n
            /\ m + j = i /\ m + (j - 1) = i - 1
        BY <1>3, <2>2
      <3> HIDE DEF j
      <3>2. h[i] = f[m] \o (g[j - 1] \o tt[j])
        BY <1>5, <1>11, <3>1
      <3>3. h[i - 1] = f[m] \o g[j - 1]
        BY <1>11, <3>1
      <3>4. (ss \o tt)[i] = tt[j]
        BY <1>7, <2>2 DEF j
      <3>5. g[j - 1] \in Seq(S) /\ tt[j] \in Seq(S)
        BY <1>5, <1>9, <3>1
      <3>6. (f[m] \o g[j - 1]) \o tt[j] = f[m] \o (g[j - 1] \o tt[j])
        <4> DEFINE a == f[m]
                   b == g[j - 1]
                   c == tt[j]
        <4>1. a \in Seq(S) /\ b \in Seq(S) /\ c \in Seq(S)
          BY <1>8, <3>5
        <4> HIDE DEF a, b, c
        <4>2. (a \o b) \o c = a \o (b \o c)
          BY ONLY <4>1, ConcatAssociative
        <4> QED BY ONLY <4>2 DEF a, b, c
      <3> QED BY <3>2, <3>3, <3>4, <3>6
    <2> QED BY <2>1, <2>2
  <1>14. h[m + n] = f[m] \o g[n]
    <2>1. n \in 0..n
      BY <1>3
    <2> HIDE DEF h
    <2> QED BY <1>11, <2>1
  <1> HIDE DEF h
  <1>15. Concats(S, ss \o tt, h)
    BY <1>7, <1>10, <1>12, <1>13 DEF Concats
  <1>16. FlattenSeq(ss \o tt) = h[m + n]
    BY <1>7, <1>15, FlattenConcats
  <1> QED BY <1>6, <1>8, <1>14, <1>16 DEF m, n

LEMMA FlattenConcat ==
    ASSUME NEW S, NEW ss \in Seq(Seq(S)), NEW tt \in Seq(Seq(S))
    PROVE  /\ FlattenSeq(ss) \in Seq(S)
           /\ FlattenSeq(ss \o tt) = FlattenSeq(ss) \o FlattenSeq(tt)
BY FlattenTwo

\* The flattening of nothing and of one sequence.
LEMMA FlattenOne ==
    ASSUME NEW S, NEW s \in Seq(S)
    PROVE  FlattenSeq(<<>>) = <<>> /\ FlattenSeq(<<s>>) = s
  <1> DEFINE f == [i \in 0..0 |-> <<>>]
             g == [i \in 0..1 |-> IF i = 0 THEN <<>> ELSE s]
  <1>1. <<>> \in Seq(S) /\ <<>> \in Seq(Seq(S)) /\ 1..0 = {} /\ 0..0 = {0}
    BY EmptySeq
  <1>2. Concats(S, <<>>, f)
    BY <1>1 DEF Concats
  <1>3. <<s>> \in Seq(Seq(S)) /\ Len(<<s>>) = 1 /\ <<s>>[1] = s /\ <<>> \o s = s
    <2>1. <<>> \o s = s
      BY ConcatEmptySeq
    <2> QED BY <2>1
  <1>4. g \in [0..1 -> Seq(S)] /\ g[0] = <<>> /\ g[1] = s
    BY <1>1
  <1>5. Concats(S, <<s>>, g)
    <2> HIDE DEF g
    <2>1. \A i \in 1..1 : i = 1 /\ i - 1 = 0
      OBVIOUS
    <2> QED BY <1>3, <1>4, <2>1 DEF Concats
  <1>6. FlattenSeq(<<s>>) = g[1]
    BY <1>3, <1>5, FlattenConcats
  <1>7. FlattenSeq(<<>>) = f[0]
    <2>1. Len(<<>>) = 0
      OBVIOUS
    <2> QED BY <1>1, <1>2, <2>1, FlattenConcats
  <1> QED BY <1>4, <1>6, <1>7

\* The flattening of a sequence put after the others.
LEMMA FlattenAppend ==
    ASSUME NEW S, NEW ss \in Seq(Seq(S)), NEW s \in Seq(S)
    PROVE  FlattenSeq(Append(ss, s)) = FlattenSeq(ss) \o s
  <1>1. Append(ss, s) = ss \o <<s>> /\ <<s>> \in Seq(Seq(S))
    BY AppendIsConcat
  <1>2. FlattenSeq(ss \o <<s>>) = FlattenSeq(ss) \o FlattenSeq(<<s>>)
    BY <1>1, FlattenConcat
  <1>3. FlattenSeq(<<s>>) = s
    BY FlattenOne
  <1>4. \A t : t = ss \o <<s>> => FlattenSeq(t) = FlattenSeq(ss \o <<s>>)
    OBVIOUS
  <1> QED BY <1>1, <1>2, <1>3, <1>4

\* The first of them is the first part of their flattening.
LEMMA FlattenHead ==
    ASSUME NEW S, NEW ss \in Seq(Seq(S)), ss # <<>>
    PROVE  FlattenSeq(ss) = Head(ss) \o FlattenSeq(Tail(ss))
  <1>1. /\ Head(ss) \in Seq(S) /\ Tail(ss) \in Seq(Seq(S)) /\ Len(Tail(ss)) = Len(ss) - 1
        /\ \A i \in 1..Len(Tail(ss)) : Tail(ss)[i] = ss[i + 1]
    BY HeadTailProperties
  <1>2. Len(ss) \in Nat \ {0} /\ Head(ss) = ss[1]
    BY EmptySeq
  <1>3. <<Head(ss)>> \in Seq(Seq(S)) /\ Len(<<Head(ss)>>) = 1 /\ <<Head(ss)>>[1] = Head(ss)
    BY <1>1
  <1>4. ss = <<Head(ss)>> \o Tail(ss)
    <2> DEFINE t == <<Head(ss)>>
               u == t \o Tail(ss)
    <2>1. /\ u \in Seq(Seq(S)) /\ Len(u) = 1 + Len(Tail(ss))
          /\ \A i \in 1..1 + Len(Tail(ss)) : u[i] = IF i <= 1 THEN t[i] ELSE Tail(ss)[i - 1]
      BY <1>1, <1>3, ConcatProperties
    <2>2. ASSUME NEW i \in 1..Len(ss) PROVE ss[i] = u[i]
      <3>1. CASE i = 1
        BY <1>1, <1>2, <1>3, <2>1, <3>1
      <3>2. CASE i # 1
        <4>1. i \in 1..1 + Len(Tail(ss)) /\ ~(i <= 1)
          BY <1>1, <1>2, <3>2
        <4>2. i - 1 \in 1..Len(Tail(ss)) /\ (i - 1) + 1 = i
          BY <1>1, <1>2, <3>2
        <4> HIDE DEF u, t
        <4>3. u[i] = Tail(ss)[i - 1]
          BY <2>1, <4>1
        <4> QED BY <1>1, <4>2, <4>3
      <3> QED BY <3>1, <3>2
    <2>3. Len(ss) = Len(u)
      BY <1>1, <1>2, <2>1
    <2> HIDE DEF u
    <2>4. ss = u
      BY <2>1, <2>2, <2>3, SeqEqual
    <2> QED BY <2>4 DEF u
  <1>5. FlattenSeq(<<Head(ss)>>) = Head(ss)
    BY <1>1, FlattenOne
  <1> HIDE DEF Concats
  <1>6. FlattenSeq(<<Head(ss)>> \o Tail(ss)) = FlattenSeq(<<Head(ss)>>) \o FlattenSeq(Tail(ss))
    BY <1>1, <1>3, FlattenConcat
  <1>7. \A t : ss = t => FlattenSeq(ss) = FlattenSeq(t)
    OBVIOUS
  <1> QED BY <1>4, <1>5, <1>6, <1>7

-----------------------------------------------------------------------------
(* Texts: the sequences that elements are written as *)

\* The texts of the elements of a sequence.
TextSeq(F, q) == [i \in DOMAIN q |-> F[q[i]]]

\* The same, put one after the other.
Texts(F, q) == FlattenSeq(TextSeq(F, q))

\* F gives the text of every element; the lemmas have their hypotheses by this
\* name, by which the provers find what they are about.
HasTexts(S, A, F, q) == F \in [A -> Seq(S)] /\ q \in Seq(A)

LEMMA TextsType ==
    ASSUME NEW S, NEW A, NEW F, NEW q, HasTexts(S, A, F, q)
    PROVE  /\ TextSeq(F, q) \in Seq(Seq(S)) /\ Len(TextSeq(F, q)) = Len(q)
           /\ \A i \in 1..Len(q) : TextSeq(F, q)[i] = F[q[i]]
           /\ Texts(F, q) \in Seq(S)
  <1>0. F \in [A -> Seq(S)] /\ q \in Seq(A)
    BY DEF HasTexts
  <1>1. Len(q) \in Nat /\ DOMAIN q = 1..Len(q) /\ \A i \in 1..Len(q) : q[i] \in A
    BY <1>0, LenProperties
  <1>3. TextSeq(F, q) \in [1..Len(q) -> Seq(S)]
    BY <1>0, <1>1 DEF TextSeq
  <1>4. TextSeq(F, q) \in Seq(Seq(S)) /\ Len(TextSeq(F, q)) = Len(q)
    BY <1>1, <1>3, SeqDef
  <1>5. \A i \in 1..Len(q) : TextSeq(F, q)[i] = F[q[i]]
    BY <1>1 DEF TextSeq
  <1>7. FlattenSeq(TextSeq(F, q)) \in Seq(S)
    BY <1>4, FlattenConcat
  <1> QED BY <1>4, <1>5, <1>7 DEF Texts

\* Of nothing there is no text.
LEMMA TextsOfNone ==
    ASSUME NEW F
    PROVE  Texts(F, <<>>) = <<>>
  <1>1. TextSeq(F, <<>>) = <<>>
    BY DEF TextSeq
  <1>2. <<>> \in Seq(Nat)
    BY EmptySeq
  <1> QED BY <1>1, <1>2, FlattenOne DEF Texts

\* The text of an element more comes last.
LEMMA TextsAppend ==
    ASSUME NEW S, NEW A, NEW F, NEW q, HasTexts(S, A, F, q), NEW x \in A
    PROVE  Texts(F, Append(q, x)) = Texts(F, q) \o F[x]
  <1> DEFINE n == Append(q, x)
             s == TextSeq(F, q)
             t == TextSeq(F, n)
             u == Append(s, F[x])
  <1>0. F \in [A -> Seq(S)] /\ q \in Seq(A)
    BY DEF HasTexts
  <1>1. /\ n \in Seq(A) /\ Len(n) = Len(q) + 1 /\ Len(q) \in Nat
        /\ \A i \in 1..Len(q) : n[i] = q[i]
        /\ n[Len(q) + 1] = x
    BY <1>0, AppendProperties, LenProperties
  <1>2. F[x] \in Seq(S)
    BY <1>0
  <1>3. /\ s \in Seq(Seq(S)) /\ Len(s) = Len(q)
        /\ \A i \in 1..Len(q) : s[i] = F[q[i]]
    BY TextsType
  <1> HIDE DEF n
  <1>4. /\ t \in Seq(Seq(S)) /\ Len(t) = Len(n)
        /\ \A i \in 1..Len(n) : t[i] = F[n[i]]
    <2>1. HasTexts(S, A, F, n)
      BY <1>0, <1>1 DEF HasTexts
    <2> QED BY <2>1, TextsType
  <1> HIDE DEF s, t
  <1>5. /\ u \in Seq(Seq(S)) /\ Len(u) = Len(s) + 1
        /\ \A i \in 1..Len(s) : u[i] = s[i]
        /\ u[Len(s) + 1] = F[x]
    BY <1>2, <1>3, AppendProperties
  <1>6. FlattenSeq(u) = FlattenSeq(s) \o F[x]
    BY <1>2, <1>3, FlattenAppend
  <1> HIDE DEF u
  <1>7. ASSUME NEW i \in 1..Len(t) PROVE t[i] = u[i]
    <2>1. CASE i = Len(q) + 1
      BY <1>1, <1>3, <1>4, <1>5, <2>1
    <2>2. CASE i # Len(q) + 1
      <3>1. i \in 1..Len(q) /\ i \in 1..Len(n)
        BY <1>1, <1>4, <2>2
      <3> QED BY <1>1, <1>3, <1>4, <1>5, <3>1
    <2> QED BY <2>1, <2>2
  <1>8. t = u
    BY <1>1, <1>3, <1>4, <1>5, <1>7, SeqEqual
  <1> QED BY <1>6, <1>8 DEF Texts, n, s, t

\* The text of the first element comes first.
LEMMA TextsHead ==
    ASSUME NEW S, NEW A, NEW F, NEW q, HasTexts(S, A, F, q), q # <<>>
    PROVE  Texts(F, q) = F[Head(q)] \o Texts(F, Tail(q))
  <1> DEFINE n == Tail(q)
             s == TextSeq(F, q)
             t == TextSeq(F, n)
  <1>0. F \in [A -> Seq(S)] /\ q \in Seq(A)
    BY DEF HasTexts
  <1>1. /\ Head(q) \in A /\ n \in Seq(A) /\ Len(n) = Len(q) - 1
        /\ \A i \in 1..Len(n) : n[i] = q[i + 1]
    BY <1>0, HeadTailProperties
  <1>2. Len(q) \in Nat \ {0} /\ Head(q) = q[1]
    BY <1>0, EmptySeq
  <1>3. /\ s \in Seq(Seq(S)) /\ Len(s) = Len(q)
        /\ \A i \in 1..Len(q) : s[i] = F[q[i]]
    BY TextsType
  <1> HIDE DEF n
  <1>4. /\ t \in Seq(Seq(S)) /\ Len(t) = Len(n)
        /\ \A i \in 1..Len(n) : t[i] = F[n[i]]
    <2>1. HasTexts(S, A, F, n)
      BY <1>0, <1>1 DEF HasTexts
    <2> QED BY <2>1, TextsType
  <1> HIDE DEF s, t
  <1>5. s # <<>>
    BY <1>2, <1>3
  <1>6. /\ Head(s) = s[1] /\ Tail(s) \in Seq(Seq(S)) /\ Len(Tail(s)) = Len(s) - 1
        /\ \A i \in 1..Len(Tail(s)) : Tail(s)[i] = s[i + 1]
    BY <1>2, <1>3, <1>5, HeadTailProperties
  <1>7. Head(s) = F[Head(q)]
    BY <1>2, <1>3, <1>6
  <1>8. Tail(s) = t
    <2> DEFINE u == Tail(s)
    <2>1. u \in Seq(Seq(S)) /\ Len(u) = Len(t) /\ \A i \in 1..Len(u) : u[i] = s[i + 1]
      BY <1>1, <1>3, <1>4, <1>6
    <2> HIDE DEF u
    <2>2. ASSUME NEW i \in 1..Len(u) PROVE u[i] = t[i]
      <3>1. i \in 1..Len(n) /\ i + 1 \in 1..Len(q)
        BY <1>1, <1>2, <1>4, <2>1
      <3> QED BY <1>1, <1>3, <1>4, <2>1, <3>1
    <2>3. u = t
      BY <1>4, <2>1, <2>2, SeqEqual
    <2> QED BY <2>3 DEF u
  <1>9. FlattenSeq(s) = Head(s) \o FlattenSeq(Tail(s))
    BY <1>3, <1>5, FlattenHead
  <1> QED BY <1>7, <1>8, <1>9 DEF Texts, n, s, t

-----------------------------------------------------------------------------
(* Cutting a sequence *)

\* The first w elements and the others.
LEMMA CutSeq ==
    ASSUME NEW S, NEW s \in Seq(S), NEW w \in 0..Len(s)
    PROVE  /\ SubSeq(s, 1, w) \in Seq(S)
           /\ Len(SubSeq(s, 1, w)) = w
           /\ \A i \in 1..w : SubSeq(s, 1, w)[i] = s[i]
           /\ SubSeq(s, w + 1, Len(s)) \in Seq(S)
           /\ Len(SubSeq(s, w + 1, Len(s))) = Len(s) - w
           /\ \A i \in 1..Len(s) - w : SubSeq(s, w + 1, Len(s))[i] = s[w + i]
           /\ SubSeq(s, 1, w) \o SubSeq(s, w + 1, Len(s)) = s
  <1>1. Len(s) \in Nat /\ w \in Int /\ w <= Len(s) /\ \A i \in 1..Len(s) : s[i] \in S
    BY LenProperties
  <1>2. /\ SubSeq(s, 1, w) \in Seq(S) /\ Len(SubSeq(s, 1, w)) = w
        /\ \A i \in 1..w : SubSeq(s, 1, w)[i] = s[i]
    BY <1>1, FirstOf
  <1>3. /\ SubSeq(s, w + 1, Len(s)) \in Seq(S)
        /\ Len(SubSeq(s, w + 1, Len(s))) = Len(s) - w
        /\ \A i \in 1..Len(s) - w : SubSeq(s, w + 1, Len(s))[i] = s[w + i]
    <2>1. w + 1 \in Int /\ Len(s) \in Int /\ \A i \in w + 1..Len(s) : s[i] \in S
      BY <1>1
    <2>2. /\ SubSeq(s, w + 1, Len(s)) \in Seq(S)
          /\ Len(SubSeq(s, w + 1, Len(s)))
               = IF w + 1 <= Len(s) THEN Len(s) - (w + 1) + 1 ELSE 0
          /\ \A i \in 1..Len(s) - (w + 1) + 1 :
               SubSeq(s, w + 1, Len(s))[i] = s[w + 1 + i - 1]
      BY <2>1, SubSeqProperties
    <2>3. Len(s) - (w + 1) + 1 = Len(s) - w /\ \A i \in Int : w + 1 + i - 1 = w + i
      BY <1>1
    <2>4. w + 1 <= Len(s) \/ (~(w + 1 <= Len(s)) /\ Len(s) - w = 0)
      BY <1>1
    <2> DEFINE t == SubSeq(s, w + 1, Len(s))
    <2> HIDE DEF t
    <2>5. Len(t) = Len(s) - w
      BY <2>2, <2>3, <2>4 DEF t
    <2>6. \A i \in 1..Len(s) - w : t[i] = s[w + i]
      <3> SUFFICES ASSUME NEW i \in 1..Len(s) - w PROVE t[i] = s[w + i]
        OBVIOUS
      <3>1. i \in Int /\ i \in 1..Len(s) - (w + 1) + 1
        BY <1>1
      <3>2. t[i] = s[w + 1 + i - 1]
        BY <2>2, <3>1 DEF t
      <3> QED BY <2>3, <3>1, <3>2
    <2> QED BY <2>2, <2>5, <2>6 DEF t
  <1>4. SubSeq(s, 1, w) \o SubSeq(s, w + 1, Len(s)) = SubSeq(s, 1, Len(s))
    <2>1. 1 \in 1..Len(s) + 1 /\ w \in 1 - 1..Len(s) /\ Len(s) \in w..Len(s)
      BY <1>1
    <2> QED BY <2>1, ConcatAdjacentSubSeq
  <1> QED BY <1>2, <1>3, <1>4, SubSeqFull

\* A piece of what is left of a sequence is a piece of the sequence.
LEMMA SubSeqOfRest ==
    ASSUME NEW S, NEW s \in Seq(S), NEW w \in 0..Len(s),
           NEW i \in Nat \ {0}, NEW j \in Nat, i <= j + 1, j <= Len(s) - w
    PROVE  SubSeq(SubSeq(s, w + 1, Len(s)), i, j) = SubSeq(s, w + i, w + j)
  <1> DEFINE t == SubSeq(s, w + 1, Len(s))
             a == SubSeq(t, i, j)
             b == SubSeq(s, w + i, w + j)
  <1>1. Len(s) \in Nat /\ w \in Nat /\ w <= Len(s) /\ \A k \in 1..Len(s) : s[k] \in S
    BY LenProperties
  <1>2. t \in Seq(S) /\ Len(t) = Len(s) - w /\ \A k \in 1..Len(s) - w : t[k] = s[w + k]
    BY CutSeq
  <1> HIDE DEF t
  <1>3. \A k \in i..j : t[k] \in S /\ t[k] = s[w + k]
    BY <1>1, <1>2
  <1>4. /\ a \in Seq(S) /\ Len(a) = IF i <= j THEN j - i + 1 ELSE 0
        /\ \A k \in 1..j - i + 1 : a[k] = t[i + k - 1]
    BY <1>3, SubSeqProperties
  <1>5. /\ b \in Seq(S)
        /\ Len(b) = IF w + i <= w + j THEN w + j - (w + i) + 1 ELSE 0
        /\ \A k \in 1..w + j - (w + i) + 1 : b[k] = s[w + i + k - 1]
    <2>1. \A k \in w + i..w + j : s[k] \in S
      BY <1>1
    <2>2. w + i \in Int /\ w + j \in Int
      BY <1>1
    <2> QED BY <2>1, <2>2, SubSeqProperties
  <1> HIDE DEF a, b
  <1>6. w + j - (w + i) + 1 = j - i + 1 /\ (w + i <= w + j <=> i <= j)
    BY <1>1
  <1>7. Len(a) = Len(b)
    BY <1>4, <1>5, <1>6
  <1>8. ASSUME NEW k \in 1..Len(a) PROVE a[k] = b[k]
    <2>1. k \in 1..j - i + 1 /\ i + k - 1 \in i..j /\ w + (i + k - 1) = w + i + k - 1
      BY <1>1, <1>4
    <2> QED BY <1>3, <1>4, <1>5, <1>6, <2>1
  <1>9. a = b
    BY <1>4, <1>5, <1>7, <1>8, SeqEqual
  <1> QED BY <1>9 DEF a, b, t

\* Three sequences put together in two ways.
Three(S, a, b, c) == a \in Seq(S) /\ b \in Seq(S) /\ c \in Seq(S)

LEMMA Regrouped ==
    ASSUME NEW S, NEW a, NEW b, NEW c, Three(S, a, b, c)
    PROVE  (a \o b) \o c = a \o (b \o c)
  <1>1. a \in Seq(S) /\ b \in Seq(S) /\ c \in Seq(S)
    BY DEF Three
  <1> QED BY ONLY <1>1, ConcatAssociative

\* What a sequence holds after its first w elements.
RestOf(s, w) == SubSeq(s, w + 1, Len(s))

HasRest(S, s, w) == s \in Seq(S) /\ w \in 0..Len(s)

LEMMA RestOfType ==
    ASSUME NEW S, NEW s, NEW w, HasRest(S, s, w)
    PROVE  /\ RestOf(s, w) \in Seq(S) /\ Len(RestOf(s, w)) = Len(s) - w
           /\ \A i \in 1..Len(s) - w : RestOf(s, w)[i] = s[w + i]
  <1>1. s \in Seq(S) /\ w \in 0..Len(s)
    BY DEF HasRest
  <1> QED BY <1>1, CutSeq DEF RestOf

\* Nothing is left of a sequence used up, all of one not begun.
LEMMA RestOfNone ==
    ASSUME NEW S, NEW s \in Seq(S)
    PROVE  RestOf(s, Len(s)) = <<>> /\ RestOf(s, 0) = s
  <1>1. Len(s) \in Nat
    BY LenProperties
  <1>2. SubSeq(s, Len(s) + 1, Len(s)) = <<>>
    BY <1>1, SubSeqEmpty
  <1>3. SubSeq(s, 1, Len(s)) = s /\ 0 + 1 = 1
    BY SubSeqFull
  <1> QED BY <1>2, <1>3 DEF RestOf

\* What is added to a sequence is added to what is left of it.
LEMMA RestOfConcat ==
    ASSUME NEW S, NEW s, NEW w, HasRest(S, s, w), NEW t \in Seq(S)
    PROVE  HasRest(S, s \o t, w) /\ RestOf(s \o t, w) = RestOf(s, w) \o t
  <1> DEFINE c == s \o t
             a == RestOf(c, w)
             b == RestOf(s, w)
             d == b \o t
  <1>1. s \in Seq(S) /\ w \in 0..Len(s) /\ Len(s) \in Nat /\ Len(t) \in Nat
    BY LenProperties DEF HasRest
  <1>2. /\ c \in Seq(S) /\ Len(c) = Len(s) + Len(t)
        /\ \A i \in 1..Len(s) + Len(t) : c[i] = IF i <= Len(s) THEN s[i] ELSE t[i - Len(s)]
    BY <1>1, ConcatProperties
  <1> HIDE DEF c
  <1>3. HasRest(S, c, w)
    BY <1>1, <1>2 DEF HasRest
  <1>4. /\ a \in Seq(S) /\ Len(a) = Len(c) - w /\ \A i \in 1..Len(c) - w : a[i] = c[w + i]
    BY <1>3, RestOfType
  <1>5. /\ b \in Seq(S) /\ Len(b) = Len(s) - w /\ \A i \in 1..Len(s) - w : b[i] = s[w + i]
    BY RestOfType
  <1> HIDE DEF a, b
  <1>6. /\ d \in Seq(S) /\ Len(d) = Len(b) + Len(t)
        /\ \A i \in 1..Len(b) + Len(t) : d[i] = IF i <= Len(b) THEN b[i] ELSE t[i - Len(b)]
    BY <1>5, ConcatProperties
  <1> HIDE DEF d
  <1>7. ASSUME NEW i \in 1..Len(a) PROVE a[i] = d[i]
    <2>1. /\ w + i \in 1..Len(s) + Len(t) /\ i \in 1..Len(c) - w /\ i \in 1..Len(b) + Len(t)
          /\ (w + i) - Len(s) = i - Len(b) /\ (w + i <= Len(s) <=> i <= Len(b))
      BY <1>1, <1>2, <1>4, <1>5
    <2>2. a[i] = c[w + i]
      BY <1>4, <2>1
    <2>3. CASE i <= Len(b)
      <3>1. w + i <= Len(s) /\ i \in 1..Len(s) - w
        BY <1>1, <1>5, <2>1, <2>3
      <3>2. c[w + i] = s[w + i] /\ d[i] = b[i] /\ b[i] = s[w + i]
        BY <1>2, <1>5, <1>6, <2>1, <2>3, <3>1
      <3> QED BY <2>2, <3>2
    <2>4. CASE ~(i <= Len(b))
      <3>1. ~(w + i <= Len(s))
        BY <2>1, <2>4
      <3>2. c[w + i] = t[(w + i) - Len(s)]
        <4> DEFINE j == w + i
        <4>1. j \in 1..Len(s) + Len(t) /\ ~(j <= Len(s))
          BY <2>1, <3>1
        <4> HIDE DEF j
        <4>2. c[j] = t[j - Len(s)]
          BY <1>2, <4>1
        <4> QED BY <4>2 DEF j
      <3>3. d[i] = t[i - Len(b)]
        BY <1>6, <2>1, <2>4
      <3> QED BY <2>1, <2>2, <3>2, <3>3
    <2> QED BY <2>3, <2>4
  <1>8. Len(a) = Len(d)
    BY <1>1, <1>2, <1>4, <1>5, <1>6
  <1>9. a = d
    BY <1>4, <1>6, <1>7, <1>8, SeqEqual
  <1> QED BY <1>3, <1>9 DEF a, b, c, d

\* The next elements of what is left, and what is left then.
LEMMA RestOfCut ==
    ASSUME NEW S, NEW s, NEW w, HasRest(S, s, w), NEW v \in w..Len(s)
    PROVE  /\ HasRest(S, s, v)
           /\ SubSeq(s, w + 1, v) \in Seq(S) /\ Len(SubSeq(s, w + 1, v)) = v - w
           /\ \A i \in 1..v - w : SubSeq(s, w + 1, v)[i] = s[w + i]
           /\ RestOf(s, w) = SubSeq(s, w + 1, v) \o RestOf(s, v)
  <1>1. s \in Seq(S) /\ w \in 0..Len(s) /\ Len(s) \in Nat /\ \A i \in 1..Len(s) : s[i] \in S
    BY LenProperties DEF HasRest
  <1>2. HasRest(S, s, v)
    BY <1>1 DEF HasRest
  <1>3. SubSeq(s, w + 1, v) \o SubSeq(s, v + 1, Len(s)) = SubSeq(s, w + 1, Len(s))
    <2> DEFINE m == w + 1
    <2>1. m \in 1..Len(s) + 1 /\ v \in m - 1..Len(s) /\ Len(s) \in v..Len(s)
      BY <1>1
    <2> HIDE DEF m
    <2>2. SubSeq(s, m, v) \o SubSeq(s, v + 1, Len(s)) = SubSeq(s, m, Len(s))
      BY <1>1, <2>1, ConcatAdjacentSubSeq
    <2> QED BY <2>2 DEF m
  <1>4. /\ SubSeq(s, w + 1, v) \in Seq(S) /\ Len(SubSeq(s, w + 1, v)) = v - w
        /\ \A i \in 1..v - w : SubSeq(s, w + 1, v)[i] = s[w + i]
    <2> DEFINE m == w + 1
    <2>1. m \in Int /\ v \in Int /\ \A i \in m..v : s[i] \in S
      BY <1>1
    <2>2. /\ v - m + 1 = v - w /\ (m <= v \/ (~(m <= v) /\ v - w = 0))
          /\ \A i \in 1..v - w : m + i - 1 = w + i
      BY <1>1
    <2> HIDE DEF m
    <2>3. /\ SubSeq(s, m, v) \in Seq(S)
          /\ Len(SubSeq(s, m, v)) = IF m <= v THEN v - m + 1 ELSE 0
          /\ \A i \in 1..v - m + 1 : SubSeq(s, m, v)[i] = s[m + i - 1]
      BY <2>1, SubSeqProperties
    <2>4. Len(SubSeq(s, m, v)) = v - w
      BY <2>2, <2>3
    <2>5. \A i \in 1..v - w : SubSeq(s, m, v)[i] = s[w + i]
      BY <2>2, <2>3
    <2> QED BY <2>3, <2>4, <2>5 DEF m
  <1> QED BY <1>2, <1>3, <1>4 DEF RestOf

\* One sequence cut twice after as many elements.
SameCut(S, a, c, f, x) ==
    /\ a \in Seq(S) /\ c \in Seq(S) /\ f \in Seq(S) /\ x \in Seq(S)
    /\ a \o c = f \o x /\ Len(a) = Len(f)

LEMMA SameParts ==
    ASSUME NEW S, NEW a, NEW c, NEW f, NEW x, SameCut(S, a, c, f, x)
    PROVE  a = f /\ c = x
  <1>0. /\ a \in Seq(S) /\ c \in Seq(S) /\ f \in Seq(S) /\ x \in Seq(S)
        /\ a \o c = f \o x /\ Len(a) = Len(f)
    BY DEF SameCut
  <1>1. Len(a) \in Nat /\ Len(c) \in Nat /\ Len(x) \in Nat
    BY <1>0, LenProperties
  <1>2. \A i \in 1..Len(a) + Len(c) : (a \o c)[i] = IF i <= Len(a) THEN a[i] ELSE c[i - Len(a)]
    BY <1>0, ConcatProperties
  <1>3. \A i \in 1..Len(f) + Len(x) : (f \o x)[i] = IF i <= Len(f) THEN f[i] ELSE x[i - Len(f)]
    BY <1>0, ConcatProperties
  <1>4. ASSUME NEW i \in 1..Len(a) PROVE a[i] = f[i]
    <2>1. i \in 1..Len(a) + Len(c) /\ i \in 1..Len(f) + Len(x) /\ i <= Len(a) /\ i <= Len(f)
      BY <1>0, <1>1
    <2> QED BY <1>0, <1>2, <1>3, <2>1
  <1>5. a = f
    BY <1>0, <1>4, SeqEqual
  <1>6. f \o c = f \o x
    BY <1>0, <1>5
  <1> QED BY <1>0, <1>5, <1>6, ConcatSimplifications


\* z and y differ by their last sequence, which is longer by l in y.
LastGrows(S, z, y, l) ==
    /\ z \in Seq(Seq(S)) /\ y \in Seq(Seq(S)) /\ l \in Seq(S)
    /\ Len(z) = Len(y) /\ Len(z) # 0
    /\ \A i \in 1..Len(z) : y[i] = IF i = Len(z) THEN z[i] \o l ELSE z[i]

LEMMA FlattenLast ==
    ASSUME NEW S, NEW z, NEW y, NEW l, LastGrows(S, z, y, l)
    PROVE  FlattenSeq(y) = FlattenSeq(z) \o l
  <1>0. /\ z \in Seq(Seq(S)) /\ y \in Seq(Seq(S)) /\ l \in Seq(S)
        /\ Len(z) = Len(y) /\ Len(z) # 0
        /\ \A i \in 1..Len(z) : y[i] = IF i = Len(z) THEN z[i] \o l ELSE z[i]
    BY DEF LastGrows
  <1> DEFINE n == Len(z)
             f == SubSeq(z, 1, n - 1)
             a == z[n]
             u == Append(f, a)
             v == Append(f, a \o l)
  <1>1. n \in Nat /\ n - 1 \in Nat /\ n \in 1..n /\ n - 1 <= Len(z)
    BY <1>0, LenProperties
  <1>2. f \in Seq(Seq(S)) /\ Len(f) = n - 1 /\ \A i \in 1..n - 1 : f[i] = z[i]
    <2> DEFINE k == n - 1
    <2>1. k \in Nat /\ k <= Len(z)
      BY <1>1
    <2> HIDE DEF k
    <2>2. /\ SubSeq(z, 1, k) \in Seq(Seq(S)) /\ Len(SubSeq(z, 1, k)) = k
          /\ \A i \in 1..k : SubSeq(z, 1, k)[i] = z[i]
      BY <1>0, <2>1, FirstOf
    <2> QED BY <2>2 DEF k
  <1> HIDE DEF f
  <1>3. a \in Seq(S) /\ a \o l \in Seq(S)
    <2>1. a \in Seq(S)
      BY <1>0, <1>1, ElementOfSeq
    <2> QED BY <1>0, <2>1, ConcatProperties
  <1>4. y[n] = a \o l /\ \A i \in 1..n - 1 : y[i] = z[i]
    <2>1. \A i \in 1..n - 1 : i \in 1..n /\ i # n
      BY <1>1
    <2> QED BY <1>0, <1>1, <2>1
  <1> HIDE DEF a
  <1>5. u \in Seq(Seq(S)) /\ Len(u) = n /\ u[n] = a /\ \A i \in 1..n - 1 : u[i] = z[i]
    <2>1. /\ u \in Seq(Seq(S)) /\ Len(u) = Len(f) + 1 /\ u[Len(f) + 1] = a
          /\ \A i \in 1..Len(f) : u[i] = f[i]
      BY <1>2, <1>3, AppendProperties
    <2>2. Len(f) + 1 = n
      BY <1>1, <1>2
    <2> HIDE DEF u, n
    <2> QED BY <1>2, <2>1, <2>2
  <1>6. v \in Seq(Seq(S)) /\ Len(v) = n /\ v[n] = a \o l /\ \A i \in 1..n - 1 : v[i] = z[i]
    <2>1. /\ v \in Seq(Seq(S)) /\ Len(v) = Len(f) + 1 /\ v[Len(f) + 1] = a \o l
          /\ \A i \in 1..Len(f) : v[i] = f[i]
      BY <1>2, <1>3, AppendProperties
    <2>2. Len(f) + 1 = n
      BY <1>1, <1>2
    <2> HIDE DEF v, n
    <2> QED BY <1>2, <2>1, <2>2
  <1>7. FlattenSeq(u) = FlattenSeq(f) \o a
    BY <1>2, <1>3, FlattenAppend
  <1>8. FlattenSeq(v) = FlattenSeq(f) \o (a \o l)
    BY <1>2, <1>3, FlattenAppend
  <1> HIDE DEF u, v
  <1>9. z = u
    <2>1. \A i \in 1..Len(z) : i = n \/ i \in 1..n - 1
      BY <1>1
    <2>2. \A i \in 1..Len(z) : z[i] = u[i]
      BY <1>5, <2>1 DEF a
    <2>3. Len(z) = Len(u)
      BY <1>5
    <2> QED BY <1>0, <1>5, <2>2, <2>3, SeqEqual
  <1>10. y = v
    <2>1. \A i \in 1..Len(y) : i = n \/ i \in 1..n - 1
      BY <1>0, <1>1
    <2>2. \A i \in 1..Len(y) : y[i] = v[i]
      BY <1>4, <1>6, <2>1
    <2>3. Len(y) = Len(v)
      BY <1>0, <1>6
    <2> QED BY <1>0, <1>6, <2>2, <2>3, SeqEqual
  <1>11. (FlattenSeq(f) \o a) \o l = FlattenSeq(f) \o (a \o l)
    <2>1. FlattenSeq(f) \in Seq(S)
      BY <1>2, FlattenConcat
    <2>2. Three(S, FlattenSeq(f), a, l)
      BY <1>0, <1>3, <2>1 DEF Three
    <2> QED BY <2>2, Regrouped
  <1> QED BY <1>7, <1>8, <1>9, <1>10, <1>11

\* z and y differ by their first sequence, which begins with l in z.
FirstShrinks(S, z, y, l) ==
    /\ z \in Seq(Seq(S)) /\ y \in Seq(Seq(S)) /\ l \in Seq(S)
    /\ Len(z) = Len(y) /\ Len(z) # 0
    /\ \A i \in 1..Len(z) : z[i] = IF i = 1 THEN l \o y[i] ELSE y[i]

LEMMA FlattenFirst ==
    ASSUME NEW S, NEW z, NEW y, NEW l, FirstShrinks(S, z, y, l)
    PROVE  FlattenSeq(z) = l \o FlattenSeq(y)
  <1>0. /\ z \in Seq(Seq(S)) /\ y \in Seq(Seq(S)) /\ l \in Seq(S)
        /\ Len(z) = Len(y) /\ Len(z) # 0
        /\ \A i \in 1..Len(z) : z[i] = IF i = 1 THEN l \o y[i] ELSE y[i]
    BY DEF FirstShrinks
  <1> DEFINE n == Len(z)
             t == Tail(z)
             b == Tail(y)
  <1>1. n \in Nat /\ n # 0 /\ 1 \in 1..n /\ z # <<>> /\ y # <<>>
    BY <1>0, LenProperties, EmptySeq
  <1>2. /\ Head(z) = z[1] /\ t \in Seq(Seq(S)) /\ Len(t) = n - 1
        /\ \A i \in 1..Len(t) : t[i] = z[i + 1]
    BY <1>0, <1>1, HeadTailProperties
  <1>3. /\ Head(y) = y[1] /\ b \in Seq(Seq(S)) /\ Len(b) = Len(y) - 1
        /\ \A i \in 1..Len(b) : b[i] = y[i + 1]
    BY <1>0, <1>1, HeadTailProperties
  <1>4. FlattenSeq(z) = Head(z) \o FlattenSeq(t)
    BY <1>0, <1>1, FlattenHead
  <1>5. FlattenSeq(y) = Head(y) \o FlattenSeq(b)
    BY <1>0, <1>1, FlattenHead
  <1> HIDE DEF t, b
  <1>6. t = b
    <2>1. Len(t) = Len(b)
      BY <1>0, <1>2, <1>3
    <2>2. ASSUME NEW i \in 1..Len(t) PROVE t[i] = b[i]
      <3>1. i + 1 \in 1..n /\ i + 1 # 1 /\ i \in 1..Len(b)
        BY <1>1, <1>2, <2>1
      <3>2. z[i + 1] = y[i + 1]
        BY <1>0, <3>1
      <3> QED BY <1>2, <1>3, <3>1, <3>2
    <2> QED BY <1>2, <1>3, <2>1, <2>2, SeqEqual
  <1>7. z[1] = l \o y[1]
    BY <1>0, <1>1
  <1>8. (l \o y[1]) \o FlattenSeq(b) = l \o (y[1] \o FlattenSeq(b))
    <2>1. FlattenSeq(b) \in Seq(S)
      BY <1>3, FlattenConcat
    <2>2. y[1] \in Seq(S)
      <3>1. 1 \in 1..Len(y)
        BY <1>0, <1>1
      <3> QED BY <1>0, <3>1, ElementOfSeq
    <2> DEFINE c == y[1]
               d == FlattenSeq(b)
    <2>3. Three(S, l, c, d)
      BY <1>0, <2>1, <2>2 DEF Three
    <2> HIDE DEF c, d
    <2>4. (l \o c) \o d = l \o (c \o d)
      BY <2>3, Regrouped
    <2> QED BY <2>4 DEF c, d
  <1> QED BY <1>2, <1>3, <1>4, <1>5, <1>6, <1>7, <1>8


-----------------------------------------------------------------------------
(* Remainders *)

\* n times more is n more.
LEMMA Times ==
    ASSUME NEW n \in Nat \ {0}, NEW a \in Nat, NEW b \in Nat, a < b
    PROVE  n * a + n <= n * b
  <1> DEFINE d == b - (a + 1)
  <1>1. d \in Nat /\ b = a + 1 + d
    OBVIOUS
  <1> HIDE DEF d
  <1>2. n * b = n * a + n + n * d
    BY <1>1
  <1>3. n * d \in Nat /\ n * a \in Nat
    BY <1>1
  <1> QED BY <1>2, <1>3

\* A number has one remainder.
LEMMA ModUnique ==
    ASSUME NEW n \in Nat \ {0}, NEW a \in Nat, NEW r \in 0..n - 1
    PROVE  (n * a + r) % n = r
  <1> DEFINE y == n * a + r
             b == y \div n
             s == y % n
  <1>1. n * a \in Nat /\ y \in Nat /\ b \in Nat /\ s \in 0..n - 1
    <2>1. n * a \in Nat
      OBVIOUS
    <2>2. y \in Nat
      BY <2>1
    <2> HIDE DEF y
    <2> QED BY <2>1, <2>2
  <1>2. s = y - n * b
    <2> HIDE DEF y
    <2> QED BY <1>1
  <1>3. y = n * a + r
    OBVIOUS
  <1> HIDE DEF y, b, s
  <1>4. n * b \in Nat
    BY <1>1
  <1>5. ~ (a < b)
    <2> SUFFICES ASSUME a < b PROVE FALSE
      OBVIOUS
    <2>1. n * a + n <= n * b
      BY <1>1, Times
    <2> QED BY <1>1, <1>2, <1>3, <1>4, <2>1
  <1>6. ~ (b < a)
    <2> SUFFICES ASSUME b < a PROVE FALSE
      OBVIOUS
    <2>1. n * b + n <= n * a
      BY <1>1, Times
    <2> QED BY <1>1, <1>2, <1>3, <1>4, <2>1
  <1>7. a = b
    BY <1>1, <1>5, <1>6
  <1>8. s = r
    BY <1>1, <1>2, <1>3, <1>7
  <1> QED BY <1>8 DEF s, y

\* The remainder of one more, and of the divisor more.
LEMMA ModSteps ==
    ASSUME NEW n \in Nat \ {0}, NEW y \in Nat
    PROVE  /\ y % n \in 0..n - 1
           /\ (y + 1) % n = IF y % n = n - 1 THEN 0 ELSE (y % n) + 1
           /\ (y + n) % n = y % n
  <1> DEFINE a == y \div n
             r == y % n
  <1>1. a \in Nat /\ r \in 0..n - 1 /\ r = y - n * a
    OBVIOUS
  <1> HIDE DEF a, r
  <1>2. n * a \in Nat /\ y = n * a + r
    BY <1>1
  <1>3. (y + n) % n = r
    <2>1. a + 1 \in Nat /\ n * (a + 1) = n * a + n
      BY <1>1
    <2>2. y + n = n * (a + 1) + r
      BY <1>1, <1>2, <2>1
    <2>3. (n * (a + 1) + r) % n = r
      BY <1>1, <2>1, ModUnique
    <2> QED BY <2>2, <2>3
  <1>4. CASE r = n - 1
    <2>1. a + 1 \in Nat /\ n * (a + 1) = n * a + n /\ 0 \in 0..n - 1
      BY <1>1
    <2>2. y + 1 = n * (a + 1) + 0
      BY <1>1, <1>2, <1>4, <2>1
    <2>3. (n * (a + 1) + 0) % n = 0
      BY <2>1, ModUnique
    <2>4. (y + 1) % n = 0
      BY <2>2, <2>3
    <2> QED BY <1>1, <1>3, <1>4, <2>4 DEF r
  <1>5. CASE r # n - 1
    <2>1. r + 1 \in 0..n - 1
      BY <1>1, <1>5
    <2>2. y + 1 = n * a + (r + 1)
      BY <1>1, <1>2
    <2>3. (n * a + (r + 1)) % n = r + 1
      BY <1>1, <2>1, ModUnique
    <2>4. (y + 1) % n = r + 1
      BY <2>2, <2>3
    <2> QED BY <1>1, <1>3, <1>5, <2>4 DEF r
  <1> QED BY <1>4, <1>5

\* The remainder of a number below twice the divisor: one turn of a ring.
LEMMA ModRing ==
    ASSUME NEW n \in Nat \ {0}, NEW y \in 0..2 * n - 1
    PROVE  y % n = IF y < n THEN y ELSE y - n
OBVIOUS

=============================================================================
