----------------------------- MODULE FifoProofs -----------------------------
(***************************************************************************)
(* The ring of Fifo.h implements a queue, for every initial size and every *)
(* number of times it doubles.  Each call is first read as "the length     *)
(* changes by one and the objects are those before, shifted or not", with  *)
(* the modulo gone; the queue's operations follow from that.               *)
(***************************************************************************)
EXTENDS Fifo, SequenceTheorems, TLAPS

\* The indices the ring computes exceed its size by less than one turn.
LEMMA ModLemma ==
    ASSUME NEW n \in Nat \ {0}, NEW x \in 0..2 * n - 1
    PROVE  x % n = IF x < n THEN x ELSE x - n
  <1>1. CASE x < n
    BY <1>1
  <1>2. CASE x >= n
    BY <1>2
  <1> QED BY <1>1, <1>2

\* A ring of n cells between o and i: its length, the place of its k-th cell,
\* and the next and previous places.
LEMMA RingLemma ==
    ASSUME NEW n \in Nat \ {0}, NEW i \in 0..n - 1, NEW o \in 0..n - 1
    PROVE  /\ (i + n - o) % n = IF i >= o THEN i - o ELSE i + n - o
           /\ \A k \in 0..n - 1 :
                (o + k) % n = IF o + k < n THEN o + k ELSE o + k - n
           /\ (i + 1) % n = IF i + 1 < n THEN i + 1 ELSE 0
           /\ (o + 1) % n = IF o + 1 < n THEN o + 1 ELSE 0
           /\ (o + n - 1) % n = IF o = 0 THEN n - 1 ELSE o - 1
  <1>1. ASSUME NEW k \in 0..n - 1
        PROVE  (o + k) % n = IF o + k < n THEN o + k ELSE o + k - n
    <2> DEFINE x == o + k
    <2>1. x \in 0..2 * n - 1
      OBVIOUS
    <2> HIDE DEF x
    <2>2. x % n = IF x < n THEN x ELSE x - n
      BY <2>1, ModLemma
    <2> QED BY <2>2 DEF x
  <1>2. (i + n - o) % n = IF i >= o THEN i - o ELSE i + n - o
    <2> DEFINE x == i + n - o
    <2>1. x \in 0..2 * n - 1
      OBVIOUS
    <2> HIDE DEF x
    <2>2. x % n = IF x < n THEN x ELSE x - n
      BY <2>1, ModLemma
    <2> QED BY <2>2 DEF x
  <1>3. (o + n - 1) % n = IF o = 0 THEN n - 1 ELSE o - 1
    <2> DEFINE x == o + n - 1
    <2>1. x \in 0..2 * n - 1
      OBVIOUS
    <2> HIDE DEF x
    <2>2. x % n = IF x < n THEN x ELSE x - n
      BY <2>1, ModLemma
    <2> QED BY <2>2 DEF x
  <1>4. (i + 1) % n = IF i + 1 < n THEN i + 1 ELSE 0
    <2> DEFINE x == i + 1
    <2>1. x \in 0..2 * n - 1
      OBVIOUS
    <2> HIDE DEF x
    <2>2. x % n = IF x < n THEN x ELSE x - n
      BY <2>1, ModLemma
    <2> QED BY <2>2 DEF x
  <1>5. (o + 1) % n = IF o + 1 < n THEN o + 1 ELSE 0
    <2> DEFINE x == o + 1
    <2>1. x \in 0..2 * n - 1
      OBVIOUS
    <2> HIDE DEF x
    <2>2. x % n = IF x < n THEN x ELSE x - n
      BY <2>1, ModLemma
    <2> QED BY <2>2 DEF x
  <1> QED BY <1>1, <1>2, <1>3, <1>4, <1>5

\* The same of this ring, before a step and after it.
Plain ==
    /\ getLength = IF in >= out THEN in - out ELSE in + size - out
    /\ getLength \in 0..size - 1
    /\ \A k \in 0..size - 1 :
         Cell(k) = tab[IF out + k < size THEN out + k ELSE out + k - size]

Bounds ==
    /\ size \in Nat \ {0}
    /\ in \in 0..size - 1 /\ out \in 0..size - 1

(* With the bounds, the ring's indices and size are plain naturals. *)
LEMMA PlainRing == Bounds => Plain
  <1> SUFFICES ASSUME Bounds PROVE Plain
    OBVIOUS
  <1>1. getLength = IF in >= out THEN in - out ELSE in + size - out
    BY RingLemma DEF Bounds, getLength
  <1>2. getLength \in 0..size - 1
    BY <1>1 DEF Bounds
  <1>3. \A k \in 0..size - 1 :
          Cell(k) = tab[IF out + k < size THEN out + k ELSE out + k - size]
    BY RingLemma DEF Bounds, Cell
  <1> QED BY <1>1, <1>2, <1>3 DEF Plain

(* The same of the next state: tlapm does not prime a cited lemma by itself. *)
LEMMA PlainRingNext == Bounds' => Plain'
  BY PlainRing, PTL

-----------------------------------------------------------------------------
(* What each call does to the objects *)

\* put adds x behind the others, whether or not the array grows.
LEMMA PutShifts ==
    ASSUME TypeOK, NEW x \in Items, PutInRing(x) \/ PutAndGrow(x)
    PROVE  /\ Bounds' /\ tab' \in [0..size' - 1 -> Items \cup {NoItem}]
           /\ getLength' = getLength + 1
           /\ \A k \in 0..getLength - 1 : Cell(k)' = Cell(k)
           /\ \A k \in {getLength} : Cell(k)' = x
  <1>1. /\ size \in Nat \ {0} /\ in \in 0..size - 1 /\ out \in 0..size - 1
        /\ tab \in [0..size - 1 -> Items \cup {NoItem}]
    BY DEF TypeOK
  <1>2. Bounds /\ Plain
    BY <1>1, PlainRing DEF Bounds
  <1>3. CASE PutInRing(x)
    <2>1. /\ in' = IF in + 1 < size THEN in + 1 ELSE 0
          /\ in' # out /\ out' = out /\ size' = size
          /\ tab' = [tab EXCEPT ![in] = x]
      BY <1>1, <1>3, RingLemma DEF PutInRing
    <2>2. Bounds' /\ tab' \in [0..size' - 1 -> Items \cup {NoItem}]
      BY <1>1, <2>1 DEF Bounds
    <2>3. \A j \in 0..size - 1 : tab'[j] = IF j = in THEN x ELSE tab[j]
      BY <1>1, <2>1
    <2>4. Plain'
      BY <2>2, PlainRingNext
    <2>5. getLength' = getLength + 1
      BY <1>1, <1>2, <2>1, <2>4 DEF Plain
    <2>6. ASSUME NEW k \in 0..getLength - 1 PROVE Cell(k)' = Cell(k)
      <3> DEFINE j == IF out + k < size THEN out + k ELSE out + k - size
      <3>1. k \in 0..size - 1 /\ j \in 0..size - 1 /\ j # in
        BY <1>1, <1>2 DEF Plain
      <3>2. Cell(k) = tab[j] /\ Cell(k)' = tab'[j]
        BY <1>2, <2>1, <2>4, <3>1 DEF Plain
      <3> QED BY <2>3, <3>1, <3>2
    <2>7. ASSUME NEW k \in {getLength} PROVE Cell(k)' = x
      <3> DEFINE j == IF out + k < size THEN out + k ELSE out + k - size
      <3>1. k \in 0..size - 1 /\ j = in
        BY <1>1, <1>2 DEF Plain
      <3>2. Cell(k)' = tab'[j]
        BY <1>2, <2>1, <2>4, <3>1 DEF Plain
      <3> QED BY <1>1, <2>3, <3>1, <3>2
    <2> QED BY <2>2, <2>5, <2>6, <2>7
  <1>4. CASE PutAndGrow(x)
    <2> DEFINE full == [tab EXCEPT ![in] = x]
    <2>1. /\ out = IF in + 1 < size THEN in + 1 ELSE 0
          /\ in' = out + size /\ size' = 2 * size /\ out' = out
          /\ tab' = [k \in 0..2 * size - 1 |->
                       IF k \in out..size - 1 THEN full[k]
                       ELSE IF k - size \in 0..out - 1 THEN full[k - size]
                       ELSE Junk]
      <3> DEFINE next == (in + 1) % size
      <3>1. next = IF in + 1 < size THEN in + 1 ELSE 0
        BY <1>1, RingLemma
      <3> HIDE DEF next
      <3>2. /\ next = out /\ in' = next + size /\ size' = 2 * size /\ out' = out
            /\ tab' = [k \in 0..2 * size - 1 |->
                         IF k \in out..size - 1 THEN full[k]
                         ELSE IF k - size \in 0..next - 1 THEN full[k - size]
                         ELSE Junk]
        BY <1>4 DEF PutAndGrow, next
      <3> HIDE DEF full
      <3> QED BY <3>1, <3>2
    <2>2. \A j \in 0..size - 1 : /\ full[j] = IF j = in THEN x ELSE tab[j]
                                 /\ full[j] \in Items \cup {NoItem}
      BY <1>1
    <2>3. /\ \A j \in 0..size - 1 : j >= out => tab'[j] = full[j]
          /\ \A j \in 0..size - 1 : j < out => tab'[j + size] = full[j]
      BY <1>1, <2>1
    <2>4. Bounds'
      BY <1>1, <2>1 DEF Bounds
    <2>5. tab' \in [0..size' - 1 -> Items \cup {NoItem}]
      <3>1. \A k \in 0..2 * size - 1 :
              /\ k \in out..size - 1 => k \in 0..size - 1
              /\ k - size \in 0..out - 1 => k - size \in 0..size - 1
        BY <1>1
      <3> HIDE DEF full
      <3> QED BY <1>1, <2>1, <2>2, <3>1 DEF Junk
    <2> HIDE DEF full
    <2>6. Plain'
      BY <2>4, PlainRingNext
    <2>7. getLength = size - 1 /\ getLength' = size
      BY <1>1, <1>2, <2>1, <2>6 DEF Plain
    <2>8. ASSUME NEW k \in 0..size - 1
          PROVE  Cell(k)' = full[IF out + k < size THEN out + k ELSE out + k - size]
      <3>1. k \in 0..size' - 1 /\ out + k < size'
        BY <1>1, <2>1
      <3>2. Cell(k)' = tab'[out + k]
        BY <2>1, <2>6, <3>1 DEF Plain
      <3>3. CASE out + k < size
        BY <1>1, <2>3, <3>2, <3>3
      <3>4. CASE out + k >= size
        <4>1. out + k - size \in 0..size - 1 /\ out + k - size < out
          BY <1>1, <3>4
        <4>2. out + k = (out + k - size) + size
          BY <1>1
        <4>3. tab'[out + k] = full[out + k - size]
          BY <2>3, <4>1, <4>2
        <4> QED BY <1>1, <3>2, <3>4, <4>3
      <3> QED BY <1>1, <3>3, <3>4
    <2>9. ASSUME NEW k \in 0..getLength - 1 PROVE Cell(k)' = Cell(k)
      <3> DEFINE j == IF out + k < size THEN out + k ELSE out + k - size
      <3>1. k \in 0..size - 1 /\ j \in 0..size - 1 /\ j # in
        BY <1>1, <2>1, <2>7
      <3>2. Cell(k) = tab[j] /\ Cell(k)' = full[j]
        BY <1>2, <2>8, <3>1 DEF Plain
      <3> QED BY <2>2, <3>1, <3>2
    <2>10. ASSUME NEW k \in {getLength} PROVE Cell(k)' = x
      <3> DEFINE j == IF out + k < size THEN out + k ELSE out + k - size
      <3>1. k \in 0..size - 1 /\ j = in
        BY <1>1, <2>1, <2>7
      <3>2. Cell(k)' = full[j]
        BY <2>8, <3>1
      <3> QED BY <1>1, <2>2, <3>1, <3>2
    <2> QED BY <1>1, <2>4, <2>5, <2>7, <2>9, <2>10
  <1> QED BY <1>3, <1>4

\* get takes the first object, and the others move up.
LEMMA GetShifts ==
    ASSUME TypeOK, Get
    PROVE  /\ Bounds' /\ tab' = tab /\ size' = size
           /\ getLength > 0 /\ getLength' = getLength - 1
           /\ got' = Cell(0)
           /\ \A k \in 0..getLength - 2 : Cell(k)' = Cell(k + 1)
  <1>1. size \in Nat \ {0} /\ in \in 0..size - 1 /\ out \in 0..size - 1
    BY DEF TypeOK
  <1>2. Bounds /\ Plain
    BY <1>1, PlainRing DEF Bounds
  <1>3. /\ out' = IF out + 1 < size THEN out + 1 ELSE 0
        /\ in' = in /\ size' = size /\ tab' = tab /\ in # out /\ got' = tab[out]
    BY <1>1, RingLemma DEF Get
  <1>4. Bounds'
    BY <1>1, <1>3 DEF Bounds
  <1>5. Plain'
    BY <1>4, PlainRingNext
  <1>6. getLength > 0 /\ getLength' = getLength - 1
    BY <1>1, <1>2, <1>3, <1>5 DEF Plain
  <1>7. got' = Cell(0)
    <2>1. Cell(0) = tab[out]
      BY <1>1, <1>2 DEF Plain
    <2> QED BY <1>3, <2>1
  <1>8. ASSUME NEW k \in 0..getLength - 2 PROVE Cell(k)' = Cell(k + 1)
    <2>1. k \in 0..size - 1 /\ k + 1 \in 0..size - 1
      BY <1>1, <1>2 DEF Plain
    <2>2. Cell(k)' = tab[IF out' + k < size THEN out' + k ELSE out' + k - size]
      BY <1>3, <1>5, <2>1 DEF Plain
    <2>3. Cell(k + 1) = tab[IF out + (k + 1) < size THEN out + (k + 1) ELSE out + (k + 1) - size]
      BY <1>2, <2>1 DEF Plain
    <2>4. (IF out' + k < size THEN out' + k ELSE out' + k - size)
            = (IF out + (k + 1) < size THEN out + (k + 1) ELSE out + (k + 1) - size)
      BY <1>1, <1>3, <2>1
    <2> QED BY <2>2, <2>3, <2>4
  <1> QED BY <1>3, <1>4, <1>6, <1>7, <1>8

\* rePut is get backwards.
LEMMA RePutShifts ==
    ASSUME TypeOK, RoomToRePut, RePut
    PROVE  /\ Bounds' /\ tab' \in [0..size' - 1 -> Items \cup {NoItem}]
           /\ got \in Items
           /\ getLength' = getLength + 1
           /\ \A k \in {0} : Cell(k)' = got
           /\ \A k \in 1..getLength : Cell(k)' = Cell(k - 1)
  <1>1. /\ size \in Nat \ {0} /\ in \in 0..size - 1 /\ out \in 0..size - 1
        /\ tab \in [0..size - 1 -> Items \cup {NoItem}]
    BY DEF TypeOK
  <1>2. Bounds /\ Plain
    BY <1>1, PlainRing DEF Bounds
  <1>3. /\ out' = IF out = 0 THEN size - 1 ELSE out - 1
        /\ in' = in /\ size' = size
        /\ tab' = [tab EXCEPT ![out'] = got]
        /\ got \in Items /\ getLength + 1 < size
    BY <1>1, RingLemma DEF RePut, RoomToRePut
  <1>4. Bounds' /\ tab' \in [0..size' - 1 -> Items \cup {NoItem}]
    BY <1>1, <1>3 DEF Bounds
  <1>5. Plain'
    BY <1>4, PlainRingNext
  <1>6. getLength' = getLength + 1
    BY <1>1, <1>2, <1>3, <1>5 DEF Plain
  <1>7. ASSUME NEW k \in {0} PROVE Cell(k)' = got
    <2>1. Cell(k)' = tab'[out']
      BY <1>1, <1>3, <1>4, <1>5 DEF Plain, Bounds
    <2>2. out' \in 0..size - 1
      BY <1>1, <1>3
    <2> QED BY <1>1, <1>3, <2>1, <2>2
  <1>8. ASSUME NEW k \in 1..getLength PROVE Cell(k)' = Cell(k - 1)
    <2> DEFINE j == IF out + (k - 1) < size THEN out + (k - 1) ELSE out + (k - 1) - size
    <2>1. k \in 0..size - 1 /\ k - 1 \in 0..size - 1 /\ j \in 0..size - 1
      BY <1>1, <1>2 DEF Plain
    <2>2. Cell(k - 1) = tab[j]
      BY <1>2, <2>1 DEF Plain
    <2>3. Cell(k)' = tab'[IF out' + k < size THEN out' + k ELSE out' + k - size]
      BY <1>3, <1>5, <2>1 DEF Plain
    <2>4. j = (IF out' + k < size THEN out' + k ELSE out' + k - size) /\ j # out'
      BY <1>1, <1>2, <1>3, <2>1 DEF Plain
    <2>5. tab'[j] = tab[j]
      BY <1>1, <1>3, <2>1, <2>4
    <2> QED BY <2>2, <2>3, <2>4, <2>5
  <1> QED BY <1>3, <1>4, <1>6, <1>7, <1>8

-----------------------------------------------------------------------------
(* The invariant: the ring is well formed, holds no stale cell, and keeps a *)
(* cell for the object at hand.                                             *)

IInv == TypeOK /\ NoStaleCell /\ RoomToRePut

\* A queue's Init and each of its steps, read off the ring
LEMMA InitInv == Init => IInv
  <1> SUFFICES ASSUME Init PROVE IInv
    OBVIOUS
  <1>1. /\ size \in Nat \ {0} /\ in = 0 /\ out = 0 /\ got = NoItem
        /\ tab \in [0..size - 1 -> {NoItem}]
    BY FifoAssumption DEF Init, Junk
  <1>2. TypeOK
    BY <1>1 DEF TypeOK
  <1>3. getLength = 0
    BY <1>1, PlainRing DEF Bounds, Plain
  <1>4. NoStaleCell /\ RoomToRePut
    BY <1>1, <1>3 DEF NoStaleCell, RoomToRePut
  <1> QED BY <1>2, <1>4 DEF IInv

\* No call breaks the invariant: put and rePut write the cell they expose, get
\* frees the one rePut needs.
LEMMA NextInv == IInv /\ [Next]_vars => IInv'
  <1> SUFFICES ASSUME IInv, [Next]_vars PROVE IInv'
    OBVIOUS
  <1>1. /\ size \in Nat \ {0} /\ in \in 0..size - 1 /\ out \in 0..size - 1
        /\ tab \in [0..size - 1 -> Items \cup {NoItem}]
        /\ got \in Items \cup {NoItem} /\ NoItem \notin Items
    BY FifoAssumption DEF IInv, TypeOK
  <1>2. /\ TypeOK /\ RoomToRePut /\ Bounds /\ Plain
        /\ \A k \in 0..getLength - 1 : Cell(k) \in Items
    BY <1>1, PlainRing DEF IInv, NoStaleCell, Bounds
  <1>3. getLength \in 0..size - 1
    BY <1>2 DEF Plain
  <1>4. ASSUME NEW x \in Items, Put(x) PROVE IInv'
    <2>1. /\ Bounds' /\ tab' \in [0..size' - 1 -> Items \cup {NoItem}]
          /\ getLength' = getLength + 1
          /\ \A k \in 0..getLength - 1 : Cell(k)' = Cell(k)
          /\ \A k \in {getLength} : Cell(k)' = x
      BY <1>2, <1>4, PutShifts DEF Put
    <2>2. got' = NoItem
      BY <1>4 DEF Put
    <2>3. TypeOK'
      BY <2>1, <2>2 DEF TypeOK, Bounds
    <2>4. ASSUME NEW k \in 0..getLength' - 1 PROVE Cell(k)' \in Items
      <3>1. k \in 0..getLength - 1 \/ k = getLength
        BY <1>3, <2>1
      <3> QED BY <1>2, <2>1, <3>1
    <2>5. RoomToRePut'
      BY <2>2 DEF RoomToRePut
    <2> QED BY <2>3, <2>4, <2>5 DEF IInv, NoStaleCell
  <1>5. CASE Get
    <2>1. /\ Bounds' /\ tab' = tab /\ size' = size
          /\ getLength > 0 /\ getLength' = getLength - 1
          /\ got' = Cell(0)
          /\ \A k \in 0..getLength - 2 : Cell(k)' = Cell(k + 1)
      BY <1>2, <1>5, GetShifts
    <2>2. got' \in Items
      BY <1>2, <1>3, <2>1
    <2>3. TypeOK'
      BY <1>1, <2>1, <2>2 DEF TypeOK, Bounds
    <2>4. ASSUME NEW k \in 0..getLength' - 1 PROVE Cell(k)' \in Items
      <3>1. k \in 0..getLength - 2 /\ k + 1 \in 0..getLength - 1
        BY <1>3, <2>1
      <3> QED BY <1>2, <2>1, <3>1
    <2>5. RoomToRePut'
      BY <1>1, <1>3, <2>1, <2>2 DEF RoomToRePut
    <2> QED BY <2>3, <2>4, <2>5 DEF IInv, NoStaleCell
  <1>6. CASE RePut
    <2>1. /\ Bounds' /\ tab' \in [0..size' - 1 -> Items \cup {NoItem}]
          /\ got \in Items
          /\ getLength' = getLength + 1
          /\ \A k \in {0} : Cell(k)' = got
          /\ \A k \in 1..getLength : Cell(k)' = Cell(k - 1)
      BY <1>2, <1>6, RePutShifts
    <2>2. got' = NoItem
      BY <1>6 DEF RePut
    <2>3. TypeOK'
      BY <2>1, <2>2 DEF TypeOK, Bounds
    <2>4. ASSUME NEW k \in 0..getLength' - 1 PROVE Cell(k)' \in Items
      <3>1. k = 0 \/ (k \in 1..getLength /\ k - 1 \in 0..getLength - 1)
        BY <1>1, <1>3, <2>1
      <3> QED BY <1>2, <2>1, <3>1
    <2>5. RoomToRePut'
      BY <2>2 DEF RoomToRePut
    <2> QED BY <2>3, <2>4, <2>5 DEF IInv, NoStaleCell
  <1>7. CASE UNCHANGED vars
    BY <1>7 DEF vars, IInv, TypeOK, NoStaleCell, RoomToRePut, getLength, Cell
  <1> QED BY <1>4, <1>5, <1>6, <1>7 DEF Next

\* The invariant holds in every state of the ring.
LEMMA InvHolds == Spec => []IInv
  BY InitInv, NextInv, PTL DEF Spec

\* The places and the size stay in range, whatever the calls.
THEOREM FifoTypeCorrect == Spec => []TypeOK
  BY InvHolds, PTL DEF IInv

\* No call ever exposes a cell that holds no object put in the fifo.
THEOREM NoStaleCells == Spec => []NoStaleCell
  BY InvHolds, PTL DEF IInv

-----------------------------------------------------------------------------
(* The ring implements the queue. *)

\* The content of a well formed ring is a sequence of objects.
ContentIsSeq ==
    /\ Content \in Seq(Items) /\ Len(Content) = getLength
    /\ \A k \in 1..getLength : Content[k] = Cell(k - 1)

(* The cells between out and in hold a sequence of items. *)
LEMMA ContentLemma == Bounds /\ NoStaleCell => ContentIsSeq
  <1> SUFFICES ASSUME Bounds, NoStaleCell PROVE ContentIsSeq
    OBVIOUS
  <1>1. getLength \in Nat
    BY PlainRing DEF Plain, Bounds
  <1>2. \A k \in 1..getLength : Cell(k - 1) \in Items
    BY <1>1 DEF NoStaleCell
  <1> DEFINE n == getLength
             e(k) == Cell(k - 1)
  <1>3. n \in Nat /\ \A k \in 1..n : e(k) \in Items
    BY <1>1, <1>2
  <1>4. Content = [k \in 1..n |-> e(k)]
    BY DEF Content
  <1> HIDE DEF n, e
  <1>5. [k \in 1..n |-> e(k)] \in [1..n -> Items]
    BY <1>3
  <1>6. Content \in Seq(Items) /\ Len(Content) = n
    BY <1>3, <1>4, <1>5
  <1>7. \A k \in 1..n : Content[k] = e(k)
    BY <1>4
  <1> QED BY <1>6, <1>7 DEF ContentIsSeq, n, e

(* The same of the next state. *)
LEMMA ContentLemmaNext == Bounds' /\ NoStaleCell' => ContentIsSeq'
  BY ContentLemma, PTL

\* The empty ring is the empty queue.
LEMMA InitQueue == Init => Abs!Init
  <1> SUFFICES ASSUME Init PROVE Abs!Init
    OBVIOUS
  <1>1. size \in Nat \ {0} /\ in = 0 /\ out = 0 /\ got = NoItem
    BY FifoAssumption DEF Init
  <1>2. getLength = 0
    BY <1>1, PlainRing DEF Bounds, Plain
  <1>3. Bounds /\ NoStaleCell
    BY <1>1, <1>2 DEF Bounds, NoStaleCell
  <1>4. Content \in Seq(Items) /\ Len(Content) = 0
    BY <1>2, <1>3, ContentLemma DEF ContentIsSeq
  <1>5. Content = <<>>
    BY <1>4, EmptySeq
  <1> QED BY <1>1, <1>5 DEF Abs!Init

\* Each call is the queue's operation.
LEMMA NextQueue == IInv /\ IInv' /\ [Next]_vars => [Abs!Next]_<<Content, got>>
  <1> SUFFICES ASSUME IInv, IInv', [Next]_vars PROVE [Abs!Next]_<<Content, got>>
    OBVIOUS
  <1>1. TypeOK /\ RoomToRePut /\ got \in Items \cup {NoItem} /\ NoItem \notin Items
    BY FifoAssumption DEF IInv, TypeOK
  <1>2. Bounds /\ Bounds'
    BY DEF IInv, TypeOK, Bounds
  <1>3. getLength \in Nat
    BY <1>2, PlainRing DEF Plain, Bounds
  <1>4. ContentIsSeq /\ ContentIsSeq'
    BY <1>2, ContentLemma, ContentLemmaNext DEF IInv
  <1>5. /\ Content \in Seq(Items) /\ Len(Content) = getLength
        /\ \A k \in 1..getLength : Content[k] = Cell(k - 1)
    BY <1>4 DEF ContentIsSeq
  <1>6. /\ Content' \in Seq(Items) /\ Len(Content') = getLength'
        /\ \A k \in 1..getLength' : Content'[k] = Cell(k - 1)'
    BY <1>4 DEF ContentIsSeq
  <1>7. ASSUME NEW x \in Items, Put(x) PROVE Abs!Put(x)
    <2>1. /\ getLength' = getLength + 1
          /\ \A k \in 0..getLength - 1 : Cell(k)' = Cell(k)
          /\ \A k \in {getLength} : Cell(k)' = x
      BY <1>1, <1>7, PutShifts DEF Put
    <2>2. /\ Append(Content, x) \in Seq(Items)
          /\ Len(Append(Content, x)) = getLength + 1
          /\ \A k \in 1..getLength : Append(Content, x)[k] = Content[k]
          /\ Append(Content, x)[getLength + 1] = x
      BY <1>5, AppendProperties
    <2>3. ASSUME NEW k \in 1..Len(Content')
          PROVE  Content'[k] = Append(Content, x)[k]
      <3>1. k \in 1..getLength' /\ Content'[k] = Cell(k - 1)'
        BY <1>6
      <3>2. CASE k \in 1..getLength
        <4>1. k - 1 \in 0..getLength - 1
          BY <1>3, <3>2
        <4>2. Cell(k - 1)' = Cell(k - 1)
          BY <2>1, <4>1
        <4> QED BY <1>5, <2>2, <3>1, <3>2, <4>2
      <3>3. CASE k = getLength + 1
        <4>1. k - 1 = getLength
          BY <1>3, <3>3
        <4>2. Cell(k - 1)' = x
          BY <2>1, <4>1
        <4> QED BY <2>2, <3>1, <3>3, <4>2
      <3>4. k \in 1..getLength \/ k = getLength + 1
        BY <1>3, <2>1, <3>1
      <3> QED BY <3>2, <3>3, <3>4
    <2>4. Content' = Append(Content, x)
      BY <1>6, <2>1, <2>2, <2>3, SeqEqual
    <2> QED BY <1>7, <2>4 DEF Abs!Put, Put
  <1>8. CASE Get
    <2>1. /\ getLength > 0 /\ getLength' = getLength - 1
          /\ got' = Cell(0)
          /\ \A k \in 0..getLength - 2 : Cell(k)' = Cell(k + 1)
      BY <1>1, <1>8, GetShifts
    <2>2. Content # <<>> /\ Head(Content) = Content[1] /\ Content[1] = Cell(0)
      <3>1. Content # <<>>
        BY <1>3, <1>5, <2>1, EmptySeq
      <3>2. Content[1] = Cell(0)
        BY <1>3, <1>5, <2>1
      <3>3. Head(Content) = Content[1]
        BY <1>5, <3>1, HeadTailProperties
      <3> QED BY <3>1, <3>2, <3>3
    <2>3. /\ Tail(Content) \in Seq(Items) /\ Len(Tail(Content)) = getLength - 1
          /\ \A k \in 1..Len(Tail(Content)) : Tail(Content)[k] = Content[k + 1]
      BY <1>5, <2>2, HeadTailProperties
    <2>4. ASSUME NEW k \in 1..Len(Content')
          PROVE  Content'[k] = Tail(Content)[k]
      <3>1. k \in 1..getLength' /\ Content'[k] = Cell(k - 1)'
        BY <1>6
      <3>2. k - 1 \in 0..getLength - 2 /\ k + 1 \in 1..getLength
            /\ (k + 1) - 1 = (k - 1) + 1 /\ k \in 1..getLength - 1
        BY <1>3, <2>1, <3>1
      <3>3. Cell(k - 1)' = Cell((k - 1) + 1)
        BY <2>1, <3>2
      <3>4. Content[k + 1] = Cell((k + 1) - 1)
        BY <1>5, <3>2
      <3>5. Tail(Content)[k] = Content[k + 1]
        BY <2>3, <3>2
      <3> QED BY <3>1, <3>2, <3>3, <3>4, <3>5
    <2>5. Content' = Tail(Content)
      BY <1>6, <2>1, <2>3, <2>4, SeqEqual
    <2>6. got' = Head(Content)
      BY <2>1, <2>2
    <2> QED BY <2>2, <2>5, <2>6 DEF Abs!Get, Abs!Next
  <1>9. CASE RePut
    <2>1. /\ got \in Items
          /\ getLength' = getLength + 1
          /\ \A k \in {0} : Cell(k)' = got
          /\ \A k \in 1..getLength : Cell(k)' = Cell(k - 1)
      BY <1>1, <1>9, RePutShifts
    <2>2. <<got>> \in Seq(Items) /\ Len(<<got>>) = 1 /\ <<got>>[1] = got
      BY <2>1
    <2>3. /\ <<got>> \o Content \in Seq(Items)
          /\ Len(<<got>> \o Content) = 1 + getLength
          /\ \A k \in 1..1 + getLength :
               (<<got>> \o Content)[k] = IF k <= 1 THEN <<got>>[k] ELSE Content[k - 1]
      BY <1>5, <2>2, ConcatProperties
    <2>4. ASSUME NEW k \in 1..Len(Content')
          PROVE  Content'[k] = (<<got>> \o Content)[k]
      <3>1. k \in 1..1 + getLength /\ Content'[k] = Cell(k - 1)'
        BY <1>3, <1>6, <2>1
      <3>2. CASE k = 1
        <4>1. Cell(k - 1)' = got
          BY <2>1, <3>2
        <4>2. (<<got>> \o Content)[k] = got
          BY <1>3, <2>2, <2>3, <3>2
        <4> QED BY <3>1, <4>1, <4>2
      <3>3. CASE k > 1
        <4>1. k - 1 \in 1..getLength
          BY <1>3, <3>1, <3>3
        <4>2. Cell(k - 1)' = Cell((k - 1) - 1)
          BY <2>1, <4>1
        <4>3. Content[k - 1] = Cell((k - 1) - 1)
          BY <1>5, <4>1
        <4>4. (<<got>> \o Content)[k] = Content[k - 1]
          BY <1>3, <2>3, <3>1, <3>3
        <4> QED BY <3>1, <4>2, <4>3, <4>4
      <3>4. k = 1 \/ k > 1
        BY <1>3, <3>1
      <3> QED BY <3>2, <3>3, <3>4
    <2>5. Len(Content') = Len(<<got>> \o Content)
      BY <1>3, <1>6, <2>1, <2>3
    <2>6. Content' = <<got>> \o Content
      BY <1>6, <2>3, <2>4, <2>5, SeqEqual
    <2> QED BY <1>9, <2>6 DEF Abs!RePut, RePut, Abs!Next
  <1>10. CASE UNCHANGED vars
    BY <1>10 DEF vars, Content, getLength, Cell
  <1> QED BY <1>7, <1>8, <1>9, <1>10 DEF Next, Abs!Next

\* The ring of Fifo.h is a queue, for every initial size: what is put comes out
\* in the same order and once, before and after the array has grown.
THEOREM RingIsQueue == Spec => IsQueue
  BY InvHolds, InitQueue, NextQueue, PTL DEF Spec, IsQueue, Abs!Spec
=============================================================================
