-------------------------------- MODULE Fifo --------------------------------
(***************************************************************************)
(* The ring of Fifo.h, which doubles its array when it is full: dnsSites,  *)
(* okSites and the pages of an IP site.  (SyncFifo.h has the same ring     *)
(* under a lock.)                                                          *)
(***************************************************************************)
EXTENDS Integers, Sequences

CONSTANTS
    Items, NoItem,
    Size,       \* the size given to the constructor
    MaxLen      \* bound: the callers keep at most this many objects in it

ASSUME FifoAssumption ==
    /\ NoItem \notin Items
    /\ Size \in Nat \ {0}
    /\ MaxLen \in Nat

VARIABLES in, out, size, tab,
          got   \* the object the caller has just taken with get

vars == <<in, out, size, tab, got>>

\* A cell never written, or behind the ring
Junk == NoItem

Init ==
    /\ in = 0 /\ out = 0
    /\ size = Size
    /\ tab = [k \in 0..Size - 1 |-> Junk]
    /\ got = NoItem

getLength == (in + size - out) % size

\* put when there is still an empty cell after it
PutInRing(x) ==
    /\ (in + 1) % size # out
    /\ tab' = [tab EXCEPT ![in] = x]
    /\ in' = (in + 1) % size
    /\ UNCHANGED <<out, size>>

\* Mutant: the ring is copied as it lies
PutAndGrowAsItLies(x) ==
    LET full == [tab EXCEPT ![in] = x]
        next == (in + 1) % size
    IN /\ next = out
       /\ tab' = [k \in 0..2 * size - 1 |-> IF k < size THEN full[k] ELSE Junk]
       /\ in' = next + size
       /\ size' = 2 * size
       /\ UNCHANGED out

\* put that fills the ring: it is copied into an array twice as large, the part
\* before "in" after the part from "out"
PutAndGrow(x) ==
    LET full == [tab EXCEPT ![in] = x]
        next == (in + 1) % size
    IN /\ next = out
       /\ tab' = [k \in 0..2 * size - 1 |->
                    IF k \in out..size - 1 THEN full[k]
                    ELSE IF k - size \in 0..next - 1 THEN full[k - size]
                    ELSE Junk]
       /\ in' = next + size
       /\ size' = 2 * size
       /\ UNCHANGED out

Put(x) ==
    /\ getLength < MaxLen
    /\ PutInRing(x) \/ PutAndGrow(x)
    /\ got' = NoItem

\* get (it asserts in # out), or tryGet of a fifo that is not empty
Get ==
    /\ in # out
    /\ got' = tab[out]
    /\ out' = (out + 1) % size
    /\ UNCHANGED <<in, size, tab>>

\* rePut: "only to put back an obj that has just been taken with get"
RePut ==
    /\ got # NoItem
    /\ out' = (out + size - 1) % size
    /\ tab' = [tab EXCEPT ![out'] = got]
    /\ got' = NoItem
    /\ UNCHANGED <<in, size>>

Next == (\E x \in Items : Put(x)) \/ Get \/ RePut

Spec == Init /\ [][Next]_vars

-----------------------------------------------------------------------------
TypeOK ==
    /\ size \in Nat \ {0}
    /\ in \in 0..size - 1 /\ out \in 0..size - 1
    /\ tab \in [0..size - 1 -> Items \cup {NoItem}]
    /\ got \in Items \cup {NoItem}

\* rePut needs an empty cell: one is left while the object taken is at hand
RoomToRePut == got # NoItem => got \in Items /\ getLength + 1 < size

\* The object k places behind the first one
Cell(k) == tab[(out + k) % size]

\* Every cell between out and in holds an object that was put: growing the
\* array, wrapping round it or putting back never exposes a stale cell.
NoStaleCell == \A k \in 0..getLength - 1 : Cell(k) \in Items

\* The objects in the ring, the oldest first
Content == [k \in 1..getLength |-> Cell(k - 1)]

\* The ring implements a queue: objects come out in order, each once, and
\* getLength counts them, before and after the array has grown.
Abs == INSTANCE FifoQueue WITH queue <- Content

IsQueue == Abs!Spec
=============================================================================
