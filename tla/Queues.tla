------------------------------- MODULE Queues -------------------------------
(***************************************************************************)
(* The doubly linked queues of adns (dlist.h): what is left of one when     *)
(* some of its elements are taken off it, in the order they were in.  The   *)
(* definition counts cells, where SelectSeq would recurse: the theorems     *)
(* about the queues need no induction.                                      *)
(***************************************************************************)
EXTENDS Integers, Sequences, FiniteSets

\* The cells of the queue that stay
Remaining(queue, gone) == {i \in DOMAIN queue: queue[i] \notin gone}

\* Of the cells S, the one that is k-th
Nth(S, k) == CHOOSE i \in S: Cardinality({j \in S: j <= i}) = k

Off(queue, gone) ==
    LET kept == Remaining(queue, gone)
    IN  [k \in 1..Cardinality(kept) |-> queue[Nth(kept, k)]]
=============================================================================
