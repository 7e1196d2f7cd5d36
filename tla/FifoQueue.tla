----------------------------- MODULE FifoQueue -----------------------------
(***************************************************************************)
(* What the fifos of utils/ promise their callers: objects come out in the *)
(* order they were put, each once, whatever ring or files hold them.       *)
(***************************************************************************)
EXTENDS Sequences

CONSTANTS Items, NoItem

VARIABLES
    queue,  \* what is in the fifo, the oldest first
    got     \* what the last call took out; NoItem after any other call

Init == queue = <<>> /\ got = NoItem

Put(x) == queue' = Append(queue, x) /\ got' = NoItem

Get ==
    /\ queue # <<>>
    /\ got' = Head(queue)
    /\ queue' = Tail(queue)

\* The object just taken is first again
RePut ==
    /\ got # NoItem
    /\ queue' = <<got>> \o queue
    /\ got' = NoItem

Next == (\E x \in Items : Put(x)) \/ Get \/ RePut

Spec == Init /\ [][Next]_<<queue, got>>
=============================================================================
