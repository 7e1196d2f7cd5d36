----------------------------- MODULE Resolver -----------------------------
(***************************************************************************)
(* What a resolver promises to the thread that uses it, whatever the        *)
(* network does: a query that was accepted stays pending until it is        *)
(* answered, is answered once, and its answer stays in the list of answers  *)
(* until the user takes it, in the order in which the answers came.  The    *)
(* user may cancel a query, or give up the whole resolver.                  *)
(***************************************************************************)
EXTENDS Sequences, SequencesExt, Queues

CONSTANT Queries

VARIABLES
  pending,   \* the queries accepted and not answered
  answered   \* the answers the user has not taken

vars == <<pending, answered>>

Init == pending = {} /\ answered = <<>>

Known == pending \cup ToSet(answered)

\* A query is accepted.
Accept(q) ==
  /\ q \notin Known
  /\ pending' = pending \cup {q}
  /\ UNCHANGED answered

\* A query is accepted and answered at once: its name cannot be asked for.
Refuse(q) ==
  /\ q \notin Known
  /\ answered' = Append(answered, q)
  /\ UNCHANGED pending

\* A pending query gets its answer, good or bad.
Answer(q) ==
  /\ q \in pending
  /\ pending' = pending \ {q}
  /\ answered' = Append(answered, q)

\* The user takes the oldest answer.
Take ==
  /\ answered # <<>>
  /\ answered' = Tail(answered)
  /\ UNCHANGED pending

\* The user forgets one query, answered or not.
Cancel(q) ==
  /\ q \in Known
  /\ pending' = pending \ {q}
  /\ answered' = Off(answered, {q})

\* The user forgets every query.
Finish ==
  /\ pending' = {}
  /\ answered' = <<>>

Next ==
  \/ \E q \in Queries: Accept(q) \/ Refuse(q) \/ Answer(q) \/ Cancel(q)
  \/ Take
  \/ Finish

Spec == Init /\ [][Next]_vars
===========================================================================
