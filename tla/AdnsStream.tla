----------------------------- MODULE AdnsStream -----------------------------
(***************************************************************************)
(* The bytes of the TCP connection of the resolver.  A message travels as    *)
(* two bytes of length and the message.  The kernel takes and gives bytes in *)
(* pieces of any size: what it does not take waits in tcpsend                *)
(* (adns__querysend_tcp, adns_processwriteable), and what makes no message   *)
(* yet waits in tcprecv (adns_processreadable).  The module Adns has the     *)
(* queries that the messages belong to.                                      *)
(***************************************************************************)
EXTENDS Integers, Sequences, SequencesExt

CONSTANTS
    Base,           \* 256, the values of a byte
    Lengths,        \* bound: the lengths of the messages
    MaxMessages,    \* bound: messages each way over one connection
    ShortWrites     \* what one writev may take of a message, if not all

ASSUME AdnsStreamAssumption ==
    /\ Base \in Nat \ {0, 1}
    /\ MaxMessages \in Nat
    /\ Lengths \subseteq 0..Base * Base - 1
    /\ ShortWrites \subseteq Nat

VARIABLES
    ok,         \* tcpstate = server_ok
    queries,    \* history: the queries sent over this connection
    tcpsend,    \* what the kernel has not taken
    wire,       \* history: what it has
    torn,       \* history: it took one byte of the length of a query
    replies,    \* history: the replies of the server over this connection
    net,        \* their bytes that were not read
    tcprecv,    \* [buf, skip, avail]: bytes read, those done with, room
    given,      \* history: the datagrams given to adns__procdgram
    reading     \* inside the loop of adns_processreadable

vars == <<ok, queries, tcpsend, wire, torn, replies, net, tcprecv, given, reading>>

(***************************************************************************)
(* A message is its length and, for each byte, the number of the message.    *)
(***************************************************************************)
Messages == [len: Lengths, id: 1..MaxMessages]

Body(m) == [i \in 1..m.len |-> m.id]

Frame(m) == <<m.len \div Base, m.len % Base>> \o Body(m)

Frames(ms) == FlattenSeq([i \in DOMAIN ms |-> Frame(ms[i])])

\* A length is read where it should be, if the stream is not broken.
Length(hi, lo) == hi * Base + lo

NewConnection ==
    /\ queries' = <<>> /\ tcpsend' = <<>> /\ wire' = <<>> /\ torn' = FALSE
    /\ replies' = <<>> /\ net' = <<>> /\ given' = <<>>
    /\ tcprecv' = [tcprecv EXCEPT !.buf = <<>>, !.skip = 0]
    /\ reading' = FALSE

Init ==
    /\ ok = FALSE
    /\ queries = <<>> /\ tcpsend = <<>> /\ wire = <<>> /\ torn = FALSE
    /\ replies = <<>> /\ net = <<>> /\ given = <<>>
    /\ tcprecv = [buf |-> <<>>, skip |-> 0, avail |-> 0]
    /\ reading = FALSE

\* tcp_connected
Connect ==
    /\ ~ok /\ ok' = TRUE
    /\ NewConnection

\* adns__tcp_broken, tcp_close: what is in the buffers is dropped.
Broken ==
    /\ ok /\ ok' = FALSE
    /\ NewConnection

(***************************************************************************)
(* Sending.                                                                 *)
(***************************************************************************)

\* Mutant of Left: the last byte taken is kept.
LeftOneMore(m, w) ==
    IF w < 2 THEN SubSeq(Frame(m), 1, 2 - w) \o Body(m)
    ELSE SubSeq(Body(m), IF w = 2 THEN 1 ELSE w - 2, m.len)

\* What is kept of a message of which writev took w bytes.  Of a length of which
\* it took one byte, that byte is kept and not the other: adns__vbuf_append is
\* given "length" and not "length + wr".
Left(m, w) ==
    IF w < 2 THEN SubSeq(Frame(m), 1, 2 - w) \o Body(m)
    ELSE SubSeq(Body(m), w - 1, m.len)

adns__querysend_tcp(m) ==
    /\ ok /\ Len(queries) < MaxMessages /\ m.id = Len(queries) + 1
    /\ queries' = Append(queries, m)
    /\ IF tcpsend # <<>>
       THEN tcpsend' = tcpsend \o Frame(m) /\ UNCHANGED <<wire, torn>>
       ELSE \E w \in {m.len + 2} \cup {n \in ShortWrites: n <= m.len + 2}:
              /\ wire' = wire \o SubSeq(Frame(m), 1, w)
              /\ tcpsend' = Left(m, w)
              /\ torn' = (torn \/ w = 1)
    /\ UNCHANGED <<ok, replies, net, tcprecv, given, reading>>

\* adns_processwriteable
Flush ==
    /\ ok /\ tcpsend # <<>>
    /\ \E w \in 1..Len(tcpsend):
         /\ wire' = wire \o SubSeq(tcpsend, 1, w)
         /\ tcpsend' = SubSeq(tcpsend, w + 1, Len(tcpsend))
    /\ UNCHANGED <<ok, queries, torn, replies, net, tcprecv, given, reading>>

(***************************************************************************)
(* Receiving.                                                               *)
(***************************************************************************)

ServerReplies(m) ==
    /\ ok /\ Len(replies) < MaxMessages /\ m.id = Len(replies) + 1
    /\ replies' = Append(replies, m)
    /\ net' = net \o Frame(m)
    /\ UNCHANGED <<ok, queries, tcpsend, wire, torn, tcprecv, given, reading>>

StartRead ==
    /\ ok /\ ~reading /\ reading' = TRUE
    /\ UNCHANGED <<ok, queries, tcpsend, wire, torn, replies, net, tcprecv, given>>

Used(r) == Len(r.buf)

HasLength(r) == Used(r) >= r.skip + 2

DgramLen(r) == Length(r.buf[r.skip + 1], r.buf[r.skip + 2])

HasDgram(r) == HasLength(r) /\ Used(r) >= r.skip + 2 + DgramLen(r)

\* One whole datagram is in the buffer.
Deliver ==
    /\ reading /\ HasDgram(tcprecv)
    /\ LET r == tcprecv
           end == r.skip + 2 + DgramLen(r)
       IN  /\ given' = Append(given, SubSeq(r.buf, r.skip + 3, end))
           /\ tcprecv' = [r EXCEPT !.skip = end]
    /\ UNCHANGED <<ok, queries, tcpsend, wire, torn, replies, net, reading>>

\* Mutants of Ready: skip is set to 0 and the bytes stay; there is no room for the
\* length.
ReadyKeepsBytes(r) ==
    LET want == IF HasLength(r) THEN 2 + DgramLen(r) ELSE 2
    IN  [buf |-> r.buf, skip |-> 0,
         avail |-> IF r.avail >= want THEN r.avail ELSE want]

ReadyNoLength(r) ==
    LET want == IF HasLength(r) THEN DgramLen(r) ELSE 2
    IN  [buf |-> SubSeq(r.buf, r.skip + 1, Used(r)), skip |-> 0,
         avail |-> IF r.avail >= want THEN r.avail ELSE want]

\* The buffer before a read: what was done with is dropped, and there is room for
\* the length or the whole datagram (adns__vbuf_ensure).
Ready(r) ==
    LET want == IF HasLength(r) THEN 2 + DgramLen(r) ELSE 2
    IN  [buf |-> SubSeq(r.buf, r.skip + 1, Used(r)), skip |-> 0,
         avail |-> IF r.avail >= want THEN r.avail ELSE want]

\* A read of some of the bytes that have come.  Without room for one the loop
\* would go round for ever.
Read ==
    /\ reading /\ ~HasDgram(tcprecv)
    /\ LET r == Ready(tcprecv) IN
       \E n \in 1..r.avail - Used(r):
         /\ n <= Len(net)
         /\ tcprecv' = [r EXCEPT !.buf = @ \o SubSeq(net, 1, n)]
         /\ net' = SubSeq(net, n + 1, Len(net))
    /\ UNCHANGED <<ok, queries, tcpsend, wire, torn, replies, given, reading>>

\* EAGAIN: the rest of the bytes is still on its way.
ReadEnd ==
    /\ reading /\ ~HasDgram(tcprecv)
    /\ LET r == Ready(tcprecv) IN Used(r) < r.avail /\ tcprecv' = r
    /\ reading' = FALSE
    /\ UNCHANGED <<ok, queries, tcpsend, wire, torn, replies, net, given>>

Next ==
    \/ Connect \/ Broken \/ Flush \/ StartRead \/ Deliver \/ Read \/ ReadEnd
    \/ \E m \in Messages: adns__querysend_tcp(m) \/ ServerReplies(m)

Spec == Init /\ [][Next]_vars

\* The loop of adns_processreadable goes on and adns_processreadable is called
\* again and again; bytes on their way come.
Fairness ==
    /\ WF_vars(StartRead) /\ WF_vars(Deliver \/ Read \/ ReadEnd)
    /\ SF_vars(Read)

FairSpec == Spec /\ Fairness

(***************************************************************************)
(* Properties.                                                              *)
(***************************************************************************)

\* What the server gets is the queries, whole and in order, whatever the pieces
\* the kernel takes, as long as it never took a single byte of one on this
\* connection: the code then sends the first byte of a length twice, and the
\* server reads what follows askew (transmit.c, adns__querysend_tcp).
QueriesWhole == ~torn => wire \o tcpsend = Frames(queries)

Bodies(ms) == [i \in DOMAIN ms |-> Body(ms[i])]

\* The datagrams given to adns__procdgram are the replies, whole and in order,
\* whatever the pieces read; none is left in the buffer when the function returns.
RepliesWhole ==
    /\ IsPrefix(given, Bodies(replies))
    /\ ok /\ ~reading /\ net = <<>> => given = Bodies(replies)

\* A reply is given, unless the connection breaks: the loop never goes round
\* without room to read, and returns.
RepliesArrive ==
    \A n \in 1..MaxMessages: Len(replies) = n ~> Len(given) >= n \/ ~ok

=============================================================================
