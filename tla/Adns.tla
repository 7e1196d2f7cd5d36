------------------------------- MODULE Adns -------------------------------
(***************************************************************************)
(* The asynchronous resolver (src/adns) of one crawler: the life of its     *)
(* queries over UDP and over its one TCP connection, their children, the    *)
(* timeouts and the calls of its user.  A call runs in one thread, but in   *)
(* many steps, and what the sockets give comes between them: pc names the   *)
(* loop the call is in.  A function of the code that changes the state is   *)
(* an operator from a state of the resolver to the next one; e is what the  *)
(* system calls of that step return.                                        *)
(* A datagram is matched to a query by its id and its whole question, and   *)
(* changes nothing when it matches none: ids and names are left out.        *)
(***************************************************************************)
EXTENDS Integers, Sequences, SequencesExt, Queues

CONSTANTS
    MaxQueries,     \* bound: queries alive at once
    MaxUser,        \* bound: queries of the user among them
    nservers,       \* name servers
    UDPMAXRETRIES,  \* sends over UDP before a query times out
    MaxKids,        \* bound: records of an answer that need a query of their own
    SearchNames,    \* names of the search list
    Polls,          \* whether the user calls adns_afterpoll
    Kinds,          \* what the user asks for: "addr", "search", "hostaddr", "ptr"
    Faults          \* "connect": connect may fail at once; "tcp_tc": a server may
                    \* truncate over TCP; "system": a socket lacks resources

ASSUME AdnsAssumption ==
    /\ MaxQueries \in Nat \ {0}
    /\ MaxUser \in Nat \ {0}
    /\ nservers \in Nat \ {0}
    /\ UDPMAXRETRIES \in Nat \ {0}
    /\ MaxKids \in Nat
    /\ SearchNames \in Nat \ {0}

Queries == 1..MaxQueries
None == 0                               \* no query
Servers == 0..nservers - 1
NextServer(v, n) == (v + n) % nservers

VARIABLES
    ads,    \* struct adns__state
    pc,     \* where the call of the user is, "idle" between calls
    call,   \* the call: "processany", "check" or "poll"
    due,    \* the queries whose timeout was over when the call began
    cur,    \* the query saved by the loop of tcp_events, or being parsed
    fds     \* events still to be handled: "udp", "in", "out", "pri"

vars == <<ads, pc, call, due, cur, fds>>

(***************************************************************************)
(* The state.                                                               *)
(***************************************************************************)

States == {"free", "tosend", "tcpw", "childw", "done"}

\* query_alloc.  tried is a history variable: the servers whose connection
\* broke while the query waited for it.
Virgin(kind, parent) ==
    [state |-> "tosend", kind |-> kind, parent |-> parent, status |-> "ok",
     retries |-> 0, udpnextserver |-> 0, udpsent |-> {}, usevc |-> FALSE,
     cname |-> FALSE, names |-> IF kind = "search" THEN SearchNames ELSE 0,
     tried |-> {}]

Freed == [Virgin("addr", None) EXCEPT !.state = "free"]

\* sent is a history variable: the queries of tcpw given to the connection.
NewState ==
    [qu |-> [q \in Queries |-> Freed],
     udpw |-> <<>>, tcpw |-> <<>>, childw |-> <<>>, output |-> <<>>,
     tcpstate |-> "disconnected", tcpserver |-> 0, tcpsend |-> FALSE,
     tcptimeout |-> "unset", sent |-> {}, abort |-> FALSE]

Abort(s) == [s EXCEPT !.abort = TRUE]

Children(s, q) == {c \in Queries: s.qu[c].state # "free" /\ s.qu[c].parent = q}

\* n more retries for the queries qs.  They stop counting at nservers + 2 over
\* TCP, a bound of the model.
Retried(s, qs, n) ==
    LET more(r) == IF r + n > nservers + 2 THEN nservers + 2 ELSE r + n
    IN  [s EXCEPT !.qu = [q \in Queries |->
            IF q \in qs THEN [s.qu[q] EXCEPT !.retries = more(s.qu[q].retries)]
            ELSE s.qu[q]]]

\* A step in which no query turns out to be too big for UDP, and no write fails.
Quiet == [toobig |-> FALSE, refused |-> 0, connect |-> "later",
          breaks |-> MaxQueries, part |-> FALSE]

\* What the system calls of one step return: sendto says EMSGSIZE (toobig);
\* connect fails at once for so many servers (refused), then succeeds, is in
\* progress, or no socket can be had; a write fails after so many whole queries
\* (breaks), or takes only a part of them.
Outcomes ==
    LET connects == IF "connect" \in Faults THEN {"now", "later", "nosocket"}
                    ELSE {"now", "later"}
        refusals == IF "connect" \in Faults THEN 0..nservers ELSE {0}
    IN  [toobig: {TRUE}, refused: refusals, connect: connects,
         breaks: 0..MaxQueries, part: {FALSE}]
        \cup [toobig: {TRUE}, refused: refusals, connect: connects,
              breaks: {MaxQueries}, part: {TRUE}]
        \cup {Quiet}

(***************************************************************************)
(* The TCP connection (event.c, transmit.c).                                *)
(***************************************************************************)

\* Mutant of tcp_close: what was to be sent is kept.
tcp_closeKeepsSend(s) == [s EXCEPT !.sent = {}]

tcp_close(s) == [s EXCEPT !.tcpsend = FALSE, !.sent = {}]

\* The queries that wait learn that the next n servers failed them.
Tried(s, n) ==
    LET failed == {NextServer(s.tcpserver, i): i \in 0..n - 1}
    IN  [s EXCEPT !.qu = [q \in Queries |->
            IF q \in ToSet(s.tcpw)
            THEN [s.qu[q] EXCEPT !.tried = s.qu[q].tried \cup failed]
            ELSE s.qu[q]]]

\* Mutants of adns__tcp_broken: the next server has no modulus; it is the same.
adns__tcp_brokenNoWrap(s) ==
    LET t == IF s.tcpstate = "connecting" THEN Retried(s, ToSet(s.tcpw), 1) ELSE s
    IN  [tcp_close(Tried(t, 1)) EXCEPT
            !.tcpstate = "broken", !.tcpserver = @ + 1]

adns__tcp_brokenSameServer(s) ==
    LET t == IF s.tcpstate = "connecting" THEN Retried(s, ToSet(s.tcpw), 1) ELSE s
    IN  [tcp_close(Tried(t, 1)) EXCEPT !.tcpstate = "broken"]

adns__tcp_broken(s) ==
    LET t == IF s.tcpstate = "connecting" THEN Retried(s, ToSet(s.tcpw), 1) ELSE s
    IN  [tcp_close(Tried(t, 1)) EXCEPT
            !.tcpstate = "broken", !.tcpserver = NextServer(@, 1)]

\* The queries qs, which wait in this order, are written to a connection that
\* is up: every send counts as a retry, and stops the idle timer.
Written(s, qs, e) ==
    LET fails == ~s.tcpsend /\ e.breaks < Len(qs)
        given == ToSet(IF fails THEN SubSeq(qs, 1, e.breaks + 1) ELSE qs)
        t == [Retried(s, given, 1) EXCEPT
                !.sent = @ \cup given,
                !.tcpsend = @ \/ (e.part /\ qs # <<>>),
                !.tcptimeout = IF qs = <<>> THEN @ ELSE "unset"]
    IN  IF fails THEN adns__tcp_broken(t) ELSE t

adns__querysend_tcp(s, q, e) ==
    IF s.tcpstate = "ok" THEN Written(s, <<q>>, e) ELSE s

tcp_connected(s, e) == Written([s EXCEPT !.tcpstate = "ok"], s.tcpw, e)

\* A connect that fails at once is a retry for the queries that wait.
adns__tcp_tryconnect(s, e) ==
    LET t == [Retried(Tried(s, e.refused), ToSet(s.tcpw), e.refused) EXCEPT
                !.tcpserver = NextServer(@, e.refused)]
    IN  IF s.tcpstate # "disconnected" THEN s
        ELSE IF e.refused = nservers \/ e.connect = "nosocket" THEN t
        ELSE IF e.connect = "now" THEN tcp_connected(t, e)
        ELSE [t EXCEPT !.tcpstate = "connecting", !.tcptimeout = "set"]

(***************************************************************************)
(* The end of a query (query.c, types.c).                                   *)
(***************************************************************************)

\* adns_cancel: the queries gone leave their queues and their memory is freed.
Gone(s, gone) ==
    [s EXCEPT !.qu = [q \in Queries |-> IF q \in gone THEN Freed ELSE @[q]],
              !.udpw = Off(@, gone), !.tcpw = Off(@, gone),
              !.childw = Off(@, gone), !.output = Off(@, gone),
              !.sent = @ \ gone]

cancel_children(s, q) == Gone(s, Children(s, q))

adns_cancel(s, q) == Gone(s, {q} \cup Children(s, q))

\* adns__query_done and adns__query_fail of a query of the user: its answer is
\* all that is read of it from now on.
Answered(s, q, status) ==
    LET answer == [Virgin(s.qu[q].kind, None) EXCEPT !.state = "done", !.status = status]
    IN  [cancel_children(s, q) EXCEPT !.qu[q] = answer, !.output = Append(@, q)]

\* Mutant of icb_hostaddr: the parent waits though it has no child left.
icb_hostaddrAlwaysWaits(s, p) == [s EXCEPT !.childw = Append(@, p)]

\* icb_hostaddr: the parent waits for its other children, whatever this one got.
icb_hostaddr(s, p) ==
    IF Children(s, p) # {} THEN [s EXCEPT !.childw = Append(@, p)]
    ELSE Answered(s, p, "ok")

\* icb_ptr: one child that fails, or has not the address, fails its parent.
icb_ptr(s, p, status) ==
    IF status # "ok" THEN Answered(s, p, "failed")
    ELSE icb_hostaddr(s, p)

\* Mutant of adns__query_done: the parent stays on childw.
adns__query_doneKeepsParent(s, q, status) ==
    LET p == s.qu[q].parent
        t == Gone(s, {q})
    IN  IF p = None THEN Answered(s, q, status)
        ELSE IF s.qu[p].kind = "ptr" THEN icb_ptr(t, p, status)
        ELSE icb_hostaddr(t, p)

\* adns__query_done: a child is given to its parent and freed.
adns__query_done(s, q, status) ==
    LET p == s.qu[q].parent
        t == [Gone(s, {q}) EXCEPT !.childw = Off(@, {p})]
    IN  IF p = None THEN Answered(s, q, status)
        ELSE IF s.qu[p].kind = "ptr" THEN icb_ptr(t, p, status)
        ELSE icb_hostaddr(t, p)

adns__query_fail(s, q, status) == adns__query_done(cancel_children(s, q), q, status)

(***************************************************************************)
(* Sending a query (transmit.c, query.c).                                   *)
(***************************************************************************)

\* Mutant of query_usetcp: it is not written to a connection that is up.
query_usetcpNotWritten(s, q, e) ==
    adns__tcp_tryconnect([s EXCEPT !.qu[q].state = "tcpw", !.tcpw = Append(@, q)], e)

query_usetcp(s, q, e) ==
    LET t == [s EXCEPT !.qu[q].state = "tcpw", !.tcpw = Append(@, q)]
    IN  adns__tcp_tryconnect(adns__querysend_tcp(t, q, e), e)

\* Every send over UDP is a retry, to the next server.
SentUdp(s, q) ==
    LET qu == s.qu[q]
        sent == [qu EXCEPT !.udpsent = @ \cup {qu.udpnextserver},
                           !.udpnextserver = NextServer(@, 1),
                           !.retries = @ + 1]
    IN  [s EXCEPT !.udpw = Append(@, q), !.qu[q] = sent]

\* Mutant of adns__query_send: a send over UDP is no retry.
adns__query_sendUncounted(s, q, e) ==
    LET qu == s.qu[q] IN
    IF qu.state # "tosend" THEN Abort(s)
    ELSE IF qu.usevc THEN query_usetcp(s, q, e)
    ELSE IF e.toobig THEN query_usetcp([s EXCEPT !.qu[q].retries = 0], q, e)
    ELSE [SentUdp(s, q) EXCEPT !.qu[q].retries = qu.retries]

\* assert(qu->state == query_tosend)
adns__query_send(s, q, e) ==
    LET qu == s.qu[q] IN
    IF qu.state # "tosend" THEN Abort(s)
    ELSE IF qu.usevc THEN query_usetcp(s, q, e)
    ELSE IF qu.retries >= UDPMAXRETRIES THEN adns__query_fail(s, q, "failed")
    ELSE IF e.toobig THEN query_usetcp([s EXCEPT !.qu[q].retries = 0], q, e)
    ELSE SentUdp(s, q)

\* The next name of the search list; mkquery may find it too long and take the
\* one after it, which is the same with fewer names.
adns__search_next(s, q, e) ==
    IF s.qu[q].names = 0 THEN adns__query_fail(s, q, "failed")
    ELSE adns__query_send([s EXCEPT !.qu[q].names = @ - 1], q, e)

(***************************************************************************)
(* A reply (reply.c).                                                       *)
(***************************************************************************)

\* What a reply says, and whether it shows that the name is an alias.  "error"
\* stands for a bad return code, an answer that cannot be parsed and, for the
\* child of a ptr query, an answer without the address.
Replies ==
    [says: {"error", "nxdomain", "nodata", "referral", "truncated", "answer"},
     alias: BOOLEAN]

\* The replies after which the query may be sent again.
Resends(r) == r.says \in {"nxdomain", "referral", "truncated"}

\* The query leaves the queue where the reply found it.
Matched(s, q) ==
    [s EXCEPT !.udpw = Off(@, {q}), !.tcpw = Off(@, {q}), !.sent = @ \ {q}]

\* Mutant of Restart: the query is sent in the state it waited in.
RestartKeepsState(s, q, e) ==
    adns__query_send(
        [cancel_children(s, q) EXCEPT !.qu[q].retries = 0, !.qu[q].tried = {}], q, e)

\* x_restartquery
Restart(s, q, e) ==
    adns__query_send(
        [cancel_children(s, q) EXCEPT
            !.qu[q].state = "tosend", !.qu[q].retries = 0, !.qu[q].tried = {}],
        q, e)

Forbidden(s, q, r) ==
    /\ r.alias
    /\ \/ s.qu[q].cname
       \/ /\ s.qu[q].parent # None
          /\ s.qu[s.qu[q].parent].kind = "hostaddr"

\* The records of the answer are parsed one by one: they may need children.
Parses(s, q, r) ==
    /\ r.says = "answer"
    /\ ~Forbidden(s, q, r)
    /\ s.qu[q].kind \in {"hostaddr", "ptr"}

adns__procdgram(s, q, r, e) ==
    LET m == Matched(s, q)
        t == [m EXCEPT !.qu[q].cname = @ \/ r.alias]
    IN  IF r.says = "error" \/ Forbidden(s, q, r) THEN adns__query_fail(m, q, "failed")
        ELSE CASE r.says = "truncated" ->
                    Restart([t EXCEPT !.qu[q].usevc = TRUE], q, e)
               [] r.says = "nxdomain" /\ s.qu[q].kind = "search" ->
                    adns__search_next(t, q, e)
               [] r.says = "nodata" \/ (r.says = "nxdomain" /\ s.qu[q].kind # "search") ->
                    adns__query_fail(t, q, "failed")
               [] r.says = "referral" ->
                    IF r.alias THEN Restart(t, q, e) ELSE adns__query_fail(t, q, "failed")
               [] r.says = "answer" ->
                    IF Parses(s, q, r) THEN t ELSE adns__query_done(t, q, "ok")

(***************************************************************************)
(* adns_globalsystemfailure: adns__query_fail is called again and again for *)
(* the head of a queue, but takes it off no queue; the second call finds    *)
(* the final_allocspace the first one left, and asserts that there is none. *)
(***************************************************************************)
adns_globalsystemfailure(s) ==
    IF s.udpw # <<>> \/ s.tcpw # <<>> THEN Abort(s)
    ELSE IF s.tcpstate \in {"connecting", "ok"} THEN adns__tcp_broken(s) ELSE s

-----------------------------------------------------------------------------
(***************************************************************************)
(* The calls of the user.                                                   *)
(***************************************************************************)

Init ==
    /\ ads = NewState
    /\ pc = "idle"
    /\ call = "check"
    /\ due = {}
    /\ cur = None
    /\ fds = {}

\* The clock is read when a call begins.  Each queue is in the order of its
\* timeouts, so those that are over are the first ones of it.  The timer of the
\* connection may be over too.
Clock(s, c) ==
    \E i \in 0..Len(s.udpw), j \in 0..Len(s.tcpw), late \in BOOLEAN:
        /\ due' = ToSet(SubSeq(s.udpw, 1, i)) \cup ToSet(SubSeq(s.tcpw, 1, j))
        /\ ads' = IF late /\ s.tcptimeout = "set" THEN [s EXCEPT !.tcptimeout = "due"] ELSE s
        /\ pc' = "timeouts"
        /\ call' = c
        /\ UNCHANGED cur

Top(q) == ads.qu[q].state # "free" /\ ads.qu[q].parent = None

\* The memory of a freed query is used again, the first there is.
NewSlot(q) == ads.qu[q].state = "free" /\ \A x \in 1..q - 1: ads.qu[x].state # "free"

Accepts ==
    /\ pc = "idle"
    /\ Cardinality({q \in Queries: Top(q)}) < MaxUser

\* adns_submit, which ends in adns__autosys.
Submit(kind) ==
    /\ Accepts
    /\ \E q \in Queries, e \in Outcomes:
         LET s == [ads EXCEPT !.qu[q] = Virgin(kind, None)]
         IN  /\ NewSlot(q)
             /\ Clock(IF kind = "search" THEN adns__search_next(s, q, e)
                      ELSE adns__query_send(s, q, e), "processany")
    /\ UNCHANGED fds

\* A name that cannot be asked for is an answer of its own: query_simple finds it
\* out, and adns__autosys follows, or its length does (x_adnsfail), and nothing.
SubmitBad ==
    /\ Accepts
    /\ \E q \in Queries:
         LET s == adns__query_fail([ads EXCEPT !.qu[q] = Virgin("addr", None)], q, "failed")
         IN  /\ NewSlot(q)
             /\ \/ Clock(s, "processany")
                \/ ads' = s /\ UNCHANGED <<pc, call, due, cur>>
    /\ UNCHANGED fds

\* adns_check
Check ==
    /\ pc = "idle"
    /\ Clock(ads, "check")
    /\ UNCHANGED fds

\* adns_afterpoll, adns_afterselect: the events were asked for before the call,
\* and may be those of a connection that has gone, whose descriptor another one
\* got since.
Poll ==
    /\ pc = "idle" /\ Polls
    /\ Clock(ads, "poll")
    /\ fds' \in SUBSET {"udp", "in", "out", "pri"}

Cancel(q) ==
    /\ pc = "idle" /\ Top(q)
    /\ ads' = adns_cancel(ads, q)
    /\ UNCHANGED <<pc, call, due, cur, fds>>

\* adns_finish; the crawler may start again with adns_init.
Finish ==
    /\ pc = "idle"
    /\ ads' = NewState
    /\ UNCHANGED <<pc, call, due, cur, fds>>

(***************************************************************************)
(* adns__timeouts: timeouts_queue for both queues, then tcp_events.         *)
(***************************************************************************)

Goto(l) == pc' = l /\ UNCHANGED <<call, due, fds>>

Late(queue) == ToSet(queue) \cap due

\* q is the first query of the queue whose timeout is over.
FirstLate(queue, q) ==
    \E i \in DOMAIN queue:
        queue[i] = q /\ q \in due /\ \A j \in 1..i - 1: queue[j] \notin due

TimeoutUdp ==
    /\ pc = "timeouts"
    /\ \E q \in Queries:
         /\ FirstLate(ads.udpw, q)
         /\ \E e \in Outcomes:
              ads' = adns__query_send([ads EXCEPT !.udpw = Off(@, {q})], q, e)
         /\ due' = due \ {q}
    /\ UNCHANGED <<pc, call, cur, fds>>

\* Mutant of TimeoutTcp: the query that fails is left on tcpw.
TimeoutTcpNotUnlinked ==
    /\ pc = "timeouts" /\ Late(ads.udpw) = {}
    /\ \E q \in Queries:
         /\ FirstLate(ads.tcpw, q)
         /\ ads' = adns__query_fail(ads, q, "failed")
         /\ due' = due \ {q}
    /\ UNCHANGED <<pc, call, cur, fds>>

TimeoutTcp ==
    /\ pc = "timeouts" /\ Late(ads.udpw) = {}
    /\ \E q \in Queries:
         /\ FirstLate(ads.tcpw, q)
         /\ ads' = adns__query_fail(Matched(ads, q), q, "failed")
         /\ due' = due \ {q}
    /\ UNCHANGED <<pc, call, cur, fds>>

\* tcp_events: the loop goes on until the connection needs nothing more.
Events(state) ==
    /\ pc = "timeouts" /\ Late(ads.udpw) = {} /\ Late(ads.tcpw) = {}
    /\ ads.tcpstate = state

\* tcp_events, "case server_broken": the loop over tcpw saves the next query
\* before it fails one.
Broken ==
    /\ Events("broken")
    /\ cur' = IF ads.tcpw = <<>> THEN None ELSE Head(ads.tcpw)
    /\ Goto("broken")
    /\ UNCHANGED ads

After(queue, q) ==
    LET i == CHOOSE i \in DOMAIN queue: queue[i] = q
    IN  IF i = Len(queue) THEN None ELSE queue[i + 1]

\* Mutant of BrokenQuery: one retry more.
BrokenQueryOneMore ==
    /\ pc = "broken" /\ cur # None
    /\ IF cur \notin ToSet(ads.tcpw) THEN ads' = Abort(ads) /\ UNCHANGED cur
       ELSE /\ cur' = After(ads.tcpw, cur)
            /\ ads' = IF ads.qu[cur].retries > nservers + 1
                      THEN adns__query_fail(Matched(ads, cur), cur, "allservfail")
                      ELSE ads
    /\ UNCHANGED <<pc, call, due, fds>>

\* A query that every server failed is failed; one that was freed meanwhile is
\* read all the same: assert(qu->state == query_tcpw).
BrokenQuery ==
    /\ pc = "broken" /\ cur # None
    /\ IF cur \notin ToSet(ads.tcpw) THEN ads' = Abort(ads) /\ UNCHANGED cur
       ELSE /\ cur' = After(ads.tcpw, cur)
            /\ ads' = IF ads.qu[cur].retries > nservers
                      THEN adns__query_fail(Matched(ads, cur), cur, "allservfail")
                      ELSE ads
    /\ UNCHANGED <<pc, call, due, fds>>

\* Mutant of BrokenEnd: the connection stays broken.
BrokenEndStaysBroken ==
    /\ pc = "broken" /\ cur = None
    /\ Goto("timeouts")
    /\ UNCHANGED <<ads, cur>>

BrokenEnd ==
    /\ pc = "broken" /\ cur = None
    /\ ads' = [ads EXCEPT !.tcpstate = "disconnected"]
    /\ Goto("timeouts")
    /\ UNCHANGED cur

\* "case server_disconnected"
Reconnect ==
    /\ Events("disconnected") /\ ads.tcpw # <<>>
    /\ \E e \in Outcomes: ads' = adns__tcp_tryconnect(ads, e)
    /\ UNCHANGED <<pc, call, due, cur, fds>>

\* The connection was not made in time.
ConnectTimeout ==
    /\ Events("connecting") /\ ads.tcptimeout = "due"
    /\ ads' = adns__tcp_broken(ads)
    /\ UNCHANGED <<pc, call, due, cur, fds>>

\* adns__pollfds; adns_processany tries what it names, but for POLLPRI, and
\* adns_afterpoll what the caller found.
Pollfds(s) ==
    {"udp"} \cup (IF s.tcpstate = "ok" THEN {"in"} ELSE {})
            \cup (IF s.tcpstate = "connecting" \/ (s.tcpstate = "ok" /\ s.tcpsend)
                  THEN {"out"} ELSE {})

\* tcp_events returns: nothing to connect for, or a connection that may last.
\* The idle timer is started, or is over.
EventsEnd ==
    /\ \/ Events("disconnected") /\ ads.tcpw = <<>> /\ ads' = ads
       \/ Events("ok") /\ ads.tcpw # <<>> /\ ads' = ads
       \/ Events("connecting") /\ ads.tcptimeout # "due" /\ ads' = ads
       \/ /\ Events("ok") /\ ads.tcpw = <<>> /\ ads.tcptimeout # "due"
          /\ ads' = [ads EXCEPT !.tcptimeout = "set"]
       \/ /\ Events("ok") /\ ads.tcpw = <<>> /\ ads.tcptimeout = "due"
          /\ ads' = [tcp_close(ads) EXCEPT !.tcpstate = "disconnected"]
    /\ pc' = "fds"
    /\ fds' = IF call = "poll" THEN fds ELSE Pollfds(ads')
    /\ due' = {}
    /\ UNCHANGED <<call, cur>>

(***************************************************************************)
(* adns__fdevents.                                                          *)
(***************************************************************************)

\* For each descriptor: to read, to write, an exceptional condition.
Turn(event) ==
    /\ pc = "fds" /\ fds # {}
    /\ event = Head(SelectSeq(<<"udp", "in", "out", "pri">>, LAMBDA v: v \in fds))

Handled(event) == fds' = fds \ {event} /\ UNCHANGED <<pc, call, due, cur>>

\* What a function that lacks resources makes of it: processany gives up the
\* event, the others call adns_globalsystemfailure.
Lacking(s) ==
    IF "system" \in Faults
    THEN {IF call = "poll" THEN adns_globalsystemfailure(s) ELSE s} ELSE {}

Reply(q, r) ==
    /\ \E e \in IF Resends(r) THEN Outcomes ELSE {Quiet}:
         ads' = adns__procdgram(ads, q, r, e)
    /\ IF Parses(ads, q, r) THEN pc' = "parse" /\ cur' = q ELSE UNCHANGED <<pc, cur>>
    /\ UNCHANGED <<call, due, fds>>

\* adns_processreadable: a datagram of a server that was asked, then no more.
UdpReply ==
    /\ Turn("udp")
    /\ \E q \in ToSet(ads.udpw), r \in Replies: Reply(q, r)

UdpEnd ==
    /\ Turn("udp") /\ Handled("udp")
    /\ ads' \in {ads} \cup Lacking(ads)

\* adns_processreadable: the replies read from the connection, while it lasts.
TcpReply ==
    /\ Turn("in") /\ ads.tcpstate = "ok"
    /\ \E q \in ToSet(ads.tcpw), r \in Replies:
         (r.says = "truncated" => "tcp_tc" \in Faults) /\ Reply(q, r)

TcpReadEnd ==
    /\ Turn("in") /\ Handled("in")
    /\ ads' \in {ads} \cup (IF ads.tcpstate = "ok"
                            THEN {adns__tcp_broken(ads)} \cup Lacking(ads) ELSE {})

\* adns_processwriteable: the end of a connect (a read that would block is taken
\* for a connection), or the buffered queries.
TcpWrite ==
    /\ Turn("out") /\ Handled("out")
    /\ \/ /\ ads.tcpstate = "connecting"
          /\ \/ \E e \in Outcomes: ads' = tcp_connected(ads, e)
             \/ ads' \in {adns__tcp_broken(ads)} \cup Lacking(ads)
       \/ /\ ads.tcpstate = "ok" /\ ads.tcpsend
          /\ ads' \in {ads, [ads EXCEPT !.tcpsend = FALSE], adns__tcp_broken(ads)}
                      \cup Lacking(ads)
       \/ /\ ads.tcpstate # "connecting"
          /\ ads.tcpstate = "ok" => ~ads.tcpsend
          /\ ads' = ads

\* adns_processexceptional
TcpExcept ==
    /\ Turn("pri") /\ Handled("pri")
    /\ ads' = IF ads.tcpstate \in {"connecting", "ok"} THEN adns__tcp_broken(ads) ELSE ads

\* adns__internal_submit: a record of the answer needs a query of its own.
NewChild(kind) ==
    /\ pc = "parse" /\ ads.qu[cur].kind = kind
    /\ Cardinality(Children(ads, cur)) < MaxKids
    /\ \E c \in Queries, e \in Outcomes:
         /\ NewSlot(c)
         /\ ads' = adns__query_send([ads EXCEPT !.qu[c] = Virgin("addr", cur)], c, e)
    /\ UNCHANGED <<pc, call, due, cur, fds>>

\* A host whose addresses are not in the answer; a name that may not have the
\* address it was asked for.
pap_hostaddr == NewChild("hostaddr")
pa_ptr == NewChild("ptr")

\* The record is bad.
ParseFailed ==
    /\ pc = "parse"
    /\ ads' = adns__query_fail(ads, cur, "failed")
    /\ cur' = None /\ Goto("fds")

\* The addresses of all the hosts came with the answer (pap_findaddrs); every ptr
\* record has a query.
ParsedAll ==
    /\ pc = "parse" /\ Children(ads, cur) = {} /\ ads.qu[cur].kind = "hostaddr"
    /\ ads' = adns__query_done(ads, cur, "ok")
    /\ cur' = None /\ Goto("fds")

\* The query waits for its children; what is left of it is its kind.
ParsedChildren ==
    /\ pc = "parse" /\ Children(ads, cur) # {}
    /\ ads' = [ads EXCEPT
                !.qu[cur] = [Virgin(ads.qu[cur].kind, None) EXCEPT !.state = "childw"],
                !.childw = Append(@, cur)]
    /\ cur' = None /\ Goto("fds")

Returns ==
    /\ pc = "fds" /\ fds = {}
    /\ pc' = "idle" /\ call' = "check"
    /\ UNCHANGED <<due, cur, fds>>

\* adns__internal_check without a query: the first answer is taken.
Take ==
    /\ call = "check" /\ ads.output # <<>>
    /\ ads' = Gone(ads, {Head(ads.output)})
    /\ Returns

\* EAGAIN if a query waits for a server, else ESRCH; or a call that takes none.
Return ==
    /\ call = "check" => ads.output = <<>>
    /\ Returns
    /\ UNCHANGED ads

Loops ==
    \/ TimeoutUdp \/ TimeoutTcp
    \/ Broken \/ BrokenQuery \/ BrokenEnd
    \/ Reconnect \/ ConnectTimeout \/ EventsEnd
    \/ UdpEnd \/ TcpReadEnd \/ TcpWrite \/ TcpExcept
    \/ ParseFailed \/ ParsedAll \/ ParsedChildren
    \/ Take \/ Return

Next ==
    /\ ~ads.abort
    /\ \/ \E kind \in Kinds: Submit(kind)
       \/ SubmitBad \/ Check \/ Poll \/ Finish
       \/ \E q \in Queries: Cancel(q)
       \/ UdpReply \/ TcpReply \/ pap_hostaddr \/ pa_ptr
       \/ Loops

Spec == Init /\ [][Next]_vars

\* A call goes on to its end.  The user calls adns_check again and again, and a
\* query that stays on a queue is found late by one of these calls.
CheckLate(q) == Check /\ q \in due'

Fairness == WF_vars(Loops) /\ \A q \in Queries: SF_vars(CheckLate(q))

FairSpec == Spec /\ Fairness

(***************************************************************************)
(* Properties.                                                              *)
(***************************************************************************)

QueryRecords ==
    [state: States, kind: Kinds \cup {"addr"}, parent: {None} \cup Queries,
     status: {"ok", "failed", "allservfail"},
     retries: Nat, udpnextserver: Servers, udpsent: SUBSET Servers,
     usevc: BOOLEAN, cname: BOOLEAN, names: 0..SearchNames,
     tried: SUBSET Servers]

AdnsStates ==
    [qu: [Queries -> QueryRecords],
     udpw: Seq(Queries), tcpw: Seq(Queries), childw: Seq(Queries),
     output: Seq(Queries),
     tcpstate: {"disconnected", "connecting", "ok", "broken"},
     tcpserver: Servers, tcpsend: BOOLEAN,
     tcptimeout: {"unset", "set", "due"},
     sent: SUBSET Queries, abort: BOOLEAN]

\* The type of every variable.
TypeOK ==
    /\ ads \in AdnsStates
    /\ pc \in {"idle", "timeouts", "broken", "fds", "parse"}
    /\ call \in {"processany", "check", "poll"}
    /\ due \subseteq Queries
    /\ cur \in {None} \cup Queries
    /\ fds \subseteq {"udp", "in", "out", "pri"}

\* No step meets an assertion of the code, nor reads a query that was freed.
NoAbort == ~ads.abort

On(queue, states) ==
    /\ \A i \in DOMAIN queue: ads.qu[queue[i]].state \in states
    /\ \A i, j \in DOMAIN queue: queue[i] = queue[j] => i = j

\* Each query is on the one queue its state says, once, unless it is the one
\* whose answer is being parsed.  A query waits for children only if it has some,
\* and they wait for a server (check.c, checkc_queue_udpw to
\* checkc_queue_output).
QueuesExact ==
    /\ On(ads.udpw, {"tosend"}) /\ On(ads.tcpw, {"tcpw"})
    /\ On(ads.childw, {"childw"}) /\ On(ads.output, {"done"})
    /\ \A q \in Queries: ads.qu[q].state = "free" \/ q \in
         ToSet(ads.udpw) \cup ToSet(ads.tcpw) \cup ToSet(ads.childw) \cup ToSet(ads.output)
         \cup (IF pc = "parse" THEN {cur} ELSE {})
    /\ \A q \in Queries: Children(ads, q) # {} => q = cur \/ ads.qu[q].state = "childw"
    /\ \A q \in ToSet(ads.childw):
         /\ Children(ads, q) # {}
         /\ \A c \in Children(ads, q): ads.qu[c].state \in {"tosend", "tcpw"}

\* ESRCH says that there is no query at all: none can be answered later
\* (adns__internal_check looks at udpw and tcpw alone).
EsrchMeansNone ==
    ads.udpw = <<>> /\ ads.tcpw = <<>> /\ ads.output = <<>> /\ pc # "parse" =>
        \A q \in Queries: ads.qu[q].state = "free"

\* A connection that is down, or not yet up, has nothing to send, and one that is
\* being made has a timeout (check.c, checkc_global; internal.h:293).
TcpDownIsClean ==
    /\ ads.tcpstate # "ok" => ~ads.tcpsend /\ ads.sent = {}
    /\ ads.tcpstate = "connecting" => ads.tcptimeout # "unset"

\* The queries that wait for TCP have been given to the connection iff there is
\* one (internal.h:226).
SentIffUp == ads.sent = IF ads.tcpstate = "ok" THEN ToSet(ads.tcpw) ELSE {}

\* A query waits on a queue only within its retries (check.c, checkc_queue_udpw
\* and checkc_queue_tcpw), as long as no connect fails at once: tcp_broken then
\* counts a retry for each server before the queue is looked at again, and the
\* assertion of check.c does not hold (Faults without "connect").
RetriesBounded ==
    /\ \A q \in ToSet(ads.udpw):
         ads.qu[q].retries \in 1..UDPMAXRETRIES /\ ads.qu[q].udpsent # {}
    /\ \A q \in ToSet(ads.tcpw): ads.qu[q].retries <= nservers + 1

\* A query fails with adns_s_allservfail only after the connection to each server
\* broke while it waited for it.
AllServersTried ==
    [][\A q \in Queries:
         ads'.qu[q].status = "allservfail" /\ ads.qu[q].status # "allservfail" =>
             ads.qu[q].tried = Servers]_vars

Pending(q) == Top(q) /\ ads.qu[q].state # "done"

R == INSTANCE Resolver WITH
    pending <- {q \in Queries: Pending(q)}, answered <- ads.output

\* Every accepted query is answered once, and its answer is there until it is
\* taken.
IsResolver == R!Spec

\* A call comes back.
CallReturns == pc # "idle" ~> pc = "idle"

\* A query is answered, good or bad, if it is not cancelled, whatever the servers
\* do.
Answers == \A q \in Queries: Pending(q) ~> ~Pending(q)

=============================================================================
