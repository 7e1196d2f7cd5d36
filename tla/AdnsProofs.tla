----------------------------- MODULE AdnsProofs -----------------------------
(***************************************************************************)
(* The resolver, for any number of queries, children and servers, and       *)
(* whatever the sockets give.  The functions of the code are operators from *)
(* state to state that call one another: each of them is shown to keep an   *)
(* invariant, from the inside out, and then so does each step.  Here are:   *)
(*   - the connection: when it is down nothing is left to send, which       *)
(*     adns__tcp_tryconnect asserts, and one being made has a timeout;      *)
(*   - the types of the state, and what a query that wants tcp keeps;       *)
(*   - the retries of a query that waits for the connection, against the    *)
(*     servers that failed it, while the connection goes round the servers; *)
(*   - the queues are exact, and what is sent is what is on a queue;        *)
(*   - the resolver implements Resolver: a query is answered once, and not  *)
(*     after it is cancelled;                                               *)
(*   - a query fails for good only when each server was tried, and its      *)
(*     retries stay in their bound;                                         *)
(*   - no assertion of the code fails, but for the uses of it that the      *)
(*     crawler does not make.                                               *)
(***************************************************************************)
EXTENDS Adns, QueueLemmas

\* The fields of adns__state that the connection is about.
Fields == {"tcpstate", "tcpsend", "tcptimeout", "sent"}

IsState(s) == \A f \in Fields : f \in DOMAIN s

\* TcpDownIsClean of a state s.
Clean(s) ==
    /\ IsState(s)
    /\ s.tcpstate # "ok" => s.tcpsend = FALSE /\ s.sent = {}
    /\ s.tcpstate = "connecting" => s.tcptimeout # "unset"

\* State t is clean, and its connection is where it was in s.
CleanAs(s, t) == Clean(t) /\ t.tcpstate = s.tcpstate

\* Inside the loop of "case server_broken" the connection stays broken.
InBroken == pc = "broken" => ads.tcpstate = "broken"

\* Nothing but the queries, and their queues, differ.
SameTcp(s, t) ==
    /\ IsState(t)
    /\ t.tcpstate = s.tcpstate /\ t.tcpsend = s.tcpsend
    /\ t.tcptimeout = s.tcptimeout /\ t.sent = s.sent

LEMMA SameTcpClean ==
    ASSUME NEW s, Clean(s), NEW t, SameTcp(s, t)
    PROVE  Clean(t)
  BY DEF SameTcp, Clean

\* A resolver begins without a connection.
LEMMA NewStateClean == Clean(NewState)
  BY DEF NewState, Clean, IsState, Fields

-----------------------------------------------------------------------------
(***************************************************************************)
(* The connection (event.c, transmit.c).                                    *)
(***************************************************************************)

\* Retries and history are no matter of the connection.
LEMMA RetriedSame ==
    ASSUME NEW s, IsState(s), NEW qs, NEW n
    PROVE  SameTcp(s, Retried(s, qs, n)) /\ SameTcp(s, Tried(s, n))
  BY DEF SameTcp, IsState, Fields, Retried, Tried

\* A connection that breaks leaves nothing to send, whatever there was.
LEMMA BrokenClean ==
    ASSUME NEW s, IsState(s)
    PROVE  Clean(adns__tcp_broken(s)) /\ adns__tcp_broken(s).tcpstate = "broken"
  BY DEF adns__tcp_broken, tcp_close, Tried, Retried, Clean, IsState, Fields

\* Queries are written to a connection that is up: it stays so, or breaks.
LEMMA WrittenClean ==
    ASSUME NEW s, IsState(s), s.tcpstate = "ok", NEW qs, NEW e
    PROVE  Clean(Written(s, qs, e))
  <1> DEFINE fails == ~s.tcpsend /\ e.breaks < Len(qs)
             given == ToSet(IF fails THEN SubSeq(qs, 1, e.breaks + 1) ELSE qs)
             r == Retried(s, given, 1)
             t == [r EXCEPT !.sent = @ \cup given,
                            !.tcpsend = @ \/ (e.part /\ qs # <<>>),
                            !.tcptimeout = IF qs = <<>> THEN @ ELSE "unset"]
  <1>1. IsState(r) /\ r.tcpstate = "ok"
    BY RetriedSame DEF SameTcp
  <1> HIDE DEF given, r
  <1>2. IsState(t) /\ t.tcpstate = "ok"
    BY <1>1 DEF IsState, Fields
  <1> HIDE DEF t
  <1>3. Clean(t) /\ Clean(adns__tcp_broken(t))
    BY <1>2, BrokenClean DEF Clean
  <1>4. Written(s, qs, e) = IF fails THEN adns__tcp_broken(t) ELSE t
    BY DEF Written, t, r, given
  <1> QED BY <1>3, <1>4

LEMMA QuerysendClean ==
    ASSUME NEW s, Clean(s), NEW q, NEW e
    PROVE  Clean(adns__querysend_tcp(s, q, e))
  BY WrittenClean DEF adns__querysend_tcp, Clean

LEMMA ConnectedClean ==
    ASSUME NEW s, IsState(s), NEW e
    PROVE  Clean(tcp_connected(s, e))
  <1> DEFINE t == [s EXCEPT !.tcpstate = "ok"]
  <1>1. IsState(t) /\ t.tcpstate = "ok"
    BY DEF IsState, Fields
  <1> QED BY <1>1, WrittenClean DEF tcp_connected

\* A connect is begun only when there is no connection.
LEMMA TryconnectClean ==
    ASSUME NEW s, Clean(s), NEW e
    PROVE  Clean(adns__tcp_tryconnect(s, e))
  <1> DEFINE r == Retried(Tried(s, e.refused), ToSet(s.tcpw), e.refused)
             t == [r EXCEPT !.tcpserver = NextServer(@, e.refused)]
  <1>1. SameTcp(s, r)
    BY RetriedSame DEF SameTcp, Clean
  <1>2. SameTcp(s, t)
    BY <1>1 DEF SameTcp, IsState, Fields
  <1>3. Clean(t)
    BY <1>2, SameTcpClean
  <1>4. Clean(tcp_connected(t, e))
    BY <1>3, ConnectedClean DEF Clean
  <1>5. s.tcpstate = "disconnected" =>
          Clean([t EXCEPT !.tcpstate = "connecting", !.tcptimeout = "set"])
    BY <1>2, <1>3 DEF SameTcp, Clean, IsState, Fields
  <1> QED BY <1>3, <1>4, <1>5 DEF adns__tcp_tryconnect

-----------------------------------------------------------------------------
(***************************************************************************)
(* The end of a query (query.c, types.c).                                   *)
(***************************************************************************)

LEMMA GoneClean ==
    ASSUME NEW s, Clean(s), NEW gone
    PROVE  CleanAs(s, Gone(s, gone))
  BY DEF Gone, CleanAs, Clean, IsState, Fields

LEMMA CancelClean ==
    ASSUME NEW s, Clean(s), NEW q
    PROVE  CleanAs(s, cancel_children(s, q)) /\ CleanAs(s, adns_cancel(s, q))
  BY GoneClean DEF cancel_children, adns_cancel

LEMMA AnsweredClean ==
    ASSUME NEW s, Clean(s), NEW q, NEW status
    PROVE  CleanAs(s, Answered(s, q, status))
  <1>1. CleanAs(s, cancel_children(s, q))
    BY CancelClean
  <1>2. SameTcp(cancel_children(s, q), Answered(s, q, status))
    BY <1>1 DEF Answered, SameTcp, CleanAs, Clean, IsState, Fields
  <1> QED BY <1>1, <1>2, SameTcpClean DEF CleanAs, SameTcp

\* The callbacks that a parent has for its children.
LEMMA CallbackClean ==
    ASSUME NEW s, Clean(s), NEW p, NEW status
    PROVE  CleanAs(s, icb_hostaddr(s, p)) /\ CleanAs(s, icb_ptr(s, p, status))
  <1>1. CleanAs(s, [s EXCEPT !.childw = Append(@, p)])
    BY DEF CleanAs, Clean, IsState, Fields
  <1>2. CleanAs(s, icb_hostaddr(s, p))
    BY <1>1, AnsweredClean DEF icb_hostaddr
  <1> QED BY <1>2, AnsweredClean DEF icb_ptr

LEMMA QueryDoneClean ==
    ASSUME NEW s, Clean(s), NEW q, NEW status
    PROVE  CleanAs(s, adns__query_done(s, q, status))
  <1> DEFINE g == Gone(s, {q})
             p == s.qu[q].parent
             t == [g EXCEPT !.childw = Off(@, {p})]
  <1>1. CleanAs(s, g)
    BY GoneClean
  <1>2. CleanAs(s, t)
    BY <1>1 DEF CleanAs, Clean, IsState, Fields
  <1>3. CleanAs(s, Answered(s, q, status))
    BY AnsweredClean
  <1> HIDE DEF g, t
  <1>4. CleanAs(s, icb_ptr(t, p, status)) /\ CleanAs(s, icb_hostaddr(t, p))
    BY <1>2, CallbackClean DEF CleanAs
  <1> QED BY <1>3, <1>4 DEF adns__query_done, g, t

LEMMA QueryFailClean ==
    ASSUME NEW s, Clean(s), NEW q, NEW status
    PROVE  CleanAs(s, adns__query_fail(s, q, status))
  BY CancelClean, QueryDoneClean DEF adns__query_fail, CleanAs

-----------------------------------------------------------------------------
(***************************************************************************)
(* Sending a query, and its reply (transmit.c, query.c, reply.c).           *)
(***************************************************************************)

LEMMA UsetcpClean ==
    ASSUME NEW s, Clean(s), NEW q, NEW e
    PROVE  Clean(query_usetcp(s, q, e))
  <1> DEFINE t == [s EXCEPT !.qu[q].state = "tcpw", !.tcpw = Append(@, q)]
  <1>1. Clean(t)
    BY DEF Clean, IsState, Fields
  <1>2. Clean(adns__querysend_tcp(t, q, e))
    BY <1>1, QuerysendClean
  <1>3. Clean(adns__tcp_tryconnect(adns__querysend_tcp(t, q, e), e))
    BY <1>2, TryconnectClean
  <1> QED BY <1>3 DEF query_usetcp

LEMMA QuerySendClean ==
    ASSUME NEW s, Clean(s), NEW q, NEW e
    PROVE  Clean(adns__query_send(s, q, e))
  <1>1. Clean(Abort(s))
    BY DEF Abort, Clean, IsState, Fields
  <1>2. Clean(query_usetcp(s, q, e))
    BY UsetcpClean
  <1>3. Clean(adns__query_fail(s, q, "failed"))
    BY QueryFailClean DEF CleanAs
  <1> DEFINE t == [s EXCEPT !.qu[q].retries = 0]
  <1>4. Clean(t)
    BY DEF Clean, IsState, Fields
  <1>5. Clean(query_usetcp(t, q, e))
    BY <1>4, UsetcpClean
  <1>6. Clean(SentUdp(s, q))
    BY DEF SentUdp, Clean, IsState, Fields
  <1> HIDE DEF t
  <1>7. adns__query_send(s, q, e) \in
          {Abort(s), query_usetcp(s, q, e), adns__query_fail(s, q, "failed"),
           query_usetcp(t, q, e), SentUdp(s, q)}
    BY DEF adns__query_send, t
  <1> QED BY <1>1, <1>2, <1>3, <1>5, <1>6, <1>7

LEMMA SearchNextClean ==
    ASSUME NEW s, Clean(s), NEW q, NEW e
    PROVE  Clean(adns__search_next(s, q, e))
  <1> DEFINE t == [s EXCEPT !.qu[q].names = @ - 1]
  <1>1. Clean(t)
    BY DEF Clean, IsState, Fields
  <1>2. Clean(adns__query_send(t, q, e)) /\ Clean(adns__query_fail(s, q, "failed"))
    BY <1>1, QuerySendClean, QueryFailClean DEF CleanAs
  <1> QED BY <1>2 DEF adns__search_next

LEMMA MatchedClean ==
    ASSUME NEW s, Clean(s), NEW q
    PROVE  CleanAs(s, Matched(s, q))
  BY DEF Matched, CleanAs, Clean, IsState, Fields

LEMMA RestartClean ==
    ASSUME NEW s, Clean(s), NEW q, NEW e
    PROVE  Clean(Restart(s, q, e))
  <1> DEFINE c == cancel_children(s, q)
             t == [c EXCEPT !.qu[q].state = "tosend", !.qu[q].retries = 0,
                            !.qu[q].tried = {}]
  <1>1. Clean(c)
    BY CancelClean DEF CleanAs
  <1>2. Clean(t)
    BY <1>1 DEF Clean, IsState, Fields
  <1> QED BY <1>2, QuerySendClean DEF Restart

LEMMA ProcdgramClean ==
    ASSUME NEW s, Clean(s), NEW q, NEW r \in Replies, NEW e
    PROVE  Clean(adns__procdgram(s, q, r, e))
  <1> DEFINE m == Matched(s, q)
             t == [m EXCEPT !.qu[q].cname = @ \/ r.alias]
             u == [t EXCEPT !.qu[q].usevc = TRUE]
  <1>1. Clean(m)
    BY MatchedClean DEF CleanAs
  <1>2. Clean(t)
    BY <1>1 DEF Clean, IsState, Fields
  <1>3. Clean(u)
    BY <1>2 DEF Clean, IsState, Fields
  <1>4. /\ Clean(adns__query_fail(m, q, "failed"))
        /\ Clean(adns__query_fail(t, q, "failed"))
        /\ Clean(adns__query_done(t, q, "ok"))
    BY <1>1, <1>2, QueryFailClean, QueryDoneClean DEF CleanAs
  <1>5. /\ Clean(Restart(t, q, e)) /\ Clean(Restart(u, q, e))
        /\ Clean(adns__search_next(t, q, e))
    BY <1>2, <1>3, RestartClean, SearchNextClean
  <1>6. adns__procdgram(s, q, r, e) \in
          {adns__query_fail(m, q, "failed"), adns__query_fail(t, q, "failed"),
           adns__query_done(t, q, "ok"), t,
           Restart(t, q, e), Restart(u, q, e), adns__search_next(t, q, e)}
    <2> HIDE DEF m
    <2>1. r.says \in {"error", "nxdomain", "nodata", "referral", "truncated", "answer"}
      BY DEF Replies
    <2> QED BY <2>1 DEF adns__procdgram, m
  <1> HIDE DEF m, t, u
  <1> QED BY <1>2, <1>4, <1>5, <1>6

LEMMA SystemFailureClean ==
    ASSUME NEW s, Clean(s)
    PROVE  Clean(adns_globalsystemfailure(s))
  <1>1. Clean(Abort(s))
    BY DEF Abort, Clean, IsState, Fields
  <1>2. Clean(adns__tcp_broken(s))
    BY BrokenClean DEF Clean
  <1> QED BY <1>1, <1>2 DEF adns_globalsystemfailure

\* A state is read as it was, but for the clock.
LEMMA ClockClean ==
    ASSUME NEW s, Clean(s), NEW c, Clock(s, c)
    PROVE  Clean(ads')
  BY DEF Clock, Clean, IsState, Fields

LEMMA ReplyClean ==
    ASSUME Clean(ads), NEW q, NEW r \in Replies, Reply(q, r)
    PROVE  Clean(ads')
  BY ProcdgramClean DEF Reply

-----------------------------------------------------------------------------
(***************************************************************************)
(* The steps.                                                               *)
(***************************************************************************)

\* The calls of the user.
LEMMA UserClean ==
    ASSUME Clean(ads),
           (\E kind \in Kinds : Submit(kind)) \/ SubmitBad \/ Check \/ Poll \/ Finish
             \/ \E q \in Queries : Cancel(q)
    PROVE  Clean(ads')
  <1> DEFINE New(q, kind, p) == [ads EXCEPT !.qu[q] = Virgin(kind, p)]
  <1>1. ASSUME NEW q, NEW kind, NEW p PROVE Clean(New(q, kind, p))
    BY DEF Clean, IsState, Fields
  <1>2. ASSUME NEW kind, Submit(kind) PROVE Clean(ads')
    <2>1. PICK q \in Queries, e \in Outcomes :
            Clock(IF kind = "search" THEN adns__search_next(New(q, kind, None), q, e)
                  ELSE adns__query_send(New(q, kind, None), q, e), "processany")
      BY <1>2 DEF Submit
    <2>2. Clean(New(q, kind, None))
      BY <1>1
    <2> HIDE DEF New
    <2>3. Clean(IF kind = "search" THEN adns__search_next(New(q, kind, None), q, e)
                ELSE adns__query_send(New(q, kind, None), q, e))
      BY <2>2, SearchNextClean, QuerySendClean
    <2> QED BY <2>1, <2>3, ClockClean
  <1>3. CASE SubmitBad
    <2> DEFINE s(q) == adns__query_fail(New(q, "addr", None), q, "failed")
    <2>1. PICK q \in Queries : ads' = s(q) \/ Clock(s(q), "processany")
      BY <1>3 DEF SubmitBad
    <2>2. Clean(New(q, "addr", None))
      BY <1>1
    <2> HIDE DEF New
    <2>3. Clean(s(q))
      BY <2>2, QueryFailClean DEF CleanAs
    <2> HIDE DEF s
    <2> QED BY <2>1, <2>3, ClockClean
  <1>4. CASE Check \/ Poll
    BY <1>4, ClockClean DEF Check, Poll
  <1>5. CASE Finish
    BY <1>5, NewStateClean DEF Finish
  <1>6. CASE \E q \in Queries : Cancel(q)
    BY <1>6, CancelClean DEF Cancel, CleanAs
  <1> QED BY <1>2, <1>3, <1>4, <1>5, <1>6

\* Timeouts, and the loop of tcp_events.
LEMMA TimeoutsClean ==
    ASSUME Clean(ads), InBroken,
           TimeoutUdp \/ TimeoutTcp \/ Broken \/ BrokenQuery \/ BrokenEnd
             \/ Reconnect \/ ConnectTimeout \/ EventsEnd
    PROVE  Clean(ads')
  <1>1. CASE TimeoutUdp
    <2> DEFINE t(q) == [ads EXCEPT !.udpw = Off(@, {q})]
    <2>1. \E q, e : ads' = adns__query_send(t(q), q, e)
      BY <1>1 DEF TimeoutUdp
    <2>2. \A q : Clean(t(q))
      BY DEF Clean, IsState, Fields
    <2> HIDE DEF t
    <2> QED BY <2>1, <2>2, QuerySendClean
  <1>2. CASE TimeoutTcp
    BY <1>2, MatchedClean, QueryFailClean DEF TimeoutTcp, CleanAs
  <1>3. CASE Broken
    BY <1>3 DEF Broken
  <1>4. CASE BrokenQuery
    <2>1. ads' \in {Abort(ads), adns__query_fail(Matched(ads, cur), cur, "allservfail"), ads}
      BY <1>4 DEF BrokenQuery
    <2>2. Clean(Abort(ads))
      BY DEF Abort, Clean, IsState, Fields
    <2>3. Clean(adns__query_fail(Matched(ads, cur), cur, "allservfail"))
      BY MatchedClean, QueryFailClean DEF CleanAs
    <2> QED BY <2>1, <2>2, <2>3
  <1>5. CASE BrokenEnd
    BY <1>5 DEF BrokenEnd, InBroken, Clean, IsState, Fields
  <1>6. CASE Reconnect
    BY <1>6, TryconnectClean DEF Reconnect
  <1>7. CASE ConnectTimeout
    BY <1>7, BrokenClean DEF ConnectTimeout, Clean
  <1>8. CASE EventsEnd
    BY <1>8 DEF EventsEnd, tcp_close, Clean, IsState, Fields
  <1> QED BY <1>1, <1>2, <1>3, <1>4, <1>5, <1>6, <1>7, <1>8

\* What the sockets have.
LEMMA EventsClean ==
    ASSUME Clean(ads),
           UdpReply \/ TcpReply \/ UdpEnd \/ TcpReadEnd \/ TcpWrite \/ TcpExcept
    PROVE  Clean(ads')
  <1>1. \A s \in Lacking(ads) : Clean(s)
    BY SystemFailureClean DEF Lacking
  <1>2. Clean(adns__tcp_broken(ads))
    BY BrokenClean DEF Clean
  <1>3. CASE UdpReply \/ TcpReply
    BY <1>3, ReplyClean DEF UdpReply, TcpReply
  <1>4. CASE UdpEnd
    BY <1>1, <1>4 DEF UdpEnd
  <1>5. CASE TcpReadEnd
    BY <1>1, <1>2, <1>5 DEF TcpReadEnd
  <1>6. CASE TcpWrite
    <2>1. \A e : Clean(tcp_connected(ads, e))
      BY ConnectedClean DEF Clean
    <2>2. ads.tcpstate = "ok" => Clean([ads EXCEPT !.tcpsend = FALSE])
      BY DEF Clean, IsState, Fields
    <2> QED BY <1>1, <1>2, <1>6, <2>1, <2>2 DEF TcpWrite
  <1>7. CASE TcpExcept
    BY <1>2, <1>7 DEF TcpExcept
  <1> QED BY <1>3, <1>4, <1>5, <1>6, <1>7

\* The records of an answer, and the answer taken.
LEMMA ParsingClean ==
    ASSUME Clean(ads),
           pap_hostaddr \/ pa_ptr \/ ParseFailed \/ ParsedAll \/ ParsedChildren
             \/ Take \/ Return
    PROVE  Clean(ads')
  <1>1. ASSUME NEW kind, NewChild(kind) PROVE Clean(ads')
    <2> DEFINE t(c) == [ads EXCEPT !.qu[c] = Virgin("addr", cur)]
    <2>1. PICK c \in Queries, e \in Outcomes : ads' = adns__query_send(t(c), c, e)
      BY <1>1 DEF NewChild
    <2>2. Clean(t(c))
      BY DEF Clean, IsState, Fields
    <2> HIDE DEF t
    <2> QED BY <2>1, <2>2, QuerySendClean
  <1>2. CASE pap_hostaddr \/ pa_ptr
    BY <1>1, <1>2 DEF pap_hostaddr, pa_ptr
  <1>3. CASE ParseFailed
    BY <1>3, QueryFailClean DEF ParseFailed, CleanAs
  <1>4. CASE ParsedAll
    BY <1>4, QueryDoneClean DEF ParsedAll, CleanAs
  <1>5. CASE ParsedChildren
    BY <1>5 DEF ParsedChildren, Clean, IsState, Fields
  <1>6. CASE Take
    BY <1>6, GoneClean DEF Take, CleanAs
  <1>7. CASE Return
    BY <1>7 DEF Return
  <1> QED BY <1>2, <1>3, <1>4, <1>5, <1>6, <1>7

\* Only two steps end in the loop of "case server_broken".
LEMMA LeavesBroken ==
    ASSUME Next, ~BrokenQuery, ~Broken
    PROVE  pc' # "broken"
  <1>1. CASE (\E kind \in Kinds : Submit(kind)) \/ SubmitBad \/ Check \/ Poll
    <2>1. ASSUME NEW s, NEW c, Clock(s, c) PROVE pc' = "timeouts"
      BY <2>1 DEF Clock
    <2>2. CASE \E kind \in Kinds : Submit(kind)
      <3>1. PICK kind \in Kinds : Submit(kind)
        BY <2>2
      <3>2. \E s, c : Clock(s, c)
        BY <3>1 DEF Submit
      <3> QED BY <2>1, <3>2
    <2>3. CASE Check \/ Poll
      BY <2>1, <2>3 DEF Check, Poll
    <2>4. CASE SubmitBad
      <3>1. (\E s, c : Clock(s, c)) \/ (pc = "idle" /\ UNCHANGED pc)
        BY <2>4 DEF SubmitBad, Accepts
      <3> QED BY <2>1, <3>1
    <2> QED BY <1>1, <2>2, <2>3, <2>4
  <1>2. CASE Finish \/ \E q \in Queries : Cancel(q)
    BY <1>2 DEF Finish, Cancel
  <1>3. CASE TimeoutUdp \/ TimeoutTcp \/ BrokenEnd \/ Reconnect \/ ConnectTimeout \/ EventsEnd
    BY <1>3 DEF TimeoutUdp, TimeoutTcp, BrokenEnd, Reconnect, ConnectTimeout, EventsEnd,
                Events, Goto
  <1>4. CASE UdpReply \/ TcpReply
    BY <1>4 DEF UdpReply, TcpReply, Turn, Reply
  <1>5. CASE UdpEnd \/ TcpReadEnd \/ TcpWrite \/ TcpExcept
    BY <1>5 DEF UdpEnd, TcpReadEnd, TcpWrite, TcpExcept, Turn, Handled
  <1>6. CASE pap_hostaddr \/ pa_ptr \/ ParseFailed \/ ParsedAll \/ ParsedChildren
    BY <1>6 DEF pap_hostaddr, pa_ptr, NewChild, ParseFailed, ParsedAll, ParsedChildren, Goto
  <1>7. CASE Take \/ Return
    BY <1>7 DEF Take, Return, Returns
  <1> QED BY <1>1, <1>2, <1>3, <1>4, <1>5, <1>6, <1>7 DEF Next, Loops

\* The loop of "case server_broken" fails queries, which touches no connection.
LEMMA StepInBroken ==
    ASSUME Clean(ads), InBroken, [Next]_vars
    PROVE  InBroken'
  <1>1. CASE BrokenQuery
    <2>1. ads' \in {Abort(ads), adns__query_fail(Matched(ads, cur), cur, "allservfail"), ads}
          /\ pc = "broken" /\ pc' = pc
      BY <1>1 DEF BrokenQuery
    <2>2. Abort(ads).tcpstate = ads.tcpstate
      BY DEF Abort, Clean, IsState, Fields
    <2>3. adns__query_fail(Matched(ads, cur), cur, "allservfail").tcpstate = ads.tcpstate
      BY MatchedClean, QueryFailClean DEF CleanAs
    <2> QED BY <2>1, <2>2, <2>3 DEF InBroken
  <1>2. CASE Broken
    BY <1>2 DEF Broken, Events, InBroken
  <1>3. CASE UNCHANGED vars
    BY <1>3 DEF vars, InBroken
  <1>4. ASSUME Next, ~BrokenQuery, ~Broken
        PROVE  pc' # "broken"
    BY <1>4, LeavesBroken
  <1> QED BY <1>1, <1>2, <1>3, <1>4 DEF InBroken

IInv == Clean(ads) /\ InBroken

LEMMA InitIInv == Init => IInv
  BY NewStateClean DEF Init, IInv, InBroken

LEMMA StepIInv == IInv /\ [Next]_vars => IInv'
  <1> SUFFICES ASSUME Clean(ads), InBroken, [Next]_vars PROVE Clean(ads') /\ InBroken'
    BY DEF IInv
  <1>1. CASE Next
    BY <1>1, UserClean, TimeoutsClean, EventsClean, ParsingClean, StepInBroken
       DEF Next, Loops
  <1>2. CASE UNCHANGED vars
    BY <1>2, StepInBroken DEF vars
  <1> QED BY <1>1, <1>2

LEMMA IInvTcpDown == IInv => TcpDownIsClean
  BY DEF IInv, Clean, TcpDownIsClean

\* When there is no connection, nothing is left to send, as adns__tcp_tryconnect
\* asserts, and a connection being made has a timeout (struct adns__state), for
\* any number of queries, children and servers and with every fault of the model.
THEOREM ConnectionDownIsClean == Spec => []TcpDownIsClean
  BY InitIInv, StepIInv, IInvTcpDown, PTL DEF Spec

\* The queries of tcpw were given to the connection iff there is one: SentIffUp
\* of a state s.
SentOk(s) == s.sent = IF s.tcpstate = "ok" THEN ToSet(s.tcpw) ELSE {}

-----------------------------------------------------------------------------
(***************************************************************************)
(* Types.                                                                   *)
(***************************************************************************)

LEMMA ServerTypes ==
    /\ 0 \in Servers
    /\ \A v \in Servers, n \in Nat : NextServer(v, n) \in Servers
  BY AdnsAssumption DEF Servers, NextServer

LEMMA VirginType ==
    ASSUME NEW kind \in Kinds \cup {"addr"}, NEW p \in {None} \cup Queries
    PROVE  Virgin(kind, p) \in QueryRecords
  BY ServerTypes, AdnsAssumption DEF Virgin, QueryRecords, States

LEMMA FreedType == Freed \in QueryRecords /\ Freed.state = "free" /\ Freed.parent = None
  <1>1. Virgin("addr", None) \in QueryRecords
    BY VirginType
  <1>2. [Virgin("addr", None) EXCEPT !.state = "free"] \in QueryRecords
    BY <1>1 DEF QueryRecords, States
  <1> QED BY <1>2 DEF Freed, Virgin

LEMMA NewStateType == NewState \in AdnsStates /\ SentOk(NewState)
  BY FreedType, ServerTypes DEF NewState, AdnsStates, SentOk

\* The outcomes of the system calls.
LEMMA OutcomeType ==
    ASSUME NEW e \in Outcomes
    PROVE  /\ e.refused \in 0..nservers /\ e.refused \in Nat
           /\ e.connect \in {"now", "later", "nosocket"}
           /\ e.breaks \in 0..MaxQueries
           /\ e.part \in BOOLEAN /\ e.toobig \in BOOLEAN
           /\ "connect" \notin Faults => e.refused = 0 /\ e.connect # "nosocket"
  <1> DEFINE connects == IF "connect" \in Faults THEN {"now", "later", "nosocket"}
                         ELSE {"now", "later"}
             refusals == IF "connect" \in Faults THEN 0..nservers ELSE {0}
  <1>1. /\ nservers \in Nat /\ MaxQueries \in Nat /\ MaxQueries \in 0..MaxQueries
        /\ refusals \subseteq 0..nservers /\ 0 \in refusals
        /\ connects \subseteq {"now", "later", "nosocket"} /\ "later" \in connects
        /\ "connect" \notin Faults => refusals = {0} /\ "nosocket" \notin connects
    BY AdnsAssumption
  <1>2. e \in [toobig: {TRUE}, refused: refusals, connect: connects,
               breaks: 0..MaxQueries, part: {FALSE}]
             \cup [toobig: {TRUE}, refused: refusals, connect: connects,
                   breaks: {MaxQueries}, part: {TRUE}]
             \cup {Quiet}
    BY DEF Outcomes
  <1> HIDE DEF connects, refusals
  <1>3. /\ e.refused \in refusals /\ e.connect \in connects
        /\ e.breaks \in 0..MaxQueries /\ e.part \in BOOLEAN /\ e.toobig \in BOOLEAN
    <2>1. CASE e \in [toobig: {TRUE}, refused: refusals, connect: connects,
                      breaks: 0..MaxQueries, part: {FALSE}]
      BY <2>1
    <2>2. CASE e \in [toobig: {TRUE}, refused: refusals, connect: connects,
                      breaks: {MaxQueries}, part: {TRUE}]
      BY <1>1, <2>2
    <2>3. CASE e = Quiet
      BY <1>1, <2>3 DEF Quiet
    <2> QED BY <1>2, <2>1, <2>2, <2>3
  <1>4. e.refused \in 0..nservers
    BY <1>1, <1>3
  <1>5. e.refused \in Nat
    BY <1>4
  <1> QED BY <1>1, <1>3, <1>4, <1>5

LEMMA OffType ==
    ASSUME NEW queue \in Seq(Queries), NEW gone
    PROVE  Off(queue, gone) \in Seq(Queries) /\ ToSet(Off(queue, gone)) = ToSet(queue) \ gone
  BY OffQueue

LEMMA AppendType ==
    ASSUME NEW queue \in Seq(Queries), NEW q \in Queries
    PROVE  Append(queue, q) \in Seq(Queries) /\ ToSet(Append(queue, q)) = ToSet(queue) \cup {q}
  BY PutQueue DEF Adds

LEMMA ToSetType ==
    ASSUME NEW queue \in Seq(Queries)
    PROVE  ToSet(queue) \subseteq Queries
  BY EmptyQueue

\* The fields of a state.
LEMMA Fields1 ==
    ASSUME NEW s \in AdnsStates
    PROVE  /\ s.qu \in [Queries -> QueryRecords]
           /\ s.udpw \in Seq(Queries) /\ s.tcpw \in Seq(Queries)
           /\ s.childw \in Seq(Queries) /\ s.output \in Seq(Queries)
           /\ s.tcpserver \in Servers /\ s.sent \subseteq Queries /\ s.abort \in BOOLEAN
           /\ IsState(s)
  BY DEF AdnsStates, IsState, Fields

-----------------------------------------------------------------------------
(***************************************************************************)
(* The TCP connection: it changes the retries of the queries of tcpw, and   *)
(* no queue.                                                                *)
(***************************************************************************)

SameQueues(s, t) ==
    /\ t.udpw = s.udpw /\ t.tcpw = s.tcpw /\ t.childw = s.childw /\ t.output = s.output
    /\ t.abort = s.abort

\* The fields of a query that the connection does not write.
SameQuery(a, b) ==
    /\ b.state = a.state /\ b.kind = a.kind /\ b.parent = a.parent
    /\ b.status = a.status /\ b.usevc = a.usevc /\ b.udpsent = a.udpsent
    /\ b.names = a.names

OnlyTcp(s, t) ==
    /\ s \in AdnsStates /\ t \in AdnsStates
    /\ SameQueues(s, t)
    /\ \A q \in Queries : /\ SameQuery(s.qu[q], t.qu[q])
                          /\ q \notin ToSet(s.tcpw) => t.qu[q] = s.qu[q]

LEMMA OnlyTcpTrans ==
    ASSUME NEW s, NEW t, NEW u, OnlyTcp(s, t), OnlyTcp(t, u)
    PROVE  OnlyTcp(s, u)
  BY DEF OnlyTcp, SameQueues, SameQuery

\* What a state of the connection is changed to.
LEMMA TcpFields ==
    ASSUME NEW s \in AdnsStates, NEW t,
           t.qu = s.qu, SameQueues(s, t), t \in AdnsStates
    PROVE  OnlyTcp(s, t)
  BY DEF OnlyTcp, SameQuery

LEMMA RetriedOnly ==
    ASSUME NEW s \in AdnsStates, NEW qs, qs \subseteq ToSet(s.tcpw), NEW n \in Nat
    PROVE  OnlyTcp(s, Retried(s, qs, n))
  <1> DEFINE more(a) == IF a + n > nservers + 2 THEN nservers + 2 ELSE a + n
             r(q) == [s.qu[q] EXCEPT !.retries = more(s.qu[q].retries)]
             f == [q \in Queries |-> IF q \in qs THEN r(q) ELSE s.qu[q]]
  <1>1. s.qu \in [Queries -> QueryRecords]
    BY Fields1
  <1>2. ASSUME NEW q \in Queries
        PROVE  r(q) \in QueryRecords /\ SameQuery(s.qu[q], r(q))
    BY <1>1, AdnsAssumption DEF QueryRecords, SameQuery
  <1> HIDE DEF r
  <1>3. f \in [Queries -> QueryRecords]
    BY <1>1, <1>2
  <1>4. \A q \in Queries : SameQuery(s.qu[q], f[q]) /\ (q \notin qs => f[q] = s.qu[q])
    BY <1>2 DEF SameQuery
  <1>5. Retried(s, qs, n) = [s EXCEPT !.qu = f]
    BY DEF Retried, r
  <1> HIDE DEF f
  <1> QED BY <1>3, <1>4, <1>5 DEF OnlyTcp, SameQueues, AdnsStates

LEMMA TriedOnly ==
    ASSUME NEW s \in AdnsStates, NEW n \in Nat
    PROVE  OnlyTcp(s, Tried(s, n))
  <1> DEFINE v == {NextServer(s.tcpserver, i) : i \in 0..n - 1}
             f == [q \in Queries |-> IF q \in ToSet(s.tcpw)
                                     THEN [s.qu[q] EXCEPT !.tried = s.qu[q].tried \cup v] ELSE s.qu[q]]
  <1>1. s.qu \in [Queries -> QueryRecords] /\ s.tcpserver \in Servers
    BY Fields1
  <1>2. v \subseteq Servers
    BY <1>1, ServerTypes
  <1> HIDE DEF v
  <1>3. ASSUME NEW q \in Queries
        PROVE  /\ [s.qu[q] EXCEPT !.tried = s.qu[q].tried \cup v] \in QueryRecords
               /\ SameQuery(s.qu[q], [s.qu[q] EXCEPT !.tried = s.qu[q].tried \cup v])
    BY <1>1, <1>2 DEF QueryRecords, SameQuery
  <1>4. f \in [Queries -> QueryRecords]
    BY <1>1, <1>3
  <1>5. \A q \in Queries : SameQuery(s.qu[q], f[q])
                           /\ (q \notin ToSet(s.tcpw) => f[q] = s.qu[q])
    BY <1>3 DEF SameQuery
  <1>6. Tried(s, n) = [s EXCEPT !.qu = f]
    BY DEF Tried, v
  <1> HIDE DEF f
  <1> QED BY <1>4, <1>5, <1>6 DEF OnlyTcp, SameQueues, AdnsStates

\* A connection that breaks holds no query.
LEMMA BrokenOnly ==
    ASSUME NEW s \in AdnsStates
    PROVE  OnlyTcp(s, adns__tcp_broken(s)) /\ SentOk(adns__tcp_broken(s))
  <1> DEFINE t == IF s.tcpstate = "connecting" THEN Retried(s, ToSet(s.tcpw), 1) ELSE s
             u == Tried(t, 1)
             w == [tcp_close(u) EXCEPT !.tcpstate = "broken", !.tcpserver = NextServer(@, 1)]
  <1>1. OnlyTcp(s, s)
    BY DEF OnlyTcp, SameQueues, SameQuery
  <1>2. OnlyTcp(s, t)
    BY <1>1, RetriedOnly
  <1> HIDE DEF t
  <1>3. OnlyTcp(t, u)
    BY <1>2, TriedOnly DEF OnlyTcp
  <1>4. OnlyTcp(s, u)
    BY <1>2, <1>3, OnlyTcpTrans
  <1> HIDE DEF u
  <1>5. u \in AdnsStates /\ NextServer(u.tcpserver, 1) \in Servers
    BY <1>4, ServerTypes, Fields1 DEF OnlyTcp
  <1>6. OnlyTcp(u, w) /\ SentOk(w)
    <2>1. w \in AdnsStates
      BY <1>5 DEF AdnsStates, tcp_close
    <2>2. /\ w.qu = u.qu /\ SameQueues(u, w) /\ w.tcpstate = "broken" /\ w.sent = {}
      BY <1>5 DEF AdnsStates, tcp_close, SameQueues
    <2> QED BY <1>5, <2>1, <2>2, TcpFields DEF SentOk
  <1>7. OnlyTcp(s, w)
    BY <1>4, <1>6, OnlyTcpTrans
  <1> QED BY <1>6, <1>7 DEF adns__tcp_broken, t, u

LEMMA SubSeqSet ==
    ASSUME NEW queue \in Seq(Queries), NEW n \in Nat, n <= Len(queue)
    PROVE  ToSet(SubSeq(queue, 1, n)) \subseteq ToSet(queue)
  <1>1. Len(queue) \in Nat /\ DOMAIN queue = 1..Len(queue)
    BY LenProperties
  <1>2. DOMAIN SubSeq(queue, 1, n) = 1..n /\ \A i \in 1..n : SubSeq(queue, 1, n)[i] = queue[i]
    <2>1. SubSeq(queue, 1, n) = [i \in 1..n |-> queue[i]]
      BY <1>1
    <2> QED BY <2>1
  <1> QED BY <1>1, <1>2 DEF ToSet

\* Queries that wait are written to a connection that has the others.
LEMMA WrittenOnly ==
    ASSUME NEW s \in AdnsStates, s.tcpstate = "ok", NEW qs \in Seq(Queries), NEW e \in Outcomes,
           s.sent \cup ToSet(qs) = ToSet(s.tcpw)
    PROVE  OnlyTcp(s, Written(s, qs, e)) /\ SentOk(Written(s, qs, e))
  <1> DEFINE fails == ~s.tcpsend /\ e.breaks < Len(qs)
             given == ToSet(IF fails THEN SubSeq(qs, 1, e.breaks + 1) ELSE qs)
             r == Retried(s, given, 1)
             t == [r EXCEPT !.sent = @ \cup given,
                            !.tcpsend = @ \/ (e.part /\ qs # <<>>),
                            !.tcptimeout = IF qs = <<>> THEN @ ELSE "unset"]
  <1>1. given \subseteq ToSet(s.tcpw) /\ (~fails => given = ToSet(qs))
    <2>1. ToSet(qs) \subseteq ToSet(s.tcpw)
      OBVIOUS
    <2>2. ASSUME fails PROVE ToSet(SubSeq(qs, 1, e.breaks + 1)) \subseteq ToSet(qs)
      <3>1. e.breaks + 1 \in Nat /\ Len(qs) \in Nat /\ e.breaks + 1 <= Len(qs)
        BY <2>2, OutcomeType, LenProperties, AdnsAssumption
      <3> QED BY <3>1, SubSeqSet
    <2> QED BY <2>1, <2>2
  <1> HIDE DEF given
  <1>2. OnlyTcp(s, r)
    BY <1>1, RetriedOnly
  <1>3. r.tcpstate = "ok" /\ r.sent = s.sent /\ r.tcpw = s.tcpw
    BY DEF Retried, AdnsStates
  <1> HIDE DEF r, fails
  <1>4. OnlyTcp(r, t)
    <2>1. given \subseteq Queries /\ e.part \in BOOLEAN
      BY <1>1, ToSetType, Fields1, OutcomeType
    <2>2. t \in AdnsStates
      BY <1>2, <2>1 DEF OnlyTcp, AdnsStates
    <2>3. t.qu = r.qu /\ SameQueues(r, t)
      BY <1>2 DEF OnlyTcp, AdnsStates, SameQueues
    <2> QED BY <1>2, <2>2, <2>3, TcpFields DEF OnlyTcp
  <1>5. t.tcpstate = "ok" /\ t.sent = s.sent \cup given /\ t.tcpw = s.tcpw
    BY <1>2, <1>3 DEF OnlyTcp, AdnsStates
  <1> HIDE DEF t
  <1>6. OnlyTcp(s, t)
    BY <1>2, <1>4, OnlyTcpTrans
  <1>7. OnlyTcp(s, adns__tcp_broken(t)) /\ SentOk(adns__tcp_broken(t))
    <2>1. t \in AdnsStates
      BY <1>6 DEF OnlyTcp
    <2> QED BY <1>6, <2>1, BrokenOnly, OnlyTcpTrans
  <1>8. ~fails => SentOk(t)
    BY <1>1, <1>5 DEF SentOk
  <1>9. Written(s, qs, e) = IF fails THEN adns__tcp_broken(t) ELSE t
    BY DEF Written, t, r, given, fails
  <1> QED BY <1>6, <1>7, <1>8, <1>9

\* The connection is made: all the queries that wait are written.
LEMMA ConnectedOnly ==
    ASSUME NEW s \in AdnsStates, SentOk(s), s.tcpstate # "ok", NEW e \in Outcomes
    PROVE  OnlyTcp(s, tcp_connected(s, e)) /\ SentOk(tcp_connected(s, e))
  <1> DEFINE t == [s EXCEPT !.tcpstate = "ok"]
  <1>1. t \in AdnsStates /\ t.qu = s.qu /\ SameQueues(s, t) /\ t.tcpstate = "ok"
        /\ t.sent = {} /\ t.tcpw \in Seq(Queries) /\ t.tcpw = s.tcpw
    BY DEF AdnsStates, SameQueues, SentOk
  <1> HIDE DEF t
  <1>2. OnlyTcp(s, t)
    BY <1>1, TcpFields
  <1>3. OnlyTcp(t, Written(t, s.tcpw, e)) /\ SentOk(Written(t, s.tcpw, e))
    <2>1. t.sent \cup ToSet(s.tcpw) = ToSet(t.tcpw)
      BY <1>1
    <2> QED BY <1>1, <2>1, WrittenOnly
  <1> QED BY <1>2, <1>3, OnlyTcpTrans DEF tcp_connected, t

LEMMA TryconnectOnly ==
    ASSUME NEW s \in AdnsStates, SentOk(s), NEW e \in Outcomes
    PROVE  OnlyTcp(s, adns__tcp_tryconnect(s, e)) /\ SentOk(adns__tcp_tryconnect(s, e))
  <1> DEFINE u == Tried(s, e.refused)
             r == Retried(u, ToSet(s.tcpw), e.refused)
             t == [r EXCEPT !.tcpserver = NextServer(@, e.refused)]
             c == [t EXCEPT !.tcpstate = "connecting", !.tcptimeout = "set"]
  <1>0. OnlyTcp(s, s)
    BY DEF OnlyTcp, SameQueues, SameQuery
  <1>1. e.refused \in Nat
    BY OutcomeType
  <1>2. OnlyTcp(s, u) /\ u.tcpstate = s.tcpstate /\ u.sent = s.sent
    BY <1>1, TriedOnly DEF Tried, AdnsStates
  <1> HIDE DEF u
  <1>3. OnlyTcp(u, r) /\ r.tcpstate = s.tcpstate /\ r.sent = s.sent
    <2>1. u \in AdnsStates /\ ToSet(s.tcpw) \subseteq ToSet(u.tcpw)
      BY <1>2 DEF OnlyTcp, SameQueues
    <2>2. r.tcpstate = u.tcpstate /\ r.sent = u.sent
      BY <2>1 DEF Retried, AdnsStates
    <2> QED BY <1>1, <1>2, <2>1, <2>2, RetriedOnly
  <1>4. OnlyTcp(s, r)
    BY <1>2, <1>3, OnlyTcpTrans
  <1> HIDE DEF r
  <1>5. OnlyTcp(r, t) /\ t.tcpstate = s.tcpstate /\ t.sent = s.sent
    <2>1. r \in AdnsStates /\ NextServer(r.tcpserver, e.refused) \in Servers
      BY <1>1, <1>4, ServerTypes, Fields1 DEF OnlyTcp
    <2>2. t \in AdnsStates /\ t.qu = r.qu /\ SameQueues(r, t)
          /\ t.tcpstate = r.tcpstate /\ t.sent = r.sent
      BY <2>1 DEF AdnsStates, SameQueues
    <2> QED BY <1>3, <2>1, <2>2, TcpFields
  <1>6. OnlyTcp(s, t) /\ t \in AdnsStates /\ t.tcpw = s.tcpw
    BY <1>4, <1>5, OnlyTcpTrans DEF OnlyTcp, SameQueues
  <1> HIDE DEF t
  <1>7. SentOk(t)
    BY <1>5, <1>6 DEF SentOk
  <1>8. s.tcpstate = "disconnected" =>
          OnlyTcp(s, tcp_connected(t, e)) /\ SentOk(tcp_connected(t, e))
    BY <1>5, <1>6, <1>7, ConnectedOnly, OnlyTcpTrans
  <1>9. s.tcpstate = "disconnected" => OnlyTcp(s, c) /\ SentOk(c)
    <2>1. c \in AdnsStates /\ c.qu = t.qu /\ SameQueues(t, c) /\ c.sent = t.sent
          /\ c.tcpstate = "connecting"
      BY <1>6 DEF AdnsStates, SameQueues
    <2>2. OnlyTcp(t, c)
      BY <1>6, <2>1, TcpFields
    <2> QED BY <1>5, <1>6, <1>7, <2>1, <2>2, OnlyTcpTrans DEF SentOk
  <1> HIDE DEF c
  <1>10. adns__tcp_tryconnect(s, e) =
           IF s.tcpstate # "disconnected" THEN s
           ELSE IF e.refused = nservers \/ e.connect = "nosocket" THEN t
           ELSE IF e.connect = "now" THEN tcp_connected(t, e) ELSE c
    BY DEF adns__tcp_tryconnect, c, t, r, u
  <1> QED BY <1>0, <1>6, <1>7, <1>8, <1>9, <1>10

-----------------------------------------------------------------------------
(***************************************************************************)
(* The retries of the queries that wait for the connection, and the servers *)
(* that failed them.                                                        *)
(***************************************************************************)

\* Names of a search list are left only until the first one is asked for.
NamesOk(r) == r.kind = "search" => r.names < SearchNames

\* A write to a connection that is made counts at once, and its break no more.
Limit(state) == IF state \in {"ok", "broken"} THEN nservers + 1 ELSE nservers
Failures(state, r) == IF state = "ok" THEN r.retries - 1 ELSE r.retries

\* The last servers, as many as failed the query, are those it tried.
Covered(state, server, r) ==
    \A i \in 1..nservers, v \in Servers :
        i <= Failures(state, r) /\ NextServer(v, i) = server => v \in r.tried

\* A query of tcpw, the connection being in that state, or to be made to server.
TcpOk(state, server, r) ==
    /\ NamesOk(r)
    /\ "connect" \notin Faults => r.retries <= Limit(state)
    /\ Covered(state, server, r)

FitsTcp(s) == \A q \in ToSet(s.tcpw) : TcpOk(s.tcpstate, s.tcpserver, s.qu[q])

\* The servers in a ring.
LEMMA NextServerIs ==
    ASSUME NEW v \in Servers, NEW i \in 0..nservers
    PROVE  /\ NextServer(v, i) \in 0..nservers - 1
           /\ v + i < nservers => NextServer(v, i) = v + i
           /\ v + i >= nservers => NextServer(v, i) = v + i - nservers
  <1>1. nservers \in Nat \ {0} /\ v \in Nat /\ i \in Nat /\ v < nservers /\ i <= nservers
    BY AdnsAssumption DEF Servers
  <1>2. CASE v + i < nservers
    BY <1>1, <1>2 DEF NextServer
  <1>3. CASE v + i >= nservers
    <2>1. (v + i) % nservers = v + i - nservers
      BY <1>1, <1>3
    <2> QED BY <1>1, <1>3, <2>1 DEF NextServer
  <1> QED BY <1>1, <1>2, <1>3

\* k servers failed, from the one the connection was to be made to.
LEMMA CoveredMoves ==
    ASSUME NEW s \in Servers, NEW k \in 0..nservers,
           NEW i \in 1..nservers, NEW v \in Servers,
           NextServer(v, i) = NextServer(s, k)
    PROVE  \/ i <= k /\ v \in {NextServer(s, j) : j \in 0..k - 1}
           \/ i > k /\ NextServer(v, i - k) = s
  <1>1. nservers \in Nat \ {0} /\ v \in Nat /\ s \in Nat /\ v < nservers /\ s < nservers
        /\ i \in Nat /\ k \in Nat
    BY AdnsAssumption DEF Servers
  <1> DEFINE a == NextServer(v, i)
             b == NextServer(s, k)
  <1>2. /\ a \in Int /\ b \in Int
        /\ v + i < nservers => a = v + i
        /\ v + i >= nservers => a = v + i - nservers
        /\ s + k < nservers => b = s + k
        /\ s + k >= nservers => b = s + k - nservers
    BY <1>1, NextServerIs
  <1>5. a = b
    OBVIOUS
  <1> HIDE DEF a, b
  <1>3. CASE i <= k
    <2> DEFINE j == k - i
               c == NextServer(s, j)
    <2>1. j \in 0..nservers /\ j \in 0..k - 1
      BY <1>1, <1>3
    <2>2. /\ c \in Int
          /\ s + j < nservers => c = s + j
          /\ s + j >= nservers => c = s + j - nservers
      BY <2>1, NextServerIs
    <2>3. c = v
      <3> HIDE DEF c
      <3> QED BY <1>1, <1>2, <1>5, <1>3, <2>2
    <2> QED BY <1>3, <2>1, <2>3
  <1>4. CASE i > k
    <2> DEFINE j == i - k
               c == NextServer(v, j)
    <2>1. j \in 0..nservers
      BY <1>1, <1>4
    <2>2. /\ c \in Int
          /\ v + j < nservers => c = v + j
          /\ v + j >= nservers => c = v + j - nservers
      BY <2>1, NextServerIs
    <2>3. c = s
      <3> HIDE DEF c
      <3> QED BY <1>1, <1>2, <1>5, <1>4, <2>2
    <2> QED BY <1>4, <2>3
  <1> QED BY <1>1, <1>3, <1>4

LEMMA RetriedFields ==
    ASSUME NEW s \in AdnsStates, NEW qs, NEW n \in Nat
    PROVE  LET t == Retried(s, qs, n)
           IN  /\ t.tcpstate = s.tcpstate /\ t.tcpserver = s.tcpserver
               /\ \A q \in Queries :
                    /\ t.qu[q].tried = s.qu[q].tried /\ t.qu[q].retries \in Nat
                    /\ t.qu[q].retries <= s.qu[q].retries + n
                    /\ q \notin qs => t.qu[q] = s.qu[q]
  <1> DEFINE more(a) == IF a + n > nservers + 2 THEN nservers + 2 ELSE a + n
             r(q) == [s.qu[q] EXCEPT !.retries = more(s.qu[q].retries)]
             f == [q \in Queries |-> IF q \in qs THEN r(q) ELSE s.qu[q]]
  <1>1. s.qu \in [Queries -> QueryRecords]
    BY Fields1
  <1>2. ASSUME NEW q \in Queries
        PROVE  /\ r(q).tried = s.qu[q].tried /\ r(q).retries \in Nat
               /\ r(q).retries <= s.qu[q].retries + n
               /\ s.qu[q].retries \in Nat /\ s.qu[q].retries <= s.qu[q].retries + n
    BY <1>1, AdnsAssumption DEF QueryRecords
  <1> HIDE DEF r
  <1>3. \A q \in Queries : f[q] = IF q \in qs THEN r(q) ELSE s.qu[q]
    OBVIOUS
  <1>4. Retried(s, qs, n) = [s EXCEPT !.qu = f]
    BY DEF Retried, r
  <1> HIDE DEF f
  <1> QED BY <1>2, <1>3, <1>4 DEF AdnsStates

LEMMA TriedFields ==
    ASSUME NEW s \in AdnsStates, NEW n \in Nat
    PROVE  LET t == Tried(s, n)
           IN  /\ t.tcpstate = s.tcpstate /\ t.tcpserver = s.tcpserver
               /\ \A q \in ToSet(s.tcpw) :
                    /\ t.qu[q].retries = s.qu[q].retries
                    /\ t.qu[q].tried = s.qu[q].tried \cup
                                         {NextServer(s.tcpserver, i) : i \in 0..n - 1}
  <1> DEFINE v == {NextServer(s.tcpserver, i) : i \in 0..n - 1}
             r(q) == [s.qu[q] EXCEPT !.tried = s.qu[q].tried \cup v]
             f == [q \in Queries |-> IF q \in ToSet(s.tcpw) THEN r(q) ELSE s.qu[q]]
  <1>1. s.qu \in [Queries -> QueryRecords] /\ ToSet(s.tcpw) \subseteq Queries
    BY Fields1, ToSetType
  <1> HIDE DEF v
  <1>2. ASSUME NEW q \in Queries
        PROVE  r(q).retries = s.qu[q].retries /\ r(q).tried = s.qu[q].tried \cup v
    BY <1>1 DEF QueryRecords
  <1> HIDE DEF r
  <1>3. \A q \in ToSet(s.tcpw) : f[q] = r(q)
    BY <1>1
  <1>4. Tried(s, n) = [s EXCEPT !.qu = f]
    BY DEF Tried, v, r
  <1> HIDE DEF f
  <1> QED BY <1>1, <1>2, <1>3, <1>4 DEF AdnsStates, v

\* A query of tcpw after k more servers failed it.
LEMMA TcpOkMoves ==
    ASSUME NEW state, NEW server \in Servers, NEW r, TcpOk(state, server, r),
           NEW state2, NEW k \in 0..nservers, NEW r2,
           r.retries \in Nat, r2.retries \in Nat, NamesOk(r2),
           "connect" \notin Faults => r2.retries <= Limit(state2),
           Failures(state2, r2) <= Failures(state, r) + k,
           \A v \in r.tried : v \in r2.tried,
           \A j \in 0..k - 1 : NextServer(server, j) \in r2.tried
    PROVE  TcpOk(state2, NextServer(server, k), r2)
  <1> SUFFICES ASSUME NEW i \in 1..nservers, NEW v \in Servers,
                      i <= Failures(state2, r2), NextServer(v, i) = NextServer(server, k)
               PROVE  v \in r2.tried
    BY DEF TcpOk, Covered
  <1>1. nservers \in Nat /\ i \in Int /\ k \in Int
        /\ Failures(state, r) \in Int /\ Failures(state2, r2) \in Int
    BY AdnsAssumption DEF Failures
  <1>2. CASE i <= k /\ v \in {NextServer(server, j) : j \in 0..k - 1}
    BY <1>2
  <1>3. CASE i > k /\ NextServer(v, i - k) = server
    <2>1. i - k \in 1..nservers /\ i - k <= Failures(state, r)
      BY <1>1, <1>3
    <2> QED BY <1>3, <2>1 DEF TcpOk, Covered
  <1> QED BY <1>2, <1>3, CoveredMoves

\* The same server.
LEMMA TcpOkStays ==
    ASSUME NEW state, NEW server \in Servers, NEW r, TcpOk(state, server, r),
           NEW state2, NEW r2, NamesOk(r2),
           r.retries \in Nat, r2.retries \in Nat,
           "connect" \notin Faults => r2.retries <= Limit(state2),
           Failures(state2, r2) <= Failures(state, r),
           \A v \in r.tried : v \in r2.tried
    PROVE  TcpOk(state2, server, r2)
  <1>1. Failures(state, r) \in Int /\ Failures(state2, r2) \in Int
    BY DEF Failures
  <1> SUFFICES ASSUME NEW i \in 1..nservers, NEW v \in Servers,
                      i <= Failures(state2, r2), NextServer(v, i) = server
               PROVE  v \in r2.tried
    BY DEF TcpOk, Covered
  <1>2. i <= Failures(state, r)
    BY <1>1
  <1> QED BY <1>2 DEF TcpOk, Covered

\* What OnlyTcp says of the names of a query of tcpw.
LEMMA OnlyTcpNames ==
    ASSUME NEW s, NEW t, OnlyTcp(s, t)
    PROVE  /\ t.tcpw = s.tcpw /\ ToSet(t.tcpw) = ToSet(s.tcpw) /\ ToSet(s.tcpw) \subseteq Queries
           /\ \A q \in Queries : NamesOk(s.qu[q]) => NamesOk(t.qu[q])
           /\ \A q \in Queries : s.qu[q].retries \in Nat /\ t.qu[q].retries \in Nat
           /\ s.tcpserver \in Servers /\ t.tcpserver \in Servers
           /\ s.tcpw \in Seq(Queries)
  <1>1. /\ s \in AdnsStates /\ t \in AdnsStates /\ t.tcpw = s.tcpw
        /\ \A q \in Queries : t.qu[q].kind = s.qu[q].kind /\ t.qu[q].names = s.qu[q].names
    BY DEF OnlyTcp, SameQueues, SameQuery
  <1>2. s.qu \in [Queries -> QueryRecords] /\ t.qu \in [Queries -> QueryRecords]
        /\ s.tcpserver \in Servers /\ t.tcpserver \in Servers /\ s.tcpw \in Seq(Queries)
    BY <1>1, Fields1
  <1> QED BY <1>1, <1>2, ToSetType DEF NamesOk, QueryRecords

LEMMA BrokenFits ==
    ASSUME NEW s \in AdnsStates, s.tcpstate \in {"connecting", "ok"}, FitsTcp(s)
    PROVE  FitsTcp(adns__tcp_broken(s))
  <1> DEFINE t == IF s.tcpstate = "connecting" THEN Retried(s, ToSet(s.tcpw), 1) ELSE s
             u == Tried(t, 1)
             w == [tcp_close(u) EXCEPT !.tcpstate = "broken", !.tcpserver = NextServer(@, 1)]
  <1>1. adns__tcp_broken(s) = w
    BY DEF adns__tcp_broken
  <1>2. OnlyTcp(s, w)
    BY <1>1, BrokenOnly
  <1>3. OnlyTcp(s, t) /\ t.tcpserver = s.tcpserver
        /\ \A q \in Queries :
             /\ t.qu[q].tried = s.qu[q].tried
             /\ t.qu[q].retries <= s.qu[q].retries + (IF s.tcpstate = "connecting" THEN 1 ELSE 0)
    <2>1. CASE s.tcpstate = "connecting"
      BY <2>1, RetriedOnly, RetriedFields
    <2>2. CASE s.tcpstate # "connecting"
      <3>1. OnlyTcp(s, s)
        BY DEF OnlyTcp, SameQueues, SameQuery
      <3>2. \A q \in Queries : s.qu[q].retries \in Nat
        BY <3>1, OnlyTcpNames
      <3> QED BY <2>2, <3>1, <3>2
    <2> QED BY <2>1, <2>2
  <1> HIDE DEF t
  <1>4. t \in AdnsStates /\ t.tcpw = s.tcpw
    BY <1>3 DEF OnlyTcp, SameQueues
  <1>5. /\ OnlyTcp(t, u) /\ u.tcpserver = s.tcpserver
        /\ \A q \in ToSet(s.tcpw) :
             /\ u.qu[q].retries = t.qu[q].retries
             /\ u.qu[q].tried = t.qu[q].tried \cup {NextServer(s.tcpserver, i) : i \in 0..1 - 1}
    BY <1>3, <1>4, TriedFields, TriedOnly
  <1> HIDE DEF u
  <1>6. w.qu = u.qu /\ w.tcpstate = "broken" /\ w.tcpserver = NextServer(s.tcpserver, 1)
    BY <1>5 DEF tcp_close, OnlyTcp, AdnsStates
  <1> HIDE DEF w
  <1> SUFFICES ASSUME NEW q \in ToSet(w.tcpw)
               PROVE  TcpOk("broken", NextServer(s.tcpserver, 1), w.qu[q])
    BY <1>1, <1>6 DEF FitsTcp
  <1>7. q \in ToSet(s.tcpw) /\ q \in Queries /\ s.tcpserver \in Servers /\ nservers \in Nat \ {0}
        /\ s.qu[q].retries \in Nat /\ w.qu[q].retries \in Nat
        /\ (NamesOk(s.qu[q]) => NamesOk(w.qu[q]))
    BY <1>2, OnlyTcpNames, AdnsAssumption
  <1>8. TcpOk(s.tcpstate, s.tcpserver, s.qu[q])
    BY <1>7 DEF FitsTcp
  <1>9. w.qu[q].retries <= s.qu[q].retries + (IF s.tcpstate = "connecting" THEN 1 ELSE 0)
    BY <1>3, <1>5, <1>6, <1>7
  <1>10. /\ \A v \in s.qu[q].tried : v \in w.qu[q].tried
         /\ \A j \in 0..1 - 1 : NextServer(s.tcpserver, j) \in w.qu[q].tried
    BY <1>3, <1>5, <1>6, <1>7
  <1>11. "connect" \notin Faults => w.qu[q].retries <= Limit("broken")
    BY <1>7, <1>8, <1>9 DEF TcpOk, Limit
  <1>12. Failures("broken", w.qu[q]) <= Failures(s.tcpstate, s.qu[q]) + 1
    BY <1>7, <1>9 DEF Failures
  <1>13. 1 \in 0..nservers
    BY <1>7
  <1> QED BY <1>7, <1>8, <1>10, <1>11, <1>12, <1>13, TcpOkMoves DEF TcpOk

\* The queries qs that are written are counted at once.
LEMMA WrittenFits ==
    ASSUME NEW s \in AdnsStates, s.tcpstate = "ok", NEW qs \in Seq(Queries), NEW e \in Outcomes,
           s.sent \cup ToSet(qs) = ToSet(s.tcpw),
           \A q \in ToSet(s.tcpw) :
              TcpOk(IF q \in ToSet(qs) THEN "connecting" ELSE "ok", s.tcpserver, s.qu[q])
    PROVE  FitsTcp(Written(s, qs, e))
  <1> DEFINE fails == ~s.tcpsend /\ e.breaks < Len(qs)
             given == ToSet(IF fails THEN SubSeq(qs, 1, e.breaks + 1) ELSE qs)
             r == Retried(s, given, 1)
             t == [r EXCEPT !.sent = @ \cup given,
                            !.tcpsend = @ \/ (e.part /\ qs # <<>>),
                            !.tcptimeout = IF qs = <<>> THEN @ ELSE "unset"]
  <1>1. given \subseteq ToSet(qs)
    <2>1. ASSUME fails PROVE ToSet(SubSeq(qs, 1, e.breaks + 1)) \subseteq ToSet(qs)
      <3>1. e.breaks + 1 \in Nat /\ Len(qs) \in Nat /\ e.breaks + 1 <= Len(qs)
        BY <2>1, OutcomeType, LenProperties, AdnsAssumption
      <3> QED BY <3>1, SubSeqSet
    <2> QED BY <2>1
  <1>2. ToSet(qs) \subseteq ToSet(s.tcpw)
    OBVIOUS
  <1> HIDE DEF given
  <1>3. OnlyTcp(s, r)
    BY <1>1, <1>2, RetriedOnly
  <1>4. /\ r.tcpstate = "ok" /\ r.tcpserver = s.tcpserver
        /\ \A q \in Queries :
             /\ r.qu[q].tried = s.qu[q].tried /\ r.qu[q].retries <= s.qu[q].retries + 1
             /\ q \notin given => r.qu[q] = s.qu[q]
    BY RetriedFields
  <1> HIDE DEF r, fails
  <1>5. t.qu = r.qu /\ t.tcpw = r.tcpw /\ t.tcpstate = "ok" /\ t.tcpserver = s.tcpserver
    BY <1>3, <1>4 DEF OnlyTcp, AdnsStates
  <1>6. t \in AdnsStates
    <2>1. given \subseteq Queries /\ e.part \in BOOLEAN
      BY <1>1, <1>2, ToSetType, Fields1, OutcomeType
    <2> QED BY <1>3, <2>1 DEF OnlyTcp, AdnsStates
  <1> HIDE DEF t
  <1>7. FitsTcp(t)
    <2> SUFFICES ASSUME NEW q \in ToSet(s.tcpw) PROVE TcpOk("ok", s.tcpserver, r.qu[q])
      BY <1>3, <1>5, OnlyTcpNames DEF FitsTcp
    <2>1. q \in Queries /\ s.tcpserver \in Servers
          /\ s.qu[q].retries \in Nat /\ r.qu[q].retries \in Nat /\ nservers \in Nat
          /\ (NamesOk(s.qu[q]) => NamesOk(r.qu[q]))
      BY <1>3, OnlyTcpNames, AdnsAssumption
    <2>2. TcpOk(IF q \in ToSet(qs) THEN "connecting" ELSE "ok", s.tcpserver, s.qu[q])
      OBVIOUS
    <2>3. CASE q \notin ToSet(qs)
      BY <1>1, <1>4, <2>1, <2>2, <2>3
    <2>4. CASE q \in ToSet(qs)
      <3>1. TcpOk("connecting", s.tcpserver, s.qu[q])
        BY <2>2, <2>4
      <3>2. r.qu[q].tried = s.qu[q].tried /\ r.qu[q].retries <= s.qu[q].retries + 1
        BY <1>4, <2>1
      <3>3. "connect" \notin Faults => r.qu[q].retries <= Limit("ok")
        BY <2>1, <3>1, <3>2 DEF TcpOk, Limit
      <3>4. Failures("ok", r.qu[q]) <= Failures("connecting", s.qu[q])
        BY <2>1, <3>2 DEF Failures
      <3>5. NamesOk(r.qu[q])
        BY <2>1, <3>1 DEF TcpOk
      <3> QED BY <2>1, <3>1, <3>2, <3>3, <3>4, <3>5, TcpOkStays
    <2> QED BY <2>3, <2>4
  <1>8. FitsTcp(adns__tcp_broken(t))
    BY <1>5, <1>6, <1>7, BrokenFits
  <1>9. Written(s, qs, e) = IF fails THEN adns__tcp_broken(t) ELSE t
    BY DEF Written, t, r, given, fails
  <1> QED BY <1>7, <1>8, <1>9

LEMMA ConnectedFits ==
    ASSUME NEW s \in AdnsStates, SentOk(s), s.tcpstate \in {"disconnected", "connecting"},
           FitsTcp(s), NEW e \in Outcomes
    PROVE  FitsTcp(tcp_connected(s, e))
  <1> DEFINE t == [s EXCEPT !.tcpstate = "ok"]
  <1>1. t \in AdnsStates /\ t.qu = s.qu /\ t.tcpstate = "ok" /\ t.tcpserver = s.tcpserver
        /\ t.sent = {} /\ t.tcpw \in Seq(Queries) /\ t.tcpw = s.tcpw
    BY DEF AdnsStates, SentOk
  <1> HIDE DEF t
  <1>2. \A q \in ToSet(t.tcpw) : TcpOk("connecting", t.tcpserver, t.qu[q])
    <2>1. ASSUME NEW q, TcpOk("disconnected", s.tcpserver, s.qu[q])
          PROVE  TcpOk("connecting", s.tcpserver, s.qu[q])
      BY <2>1 DEF TcpOk, Limit, Covered, Failures
    <2> QED BY <1>1, <2>1 DEF FitsTcp
  <1>3. t.sent \cup ToSet(s.tcpw) = ToSet(t.tcpw)
        /\ \A q \in ToSet(t.tcpw) :
             TcpOk(IF q \in ToSet(s.tcpw) THEN "connecting" ELSE "ok", t.tcpserver, t.qu[q])
    BY <1>1, <1>2
  <1>4. FitsTcp(Written(t, s.tcpw, e))
    BY <1>1, <1>3, WrittenFits
  <1> QED BY <1>4 DEF tcp_connected, t

LEMMA TryconnectFits ==
    ASSUME NEW s \in AdnsStates, SentOk(s), FitsTcp(s), NEW e \in Outcomes
    PROVE  FitsTcp(adns__tcp_tryconnect(s, e))
  <1> DEFINE u == Tried(s, e.refused)
             r == Retried(u, ToSet(s.tcpw), e.refused)
             t == [r EXCEPT !.tcpserver = NextServer(@, e.refused)]
             c == [t EXCEPT !.tcpstate = "connecting", !.tcptimeout = "set"]
  <1> SUFFICES ASSUME s.tcpstate = "disconnected"
               PROVE  FitsTcp(adns__tcp_tryconnect(s, e))
    BY DEF adns__tcp_tryconnect
  <1>1. e.refused \in Nat /\ e.refused \in 0..nservers
        /\ ("connect" \notin Faults => e.refused = 0)
    BY OutcomeType
  <1>2. /\ OnlyTcp(s, u) /\ u.tcpstate = "disconnected" /\ u.tcpserver = s.tcpserver
        /\ \A q \in ToSet(s.tcpw) :
             /\ u.qu[q].retries = s.qu[q].retries
             /\ u.qu[q].tried = s.qu[q].tried
                                  \cup {NextServer(s.tcpserver, i) : i \in 0..e.refused - 1}
        /\ u.sent = s.sent
    BY <1>1, TriedOnly, TriedFields DEF Tried, AdnsStates
  <1> HIDE DEF u
  <1>3. /\ OnlyTcp(u, r) /\ r.tcpstate = "disconnected" /\ r.tcpserver = s.tcpserver
        /\ \A q \in Queries : /\ r.qu[q].tried = u.qu[q].tried
                              /\ r.qu[q].retries <= u.qu[q].retries + e.refused
        /\ r.sent = s.sent
    <2>1. u \in AdnsStates /\ ToSet(s.tcpw) \subseteq ToSet(u.tcpw)
      BY <1>2 DEF OnlyTcp, SameQueues
    <2>2. r.sent = u.sent
      BY <2>1 DEF Retried, AdnsStates
    <2> QED BY <1>1, <1>2, <2>1, <2>2, RetriedOnly, RetriedFields
  <1>4. OnlyTcp(s, r)
    BY <1>2, <1>3, OnlyTcpTrans
  <1> HIDE DEF r
  <1>5. /\ t \in AdnsStates /\ t.qu = r.qu /\ t.tcpw = s.tcpw /\ t.sent = s.sent
        /\ t.tcpstate = "disconnected" /\ t.tcpserver = NextServer(s.tcpserver, e.refused)
    <2>1. r \in AdnsStates /\ NextServer(s.tcpserver, e.refused) \in Servers
      BY <1>1, <1>3, <1>4, ServerTypes, Fields1 DEF OnlyTcp
    <2> QED BY <1>3, <1>4, <2>1 DEF AdnsStates, OnlyTcp, SameQueues
  <1> HIDE DEF t
  <1>6. FitsTcp(t)
    <2> SUFFICES ASSUME NEW q \in ToSet(s.tcpw)
                 PROVE  TcpOk("disconnected", NextServer(s.tcpserver, e.refused), r.qu[q])
      BY <1>5 DEF FitsTcp
    <2>1. q \in Queries /\ s.tcpserver \in Servers
          /\ s.qu[q].retries \in Nat /\ r.qu[q].retries \in Nat /\ nservers \in Nat
          /\ (NamesOk(s.qu[q]) => NamesOk(r.qu[q]))
      BY <1>4, OnlyTcpNames, AdnsAssumption
    <2>2. TcpOk("disconnected", s.tcpserver, s.qu[q])
      BY DEF FitsTcp
    <2>3. r.qu[q].retries <= s.qu[q].retries + e.refused
          /\ r.qu[q].tried = s.qu[q].tried
                               \cup {NextServer(s.tcpserver, i) : i \in 0..e.refused - 1}
      BY <1>2, <1>3, <2>1
    <2>4. "connect" \notin Faults => r.qu[q].retries <= Limit("disconnected")
      BY <1>1, <2>1, <2>2, <2>3 DEF TcpOk, Limit
    <2>5. Failures("disconnected", r.qu[q]) <= Failures("disconnected", s.qu[q]) + e.refused
      BY <2>3 DEF Failures
    <2>6. NamesOk(r.qu[q])
      BY <2>1, <2>2 DEF TcpOk
    <2>7. \A j \in 0..e.refused - 1 : NextServer(s.tcpserver, j) \in r.qu[q].tried
      BY <2>3
    <2>8. \A v \in s.qu[q].tried : v \in r.qu[q].tried
      BY <2>3
    <2> QED BY <1>1, <2>1, <2>2, <2>4, <2>5, <2>6, <2>7, <2>8, TcpOkMoves
  <1>7. SentOk(t)
    BY <1>5 DEF SentOk
  <1>8. FitsTcp(tcp_connected(t, e))
    BY <1>5, <1>6, <1>7, ConnectedFits
  <1>9. FitsTcp(c)
    <2>1. c.qu = t.qu /\ c.tcpw = t.tcpw /\ c.tcpserver = t.tcpserver /\ c.tcpstate = "connecting"
      BY <1>5 DEF AdnsStates
    <2>2. ASSUME NEW x, NEW y, TcpOk("disconnected", x, y) PROVE TcpOk("connecting", x, y)
      BY <2>2 DEF TcpOk, Limit, Covered, Failures
    <2> QED BY <1>5, <1>6, <2>1, <2>2 DEF FitsTcp
  <1> HIDE DEF c
  <1>10. adns__tcp_tryconnect(s, e) \in {t, tcp_connected(t, e), c}
    BY DEF adns__tcp_tryconnect, c, t, r, u
  <1> QED BY <1>6, <1>8, <1>9, <1>10

-----------------------------------------------------------------------------
(***************************************************************************)
(* The queues.  A function takes a query off its queue, and puts it on      *)
(* another one or frees it: between the two the query is in hand, h.        *)
(***************************************************************************)

Alive(s, q) == s.qu[q].state # "free"

\* The queue holds the queries of that state once each, but those in hand.
Placed(s, h, queue, state) ==
    /\ IsInjective(queue)
    /\ \A q \in Queries : q \in ToSet(queue) <=> s.qu[q].state = state /\ q \notin h

\* A child waits for a server, and its parent for it.
ChildOf(s, h, c, p) ==
    /\ s.qu[c].kind = "addr" /\ s.qu[c].state \in {"tosend", "tcpw"}
    /\ p \in Queries /\ s.qu[p].parent = None /\ s.qu[p].kind \in {"hostaddr", "ptr"}
    /\ s.qu[p].state = "childw" \/ (p \in h /\ Alive(s, p))

Families(s, h) ==
    \A c \in Queries : Alive(s, c) /\ s.qu[c].parent # None => ChildOf(s, h, c, s.qu[c].parent)

Exact(s, h) ==
    /\ s \in AdnsStates /\ h \subseteq Queries
    /\ Placed(s, h, s.udpw, "tosend") /\ Placed(s, h, s.tcpw, "tcpw")
    /\ Placed(s, h, s.childw, "childw") /\ Placed(s, h, s.output, "done")
    /\ \A q \in h : s.qu[q].state \in {"tosend", "tcpw", "childw"}
    /\ Families(s, h)

\* A query waits for children only if it has some.
Waits(s, h) ==
    \A q \in Queries : s.qu[q].state = "childw" /\ q \notin h => Children(s, q) # {}

Good(s, h) == Exact(s, h) /\ Waits(s, h) /\ SentOk(s)

\* The queries of the user that have no answer.
Pend(s) == {q \in Queries : Alive(s, q) /\ s.qu[q].parent = None /\ s.qu[q].state # "done"}

\* Nothing is answered from s to t; the query q is.
NoAnswer(s, t) == Pend(t) = Pend(s) /\ t.output = s.output
OneAnswer(s, t, q) ==
    q \in Pend(s) /\ Pend(t) = Pend(s) \ {q} /\ t.output = Append(s.output, q)
Replied(s, t) == NoAnswer(s, t) \/ \E q \in Queries : OneAnswer(s, t, q)

\* The first of a and b on the queue is a.
Before(queue, a, b) ==
    \E i, j \in DOMAIN queue : i < j /\ queue[i] = a /\ queue[j] = b

\* From s to t queries only left udpw and tcpw; the others are as they were.
Shrinks(s, t) ==
    /\ ToSet(t.udpw) \subseteq ToSet(s.udpw) /\ ToSet(t.tcpw) \subseteq ToSet(s.tcpw)
    /\ \A q \in ToSet(t.udpw) \cup ToSet(t.tcpw) : t.qu[q] = s.qu[q]
    /\ \A a, b : Before(t.tcpw, a, b) => Before(s.tcpw, a, b)
    /\ t.tcpstate = s.tcpstate /\ t.tcpserver = s.tcpserver /\ t.abort = s.abort

LEMMA ShrinksTrans ==
    ASSUME NEW s, NEW t, NEW u, Shrinks(s, t), Shrinks(t, u)
    PROVE  Shrinks(s, u)
  BY DEF Shrinks

\* The connection changes no queue, and nothing that decides on which a query is.
LEMMA OnlyTcpExact ==
    ASSUME NEW s, NEW t, OnlyTcp(s, t), NEW h, Exact(s, h), Waits(s, h)
    PROVE  Exact(t, h) /\ Waits(t, h) /\ NoAnswer(s, t)
  <1>1. s \in AdnsStates /\ t \in AdnsStates /\ SameQueues(s, t)
        /\ \A q \in Queries : /\ t.qu[q].state = s.qu[q].state
                              /\ t.qu[q].kind = s.qu[q].kind
                              /\ t.qu[q].parent = s.qu[q].parent
    BY DEF OnlyTcp, SameQuery
  <1>2. \A q \in Queries : Children(t, q) = Children(s, q)
    BY <1>1 DEF Children
  <1>3. Pend(t) = Pend(s)
    BY <1>1 DEF Pend, Alive
  <1>4. Families(t, h)
    BY <1>1 DEF Exact, Families, ChildOf, Alive
  <1>5. \A q \in h : t.qu[q].state \in {"tosend", "tcpw", "childw"}
    BY <1>1 DEF Exact
  <1>6. /\ Placed(t, h, t.udpw, "tosend") /\ Placed(t, h, t.tcpw, "tcpw")
        /\ Placed(t, h, t.childw, "childw") /\ Placed(t, h, t.output, "done")
    BY <1>1 DEF Exact, Placed, SameQueues
  <1> QED BY <1>1, <1>2, <1>3, <1>4, <1>5, <1>6 DEF Exact, Waits, NoAnswer, SameQueues

-----------------------------------------------------------------------------
(***************************************************************************)
(* The end of a query.                                                      *)
(***************************************************************************)

LEMMA GoneFields ==
    ASSUME NEW s \in AdnsStates, NEW gone \in SUBSET Queries
    PROVE  /\ Gone(s, gone) \in AdnsStates
           /\ \A q \in Queries :
                Gone(s, gone).qu[q] = IF q \in gone THEN Freed ELSE s.qu[q]
           /\ Gone(s, gone).udpw = Off(s.udpw, gone) /\ Gone(s, gone).tcpw = Off(s.tcpw, gone)
           /\ Gone(s, gone).childw = Off(s.childw, gone)
           /\ Gone(s, gone).output = Off(s.output, gone)
           /\ Gone(s, gone).sent = s.sent \ gone
           /\ Gone(s, gone).tcpstate = s.tcpstate /\ Gone(s, gone).tcpserver = s.tcpserver
           /\ Gone(s, gone).abort = s.abort
  <1> DEFINE f == [q \in Queries |-> IF q \in gone THEN Freed ELSE s.qu[q]]
  <1>1. f \in [Queries -> QueryRecords]
    BY Fields1, FreedType
  <1>2. /\ Off(s.udpw, gone) \in Seq(Queries) /\ Off(s.tcpw, gone) \in Seq(Queries)
        /\ Off(s.childw, gone) \in Seq(Queries) /\ Off(s.output, gone) \in Seq(Queries)
    BY Fields1, OffType
  <1>3. Gone(s, gone) = [s EXCEPT !.qu = f,
              !.udpw = Off(@, gone), !.tcpw = Off(@, gone),
              !.childw = Off(@, gone), !.output = Off(@, gone),
              !.sent = @ \ gone]
    BY DEF Gone
  <1>4. \A q \in Queries : f[q] = IF q \in gone THEN Freed ELSE s.qu[q]
    OBVIOUS
  <1> HIDE DEF f
  <1> QED BY <1>1, <1>2, <1>3, <1>4 DEF AdnsStates

LEMMA OffPlaced ==
    ASSUME NEW queue \in Seq(Queries), NEW gone \in SUBSET Queries, IsInjective(queue)
    PROVE  /\ Off(queue, gone) \in Seq(Queries)
           /\ IsInjective(Off(queue, gone))
           /\ ToSet(Off(queue, gone)) = ToSet(queue) \ gone
           /\ \A a, b : Before(Off(queue, gone), a, b) => Before(queue, a, b)
  <1>1. /\ Off(queue, gone) \in Seq(Queries)
        /\ ToSet(Off(queue, gone)) = ToSet(queue) \ gone
        /\ IsInjective(queue) => IsInjective(Off(queue, gone))
        /\ \A k, l \in DOMAIN Off(queue, gone) : k < l =>
             \E i, j \in DOMAIN queue :
               i < j /\ queue[i] = Off(queue, gone)[k] /\ queue[j] = Off(queue, gone)[l]
    BY OffQueue
  <1> HIDE DEF Off
  <1> QED BY <1>1 DEF Before

\* Queries leave with their children, and are freed.
LEMMA GoneExact ==
    ASSUME NEW s, NEW h, Exact(s, h), NEW gone \in SUBSET Queries,
           \A c \in Queries : Alive(s, c) /\ s.qu[c].parent \in gone => c \in gone
    PROVE  /\ Exact(Gone(s, gone), h \ gone)
           /\ Shrinks(s, Gone(s, gone))
           /\ SentOk(s) => SentOk(Gone(s, gone))
           /\ \A q \in Queries : Children(Gone(s, gone), q) = Children(s, q) \ gone
           /\ Pend(Gone(s, gone)) = Pend(s) \ gone
  <1> DEFINE t == Gone(s, gone)
  <1>1. s \in AdnsStates /\ h \subseteq Queries /\ Families(s, h)
        /\ \A q \in h : s.qu[q].state \in {"tosend", "tcpw", "childw"}
    BY DEF Exact
  <1>2. t \in AdnsStates
        /\ \A q \in Queries : t.qu[q] = IF q \in gone THEN Freed ELSE s.qu[q]
    BY <1>1, GoneFields
  <1>3. /\ t.udpw = Off(s.udpw, gone) /\ t.tcpw = Off(s.tcpw, gone)
        /\ t.childw = Off(s.childw, gone) /\ t.output = Off(s.output, gone)
        /\ t.sent = s.sent \ gone /\ t.tcpstate = s.tcpstate /\ t.tcpserver = s.tcpserver
        /\ t.abort = s.abort
    BY <1>1, GoneFields
  <1> HIDE DEF t
  <1>4. \A q \in Queries : q \in gone => t.qu[q].state = "free" /\ t.qu[q].parent = None
    BY <1>2, FreedType
  <1>5. ASSUME NEW queue \in Seq(Queries), NEW state \in States \ {"free"},
               Placed(s, h, queue, state)
        PROVE  Placed(t, h \ gone, Off(queue, gone), state)
    <2>1. IsInjective(Off(queue, gone)) /\ ToSet(Off(queue, gone)) = ToSet(queue) \ gone
      BY <1>5, OffPlaced DEF Placed
    <2>2. ASSUME NEW q \in Queries
          PROVE  q \in ToSet(queue) \ gone <=> t.qu[q].state = state /\ q \notin h \ gone
      BY <1>2, <1>4, <1>5 DEF Placed
    <2> QED BY <2>1, <2>2 DEF Placed
  <1>6. /\ s.udpw \in Seq(Queries) /\ s.tcpw \in Seq(Queries)
        /\ s.childw \in Seq(Queries) /\ s.output \in Seq(Queries)
    BY <1>1, Fields1
  <1>7. /\ Placed(t, h \ gone, t.udpw, "tosend") /\ Placed(t, h \ gone, t.tcpw, "tcpw")
        /\ Placed(t, h \ gone, t.childw, "childw") /\ Placed(t, h \ gone, t.output, "done")
    BY <1>3, <1>5, <1>6 DEF Exact, States
  <1>8. Families(t, h \ gone)
    <2> SUFFICES ASSUME NEW c \in Queries, Alive(t, c), t.qu[c].parent # None
                 PROVE  ChildOf(t, h \ gone, c, t.qu[c].parent)
      BY DEF Families
    <2>1. c \notin gone /\ t.qu[c] = s.qu[c] /\ Alive(s, c)
      BY <1>2, <1>4 DEF Alive
    <2>2. ChildOf(s, h, c, s.qu[c].parent)
      BY <1>1, <2>1 DEF Families
    <2>3. s.qu[c].parent \in Queries /\ s.qu[c].parent \notin gone
      BY <2>1, <2>2 DEF ChildOf
    <2>4. t.qu[s.qu[c].parent] = s.qu[s.qu[c].parent]
      BY <1>2, <2>3
    <2> QED BY <2>1, <2>2, <2>3, <2>4 DEF ChildOf, Alive
  <1>9. \A q \in h \ gone : t.qu[q].state \in {"tosend", "tcpw", "childw"}
    BY <1>1, <1>2
  <1>10. Exact(t, h \ gone)
    BY <1>1, <1>2, <1>7, <1>8, <1>9 DEF Exact
  <1>11. /\ ToSet(t.udpw) = ToSet(s.udpw) \ gone /\ ToSet(t.tcpw) = ToSet(s.tcpw) \ gone
         /\ \A a, b : Before(t.tcpw, a, b) => Before(s.tcpw, a, b)
    BY <1>3, <1>6, OffPlaced DEF Exact, Placed
  <1>12. Shrinks(s, t)
    <2>1. ToSet(s.udpw) \subseteq Queries /\ ToSet(s.tcpw) \subseteq Queries
      BY <1>6, ToSetType
    <2> QED BY <1>2, <1>3, <1>11, <2>1 DEF Shrinks
  <1>13. SentOk(s) => SentOk(t)
    BY <1>3, <1>11 DEF SentOk
  <1>14. ASSUME NEW q \in Queries PROVE Children(t, q) = Children(s, q) \ gone
    BY <1>2, <1>4 DEF Children
  <1>15. Pend(t) = Pend(s) \ gone
    BY <1>2, <1>4 DEF Pend, Alive
  <1> QED BY <1>10, <1>12, <1>13, <1>14, <1>15 DEF t

\* What is left to a query in hand when its children are cancelled.
LEMMA CancelChildrenExact ==
    ASSUME NEW s, NEW q \in Queries, Good(s, {q})
    PROVE  LET t == cancel_children(s, q)
           IN  /\ Good(t, {q}) /\ Shrinks(s, t) /\ NoAnswer(s, t)
               /\ Children(t, q) = {} /\ t.qu[q] = s.qu[q]
  <1> DEFINE t == cancel_children(s, q)
             gone == Children(s, q)
  <1>1. Exact(s, {q}) /\ Waits(s, {q}) /\ SentOk(s) /\ s \in AdnsStates /\ Families(s, {q})
    BY DEF Good, Exact
  <1>2. gone \in SUBSET Queries
        /\ \A c \in gone : Alive(s, c) /\ s.qu[c].parent = q /\ ChildOf(s, {q}, c, q)
    BY <1>1, AdnsAssumption DEF Children, Families, Alive, Queries, None
  <1>3. q \notin gone /\ {q} \ gone = {q}
    BY <1>2, AdnsAssumption DEF ChildOf, Queries, None
  <1>4. \A c \in Queries : Alive(s, c) /\ s.qu[c].parent \in gone => c \in gone
    <2> SUFFICES ASSUME NEW c \in Queries, Alive(s, c), s.qu[c].parent \in gone PROVE FALSE
      OBVIOUS
    <2>1. s.qu[c].parent # None
      BY <1>2, AdnsAssumption DEF Queries, None
    <2>2. ChildOf(s, {q}, c, s.qu[c].parent)
      BY <1>1, <2>1 DEF Families
    <2>3. ChildOf(s, {q}, s.qu[c].parent, q)
      BY <1>2
    <2> QED BY <2>2, <2>3 DEF ChildOf
  <1>5. t = Gone(s, gone)
    BY DEF cancel_children
  <1>6. /\ Exact(t, {q}) /\ Shrinks(s, t) /\ SentOk(t)
        /\ \A x \in Queries : Children(t, x) = Children(s, x) \ gone
        /\ Pend(t) = Pend(s) \ gone
    <2> HIDE DEF gone, t
    <2>1. /\ Exact(Gone(s, gone), {q} \ gone) /\ Shrinks(s, Gone(s, gone))
          /\ SentOk(s) => SentOk(Gone(s, gone))
          /\ \A x \in Queries : Children(Gone(s, gone), x) = Children(s, x) \ gone
          /\ Pend(Gone(s, gone)) = Pend(s) \ gone
      BY <1>1, <1>2, <1>4, GoneExact
    <2> QED BY <1>1, <1>3, <1>5, <2>1
  <1>7. /\ \A x \in Queries : t.qu[x] = IF x \in gone THEN Freed ELSE s.qu[x]
        /\ t.output = Off(s.output, gone)
    BY <1>1, <1>2, <1>5, GoneFields
  <1>8. t.output = s.output
    <2>1. \A x \in gone : x \notin ToSet(s.output)
      BY <1>1, <1>2 DEF ChildOf, Exact, Placed
    <2>2. s.output \in Seq(Queries)
      BY <1>1, Fields1
    <2> HIDE DEF gone
    <2> QED BY <1>7, <2>1, <2>2, OffNone
  <1>9. Pend(t) = Pend(s)
    <2>1. \A x \in gone : x \notin Pend(s)
      BY <1>2, AdnsAssumption DEF Pend, Queries, None
    <2> QED BY <1>6, <2>1
  <1>10. Waits(t, {q})
    <2> SUFFICES ASSUME NEW x \in Queries, t.qu[x].state = "childw", x # q
                 PROVE  Children(t, x) # {}
      BY DEF Waits
    <2>1. x \notin gone /\ s.qu[x].state = "childw"
      BY <1>7, FreedType
    <2>2. Children(s, x) # {}
      BY <1>1, <2>1 DEF Waits
    <2>3. \A c \in Children(s, x) : c \notin gone
      BY DEF Children
    <2> QED BY <1>6, <2>2, <2>3
  <1>11. Children(t, q) = {} /\ t.qu[q] = s.qu[q]
    BY <1>3, <1>6, <1>7
  <1> HIDE DEF t
  <1>12. Good(t, {q}) /\ NoAnswer(s, t)
    BY <1>6, <1>8, <1>9, <1>10 DEF Good, NoAnswer
  <1> QED BY <1>6, <1>11, <1>12 DEF t

Statuses == {"ok", "failed", "allservfail"}

\* A query of the user is answered.
LEMMA AnsweredExact ==
    ASSUME NEW s, NEW q \in Queries, Good(s, {q}), s.qu[q].parent = None,
           NEW status \in Statuses
    PROVE  LET t == Answered(s, q, status)
           IN  Good(t, {}) /\ Shrinks(s, t) /\ OneAnswer(s, t, q)
  <1> DEFINE c == cancel_children(s, q)
             answer == [Virgin(s.qu[q].kind, None) EXCEPT !.state = "done", !.status = status]
             t == Answered(s, q, status)
  <1>1. /\ Good(c, {q}) /\ Shrinks(s, c) /\ NoAnswer(s, c)
        /\ Children(c, q) = {} /\ c.qu[q] = s.qu[q]
    BY CancelChildrenExact
  <1> HIDE DEF c
  <1>2. /\ Exact(c, {q}) /\ Waits(c, {q}) /\ SentOk(c) /\ c \in AdnsStates
        /\ c.qu \in [Queries -> QueryRecords] /\ c.output \in Seq(Queries)
        /\ Families(c, {q})
    BY <1>1, Fields1 DEF Good, Exact
  <1>3. answer \in QueryRecords /\ answer.state = "done" /\ answer.parent = None
    <2>1. s.qu[q].kind \in Kinds \cup {"addr"}
      BY <1>1, <1>2 DEF QueryRecords
    <2>2. Virgin(s.qu[q].kind, None) \in QueryRecords
      BY <2>1, VirginType
    <2>3. answer \in QueryRecords
      BY <2>2 DEF QueryRecords, States, Statuses
    <2> QED BY <2>3 DEF Virgin
  <1>4. t = [c EXCEPT !.qu[q] = answer, !.output = Append(@, q)]
    BY DEF Answered, c, answer
  <1> HIDE DEF answer, t
  <1>5. /\ t \in AdnsStates
        /\ \A x \in Queries : t.qu[x] = IF x = q THEN answer ELSE c.qu[x]
        /\ t.output = Append(c.output, q)
        /\ t.udpw = c.udpw /\ t.tcpw = c.tcpw /\ t.childw = c.childw
        /\ t.sent = c.sent /\ t.tcpstate = c.tcpstate /\ t.tcpserver = c.tcpserver
        /\ t.abort = c.abort
    <2>1. Append(c.output, q) \in Seq(Queries)
      BY <1>2, AppendType
    <2> QED BY <1>2, <1>3, <1>4, <2>1 DEF AdnsStates
  <1>6. /\ q \notin ToSet(c.udpw) /\ q \notin ToSet(c.tcpw)
        /\ q \notin ToSet(c.childw) /\ q \notin ToSet(c.output)
        /\ c.qu[q].state \in {"tosend", "tcpw", "childw"}
    BY <1>2 DEF Exact, Placed
  <1>7. Placed(t, {}, t.output, "done")
    <2>1. IsInjective(t.output) /\ ToSet(t.output) = ToSet(c.output) \cup {q}
      BY <1>2, <1>5, <1>6, PutQueue DEF Adds, Exact, Placed
    <2> QED BY <1>2, <1>3, <1>5, <1>6, <2>1 DEF Exact, Placed
  <1>8. /\ Placed(t, {}, t.udpw, "tosend") /\ Placed(t, {}, t.tcpw, "tcpw")
        /\ Placed(t, {}, t.childw, "childw")
    BY <1>2, <1>3, <1>5, <1>6 DEF Exact, Placed
  <1>9. Families(t, {})
    <2> SUFFICES ASSUME NEW x \in Queries, Alive(t, x), t.qu[x].parent # None
                 PROVE  ChildOf(t, {}, x, t.qu[x].parent)
      BY DEF Families
    <2>1. x # q /\ t.qu[x] = c.qu[x] /\ Alive(c, x)
      BY <1>3, <1>5 DEF Alive
    <2>2. ChildOf(c, {q}, x, c.qu[x].parent)
      BY <1>2, <2>1 DEF Families
    <2>3. c.qu[x].parent # q
      BY <1>1, <2>1 DEF Children, Alive
    <2> QED BY <1>5, <2>1, <2>2, <2>3 DEF ChildOf, Alive
  <1>10. Waits(t, {})
    <2> SUFFICES ASSUME NEW x \in Queries, t.qu[x].state = "childw"
                 PROVE  Children(t, x) # {}
      BY DEF Waits
    <2>1. x # q /\ Children(c, x) # {}
      BY <1>2, <1>3, <1>5 DEF Waits
    <2>2. q \notin Children(c, x)
      BY <1>1, AdnsAssumption DEF Children, Queries, None
    <2> QED BY <1>5, <2>1, <2>2 DEF Children
  <1>11. SentOk(t)
    BY <1>2, <1>5 DEF SentOk
  <1>12. Good(t, {})
    BY <1>5, <1>7, <1>8, <1>9, <1>10, <1>11 DEF Good, Exact
  <1>13. OneAnswer(s, t, q)
    BY <1>1, <1>3, <1>5, <1>6 DEF OneAnswer, NoAnswer, Pend, Alive
  <1>14. Shrinks(c, t)
    <2>1. ToSet(c.udpw) \subseteq Queries /\ ToSet(c.tcpw) \subseteq Queries
      BY <1>2, Fields1, ToSetType
    <2> QED BY <1>5, <1>6, <2>1 DEF Shrinks
  <1> QED BY <1>1, <1>12, <1>13, <1>14, ShrinksTrans DEF t

\* A parent goes on to wait for its other children, or is answered.
LEMMA HostaddrExact ==
    ASSUME NEW s, NEW p \in Queries, Good(s, {p}),
           s.qu[p].parent = None, s.qu[p].state = "childw"
    PROVE  LET t == icb_hostaddr(s, p)
           IN  Good(t, {}) /\ Shrinks(s, t) /\ Replied(s, t)
  <1> DEFINE t == [s EXCEPT !.childw = Append(@, p)]
  <1>1. /\ Exact(s, {p}) /\ Waits(s, {p}) /\ SentOk(s) /\ s \in AdnsStates
        /\ s.childw \in Seq(Queries) /\ p \notin ToSet(s.childw)
    BY Fields1 DEF Good, Exact, Placed
  <1>2. /\ t \in AdnsStates /\ t.qu = s.qu /\ t.childw = Append(s.childw, p)
        /\ t.udpw = s.udpw /\ t.tcpw = s.tcpw /\ t.output = s.output
        /\ t.sent = s.sent /\ t.tcpstate = s.tcpstate /\ t.tcpserver = s.tcpserver
        /\ t.abort = s.abort
    <2>1. Append(s.childw, p) \in Seq(Queries)
      BY <1>1, AppendType
    <2> QED BY <1>1, <2>1 DEF AdnsStates
  <1> HIDE DEF t
  <1>3. IsInjective(t.childw) /\ ToSet(t.childw) = ToSet(s.childw) \cup {p}
    BY <1>1, <1>2, PutQueue DEF Adds, Exact, Placed
  <1>4. /\ Placed(t, {}, t.udpw, "tosend") /\ Placed(t, {}, t.tcpw, "tcpw")
        /\ Placed(t, {}, t.childw, "childw") /\ Placed(t, {}, t.output, "done")
    BY <1>1, <1>2, <1>3 DEF Exact, Placed
  <1>5. Families(t, {})
    BY <1>1, <1>2 DEF Exact, Families, ChildOf, Alive
  <1>6. ASSUME Children(s, p) # {} PROVE Waits(t, {})
    BY <1>1, <1>2, <1>6 DEF Waits, Children
  <1>7. Shrinks(s, t) /\ NoAnswer(s, t) /\ SentOk(t)
    BY <1>1, <1>2 DEF Shrinks, NoAnswer, Pend, Alive, SentOk
  <1>8. Children(s, p) # {} => Good(t, {}) /\ Shrinks(s, t) /\ Replied(s, t)
    BY <1>2, <1>4, <1>5, <1>6, <1>7 DEF Good, Exact, Replied
  <1>9. LET u == Answered(s, p, "ok") IN Good(u, {}) /\ Shrinks(s, u) /\ Replied(s, u)
    BY AnsweredExact DEF Replied, Statuses
  <1> QED BY <1>8, <1>9 DEF icb_hostaddr, t

LEMMA PtrExact ==
    ASSUME NEW s, NEW p \in Queries, Good(s, {p}), NEW status \in Statuses,
           s.qu[p].parent = None, s.qu[p].state = "childw"
    PROVE  LET t == icb_ptr(s, p, status)
           IN  Good(t, {}) /\ Shrinks(s, t) /\ Replied(s, t)
  <1>1. LET u == Answered(s, p, "failed") IN Good(u, {}) /\ Shrinks(s, u) /\ Replied(s, u)
    BY AnsweredExact DEF Replied, Statuses
  <1> QED BY <1>1, HostaddrExact DEF icb_ptr

\* A query that ends is answered, or leaves its parent to the callback.
LEMMA DoneExact ==
    ASSUME NEW s, NEW q \in Queries, Good(s, {q}), NEW status \in Statuses
    PROVE  LET t == adns__query_done(s, q, status)
           IN  Good(t, {}) /\ Shrinks(s, t) /\ Replied(s, t)
  <1> DEFINE p == s.qu[q].parent
             g == Gone(s, {q})
             t == [g EXCEPT !.childw = Off(@, {p})]
  <1>1. /\ Exact(s, {q}) /\ Waits(s, {q}) /\ SentOk(s) /\ s \in AdnsStates
        /\ Families(s, {q}) /\ s.qu[q].state \in {"tosend", "tcpw", "childw"}
    BY DEF Good, Exact
  <1>2. CASE p = None
    BY <1>2, AnsweredExact DEF adns__query_done, Replied
  <1>3. CASE p # None
    <2>1. ChildOf(s, {q}, q, p) /\ p \in Queries /\ p # q
      BY <1>1, <1>3 DEF Families, Alive, ChildOf
    <2>2. s.qu[p].state = "childw" /\ s.qu[p].parent = None
      BY <2>1 DEF ChildOf
    <2>3. \A c \in Queries : Alive(s, c) /\ s.qu[c].parent \in {q} => c \in {q}
      <3> SUFFICES ASSUME NEW c \in Queries, Alive(s, c), s.qu[c].parent = q PROVE FALSE
        OBVIOUS
      <3>1. ChildOf(s, {q}, c, q)
        BY <1>1, AdnsAssumption DEF Families, Queries, None
      <3> QED BY <2>1, <3>1 DEF ChildOf
    <2>4. /\ Exact(g, {}) /\ Shrinks(s, g) /\ SentOk(g)
          /\ \A x \in Queries : Children(g, x) = Children(s, x) \ {q}
          /\ Pend(g) = Pend(s) \ {q}
      <3>1. /\ Exact(g, {q} \ {q}) /\ Shrinks(s, g) /\ SentOk(g)
            /\ \A x \in Queries : Children(g, x) = Children(s, x) \ {q}
            /\ Pend(g) = Pend(s) \ {q}
        BY <1>1, <2>3, GoneExact
      <3> QED BY <3>1
    <2>5. /\ g \in AdnsStates
          /\ \A x \in Queries : g.qu[x] = IF x = q THEN Freed ELSE s.qu[x]
          /\ g.output = Off(s.output, {q})
      BY <1>1, GoneFields
    <2> HIDE DEF g
    <2>6. /\ g.childw \in Seq(Queries) /\ Off(g.childw, {p}) \in Seq(Queries)
          /\ IsInjective(Off(g.childw, {p}))
          /\ ToSet(Off(g.childw, {p})) = ToSet(g.childw) \ {p}
      BY <2>1, <2>4, <2>5, Fields1, OffPlaced DEF Exact, Placed
    <2>7. /\ t \in AdnsStates /\ t.qu = g.qu /\ t.childw = Off(g.childw, {p})
          /\ t.udpw = g.udpw /\ t.tcpw = g.tcpw /\ t.output = g.output
          /\ t.sent = g.sent /\ t.tcpstate = g.tcpstate /\ t.tcpserver = g.tcpserver
          /\ t.abort = g.abort
      BY <2>5, <2>6 DEF AdnsStates
    <2> HIDE DEF t
    <2>8. g.qu[p] = s.qu[p]
      BY <2>1, <2>5
    <2>9. Exact(t, {p})
      <3>1. /\ Placed(t, {p}, t.udpw, "tosend") /\ Placed(t, {p}, t.tcpw, "tcpw")
            /\ Placed(t, {p}, t.childw, "childw") /\ Placed(t, {p}, t.output, "done")
        <4>1. g.qu[p].state = "childw"
          BY <2>2, <2>8
        <4>2. /\ Placed(g, {}, g.udpw, "tosend") /\ Placed(g, {}, g.tcpw, "tcpw")
              /\ Placed(g, {}, g.childw, "childw") /\ Placed(g, {}, g.output, "done")
          BY <2>4 DEF Exact
        <4>3. /\ Placed(t, {p}, t.udpw, "tosend") /\ Placed(t, {p}, t.tcpw, "tcpw")
              /\ Placed(t, {p}, t.output, "done")
          BY <2>7, <4>1, <4>2 DEF Placed
        <4>4. Placed(t, {p}, t.childw, "childw")
          BY <2>6, <2>7, <4>2 DEF Placed
        <4> QED BY <4>3, <4>4
      <3>2. Families(t, {p})
        BY <2>4, <2>7 DEF Exact, Families, ChildOf, Alive
      <3> QED BY <2>1, <2>2, <2>7, <2>8, <3>1, <3>2 DEF Exact
    <2>10. Waits(t, {p})
      <3> SUFFICES ASSUME NEW x \in Queries, t.qu[x].state = "childw", x # p
                   PROVE  Children(t, x) # {}
        BY DEF Waits
      <3>1. x # q /\ s.qu[x].state = "childw"
        BY <2>5, <2>7, FreedType
      <3>2. Children(s, x) # {} /\ q \notin Children(s, x)
        BY <1>1, <3>1 DEF Waits, Children
      <3>3. Children(t, x) = Children(g, x)
        BY <2>7 DEF Children
      <3> QED BY <2>4, <3>2, <3>3
    <2>11. Shrinks(s, t)
      <3>1. Shrinks(g, t)
        BY <2>7 DEF Shrinks
      <3> QED BY <2>4, <3>1, ShrinksTrans
    <2>12. NoAnswer(s, t)
      <3>1. Off(s.output, {q}) = s.output
        <4>1. q \notin ToSet(s.output) /\ s.output \in Seq(Queries)
          BY <1>1, Fields1 DEF Exact, Placed
        <4> QED BY <4>1, OffNone
      <3>2. Pend(t) = Pend(g)
        BY <2>7 DEF Pend, Alive
      <3>3. q \notin Pend(s)
        BY <1>3 DEF Pend
      <3> QED BY <2>4, <2>5, <2>7, <3>1, <3>2, <3>3 DEF NoAnswer
    <2>13. Good(t, {p})
      BY <2>4, <2>7, <2>9, <2>10 DEF Good, SentOk
    <2>14. t.qu[p].parent = None /\ t.qu[p].state = "childw"
      BY <2>2, <2>7, <2>8
    <2>15. LET u == icb_hostaddr(t, p) IN Good(u, {}) /\ Shrinks(t, u) /\ Replied(t, u)
      BY <2>1, <2>13, <2>14, HostaddrExact
    <2>16. LET u == icb_ptr(t, p, status) IN Good(u, {}) /\ Shrinks(t, u) /\ Replied(t, u)
      BY <2>1, <2>13, <2>14, PtrExact
    <2>17. ASSUME NEW u, Good(u, {}), Shrinks(t, u), Replied(t, u)
           PROVE  Good(u, {}) /\ Shrinks(s, u) /\ Replied(s, u)
      <3>1. Shrinks(s, u)
        BY <2>11, <2>17, ShrinksTrans
      <3>2. Replied(s, u)
        BY <2>12, <2>17 DEF Replied, NoAnswer, OneAnswer
      <3> QED BY <2>17, <3>1, <3>2
    <2>18. adns__query_done(s, q, status) = IF s.qu[p].kind = "ptr" THEN icb_ptr(t, p, status)
                                            ELSE icb_hostaddr(t, p)
      BY <1>3 DEF adns__query_done, t, g
    <2> QED BY <2>15, <2>16, <2>17, <2>18
  <1> QED BY <1>2, <1>3

LEMMA FailExact ==
    ASSUME NEW s, NEW q \in Queries, Good(s, {q}), NEW status \in Statuses
    PROVE  LET t == adns__query_fail(s, q, status)
           IN  Good(t, {}) /\ Shrinks(s, t) /\ Replied(s, t)
  <1> DEFINE c == cancel_children(s, q)
             t == adns__query_done(c, q, status)
  <1>1. Good(c, {q}) /\ Shrinks(s, c) /\ NoAnswer(s, c)
    BY CancelChildrenExact
  <1> HIDE DEF c
  <1>2. Good(t, {}) /\ Shrinks(c, t) /\ Replied(c, t)
    BY <1>1, DoneExact
  <1> HIDE DEF t
  <1>3. Shrinks(s, t)
    BY <1>1, <1>2, ShrinksTrans
  <1>4. Replied(s, t)
    BY <1>1, <1>2 DEF Replied, NoAnswer, OneAnswer
  <1> QED BY <1>2, <1>3, <1>4 DEF adns__query_fail, t, c

-----------------------------------------------------------------------------
(***************************************************************************)
(* Sending a query.                                                         *)
(***************************************************************************)

\* A query in hand, in its first state and without children, goes to tcpw.
LEMMA UsetcpExact ==
    ASSUME NEW s, NEW h, NEW q \in Queries, q \notin h, Good(s, h \cup {q}),
           s.qu[q].state = "tosend", Children(s, q) = {}, NEW e \in Outcomes
    PROVE  LET t == query_usetcp(s, q, e)
           IN  Good(t, h) /\ NoAnswer(s, t) /\ t.abort = s.abort
  <1> DEFINE t == [s EXCEPT !.qu[q].state = "tcpw", !.tcpw = Append(@, q)]
             a == adns__querysend_tcp(t, q, e)
             b == adns__tcp_tryconnect(a, e)
  <1>1. /\ Exact(s, h \cup {q}) /\ Waits(s, h \cup {q}) /\ SentOk(s)
        /\ s \in AdnsStates /\ s.qu \in [Queries -> QueryRecords]
        /\ s.tcpw \in Seq(Queries) /\ h \subseteq Queries
        /\ Families(s, h \cup {q})
    BY Fields1 DEF Good, Exact
  <1>2. /\ t \in AdnsStates
        /\ \A x \in Queries : x # q => t.qu[x] = s.qu[x]
        /\ t.qu[q].state = "tcpw" /\ t.qu[q].kind = s.qu[q].kind
        /\ t.qu[q].parent = s.qu[q].parent
        /\ t.tcpw = Append(s.tcpw, q)
        /\ t.udpw = s.udpw /\ t.childw = s.childw /\ t.output = s.output
        /\ t.sent = s.sent /\ t.tcpstate = s.tcpstate /\ t.abort = s.abort
    <2> DEFINE f == [s.qu EXCEPT ![q].state = "tcpw"]
    <2>1. /\ f \in [Queries -> QueryRecords]
          /\ \A x \in Queries : x # q => f[x] = s.qu[x]
          /\ f[q].state = "tcpw" /\ f[q].kind = s.qu[q].kind /\ f[q].parent = s.qu[q].parent
      BY <1>1 DEF QueryRecords, States
    <2>2. Append(s.tcpw, q) \in Seq(Queries)
      BY <1>1, AppendType
    <2>3. t = [s EXCEPT !.qu = f, !.tcpw = Append(@, q)]
      OBVIOUS
    <2> HIDE DEF f, t
    <2> QED BY <1>1, <2>1, <2>2, <2>3 DEF AdnsStates
  <1> HIDE DEF t
  <1>3. /\ q \notin ToSet(s.udpw) /\ q \notin ToSet(s.tcpw)
        /\ q \notin ToSet(s.childw) /\ q \notin ToSet(s.output)
    BY <1>1 DEF Exact, Placed
  <1>4. IsInjective(t.tcpw) /\ ToSet(t.tcpw) = ToSet(s.tcpw) \cup {q} /\ t.tcpw \in Seq(Queries)
    BY <1>1, <1>2, <1>3, PutQueue DEF Adds, Exact, Placed
  <1>5. Exact(t, h)
    <2>1. /\ Placed(t, h, t.udpw, "tosend") /\ Placed(t, h, t.childw, "childw")
          /\ Placed(t, h, t.output, "done")
      BY <1>1, <1>2, <1>3 DEF Exact, Placed
    <2>2. Placed(t, h, t.tcpw, "tcpw")
      BY <1>1, <1>2, <1>3, <1>4 DEF Exact, Placed
    <2>3. Families(t, h)
      <3> SUFFICES ASSUME NEW c \in Queries, Alive(t, c), t.qu[c].parent # None
                   PROVE  ChildOf(t, h, c, t.qu[c].parent)
        BY DEF Families
      <3>1. Alive(s, c) /\ t.qu[c].parent = s.qu[c].parent /\ t.qu[c].kind = s.qu[c].kind
        BY <1>2 DEF Alive
      <3>2. ChildOf(s, h \cup {q}, c, s.qu[c].parent) /\ s.qu[c].parent # q
        BY <1>1, <3>1 DEF Families, Children, Alive
      <3> QED BY <1>2, <3>1, <3>2 DEF ChildOf, Alive
    <2>4. \A x \in h : t.qu[x].state \in {"tosend", "tcpw", "childw"}
      BY <1>1, <1>2 DEF Exact
    <2> QED BY <1>1, <1>2, <2>1, <2>2, <2>3, <2>4 DEF Exact
  <1>6. \A x \in Queries : Children(t, x) = Children(s, x)
    BY <1>2 DEF Children
  <1>7. Waits(t, h)
    BY <1>1, <1>2, <1>6 DEF Waits
  <1>8. NoAnswer(s, t)
    <2>1. \A x \in Queries : x \in Pend(t) <=> x \in Pend(s)
      BY <1>2 DEF Pend, Alive
    <2> QED BY <1>2, <2>1 DEF NoAnswer, Pend
  <1>9. OnlyTcp(t, a) /\ SentOk(a)
    <2>1. CASE t.tcpstate = "ok"
      <3>1. <<q>> \in Seq(Queries) /\ ToSet(<<q>>) = {q}
        BY DEF ToSet
      <3>2. t.sent \cup ToSet(<<q>>) = ToSet(t.tcpw)
        BY <1>1, <1>2, <1>4, <2>1, <3>1 DEF SentOk
      <3> QED BY <1>2, <2>1, <3>1, <3>2, WrittenOnly DEF adns__querysend_tcp
    <2>2. CASE t.tcpstate # "ok"
      BY <1>1, <1>2, <2>2 DEF adns__querysend_tcp, OnlyTcp, SameQueues, SameQuery, SentOk
    <2> QED BY <2>1, <2>2
  <1> HIDE DEF a
  <1>10. OnlyTcp(a, b) /\ SentOk(b)
    BY <1>9, TryconnectOnly DEF OnlyTcp
  <1> HIDE DEF b
  <1>11. OnlyTcp(t, b)
    BY <1>9, <1>10, OnlyTcpTrans
  <1>12. Exact(b, h) /\ Waits(b, h) /\ NoAnswer(t, b)
    BY <1>5, <1>7, <1>11, OnlyTcpExact
  <1>13. b.abort = s.abort
    BY <1>2, <1>11 DEF OnlyTcp, SameQueues
  <1>14. query_usetcp(s, q, e) = b
    BY DEF query_usetcp, b, a, t
  <1> QED BY <1>8, <1>10, <1>12, <1>13, <1>14 DEF Good, NoAnswer

\* A change of a query that is none of its state, kind and parent.
Edits(s, t, q) ==
    /\ t \in AdnsStates
    /\ \A x \in Queries : x # q => t.qu[x] = s.qu[x]
    /\ t.qu[q].state = s.qu[q].state /\ t.qu[q].kind = s.qu[q].kind
    /\ t.qu[q].parent = s.qu[q].parent
    /\ SameQueues(s, t)
    /\ t.sent = s.sent /\ t.tcpstate = s.tcpstate /\ t.tcpserver = s.tcpserver

LEMMA EditExact ==
    ASSUME NEW s, NEW q \in Queries, NEW t, Edits(s, t, q), NEW h, Good(s, h)
    PROVE  Good(t, h) /\ NoAnswer(s, t) /\ \A x \in Queries : Children(t, x) = Children(s, x)
  <1>1. /\ t \in AdnsStates /\ SameQueues(s, t) /\ SentOk(t)
        /\ \A x \in Queries : /\ t.qu[x].state = s.qu[x].state
                              /\ t.qu[x].kind = s.qu[x].kind
                              /\ t.qu[x].parent = s.qu[x].parent
    BY DEF Edits, Good, SentOk, SameQueues
  <1>2. \A x \in Queries : Children(t, x) = Children(s, x)
    BY <1>1 DEF Children
  <1>3. Pend(t) = Pend(s)
    BY <1>1 DEF Pend, Alive
  <1>4. Families(t, h)
    BY <1>1 DEF Good, Exact, Families, ChildOf, Alive
  <1>5. \A x \in h : t.qu[x].state \in {"tosend", "tcpw", "childw"}
    BY <1>1 DEF Good, Exact
  <1>6. /\ Placed(t, h, t.udpw, "tosend") /\ Placed(t, h, t.tcpw, "tcpw")
        /\ Placed(t, h, t.childw, "childw") /\ Placed(t, h, t.output, "done")
    BY <1>1 DEF Good, Exact, Placed, SameQueues
  <1> QED BY <1>1, <1>2, <1>3, <1>4, <1>5, <1>6 DEF Good, Exact, Waits, NoAnswer, SameQueues

\* A query is sent over UDP.
LEMMA SentUdpFields ==
    ASSUME NEW s \in AdnsStates, NEW q \in Queries
    PROVE  /\ SentUdp(s, q) \in AdnsStates
           /\ \A x \in Queries : x # q => SentUdp(s, q).qu[x] = s.qu[x]
           /\ SentUdp(s, q).qu[q].state = s.qu[q].state
           /\ SentUdp(s, q).qu[q].kind = s.qu[q].kind
           /\ SentUdp(s, q).qu[q].parent = s.qu[q].parent
           /\ SentUdp(s, q).qu[q].usevc = s.qu[q].usevc
           /\ SentUdp(s, q).qu[q].names = s.qu[q].names
           /\ SentUdp(s, q).qu[q].status = s.qu[q].status
           /\ SentUdp(s, q).qu[q].retries = s.qu[q].retries + 1
           /\ SentUdp(s, q).qu[q].udpsent # {}
           /\ SentUdp(s, q).udpw = Append(s.udpw, q)
           /\ SentUdp(s, q).tcpw = s.tcpw /\ SentUdp(s, q).childw = s.childw
           /\ SentUdp(s, q).output = s.output /\ SentUdp(s, q).sent = s.sent
           /\ SentUdp(s, q).tcpstate = s.tcpstate /\ SentUdp(s, q).tcpserver = s.tcpserver
           /\ SentUdp(s, q).abort = s.abort
  <1> DEFINE r == [s.qu[q] EXCEPT !.udpsent = @ \cup {s.qu[q].udpnextserver},
                                  !.udpnextserver = NextServer(@, 1), !.retries = @ + 1]
  <1>1. s.qu \in [Queries -> QueryRecords] /\ s.qu[q] \in QueryRecords
        /\ Append(s.udpw, q) \in Seq(Queries)
    BY Fields1, AppendType
  <1>2. NextServer(s.qu[q].udpnextserver, 1) \in Servers /\ s.qu[q].udpnextserver \in Servers
        /\ s.qu[q].retries \in Nat /\ s.qu[q].udpsent \subseteq Servers
    BY <1>1, ServerTypes DEF QueryRecords
  <1>3. r \in QueryRecords
    <2> DEFINE v == NextServer(s.qu[q].udpnextserver, 1)
               w == s.qu[q].udpsent \cup {s.qu[q].udpnextserver}
               n == s.qu[q].retries + 1
    <2>1. v \in Servers /\ w \in SUBSET Servers /\ n \in Nat
      BY <1>2
    <2>2. r = [s.qu[q] EXCEPT !.udpsent = w, !.udpnextserver = v, !.retries = n]
      BY <1>1 DEF QueryRecords
    <2> HIDE DEF v, w, n, r
    <2> QED BY <1>1, <2>1, <2>2 DEF QueryRecords
  <1>4. r.retries = s.qu[q].retries + 1 /\ r.udpsent = s.qu[q].udpsent \cup {s.qu[q].udpnextserver}
    BY <1>1 DEF QueryRecords
  <1>5. /\ r.state = s.qu[q].state /\ r.kind = s.qu[q].kind
        /\ r.parent = s.qu[q].parent /\ r.usevc = s.qu[q].usevc
        /\ r.names = s.qu[q].names /\ r.status = s.qu[q].status
    BY <1>1 DEF QueryRecords
  <1>6. SentUdp(s, q) = [s EXCEPT !.udpw = Append(@, q), !.qu[q] = r]
    BY DEF SentUdp
  <1> HIDE DEF r
  <1> DEFINE f == [s.qu EXCEPT ![q] = r]
  <1>7. f \in [Queries -> QueryRecords] /\ f[q] = r /\ \A x \in Queries : x # q => f[x] = s.qu[x]
    BY <1>1, <1>3
  <1>8. SentUdp(s, q) = [s EXCEPT !.udpw = Append(@, q), !.qu = f]
    BY <1>6
  <1> HIDE DEF f
  <1> QED BY <1>1, <1>4, <1>5, <1>7, <1>8 DEF AdnsStates

\* A query in hand that is still within its retries is sent, whatever else is in
\* hand.
LEMMA SendKept ==
    ASSUME NEW s, NEW h, NEW q \in Queries, q \notin h, Good(s, h \cup {q}),
           s.qu[q].state = "tosend", Children(s, q) = {}, NEW e \in Outcomes,
           s.qu[q].usevc \/ ~(s.qu[q].retries >= UDPMAXRETRIES)
    PROVE  LET t == adns__query_send(s, q, e)
           IN  Good(t, h) /\ NoAnswer(s, t) /\ t.abort = s.abort
  <1>1. /\ Exact(s, h \cup {q}) /\ Waits(s, h \cup {q}) /\ SentOk(s) /\ s \in AdnsStates
        /\ h \subseteq Queries /\ s.qu \in [Queries -> QueryRecords]
        /\ s.udpw \in Seq(Queries) /\ Families(s, h \cup {q})
    BY Fields1 DEF Good, Exact
  <1>2. LET t == query_usetcp(s, q, e)
        IN  Good(t, h) /\ NoAnswer(s, t) /\ t.abort = s.abort
    BY UsetcpExact
  <1>3. LET t == query_usetcp([s EXCEPT !.qu[q].retries = 0], q, e)
        IN  Good(t, h) /\ NoAnswer(s, t) /\ t.abort = s.abort
    <2> DEFINE u == [s EXCEPT !.qu[q].retries = 0]
    <2>1. Edits(s, u, q)
      <3> DEFINE f == [s.qu EXCEPT ![q].retries = 0]
      <3>1. f \in [Queries -> QueryRecords]
            /\ (\A x \in Queries : x # q => f[x] = s.qu[x])
            /\ f[q].state = s.qu[q].state /\ f[q].kind = s.qu[q].kind
            /\ f[q].parent = s.qu[q].parent
        BY <1>1 DEF QueryRecords
      <3>2. u = [s EXCEPT !.qu = f]
        OBVIOUS
      <3> HIDE DEF f, u
      <3> QED BY <1>1, <3>1, <3>2 DEF Edits, AdnsStates, SameQueues
    <2> HIDE DEF u
    <2>2. Good(u, h \cup {q}) /\ NoAnswer(s, u) /\ Children(u, q) = {}
      BY <2>1, EditExact
    <2>3. u.qu[q].state = "tosend" /\ u.abort = s.abort
      BY <2>1 DEF Edits, SameQueues
    <2>4. LET t == query_usetcp(u, q, e)
          IN  Good(t, h) /\ NoAnswer(u, t) /\ t.abort = u.abort
      BY <2>2, <2>3, UsetcpExact
    <2> QED BY <2>2, <2>3, <2>4 DEF NoAnswer, u
  <1>4. LET t == SentUdp(s, q)
        IN  Good(t, h) /\ NoAnswer(s, t) /\ t.abort = s.abort
    <2> DEFINE t == SentUdp(s, q)
    <2>1. /\ t \in AdnsStates
          /\ \A x \in Queries : x # q => t.qu[x] = s.qu[x]
          /\ t.qu[q].state = s.qu[q].state /\ t.qu[q].kind = s.qu[q].kind
          /\ t.qu[q].parent = s.qu[q].parent
          /\ t.udpw = Append(s.udpw, q)
          /\ t.tcpw = s.tcpw /\ t.childw = s.childw /\ t.output = s.output
          /\ t.sent = s.sent /\ t.tcpstate = s.tcpstate /\ t.abort = s.abort
      BY <1>1, SentUdpFields
    <2> HIDE DEF t
    <2>2. /\ q \notin ToSet(s.udpw) /\ q \notin ToSet(s.tcpw)
          /\ q \notin ToSet(s.childw) /\ q \notin ToSet(s.output)
      BY <1>1 DEF Exact, Placed
    <2>3. IsInjective(t.udpw) /\ ToSet(t.udpw) = ToSet(s.udpw) \cup {q}
      BY <1>1, <2>1, <2>2, PutQueue DEF Adds, Exact, Placed
    <2>4. \A x \in Queries : /\ t.qu[x].state = s.qu[x].state
                             /\ t.qu[x].kind = s.qu[x].kind
                             /\ t.qu[x].parent = s.qu[x].parent
      BY <2>1
    <2>5. \A x \in Queries : Children(t, x) = Children(s, x)
      BY <2>4 DEF Children
    <2>6. /\ Placed(t, h, t.tcpw, "tcpw") /\ Placed(t, h, t.childw, "childw")
          /\ Placed(t, h, t.output, "done")
      BY <1>1, <2>1, <2>2, <2>4 DEF Exact, Placed
    <2>7. Placed(t, h, t.udpw, "tosend")
      BY <1>1, <2>1, <2>2, <2>3, <2>4 DEF Exact, Placed
    <2>8. Families(t, h)
      <3> SUFFICES ASSUME NEW c \in Queries, Alive(t, c), t.qu[c].parent # None
                   PROVE  ChildOf(t, h, c, t.qu[c].parent)
        BY DEF Families
      <3>1. Alive(s, c) /\ t.qu[c].parent = s.qu[c].parent
        BY <2>4 DEF Alive
      <3>2. ChildOf(s, h \cup {q}, c, s.qu[c].parent) /\ s.qu[c].parent # q
        BY <1>1, <3>1 DEF Families, Children, Alive
      <3> QED BY <2>4, <3>1, <3>2 DEF ChildOf, Alive
    <2>9. \A x \in h : t.qu[x].state \in {"tosend", "tcpw", "childw"}
      BY <1>1, <2>4 DEF Exact
    <2>10. Exact(t, h)
      BY <1>1, <2>1, <2>6, <2>7, <2>8, <2>9 DEF Exact
    <2>11. Waits(t, h) /\ SentOk(t)
      BY <1>1, <2>1, <2>4, <2>5 DEF Waits, SentOk
    <2>12. Pend(t) = Pend(s)
      BY <2>4 DEF Pend, Alive
    <2> QED BY <2>1, <2>10, <2>11, <2>12 DEF Good, NoAnswer, t
  <1>5. adns__query_send(s, q, e) \in
          {query_usetcp(s, q, e), query_usetcp([s EXCEPT !.qu[q].retries = 0], q, e),
           SentUdp(s, q)}
    BY DEF adns__query_send
  <1> QED BY <1>2, <1>3, <1>4, <1>5

\* The same, of the only query in hand.
LEMMA SendAlone ==
    ASSUME NEW s, NEW q \in Queries, Good(s, {q}),
           s.qu[q].state = "tosend", Children(s, q) = {}, NEW e \in Outcomes,
           s.qu[q].usevc \/ ~(s.qu[q].retries >= UDPMAXRETRIES)
    PROVE  LET t == adns__query_send(s, q, e)
           IN  Good(t, {}) /\ NoAnswer(s, t) /\ t.abort = s.abort
  <1>1. Good(s, {} \cup {q}) /\ q \notin {}
    OBVIOUS
  <1> QED BY <1>1, SendKept

\* The only query in hand is sent, or is out of retries and ends.
LEMMA SendExact ==
    ASSUME NEW s, NEW q \in Queries, Good(s, {q}),
           s.qu[q].state = "tosend", Children(s, q) = {}, NEW e \in Outcomes
    PROVE  LET t == adns__query_send(s, q, e)
           IN  Good(t, {}) /\ Replied(s, t) /\ t.abort = s.abort
  <1>1. CASE s.qu[q].usevc \/ ~(s.qu[q].retries >= UDPMAXRETRIES)
    BY <1>1, SendAlone DEF Replied
  <1>2. CASE ~s.qu[q].usevc /\ s.qu[q].retries >= UDPMAXRETRIES
    <2>1. adns__query_send(s, q, e) = adns__query_fail(s, q, "failed")
      BY <1>2 DEF adns__query_send
    <2> QED BY <2>1, FailExact DEF Shrinks, Statuses
  <1> QED BY <1>1, <1>2

\* An assertion of the code fails.
Aborted(s, t) == t \in AdnsStates /\ SentOk(t) /\ t.abort /\ NoAnswer(s, t)

LEMMA AbortExact ==
    ASSUME NEW s \in AdnsStates, SentOk(s)
    PROVE  Aborted(s, Abort(s))
  <1>1. /\ Abort(s) \in AdnsStates /\ Abort(s).abort /\ Abort(s).qu = s.qu
        /\ Abort(s).output = s.output /\ Abort(s).tcpw = s.tcpw
        /\ Abort(s).sent = s.sent /\ Abort(s).tcpstate = s.tcpstate
    BY DEF Abort, AdnsStates
  <1> QED BY <1>1 DEF Aborted, SentOk, NoAnswer, Pend, Alive

\* The next name of the search list: the query must be in its first state.
LEMMA SearchNextExact ==
    ASSUME NEW s, NEW q \in Queries, Good(s, {q}), Children(s, q) = {}, NEW e \in Outcomes
    PROVE  LET t == adns__search_next(s, q, e)
           IN  \/ Good(t, {}) /\ Replied(s, t) /\ t.abort = s.abort
               \/ s.qu[q].state # "tosend" /\ s.qu[q].names # 0 /\ Aborted(s, t)
  <1> DEFINE u == [s EXCEPT !.qu[q].names = @ - 1]
  <1>1. CASE s.qu[q].names = 0
    BY <1>1, FailExact DEF adns__search_next, Shrinks, Statuses
  <1>2. CASE s.qu[q].names # 0
    <2>1. s \in AdnsStates /\ s.qu \in [Queries -> QueryRecords]
      BY Fields1 DEF Good, Exact
    <2>2. Edits(s, u, q)
      <3> DEFINE f == [s.qu EXCEPT ![q].names = @ - 1]
      <3>1. s.qu[q].names - 1 \in 0..SearchNames
        BY <1>2, <2>1, AdnsAssumption DEF QueryRecords
      <3>2. f \in [Queries -> QueryRecords]
            /\ (\A x \in Queries : x # q => f[x] = s.qu[x])
            /\ f[q].state = s.qu[q].state /\ f[q].kind = s.qu[q].kind
            /\ f[q].parent = s.qu[q].parent
        BY <2>1, <3>1 DEF QueryRecords
      <3>3. u = [s EXCEPT !.qu = f]
        OBVIOUS
      <3> HIDE DEF f, u
      <3> QED BY <2>1, <3>2, <3>3 DEF Edits, AdnsStates, SameQueues
    <2> HIDE DEF u
    <2>3. Good(u, {q}) /\ NoAnswer(s, u) /\ Children(u, q) = {}
      BY <2>2, EditExact
    <2>4. u.qu[q].state = s.qu[q].state /\ u.abort = s.abort
      BY <2>2 DEF Edits, SameQueues
    <2>5. adns__search_next(s, q, e) = adns__query_send(u, q, e)
      BY <1>2 DEF adns__search_next, u
    <2>6. CASE s.qu[q].state = "tosend"
      <3>1. LET t == adns__query_send(u, q, e)
            IN  Good(t, {}) /\ Replied(u, t) /\ t.abort = u.abort
        BY <2>3, <2>4, <2>6, SendExact
      <3> QED BY <2>3, <2>4, <2>5, <3>1 DEF Replied, NoAnswer, OneAnswer
    <2>7. CASE s.qu[q].state # "tosend"
      <3>1. adns__query_send(u, q, e) = Abort(u)
        BY <2>4, <2>7 DEF adns__query_send
      <3>2. Aborted(u, Abort(u))
        BY <2>3, AbortExact DEF Good, Exact
      <3> QED BY <1>2, <2>3, <2>5, <2>7, <3>1, <3>2 DEF Aborted, NoAnswer
    <2> QED BY <2>6, <2>7
  <1> QED BY <1>1, <1>2

-----------------------------------------------------------------------------
(***************************************************************************)
(* A reply.                                                                 *)
(***************************************************************************)

\* The query q leaves udpw or tcpw, and is in hand.
Takes(s, t, q) ==
    /\ t \in AdnsStates /\ t.qu = s.qu
    /\ t.udpw = Off(s.udpw, {q}) /\ t.tcpw = Off(s.tcpw, {q})
    /\ t.childw = s.childw /\ t.output = s.output
    /\ t.sent = s.sent \ {q} /\ t.tcpstate = s.tcpstate /\ t.tcpserver = s.tcpserver
    /\ t.abort = s.abort

LEMMA TakesExact ==
    ASSUME NEW s, NEW q \in Queries, NEW t, Good(s, {}), Takes(s, t, q),
           q \in ToSet(s.udpw) \cup ToSet(s.tcpw)
    PROVE  Good(t, {q}) /\ Children(t, q) = {} /\ NoAnswer(s, t) /\ Shrinks(s, t)
  <1>1. Exact(s, {}) /\ Waits(s, {}) /\ SentOk(s) /\ s \in AdnsStates /\ Families(s, {})
        /\ s.udpw \in Seq(Queries) /\ s.tcpw \in Seq(Queries)
        /\ IsInjective(s.udpw) /\ IsInjective(s.tcpw)
    BY Fields1 DEF Good, Exact, Placed
  <1>2. s.qu[q].state \in {"tosend", "tcpw"}
    BY <1>1 DEF Exact, Placed
  <1>3. /\ ToSet(t.udpw) = ToSet(s.udpw) \ {q} /\ IsInjective(t.udpw)
        /\ ToSet(t.tcpw) = ToSet(s.tcpw) \ {q} /\ IsInjective(t.tcpw)
        /\ \A a, b : Before(t.tcpw, a, b) => Before(s.tcpw, a, b)
    BY <1>1, OffPlaced DEF Takes
  <1>4. /\ Placed(t, {q}, t.udpw, "tosend") /\ Placed(t, {q}, t.tcpw, "tcpw")
    BY <1>1, <1>3 DEF Takes, Exact, Placed
  <1>5. Placed(t, {q}, t.childw, "childw") /\ Placed(t, {q}, t.output, "done")
    BY <1>1, <1>2 DEF Takes, Exact, Placed
  <1>6. Families(t, {q})
    BY <1>1 DEF Takes, Families, ChildOf, Alive
  <1>7. Exact(t, {q})
    BY <1>2, <1>4, <1>5, <1>6 DEF Exact, Takes
  <1>8. \A x \in Queries : Children(t, x) = Children(s, x)
    BY DEF Takes, Children
  <1>9. Waits(t, {q}) /\ SentOk(t)
    BY <1>1, <1>3, <1>8 DEF Takes, Waits, SentOk
  <1>10. Children(s, q) = {}
    <2> SUFFICES ASSUME NEW c \in Queries, Alive(s, c), s.qu[c].parent = q PROVE FALSE
      BY DEF Children, Alive
    <2>1. ChildOf(s, {}, c, q)
      BY <1>1, AdnsAssumption DEF Families, Queries, None
    <2> QED BY <1>2, <2>1 DEF ChildOf
  <1>11. NoAnswer(s, t)
    BY DEF Takes, NoAnswer, Pend, Alive
  <1>12. Shrinks(s, t)
    BY <1>3 DEF Takes, Shrinks
  <1> QED BY <1>7, <1>8, <1>9, <1>10, <1>11, <1>12 DEF Good

LEMMA MatchedExact ==
    ASSUME NEW s, NEW q \in Queries, Good(s, {}), q \in ToSet(s.udpw) \cup ToSet(s.tcpw)
    PROVE  LET t == Matched(s, q)
           IN  Good(t, {q}) /\ Children(t, q) = {} /\ NoAnswer(s, t) /\ Shrinks(s, t)
               /\ t.qu = s.qu
  <1>1. s \in AdnsStates /\ Off(s.udpw, {q}) \in Seq(Queries) /\ Off(s.tcpw, {q}) \in Seq(Queries)
    BY Fields1, OffType DEF Good, Exact
  <1>2. Takes(s, Matched(s, q), q)
    BY <1>1 DEF Takes, Matched, AdnsStates
  <1> QED BY <1>2, TakesExact DEF Takes

\* A query whose timeout is over leaves udpw alone.
LEMMA LateExact ==
    ASSUME NEW s, NEW q \in Queries, Good(s, {}), q \in ToSet(s.udpw)
    PROVE  LET t == [s EXCEPT !.udpw = Off(@, {q})]
           IN  Good(t, {q}) /\ Children(t, q) = {} /\ NoAnswer(s, t) /\ Shrinks(s, t)
               /\ t.qu = s.qu
  <1> DEFINE t == [s EXCEPT !.udpw = Off(@, {q})]
  <1>1. s \in AdnsStates /\ Off(s.udpw, {q}) \in Seq(Queries) /\ s.tcpw \in Seq(Queries)
    BY Fields1, OffType DEF Good, Exact
  <1>2. q \notin ToSet(s.tcpw)
    BY DEF Good, Exact, Placed
  <1>3. Off(s.tcpw, {q}) = s.tcpw
    BY <1>1, <1>2, OffNone
  <1>4. s.sent \ {q} = s.sent
    BY <1>2 DEF Good, SentOk
  <1>5. Takes(s, t, q) /\ t.qu = s.qu
    BY <1>1, <1>3, <1>4 DEF Takes, AdnsStates
  <1> HIDE DEF t
  <1>6. Good(t, {q}) /\ Children(t, q) = {} /\ NoAnswer(s, t) /\ Shrinks(s, t)
    BY <1>5, TakesExact
  <1> QED BY <1>5, <1>6 DEF t

\* x_restartquery, of the query in hand: what is sent.
\* What Restart sends: the query without its children, and with its retries anew.
Restarted(s, q) ==
    [cancel_children(s, q) EXCEPT
        !.qu[q].state = "tosend", !.qu[q].retries = 0, !.qu[q].tried = {}]

LEMMA RestartedExact ==
    ASSUME NEW s, NEW q \in Queries, Good(s, {q})
    PROVE  LET t == Restarted(s, q)
           IN  /\ Good(t, {q}) /\ NoAnswer(s, t) /\ Children(t, q) = {} /\ t.abort = s.abort
               /\ t.qu[q].state = "tosend" /\ t.qu[q].retries = 0
               /\ t.qu[q].kind = s.qu[q].kind /\ t.qu[q].names = s.qu[q].names
               /\ t.qu[q].parent = s.qu[q].parent /\ t.qu[q].status = s.qu[q].status
               /\ \A x \in Queries : x # q => t.qu[x] = cancel_children(s, q).qu[x]
               /\ SameQueues(cancel_children(s, q), t)
               /\ t.tcpstate = s.tcpstate /\ t.tcpserver = s.tcpserver
  <1> DEFINE c == cancel_children(s, q)
             t == [c EXCEPT !.qu[q].state = "tosend", !.qu[q].retries = 0, !.qu[q].tried = {}]
  <1>1. Good(c, {q}) /\ NoAnswer(s, c) /\ Children(c, q) = {} /\ c.abort = s.abort
        /\ c.qu[q] = s.qu[q] /\ c.tcpstate = s.tcpstate /\ c.tcpserver = s.tcpserver
    BY CancelChildrenExact DEF Shrinks
  <1> HIDE DEF c
  <1>2. /\ Exact(c, {q}) /\ Waits(c, {q}) /\ SentOk(c) /\ c \in AdnsStates
        /\ c.qu \in [Queries -> QueryRecords] /\ Families(c, {q})
        /\ c.qu[q].state \in {"tosend", "tcpw", "childw"}
    BY <1>1, Fields1 DEF Good, Exact
  <1>3. /\ t \in AdnsStates
        /\ \A x \in Queries : x # q => t.qu[x] = c.qu[x]
        /\ t.qu[q].state = "tosend" /\ t.qu[q].kind = c.qu[q].kind
        /\ t.qu[q].parent = c.qu[q].parent /\ t.qu[q].status = c.qu[q].status
        /\ t.qu[q].retries = 0 /\ t.qu[q].names = c.qu[q].names
        /\ SameQueues(c, t) /\ t.sent = c.sent /\ t.tcpstate = c.tcpstate
        /\ t.tcpserver = c.tcpserver
    <2> DEFINE r == [c.qu[q] EXCEPT !.state = "tosend", !.retries = 0, !.tried = {}]
               f == [c.qu EXCEPT ![q] = r]
    <2>1. r \in QueryRecords /\ r.state = "tosend" /\ r.kind = c.qu[q].kind
          /\ r.parent = c.qu[q].parent /\ r.retries = 0 /\ r.names = c.qu[q].names
          /\ r.status = c.qu[q].status
      BY <1>2 DEF QueryRecords, States
    <2>2. t = [c EXCEPT !.qu = f]
      BY <1>2 DEF AdnsStates, QueryRecords
    <2> HIDE DEF r, t
    <2>3. f \in [Queries -> QueryRecords] /\ f[q] = r /\ \A x \in Queries : x # q => f[x] = c.qu[x]
      BY <1>2, <2>1
    <2> HIDE DEF f
    <2> QED BY <1>2, <2>1, <2>2, <2>3 DEF AdnsStates, SameQueues
  <1> HIDE DEF t
  <1>4. \A x \in Queries : Children(t, x) = Children(c, x)
    BY <1>2, <1>3 DEF Children
  <1>5. /\ Placed(t, {q}, t.udpw, "tosend") /\ Placed(t, {q}, t.tcpw, "tcpw")
        /\ Placed(t, {q}, t.childw, "childw") /\ Placed(t, {q}, t.output, "done")
    BY <1>2, <1>3 DEF Exact, Placed, SameQueues
  <1>6. Families(t, {q})
    <2> SUFFICES ASSUME NEW x \in Queries, Alive(t, x), t.qu[x].parent # None
                 PROVE  ChildOf(t, {q}, x, t.qu[x].parent)
      BY DEF Families
    <2>1. Alive(c, x) /\ t.qu[x].parent = c.qu[x].parent
      BY <1>2, <1>3 DEF Alive
    <2>2. ChildOf(c, {q}, x, c.qu[x].parent) /\ c.qu[x].parent # q
      BY <1>1, <1>2, <2>1 DEF Families, Children, Alive
    <2> QED BY <1>3, <2>1, <2>2 DEF ChildOf, Alive
  <1>7. Waits(t, {q}) /\ SentOk(t)
    BY <1>2, <1>3, <1>4 DEF Waits, SentOk, SameQueues
  <1>8. Pend(t) = Pend(c)
    <2>1. \A x \in Queries : x \in Pend(t) <=> x \in Pend(c)
      BY <1>2, <1>3 DEF Pend, Alive
    <2> QED BY <2>1 DEF Pend
  <1>9. Good(t, {q}) /\ NoAnswer(s, t) /\ Children(t, q) = {} /\ t.abort = s.abort
    BY <1>1, <1>3, <1>4, <1>5, <1>6, <1>7, <1>8 DEF Good, Exact, NoAnswer, SameQueues
  <1> QED BY <1>1, <1>3, <1>9 DEF Restarted, t, c

LEMMA RestartExact ==
    ASSUME NEW s, NEW q \in Queries, Good(s, {q}), NEW e \in Outcomes
    PROVE  LET t == Restart(s, q, e)
           IN  Good(t, {}) /\ Replied(s, t) /\ t.abort = s.abort
  <1> DEFINE t == Restarted(s, q)
             u == adns__query_send(t, q, e)
  <1>1. Good(t, {q}) /\ NoAnswer(s, t) /\ Children(t, q) = {} /\ t.abort = s.abort
        /\ t.qu[q].state = "tosend"
    BY RestartedExact
  <1> HIDE DEF t
  <1>2. Good(u, {}) /\ Replied(t, u) /\ u.abort = t.abort
    BY <1>1, SendExact
  <1>3. Restart(s, q, e) = u
    BY DEF Restart, Restarted, t
  <1> QED BY <1>1, <1>2, <1>3 DEF Replied, NoAnswer, OneAnswer

\* What a step makes of state s, h being in hand after it.
Result(s, t, h) ==
    \/ Good(t, h) /\ Replied(s, t) /\ t.abort = s.abort
    \/ Aborted(s, t)

\* What a reply says of the query in hand.
LEMMA AliasExact ==
    ASSUME NEW m, NEW q \in Queries, m \in AdnsStates, NEW r \in Replies
    PROVE  LET t == [m EXCEPT !.qu[q].cname = @ \/ r.alias]
           IN  /\ Edits(m, t, q)
               /\ t.qu[q].names = m.qu[q].names /\ t.qu[q].retries = m.qu[q].retries
               /\ t.qu[q].usevc = m.qu[q].usevc /\ t.qu[q].status = m.qu[q].status
  <1> DEFINE t == [m EXCEPT !.qu[q].cname = @ \/ r.alias]
             b == m.qu[q].cname \/ r.alias
             v == [m.qu[q] EXCEPT !.cname = b]
             f == [m.qu EXCEPT ![q] = v]
  <1>1. m.qu \in [Queries -> QueryRecords]
    BY Fields1
  <1>2. b \in BOOLEAN
    BY <1>1 DEF Replies, QueryRecords
  <1>3. t = [m EXCEPT !.qu = f]
    OBVIOUS
  <1> HIDE DEF b
  <1>4. v \in QueryRecords /\ v.state = m.qu[q].state /\ v.kind = m.qu[q].kind
        /\ v.parent = m.qu[q].parent /\ v.names = m.qu[q].names
        /\ v.retries = m.qu[q].retries /\ v.usevc = m.qu[q].usevc
        /\ v.status = m.qu[q].status
    BY <1>1, <1>2 DEF QueryRecords
  <1> HIDE DEF v
  <1>5. f \in [Queries -> QueryRecords] /\ f[q] = v
        /\ (\A x \in Queries : x # q => f[x] = m.qu[x])
    BY <1>1, <1>4
  <1> HIDE DEF f, t
  <1>6. Edits(m, t, q) /\ t.qu[q] = v
    BY <1>3, <1>4, <1>5 DEF Edits, AdnsStates, SameQueues
  <1> QED BY <1>4, <1>6 DEF t

LEMMA UsevcExact ==
    ASSUME NEW m, NEW q \in Queries, m \in AdnsStates
    PROVE  LET t == [m EXCEPT !.qu[q].usevc = TRUE]
           IN  Edits(m, t, q) /\ t.qu[q].names = m.qu[q].names
               /\ t.qu[q].status = m.qu[q].status
  <1> DEFINE b == TRUE
             t == [m EXCEPT !.qu[q].usevc = b]
             v == [m.qu[q] EXCEPT !.usevc = b]
             f == [m.qu EXCEPT ![q] = v]
  <1>1. m.qu \in [Queries -> QueryRecords] /\ b \in BOOLEAN
    BY Fields1
  <1> HIDE DEF b
  <1>2. t = [m EXCEPT !.qu = f]
    OBVIOUS
  <1>3. v \in QueryRecords /\ v.state = m.qu[q].state /\ v.kind = m.qu[q].kind
        /\ v.parent = m.qu[q].parent /\ v.names = m.qu[q].names
        /\ v.status = m.qu[q].status
    BY <1>1 DEF QueryRecords
  <1> HIDE DEF v
  <1>4. f \in [Queries -> QueryRecords] /\ f[q] = v
        /\ (\A x \in Queries : x # q => f[x] = m.qu[x])
    BY <1>1, <1>3
  <1> HIDE DEF f, t
  <1>5. Edits(m, t, q) /\ t.qu[q].names = m.qu[q].names /\ t.qu[q].status = m.qu[q].status
    BY <1>2, <1>3, <1>4 DEF Edits, AdnsStates, SameQueues
  <1> QED BY <1>5 DEF t, b

\* The reply of a query: it is answered, sent again, or in hand to be parsed.
LEMMA ProcdgramExact ==
    ASSUME NEW s, NEW q \in Queries, Good(s, {}), q \in ToSet(s.udpw) \cup ToSet(s.tcpw),
           NEW r \in Replies, NEW e \in Outcomes
    PROVE  LET t == adns__procdgram(s, q, r, e)
           IN  /\ Result(s, t, IF Parses(s, q, r) THEN {q} ELSE {})
               /\ Aborted(s, t) => s.abort \/ (s.qu[q].state = "tcpw" /\ s.qu[q].kind = "search"
                                               /\ s.qu[q].names # 0)
               /\ Parses(s, q, r) => t.qu[q].kind \in {"hostaddr", "ptr"} /\ Children(t, q) = {}
  <1> DEFINE m == Matched(s, q)
             t == [m EXCEPT !.qu[q].cname = @ \/ r.alias]
             u == [t EXCEPT !.qu[q].usevc = TRUE]
  <1>1. Good(m, {q}) /\ Children(m, q) = {} /\ NoAnswer(s, m) /\ m.abort = s.abort
        /\ m.qu = s.qu
    BY MatchedExact DEF Shrinks
  <1> HIDE DEF m
  <1>2. m \in AdnsStates /\ m.qu \in [Queries -> QueryRecords]
        /\ m.qu[q].state \in {"tosend", "tcpw", "childw"}
    BY <1>1, Fields1 DEF Good, Exact
  <1>3. Edits(m, t, q) /\ t.qu[q].names = s.qu[q].names
    BY <1>1, <1>2, AliasExact
  <1> HIDE DEF t
  <1>4. Good(t, {q}) /\ NoAnswer(m, t) /\ Children(t, q) = {} /\ t.abort = s.abort
        /\ t.qu[q].state = s.qu[q].state /\ t.qu[q].kind = s.qu[q].kind
    BY <1>1, <1>3, EditExact DEF Edits, SameQueues
  <1>5. Edits(t, u, q)
    BY <1>3, UsevcExact DEF Edits
  <1> HIDE DEF u
  <1>6. Good(u, {q}) /\ NoAnswer(t, u) /\ u.abort = s.abort
    BY <1>4, <1>5, EditExact DEF Edits, SameQueues
  <1>7. NoAnswer(s, t) /\ NoAnswer(s, u)
    BY <1>1, <1>4, <1>6 DEF NoAnswer
  <1> DEFINE Fine(w) == Good(w, {}) /\ Replied(s, w) /\ w.abort = s.abort
  <1>8. ASSUME NEW v, NoAnswer(s, v), v.abort = s.abort, NEW w,
               Good(w, {}), Replied(v, w), w.abort = v.abort
        PROVE  Fine(w)
    BY <1>8 DEF Replied, NoAnswer, OneAnswer
  <1>9. Fine(adns__query_fail(m, q, "failed")) /\ Fine(adns__query_fail(t, q, "failed"))
    BY <1>1, <1>4, <1>7, <1>8, FailExact DEF Shrinks, Statuses
  <1>10. Fine(adns__query_done(t, q, "ok"))
    BY <1>4, <1>7, <1>8, DoneExact DEF Shrinks, Statuses
  <1>11. Fine(Restart(t, q, e)) /\ Fine(Restart(u, q, e))
    BY <1>4, <1>6, <1>7, <1>8, RestartExact
  <1>12. \/ Fine(adns__search_next(t, q, e))
         \/ /\ Aborted(s, adns__search_next(t, q, e))
            /\ s.qu[q].state # "tosend" /\ s.qu[q].names # 0
    <2>1. \/ LET w == adns__search_next(t, q, e)
             IN  Good(w, {}) /\ Replied(t, w) /\ w.abort = t.abort
          \/ t.qu[q].state # "tosend" /\ t.qu[q].names # 0
             /\ Aborted(t, adns__search_next(t, q, e))
      BY <1>4, SearchNextExact
    <2> QED BY <1>3, <1>4, <1>7, <1>8, <2>1 DEF Aborted, NoAnswer
  <1> HIDE DEF Fine
  <1>13. r.says \in {"error", "nxdomain", "nodata", "referral", "truncated", "answer"}
    BY DEF Replies
  <1>14. CASE r.says = "nxdomain" /\ s.qu[q].kind = "search" /\ ~Forbidden(s, q, r)
    <2>1. adns__procdgram(s, q, r, e) = adns__search_next(t, q, e) /\ ~Parses(s, q, r)
      BY <1>14 DEF adns__procdgram, Parses, t, m
    <2>2. s.qu[q].state # "tosend" => s.qu[q].state = "tcpw"
      BY DEF Good, Exact, Placed
    <2> QED BY <1>12, <1>14, <2>1, <2>2 DEF Result, Aborted, Fine
  <1>15. CASE Parses(s, q, r)
    <2>1. adns__procdgram(s, q, r, e) = t
      BY <1>15 DEF adns__procdgram, Parses, t, m
    <2> QED BY <1>4, <1>7, <1>15, <2>1 DEF Result, Replied, Parses, Aborted
  <1>16. CASE ~Parses(s, q, r) /\ ~(r.says = "nxdomain" /\ s.qu[q].kind = "search"
                                    /\ ~Forbidden(s, q, r))
    <2>1. adns__procdgram(s, q, r, e) \in
            {adns__query_fail(m, q, "failed"), adns__query_fail(t, q, "failed"),
             adns__query_done(t, q, "ok"), Restart(t, q, e), Restart(u, q, e)}
      BY <1>13, <1>16 DEF adns__procdgram, Parses, t, m, u
    <2> QED BY <1>9, <1>10, <1>11, <1>16, <2>1 DEF Result, Aborted, Fine
  <1> QED BY <1>14, <1>15, <1>16

-----------------------------------------------------------------------------
(***************************************************************************)
(* The steps.                                                               *)
(***************************************************************************)

\* The query whose answer is being parsed is on no queue.
Hand == IF pc = "parse" THEN {cur} ELSE {}

Callers ==
    /\ pc \in {"idle", "timeouts", "broken", "fds", "parse"}
    /\ call \in {"processany", "check", "poll"}
    /\ due \subseteq Queries
    /\ cur \in {None} \cup Queries
    /\ fds \subseteq {"udp", "in", "out", "pri"}

QInv ==
    /\ ads \in AdnsStates /\ SentOk(ads) /\ Callers
    /\ ads.abort \/ Good(ads, Hand)

LEMMA ResultGood ==
    ASSUME NEW s, NEW t, NEW h, Result(s, t, h)
    PROVE  t \in AdnsStates /\ SentOk(t) /\ (t.abort \/ Good(t, h)) /\ Replied(s, t)
  BY DEF Result, Aborted, Good, Exact, Replied

LEMMA StayResult ==
    ASSUME NEW s, NEW h, Good(s, h)
    PROVE  Result(s, s, h)
  BY DEF Result, Replied, NoAnswer

LEMMA OnlyTcpResult ==
    ASSUME NEW s, NEW t, NEW h, Good(s, h), OnlyTcp(s, t), SentOk(t)
    PROVE  Result(s, t, h)
  BY OnlyTcpExact DEF Result, Replied, Good, OnlyTcp, SameQueues

\* Only the timers and the state of the connection change.
LEMMA TcpStateResult ==
    ASSUME NEW s, NEW t, NEW h, Good(s, h), t \in AdnsStates,
           t.qu = s.qu, SameQueues(s, t), SentOk(t)
    PROVE  Result(s, t, h)
  <1>1. s \in AdnsStates
    BY DEF Good, Exact
  <1> QED BY <1>1, TcpFields, OnlyTcpResult

\* The clock is read, after what the call did first.
LEMMA ClockResult ==
    ASSUME NEW s, Good(s, {}), NEW c, Clock(s, c)
    PROVE  /\ Good(ads', {}) /\ NoAnswer(s, ads') /\ ads'.abort = s.abort
           /\ due' \subseteq Queries /\ pc' = "timeouts" /\ call' = c /\ UNCHANGED cur
  <1>1. /\ s \in AdnsStates /\ s.udpw \in Seq(Queries) /\ s.tcpw \in Seq(Queries)
    BY Fields1 DEF Good, Exact
  <1>2. PICK i \in 0..Len(s.udpw) :
          \E j \in 0..Len(s.tcpw), late \in BOOLEAN :
            /\ due' = ToSet(SubSeq(s.udpw, 1, i)) \cup ToSet(SubSeq(s.tcpw, 1, j))
            /\ ads' = IF late /\ s.tcptimeout = "set" THEN [s EXCEPT !.tcptimeout = "due"] ELSE s
            /\ pc' = "timeouts" /\ call' = c /\ UNCHANGED cur
    BY DEF Clock
  <1>3. PICK j \in 0..Len(s.tcpw) :
            /\ due' = ToSet(SubSeq(s.udpw, 1, i)) \cup ToSet(SubSeq(s.tcpw, 1, j))
            /\ ads' \in {[s EXCEPT !.tcptimeout = "due"], s}
            /\ pc' = "timeouts" /\ call' = c /\ UNCHANGED cur
    BY <1>2
  <1>4. due' \subseteq Queries
    <2>1. Len(s.udpw) \in Nat /\ Len(s.tcpw) \in Nat
      BY <1>1, LenProperties
    <2>2. /\ ToSet(SubSeq(s.udpw, 1, i)) \subseteq ToSet(s.udpw)
          /\ ToSet(SubSeq(s.tcpw, 1, j)) \subseteq ToSet(s.tcpw)
      BY <1>1, <2>1, SubSeqSet
    <2>3. ToSet(s.udpw) \subseteq Queries /\ ToSet(s.tcpw) \subseteq Queries
      BY <1>1, ToSetType
    <2> QED BY <1>3, <2>2, <2>3
  <1> DEFINE u == [s EXCEPT !.tcptimeout = "due"]
  <1>5. OnlyTcp(s, u) /\ SentOk(u)
    <2>1. u \in AdnsStates /\ u.qu = s.qu /\ SameQueues(s, u) /\ u.sent = s.sent
          /\ u.tcpstate = s.tcpstate /\ u.tcpw = s.tcpw
      BY <1>1 DEF AdnsStates, SameQueues
    <2> QED BY <1>1, <2>1, TcpFields DEF Good, SentOk
  <1> HIDE DEF u
  <1>6. Good(u, {}) /\ NoAnswer(s, u) /\ u.abort = s.abort
    BY <1>5, OnlyTcpExact DEF Good, OnlyTcp, SameQueues
  <1>7. NoAnswer(s, s)
    BY DEF NoAnswer
  <1> QED BY <1>3, <1>4, <1>6, <1>7 DEF u

\* A query that was free is in hand.
LEMMA NewExact ==
    ASSUME NEW s, NEW h, Good(s, h), NEW q \in Queries, s.qu[q].state = "free",
           NEW kind \in Kinds \cup {"addr"}, NEW p \in {None} \cup Queries,
           p # None => p \in h /\ kind = "addr" /\ s.qu[p].kind \in {"hostaddr", "ptr"}
    PROVE  LET t == [s EXCEPT !.qu[q] = Virgin(kind, p)]
           IN  /\ Good(t, h \cup {q}) /\ Children(t, q) = {} /\ q \notin h
               /\ t.qu[q].state = "tosend" /\ t.qu[q].retries = 0 /\ t.qu[q].parent = p
               /\ t.qu[q] = Virgin(kind, p)
               /\ \A x \in Queries : x # q => t.qu[x] = s.qu[x]
               /\ SameQueues(s, t) /\ t.tcpstate = s.tcpstate /\ t.tcpserver = s.tcpserver
               /\ Pend(t) = Pend(s) \cup (IF p = None THEN {q} ELSE {})
               /\ t.output = s.output /\ t.abort = s.abort
               /\ q \notin Pend(s) /\ q \notin ToSet(s.output)
  <1> DEFINE f == [s.qu EXCEPT ![q] = Virgin(kind, p)]
             t == [s EXCEPT !.qu[q] = Virgin(kind, p)]
  <1>1. /\ Exact(s, h) /\ Waits(s, h) /\ SentOk(s) /\ s \in AdnsStates
        /\ s.qu \in [Queries -> QueryRecords] /\ Families(s, h) /\ h \subseteq Queries
    BY Fields1 DEF Good, Exact
  <1>2. /\ Virgin(kind, p) \in QueryRecords
        /\ Virgin(kind, p).state = "tosend" /\ Virgin(kind, p).kind = kind
        /\ Virgin(kind, p).parent = p /\ Virgin(kind, p).retries = 0
    BY VirginType DEF Virgin
  <1>3. /\ f \in [Queries -> QueryRecords] /\ f[q] = Virgin(kind, p)
        /\ \A x \in Queries : x # q => f[x] = s.qu[x]
    BY <1>1, <1>2
  <1>4. t = [s EXCEPT !.qu = f]
    OBVIOUS
  <1> HIDE DEF f, t
  <1>5. /\ t \in AdnsStates /\ t.qu = f /\ SameQueues(s, t)
        /\ t.sent = s.sent /\ t.tcpstate = s.tcpstate /\ t.tcpserver = s.tcpserver
    BY <1>1, <1>3, <1>4 DEF AdnsStates, SameQueues
  <1>6. /\ q \notin h
        /\ q \notin ToSet(s.udpw) /\ q \notin ToSet(s.tcpw)
        /\ q \notin ToSet(s.childw) /\ q \notin ToSet(s.output)
    BY <1>1 DEF Exact, Placed
  <1>7. \A c \in Queries : Alive(s, c) => s.qu[c].parent # q
    <2> SUFFICES ASSUME NEW c \in Queries, Alive(s, c), s.qu[c].parent = q PROVE FALSE
      OBVIOUS
    <2>1. ChildOf(s, h, c, q)
      BY <1>1, AdnsAssumption DEF Families, Queries, None
    <2> QED BY <1>6, <2>1 DEF ChildOf, Alive
  <1>8. p # q
    BY <1>6, AdnsAssumption DEF Queries, None
  <1>9. Exact(t, h \cup {q})
    <2>1. /\ Placed(t, h \cup {q}, t.udpw, "tosend") /\ Placed(t, h \cup {q}, t.tcpw, "tcpw")
          /\ Placed(t, h \cup {q}, t.childw, "childw") /\ Placed(t, h \cup {q}, t.output, "done")
      BY <1>1, <1>2, <1>3, <1>5, <1>6 DEF Exact, Placed, SameQueues
    <2>2. Families(t, h \cup {q})
      <3> SUFFICES ASSUME NEW c \in Queries, Alive(t, c), t.qu[c].parent # None
                   PROVE  ChildOf(t, h \cup {q}, c, t.qu[c].parent)
        BY DEF Families
      <3>1. CASE c = q
        <4>1. p # None /\ p \in h /\ p \in Queries /\ kind = "addr"
              /\ s.qu[p].kind \in {"hostaddr", "ptr"} /\ t.qu[p] = s.qu[p]
          BY <1>1, <1>2, <1>3, <1>5, <1>8, <3>1
        <4>2. s.qu[p].state \in {"tosend", "tcpw", "childw"}
          BY <1>1, <4>1 DEF Exact
        <4>3. s.qu[p].parent = None
          BY <1>1, <4>1, <4>2 DEF Families, ChildOf, Alive
        <4> QED BY <1>2, <1>3, <1>5, <3>1, <4>1, <4>2, <4>3 DEF ChildOf, Alive
      <3>2. CASE c # q
        <4>1. Alive(s, c) /\ t.qu[c] = s.qu[c]
          BY <1>3, <1>5, <3>2 DEF Alive
        <4>2. ChildOf(s, h, c, s.qu[c].parent) /\ s.qu[c].parent # q
          BY <1>1, <1>7, <4>1 DEF Families
        <4> QED BY <1>3, <1>5, <4>1, <4>2 DEF ChildOf, Alive
      <3> QED BY <3>1, <3>2
    <2>3. \A x \in h \cup {q} : t.qu[x].state \in {"tosend", "tcpw", "childw"}
      BY <1>1, <1>2, <1>3, <1>5, <1>6 DEF Exact
    <2> QED BY <1>1, <1>5, <2>1, <2>2, <2>3 DEF Exact
  <1>10. Waits(t, h \cup {q})
    <2> SUFFICES ASSUME NEW x \in Queries, t.qu[x].state = "childw", x \notin h \cup {q}
                 PROVE  Children(t, x) # {}
      BY DEF Waits
    <2>1. Children(s, x) # {} /\ q \notin Children(s, x)
      BY <1>1, <1>3, <1>5 DEF Waits, Children
    <2> QED BY <1>3, <1>5, <2>1 DEF Children
  <1>11. SentOk(t)
    BY <1>1, <1>5 DEF SentOk, SameQueues
  <1>12. Children(t, q) = {}
    BY <1>2, <1>3, <1>5, <1>7, <1>8 DEF Children, Alive
  <1>13. Pend(t) = Pend(s) \cup (IF p = None THEN {q} ELSE {}) /\ q \notin Pend(s)
    BY <1>2, <1>3, <1>5 DEF Pend, Alive
  <1>14. Good(t, h \cup {q}) /\ t.output = s.output /\ t.abort = s.abort /\ t.qu[q] = Virgin(kind, p)
    BY <1>3, <1>5, <1>9, <1>10, <1>11 DEF Good, SameQueues
  <1> QED BY <1>2, <1>3, <1>5, <1>6, <1>12, <1>13, <1>14 DEF t

\* The answer of a query is parsed: it goes on to wait for its children.
LEMMA ParsedExact ==
    ASSUME NEW s, NEW q \in Queries, Good(s, {q}), Children(s, q) # {}
    PROVE  LET r == [Virgin(s.qu[q].kind, None) EXCEPT !.state = "childw"]
               t == [s EXCEPT !.qu[q] = r, !.childw = Append(@, q)]
           IN  Good(t, {}) /\ NoAnswer(s, t) /\ t.abort = s.abort
  <1> DEFINE r == [Virgin(s.qu[q].kind, None) EXCEPT !.state = "childw"]
             f == [s.qu EXCEPT ![q] = r]
             t == [s EXCEPT !.qu[q] = r, !.childw = Append(@, q)]
  <1>1. /\ Exact(s, {q}) /\ Waits(s, {q}) /\ SentOk(s) /\ s \in AdnsStates
        /\ s.qu \in [Queries -> QueryRecords] /\ Families(s, {q})
        /\ s.childw \in Seq(Queries)
        /\ q \notin ToSet(s.childw) /\ q \notin ToSet(s.udpw) /\ q \notin ToSet(s.tcpw)
        /\ q \notin ToSet(s.output) /\ s.qu[q].state \in {"tosend", "tcpw", "childw"}
    BY Fields1 DEF Good, Exact, Placed
  <1>2. r \in QueryRecords /\ r.state = "childw" /\ r.parent = None /\ r.kind = s.qu[q].kind
    <2>1. s.qu[q].kind \in Kinds \cup {"addr"}
      BY <1>1 DEF QueryRecords
    <2>2. Virgin(s.qu[q].kind, None) \in QueryRecords
      BY <2>1, VirginType
    <2>3. r \in QueryRecords
      BY <2>2 DEF QueryRecords, States
    <2> QED BY <2>3 DEF Virgin
  <1>3. s.qu[q].parent = None /\ s.qu[q].kind \in {"hostaddr", "ptr"}
    <2>1. PICK c \in Queries : Alive(s, c) /\ s.qu[c].parent = q
      BY DEF Children, Alive
    <2>2. q # None
      BY AdnsAssumption DEF Queries, None
    <2>3. ChildOf(s, {q}, c, q)
      BY <1>1, <2>1, <2>2 DEF Families
    <2> QED BY <2>3 DEF ChildOf
  <1>4. t = [s EXCEPT !.qu = f, !.childw = Append(@, q)]
    OBVIOUS
  <1>5. f \in [Queries -> QueryRecords] /\ f[q] = r /\ \A x \in Queries : x # q => f[x] = s.qu[x]
    <2> HIDE DEF r
    <2> QED BY <1>1, <1>2
  <1> HIDE DEF f, t, r
  <1>6. /\ t \in AdnsStates /\ t.qu = f /\ t.childw = Append(s.childw, q)
        /\ t.udpw = s.udpw /\ t.tcpw = s.tcpw /\ t.output = s.output
        /\ t.sent = s.sent /\ t.tcpstate = s.tcpstate /\ t.abort = s.abort
    <2>1. Append(s.childw, q) \in Seq(Queries)
      BY <1>1, AppendType
    <2> QED BY <1>1, <1>4, <1>5, <2>1 DEF AdnsStates
  <1>7. IsInjective(t.childw) /\ ToSet(t.childw) = ToSet(s.childw) \cup {q}
    BY <1>1, <1>6, PutQueue DEF Adds, Exact, Placed
  <1>8. \A x \in Queries : t.qu[x].kind = s.qu[x].kind /\ t.qu[x].parent = s.qu[x].parent
    BY <1>2, <1>3, <1>5, <1>6
  <1>9. /\ Placed(t, {}, t.udpw, "tosend") /\ Placed(t, {}, t.tcpw, "tcpw")
        /\ Placed(t, {}, t.output, "done")
    BY <1>1, <1>2, <1>5, <1>6 DEF Exact, Placed
  <1>10. Placed(t, {}, t.childw, "childw")
    BY <1>1, <1>2, <1>5, <1>6, <1>7 DEF Exact, Placed
  <1>11. Families(t, {})
    <2> SUFFICES ASSUME NEW c \in Queries, Alive(t, c), t.qu[c].parent # None
                 PROVE  ChildOf(t, {}, c, t.qu[c].parent)
      BY DEF Families
    <2>1. c # q /\ t.qu[c] = s.qu[c] /\ Alive(s, c)
      BY <1>2, <1>5, <1>6 DEF Alive
    <2>2. ChildOf(s, {q}, c, s.qu[c].parent)
      BY <1>1, <2>1 DEF Families
    <2> QED BY <1>2, <1>5, <1>6, <1>8, <2>1, <2>2 DEF ChildOf
  <1>12. \A x \in Queries : Children(t, x) = Children(s, x)
    BY <1>1, <1>2, <1>5, <1>6, <1>8 DEF Children
  <1>13. Waits(t, {}) /\ SentOk(t)
    BY <1>1, <1>5, <1>6, <1>12 DEF Waits, SentOk
  <1>14. NoAnswer(s, t)
    <2>1. \A x \in Queries : x \in Pend(t) <=> x \in Pend(s)
      BY <1>1, <1>2, <1>5, <1>6, <1>8 DEF Pend, Alive
    <2> QED BY <1>6, <2>1 DEF NoAnswer, Pend
  <1> QED BY <1>6, <1>9, <1>10, <1>11, <1>13, <1>14 DEF Good, Exact, t, r

\* All that makes an assertion of the code fail: the second name of a search asked
\* for over TCP, a lack of resources met by adns_afterpoll, and a query freed
\* behind the back of the loop of tcp_events.
Culprit ==
    \/ /\ pc = "fds"
       /\ \E q \in Queries : /\ ads.qu[q].state = "tcpw" /\ ads.qu[q].kind = "search"
                             /\ ads.qu[q].names # 0
    \/ "system" \in Faults /\ call = "poll"
    \/ pc = "broken" /\ cur # None /\ cur \notin ToSet(ads.tcpw)

\* A step of the resolver itself.
OwnStep == Result(ads, ads', Hand') /\ (ads'.abort => Culprit)

LEMMA OwnStepIf ==
    ASSUME ~ads.abort, NEW h, Hand' = h, Good(ads', h), Replied(ads, ads'), ads'.abort = ads.abort
    PROVE  OwnStep
  BY DEF OwnStep, Result

\* A step that changes nothing but the connection.
LEMMA OwnStepTcp ==
    ASSUME ~ads.abort, Good(ads, {}), Hand' = {}, OnlyTcp(ads, ads'), SentOk(ads')
    PROVE  OwnStep
  <1>1. Good(ads', {}) /\ NoAnswer(ads, ads') /\ ads'.abort = ads.abort
    BY OnlyTcpExact DEF Good, OnlyTcp, SameQueues
  <1> QED BY <1>1, OwnStepIf DEF Replied

LEMMA OwnStepStay ==
    ASSUME ~ads.abort, Good(ads, {}), Hand' = {}, ads' = ads
    PROVE  OwnStep
  BY OwnStepIf DEF Replied, NoAnswer

LEMMA FirstLateOn ==
    ASSUME NEW queue \in Seq(Queries), NEW q, FirstLate(queue, q)
    PROVE  q \in ToSet(queue) /\ q \in due
  BY DEF FirstLate, ToSet

LEMMA TimeoutsExact ==
    ASSUME QInv, InBroken, ~ads.abort,
           TimeoutUdp \/ TimeoutTcp \/ Broken \/ BrokenQuery \/ BrokenEnd
             \/ Reconnect \/ ConnectTimeout \/ EventsEnd
    PROVE  OwnStep
  <1>1. ads \in AdnsStates /\ SentOk(ads) /\ Good(ads, Hand)
        /\ ads.udpw \in Seq(Queries) /\ ads.tcpw \in Seq(Queries)
    BY Fields1 DEF QInv
  <1>2. pc # "parse" /\ pc' # "parse"
    <2>1. CASE TimeoutUdp \/ TimeoutTcp
      BY <2>1 DEF TimeoutUdp, TimeoutTcp
    <2>2. CASE Broken \/ BrokenQuery \/ BrokenEnd
      BY <2>2 DEF Broken, BrokenQuery, BrokenEnd, Events, Goto
    <2>3. CASE Reconnect \/ ConnectTimeout \/ EventsEnd
      BY <2>3 DEF Reconnect, ConnectTimeout, EventsEnd, Events
    <2> QED BY <2>1, <2>2, <2>3
  <1>3. Hand = {} /\ Hand' = {} /\ Good(ads, {})
    BY <1>1, <1>2 DEF Hand
  <1>4. CASE TimeoutUdp
    <2>1. PICK q \in Queries :
            /\ FirstLate(ads.udpw, q)
            /\ \E e \in Outcomes : ads' = adns__query_send([ads EXCEPT !.udpw = Off(@, {q})], q, e)
      BY <1>4 DEF TimeoutUdp
    <2>2. PICK e \in Outcomes : ads' = adns__query_send([ads EXCEPT !.udpw = Off(@, {q})], q, e)
      BY <2>1
    <2> DEFINE t == [ads EXCEPT !.udpw = Off(@, {q})]
    <2>3. q \in ToSet(ads.udpw)
      BY <1>1, <2>1, FirstLateOn
    <2>4. Good(t, {q}) /\ Children(t, q) = {} /\ NoAnswer(ads, t) /\ Shrinks(ads, t)
          /\ t.qu = ads.qu
      BY <1>3, <2>3, LateExact
    <2> HIDE DEF t
    <2>5. t.qu[q].state = "tosend" /\ t.abort = ads.abort
      BY <1>3, <2>3, <2>4 DEF Good, Exact, Placed, Shrinks
    <2>6. ads' = adns__query_send(t, q, e)
      BY <2>2 DEF t
    <2>7. Good(ads', {}) /\ Replied(t, ads') /\ ads'.abort = t.abort
      BY <2>4, <2>5, <2>6, SendExact
    <2>8. Replied(ads, ads')
      BY <2>4, <2>7 DEF Replied, NoAnswer, OneAnswer
    <2> QED BY <1>3, <2>5, <2>7, <2>8, OwnStepIf
  <1>5. ASSUME NEW q \in ToSet(ads.tcpw), NEW status \in Statuses,
               ads' = adns__query_fail(Matched(ads, q), q, status)
        PROVE  OwnStep
    <2>1. q \in Queries
      BY <1>1, ToSetType
    <2> DEFINE t == Matched(ads, q)
    <2>2. Good(t, {q}) /\ NoAnswer(ads, t) /\ Shrinks(ads, t)
      BY <1>3, <2>1, MatchedExact
    <2> HIDE DEF t
    <2>3. ads' = adns__query_fail(t, q, status)
      BY <1>5 DEF t
    <2>4. Good(ads', {}) /\ Replied(t, ads') /\ Shrinks(t, ads')
      BY <2>1, <2>2, <2>3, FailExact
    <2>5. Replied(ads, ads') /\ ads'.abort = ads.abort
      BY <2>2, <2>4 DEF Replied, NoAnswer, OneAnswer, Shrinks
    <2> QED BY <1>3, <2>4, <2>5, OwnStepIf
  <1>6. CASE TimeoutTcp
    <2>1. PICK q \in Queries :
            FirstLate(ads.tcpw, q) /\ ads' = adns__query_fail(Matched(ads, q), q, "failed")
      BY <1>6 DEF TimeoutTcp
    <2>2. q \in ToSet(ads.tcpw)
      BY <1>1, <2>1, FirstLateOn
    <2> QED BY <1>5, <2>1, <2>2 DEF Statuses
  <1>7. CASE Broken
    BY <1>3, <1>7, OwnStepStay DEF Broken
  <1>8. CASE BrokenQuery
    <2>1. CASE cur \notin ToSet(ads.tcpw)
      <3>1. ads' = Abort(ads) /\ Culprit
        BY <1>8, <2>1 DEF BrokenQuery, Culprit
      <3>2. Aborted(ads, Abort(ads))
        BY <1>1, AbortExact
      <3> QED BY <3>1, <3>2 DEF OwnStep, Result
    <2>2. CASE cur \in ToSet(ads.tcpw)
      BY <1>3, <1>5, <1>8, <2>2, OwnStepStay DEF BrokenQuery, Statuses
    <2> QED BY <2>1, <2>2
  <1>9. CASE BrokenEnd
    <2>1. ads' = [ads EXCEPT !.tcpstate = "disconnected"] /\ ads.sent = {}
      BY <1>1, <1>9 DEF BrokenEnd, InBroken, SentOk
    <2>2. /\ ads' \in AdnsStates /\ ads'.qu = ads.qu /\ SameQueues(ads, ads')
          /\ ads'.sent = ads.sent /\ ads'.tcpstate = "disconnected"
      BY <1>1, <2>1 DEF AdnsStates, SameQueues
    <2>3. SentOk(ads') /\ OnlyTcp(ads, ads')
      BY <1>1, <2>1, <2>2, TcpFields DEF SentOk
    <2> QED BY <1>3, <2>3, OwnStepTcp
  <1>10. CASE Reconnect
    BY <1>1, <1>3, <1>10, TryconnectOnly, OwnStepTcp DEF Reconnect
  <1>11. CASE ConnectTimeout
    BY <1>1, <1>3, <1>11, BrokenOnly, OwnStepTcp DEF ConnectTimeout
  <1>12. CASE EventsEnd
    <2>1. \/ ads' = ads
          \/ ads.tcpstate = "ok" /\ ads' = [ads EXCEPT !.tcptimeout = "set"]
          \/ ads.tcpw = <<>> /\ ads' = [tcp_close(ads) EXCEPT !.tcpstate = "disconnected"]
      BY <1>12 DEF EventsEnd, Events
    <2>2. CASE ads' = [ads EXCEPT !.tcptimeout = "set"]
      <3>1. ads' \in AdnsStates /\ ads'.qu = ads.qu /\ SameQueues(ads, ads')
            /\ ads'.sent = ads.sent /\ ads'.tcpstate = ads.tcpstate
        BY <1>1, <2>2 DEF AdnsStates, SameQueues
      <3>2. SentOk(ads') /\ OnlyTcp(ads, ads')
        BY <1>1, <3>1, TcpFields DEF SentOk, SameQueues
      <3> QED BY <1>3, <3>2, OwnStepTcp
    <2>3. CASE ads' = [tcp_close(ads) EXCEPT !.tcpstate = "disconnected"]
      <3>1. ads' \in AdnsStates /\ ads'.qu = ads.qu /\ SameQueues(ads, ads')
            /\ ads'.sent = {} /\ ads'.tcpstate = "disconnected"
        BY <1>1, <2>3 DEF AdnsStates, SameQueues, tcp_close
      <3>2. SentOk(ads') /\ OnlyTcp(ads, ads')
        BY <1>1, <3>1, TcpFields DEF SentOk
      <3> QED BY <1>3, <3>2, OwnStepTcp
    <2> QED BY <1>3, <2>1, <2>2, <2>3, OwnStepStay
  <1> QED BY <1>4, <1>6, <1>7, <1>8, <1>9, <1>10, <1>11, <1>12

LEMMA ReplyExact ==
    ASSUME QInv, ~ads.abort, pc = "fds", NEW q \in Queries,
           q \in ToSet(ads.udpw) \cup ToSet(ads.tcpw), NEW r \in Replies, Reply(q, r)
    PROVE  OwnStep
  <1>1. Good(ads, {})
    BY DEF QInv, Hand
  <1>2. PICK e \in IF Resends(r) THEN Outcomes ELSE {Quiet} : ads' = adns__procdgram(ads, q, r, e)
    BY DEF Reply
  <1>3. e \in Outcomes
    BY <1>2 DEF Outcomes
  <1>4. /\ Result(ads, ads', IF Parses(ads, q, r) THEN {q} ELSE {})
        /\ Aborted(ads, ads') => ads.qu[q].state = "tcpw" /\ ads.qu[q].kind = "search"
                                 /\ ads.qu[q].names # 0
    BY <1>1, <1>2, <1>3, ProcdgramExact
  <1>5. Hand' = IF Parses(ads, q, r) THEN {q} ELSE {}
    BY DEF Hand, Reply
  <1>6. ads'.abort => Culprit
    BY <1>4 DEF Result, Culprit
  <1> QED BY <1>4, <1>5, <1>6 DEF OwnStep

LEMMA LackingExact ==
    ASSUME QInv, ~ads.abort, pc = "fds", Hand' = {}, ads' \in Lacking(ads)
    PROVE  OwnStep
  <1>1. Good(ads, {}) /\ ads \in AdnsStates /\ SentOk(ads)
    BY DEF QInv, Hand
  <1>2. "system" \in Faults /\ ads' = IF call = "poll" THEN adns_globalsystemfailure(ads) ELSE ads
    BY DEF Lacking
  <1>3. CASE ads' = Abort(ads) /\ call = "poll"
    <2>1. Aborted(ads, Abort(ads))
      BY <1>1, AbortExact
    <2> QED BY <1>2, <1>3, <2>1 DEF OwnStep, Result, Culprit
  <1>4. CASE ads' = adns__tcp_broken(ads)
    BY <1>1, <1>4, BrokenOnly, OwnStepTcp
  <1>5. CASE ads' = ads
    BY <1>1, <1>5, OwnStepStay
  <1> QED BY <1>2, <1>3, <1>4, <1>5 DEF adns_globalsystemfailure

LEMMA EventsExact ==
    ASSUME QInv, ~ads.abort,
           UdpReply \/ TcpReply \/ UdpEnd \/ TcpReadEnd \/ TcpWrite \/ TcpExcept
    PROVE  OwnStep
  <1>1. pc = "fds" /\ ads \in AdnsStates /\ SentOk(ads) /\ Good(ads, {})
        /\ ads.udpw \in Seq(Queries) /\ ads.tcpw \in Seq(Queries)
    <2>1. pc = "fds"
      BY DEF UdpReply, TcpReply, UdpEnd, TcpReadEnd, TcpWrite, TcpExcept, Turn
    <2> QED BY <2>1, Fields1 DEF QInv, Hand
  <1>2. CASE UdpReply
    <2>1. PICK q \in ToSet(ads.udpw) : \E r \in Replies : Reply(q, r)
      BY <1>2 DEF UdpReply
    <2>2. q \in Queries
      BY <1>1, ToSetType
    <2> QED BY <1>1, <2>1, <2>2, ReplyExact
  <1>3. CASE TcpReply
    <2>1. PICK q \in ToSet(ads.tcpw) : \E r \in Replies : Reply(q, r)
      BY <1>3 DEF TcpReply
    <2>2. q \in Queries
      BY <1>1, ToSetType
    <2> QED BY <1>1, <2>1, <2>2, ReplyExact
  <1>4. CASE UdpEnd \/ TcpReadEnd \/ TcpWrite \/ TcpExcept
    <2>1. Hand' = {}
      BY <1>1, <1>4 DEF UdpEnd, TcpReadEnd, TcpWrite, TcpExcept, Handled, Hand
    <2>2. CASE ads' \in Lacking(ads)
      BY <1>1, <2>1, <2>2, LackingExact
    <2>3. CASE ads' = ads
      BY <1>1, <2>1, <2>3, OwnStepStay
    <2>4. CASE ads' = adns__tcp_broken(ads)
      BY <1>1, <2>1, <2>4, BrokenOnly, OwnStepTcp
    <2>5. CASE ads.tcpstate = "connecting" /\ \E e \in Outcomes : ads' = tcp_connected(ads, e)
      BY <1>1, <2>1, <2>5, ConnectedOnly, OwnStepTcp
    <2>6. CASE ads' = [ads EXCEPT !.tcpsend = FALSE]
      <3> DEFINE b == FALSE
      <3>1. ads' = [ads EXCEPT !.tcpsend = b] /\ b \in BOOLEAN
        BY <2>6
      <3> HIDE DEF b
      <3>2. ads' \in AdnsStates /\ ads'.qu = ads.qu /\ SameQueues(ads, ads')
            /\ ads'.sent = ads.sent /\ ads'.tcpstate = ads.tcpstate
        BY <1>1, <3>1 DEF AdnsStates, SameQueues
      <3>3. SentOk(ads') /\ OnlyTcp(ads, ads')
        BY <1>1, <3>2, TcpFields DEF SentOk, SameQueues
      <3> QED BY <1>1, <2>1, <3>3, OwnStepTcp
    <2> QED BY <1>4, <2>2, <2>3, <2>4, <2>5, <2>6
            DEF UdpEnd, TcpReadEnd, TcpWrite, TcpExcept
  <1> QED BY <1>2, <1>3, <1>4

\* A record of the answer makes a child of the query that is parsed.
LEMMA NewChildExact ==
    ASSUME QInv, ~ads.abort, NEW kind \in {"hostaddr", "ptr"}, NewChild(kind)
    PROVE  OwnStep
  <1>1. pc = "parse" /\ pc' = pc /\ cur' = cur /\ Hand = {cur} /\ Hand' = {cur}
        /\ Good(ads, {cur}) /\ ads.qu[cur].kind = kind /\ cur \in Queries
    BY DEF NewChild, QInv, Hand, Good, Exact
  <1>2. PICK c \in Queries, e \in Outcomes :
          /\ NewSlot(c)
          /\ ads' = adns__query_send([ads EXCEPT !.qu[c] = Virgin("addr", cur)], c, e)
    BY DEF NewChild
  <1> DEFINE t == [ads EXCEPT !.qu[c] = Virgin("addr", cur)]
  <1>3. cur # None
    BY <1>1, AdnsAssumption DEF Queries, None
  <1>4. /\ Good(t, {cur} \cup {c}) /\ Children(t, c) = {} /\ c \notin {cur}
        /\ t.qu[c].state = "tosend" /\ t.qu[c].retries = 0
        /\ Pend(t) = Pend(ads) \cup (IF cur = None THEN {c} ELSE {})
        /\ t.output = ads.output /\ t.abort = ads.abort
    <2>1. ads.qu[c].state = "free" /\ cur \in {cur} /\ "addr" \in Kinds \cup {"addr"}
          /\ cur \in {None} \cup Queries
      BY <1>1, <1>2 DEF NewSlot
    <2> QED BY <1>1, <2>1, NewExact
  <1> HIDE DEF t
  <1>5. ads' = adns__query_send(t, c, e)
    BY <1>2 DEF t
  <1>6. Good(ads', {cur}) /\ NoAnswer(t, ads') /\ ads'.abort = t.abort
    <2>1. ~(t.qu[c].retries >= UDPMAXRETRIES)
      BY <1>4, AdnsAssumption
    <2> QED BY <1>4, <1>5, <2>1, SendKept
  <1>7. Replied(ads, ads')
    BY <1>3, <1>4, <1>6 DEF Replied, NoAnswer
  <1> QED BY <1>1, <1>4, <1>6, <1>7, OwnStepIf

LEMMA ParsingExact ==
    ASSUME QInv, ~ads.abort,
           pap_hostaddr \/ pa_ptr \/ ParseFailed \/ ParsedAll \/ ParsedChildren
    PROVE  OwnStep
  <1>1. CASE pap_hostaddr \/ pa_ptr
    BY <1>1, NewChildExact DEF pap_hostaddr, pa_ptr
  <1>2. CASE ParseFailed \/ ParsedAll \/ ParsedChildren
    <2>1. pc = "parse" /\ Hand' = {} /\ Good(ads, {cur}) /\ cur \in Queries
      BY <1>2 DEF ParseFailed, ParsedAll, ParsedChildren, Goto, Hand, QInv, Good, Exact
    <2>2. CASE ParseFailed
      BY <2>1, <2>2, FailExact, OwnStepIf DEF ParseFailed, Shrinks, Statuses
    <2>3. CASE ParsedAll
      BY <2>1, <2>3, DoneExact, OwnStepIf DEF ParsedAll, Shrinks, Statuses
    <2>4. CASE ParsedChildren
      BY <2>1, <2>4, ParsedExact, OwnStepIf DEF ParsedChildren, Replied
    <2> QED BY <1>2, <2>2, <2>3, <2>4
  <1> QED BY <1>1, <1>2

LEMMA ClockExact ==
    ASSUME QInv, ~ads.abort, Check \/ Poll
    PROVE  OwnStep /\ Callers'
  <1>1. /\ pc = "idle" /\ Good(ads, {}) /\ Callers
        /\ \E c \in {"check", "poll"} : Clock(ads, c)
        /\ fds' \subseteq {"udp", "in", "out", "pri"}
    BY DEF Check, Poll, QInv, Hand, Callers
  <1>2. /\ Good(ads', {}) /\ NoAnswer(ads, ads') /\ ads'.abort = ads.abort
        /\ due' \subseteq Queries /\ pc' = "timeouts" /\ call' \in {"check", "poll"}
        /\ UNCHANGED cur
    BY <1>1, ClockResult
  <1> QED BY <1>1, <1>2, OwnStepIf DEF Hand, Replied, Callers

\* A query of the user that fails is answered itself.
LEMMA FailUser ==
    ASSUME NEW s, NEW q \in Queries, Good(s, {q}), s.qu[q].parent = None,
           NEW status \in Statuses
    PROVE  LET t == adns__query_fail(s, q, status)
           IN  Good(t, {}) /\ t.abort = s.abort /\ OneAnswer(s, t, q)
  <1> DEFINE c == cancel_children(s, q)
             t == Answered(c, q, status)
  <1>1. Good(c, {q}) /\ c.abort = s.abort /\ NoAnswer(s, c) /\ c.qu[q] = s.qu[q]
    BY CancelChildrenExact DEF Shrinks
  <1> HIDE DEF c
  <1>2. Good(t, {}) /\ Shrinks(c, t) /\ OneAnswer(c, t, q)
    BY <1>1, AnsweredExact
  <1>3. t.abort = s.abort /\ OneAnswer(s, t, q)
    BY <1>1, <1>2 DEF Shrinks, NoAnswer, OneAnswer
  <1>4. adns__query_fail(s, q, status) = t
    BY <1>1 DEF adns__query_fail, adns__query_done, c
  <1> QED BY <1>2, <1>3, <1>4

\* What the calls of the user do to the queries that have no answer, and to the
\* answers.
UserStep ==
    /\ Good(ads', {}) /\ ~ads'.abort
    /\ \/ \E q \in Queries :
            /\ q \notin Pend(ads) /\ q \notin ToSet(ads.output)
            /\ \/ Pend(ads') = Pend(ads) \cup {q} /\ ads'.output = ads.output
               \/ Pend(ads') = Pend(ads) /\ ads'.output = Append(ads.output, q)
       \/ \E q \in Queries :
            /\ q \in Pend(ads) \cup ToSet(ads.output)
            /\ Pend(ads') = Pend(ads) \ {q} /\ ads'.output = Off(ads.output, {q})
       \/ Pend(ads') = {} /\ ads'.output = <<>>
       \/ ads.output # <<>> /\ Pend(ads') = Pend(ads) /\ ads'.output = Tail(ads.output)

LEMMA SubmitExact ==
    ASSUME QInv, ~ads.abort, NEW kind \in Kinds, Submit(kind)
    PROVE  UserStep /\ Hand' = {} /\ Callers'
  <1>1. pc = "idle" /\ Good(ads, {}) /\ Callers /\ UNCHANGED fds
    BY DEF Submit, Accepts, QInv, Hand
  <1> DEFINE t(q) == [ads EXCEPT !.qu[q] = Virgin(kind, None)]
             u(q, e) == IF kind = "search" THEN adns__search_next(t(q), q, e)
                        ELSE adns__query_send(t(q), q, e)
  <1>2. PICK q \in Queries, e \in Outcomes : NewSlot(q) /\ Clock(u(q, e), "processany")
    BY DEF Submit
  <1>3. /\ Good(t(q), {} \cup {q}) /\ Children(t(q), q) = {} /\ q \notin {}
        /\ t(q).qu[q].state = "tosend" /\ t(q).qu[q].retries = 0
        /\ t(q).qu[q] = Virgin(kind, None)
        /\ Pend(t(q)) = Pend(ads) \cup {q}
        /\ t(q).output = ads.output /\ t(q).abort = ads.abort
        /\ q \notin Pend(ads) /\ q \notin ToSet(ads.output)
    <2>1. ads.qu[q].state = "free" /\ kind \in Kinds \cup {"addr"} /\ None \in {None} \cup Queries
      BY <1>2 DEF NewSlot
    <2> QED BY <1>1, <2>1, NewExact
  <1> HIDE DEF t
  <1>4. ~(t(q).qu[q].retries >= UDPMAXRETRIES)
    BY <1>3, AdnsAssumption
  <1>5. CASE kind # "search"
    <2>1. u(q, e) = adns__query_send(t(q), q, e)
      BY <1>5
    <2> HIDE DEF u
    <2>a. Good(t(q), {q})
      BY <1>3
    <2>2. Good(u(q, e), {}) /\ NoAnswer(t(q), u(q, e)) /\ u(q, e).abort = t(q).abort
      <3>1. LET w == adns__query_send(t(q), q, e)
            IN  Good(w, {}) /\ NoAnswer(t(q), w) /\ w.abort = t(q).abort
        BY <2>a, <1>3, <1>4, SendAlone
      <3> QED BY <2>1, <3>1
    <2>3. /\ Good(ads', {}) /\ NoAnswer(u(q, e), ads') /\ ads'.abort = u(q, e).abort
          /\ due' \subseteq Queries /\ pc' = "timeouts" /\ call' = "processany" /\ UNCHANGED cur
      BY <1>2, <2>2, ClockResult
    <2>4. Hand' = {} /\ Callers'
      BY <1>1, <2>3 DEF Hand, Callers
    <2> QED BY <1>3, <2>2, <2>3, <2>4 DEF UserStep, NoAnswer
  <1>6. CASE kind = "search"
    <2> DEFINE v == [t(q) EXCEPT !.qu[q].names = @ - 1]
    <2>1. t(q).qu[q].names = SearchNames /\ SearchNames # 0
      BY <1>3, <1>6, AdnsAssumption DEF Virgin
    <2>2. u(q, e) = adns__query_send(v, q, e)
      BY <1>6, <2>1 DEF adns__search_next
    <2>3. t(q) \in AdnsStates /\ t(q).qu \in [Queries -> QueryRecords]
      BY <1>3, Fields1 DEF Good, Exact
    <2>4. Edits(t(q), v, q) /\ v.qu[q].retries = t(q).qu[q].retries
      <3> DEFINE f == [t(q).qu EXCEPT ![q].names = @ - 1]
      <3>1. t(q).qu[q].names - 1 \in 0..SearchNames
        BY <2>1, AdnsAssumption
      <3>2. f \in [Queries -> QueryRecords]
            /\ (\A x \in Queries : x # q => f[x] = t(q).qu[x])
            /\ f[q].state = t(q).qu[q].state /\ f[q].kind = t(q).qu[q].kind
            /\ f[q].parent = t(q).qu[q].parent /\ f[q].retries = t(q).qu[q].retries
        BY <2>3, <3>1 DEF QueryRecords
      <3>3. v = [t(q) EXCEPT !.qu = f]
        OBVIOUS
      <3> HIDE DEF f, v
      <3> QED BY <2>3, <3>2, <3>3 DEF Edits, AdnsStates, SameQueues
    <2> HIDE DEF u, v
    <2>a. Good(t(q), {q})
      BY <1>3
    <2>5. Good(v, {q}) /\ NoAnswer(t(q), v) /\ Children(v, q) = {}
      BY <2>a, <1>3, <2>4, EditExact
    <2>6. v.qu[q].state = "tosend" /\ v.abort = t(q).abort /\ ~(v.qu[q].retries >= UDPMAXRETRIES)
      BY <1>3, <1>4, <2>4 DEF Edits, SameQueues
    <2>7. Good(u(q, e), {}) /\ NoAnswer(v, u(q, e)) /\ u(q, e).abort = v.abort
      <3>1. LET w == adns__query_send(v, q, e)
            IN  Good(w, {}) /\ NoAnswer(v, w) /\ w.abort = v.abort
        BY <2>5, <2>6, SendAlone
      <3> QED BY <2>2, <3>1
    <2>8. /\ Good(ads', {}) /\ NoAnswer(u(q, e), ads') /\ ads'.abort = u(q, e).abort
          /\ due' \subseteq Queries /\ pc' = "timeouts" /\ call' = "processany" /\ UNCHANGED cur
      BY <1>2, <2>7, ClockResult
    <2>9. Hand' = {} /\ Callers'
      BY <1>1, <2>8 DEF Hand, Callers
    <2> QED BY <1>3, <2>5, <2>6, <2>7, <2>8, <2>9 DEF UserStep, NoAnswer
  <1> QED BY <1>5, <1>6

LEMMA SubmitBadExact ==
    ASSUME QInv, ~ads.abort, SubmitBad
    PROVE  UserStep /\ Hand' = {} /\ Callers'
  <1>1. pc = "idle" /\ Good(ads, {}) /\ Callers /\ UNCHANGED fds
    BY DEF SubmitBad, Accepts, QInv, Hand
  <1> DEFINE t(q) == [ads EXCEPT !.qu[q] = Virgin("addr", None)]
             s(q) == adns__query_fail(t(q), q, "failed")
  <1>2. PICK q \in Queries :
          /\ NewSlot(q)
          /\ \/ Clock(s(q), "processany")
             \/ ads' = s(q) /\ UNCHANGED <<pc, call, due, cur>>
    BY DEF SubmitBad
  <1>3. /\ Good(t(q), {} \cup {q}) /\ Children(t(q), q) = {} /\ q \notin {}
        /\ t(q).qu[q].parent = None
        /\ Pend(t(q)) = Pend(ads) \cup {q}
        /\ t(q).output = ads.output /\ t(q).abort = ads.abort
        /\ q \notin Pend(ads) /\ q \notin ToSet(ads.output)
    <2>1. ads.qu[q].state = "free" /\ "addr" \in Kinds \cup {"addr"} /\ None \in {None} \cup Queries
      BY <1>2 DEF NewSlot
    <2> QED BY <1>1, <2>1, NewExact
  <1> HIDE DEF t
  <1>4. Good(t(q), {q})
    BY <1>3
  <1>5. Good(s(q), {}) /\ s(q).abort = t(q).abort /\ OneAnswer(t(q), s(q), q)
    BY <1>3, <1>4, FailUser DEF Statuses
  <1> HIDE DEF s
  <1>6. /\ Good(ads', {}) /\ NoAnswer(s(q), ads') /\ ads'.abort = s(q).abort
        /\ Hand' = {} /\ Callers'
    <2>1. CASE Clock(s(q), "processany")
      <3>1. /\ Good(ads', {}) /\ NoAnswer(s(q), ads') /\ ads'.abort = s(q).abort
            /\ due' \subseteq Queries /\ pc' = "timeouts" /\ call' = "processany" /\ UNCHANGED cur
        BY <2>1, <1>5, ClockResult
      <3> QED BY <1>1, <3>1 DEF Hand, Callers
    <2>2. CASE ads' = s(q) /\ UNCHANGED <<pc, call, due, cur>>
      BY <1>1, <1>5, <2>2 DEF NoAnswer, Hand, Callers
    <2> QED BY <1>2, <2>1, <2>2
  <1>7. /\ Pend(s(q)) = Pend(ads) /\ Pend(ads') = Pend(s(q))
        /\ ads'.output = Append(ads.output, q)
    BY <1>3, <1>5, <1>6 DEF OneAnswer, NoAnswer
  <1> QED BY <1>1, <1>3, <1>5, <1>6, <1>7 DEF UserStep

\* The user cancels a query: it leaves with its children.
LEMMA CancelExact ==
    ASSUME QInv, ~ads.abort, NEW q \in Queries, Cancel(q)
    PROVE  UserStep
  <1> DEFINE gone == {q} \cup Children(ads, q)
             t == Gone(ads, gone)
  <1>1. /\ pc = "idle" /\ Good(ads, {}) /\ Exact(ads, {}) /\ Waits(ads, {}) /\ SentOk(ads)
        /\ ads \in AdnsStates /\ Families(ads, {}) /\ ads' = t
        /\ ads.qu[q].state # "free" /\ ads.qu[q].parent = None
        /\ ads.output \in Seq(Queries)
    BY Fields1 DEF Cancel, Top, QInv, Hand, Good, Exact, adns_cancel
  <1>2. q # None
    BY AdnsAssumption DEF Queries, None
  <1>3. \A c \in Children(ads, q) : c \in Queries /\ Alive(ads, c) /\ ads.qu[c].parent = q
                                    /\ ChildOf(ads, {}, c, q)
    BY <1>1, <1>2 DEF Children, Families, Alive
  <1>4. gone \in SUBSET Queries
    BY <1>3
  <1>5. \A c \in Queries : Alive(ads, c) /\ ads.qu[c].parent \in gone => c \in gone
    <2> SUFFICES ASSUME NEW c \in Queries, Alive(ads, c), ads.qu[c].parent \in gone,
                        c \notin gone
                 PROVE  FALSE
      OBVIOUS
    <2>1. ads.qu[c].parent # None
      BY <1>4, AdnsAssumption DEF Queries, None
    <2>2. ChildOf(ads, {}, c, ads.qu[c].parent)
      BY <1>1, <2>1 DEF Families
    <2>3. ads.qu[c].parent # q
      BY DEF Children, Alive
    <2>4. ChildOf(ads, {}, ads.qu[c].parent, q)
      BY <1>3, <2>3
    <2> QED BY <2>2, <2>4 DEF ChildOf
  <1>6. /\ Exact(t, {}) /\ Shrinks(ads, t) /\ SentOk(t)
        /\ \A x \in Queries : Children(t, x) = Children(ads, x) \ gone
        /\ Pend(t) = Pend(ads) \ gone
        /\ \A x \in Queries : t.qu[x] = IF x \in gone THEN Freed ELSE ads.qu[x]
        /\ t.output = Off(ads.output, gone)
    <2> HIDE DEF gone
    <2>1. {} \ gone = {}
      OBVIOUS
    <2>2. /\ Exact(t, {} \ gone) /\ Shrinks(ads, t) /\ SentOk(t)
          /\ \A x \in Queries : Children(t, x) = Children(ads, x) \ gone
          /\ Pend(t) = Pend(ads) \ gone
      BY <1>1, <1>4, <1>5, GoneExact
    <2>3. /\ \A x \in Queries : t.qu[x] = IF x \in gone THEN Freed ELSE ads.qu[x]
          /\ t.output = Off(ads.output, gone)
      BY <1>1, <1>4, GoneFields
    <2> QED BY <2>1, <2>2, <2>3
  <1> HIDE DEF t
  <1>7. Waits(t, {})
    <2> SUFFICES ASSUME NEW x \in Queries, t.qu[x].state = "childw" PROVE Children(t, x) # {}
      BY DEF Waits
    <2>1. x \notin gone /\ ads.qu[x].state = "childw"
      BY <1>6, FreedType
    <2>2. Children(ads, x) # {}
      BY <1>1, <2>1 DEF Waits
    <2>3. x # None /\ x # q
      BY <2>1, AdnsAssumption DEF Queries, None
    <2>4. \A c \in Children(ads, x) : ads.qu[c].parent = x
      BY DEF Children
    <2>5. \A c \in gone : ads.qu[c].parent \in {None, q}
      BY <1>1, <1>3
    <2>6. \A c \in Children(ads, x) : c \notin gone
      BY <2>3, <2>4, <2>5
    <2> QED BY <1>6, <2>2, <2>6
  <1>8. Off(ads.output, gone) = Off(ads.output, {q})
    <2>1. \A c \in Children(ads, q) : c \notin ToSet(ads.output)
      BY <1>1, <1>3 DEF ChildOf, Exact, Placed
    <2>2. Remaining(ads.output, gone) = Remaining(ads.output, {q})
      <3>1. \A i \in DOMAIN ads.output : ads.output[i] \in ToSet(ads.output)
        BY DEF ToSet
      <3> QED BY <2>1, <3>1 DEF Remaining
    <2> QED BY <2>2 DEF Off
  <1>9. Pend(t) = Pend(ads) \ {q}
    <2>1. \A c \in Children(ads, q) : c \notin Pend(ads)
      BY <1>2, <1>3 DEF Pend
    <2> QED BY <1>6, <2>1
  <1>10. q \in Pend(ads) \cup ToSet(ads.output)
    BY <1>1 DEF Pend, Alive, Exact, Placed
  <1>11. ~t.abort
    BY <1>6 DEF Shrinks
  <1>12. Good(t, {})
    BY <1>6, <1>7 DEF Good
  <1> QED BY <1>1, <1>6, <1>8, <1>9, <1>10, <1>11, <1>12 DEF UserStep

\* The first answer is taken, and its memory freed.
LEMMA TakeExact ==
    ASSUME QInv, ~ads.abort, Take
    PROVE  UserStep
  <1> DEFINE q == Head(ads.output)
             t == Gone(ads, {q})
  <1>1. /\ pc = "fds" /\ Good(ads, {}) /\ Exact(ads, {}) /\ Waits(ads, {}) /\ SentOk(ads)
        /\ ads \in AdnsStates /\ Families(ads, {}) /\ ads' = t
        /\ ads.output \in Seq(Queries) /\ ads.output # <<>> /\ IsInjective(ads.output)
    BY Fields1 DEF Take, Returns, QInv, Hand, Good, Exact, Placed
  <1>2. q \in Queries /\ q \in ToSet(ads.output)
    BY <1>1, GetQueue
  <1> HIDE DEF q
  <1>3. ads.qu[q].state = "done" /\ q # None
    BY <1>1, <1>2, AdnsAssumption DEF Exact, Placed, Queries, None
  <1>4. \A c \in Queries : Alive(ads, c) /\ ads.qu[c].parent \in {q} => c \in {q}
    <2> SUFFICES ASSUME NEW c \in Queries, Alive(ads, c), ads.qu[c].parent = q PROVE FALSE
      OBVIOUS
    <2>1. ChildOf(ads, {}, c, q)
      BY <1>1, <1>3 DEF Families
    <2> QED BY <1>3, <2>1 DEF ChildOf
  <1>5. /\ Exact(t, {}) /\ Shrinks(ads, t) /\ SentOk(t)
        /\ \A x \in Queries : Children(t, x) = Children(ads, x) \ {q}
        /\ Pend(t) = Pend(ads) \ {q}
        /\ \A x \in Queries : t.qu[x] = IF x \in {q} THEN Freed ELSE ads.qu[x]
        /\ t.output = Off(ads.output, {q})
    <2>1. /\ Exact(t, {} \ {q}) /\ Shrinks(ads, t) /\ SentOk(t)
          /\ \A x \in Queries : Children(t, x) = Children(ads, x) \ {q}
          /\ Pend(t) = Pend(ads) \ {q}
      BY <1>1, <1>2, <1>4, GoneExact
    <2>2. /\ \A x \in Queries : t.qu[x] = IF x \in {q} THEN Freed ELSE ads.qu[x]
          /\ t.output = Off(ads.output, {q})
      BY <1>1, <1>2, GoneFields
    <2>3. {} \ {q} = {}
      OBVIOUS
    <2> QED BY <2>1, <2>2, <2>3
  <1> HIDE DEF t
  <1>6. Waits(t, {})
    <2> SUFFICES ASSUME NEW x \in Queries, t.qu[x].state = "childw" PROVE Children(t, x) # {}
      BY DEF Waits
    <2>1. x # q /\ ads.qu[x].state = "childw"
      BY <1>5, FreedType
    <2>2. PICK c \in Children(ads, x) : TRUE
      BY <1>1, <2>1 DEF Waits
    <2>3. c # q
      <3>1. Alive(ads, c) /\ ads.qu[c].parent = x /\ c \in Queries /\ x # None
        BY AdnsAssumption DEF Children, Alive, Queries, None
      <3>2. ads.qu[c].state \in {"tosend", "tcpw"}
        BY <1>1, <3>1 DEF Families, ChildOf
      <3> QED BY <1>3, <3>2
    <2> QED BY <1>5, <2>2, <2>3
  <1>7. Off(ads.output, {q}) = Tail(ads.output)
    BY <1>1, OffHead DEF q
  <1>8. Pend(t) = Pend(ads)
    BY <1>3, <1>5 DEF Pend
  <1>9. ~t.abort
    BY <1>5 DEF Shrinks
  <1>10. Good(t, {})
    BY <1>5, <1>6 DEF Good
  <1> QED BY <1>1, <1>5, <1>7, <1>8, <1>9, <1>10 DEF UserStep

LEMMA NewStateGood == Good(NewState, {}) /\ Pend(NewState) = {} /\ NewState.output = <<>>
                      /\ ~NewState.abort
  <1>1. /\ NewState \in AdnsStates /\ SentOk(NewState)
        /\ NewState.udpw = <<>> /\ NewState.tcpw = <<>>
        /\ NewState.childw = <<>> /\ NewState.output = <<>> /\ ~NewState.abort
        /\ \A q \in Queries : NewState.qu[q].state = "free"
    BY NewStateType, FreedType DEF NewState
  <1> HIDE DEF NewState
  <1>2. ToSet(<<>>) = {} /\ IsInjective(<<>>)
    BY DEF ToSet, IsInjective
  <1> QED BY <1>1, <1>2 DEF Good, Exact, Placed, Families, Alive, Waits, Pend

-----------------------------------------------------------------------------
(***************************************************************************)
(* Every step, and what follows.                                            *)
(***************************************************************************)

LEMMA FinishExact ==
    ASSUME QInv, ~ads.abort, Finish
    PROVE  UserStep
  BY NewStateGood DEF Finish, UserStep

LEMMA ReturnExact ==
    ASSUME QInv, ~ads.abort, Return
    PROVE  OwnStep
  <1>1. pc = "fds" /\ pc' = "idle" /\ ads' = ads
    BY DEF Return, Returns
  <1>2. Good(ads, {}) /\ Hand' = {}
    BY <1>1 DEF QInv, Hand
  <1> QED BY <1>1, <1>2, OwnStepStay

LEMMA EachStep ==
    ASSUME QInv, InBroken, Next
    PROVE  OwnStep \/ (UserStep /\ Hand' = {})
  <1>1. ~ads.abort
    BY DEF Next
  <1>2. CASE (\E kind \in Kinds : Submit(kind)) \/ SubmitBad
    BY <1>1, <1>2, SubmitExact, SubmitBadExact
  <1>3. CASE Finish \/ \E q \in Queries : Cancel(q)
    <2>1. pc' = "idle"
      BY <1>3 DEF Finish, Cancel
    <2> QED BY <1>1, <1>3, <2>1, FinishExact, CancelExact DEF Hand
  <1>4. CASE Take
    BY <1>1, <1>4, TakeExact DEF Take, Returns, Hand
  <1>5. CASE Check \/ Poll
    BY <1>1, <1>5, ClockExact
  <1>6. CASE UdpReply \/ TcpReply \/ UdpEnd \/ TcpReadEnd \/ TcpWrite \/ TcpExcept
    BY <1>1, <1>6, EventsExact
  <1>7. CASE TimeoutUdp \/ TimeoutTcp \/ Broken \/ BrokenQuery \/ BrokenEnd
               \/ Reconnect \/ ConnectTimeout \/ EventsEnd
    BY <1>1, <1>7, TimeoutsExact
  <1>8. CASE pap_hostaddr \/ pa_ptr \/ ParseFailed \/ ParsedAll \/ ParsedChildren
    BY <1>1, <1>8, ParsingExact
  <1>9. CASE Return
    BY <1>1, <1>9, ReturnExact
  <1> QED BY <1>2, <1>3, <1>4, <1>5, <1>6, <1>7, <1>8, <1>9 DEF Next, Loops

\* The query after q on the queue.
LEMMA AfterType ==
    ASSUME NEW queue \in Seq(Queries), NEW q \in ToSet(queue)
    PROVE  After(queue, q) \in {None} \cup Queries
  <1> DEFINE i == CHOOSE i \in DOMAIN queue : queue[i] = q
  <1>1. i \in DOMAIN queue /\ queue[i] = q
    BY DEF ToSet
  <1> HIDE DEF i
  <1>2. i # Len(queue) => queue[i + 1] \in Queries
    BY <1>1
  <1> QED BY <1>2 DEF After, i

LEMMA StepCallers ==
    ASSUME QInv, Next
    PROVE  Callers'
  <1>1. ~ads.abort /\ Callers /\ ads.udpw \in Seq(Queries) /\ ads.tcpw \in Seq(Queries)
    BY Fields1 DEF QInv, Next
  <1>2. CASE (\E kind \in Kinds : Submit(kind)) \/ SubmitBad \/ Check \/ Poll
    BY <1>1, <1>2, SubmitExact, SubmitBadExact, ClockExact
  <1>3. CASE Finish \/ \E q \in Queries : Cancel(q)
    BY <1>1, <1>3 DEF Finish, Cancel, Callers
  <1>4. CASE TimeoutUdp \/ TimeoutTcp \/ Reconnect \/ ConnectTimeout
    BY <1>1, <1>4 DEF TimeoutUdp, TimeoutTcp, Reconnect, ConnectTimeout, Callers
  <1>5. CASE Broken
    <2>1. ads.tcpw # <<>> => Head(ads.tcpw) \in Queries
      BY <1>1
    <2> QED BY <1>1, <1>5, <2>1 DEF Broken, Goto, Callers
  <1>6. CASE BrokenQuery
    <2>1. cur' \in {None} \cup Queries
      BY <1>1, <1>6, AfterType DEF BrokenQuery, Callers
    <2> QED BY <1>1, <1>6, <2>1 DEF BrokenQuery, Callers
  <1>7. CASE BrokenEnd
    BY <1>1, <1>7 DEF BrokenEnd, Goto, Callers
  <1>8. CASE EventsEnd
    <2>1. Pollfds(ads') \subseteq {"udp", "in", "out", "pri"}
      BY DEF Pollfds
    <2> HIDE DEF Pollfds
    <2> QED BY <1>1, <1>8, <2>1 DEF EventsEnd, Callers
  <1>9. CASE UdpReply \/ TcpReply
    <2>1. \E q \in Queries, r \in Replies : Reply(q, r)
      BY <1>1, <1>9, ToSetType DEF UdpReply, TcpReply
    <2> QED BY <1>1, <2>1 DEF Reply, Callers
  <1>10. CASE UdpEnd \/ TcpReadEnd \/ TcpWrite \/ TcpExcept
    BY <1>1, <1>10 DEF UdpEnd, TcpReadEnd, TcpWrite, TcpExcept, Handled, Callers
  <1>11. CASE pap_hostaddr \/ pa_ptr
    BY <1>1, <1>11 DEF pap_hostaddr, pa_ptr, NewChild, Callers
  <1>12. CASE ParseFailed \/ ParsedAll \/ ParsedChildren
    BY <1>1, <1>12 DEF ParseFailed, ParsedAll, ParsedChildren, Goto, Callers
  <1>13. CASE Take \/ Return
    BY <1>1, <1>13 DEF Take, Return, Returns, Callers
  <1> QED BY <1>2, <1>3, <1>4, <1>5, <1>6, <1>7, <1>8, <1>9, <1>10, <1>11, <1>12, <1>13
          DEF Next, Loops

LEMMA InitQInv == Init => QInv
  <1> SUFFICES ASSUME Init PROVE QInv
    OBVIOUS
  <1>1. Good(ads, {}) /\ Hand = {}
    BY NewStateGood DEF Init, Hand
  <1>2. Callers
    BY DEF Init, Callers
  <1> QED BY <1>1, <1>2 DEF QInv, Good, Exact

LEMMA StepQInv == QInv /\ IInv /\ [Next]_vars => QInv'
  <1> SUFFICES ASSUME QInv, InBroken, [Next]_vars PROVE QInv'
    BY DEF IInv
  <1>1. CASE UNCHANGED vars
    BY <1>1 DEF vars, QInv, Callers, Hand
  <1>2. CASE Next
    <2>1. ads' \in AdnsStates /\ SentOk(ads') /\ (ads'.abort \/ Good(ads', Hand'))
      BY <1>2, EachStep, ResultGood DEF OwnStep, UserStep, Good, Exact
    <2> QED BY <1>2, <2>1, StepCallers DEF QInv
  <1> QED BY <1>1, <1>2

LEMMA QInvHolds == Spec => [](QInv /\ IInv)
  BY InitQInv, StepQInv, InitIInv, StepIInv, PTL DEF Spec

\* The types of the resolver, whatever the sockets give.
THEOREM TypesHold == Spec => []TypeOK
  <1>1. QInv => TypeOK
    BY DEF QInv, Callers, TypeOK
  <1> QED BY <1>1, QInvHolds, PTL

\* The queries of tcpw have been given to the connection iff there is one, in any
\* interleaving of connects, writes, breaks and queries that end.
THEOREM SentWhenUp == Spec => []SentIffUp
  <1>1. QInv => SentIffUp
    BY DEF QInv, SentOk, SentIffUp
  <1> QED BY <1>1, QInvHolds, PTL

LEMMA GoodQueues ==
    ASSUME QInv, NoAbort
    PROVE  QueuesExact
  <1>1. /\ Good(ads, Hand) /\ Exact(ads, Hand) /\ Waits(ads, Hand) /\ Families(ads, Hand)
        /\ ads.udpw \in Seq(Queries) /\ ads.tcpw \in Seq(Queries)
        /\ ads.childw \in Seq(Queries) /\ ads.output \in Seq(Queries)
        /\ ads.qu \in [Queries -> QueryRecords]
    BY Fields1 DEF QInv, NoAbort, Good, Exact
  <1>2. ASSUME NEW queue \in Seq(Queries), NEW state, Placed(ads, Hand, queue, state)
        PROVE  On(queue, {state})
    <2>1. \A i \in DOMAIN queue : queue[i] \in Queries /\ queue[i] \in ToSet(queue)
      BY DEF ToSet
    <2> QED BY <1>2, <2>1 DEF Placed, On, IsInjective
  <1>3. /\ On(ads.udpw, {"tosend"}) /\ On(ads.tcpw, {"tcpw"})
        /\ On(ads.childw, {"childw"}) /\ On(ads.output, {"done"})
    BY <1>1, <1>2 DEF Exact
  <1>4. ASSUME NEW q \in Queries, ads.qu[q].state # "free"
        PROVE  q \in ToSet(ads.udpw) \cup ToSet(ads.tcpw) \cup ToSet(ads.childw)
                 \cup ToSet(ads.output) \cup (IF pc = "parse" THEN {cur} ELSE {})
    <2>1. ads.qu[q].state \in {"tosend", "tcpw", "childw", "done"}
      BY <1>1, <1>4 DEF QueryRecords, States
    <2> QED BY <1>1, <2>1 DEF Exact, Placed, Hand
  <1>5. ASSUME NEW q \in Queries, NEW c \in Children(ads, q)
        PROVE  ads.qu[c].state \in {"tosend", "tcpw"} /\ (q = cur \/ ads.qu[q].state = "childw")
    <2>1. c \in Queries /\ Alive(ads, c) /\ ads.qu[c].parent = q /\ q # None
      BY AdnsAssumption DEF Children, Alive, Queries, None
    <2>2. ChildOf(ads, Hand, c, q)
      BY <1>1, <2>1 DEF Families
    <2> QED BY <2>2 DEF ChildOf, Hand
  <1>6. \A q \in Queries : Children(ads, q) # {} => q = cur \/ ads.qu[q].state = "childw"
    BY <1>5
  <1>7. ASSUME NEW q \in ToSet(ads.childw)
        PROVE  /\ Children(ads, q) # {}
               /\ \A c \in Children(ads, q) : ads.qu[c].state \in {"tosend", "tcpw"}
    <2>1. q \in Queries
      BY <1>1, ToSetType
    <2>2. ads.qu[q].state = "childw" /\ q \notin Hand
      BY <1>1, <2>1 DEF Exact, Placed
    <2> QED BY <1>1, <1>5, <2>1, <2>2 DEF Waits
  <1> QED BY <1>3, <1>4, <1>6, <1>7 DEF QueuesExact

LEMMA GoodEsrch ==
    ASSUME QInv, NoAbort
    PROVE  EsrchMeansNone
  <1> SUFFICES ASSUME ads.udpw = <<>>, ads.tcpw = <<>>, ads.output = <<>>, pc # "parse",
                      NEW q \in Queries, ads.qu[q].state # "free"
               PROVE  FALSE
    BY DEF EsrchMeansNone
  <1>1. /\ Exact(ads, {}) /\ Waits(ads, {}) /\ Families(ads, {})
        /\ ads.qu \in [Queries -> QueryRecords]
    BY Fields1 DEF QInv, NoAbort, Good, Exact, Hand
  <1>2. ToSet(<<>>) = {}
    BY DEF ToSet
  <1>3. \A x \in Queries : ads.qu[x].state \notin {"tosend", "tcpw", "done"}
    BY <1>1, <1>2 DEF Exact, Placed
  <1>4. ads.qu[q].state = "childw"
    BY <1>1, <1>3 DEF QueryRecords, States
  <1>5. PICK c \in Queries : Alive(ads, c) /\ ads.qu[c].parent = q
    BY <1>1, <1>4 DEF Waits, Children, Alive
  <1>6. ChildOf(ads, {}, c, q)
    BY <1>1, <1>5, AdnsAssumption DEF Families, Queries, None
  <1> QED BY <1>3, <1>6 DEF ChildOf

\* Until an assertion fails each query is on the one queue its state says, once,
\* and waits for children only if it has some that wait for a server.
THEOREM QueuesStayExact == Spec => [](NoAbort => QueuesExact)
  <1>1. QInv => (NoAbort => QueuesExact)
    BY GoodQueues
  <1> QED BY <1>1, QInvHolds, PTL

\* Until an assertion fails, adns_check says ESRCH only if no query is left.
THEOREM EsrchIsTrue == Spec => [](NoAbort => EsrchMeansNone)
  <1>1. QInv => (NoAbort => EsrchMeansNone)
    BY GoodEsrch
  <1> QED BY <1>1, QInvHolds, PTL

-----------------------------------------------------------------------------
(***************************************************************************)
(* The refinement: what is answered, in the order of the answers.           *)
(***************************************************************************)

LEMMA PendingIsPend == {q \in Queries : Pending(q)} = Pend(ads)
  BY DEF Pending, Top, Pend, Alive

LEMMA PendingIsPendNext == {q \in Queries : Pending(q)}' = Pend(ads')
  BY DEF Pending, Top, Pend, Alive

LEMMA InitResolver == Init => R!Init
  <1> SUFFICES ASSUME Init PROVE R!Init
    OBVIOUS
  <1>1. Pend(ads) = {} /\ ads.output = <<>>
    BY NewStateGood DEF Init
  <1> QED BY <1>1, PendingIsPend DEF R!Init

\* A step of the resolver itself answers one query of the user, or none; a call of
\* the user does what he asked for.
LEMMA StepResolver == QInv /\ IInv /\ [Next]_vars => [R!Next]_(R!vars)
  <1> SUFFICES ASSUME QInv, InBroken, [Next]_vars PROVE [R!Next]_(R!vars)
    BY DEF IInv
  <1> DEFINE P == {q \in Queries : Pending(q)}
  <1>1. P = Pend(ads) /\ P' = Pend(ads')
    BY PendingIsPend, PendingIsPendNext
  <1>2. CASE UNCHANGED vars
    <2>1. P' = P /\ ads'.output = ads.output
      BY <1>1, <1>2 DEF vars
    <2> QED BY <2>1 DEF R!vars
  <1>3. CASE Next /\ OwnStep
    <2>1. Replied(ads, ads')
      BY <1>3, ResultGood DEF OwnStep
    <2>2. CASE NoAnswer(ads, ads')
      BY <1>1, <2>2 DEF NoAnswer, R!vars
    <2>3. CASE \E q \in Queries : OneAnswer(ads, ads', q)
      <3>1. \E q \in Queries : R!Answer(q)
        BY <1>1, <2>3 DEF OneAnswer, R!Answer
      <3> QED BY <3>1 DEF R!Next
    <2> QED BY <2>1, <2>2, <2>3 DEF Replied
  <1>4. CASE Next /\ UserStep
    <2>1. /\ R!ToSet(ads.output) = ToSet(ads.output)
          /\ \A q : R!Off(ads.output, {q}) = Off(ads.output, {q})
      <3>1. \A S : R!Cardinality(S) = Cardinality(S)
        BY DEF Cardinality, R!Cardinality
      <3>2. \A S, k : R!Nth(S, k) = Nth(S, k)
        <4> SUFFICES ASSUME NEW S, NEW k PROVE R!Nth(S, k) = Nth(S, k)
          OBVIOUS
        <4>1. \A i : R!Cardinality({j \in S : j <= i}) = Cardinality({j \in S : j <= i})
          BY <3>1
        <4> QED BY <4>1 DEF Nth, R!Nth
      <3>3. \A queue, gone : R!Remaining(queue, gone) = Remaining(queue, gone)
        BY DEF Remaining, R!Remaining
      <3>4. ASSUME NEW queue, NEW gone PROVE R!Off(queue, gone) = Off(queue, gone)
        BY <3>1, <3>2, <3>3 DEF Off, R!Off
      <3> QED BY <3>4 DEF ToSet, R!ToSet
    <2> HIDE DEF P
    <2>2. ASSUME NEW q \in Queries, q \notin Pend(ads), q \notin ToSet(ads.output),
                 \/ Pend(ads') = Pend(ads) \cup {q} /\ ads'.output = ads.output
                 \/ Pend(ads') = Pend(ads) /\ ads'.output = Append(ads.output, q)
          PROVE  R!Next
      <3>1. R!Accept(q) \/ R!Refuse(q)
        BY <1>1, <2>1, <2>2 DEF R!Accept, R!Refuse, R!Known, P
      <3> QED BY <3>1 DEF R!Next
    <2>3. ASSUME NEW q \in Queries, q \in Pend(ads) \cup ToSet(ads.output),
                 Pend(ads') = Pend(ads) \ {q}, ads'.output = Off(ads.output, {q})
          PROVE  R!Next
      <3>1. R!Cancel(q)
        BY <1>1, <2>1, <2>3 DEF R!Cancel, R!Known, P
      <3> QED BY <3>1 DEF R!Next
    <2>4. CASE Pend(ads') = {} /\ ads'.output = <<>>
      BY <1>1, <2>4 DEF R!Finish, R!Next, P
    <2>5. CASE ads.output # <<>> /\ Pend(ads') = Pend(ads) /\ ads'.output = Tail(ads.output)
      BY <1>1, <2>5 DEF R!Take, R!Next, P
    <2> QED BY <1>4, <2>2, <2>3, <2>4, <2>5 DEF UserStep
  <1> QED BY <1>2, <1>3, <1>4, EachStep

\* Whatever the network, the servers and the system calls do, a query that was
\* accepted is answered at most once, its answer stays until it is taken, in the
\* order of the answers, and no other query is touched by the end of one.
THEOREM AnswersOnce == Spec => IsResolver
  BY InitResolver, StepResolver, QInvHolds, PTL DEF Spec, IsResolver, R!Spec

-----------------------------------------------------------------------------
(***************************************************************************)
(* The retries of the queries that wait, and what becomes of them.          *)
(***************************************************************************)

\* A query of udpw.
UdpOk(r) ==
    r.retries \in 1..UDPMAXRETRIES /\ r.udpsent # {} /\ ~r.usevc /\ NamesOk(r)

FitsUdp(s) == \A q \in ToSet(s.udpw) : UdpOk(s.qu[q])
Fits(s) == FitsUdp(s) /\ FitsTcp(s)

LEMMA ShrinksFits ==
    ASSUME NEW s, NEW t, Shrinks(s, t), Fits(s)
    PROVE  Fits(t)
  BY DEF Shrinks, Fits, FitsUdp, FitsTcp

\* The queries of t are queries of s, of the same kind and with no new parent, and
\* none but those of b failed for want of a server.
Keeps(s, t, b) ==
    \A q \in Queries :
        /\ Alive(t, q) => /\ Alive(s, q) /\ t.qu[q].kind = s.qu[q].kind
                          /\ t.qu[q].parent \in {None, s.qu[q].parent}
        /\ t.qu[q].status = "allservfail" => s.qu[q].status = "allservfail" \/ q \in b

Blamed(q, status) == IF status = "allservfail" THEN {q} ELSE {}

LEMMA KeepsMore ==
    ASSUME NEW s, NEW t, NEW u, NEW b, Keeps(s, t, {}), Keeps(t, u, b)
    PROVE  Keeps(s, u, b)
  BY DEF Keeps

LEMMA KeepsSame ==
    ASSUME NEW s, NEW t, t.qu = s.qu
    PROVE  Keeps(s, t, {})
  BY DEF Keeps, Alive

LEMMA OnlyTcpKeeps ==
    ASSUME NEW s, NEW t, OnlyTcp(s, t)
    PROVE  Keeps(s, t, {})
  BY DEF OnlyTcp, SameQuery, Keeps, Alive

LEMMA GoneKeeps ==
    ASSUME NEW s \in AdnsStates, NEW gone \in SUBSET Queries
    PROVE  Keeps(s, Gone(s, gone), {}) /\ Gone(s, gone) \in AdnsStates
  <1>1. Freed.state = "free" /\ Freed.status # "allservfail"
    BY FreedType DEF Freed, Virgin
  <1> QED BY <1>1, GoneFields DEF Keeps, Alive

LEMMA AnsweredKeeps ==
    ASSUME NEW s \in AdnsStates, NEW q \in Queries, Alive(s, q), NEW status
    PROVE  Keeps(s, Answered(s, q, status), Blamed(q, status))
  <1> DEFINE c == cancel_children(s, q)
             answer == [Virgin(s.qu[q].kind, None) EXCEPT !.state = "done", !.status = status]
             t == [c EXCEPT !.qu[q] = answer, !.output = Append(@, q)]
  <1>1. Keeps(s, c, {}) /\ c \in AdnsStates
    BY GoneKeeps DEF cancel_children, Children
  <1>2. answer.status = status /\ answer.kind = s.qu[q].kind /\ answer.parent = None
    BY DEF Virgin
  <1> HIDE DEF c, answer
  <1>3. \A x \in Queries : t.qu[x] = IF x = q THEN answer ELSE c.qu[x]
    BY <1>1, Fields1 DEF AdnsStates
  <1> HIDE DEF t
  <1>4. Keeps(s, t, Blamed(q, status))
    BY <1>1, <1>2, <1>3 DEF Keeps, Alive, Blamed
  <1> QED BY <1>4 DEF Answered, t, c, answer

LEMMA CallbackKeeps ==
    ASSUME NEW s \in AdnsStates, NEW p \in Queries, Alive(s, p), NEW status
    PROVE  Keeps(s, icb_hostaddr(s, p), {}) /\ Keeps(s, icb_ptr(s, p, status), {})
  <1>1. Keeps(s, [s EXCEPT !.childw = Append(@, p)], {})
    BY KeepsSame DEF AdnsStates
  <1>2. Keeps(s, Answered(s, p, "ok"), {}) /\ Keeps(s, Answered(s, p, "failed"), {})
    BY AnsweredKeeps DEF Blamed
  <1> QED BY <1>1, <1>2 DEF icb_hostaddr, icb_ptr

LEMMA DoneKeeps ==
    ASSUME NEW s, NEW q \in Queries, Good(s, {q}), NEW status
    PROVE  Keeps(s, adns__query_done(s, q, status), Blamed(q, status))
  <1> DEFINE p == s.qu[q].parent
             g == Gone(s, {q})
             t == [g EXCEPT !.childw = Off(@, {p})]
  <1>1. s \in AdnsStates /\ Families(s, {q}) /\ Alive(s, q)
    BY DEF Good, Exact, Alive
  <1>2. CASE p = None
    BY <1>1, <1>2, AnsweredKeeps DEF adns__query_done
  <1>3. CASE p # None
    <2>1. p \in Queries /\ p # q /\ Alive(s, p)
      BY <1>1, <1>3 DEF Families, ChildOf, Alive
    <2>2. g \in AdnsStates /\ Keeps(s, g, {}) /\ g.qu[p] = s.qu[p]
      BY <1>1, <2>1, GoneKeeps, GoneFields
    <2> HIDE DEF g
    <2>3. t \in AdnsStates /\ t.qu = g.qu
      <3>1. Off(g.childw, {p}) \in Seq(Queries)
        BY <2>2, Fields1, OffType
      <3> QED BY <2>2, <3>1 DEF AdnsStates
    <2> HIDE DEF t
    <2>4. Keeps(s, t, {}) /\ Alive(t, p)
      BY <2>1, <2>2, <2>3 DEF Keeps, Alive
    <2>5. Keeps(t, icb_hostaddr(t, p), {}) /\ Keeps(t, icb_ptr(t, p, status), {})
      BY <2>1, <2>3, <2>4, CallbackKeeps
    <2>6. \A u : Keeps(t, u, {}) => Keeps(s, u, Blamed(q, status))
      BY <2>4 DEF Keeps
    <2> QED BY <1>3, <2>5, <2>6 DEF adns__query_done, t, g
  <1> QED BY <1>2, <1>3

LEMMA FailKeeps ==
    ASSUME NEW s, NEW q \in Queries, Good(s, {q}), NEW status
    PROVE  Keeps(s, adns__query_fail(s, q, status), Blamed(q, status))
  <1> DEFINE c == cancel_children(s, q)
  <1>1. Good(c, {q})
    BY CancelChildrenExact
  <1>2. Keeps(s, c, {})
    BY GoneKeeps DEF cancel_children, Children, Good, Exact
  <1> HIDE DEF c
  <1>3. Keeps(c, adns__query_done(c, q, status), Blamed(q, status))
    BY <1>1, DoneKeeps
  <1>4. Keeps(s, adns__query_done(c, q, status), Blamed(q, status))
    BY <1>2, <1>3, KeepsMore
  <1> QED BY <1>4 DEF adns__query_fail, c

\* The ends that no server is to blame for.
LEMMA EndsKeep ==
    ASSUME NEW s, NEW q \in Queries, Good(s, {q})
    PROVE  /\ Keeps(s, adns__query_fail(s, q, "failed"), {})
           /\ Keeps(s, adns__query_done(s, q, "ok"), {})
  BY FailKeeps, DoneKeeps DEF Blamed

LEMMA OnlyTcpUdp ==
    ASSUME NEW s, NEW t, OnlyTcp(s, t), FitsUdp(s), ToSet(s.udpw) \cap ToSet(s.tcpw) = {}
    PROVE  FitsUdp(t)
  <1>1. t.udpw = s.udpw /\ ToSet(s.udpw) \subseteq Queries
    BY ToSetType, Fields1 DEF OnlyTcp, SameQueues
  <1> QED BY <1>1 DEF OnlyTcp, FitsUdp

LEMMA GoodApart ==
    ASSUME NEW s, NEW h, Good(s, h)
    PROVE  /\ ToSet(s.udpw) \cap ToSet(s.tcpw) = {}
           /\ \A q \in h : q \notin ToSet(s.udpw) /\ q \notin ToSet(s.tcpw)
           /\ ToSet(s.udpw) \subseteq Queries /\ ToSet(s.tcpw) \subseteq Queries
           /\ s \in AdnsStates /\ SentOk(s)
  <1>1. s.udpw \in Seq(Queries) /\ s.tcpw \in Seq(Queries) /\ s \in AdnsStates
        /\ h \subseteq Queries
    BY Fields1 DEF Good, Exact
  <1>2. ToSet(s.udpw) \subseteq Queries /\ ToSet(s.tcpw) \subseteq Queries
    BY <1>1, ToSetType
  <1> QED BY <1>1, <1>2 DEF Good, Exact, Placed

\* A step of the connection.
LEMMA OnlyTcpFits ==
    ASSUME NEW s, NEW t, NEW h, Good(s, h), OnlyTcp(s, t), Fits(s), FitsTcp(t)
    PROVE  Fits(t)
  BY GoodApart, OnlyTcpUdp DEF Fits

\* A query that was never counted goes to tcpw.
LEMMA UsetcpFits ==
    ASSUME NEW s, NEW h, NEW q \in Queries, q \notin h, Good(s, h \cup {q}), Fits(s),
           s.qu[q].retries = 0, NamesOk(s.qu[q]), Alive(s, q), NEW e \in Outcomes
    PROVE  Fits(query_usetcp(s, q, e)) /\ Keeps(s, query_usetcp(s, q, e), {})
  <1> DEFINE t == [s EXCEPT !.qu[q].state = "tcpw", !.tcpw = Append(@, q)]
             a == adns__querysend_tcp(t, q, e)
             b == adns__tcp_tryconnect(a, e)
  <1>1. /\ s \in AdnsStates /\ SentOk(s) /\ s.qu \in [Queries -> QueryRecords]
        /\ s.tcpw \in Seq(Queries) /\ s.udpw \in Seq(Queries) /\ s.tcpserver \in Servers
        /\ q \notin ToSet(s.udpw) /\ q \notin ToSet(s.tcpw)
        /\ ToSet(s.udpw) \cap ToSet(s.tcpw) = {}
        /\ ToSet(s.udpw) \subseteq Queries /\ ToSet(s.tcpw) \subseteq Queries
    <2>1. q \in h \cup {q}
      OBVIOUS
    <2>2. /\ s \in AdnsStates /\ SentOk(s)
          /\ q \notin ToSet(s.udpw) /\ q \notin ToSet(s.tcpw)
          /\ ToSet(s.udpw) \cap ToSet(s.tcpw) = {}
          /\ ToSet(s.udpw) \subseteq Queries /\ ToSet(s.tcpw) \subseteq Queries
      BY <2>1, GoodApart
    <2> QED BY <2>2, Fields1
  <1>2. /\ t \in AdnsStates
        /\ \A x \in Queries : x # q => t.qu[x] = s.qu[x]
        /\ t.qu[q].kind = s.qu[q].kind /\ t.qu[q].names = s.qu[q].names
        /\ t.qu[q].parent = s.qu[q].parent /\ t.qu[q].status = s.qu[q].status
        /\ t.qu[q].retries = 0
        /\ t.tcpw = Append(s.tcpw, q) /\ t.udpw = s.udpw
        /\ t.sent = s.sent /\ t.tcpstate = s.tcpstate /\ t.tcpserver = s.tcpserver
    <2> DEFINE r == [s.qu[q] EXCEPT !.state = "tcpw"]
               f == [s.qu EXCEPT ![q] = r]
    <2>4. r \in QueryRecords
      BY <1>1 DEF QueryRecords, States
    <2>5. /\ r.kind = s.qu[q].kind /\ r.names = s.qu[q].names
          /\ r.parent = s.qu[q].parent /\ r.status = s.qu[q].status
          /\ r.retries = s.qu[q].retries
      BY <1>1 DEF QueryRecords
    <2> HIDE DEF r
    <2>1. /\ f \in [Queries -> QueryRecords]
          /\ \A x \in Queries : x # q => f[x] = s.qu[x]
          /\ f[q].kind = s.qu[q].kind /\ f[q].names = s.qu[q].names
          /\ f[q].parent = s.qu[q].parent /\ f[q].status = s.qu[q].status
          /\ f[q].retries = s.qu[q].retries
      BY <1>1, <2>4, <2>5
    <2>2. Append(s.tcpw, q) \in Seq(Queries)
      BY <1>1, AppendType
    <2>3. t = [s EXCEPT !.qu = f, !.tcpw = Append(@, q)]
      BY DEF r
    <2> HIDE DEF f, t
    <2> QED BY <1>1, <2>1, <2>2, <2>3 DEF AdnsStates
  <1> HIDE DEF t
  <1>3. ToSet(t.tcpw) = ToSet(s.tcpw) \cup {q}
    BY <1>1, <1>2, AppendType
  <1>4. FitsUdp(t) /\ ToSet(t.udpw) \cap ToSet(t.tcpw) = {}
    BY <1>1, <1>2, <1>3 DEF Fits, FitsUdp
  <1>5. \A state : TcpOk(state, t.tcpserver, t.qu[q])
    <2> TAKE state
    <2>1. NamesOk(t.qu[q])
      BY <1>2 DEF NamesOk
    <2>2. t.qu[q].retries <= Limit(state)
      BY <1>2, AdnsAssumption DEF Limit
    <2>3. Failures(state, t.qu[q]) \in Int /\ Failures(state, t.qu[q]) < 1
      BY <1>2 DEF Failures
    <2>4. Covered(state, t.tcpserver, t.qu[q])
      BY <2>3, AdnsAssumption DEF Covered
    <2> QED BY <2>1, <2>2, <2>4 DEF TcpOk
  <1>6. \A x \in ToSet(s.tcpw) : TcpOk(t.tcpstate, t.tcpserver, t.qu[x])
    BY <1>1, <1>2 DEF Fits, FitsTcp
  <1>7. FitsTcp(t)
    BY <1>3, <1>5, <1>6 DEF FitsTcp
  <1>8. OnlyTcp(t, a) /\ SentOk(a) /\ FitsTcp(a)
    <2>1. CASE t.tcpstate = "ok"
      <3>1. <<q>> \in Seq(Queries) /\ ToSet(<<q>>) = {q}
        BY DEF ToSet
      <3>2. t.sent \cup ToSet(<<q>>) = ToSet(t.tcpw)
        BY <1>1, <1>2, <1>3, <2>1, <3>1 DEF SentOk
      <3>3. \A x \in ToSet(t.tcpw) :
              TcpOk(IF x \in ToSet(<<q>>) THEN "connecting" ELSE "ok", t.tcpserver, t.qu[x])
        BY <1>3, <1>5, <1>6, <2>1, <3>1
      <3> QED BY <1>2, <2>1, <3>1, <3>2, <3>3, WrittenOnly, WrittenFits DEF adns__querysend_tcp
    <2>2. CASE t.tcpstate # "ok"
      BY <1>1, <1>2, <1>7, <2>2 DEF adns__querysend_tcp, OnlyTcp, SameQueues, SameQuery, SentOk
    <2> QED BY <2>1, <2>2
  <1> HIDE DEF a
  <1>9. OnlyTcp(a, b) /\ FitsTcp(b)
    BY <1>8, TryconnectOnly, TryconnectFits DEF OnlyTcp
  <1> HIDE DEF b
  <1>10. OnlyTcp(t, b)
    BY <1>8, <1>9, OnlyTcpTrans
  <1>11. FitsUdp(b)
    BY <1>4, <1>10, OnlyTcpUdp
  <1>12. Keeps(s, b, {})
    <2>1. Keeps(s, t, {})
      BY <1>2 DEF Keeps, Alive
    <2> QED BY <1>10, <2>1, OnlyTcpKeeps, KeepsMore
  <1>13. query_usetcp(s, q, e) = b
    BY DEF query_usetcp, b, a, t
  <1> QED BY <1>9, <1>11, <1>12, <1>13 DEF Fits

\* A query in hand is sent, within its retries.
LEMMA SendKeptFits ==
    ASSUME NEW s, NEW h, NEW q \in Queries, q \notin h, Good(s, h \cup {q}), Fits(s),
           s.qu[q].state = "tosend", Children(s, q) = {}, NamesOk(s.qu[q]),
           s.qu[q].usevc => s.qu[q].retries = 0, NEW e \in Outcomes,
           s.qu[q].usevc \/ ~(s.qu[q].retries >= UDPMAXRETRIES)
    PROVE  Fits(adns__query_send(s, q, e)) /\ Keeps(s, adns__query_send(s, q, e), {})
  <1>1. /\ s \in AdnsStates /\ s.qu \in [Queries -> QueryRecords]
        /\ s.udpw \in Seq(Queries)
        /\ q \notin ToSet(s.udpw) /\ q \notin ToSet(s.tcpw)
        /\ ToSet(s.udpw) \subseteq Queries /\ ToSet(s.tcpw) \subseteq Queries
    <2>1. q \in h \cup {q}
      OBVIOUS
    <2>2. /\ s \in AdnsStates
          /\ q \notin ToSet(s.udpw) /\ q \notin ToSet(s.tcpw)
          /\ ToSet(s.udpw) \subseteq Queries /\ ToSet(s.tcpw) \subseteq Queries
      BY <2>1, GoodApart
    <2> QED BY <2>2, Fields1
  <1>2. s.qu[q].retries = 0 => Fits(query_usetcp(s, q, e)) /\ Keeps(s, query_usetcp(s, q, e), {})
    BY UsetcpFits DEF Alive
  <1>3. LET t == query_usetcp([s EXCEPT !.qu[q].retries = 0], q, e)
        IN  Fits(t) /\ Keeps(s, t, {})
    <2> DEFINE u == [s EXCEPT !.qu[q].retries = 0]
    <2>1. Edits(s, u, q) /\ u.qu[q].retries = 0 /\ u.qu[q].names = s.qu[q].names
          /\ u.qu[q].status = s.qu[q].status
      <3> DEFINE r == [s.qu[q] EXCEPT !.retries = 0]
                 f == [s.qu EXCEPT ![q] = r]
      <3>3. r \in QueryRecords /\ r.state = s.qu[q].state /\ r.kind = s.qu[q].kind
            /\ r.parent = s.qu[q].parent /\ r.retries = 0 /\ r.names = s.qu[q].names
            /\ r.status = s.qu[q].status
        BY <1>1 DEF QueryRecords
      <3> HIDE DEF r
      <3>1. f \in [Queries -> QueryRecords] /\ f[q] = r
            /\ (\A x \in Queries : x # q => f[x] = s.qu[x])
        BY <1>1, <3>3
      <3>2. u = [s EXCEPT !.qu = f]
        BY DEF r
      <3> HIDE DEF f, u
      <3> QED BY <1>1, <3>1, <3>2, <3>3 DEF Edits, AdnsStates, SameQueues
    <2> HIDE DEF u
    <2>2. Good(u, h \cup {q})
      BY <2>1, EditExact
    <2>3. Fits(u) /\ NamesOk(u.qu[q])
      BY <1>1, <2>1 DEF Edits, SameQueues, Fits, FitsUdp, FitsTcp, NamesOk
    <2>4. Keeps(s, u, {}) /\ Alive(u, q)
      BY <2>1 DEF Edits, Keeps, Alive
    <2>5. Fits(query_usetcp(u, q, e)) /\ Keeps(u, query_usetcp(u, q, e), {})
      BY <2>1, <2>2, <2>3, <2>4, UsetcpFits
    <2>6. Keeps(s, query_usetcp(u, q, e), {})
      BY <2>4, <2>5, KeepsMore
    <2> QED BY <2>5, <2>6 DEF u
  <1>4. ~s.qu[q].usevc => Fits(SentUdp(s, q)) /\ Keeps(s, SentUdp(s, q), {})
    <2> DEFINE t == SentUdp(s, q)
    <2> SUFFICES ASSUME ~s.qu[q].usevc PROVE Fits(t) /\ Keeps(s, t, {})
      OBVIOUS
    <2>1. /\ \A x \in Queries : x # q => t.qu[x] = s.qu[x]
          /\ t.qu[q].kind = s.qu[q].kind /\ t.qu[q].usevc = s.qu[q].usevc
          /\ t.qu[q].retries = s.qu[q].retries + 1 /\ t.qu[q].udpsent # {}
          /\ t.qu[q].names = s.qu[q].names /\ t.qu[q].state = s.qu[q].state
          /\ t.qu[q].parent = s.qu[q].parent /\ t.qu[q].status = s.qu[q].status
          /\ t.udpw = Append(s.udpw, q) /\ t.tcpw = s.tcpw
          /\ t.tcpstate = s.tcpstate /\ t.tcpserver = s.tcpserver
      BY <1>1, SentUdpFields
    <2> HIDE DEF t
    <2>2. ToSet(t.udpw) = ToSet(s.udpw) \cup {q}
      BY <1>1, <2>1, AppendType
    <2>3. t.qu[q].retries \in 1..UDPMAXRETRIES
      <3>1. s.qu[q].retries \in Nat /\ UDPMAXRETRIES \in Nat
        BY <1>1, AdnsAssumption DEF QueryRecords
      <3> QED BY <2>1, <3>1
    <2>4. UdpOk(t.qu[q])
      BY <2>1, <2>3 DEF UdpOk, NamesOk
    <2>5. Fits(t)
      BY <1>1, <2>1, <2>2, <2>4 DEF Fits, FitsUdp, FitsTcp
    <2>6. Keeps(s, t, {})
      BY <2>1 DEF Keeps, Alive
    <2> QED BY <2>5, <2>6
  <1>5. adns__query_send(s, q, e) =
          IF s.qu[q].usevc THEN query_usetcp(s, q, e)
          ELSE IF e.toobig THEN query_usetcp([s EXCEPT !.qu[q].retries = 0], q, e)
          ELSE SentUdp(s, q)
    BY DEF adns__query_send
  <1> QED BY <1>2, <1>3, <1>4, <1>5

\* The only query in hand is sent, or is out of retries and ends.
LEMMA SendFits ==
    ASSUME NEW s, NEW q \in Queries, Good(s, {q}), Fits(s),
           s.qu[q].state = "tosend", Children(s, q) = {}, NamesOk(s.qu[q]),
           s.qu[q].usevc => s.qu[q].retries = 0, NEW e \in Outcomes
    PROVE  Fits(adns__query_send(s, q, e)) /\ Keeps(s, adns__query_send(s, q, e), {})
  <1>1. CASE s.qu[q].usevc \/ ~(s.qu[q].retries >= UDPMAXRETRIES)
    <2>1. Good(s, {} \cup {q}) /\ q \notin {}
      OBVIOUS
    <2> QED BY <1>1, <2>1, SendKeptFits
  <1>2. CASE ~s.qu[q].usevc /\ s.qu[q].retries >= UDPMAXRETRIES
    <2>1. adns__query_send(s, q, e) = adns__query_fail(s, q, "failed")
      BY <1>2 DEF adns__query_send
    <2>2. Shrinks(s, adns__query_fail(s, q, "failed"))
      BY FailExact DEF Statuses
    <2> QED BY <2>1, <2>2, ShrinksFits, EndsKeep
  <1> QED BY <1>1, <1>2

LEMMA RestartFits ==
    ASSUME NEW s, NEW q \in Queries, Good(s, {q}), Fits(s), NamesOk(s.qu[q]), NEW e \in Outcomes
    PROVE  Fits(Restart(s, q, e)) /\ Keeps(s, Restart(s, q, e), {})
  <1> DEFINE c == cancel_children(s, q)
             t == Restarted(s, q)
  <1>1. Good(c, {q}) /\ Shrinks(s, c) /\ c.tcpstate = s.tcpstate /\ c.tcpserver = s.tcpserver
    BY CancelChildrenExact DEF Shrinks
  <1>2. /\ Good(t, {q}) /\ Children(t, q) = {}
        /\ t.qu[q].state = "tosend" /\ t.qu[q].retries = 0
        /\ t.qu[q].kind = s.qu[q].kind /\ t.qu[q].names = s.qu[q].names
        /\ t.qu[q].parent = s.qu[q].parent /\ t.qu[q].status = s.qu[q].status
        /\ \A x \in Queries : x # q => t.qu[x] = c.qu[x]
        /\ SameQueues(c, t)
        /\ t.tcpstate = s.tcpstate /\ t.tcpserver = s.tcpserver
    BY RestartedExact
  <1>10. Keeps(s, c, {}) /\ c.qu[q] = s.qu[q] /\ Alive(s, q)
    BY CancelChildrenExact, GoneKeeps DEF cancel_children, Children, Good, Exact, Alive
  <1> HIDE DEF c, t
  <1>3. Fits(c)
    BY <1>1, ShrinksFits
  <1>4. q \in {q}
    OBVIOUS
  <1>5. /\ q \notin ToSet(c.udpw) /\ q \notin ToSet(c.tcpw)
        /\ ToSet(c.udpw) \subseteq Queries /\ ToSet(c.tcpw) \subseteq Queries
    BY <1>1, <1>4, GoodApart
  <1>6. Fits(t)
    BY <1>1, <1>2, <1>3, <1>5 DEF Fits, FitsUdp, FitsTcp, SameQueues
  <1>7. NamesOk(t.qu[q])
    BY <1>2 DEF NamesOk
  <1>8. Fits(adns__query_send(t, q, e)) /\ Keeps(t, adns__query_send(t, q, e), {})
    BY <1>2, <1>6, <1>7, SendFits
  <1>9. Keeps(s, t, {})
    BY <1>2, <1>10 DEF Keeps, Alive
  <1> QED BY <1>8, <1>9, KeepsMore DEF Restart, Restarted, t, c

\* A change of the query in hand is none of those that wait.
LEMMA EditsFits ==
    ASSUME NEW s, NEW q \in Queries, NEW t, Edits(s, t, q), Good(s, {q}), Fits(s)
    PROVE  Fits(t)
  <1>1. q \in {q}
    OBVIOUS
  <1>2. /\ q \notin ToSet(s.udpw) /\ q \notin ToSet(s.tcpw)
        /\ ToSet(s.udpw) \subseteq Queries /\ ToSet(s.tcpw) \subseteq Queries
    BY <1>1, GoodApart
  <1> QED BY <1>2 DEF Edits, SameQueues, Fits, FitsUdp, FitsTcp

\* The next name, for a query that waited for UDP.
LEMMA SearchNextFits ==
    ASSUME NEW s, NEW q \in Queries, Good(s, {q}), Fits(s), Children(s, q) = {},
           s.qu[q].state = "tosend" => ~s.qu[q].usevc \/ s.qu[q].retries = 0, NEW e \in Outcomes
    PROVE  LET t == adns__search_next(s, q, e)
           IN  /\ Fits(t) \/ (t.abort /\ s.qu[q].state # "tosend")
               /\ Keeps(s, t, {})
  <1> DEFINE u == [s EXCEPT !.qu[q].names = @ - 1]
  <1>1. CASE s.qu[q].names = 0
    <2>1. Shrinks(s, adns__query_fail(s, q, "failed"))
      BY FailExact DEF Statuses
    <2> QED BY <1>1, <2>1, ShrinksFits, EndsKeep DEF adns__search_next
  <1>2. CASE s.qu[q].names # 0
    <2>1. s \in AdnsStates /\ s.qu \in [Queries -> QueryRecords]
      BY Fields1 DEF Good, Exact
    <2>2. /\ Edits(s, u, q) /\ u.qu[q].usevc = s.qu[q].usevc
          /\ u.qu[q].retries = s.qu[q].retries /\ NamesOk(u.qu[q])
          /\ u.qu[q].status = s.qu[q].status
      <3> DEFINE n == s.qu[q].names - 1
                 r == [s.qu[q] EXCEPT !.names = n]
                 f == [s.qu EXCEPT ![q] = r]
      <3>1. n \in 0..SearchNames /\ n < SearchNames
        BY <1>2, <2>1, AdnsAssumption DEF QueryRecords
      <3>2. u = [s EXCEPT !.qu = f]
        OBVIOUS
      <3> HIDE DEF n
      <3>3. r \in QueryRecords /\ r.state = s.qu[q].state /\ r.kind = s.qu[q].kind
            /\ r.parent = s.qu[q].parent /\ r.names = n
            /\ r.usevc = s.qu[q].usevc /\ r.retries = s.qu[q].retries
            /\ r.status = s.qu[q].status
        BY <2>1, <3>1 DEF QueryRecords
      <3> HIDE DEF r
      <3>4. f \in [Queries -> QueryRecords] /\ f[q] = r
            /\ (\A x \in Queries : x # q => f[x] = s.qu[x])
        BY <2>1, <3>3
      <3> HIDE DEF f, u
      <3> QED BY <2>1, <3>1, <3>2, <3>3, <3>4 DEF Edits, AdnsStates, SameQueues, NamesOk
    <2> HIDE DEF u
    <2>3. Good(u, {q}) /\ Children(u, q) = {} /\ u.qu[q].state = s.qu[q].state
      BY <2>2, EditExact DEF Edits
    <2>4. Fits(u)
      BY <2>2, EditsFits
    <2>5. adns__search_next(s, q, e) = adns__query_send(u, q, e)
      BY <1>2 DEF adns__search_next, u
    <2>6. Keeps(s, u, {})
      BY <2>2 DEF Edits, Keeps, Alive
    <2>8. CASE s.qu[q].state = "tosend"
      <3>1. Fits(adns__query_send(u, q, e)) /\ Keeps(u, adns__query_send(u, q, e), {})
        BY <2>2, <2>3, <2>4, <2>8, SendFits
      <3> QED BY <2>5, <2>6, <3>1, KeepsMore
    <2>9. CASE s.qu[q].state # "tosend"
      <3>1. adns__query_send(u, q, e) = Abort(u)
        BY <2>3, <2>9 DEF adns__query_send
      <3>2. Aborted(u, Abort(u))
        BY <2>3, AbortExact DEF Good, Exact
      <3>3. Keeps(u, Abort(u), {})
        BY <2>3, KeepsSame DEF Abort, Good, Exact, AdnsStates
      <3> QED BY <2>5, <2>6, <2>9, <3>1, <3>2, <3>3, KeepsMore DEF Aborted
    <2> QED BY <2>8, <2>9
  <1> QED BY <1>1, <1>2

LEMMA ProcdgramFits ==
    ASSUME NEW s, NEW q \in Queries, Good(s, {}), q \in ToSet(s.udpw) \cup ToSet(s.tcpw),
           Fits(s), NEW r \in Replies, NEW e \in Outcomes
    PROVE  LET t == adns__procdgram(s, q, r, e)
           IN  (Fits(t) \/ t.abort) /\ Keeps(s, t, {})
  <1> DEFINE m == Matched(s, q)
             t == [m EXCEPT !.qu[q].cname = @ \/ r.alias]
             u == [t EXCEPT !.qu[q].usevc = TRUE]
  <1>1. Good(m, {q}) /\ Children(m, q) = {} /\ Shrinks(s, m) /\ m.qu = s.qu
    BY MatchedExact
  <1> HIDE DEF m
  <1>2. Fits(m) /\ m \in AdnsStates
    BY <1>1, ShrinksFits DEF Good, Exact
  <1>3. NamesOk(s.qu[q])
    BY DEF Fits, FitsUdp, FitsTcp, UdpOk, TcpOk
  <1>4. s.qu[q].state = "tosend" => ~s.qu[q].usevc
    BY DEF Good, Exact, Placed, Fits, FitsUdp, UdpOk
  <1>5. Edits(m, t, q) /\ t.qu[q].names = s.qu[q].names /\ t.qu[q].usevc = s.qu[q].usevc
        /\ t.qu[q].status = s.qu[q].status
    BY <1>1, <1>2, AliasExact
  <1> HIDE DEF t
  <1>6. Good(t, {q}) /\ Children(t, q) = {} /\ Fits(t) /\ t \in AdnsStates
        /\ t.qu[q].state = s.qu[q].state /\ t.qu[q].kind = s.qu[q].kind
    BY <1>1, <1>2, <1>5, EditExact, EditsFits DEF Edits
  <1>7. Edits(t, u, q) /\ u.qu[q].names = s.qu[q].names /\ u.qu[q].status = s.qu[q].status
    BY <1>5, <1>6, UsevcExact
  <1> HIDE DEF u
  <1>8. Good(u, {q}) /\ Fits(u) /\ u.qu[q].kind = s.qu[q].kind
    BY <1>6, <1>7, EditExact, EditsFits DEF Edits
  <1>9. NamesOk(t.qu[q]) /\ NamesOk(u.qu[q])
    BY <1>3, <1>5, <1>6, <1>7, <1>8 DEF NamesOk
  <1>10. Keeps(s, m, {}) /\ Keeps(s, t, {}) /\ Keeps(s, u, {})
    BY <1>1, <1>5, <1>7, KeepsSame DEF Edits, Keeps, Alive
  <1> DEFINE Fine(w) == (Fits(w) \/ w.abort) /\ Keeps(s, w, {})
  <1>11. ASSUME NEW v, Keeps(s, v, {}), NEW w, Fits(w) \/ w.abort, Keeps(v, w, {})
         PROVE  Fine(w)
    BY <1>11, KeepsMore
  <1>12. Fine(adns__query_fail(m, q, "failed")) /\ Fine(adns__query_fail(t, q, "failed"))
    <2>1. Shrinks(m, adns__query_fail(m, q, "failed")) /\ Shrinks(t, adns__query_fail(t, q, "failed"))
      BY <1>1, <1>6, FailExact DEF Statuses
    <2>2. Fits(adns__query_fail(m, q, "failed")) /\ Fits(adns__query_fail(t, q, "failed"))
      BY <1>2, <1>6, <2>1, ShrinksFits
    <2> QED BY <1>1, <1>6, <1>10, <1>11, <2>2, EndsKeep
  <1>13. Fine(adns__query_done(t, q, "ok"))
    <2>1. Shrinks(t, adns__query_done(t, q, "ok"))
      BY <1>6, DoneExact DEF Statuses
    <2>2. Fits(adns__query_done(t, q, "ok"))
      BY <1>6, <2>1, ShrinksFits
    <2> QED BY <1>6, <1>10, <1>11, <2>2, EndsKeep
  <1>14. Fine(Restart(t, q, e)) /\ Fine(Restart(u, q, e))
    BY <1>6, <1>8, <1>9, <1>10, <1>11, RestartFits
  <1>15. Fine(adns__search_next(t, q, e))
    BY <1>4, <1>5, <1>6, <1>10, <1>11, SearchNextFits
  <1>16. Fine(t)
    BY <1>6, <1>10
  <1>17. adns__procdgram(s, q, r, e) \in
            {adns__query_fail(m, q, "failed"), adns__query_fail(t, q, "failed"), t,
             adns__query_done(t, q, "ok"), Restart(t, q, e), Restart(u, q, e),
             adns__search_next(t, q, e)}
    <2>1. r.says \in {"error", "nxdomain", "nodata", "referral", "truncated", "answer"}
      BY DEF Replies
    <2> QED BY <2>1 DEF adns__procdgram, t, m, u
  <1> HIDE DEF Fine
  <1>18. Fine(adns__procdgram(s, q, r, e))
    BY <1>12, <1>13, <1>14, <1>15, <1>16, <1>17
  <1> QED BY <1>18 DEF Fine

-----------------------------------------------------------------------------
(***************************************************************************)
(* The steps.                                                               *)
(***************************************************************************)

\* A step leaves no query that waits beyond its retries, and makes none of t.
Steady(t, b) == (Fits(ads') \/ ads'.abort) /\ Keeps(t, ads', b)

LEMMA SteadyTcp ==
    ASSUME Good(ads, {}), Fits(ads), OnlyTcp(ads, ads'), FitsTcp(ads')
    PROVE  Steady(ads, {})
  BY OnlyTcpFits, OnlyTcpKeeps DEF Steady

LEMMA SteadyStay ==
    ASSUME Fits(ads), ads' = ads
    PROVE  Steady(ads, {})
  BY KeepsSame DEF Steady

LEMMA FailFits ==
    ASSUME NEW q \in Queries, q \in ToSet(ads.tcpw), Good(ads, {}), Fits(ads),
           NEW status \in Statuses, ads' = adns__query_fail(Matched(ads, q), q, status)
    PROVE  /\ Steady(ads, Blamed(q, status)) /\ Shrinks(ads, ads')
           /\ q \notin ToSet(ads'.tcpw)
  <1> DEFINE t == Matched(ads, q)
  <1>1. Good(t, {q}) /\ Shrinks(ads, t) /\ t.qu = ads.qu
    BY MatchedExact
  <1> HIDE DEF t
  <1>2. ads' = adns__query_fail(t, q, status)
    BY DEF t
  <1>3. Shrinks(t, ads') /\ Keeps(t, ads', Blamed(q, status))
    BY <1>1, <1>2, FailExact, FailKeeps
  <1>4. Shrinks(ads, ads') /\ Keeps(ads, ads', Blamed(q, status))
    BY <1>1, <1>3, ShrinksTrans, KeepsSame, KeepsMore
  <1>5. q \in {q}
    OBVIOUS
  <1>6. q \notin ToSet(t.tcpw)
    BY <1>1, <1>5, GoodApart
  <1> QED BY <1>3, <1>4, <1>6, ShrinksFits DEF Steady, Shrinks

\* In the loop of "case server_broken", the queries before the one that is next
\* were few times retried.
Checked ==
    pc = "broken" => \A q \in ToSet(ads.tcpw) :
        cur = None \/ Before(ads.tcpw, q, cur) => ads.qu[q].retries <= nservers

LEMMA TimeoutsFit ==
    ASSUME QInv, InBroken, ~ads.abort, Fits(ads), Checked,
           TimeoutUdp \/ TimeoutTcp \/ Broken \/ BrokenEnd
             \/ Reconnect \/ ConnectTimeout \/ EventsEnd
    PROVE  Steady(ads, {})
  <1>1. ads \in AdnsStates /\ SentOk(ads) /\ Good(ads, {})
        /\ ads.udpw \in Seq(Queries) /\ ads.tcpw \in Seq(Queries)
        /\ ads.qu \in [Queries -> QueryRecords]
    <2>1. pc # "parse"
      BY DEF TimeoutUdp, TimeoutTcp, Broken, BrokenEnd, Reconnect, ConnectTimeout, EventsEnd, Events
    <2> QED BY <2>1, Fields1 DEF QInv, Hand
  <1>2. CASE TimeoutUdp
    <2>1. PICK q \in Queries :
            /\ FirstLate(ads.udpw, q)
            /\ \E e \in Outcomes : ads' = adns__query_send([ads EXCEPT !.udpw = Off(@, {q})], q, e)
      BY <1>2 DEF TimeoutUdp
    <2>2. PICK e \in Outcomes : ads' = adns__query_send([ads EXCEPT !.udpw = Off(@, {q})], q, e)
      BY <2>1
    <2> DEFINE t == [ads EXCEPT !.udpw = Off(@, {q})]
    <2>3. q \in ToSet(ads.udpw)
      BY <1>1, <2>1, FirstLateOn
    <2>4. Good(t, {q}) /\ Children(t, q) = {} /\ Shrinks(ads, t) /\ t.qu = ads.qu
      BY <1>1, <2>3, LateExact
    <2> HIDE DEF t
    <2>5. ads' = adns__query_send(t, q, e)
      BY <2>2 DEF t
    <2>6. t.qu[q].state = "tosend" /\ NamesOk(t.qu[q]) /\ ~t.qu[q].usevc
      BY <1>1, <2>3, <2>4 DEF Good, Exact, Placed, Fits, FitsUdp, UdpOk
    <2>7. Fits(t) /\ Keeps(ads, t, {})
      BY <2>4, ShrinksFits, KeepsSame
    <2>8. Fits(ads') /\ Keeps(t, ads', {})
      BY <2>4, <2>5, <2>6, <2>7, SendFits
    <2> QED BY <2>7, <2>8, KeepsMore DEF Steady
  <1>3. CASE TimeoutTcp
    <2>1. PICK q \in Queries :
            FirstLate(ads.tcpw, q) /\ ads' = adns__query_fail(Matched(ads, q), q, "failed")
      BY <1>3 DEF TimeoutTcp
    <2>2. q \in ToSet(ads.tcpw) /\ Blamed(q, "failed") = {}
      BY <1>1, <2>1, FirstLateOn DEF Blamed
    <2>3. Steady(ads, Blamed(q, "failed"))
      BY <1>1, <2>1, <2>2, FailFits DEF Statuses
    <2> QED BY <2>2, <2>3
  <1>4. CASE Broken
    BY <1>4, SteadyStay DEF Broken
  <1>5. ASSUME ads' \in AdnsStates, ads'.qu = ads.qu, SameQueues(ads, ads'), FitsTcp(ads')
        PROVE  Steady(ads, {})
    BY <1>1, <1>5, TcpFields, SteadyTcp
  <1>6. CASE BrokenEnd
    <2>1. ads' = [ads EXCEPT !.tcpstate = "disconnected"] /\ ads.tcpstate = "broken"
          /\ pc = "broken" /\ cur = None
      BY <1>6 DEF BrokenEnd, InBroken
    <2>2. /\ ads' \in AdnsStates /\ ads'.qu = ads.qu /\ SameQueues(ads, ads')
          /\ ads'.tcpserver = ads.tcpserver /\ ads'.tcpstate = "disconnected"
          /\ ads'.tcpw = ads.tcpw
      BY <1>1, <2>1 DEF AdnsStates, SameQueues
    <2>3. ASSUME NEW q \in ToSet(ads.tcpw)
          PROVE  TcpOk("disconnected", ads.tcpserver, ads.qu[q])
      <3>1. ads.qu[q].retries <= nservers
        BY <2>1 DEF Checked
      <3>2. TcpOk("broken", ads.tcpserver, ads.qu[q])
        BY <2>1 DEF Fits, FitsTcp
      <3> QED BY <3>1, <3>2 DEF TcpOk, Limit, Covered, Failures
    <2>4. FitsTcp(ads')
      BY <2>2, <2>3 DEF FitsTcp
    <2> QED BY <1>5, <2>2, <2>4
  <1>7. CASE Reconnect
    <2>1. PICK e \in Outcomes : ads' = adns__tcp_tryconnect(ads, e)
      BY <1>7 DEF Reconnect
    <2>2. OnlyTcp(ads, ads') /\ FitsTcp(ads')
      BY <1>1, <2>1, TryconnectOnly, TryconnectFits DEF Fits
    <2> QED BY <1>1, <2>2, SteadyTcp
  <1>8. CASE ConnectTimeout
    <2>1. ads' = adns__tcp_broken(ads) /\ ads.tcpstate = "connecting"
      BY <1>8 DEF ConnectTimeout, Events
    <2>2. OnlyTcp(ads, ads') /\ FitsTcp(ads')
      BY <1>1, <2>1, BrokenOnly, BrokenFits DEF Fits
    <2> QED BY <1>1, <2>2, SteadyTcp
  <1>9. CASE EventsEnd
    <2>1. \/ ads' = ads
          \/ ads.tcpstate = "ok" /\ ads' = [ads EXCEPT !.tcptimeout = "set"]
          \/ ads.tcpw = <<>> /\ ads' = [tcp_close(ads) EXCEPT !.tcpstate = "disconnected"]
      BY <1>9 DEF EventsEnd, Events
    <2>2. CASE ads' = [ads EXCEPT !.tcptimeout = "set"]
      <3>1. ads' \in AdnsStates /\ ads'.qu = ads.qu /\ SameQueues(ads, ads')
            /\ ads'.tcpstate = ads.tcpstate /\ ads'.tcpserver = ads.tcpserver
        BY <1>1, <2>2 DEF AdnsStates, SameQueues
      <3>2. FitsTcp(ads')
        BY <3>1 DEF Fits, FitsTcp, SameQueues
      <3> QED BY <1>5, <3>1, <3>2
    <2>3. CASE ads.tcpw = <<>> /\ ads' = [tcp_close(ads) EXCEPT !.tcpstate = "disconnected"]
      <3>1. ads' \in AdnsStates /\ ads'.qu = ads.qu /\ SameQueues(ads, ads') /\ ads'.tcpw = <<>>
        BY <1>1, <2>3 DEF AdnsStates, SameQueues, tcp_close
      <3>2. ToSet(ads'.tcpw) = {}
        BY <3>1 DEF ToSet
      <3>3. FitsTcp(ads')
        BY <3>2 DEF FitsTcp
      <3> QED BY <1>5, <3>1, <3>3
    <2> QED BY <2>1, <2>2, <2>3, SteadyStay
  <1> QED BY <1>2, <1>3, <1>4, <1>6, <1>7, <1>8, <1>9

LEMMA ReplyFits ==
    ASSUME Good(ads, {}), Fits(ads), NEW q \in Queries,
           q \in ToSet(ads.udpw) \cup ToSet(ads.tcpw), NEW r \in Replies, Reply(q, r)
    PROVE  Steady(ads, {})
  <1>1. PICK e \in IF Resends(r) THEN Outcomes ELSE {Quiet} : ads' = adns__procdgram(ads, q, r, e)
    BY DEF Reply
  <1>2. e \in Outcomes
    BY <1>1 DEF Outcomes
  <1>3. (Fits(ads') \/ ads'.abort) /\ Keeps(ads, ads', {})
    BY <1>1, <1>2, ProcdgramFits
  <1> QED BY <1>3 DEF Steady

LEMMA EventsFit ==
    ASSUME QInv, ~ads.abort, Fits(ads),
           UdpReply \/ TcpReply \/ UdpEnd \/ TcpReadEnd \/ TcpWrite \/ TcpExcept
    PROVE  Steady(ads, {})
  <1>1. pc = "fds" /\ ads \in AdnsStates /\ SentOk(ads) /\ Good(ads, {})
        /\ ads.udpw \in Seq(Queries) /\ ads.tcpw \in Seq(Queries)
    <2>1. pc = "fds"
      BY DEF UdpReply, TcpReply, UdpEnd, TcpReadEnd, TcpWrite, TcpExcept, Turn
    <2> QED BY <2>1, Fields1 DEF QInv, Hand
  <1>2. CASE UdpReply
    <2>1. PICK q \in ToSet(ads.udpw) : \E r \in Replies : Reply(q, r)
      BY <1>2 DEF UdpReply
    <2>2. q \in Queries
      BY <1>1, ToSetType
    <2> QED BY <1>1, <2>1, <2>2, ReplyFits
  <1>3. CASE TcpReply
    <2>1. PICK q \in ToSet(ads.tcpw) : \E r \in Replies : Reply(q, r)
      BY <1>3 DEF TcpReply
    <2>2. q \in Queries
      BY <1>1, ToSetType
    <2> QED BY <1>1, <2>1, <2>2, ReplyFits
  <1>4. CASE UdpEnd \/ TcpReadEnd \/ TcpWrite \/ TcpExcept
    <2>1. CASE ads.tcpstate \in {"connecting", "ok"} /\ ads' = adns__tcp_broken(ads)
      <3>1. OnlyTcp(ads, ads') /\ FitsTcp(ads')
        BY <1>1, <2>1, BrokenOnly, BrokenFits DEF Fits
      <3> QED BY <1>1, <3>1, SteadyTcp
    <2>2. CASE ads' = ads
      BY <2>2, SteadyStay
    <2>3. CASE ads' \in Lacking(ads)
      <3>1. CASE ads' = Abort(ads)
        <4>1. ads'.abort /\ ads'.qu = ads.qu
          BY <1>1, <3>1 DEF Abort, AdnsStates
        <4> QED BY <4>1, KeepsSame DEF Steady
      <3>2. \/ ads' = Abort(ads) \/ ads' = ads
            \/ ads.tcpstate \in {"connecting", "ok"} /\ ads' = adns__tcp_broken(ads)
        BY <2>3 DEF Lacking, adns_globalsystemfailure
      <3> QED BY <2>1, <2>2, <3>1, <3>2
    <2>4. CASE ads.tcpstate = "connecting" /\ \E e \in Outcomes : ads' = tcp_connected(ads, e)
      <3>1. OnlyTcp(ads, ads') /\ FitsTcp(ads')
        BY <1>1, <2>4, ConnectedOnly, ConnectedFits DEF Fits
      <3> QED BY <1>1, <3>1, SteadyTcp
    <2>5. CASE ads' = [ads EXCEPT !.tcpsend = FALSE]
      <3>1. /\ ads'.qu = ads.qu /\ ads'.tcpw = ads.tcpw /\ ads'.udpw = ads.udpw
            /\ ads'.tcpstate = ads.tcpstate /\ ads'.tcpserver = ads.tcpserver
        BY <1>1, <2>5 DEF AdnsStates
      <3>2. Fits(ads')
        BY <3>1 DEF Fits, FitsUdp, FitsTcp
      <3> QED BY <3>1, <3>2, KeepsSame DEF Steady
    <2> QED BY <1>4, <2>1, <2>2, <2>3, <2>4, <2>5
            DEF UdpEnd, TcpReadEnd, TcpWrite, TcpExcept
  <1> QED BY <1>2, <1>3, <1>4

LEMMA ClockFits ==
    ASSUME NEW s, Good(s, {}), Fits(s), NEW c, Clock(s, c)
    PROVE  Fits(ads') /\ Keeps(s, ads', {})
  <1>1. ads' \in {[s EXCEPT !.tcptimeout = "due"], s} /\ s \in AdnsStates
    BY DEF Clock, Good, Exact
  <1>2. /\ ads'.qu = s.qu /\ ads'.udpw = s.udpw /\ ads'.tcpw = s.tcpw
        /\ ads'.tcpstate = s.tcpstate /\ ads'.tcpserver = s.tcpserver
    BY <1>1 DEF AdnsStates
  <1> QED BY <1>2, KeepsSame DEF Fits, FitsUdp, FitsTcp

\* Queries that leave change nothing for the others.
LEMMA GoneFits ==
    ASSUME NEW s, Good(s, {}), Fits(s), NEW gone \in SUBSET Queries
    PROVE  Fits(Gone(s, gone)) /\ Keeps(s, Gone(s, gone), {})
  <1> DEFINE t == Gone(s, gone)
  <1>1. /\ s \in AdnsStates /\ s.udpw \in Seq(Queries) /\ s.tcpw \in Seq(Queries)
        /\ IsInjective(s.udpw) /\ IsInjective(s.tcpw)
    BY Fields1 DEF Good, Exact, Placed
  <1>2. /\ \A q \in Queries : t.qu[q] = IF q \in gone THEN Freed ELSE s.qu[q]
        /\ t.udpw = Off(s.udpw, gone) /\ t.tcpw = Off(s.tcpw, gone)
        /\ t.tcpstate = s.tcpstate /\ t.tcpserver = s.tcpserver
    BY <1>1, GoneFields
  <1>3. Keeps(s, t, {})
    BY <1>1, GoneKeeps
  <1> HIDE DEF t
  <1>4. ToSet(t.udpw) = ToSet(s.udpw) \ gone /\ ToSet(t.tcpw) = ToSet(s.tcpw) \ gone
    BY <1>1, <1>2, OffPlaced
  <1>5. ToSet(s.udpw) \subseteq Queries /\ ToSet(s.tcpw) \subseteq Queries
    BY <1>1, ToSetType
  <1> QED BY <1>2, <1>3, <1>4, <1>5 DEF Fits, FitsUdp, FitsTcp, t

\* The resolver with one query more, whose parent is the one being parsed or none.
Born(t, q) ==
    \E kind \in Kinds \cup {"addr"}, p \in {None} \cup Queries :
        /\ ads.qu[q].state = "free" /\ t = [ads EXCEPT !.qu[q] = Virgin(kind, p)]
        /\ p # None => /\ pc = "parse" /\ p = cur /\ kind = "addr"
                       /\ ads.qu[p].kind \in {"hostaddr", "ptr"}
                       /\ Cardinality(Children(ads, cur)) < MaxKids

Births == \E q \in Queries : \E t : Born(t, q) /\ Steady(t, {})

LEMMA BornExact ==
    ASSUME QInv, ~ads.abort, Fits(ads), NEW q \in Queries, NEW t, Born(t, q)
    PROVE  /\ Good(t, Hand \cup {q}) /\ Children(t, q) = {} /\ q \notin Hand
           /\ t.qu[q].state = "tosend" /\ t.qu[q].retries = 0 /\ ~t.qu[q].usevc
           /\ t.qu[q].status = "ok" /\ (t.qu[q].kind # "search" => NamesOk(t.qu[q]))
           /\ \A x \in Queries : x # q => t.qu[x] = ads.qu[x]
           /\ t.qu[q].parent # None =>
                /\ pc = "parse" /\ t.qu[q].parent = cur
                /\ Cardinality(Children(ads, cur)) < MaxKids
           /\ Fits(t)
  <1>1. PICK kind \in Kinds \cup {"addr"}, p \in {None} \cup Queries :
          /\ ads.qu[q].state = "free" /\ t = [ads EXCEPT !.qu[q] = Virgin(kind, p)]
          /\ p # None => /\ pc = "parse" /\ p = cur /\ kind = "addr"
                         /\ ads.qu[p].kind \in {"hostaddr", "ptr"}
                         /\ Cardinality(Children(ads, cur)) < MaxKids
    BY DEF Born
  <1>2. Good(ads, Hand) /\ (p # None => p \in Hand)
    BY <1>1 DEF QInv, Hand
  <1>3. /\ Good(t, Hand \cup {q}) /\ Children(t, q) = {} /\ q \notin Hand
        /\ t.qu[q].state = "tosend" /\ t.qu[q] = Virgin(kind, p) /\ t.qu[q].parent = p
        /\ \A x \in Queries : x # q => t.qu[x] = ads.qu[x]
        /\ SameQueues(ads, t) /\ t.tcpstate = ads.tcpstate /\ t.tcpserver = ads.tcpserver
    <2>1. p # None => p \in Hand /\ kind = "addr" /\ ads.qu[p].kind \in {"hostaddr", "ptr"}
      BY <1>1, <1>2
    <2>2. Good(ads, Hand) /\ ads.qu[q].state = "free" /\ t = [ads EXCEPT !.qu[q] = Virgin(kind, p)]
      BY <1>1, <1>2
    <2> HIDE DEF Born
    <2> QED BY <2>1, <2>2, NewExact
  <1>4. /\ t.qu[q].status = "ok" /\ t.qu[q].retries = 0 /\ ~t.qu[q].usevc
    BY <1>3 DEF Virgin
  <1>5. q \in Hand \cup {q}
    OBVIOUS
  <1>6. Fits(t)
    <2>1. /\ q \notin ToSet(t.udpw) /\ q \notin ToSet(t.tcpw)
          /\ ToSet(t.udpw) \subseteq Queries /\ ToSet(t.tcpw) \subseteq Queries
      BY <1>3, <1>5, GoodApart
    <2> QED BY <1>3, <2>1 DEF Fits, FitsUdp, FitsTcp, SameQueues
  <1>7. t.qu[q].kind # "search" => NamesOk(t.qu[q])
    BY DEF NamesOk
  <1> QED BY <1>1, <1>3, <1>4, <1>6, <1>7

LEMMA SubmitFits ==
    ASSUME QInv, ~ads.abort, Fits(ads), NEW kind \in Kinds, Submit(kind)
    PROVE  Births
  <1>1. pc = "idle" /\ Hand = {}
    BY DEF Submit, Accepts, Hand
  <1> DEFINE t(q) == [ads EXCEPT !.qu[q] = Virgin(kind, None)]
             u(q, e) == IF kind = "search" THEN adns__search_next(t(q), q, e)
                        ELSE adns__query_send(t(q), q, e)
  <1>2. PICK q \in Queries, e \in Outcomes : NewSlot(q) /\ Clock(u(q, e), "processany")
    BY DEF Submit
  <1>3. Born(t(q), q)
    BY <1>2 DEF Born, NewSlot
  <1>4. t(q).qu[q].kind = kind
    <2>1. ads.qu \in [Queries -> QueryRecords] /\ ads \in AdnsStates
      BY Fields1 DEF QInv
    <2>2. Virgin(kind, None).kind = kind
      BY DEF Virgin
    <2> HIDE DEF Virgin
    <2> QED BY <2>1, <2>2 DEF AdnsStates
  <1> HIDE DEF t
  <1>5. /\ Good(t(q), {} \cup {q}) /\ Children(t(q), q) = {} /\ q \notin {}
        /\ t(q).qu[q].state = "tosend" /\ t(q).qu[q].retries = 0 /\ ~t(q).qu[q].usevc
        /\ (t(q).qu[q].kind # "search" => NamesOk(t(q).qu[q]))
        /\ Fits(t(q))
    BY <1>1, <1>3, BornExact
  <1>6. ~(t(q).qu[q].retries >= UDPMAXRETRIES)
    BY <1>5, AdnsAssumption
  <1>7. Good(u(q, e), {}) /\ Fits(u(q, e)) /\ Keeps(t(q), u(q, e), {})
    <2>1. CASE kind # "search"
      <3>1. u(q, e) = adns__query_send(t(q), q, e)
        BY <2>1
      <3> HIDE DEF u
      <3>2. Good(u(q, e), {})
        BY <1>5, <1>6, <3>1, SendKept
      <3>3. Fits(u(q, e)) /\ Keeps(t(q), u(q, e), {})
        BY <1>4, <1>5, <1>6, <2>1, <3>1, SendKeptFits
      <3> QED BY <3>2, <3>3
    <2>2. CASE kind = "search"
      <3>1. u(q, e) = adns__search_next(t(q), q, e)
        BY <2>2
      <3> HIDE DEF u
      <3>2. Good(t(q), {q})
        BY <1>5
      <3>3. Good(u(q, e), {})
        BY <1>5, <3>1, <3>2, SearchNextExact
      <3>4. Fits(u(q, e)) /\ Keeps(t(q), u(q, e), {})
        BY <1>5, <3>1, <3>2, SearchNextFits
      <3> QED BY <3>3, <3>4
    <2> QED BY <2>1, <2>2
  <1> HIDE DEF u
  <1>8. Fits(ads') /\ Keeps(u(q, e), ads', {})
    BY <1>2, <1>7, ClockFits
  <1>9. Keeps(t(q), ads', {})
    BY <1>7, <1>8, KeepsMore
  <1> QED BY <1>3, <1>8, <1>9 DEF Births, Steady

LEMMA SubmitBadFits ==
    ASSUME QInv, ~ads.abort, Fits(ads), SubmitBad
    PROVE  Births
  <1>1. pc = "idle" /\ Hand = {}
    BY DEF SubmitBad, Accepts, Hand
  <1> DEFINE t(q) == [ads EXCEPT !.qu[q] = Virgin("addr", None)]
             s(q) == adns__query_fail(t(q), q, "failed")
  <1>2. PICK q \in Queries : NewSlot(q) /\ (Clock(s(q), "processany") \/ ads' = s(q))
    BY DEF SubmitBad
  <1>3. Born(t(q), q)
    BY <1>2 DEF Born, NewSlot
  <1> HIDE DEF t
  <1>4. Good(t(q), {} \cup {q}) /\ Fits(t(q))
    BY <1>1, <1>3, BornExact
  <1>5. Good(t(q), {q})
    BY <1>4
  <1>6. Good(s(q), {}) /\ Shrinks(t(q), s(q)) /\ Keeps(t(q), s(q), {})
    BY <1>5, FailExact, EndsKeep DEF Statuses
  <1>7. Fits(s(q))
    BY <1>4, <1>6, ShrinksFits
  <1> HIDE DEF s
  <1>8. Fits(ads') /\ Keeps(t(q), ads', {})
    <2>1. CASE Clock(s(q), "processany")
      <3>1. Fits(ads') /\ Keeps(s(q), ads', {})
        BY <2>1, <1>6, <1>7, ClockFits
      <3> QED BY <1>6, <3>1, KeepsMore
    <2>2. CASE ads' = s(q)
      BY <1>6, <1>7, <2>2
    <2> QED BY <1>2, <2>1, <2>2
  <1> QED BY <1>3, <1>8 DEF Births, Steady

LEMMA NewChildFits ==
    ASSUME QInv, ~ads.abort, Fits(ads), NEW kind \in {"hostaddr", "ptr"}, NewChild(kind)
    PROVE  Births
  <1>1. pc = "parse" /\ Hand = {cur} /\ ads.qu[cur].kind = kind /\ cur \in Queries
        /\ Cardinality(Children(ads, cur)) < MaxKids
    BY DEF NewChild, QInv, Hand, Good, Exact
  <1> DEFINE t(c) == [ads EXCEPT !.qu[c] = Virgin("addr", cur)]
  <1>2. PICK c \in Queries, e \in Outcomes : NewSlot(c) /\ ads' = adns__query_send(t(c), c, e)
    BY DEF NewChild
  <1>3. Born(t(c), c)
    BY <1>1, <1>2 DEF Born, NewSlot
  <1>4. t(c).qu[c].kind = "addr"
    <2>1. ads.qu \in [Queries -> QueryRecords] /\ ads \in AdnsStates
      BY Fields1 DEF QInv
    <2>2. Virgin("addr", cur).kind = "addr"
      BY DEF Virgin
    <2> HIDE DEF Virgin
    <2> QED BY <2>1, <2>2 DEF AdnsStates
  <1> HIDE DEF t
  <1>5. /\ Good(t(c), {cur} \cup {c}) /\ Children(t(c), c) = {} /\ c \notin {cur}
        /\ t(c).qu[c].state = "tosend" /\ t(c).qu[c].retries = 0 /\ ~t(c).qu[c].usevc
        /\ NamesOk(t(c).qu[c]) /\ Fits(t(c))
    BY <1>1, <1>3, <1>4, BornExact
  <1>6. ~(t(c).qu[c].retries >= UDPMAXRETRIES)
    BY <1>5, AdnsAssumption
  <1>7. Fits(ads') /\ Keeps(t(c), ads', {})
    BY <1>2, <1>5, <1>6, SendKeptFits
  <1> QED BY <1>3, <1>7 DEF Births, Steady

LEMMA CallsFit ==
    ASSUME QInv, ~ads.abort, Fits(ads),
           Check \/ Poll \/ Finish \/ (\E q \in Queries : Cancel(q)) \/ Take \/ Return
    PROVE  Steady(ads, {})
  <1>1. pc \in {"idle", "fds"}
    BY DEF Check, Poll, Finish, Cancel, Take, Return, Returns
  <1>2. Good(ads, {}) /\ ads \in AdnsStates
    BY <1>1 DEF QInv, Hand
  <1>3. CASE Check \/ Poll
    BY <1>2, <1>3, ClockFits DEF Check, Poll, Steady
  <1>4. CASE Finish
    <2>1. ads' = NewState
      BY <1>4 DEF Finish
    <2>2. /\ NewState.udpw = <<>> /\ NewState.tcpw = <<>>
          /\ \A q \in Queries : NewState.qu[q] = Freed
      BY DEF NewState
    <2>3. Freed.state = "free" /\ Freed.status # "allservfail"
      BY FreedType DEF Freed, Virgin
    <2>4. ToSet(<<>>) = {}
      BY DEF ToSet
    <2> HIDE DEF NewState
    <2> QED BY <2>1, <2>2, <2>3, <2>4 DEF Steady, Keeps, Alive, Fits, FitsUdp, FitsTcp
  <1>5. CASE \E q \in Queries : Cancel(q)
    <2>1. PICK q \in Queries : ads' = Gone(ads, {q} \cup Children(ads, q))
      BY <1>5 DEF Cancel, adns_cancel
    <2>2. {q} \cup Children(ads, q) \in SUBSET Queries
      BY DEF Children
    <2> QED BY <1>2, <2>1, <2>2, GoneFits DEF Steady
  <1>6. CASE Take
    <2>1. ads' = Gone(ads, {Head(ads.output)}) /\ ads.output # <<>>
      BY <1>6 DEF Take
    <2>2. Head(ads.output) \in Queries
      BY <1>2, <2>1, Fields1, GetQueue
    <2> QED BY <1>2, <2>1, <2>2, GoneFits DEF Steady
  <1>7. CASE Return
    BY <1>7, SteadyStay DEF Return
  <1> QED BY <1>3, <1>4, <1>5, <1>6, <1>7

LEMMA ParsedFit ==
    ASSUME QInv, ~ads.abort, Fits(ads), ParseFailed \/ ParsedAll \/ ParsedChildren
    PROVE  Steady(ads, {})
  <1>1. pc = "parse" /\ Good(ads, {cur}) /\ cur \in Queries /\ ads \in AdnsStates
        /\ ads.qu \in [Queries -> QueryRecords]
    BY Fields1 DEF ParseFailed, ParsedAll, ParsedChildren, QInv, Hand, Good, Exact
  <1>2. CASE ParseFailed
    <2>1. Shrinks(ads, ads') /\ Keeps(ads, ads', {})
      BY <1>1, <1>2, FailExact, EndsKeep DEF ParseFailed, Statuses
    <2> QED BY <2>1, ShrinksFits DEF Steady
  <1>3. CASE ParsedAll
    <2>1. Shrinks(ads, ads') /\ Keeps(ads, ads', {})
      BY <1>1, <1>3, DoneExact, EndsKeep DEF ParsedAll, Statuses
    <2> QED BY <2>1, ShrinksFits DEF Steady
  <1>4. CASE ParsedChildren
    <2> DEFINE r == [Virgin(ads.qu[cur].kind, None) EXCEPT !.state = "childw"]
               f == [ads.qu EXCEPT ![cur] = r]
    <2>1. r.status = "ok" /\ r.kind = ads.qu[cur].kind /\ r.parent = None
      BY DEF Virgin
    <2>2. ads' = [ads EXCEPT !.qu = f, !.childw = Append(@, cur)]
      BY <1>4 DEF ParsedChildren
    <2> HIDE DEF r
    <2>3. \A x \in Queries : f[x] = IF x = cur THEN r ELSE ads.qu[x]
      BY <1>1
    <2> HIDE DEF f
    <2>4. /\ ads'.qu = f /\ ads'.udpw = ads.udpw /\ ads'.tcpw = ads.tcpw
          /\ ads'.tcpstate = ads.tcpstate /\ ads'.tcpserver = ads.tcpserver
      BY <1>1, <2>2 DEF AdnsStates
    <2>5. cur \in {cur} /\ Alive(ads, cur)
      BY <1>1 DEF Good, Exact, Alive
    <2>6. /\ cur \notin ToSet(ads.udpw) /\ cur \notin ToSet(ads.tcpw)
          /\ ToSet(ads.udpw) \subseteq Queries /\ ToSet(ads.tcpw) \subseteq Queries
      BY <1>1, <2>5, GoodApart
    <2>7. Fits(ads')
      BY <2>3, <2>4, <2>6 DEF Fits, FitsUdp, FitsTcp
    <2>8. Keeps(ads, ads', {})
      BY <2>1, <2>3, <2>4, <2>5 DEF Keeps, Alive
    <2> QED BY <2>7, <2>8 DEF Steady
  <1> QED BY <1>2, <1>3, <1>4

\* Every server failed the query that "case server_broken" fails.
LEMMA BrokenQueryFits ==
    ASSUME QInv, ~ads.abort, Fits(ads), BrokenQuery
    PROVE  \/ Steady(ads, {}) /\ (ads' = ads \/ ads'.abort)
           \/ /\ Steady(ads, {cur}) /\ Shrinks(ads, ads')
              /\ cur \in ToSet(ads.tcpw) /\ cur \notin ToSet(ads'.tcpw)
              /\ cur \in Queries /\ ads.qu[cur].retries > nservers
  <1>1. pc = "broken" /\ Good(ads, {}) /\ ads \in AdnsStates /\ ads.tcpw \in Seq(Queries)
    <2>1. pc = "broken"
      BY DEF BrokenQuery
    <2> QED BY <2>1, Fields1 DEF QInv, Hand
  <1>2. CASE cur \notin ToSet(ads.tcpw)
    <2>1. ads' = Abort(ads)
      BY <1>2 DEF BrokenQuery
    <2>2. ads'.abort /\ ads'.qu = ads.qu
      BY <1>1, <2>1 DEF Abort, AdnsStates
    <2> QED BY <2>2, KeepsSame DEF Steady
  <1>3. CASE cur \in ToSet(ads.tcpw) /\ ~(ads.qu[cur].retries > nservers)
    BY <1>3, SteadyStay DEF BrokenQuery
  <1>4. CASE cur \in ToSet(ads.tcpw) /\ ads.qu[cur].retries > nservers
    <2>1. cur \in Queries /\ ads' = adns__query_fail(Matched(ads, cur), cur, "allservfail")
      BY <1>1, <1>4, ToSetType DEF BrokenQuery
    <2>2. Blamed(cur, "allservfail") = {cur}
      BY DEF Blamed
    <2>3. /\ Steady(ads, Blamed(cur, "allservfail")) /\ Shrinks(ads, ads')
          /\ cur \notin ToSet(ads'.tcpw)
      BY <1>1, <1>4, <2>1, FailFits DEF Statuses
    <2> QED BY <1>4, <2>1, <2>2, <2>3
  <1> QED BY <1>2, <1>3, <1>4

\* A query fails for want of a server only after each of them failed it.
LEMMA EachFits ==
    ASSUME QInv, InBroken, Fits(ads), Checked, Next
    PROVE  \/ Steady(ads, {}) \/ Births
           \/ /\ Steady(ads, {cur}) /\ BrokenQuery
              /\ cur \in ToSet(ads.tcpw) /\ ads.qu[cur].retries > nservers
  <1>1. ~ads.abort
    BY DEF Next
  <1>2. CASE (\E kind \in Kinds : Submit(kind)) \/ SubmitBad
    BY <1>1, <1>2, SubmitFits, SubmitBadFits
  <1>3. CASE pap_hostaddr \/ pa_ptr
    BY <1>1, <1>3, NewChildFits DEF pap_hostaddr, pa_ptr
  <1>4. CASE Check \/ Poll \/ Finish \/ (\E q \in Queries : Cancel(q)) \/ Take \/ Return
    BY <1>1, <1>4, CallsFit
  <1>5. CASE ParseFailed \/ ParsedAll \/ ParsedChildren
    BY <1>1, <1>5, ParsedFit
  <1>6. CASE UdpReply \/ TcpReply \/ UdpEnd \/ TcpReadEnd \/ TcpWrite \/ TcpExcept
    BY <1>1, <1>6, EventsFit
  <1>7. CASE TimeoutUdp \/ TimeoutTcp \/ Broken \/ BrokenEnd
               \/ Reconnect \/ ConnectTimeout \/ EventsEnd
    BY <1>1, <1>7, TimeoutsFit
  <1>8. CASE BrokenQuery
    BY <1>1, <1>8, BrokenQueryFits
  <1> QED BY <1>2, <1>3, <1>4, <1>5, <1>6, <1>7, <1>8 DEF Next, Loops

\* What is before the query after q is before q, or q itself.
LEMMA AfterBefore ==
    ASSUME NEW queue \in Seq(Queries), IsInjective(queue),
           NEW q \in ToSet(queue), NEW x \in ToSet(queue), x # q,
           After(queue, q) = None \/ Before(queue, x, After(queue, q))
    PROVE  Before(queue, x, q)
  <1> DEFINE i == CHOOSE i \in DOMAIN queue : queue[i] = q
  <1>1. i \in DOMAIN queue /\ queue[i] = q
    BY DEF ToSet
  <1>2. After(queue, q) = IF i = Len(queue) THEN None ELSE queue[i + 1]
    BY DEF After
  <1> HIDE DEF i
  <1>3. PICK k \in DOMAIN queue : queue[k] = x
    BY DEF ToSet
  <1>4. DOMAIN queue = 1..Len(queue) /\ Len(queue) \in Nat /\ k # i
    BY <1>1, <1>3, LenProperties
  <1>5. CASE i = Len(queue)
    BY <1>1, <1>3, <1>4, <1>5 DEF Before
  <1>6. CASE i # Len(queue)
    <2>1. i + 1 \in DOMAIN queue /\ After(queue, q) = queue[i + 1]
      BY <1>1, <1>2, <1>4, <1>6
    <2>2. queue[i + 1] # None
      BY <2>1, AdnsAssumption DEF Queries, None
    <2>3. PICK m \in DOMAIN queue, n \in DOMAIN queue :
            m < n /\ queue[m] = x /\ queue[n] = queue[i + 1]
      BY <2>1, <2>2 DEF Before
    <2>4. m = k /\ n = i + 1
      BY <1>3, <2>1, <2>3 DEF IsInjective
    <2>5. k < i
      BY <1>1, <1>4, <2>3, <2>4
    <2> QED BY <1>1, <1>3, <2>5 DEF Before
  <1> QED BY <1>5, <1>6

\* Nothing is before the first query.
LEMMA HeadBefore ==
    ASSUME NEW queue \in Seq(Queries), IsInjective(queue), queue # <<>>, NEW x
    PROVE  ~Before(queue, x, Head(queue))
  <1>1. DOMAIN queue = 1..Len(queue) /\ Len(queue) \in Nat /\ 1 \in DOMAIN queue
        /\ Head(queue) = queue[1]
    BY EmptyQueue, LenProperties
  <1> SUFFICES ASSUME NEW m \in DOMAIN queue, NEW n \in DOMAIN queue,
                      m < n, queue[n] = Head(queue)
               PROVE  FALSE
    BY DEF Before
  <1>2. n = 1
    BY <1>1 DEF IsInjective
  <1> QED BY <1>1, <1>2

\* The loop goes on to the next query when it has looked at one.
LEMMA StepChecked ==
    ASSUME QInv, InBroken, Fits(ads), Checked, Next, ~ads'.abort
    PROVE  Checked'
  <1>1. ~ads.abort /\ ads.tcpw \in Seq(Queries)
    BY Fields1 DEF QInv, Next
  <1>2. CASE BrokenQuery
    <2>1. pc = "broken" /\ cur # None /\ Good(ads, {}) /\ IsInjective(ads.tcpw)
          /\ ads \in AdnsStates /\ ads.qu \in [Queries -> QueryRecords]
      <3>1. pc = "broken" /\ cur # None
        BY <1>2 DEF BrokenQuery
      <3> QED BY <1>1, <3>1, Fields1 DEF QInv, Hand, Good, Exact, Placed
    <2>2. cur \in ToSet(ads.tcpw) /\ cur' = After(ads.tcpw, cur)
      <3>1. Abort(ads).abort
        BY <2>1 DEF Abort, AdnsStates
      <3> QED BY <1>2, <3>1 DEF BrokenQuery
    <2>3. /\ ToSet(ads'.tcpw) \subseteq ToSet(ads.tcpw)
          /\ \A x \in ToSet(ads'.tcpw) : ads'.qu[x] = ads.qu[x]
          /\ \A a, b : Before(ads'.tcpw, a, b) => Before(ads.tcpw, a, b)
          /\ ads.qu[cur].retries <= nservers \/ cur \notin ToSet(ads'.tcpw)
      <3>1. CASE ~(ads.qu[cur].retries > nservers)
        <4>1. ads' = ads /\ cur \in Queries
          BY <1>1, <1>2, <2>2, <3>1, ToSetType DEF BrokenQuery
        <4>2. ads.qu[cur].retries \in Nat /\ nservers \in Nat
          BY <2>1, <4>1, AdnsAssumption DEF QueryRecords
        <4> QED BY <3>1, <4>1, <4>2
      <3>2. CASE ads.qu[cur].retries > nservers
        <4>1. cur \in Queries /\ ads' = adns__query_fail(Matched(ads, cur), cur, "allservfail")
          BY <1>1, <1>2, <2>2, <3>2, ToSetType DEF BrokenQuery
        <4>2. Shrinks(ads, ads') /\ cur \notin ToSet(ads'.tcpw)
          BY <2>1, <2>2, <4>1, FailFits DEF Statuses
        <4> QED BY <4>2 DEF Shrinks
      <3> QED BY <3>1, <3>2
    <2>4. ASSUME NEW x \in ToSet(ads'.tcpw), cur' = None \/ Before(ads'.tcpw, x, cur')
          PROVE  ads'.qu[x].retries <= nservers
      <3>1. CASE x = cur
        BY <2>3, <3>1
      <3>2. CASE x # cur
        <4>1. After(ads.tcpw, cur) = None \/ Before(ads.tcpw, x, After(ads.tcpw, cur))
          BY <2>2, <2>3, <2>4
        <4>2. Before(ads.tcpw, x, cur)
          BY <1>1, <2>1, <2>2, <2>3, <3>2, <4>1, AfterBefore
        <4> QED BY <2>1, <2>3, <4>2 DEF Checked
      <3> QED BY <3>1, <3>2
    <2> QED BY <2>4 DEF Checked
  <1>3. CASE Broken
    <2>1. ads' = ads /\ cur' = (IF ads.tcpw = <<>> THEN None ELSE Head(ads.tcpw))
          /\ pc = "timeouts"
      BY <1>3 DEF Broken, Events
    <2>2. IsInjective(ads.tcpw)
      BY <1>1, <2>1 DEF QInv, Good, Exact, Placed
    <2>3. ads.tcpw # <<>> => cur' # None /\ \A x : ~Before(ads.tcpw, x, cur')
      <3>1. ads.tcpw # <<>> => Head(ads.tcpw) \in Queries
        BY <1>1, GetQueue
      <3> QED BY <1>1, <2>1, <2>2, <3>1, HeadBefore, AdnsAssumption DEF Queries, None
    <2>4. ToSet(<<>>) = {}
      BY DEF ToSet
    <2> QED BY <2>1, <2>3, <2>4 DEF Checked
  <1>4. CASE ~BrokenQuery /\ ~Broken
    BY <1>4, LeavesBroken DEF Checked
  <1> QED BY <1>2, <1>3, <1>4

FInv == ads.abort \/ (Fits(ads) /\ Checked)

LEMMA InitFInv == Init => FInv
  <1>1. ToSet(<<>>) = {}
    BY DEF ToSet
  <1>2. NewState.udpw = <<>> /\ NewState.tcpw = <<>>
    BY DEF NewState
  <1>3. Fits(NewState)
    BY <1>1, <1>2 DEF Fits, FitsUdp, FitsTcp
  <1> QED BY <1>3 DEF Init, FInv, Checked

LEMMA StepFInv == FInv /\ QInv /\ IInv /\ [Next]_vars => FInv'
  <1> SUFFICES ASSUME FInv, QInv, InBroken, [Next]_vars PROVE FInv'
    BY DEF IInv
  <1>1. CASE UNCHANGED vars
    BY <1>1 DEF vars, FInv, Fits, FitsUdp, FitsTcp, Checked
  <1>2. CASE Next
    <2>1. ~ads.abort /\ Fits(ads) /\ Checked
      BY <1>2 DEF Next, FInv
    <2>2. Fits(ads') \/ ads'.abort
      BY <1>2, <2>1, EachFits DEF Births, Steady
    <2>3. ads'.abort \/ Checked'
      BY <1>2, <2>1, StepChecked
    <2> QED BY <2>2, <2>3 DEF FInv, Fits, FitsUdp, FitsTcp
  <1> QED BY <1>1, <1>2

LEMMA FInvHolds == Spec => [](FInv /\ QInv /\ IInv)
  BY InitFInv, StepFInv, InitQInv, StepQInv, InitIInv, StepIInv, PTL DEF Spec

\* Unless connect fails at once, which counts as many retries as there were
\* refusals, a query waits only within its retries.
THEOREM RetriesStayBounded ==
    ASSUME "connect" \notin Faults
    PROVE  Spec => [](NoAbort => RetriesBounded)
  <1>1. FInv /\ QInv => (NoAbort => RetriesBounded)
    <2> SUFFICES ASSUME FInv, QInv, NoAbort PROVE RetriesBounded
      OBVIOUS
    <2>1. Fits(ads) /\ ads.qu \in [Queries -> QueryRecords] /\ nservers \in Nat
          /\ ToSet(ads.tcpw) \subseteq Queries
      BY Fields1, ToSetType, AdnsAssumption DEF FInv, NoAbort, QInv
    <2>2. \A q \in ToSet(ads.tcpw) : ads.qu[q].retries \in Nat
      BY <2>1 DEF QueryRecords
    <2>3. \A q \in ToSet(ads.tcpw) : ads.qu[q].retries <= nservers + 1
      BY <2>1, <2>2 DEF Fits, FitsTcp, TcpOk, Limit
    <2> QED BY <2>1, <2>3 DEF Fits, FitsUdp, UdpOk, RetriesBounded
  <1> QED BY <1>1, FInvHolds, PTL

LEMMA StepTried ==
    FInv /\ QInv /\ IInv /\ [Next]_vars =>
        [\A q \in Queries :
            ads'.qu[q].status = "allservfail" /\ ads.qu[q].status # "allservfail" =>
                ads.qu[q].tried = Servers]_vars
  <1> SUFFICES ASSUME FInv, QInv, InBroken, Next, NEW q \in Queries,
                      ads'.qu[q].status = "allservfail", ads.qu[q].status # "allservfail"
               PROVE  ads.qu[q].tried = Servers
    BY DEF IInv, vars
  <1>1. ~ads.abort /\ Fits(ads) /\ Checked
    BY DEF Next, FInv
  <1>2. ~Steady(ads, {})
    BY DEF Steady, Keeps
  <1>3. ~Births
    <2> SUFFICES ASSUME NEW x \in Queries, NEW t, Born(t, x), Steady(t, {}) PROVE FALSE
      BY DEF Births
    <2>1. t.qu[q].status = "allservfail"
      BY DEF Steady, Keeps
    <2>2. t.qu[x].status = "ok" /\ (q # x => t.qu[q] = ads.qu[q])
      BY <1>1, BornExact
    <2> QED BY <2>1, <2>2
  <1>4. /\ Steady(ads, {cur}) /\ BrokenQuery
        /\ cur \in ToSet(ads.tcpw) /\ ads.qu[cur].retries > nservers
    BY <1>1, <1>2, <1>3, EachFits
  <1>5. q = cur
    BY <1>4 DEF Steady, Keeps
  <1>6. Covered("broken", ads.tcpserver, ads.qu[q])
    <2>1. pc = "broken"
      BY <1>4 DEF BrokenQuery
    <2> QED BY <1>1, <1>4, <1>5, <2>1 DEF InBroken, Fits, FitsTcp, TcpOk
  <1>7. /\ ads.tcpserver \in Servers /\ ads.qu[q] \in QueryRecords
    BY Fields1 DEF QInv
  <1>8. ASSUME NEW v \in Servers PROVE v \in ads.qu[q].tried
    <2>1. PICK i \in 1..nservers : NextServer(v, i) = ads.tcpserver
      <3>1. v \in Nat /\ ads.tcpserver \in Nat /\ v < nservers /\ ads.tcpserver < nservers
            /\ nservers \in Nat
        BY <1>7, AdnsAssumption DEF Servers
      <3>2. CASE v < ads.tcpserver
        <4> DEFINE i == ads.tcpserver - v
        <4>1. i \in 1..nservers /\ i \in 0..nservers /\ v + i = ads.tcpserver
          BY <3>1, <3>2
        <4>2. NextServer(v, i) = ads.tcpserver
          BY <3>1, <4>1, NextServerIs
        <4> QED BY <4>1, <4>2
      <3>3. CASE ~(v < ads.tcpserver)
        <4> DEFINE i == ads.tcpserver + nservers - v
        <4>1. i \in 1..nservers /\ i \in 0..nservers /\ v + i >= nservers
              /\ v + i - nservers = ads.tcpserver
          BY <3>1, <3>3
        <4>2. NextServer(v, i) = ads.tcpserver
          BY <3>1, <4>1, NextServerIs
        <4> QED BY <4>1, <4>2
      <3> QED BY <3>2, <3>3
    <2>2. i <= Failures("broken", ads.qu[q])
      <3>1. ads.qu[q].retries \in Nat /\ nservers \in Nat
        BY <1>7, AdnsAssumption DEF QueryRecords
      <3> QED BY <1>4, <1>5, <3>1 DEF Failures
    <2> QED BY <1>6, <2>1, <2>2 DEF Covered
  <1>9. ads.qu[q].tried \subseteq Servers
    BY <1>7 DEF QueryRecords
  <1> QED BY <1>8, <1>9

\* A query fails with adns_s_allservfail only after the connection to each server
\* broke while it waited for it, for any number of servers, with refused connects,
\* writes that fail and connections that last a while in any order.
THEOREM ServersAreTried == Spec => AllServersTried
  BY StepTried, FInvHolds, PTL DEF Spec, AllServersTried

-----------------------------------------------------------------------------
(***************************************************************************)
(* The assertions.                                                          *)
(***************************************************************************)

\* The query that the loop of "case server_broken" saved is still there.
LoopOk == pc = "broken" /\ cur # None => cur \in ToSet(ads.tcpw)

\* A ptr query has one child at most.
OneKid(s) ==
    \A p \in Queries : Alive(s, p) /\ s.qu[p].kind = "ptr" =>
        \A c, d \in Children(s, p) : c = d

LEMMA GoneTcp ==
    ASSUME NEW s \in AdnsStates, NEW gone \in SUBSET Queries
    PROVE  ToSet(Gone(s, gone).tcpw) = ToSet(s.tcpw) \ gone
  BY Fields1, GoneFields, OffQueue

LEMMA AnsweredTcp ==
    ASSUME NEW s \in AdnsStates, NEW q \in Queries, NEW status, Children(s, q) = {}
    PROVE  ToSet(Answered(s, q, status).tcpw) = ToSet(s.tcpw)
  <1> DEFINE c == cancel_children(s, q)
             answer == [Virgin(s.qu[q].kind, None) EXCEPT !.state = "done", !.status = status]
  <1>1. c = Gone(s, {}) /\ {} \in SUBSET Queries
    BY DEF cancel_children
  <1>2. ToSet(c.tcpw) = ToSet(s.tcpw)
    BY <1>1, GoneTcp
  <1>3. c \in AdnsStates
    BY <1>1, GoneFields
  <1> HIDE DEF c, answer
  <1>4. [c EXCEPT !.qu[q] = answer, !.output = Append(@, q)].tcpw = c.tcpw
    BY <1>3 DEF AdnsStates
  <1> QED BY <1>2, <1>4 DEF Answered, c, answer

\* The end of a query that is its parent's only child takes no other off tcpw.
LEMMA FailLeaves ==
    ASSUME NEW s, NEW q \in Queries, Good(s, {q}), Children(s, q) = {}, NEW status,
           LET p == s.qu[q].parent
           IN  p # None /\ s.qu[p].kind = "ptr" => \A c \in Children(s, p) : c = q
    PROVE  ToSet(s.tcpw) \ {q} \subseteq ToSet(adns__query_fail(s, q, status).tcpw)
  <1> DEFINE p == s.qu[q].parent
             c == cancel_children(s, q)
             g == Gone(c, {q})
             t == [g EXCEPT !.childw = Off(@, {p})]
  <1>1. s \in AdnsStates /\ Families(s, {q}) /\ Alive(s, q) /\ s.qu \in [Queries -> QueryRecords]
    BY Fields1 DEF Good, Exact, Alive
  <1>2. c = Gone(s, {}) /\ {} \in SUBSET Queries
    BY DEF cancel_children
  <1>3. /\ c \in AdnsStates /\ ToSet(c.tcpw) = ToSet(s.tcpw)
        /\ \A x \in Queries : c.qu[x] = s.qu[x]
    <2>1. ToSet(Gone(s, {}).tcpw) = ToSet(s.tcpw) \ {}
      BY <1>1, <1>2, GoneTcp
    <2>2. Gone(s, {}) \in AdnsStates /\ \A x \in Queries : Gone(s, {}).qu[x] = s.qu[x]
      BY <1>1, <1>2, GoneFields
    <2> QED BY <1>2, <2>1, <2>2
  <1>4. \A x : Children(c, x) = Children(s, x)
    BY <1>3 DEF Children
  <1> HIDE DEF c
  <1>5. g \in AdnsStates /\ ToSet(g.tcpw) = ToSet(s.tcpw) \ {q}
        /\ \A x \in Queries : g.qu[x] = IF x = q THEN Freed ELSE s.qu[x]
    <2>1. {q} \in SUBSET Queries
      OBVIOUS
    <2>2. ToSet(Gone(c, {q}).tcpw) = ToSet(c.tcpw) \ {q}
      BY <1>3, <2>1, GoneTcp
    <2>3. Gone(c, {q}) \in AdnsStates
          /\ \A x \in Queries : Gone(c, {q}).qu[x] = IF x \in {q} THEN Freed ELSE c.qu[x]
      BY <1>3, <2>1, GoneFields
    <2> QED BY <1>3, <2>2, <2>3
  <1>6. c.qu[q].parent = p
    BY <1>3
  <1>7. CASE p = None
    <2>1. adns__query_done(c, q, status) = Answered(c, q, status)
      BY <1>6, <1>7 DEF adns__query_done
    <2>2. ToSet(Answered(c, q, status).tcpw) = ToSet(s.tcpw)
      BY <1>3, <1>4, AnsweredTcp
    <2> QED BY <2>1, <2>2 DEF adns__query_fail, c
  <1>8. CASE p # None
    <2>1. p \in Queries /\ p # q /\ s.qu[p].kind \in {"hostaddr", "ptr"}
      BY <1>1, <1>8 DEF Families, ChildOf, Alive
    <2> HIDE DEF g
    <2>2. t \in AdnsStates /\ t.qu = g.qu /\ t.tcpw = g.tcpw
      <3>1. Off(g.childw, {p}) \in Seq(Queries)
        BY <1>5, Fields1, OffType
      <3> QED BY <1>5, <3>1 DEF AdnsStates
    <2> HIDE DEF t
    <2>3. Children(t, p) \subseteq Children(s, p) \ {q}
      BY <1>5, <2>2, FreedType DEF Children
    <2>4. Children(t, p) = {} => \A e : ToSet(Answered(t, p, e).tcpw) = ToSet(t.tcpw)
      BY <2>1, <2>2, AnsweredTcp
    <2>5. ToSet(icb_hostaddr(t, p).tcpw) = ToSet(t.tcpw)
      <3>1. [t EXCEPT !.childw = Append(@, p)].tcpw = t.tcpw
        BY <2>2 DEF AdnsStates
      <3> QED BY <2>4, <3>1 DEF icb_hostaddr
    <2>6. s.qu[p].kind = "ptr" => ToSet(icb_ptr(t, p, status).tcpw) = ToSet(t.tcpw)
      <3>1. s.qu[p].kind = "ptr" => Children(t, p) = {}
        BY <1>8, <2>3
      <3> QED BY <2>4, <2>5, <3>1 DEF icb_ptr
    <2>7. adns__query_done(c, q, status) =
            IF s.qu[p].kind = "ptr" THEN icb_ptr(t, p, status) ELSE icb_hostaddr(t, p)
      BY <1>3, <1>6, <1>8, <2>1 DEF adns__query_done, t, g
    <2> QED BY <1>5, <2>2, <2>5, <2>6, <2>7 DEF adns__query_fail, c
  <1> QED BY <1>7, <1>8

LEMMA AfterOn ==
    ASSUME NEW queue \in Seq(Queries), IsInjective(queue), NEW q \in ToSet(queue),
           After(queue, q) # None
    PROVE  After(queue, q) \in ToSet(queue) \ {q}
  <1> DEFINE i == CHOOSE i \in DOMAIN queue : queue[i] = q
  <1>1. i \in DOMAIN queue /\ queue[i] = q
    BY DEF ToSet
  <1>2. After(queue, q) = queue[i + 1] /\ i # Len(queue)
    BY DEF After
  <1> HIDE DEF i
  <1>3. i + 1 \in DOMAIN queue /\ i + 1 # i
    BY <1>1, <1>2, LenProperties
  <1> QED BY <1>1, <1>2, <1>3 DEF ToSet, IsInjective

LEMMA StepLoopOk ==
    ASSUME QInv, OneKid(ads), LoopOk, Next
    PROVE  LoopOk'
  <1>1. ~ads.abort /\ ads.tcpw \in Seq(Queries)
    BY Fields1 DEF QInv, Next
  <1>2. CASE BrokenQuery
    <2>1. pc = "broken" /\ cur # None /\ Good(ads, {}) /\ Families(ads, {}) /\ IsInjective(ads.tcpw)
          /\ cur \in ToSet(ads.tcpw) /\ cur \in Queries /\ cur' = After(ads.tcpw, cur)
      <3>1. pc = "broken" /\ cur # None
        BY <1>2 DEF BrokenQuery
      <3>2. cur \in ToSet(ads.tcpw)
        BY <3>1 DEF LoopOk
      <3>3. cur' = After(ads.tcpw, cur) /\ cur \in Queries
        BY <1>1, <1>2, <3>2, ToSetType DEF BrokenQuery
      <3> QED BY <1>1, <3>1, <3>2, <3>3 DEF QInv, Hand, Good, Exact, Placed
    <2>2. cur' # None => cur' \in ToSet(ads.tcpw) \ {cur}
      BY <1>1, <2>1, AfterOn
    <2> DEFINE m == Matched(ads, cur)
               t == adns__query_fail(m, cur, "allservfail")
    <2>3. ToSet(ads.tcpw) \ {cur} \subseteq ToSet(t.tcpw)
      <3>1. Good(m, {cur}) /\ Children(m, cur) = {} /\ m.qu = ads.qu
        BY <2>1, MatchedExact
      <3>2. ToSet(m.tcpw) = ToSet(ads.tcpw) \ {cur}
        <4>1. m.tcpw = Off(ads.tcpw, {cur})
          BY <1>1 DEF Matched, QInv, AdnsStates
        <4> QED BY <1>1, <4>1, OffQueue
      <3> DEFINE p == ads.qu[cur].parent
      <3>3. ASSUME p # None, ads.qu[p].kind = "ptr", NEW c \in Children(ads, p)
            PROVE  c = cur
        <4>1. Alive(ads, cur)
          BY <2>1 DEF Good, Exact, Placed, Alive
        <4>2. p \in Queries /\ Alive(ads, p)
          BY <2>1, <3>3, <4>1 DEF Families, ChildOf, Alive
        <4>3. cur \in Children(ads, p)
          BY <2>1, <4>1 DEF Children, Alive
        <4> QED BY <3>3, <4>2, <4>3 DEF OneKid
      <3>4. \A x : Children(m, x) = Children(ads, x)
        BY <3>1 DEF Children
      <3> HIDE DEF m
      <3>5. ToSet(m.tcpw) \ {cur} \subseteq ToSet(adns__query_fail(m, cur, "allservfail").tcpw)
        BY <2>1, <3>1, <3>3, <3>4, FailLeaves
      <3> QED BY <3>2, <3>5
    <2>4. ads' \in {ads, t}
      BY <1>2, <2>1 DEF BrokenQuery
    <2> HIDE DEF t
    <2> QED BY <2>2, <2>3, <2>4 DEF LoopOk
  <1>3. CASE Broken
    BY <1>1, <1>3, GetQueue DEF Broken, LoopOk
  <1>4. CASE ~BrokenQuery /\ ~Broken
    BY <1>4, LeavesBroken DEF LoopOk
  <1> QED BY <1>2, <1>3, <1>4

LEMMA StepOneKid ==
    ASSUME "ptr" \in Kinds => MaxKids <= 1,
           QInv, QInv', InBroken, Fits(ads), Checked, OneKid(ads), Next
    PROVE  OneKid(ads')
  <1> SUFFICES ASSUME NEW p \in Queries, Alive(ads', p), ads'.qu[p].kind = "ptr",
                      NEW c \in Children(ads', p), NEW d \in Children(ads', p)
               PROVE  c = d
    BY DEF OneKid
  <1>1. ~ads.abort /\ p # None /\ ads'.qu \in [Queries -> QueryRecords]
    <2>1. ads' \in AdnsStates
      BY DEF QInv
    <2> QED BY <2>1, Fields1, AdnsAssumption DEF Next, Queries, None
  <1>2. MaxKids <= 1
    <2>1. ads'.qu[p].kind \in Kinds \cup {"addr"}
      BY <1>1 DEF QueryRecords
    <2> QED BY <2>1
  <1>3. ASSUME NEW t, NEW b, Keeps(t, ads', b)
        PROVE  /\ Alive(t, p) /\ t.qu[p].kind = "ptr"
               /\ c \in Children(t, p) /\ d \in Children(t, p)
    BY <1>1, <1>3 DEF Keeps, Children, Alive
  <1>4. CASE \E b : Steady(ads, b)
    BY <1>3, <1>4 DEF Steady, OneKid
  <1>5. CASE Births
    <2>1. PICK x \in Queries : \E t : Born(t, x) /\ Steady(t, {})
      BY <1>5 DEF Births
    <2>2. PICK t : Born(t, x) /\ Steady(t, {})
      BY <2>1
    <2>3. /\ Children(t, x) = {}
          /\ \A y \in Queries : y # x => t.qu[y] = ads.qu[y]
          /\ t.qu[x].parent # None =>
               t.qu[x].parent = cur /\ Cardinality(Children(ads, cur)) < MaxKids
      BY <1>1, <2>2, BornExact
    <2>4. /\ Alive(t, p) /\ t.qu[p].kind = "ptr"
          /\ c \in Children(t, p) /\ d \in Children(t, p)
      BY <1>3, <2>2 DEF Steady
    <2>5. p # x
      BY <2>3, <2>4
    <2>6. Alive(ads, p) /\ ads.qu[p].kind = "ptr"
      BY <2>3, <2>4, <2>5 DEF Alive
    <2>7. \A y \in Children(t, p) : y = x \/ y \in Children(ads, p)
      BY <2>3 DEF Children
    <2>8. CASE x \in Children(t, p)
      <3>1. p = cur /\ Cardinality(Children(ads, p)) < MaxKids
        BY <1>1, <2>3, <2>8 DEF Children
      <3>2. Children(ads, p) = {}
        <4>1. Children(ads, p) \subseteq 1..MaxQueries /\ MaxQueries \in Nat /\ MaxKids \in Nat
          BY AdnsAssumption DEF Children, Queries
        <4>2. IsFiniteSet(Children(ads, p))
          <5>1. IsFiniteSet(1..MaxQueries)
            BY <4>1, FS_Interval
          <5> QED BY <4>1, <5>1, FS_Subset
        <4>3. Cardinality(Children(ads, p)) \in Nat
          BY <4>2, FS_CardinalityType
        <4> QED BY <1>2, <3>1, <4>1, <4>2, <4>3, FS_EmptySet
      <3> QED BY <2>4, <2>7, <3>2
    <2>9. CASE x \notin Children(t, p)
      BY <2>4, <2>6, <2>7, <2>9 DEF OneKid
    <2> QED BY <2>8, <2>9
  <1> QED BY <1>4, <1>5, EachFits

\* Events that were found before the call are handled by adns_afterpoll alone.
PollsOnly == call = "poll" => Polls

LEMMA StepPollsOnly ==
    ASSUME PollsOnly, Next
    PROVE  PollsOnly'
  <1>1. CASE \E kind \in Kinds : Submit(kind)
    <2>1. ASSUME NEW s, NEW c, Clock(s, c) PROVE call' = c
      BY <2>1 DEF Clock
    <2>2. PICK kind \in Kinds : Submit(kind)
      BY <1>1
    <2>3. \E s : Clock(s, "processany")
      BY <2>2 DEF Submit
    <2>4. call' = "processany"
      BY <2>1, <2>3
    <2> QED BY <2>4 DEF PollsOnly
  <1>2. CASE Check \/ Poll
    BY <1>2 DEF Check, Poll, Clock, PollsOnly
  <1>3. CASE Take \/ Return
    BY <1>3 DEF Take, Return, Returns, PollsOnly
  <1>4. ASSUME UNCHANGED call PROVE PollsOnly'
    BY <1>4 DEF PollsOnly
  <1>5. CASE Finish \/ \E q \in Queries : Cancel(q)
    BY <1>4, <1>5 DEF Finish, Cancel
  <1>6. CASE TimeoutUdp \/ TimeoutTcp \/ Broken \/ BrokenQuery \/ BrokenEnd
               \/ Reconnect \/ ConnectTimeout \/ EventsEnd
    BY <1>4, <1>6 DEF TimeoutUdp, TimeoutTcp, Broken, BrokenQuery, BrokenEnd, Reconnect,
                      ConnectTimeout, EventsEnd, Goto
  <1>7. CASE UdpReply \/ TcpReply
    BY <1>4, <1>7 DEF UdpReply, TcpReply, Reply
  <1>8. CASE UdpEnd \/ TcpReadEnd \/ TcpWrite \/ TcpExcept
    BY <1>4, <1>8 DEF UdpEnd, TcpReadEnd, TcpWrite, TcpExcept, Handled
  <1>9. CASE pap_hostaddr \/ pa_ptr \/ ParseFailed \/ ParsedAll \/ ParsedChildren
    BY <1>4, <1>9 DEF pap_hostaddr, pa_ptr, NewChild, ParseFailed, ParsedAll, ParsedChildren, Goto
  <1>10. CASE SubmitBad
    <2>1. ASSUME NEW s, NEW c, Clock(s, c) PROVE call' = c
      BY <2>1 DEF Clock
    <2>2. (\E s : Clock(s, "processany")) \/ UNCHANGED call
      BY <1>10 DEF SubmitBad
    <2> QED BY <2>1, <2>2 DEF PollsOnly
  <1> QED BY <1>1, <1>2, <1>3, <1>5, <1>6, <1>7, <1>8, <1>9, <1>10 DEF Next, Loops

NInv == NoAbort /\ LoopOk /\ OneKid(ads) /\ PollsOnly

LEMMA InitNInv == Init => NInv
  <1> SUFFICES ASSUME Init PROVE NInv
    OBVIOUS
  <1>1. ads = NewState /\ ~ads.abort /\ pc = "idle" /\ call = "check"
    BY NewStateGood DEF Init
  <1>2. \A q \in Queries : ads.qu[q].state = "free"
    BY <1>1, FreedType DEF NewState
  <1>3. OneKid(ads)
    BY <1>2 DEF OneKid, Alive
  <1> QED BY <1>1, <1>3 DEF NInv, NoAbort, LoopOk, PollsOnly

\* The causes that the constants leave out.
Causes ==
    /\ Polls => "system" \notin Faults
    /\ "search" \in Kinds => SearchNames = 1
    /\ "ptr" \in Kinds => MaxKids <= 1

LEMMA NoCulprit ==
    ASSUME Causes, NInv, FInv, QInv
    PROVE  ~Culprit
  <1>1. ~ads.abort /\ Fits(ads) /\ ads.qu \in [Queries -> QueryRecords]
    BY Fields1 DEF NInv, NoAbort, FInv, QInv
  <1>2. ASSUME pc = "fds", NEW q \in Queries, ads.qu[q].state = "tcpw",
               ads.qu[q].kind = "search"
        PROVE  ads.qu[q].names = 0
    <2>1. q \in ToSet(ads.tcpw)
      BY <1>1, <1>2 DEF QInv, Hand, Good, Exact, Placed
    <2>2. ads.qu[q].names < SearchNames
      BY <1>1, <1>2, <2>1 DEF Fits, FitsTcp, TcpOk, NamesOk
    <2>3. ads.qu[q].names \in 0..SearchNames /\ "search" \in Kinds \cup {"addr"}
      BY <1>1, <1>2 DEF QueryRecords
    <2>4. SearchNames = 1
      BY <2>3 DEF Causes
    <2> QED BY <2>2, <2>3, <2>4
  <1> QED BY <1>2 DEF Culprit, Causes, NInv, LoopOk, PollsOnly

LEMMA StepNInv ==
    ASSUME Causes
    PROVE  NInv /\ FInv /\ QInv /\ IInv /\ [Next]_vars => NInv'
  <1> SUFFICES ASSUME NInv, FInv, QInv, IInv, InBroken, [Next]_vars PROVE NInv'
    BY DEF IInv
  <1>1. CASE UNCHANGED vars
    <2>1. OneKid(ads) /\ ads' = ads
      BY <1>1 DEF vars, NInv
    <2> QED BY <1>1, <2>1 DEF vars, NInv, NoAbort, LoopOk, PollsOnly
  <1>2. CASE Next
    <2>1. ~ads.abort /\ Fits(ads) /\ Checked /\ OneKid(ads) /\ LoopOk /\ PollsOnly
      BY DEF NInv, NoAbort, FInv
    <2>2. ~ads'.abort
      BY <1>2, EachStep, NoCulprit DEF OwnStep, UserStep
    <2>3. QInv'
      BY <1>2, StepQInv
    <2>4. OneKid(ads')
      BY <1>2, <2>1, <2>3, StepOneKid DEF Causes
    <2>5. LoopOk' /\ PollsOnly'
      BY <1>2, <2>1, StepLoopOk, StepPollsOnly
    <2> QED BY <2>2, <2>4, <2>5 DEF NInv, NoAbort
  <1> QED BY <1>1, <1>2

\* No assertion of the resolver fails and no freed query is read, if adns_afterpoll
\* meets no lack of resources, no name of a search is asked for after a first one,
\* and no ptr query has two children: nothing else makes one fail, whatever the
\* servers, the network and the user do.
THEOREM AssertionsHold ==
    ASSUME Polls => "system" \notin Faults,
           "search" \in Kinds => SearchNames = 1,
           "ptr" \in Kinds => MaxKids <= 1
    PROVE  Spec => []NoAbort
  <1>1. Causes
    BY DEF Causes
  <1>2. NInv /\ FInv /\ QInv /\ IInv /\ [Next]_vars => NInv'
    BY <1>1, StepNInv
  <1>3. NInv => NoAbort
    BY DEF NInv
  <1> QED BY <1>2, <1>3, InitNInv, FInvHolds, PTL DEF Spec

=============================================================================
