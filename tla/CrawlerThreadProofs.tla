------------------------ MODULE CrawlerThreadProofs ------------------------
(***************************************************************************)
(* The safety theorems of CrawlerThread.  Core is the inductive invariant: *)
(* types, the pool of connexions, and where a named site is held.  None of *)
(* its parts is inductive alone: that a connexion given out serves nothing *)
(* else needs FreeConnsExact, that the pool gets back only what it gave    *)
(* out needs ConnServesOne, that a query finds a url in the site's fifo    *)
(* needs WaitingIffHeld, and this one needs SiteHeldOnce.  The types come  *)
(* first, one lemma for each loop of the thread; two of them need those    *)
(* parts of Core: a query reads the head of a site's fifo, and the end of  *)
(* a page deletes the url its connexion holds.                             *)
(*                                                                         *)
(* What is inductive once Core is known comes after it: the servers        *)
(* (okSites, the connexion fetch counts on, the urls cron announces, the   *)
(* dns queries out, and what CrawlerThreadHistory says of the pages and    *)
(* the robots.txt asked before), then the urls (where they are, and the    *)
(* three counters that bound the memory).                                  *)
(***************************************************************************)
EXTENDS CrawlerThread, CrawlerThreadHistory, QueueLemmas

USE DEF Conns, Slot, Phases, DnsStates, ConnStates, getFds

-----------------------------------------------------------------------------
(* Types *)

\* put and get keep the type of each of the thread's queues.
QueueOf(S) == \A q \in Seq(S) :
    /\ \A x \in S : Append(q, x) \in Seq(S)
    /\ q # <<>> => Head(q) \in S /\ Tail(q) \in Seq(S)

(* The queue of every NamedSite and the pending dns calls are sequences. *)
LEMMA Queues ==
    ASSUME NEW S PROVE QueueOf(S)
  BY GetQueue, PutQueue DEF QueueOf

(* The state the constructors leave is well typed. *)
LEMMA InitType == Init => TypeOK
  <1> SUFFICES ASSUME Init PROVE TypeOK
    OBVIOUS
  <1>1. freeConns \in Seq(Conns)
    BY SizeAssumption, SeqDef DEF Init
  <1>2. (CHOOSE p \in Ports : TRUE) \in Ports /\ (CHOOSE i \in IPSlots : TRUE) \in IPSlots
    BY UrlAssumption
  <1>3. id \in [NamedSlots -> Identity]
    BY <1>2 DEF Init, Identity
  <1>4. LoopType /\ QueueType
    BY TimeAssumption DEF Init, LoopType, QueueType
  <1>5. SiteType
    BY <1>3 DEF Init, SiteType
  <1>6. IPType /\ ConnType
    BY <1>1 DEF Init, IPType, ConnType
  <1> QED BY <1>4, <1>5, <1>6 DEF Init, TypeOK

(* IPSite::getUrl takes a url out of the queue of its IPSite and changes nothing else. *)
LEMMA GetUrlType ==
    ASSUME TypeOK, NEW i \in IPSlots, GetUrl(i)
    PROVE  /\ Head(tab[i]) \in Urls
           /\ Head(freeConns) \in Conns /\ Tail(freeConns) \in Seq(Conns)
           /\ QueueType' /\ SiteType'
           /\ tab' \in [IPSlots -> Seq(Urls)] /\ ipUrl' \in Int
  <1>1. tab[i] \in Seq(Urls) /\ tab[i] # <<>> /\ freeConns \in Seq(Conns) /\ freeConns # <<>>
    BY DEF TypeOK, IPType, ConnType, GetUrl
  <1>2. Head(tab[i]) \in Urls /\ Tail(tab[i]) \in Seq(Urls)
    BY <1>1, Queues DEF QueueOf
  <1>3. Head(freeConns) \in Conns /\ Tail(freeConns) \in Seq(Conns)
    BY <1>1, Queues DEF QueueOf
  <1>4. QueueType'
    BY DEF TypeOK, QueueType, GetUrl
  <1>5. Slot(Head(tab[i])) \in NamedSlots
    BY <1>2, UrlAssumption
  <1>6. nburls' \in [NamedSlots -> Int]
    <2>1. nburls' = [nburls EXCEPT ![Slot(Head(tab[i]))] = @ - 1]
      BY DEF GetUrl
    <2>2. nburls \in [NamedSlots -> Int]
      BY DEF TypeOK, SiteType
    <2> QED BY <1>5, <2>1, <2>2
  <1>7. SiteType'
    BY <1>6 DEF TypeOK, SiteType, GetUrl
  <1>8. tab' \in [IPSlots -> Seq(Urls)] /\ ipUrl' \in Int
    BY <1>2 DEF TypeOK, IPType, GetUrl
  <1> QED BY <1>2, <1>3, <1>4, <1>7, <1>8

(* IPSite::putUrl leaves well-typed queues of IPSites and events. *)
LEMMA PutUrlType ==
    ASSUME TypeOK, NEW i \in IPSlots, NEW u \in Urls, PutUrl(i, u)
    PROVE  IPType' /\ fetching' \in IPSlots \cup {NoIP}
  <1>1. Append(tab[i], u) \in Seq(Urls) /\ Append(okSites, i) \in Seq(IPSlots)
    BY Queues DEF QueueOf, TypeOK, IPType
  <1>2. tab' \in [IPSlots -> Seq(Urls)]
    BY <1>1 DEF TypeOK, IPType, PutUrl
  <1>3. IPType'
    BY <1>1, <1>2 DEF TypeOK, IPType, PutUrl
  <1> QED BY <1>3 DEF TypeOK, LoopType, PutUrl

\* What a step leaves alone keeps its type.
LEMMA Frames ==
    ASSUME TypeOK
    PROVE  /\ UNCHANGED queueVars => QueueType'
           /\ UNCHANGED siteVars => SiteType'
           /\ UNCHANGED ipVars => IPType'
           /\ UNCHANGED connVars => ConnType'
           /\ UNCHANGED fresh => fresh' \in SUBSET Urls
           /\ UNCHANGED gone => gone' \in SUBSET Urls
  <1>1. UNCHANGED queueVars => QueueType'
    BY DEF TypeOK, QueueType, queueVars
  <1>2. UNCHANGED siteVars => SiteType'
    BY DEF TypeOK, SiteType, siteVars
  <1>3. UNCHANGED ipVars => IPType'
    BY DEF TypeOK, IPType, ipVars
  <1>4. UNCHANGED connVars => ConnType'
    BY DEF TypeOK, ConnType, connVars
  <1> QED BY <1>1, <1>2, <1>3, <1>4 DEF TypeOK

(* Every path of IPSite::fetch keeps the types. *)
LEMMA FetchType ==
    ASSUME TypeOK, FetchStep PROVE TypeOK'
  <1>1. ASSUME NEW i \in IPSlots, FetchEmpty(i) PROVE TypeOK'
    <2>1. LoopType' /\ IPType'
      BY <1>1 DEF TypeOK, LoopType, IPType, FetchEmpty
    <2> QED BY <1>1, <2>1, Frames DEF FetchEmpty, TypeOK
  <1>2. ASSUME NEW i \in IPSlots, FetchTooEarly(i) PROVE TypeOK'
    <2>1. LoopType'
      BY <1>2 DEF TypeOK, LoopType, FetchTooEarly
    <2>2. okSites' \in Seq(IPSlots)
      BY <1>2, RePutQueue DEF TypeOK, IPType, FetchTooEarly
    <2>3. IPType'
      BY <1>2, <2>2 DEF TypeOK, IPType, FetchTooEarly
    <2> QED BY <1>2, <2>1, <2>3, Frames DEF FetchTooEarly, TypeOK
  <1>3. ASSUME NEW i \in IPSlots, NEW st \in getFds \ {"emptyC"},
               FetchConnect(i, st)
        PROVE  TypeOK'
    <2>1. GetUrl(i)
      BY <1>3 DEF FetchConnect
    <2>2. Append(okSites, i) \in Seq(IPSlots)
      BY Queues DEF QueueOf, TypeOK, IPType
    <2>3. LoopType'
      BY <1>3 DEF TypeOK, LoopType, FetchConnect, GetUrl
    <2>4. IPType'
      BY <1>3, <2>1, <2>2, GetUrlType DEF TypeOK, LoopType, IPType, FetchConnect
    <2>5. ConnType'
      BY <1>3, <2>1, GetUrlType DEF TypeOK, ConnType, FetchConnect
    <2> QED BY <1>3, <2>1, <2>3, <2>4, <2>5, GetUrlType
            DEF FetchConnect, GetUrl, TypeOK
  <1>4. ASSUME NEW i \in IPSlots, FetchFail(i) PROVE TypeOK'
    <2>1. GetUrl(i)
      BY <1>4 DEF FetchFail
    <2>2. LoopType'
      BY <1>4 DEF TypeOK, LoopType, FetchFail, GetUrl
    <2>3. IPType'
      BY <1>4, <2>1, GetUrlType DEF TypeOK, IPType, FetchFail
    <2>4. freeConns' \in Seq(Conns)
      BY <1>4, <2>1, GetUrlType, Queues DEF QueueOf, FetchFail
    <2>5. ConnType'
      BY <1>4, <2>4 DEF TypeOK, ConnType, FetchFail
    <2>6. gone' \in SUBSET Urls
      BY <1>4, <2>1, GetUrlType DEF TypeOK, FetchFail
    <2> QED BY <2>1, <2>2, <2>3, <2>5, <2>6, GetUrlType DEF GetUrl, TypeOK
  <1> QED BY <1>1, <1>2, <1>3, <1>4 DEF FetchStep

(* The cursor of the scan after a robots.txt stays within the queue it scans. *)
LEMMA ScanNextType ==
    ASSUME TypeOK, NEW s \in NamedSlots, ScanNext(s)
    PROVE  /\ Head(fifo[s]) \in Urls
           /\ Tail(fifo[s]) \in Seq(Urls)
           /\ Append(Tail(fifo[s]), Head(fifo[s])) \in Seq(Urls)
           /\ scanLeft' \in Nat
           /\ ConnType' /\ fresh' \in SUBSET Urls
  <1>1. fifo[s] \in Seq(Urls) /\ fifo[s] # <<>>
    BY DEF TypeOK, SiteType, ScanNext
  <1>2. Head(fifo[s]) \in Urls /\ Tail(fifo[s]) \in Seq(Urls)
    BY <1>1, Queues DEF QueueOf
  <1>3. Append(Tail(fifo[s]), Head(fifo[s])) \in Seq(Urls)
    BY <1>2, Queues DEF QueueOf
  <1>4. scanLeft' \in Nat
    BY DEF TypeOK, LoopType, ScanNext
  <1> QED BY <1>2, <1>3, <1>4, Frames DEF ScanNext

(* Every step of the scan after a robots.txt keeps the types. *)
LEMMA ScanType ==
    ASSUME TypeOK, ScanStep PROVE TypeOK'
  <1>1. ASSUME NEW s \in NamedSlots, ScanForget(s) PROVE TypeOK'
    <2>1. ScanNext(s)
      BY <1>1 DEF ScanForget
    <2>2. LoopType'
      BY <1>1, <2>1, ScanNextType DEF TypeOK, LoopType, ScanForget, ScanNext
    <2>3. QueueType'
      BY <1>1, <2>1 DEF TypeOK, QueueType, ScanForget, ScanNext
    <2>4. SiteType'
      BY <1>1, <2>1, ScanNextType DEF TypeOK, SiteType, ScanForget, ScanNext
    <2>5. IPType' /\ gone' \in SUBSET Urls
      BY <1>1, <2>1, Frames, ScanNextType DEF TypeOK, ScanForget
    <2> QED BY <2>1, <2>2, <2>3, <2>4, <2>5, ScanNextType DEF TypeOK
  <1>2. ASSUME NEW s \in NamedSlots, ScanKeep(s) PROVE TypeOK'
    <2>1. ScanNext(s)
      BY <1>2 DEF ScanKeep
    <2>2. LoopType'
      BY <1>2, <2>1, ScanNextType DEF TypeOK, LoopType, ScanKeep, ScanNext
    <2>3. QueueType'
      BY <1>2, <2>1 DEF TypeOK, QueueType, ScanKeep, ScanNext
    <2>4. SiteType'
      BY <1>2, <2>1, ScanNextType DEF TypeOK, SiteType, ScanKeep, ScanNext
    <2>5. IPType' /\ gone' \in SUBSET Urls
      BY <1>2, Frames DEF ScanKeep
    <2> QED BY <2>1, <2>2, <2>3, <2>4, <2>5, ScanNextType DEF TypeOK
  <1>3. ASSUME NEW s \in NamedSlots, ScanTransfer(s) PROVE TypeOK'
    <2>1. ScanNext(s) /\ PutUrl(id[s].ip, Head(fifo[s]))
      BY <1>3 DEF ScanTransfer
    <2>2. id[s].ip \in IPSlots
      BY DEF TypeOK, SiteType, Identity
    <2>3. IPType' /\ fetching' \in IPSlots \cup {NoIP}
      BY <2>1, <2>2, ScanNextType, PutUrlType
    <2>4. LoopType'
      BY <2>1, <2>3, ScanNextType DEF TypeOK, LoopType, ScanNext
    <2>5. QueueType'
      BY <1>3, <2>1 DEF TypeOK, QueueType, ScanTransfer, ScanNext
    <2>6. SiteType'
      BY <1>3, <2>1, ScanNextType DEF TypeOK, SiteType, ScanTransfer, ScanNext
    <2>7. gone' \in SUBSET Urls
      BY <1>3, Frames DEF ScanTransfer
    <2> QED BY <2>1, <2>3, <2>4, <2>5, <2>6, <2>7, ScanNextType DEF TypeOK
  <1>4. ASSUME NEW s \in NamedSlots, ScanEnd(s) PROVE TypeOK'
    <2>1. LoopType'
      BY <1>4 DEF TypeOK, LoopType, ScanEnd
    <2>2. Append(dnsSites, s) \in Seq(NamedSlots)
      BY Queues DEF QueueOf, TypeOK, SiteType
    <2>3. SiteType'
      BY <1>4, <2>2 DEF TypeOK, SiteType, ScanEnd
    <2>4. closing # 0 => Append(freeConns, closing) \in Seq(Conns)
      BY Queues DEF QueueOf, TypeOK, LoopType, ConnType
    <2>5. ConnType'
      BY <1>4, <2>4 DEF TypeOK, LoopType, ConnType, ScanEnd
    <2> QED BY <1>4, <2>1, <2>3, <2>5, Frames DEF ScanEnd, TypeOK
  <1> QED BY <1>1, <1>2, <1>3, <1>4 DEF ScanStep

(* canGetUrl keeps the sequencer's counters within their bounds. *)
LEMMA CanGetUrlType ==
    ASSUME TypeOK, NEW u \in Urls, CanGetUrl(u)
    PROVE  /\ diskQ' \in Seq(Urls) /\ WaitQAfterGet \in Seq(Urls)
           /\ Append(WaitQAfterGet, u) \in Seq(Urls)
           /\ readWait' \in Nat /\ space' \in Int /\ count' \in Int
           /\ ConnType' /\ fresh' \in SUBSET Urls
  <1>1. diskQ' \in Seq(Urls) /\ WaitQAfterGet \in Seq(Urls)
    BY Queues DEF QueueOf, TypeOK, QueueType, CanGetUrl, WaitQAfterGet
  <1>2. Append(WaitQAfterGet, u) \in Seq(Urls)
    BY <1>1, Queues DEF QueueOf
  <1>3. readWait' \in Nat /\ space' \in Int /\ count' \in Int
    BY DEF TypeOK, LoopType, QueueType, CanGetUrl
  <1> QED BY <1>1, <1>2, <1>3, Frames DEF CanGetUrl

(* Every step of sequencer and of putGenericUrl keeps the types. *)
LEMMA SequencerType ==
    ASSUME TypeOK, SequencerStep PROVE TypeOK'
  <1>1. ASSUME NEW u \in Urls, PutForget(u) PROVE TypeOK'
    <2>1. CanGetUrl(u)
      BY <1>1 DEF PutForget
    <2>2. LoopType'
      BY <1>1, <2>1, CanGetUrlType DEF TypeOK, LoopType, PutForget, CanGetUrl
    <2>3. QueueType'
      BY <1>1, <2>1, CanGetUrlType DEF TypeOK, QueueType, PutForget
    <2>4. SiteType'
      BY <1>1, <2>1 DEF TypeOK, SiteType, PutForget, CanGetUrl
    <2>5. IPType' /\ gone' \in SUBSET Urls
      BY <1>1, Frames DEF TypeOK, PutForget
    <2> QED BY <2>1, <2>2, <2>3, <2>4, <2>5, CanGetUrlType DEF TypeOK
  <1>2. ASSUME NEW u \in Urls, PutBack(u) PROVE TypeOK'
    <2>1. CanGetUrl(u)
      BY <1>2 DEF PutBack
    <2>2. LoopType'
      BY <1>2, <2>1, CanGetUrlType DEF TypeOK, LoopType, PutBack, CanGetUrl
    <2>3. QueueType'
      BY <1>2, <2>1, CanGetUrlType DEF TypeOK, QueueType, PutBack
    <2>4. SiteType'
      BY <1>2, <2>1 DEF TypeOK, SiteType, PutBack, CanGetUrl
    <2>5. IPType' /\ gone' \in SUBSET Urls
      BY <1>2, Frames DEF PutBack
    <2> QED BY <2>1, <2>2, <2>3, <2>4, <2>5, CanGetUrlType DEF TypeOK
  <1>3. ASSUME NEW u \in Urls, PutNamed(u) PROVE TypeOK'
    <2>1. CanGetUrl(u)
      BY <1>3 DEF PutNamed
    <2>2. LoopType'
      BY <1>3, <2>1, CanGetUrlType DEF TypeOK, LoopType, PutNamed, CanGetUrl
    <2>3. QueueType'
      BY <1>3, <2>1, CanGetUrlType DEF TypeOK, QueueType, PutNamed
    <2>4. /\ Slot(u) \in NamedSlots
          /\ Append(fifo[Slot(u)], u) \in Seq(Urls)
          /\ Append(dnsSites, Slot(u)) \in Seq(NamedSlots)
      BY UrlAssumption, Queues DEF QueueOf, TypeOK, SiteType
    <2>5. SiteType'
      BY <1>3, <2>1, <2>4 DEF TypeOK, SiteType, PutNamed, CanGetUrl
    <2>6. IPType' /\ gone' \in SUBSET Urls
      BY <1>3, Frames DEF PutNamed
    <2> QED BY <2>1, <2>2, <2>3, <2>5, <2>6, CanGetUrlType DEF TypeOK
  <1>4. ASSUME NEW u \in Urls, PutTransfer(u) PROVE TypeOK'
    <2>1. CanGetUrl(u) /\ PutUrl(id[Slot(u)].ip, u)
      BY <1>4 DEF PutTransfer
    <2>2. Slot(u) \in NamedSlots /\ id[Slot(u)].ip \in IPSlots
      BY UrlAssumption DEF TypeOK, SiteType, Identity
    <2>3. IPType' /\ fetching' \in IPSlots \cup {NoIP}
      BY <2>1, <2>2, PutUrlType
    <2>4. LoopType'
      BY <2>1, <2>3, CanGetUrlType DEF TypeOK, LoopType, CanGetUrl
    <2>5. QueueType'
      BY <1>4, <2>1, CanGetUrlType DEF TypeOK, QueueType, PutTransfer
    <2>6. SiteType'
      <3>1. nburls' \in [NamedSlots -> Int]
        BY <1>4, <2>2 DEF TypeOK, SiteType, PutTransfer
      <3>2. UNCHANGED <<id, fifo, inDns, dnsSites, asked, hops, nbDnsCalls>>
        BY <1>4, <2>1 DEF PutTransfer, CanGetUrl
      <3> QED BY <3>1, <3>2 DEF TypeOK, SiteType
    <2>7. gone' \in SUBSET Urls
      BY <1>4, Frames DEF PutTransfer
    <2> QED BY <2>1, <2>3, <2>4, <2>5, <2>6, <2>7, CanGetUrlType DEF TypeOK
  <1>5. ASSUME SequencerEnd PROVE TypeOK'
    <2>1. LoopType'
      BY <1>5 DEF TypeOK, LoopType, SequencerEnd
    <2> QED BY <1>5, <2>1, Frames DEF SequencerEnd, TypeOK
  <1> QED BY <1>1, <1>2, <1>3, <1>4, <1>5 DEF SequencerStep

\* The three ways newQuery and dnsAns go on: with d the identity they set.
LEMMA DnsOutcomeType ==
    ASSUME TypeOK, NEW s \in NamedSlots, NEW d \in Identity,
           NEW st \in ConnStates,
           DnsOK(s, d, st) \/ DnsNoSocket(s, d) \/ DnsErr(s, d)
    PROVE  /\ id' \in [NamedSlots -> Identity]
           /\ ConnType'
           /\ scanSite' \in NamedSlots \cup {NoSite}
           /\ scanLeft' \in Nat /\ closing' \in Conns \cup {0}
  <1>1. ASSUME NEW x \in DnsStates PROVE [d EXCEPT !.dnsState = x] \in Identity
    BY <1>1 DEF Identity
  <1>2. id' \in [NamedSlots -> Identity]
    BY <1>1 DEF TypeOK, SiteType, DnsOK, DnsNoSocket, DnsErr
  <1>3. freeConns # <<>> => /\ Head(freeConns) \in Conns
                            /\ Tail(freeConns) \in Seq(Conns)
                            /\ Append(Tail(freeConns), Head(freeConns)) \in Seq(Conns)
    BY Queues DEF QueueOf, TypeOK, ConnType
  <1>4. ConnType'
    <2>1. CASE DnsOK(s, d, st)
      BY <2>1, <1>3 DEF TypeOK, ConnType, DnsOK
    <2>2. CASE DnsNoSocket(s, d)
      BY <2>2, <1>3 DEF TypeOK, ConnType, DnsNoSocket
    <2>3. CASE DnsErr(s, d)
      BY <2>3, Frames DEF DnsErr
    <2> QED BY <2>1, <2>2, <2>3
  <1>5. Len(fifo[s]) \in Nat
    BY LenProperties DEF TypeOK, SiteType
  <1>6. /\ scanSite' \in NamedSlots \cup {NoSite}
        /\ scanLeft' \in Nat /\ closing' \in Conns \cup {0}
    BY <1>5 DEF TypeOK, LoopType, DnsOK, DnsNoSocket, DnsErr, StartScan, NoScan
  <1> QED BY <1>2, <1>4, <1>6

(* Taking a site off dnsSites in fetchDns keeps the types. *)
LEMMA SubmitType ==
    ASSUME TypeOK, WaitingIffHeld, SiteHeldOnce, NEW s \in NamedSlots, Submit(s)
    PROVE  /\ fifo[s] # <<>> /\ Head(fifo[s]) \in Urls
           /\ NewId(s) \in Identity
           /\ dnsSites' \in Seq(NamedSlots)
  <1>1. dnsSites \in Seq(NamedSlots) /\ dnsSites # <<>> /\ s = Head(dnsSites)
    BY DEF TypeOK, SiteType, Submit
  <1>2. s \in ToSet(dnsSites) /\ Tail(dnsSites) \in Seq(NamedSlots)
    BY <1>1, GetQueue
  <1>3. inDns[s] /\ scanSite # s
    BY <1>2, UrlAssumption DEF SiteHeldOnce, Submit, Idle, TypeOK, SiteType
  <1>4. fifo[s] # <<>>
    BY <1>3 DEF WaitingIffHeld
  <1>5. Head(fifo[s]) \in Urls
    BY <1>4, Queues DEF QueueOf, TypeOK, SiteType
  <1>6. HostOf[Head(fifo[s])] \in Hosts /\ PortOf[Head(fifo[s])] \in Ports
    BY <1>5, UrlAssumption
  <1>7. id[s] \in Identity /\ now + DnsValidTime \in Nat
    BY TimeAssumption DEF TypeOK, SiteType, LoopType
  <1>8. NewId(s) \in Identity
    BY <1>6, <1>7 DEF NewId, Identity
  <1> QED BY <1>2, <1>4, <1>5, <1>8 DEF Submit

\* The bookkeeping of the last answer for a site.
LEMMA LastAnswerType ==
    ASSUME TypeOK, NEW s \in NamedSlots, LastAnswer(s),
           id' \in [NamedSlots -> Identity]
    PROVE  SiteType'
  <1>1. asked[s] \in Nat /\ asked[s] > 0
    BY DEF TypeOK, SiteType, LastAnswer, Answer
  <1>2. asked' \in [NamedSlots -> Nat]
    BY <1>1 DEF TypeOK, SiteType, LastAnswer
  <1>3. hops' \in [NamedSlots -> Nat] /\ nbDnsCalls' \in Int
    BY DEF TypeOK, SiteType, LastAnswer
  <1>4. UNCHANGED <<nburls, fifo, inDns, dnsSites>>
    BY DEF LastAnswer, Answer
  <1> QED BY <1>2, <1>3, <1>4 DEF TypeOK, SiteType

(* Every submission and every answer of the resolver keeps the types. *)
LEMMA DnsType ==
    ASSUME TypeOK, WaitingIffHeld, SiteHeldOnce, DnsStep PROVE TypeOK'
  <1>1. ASSUME NEW s \in NamedSlots, NewQuery(s) PROVE TypeOK'
    <2>1. Submit(s)
      BY <1>1 DEF NewQuery
    <2>2. LoopType'
      BY <1>1, <2>1 DEF TypeOK, LoopType, NewQuery, NoScan, Submit
    <2>3. SiteType'
      <3>1. /\ id' = [id EXCEPT ![s] = NewId(s)]
            /\ asked' = [asked EXCEPT ![s] = @ + 1]
            /\ nbDnsCalls' = nbDnsCalls + 1
            /\ UNCHANGED <<nburls, fifo, inDns, hops>>
        BY <1>1, <2>1 DEF NewQuery, Submit
      <3>2. NewId(s) \in Identity /\ dnsSites' \in Seq(NamedSlots)
        BY <2>1, SubmitType
      <3>3. /\ id' \in [NamedSlots -> Identity] /\ asked' \in [NamedSlots -> Nat]
            /\ nbDnsCalls' \in Int
        BY <3>1, <3>2 DEF TypeOK, SiteType
      <3> QED BY <3>1, <3>2, <3>3 DEF TypeOK, SiteType
    <2> QED BY <1>1, <2>1, <2>2, <2>3, Frames DEF TypeOK, NewQuery, Submit
  <1>2. ASSUME NEW s \in NamedSlots, NewNonsense(s) PROVE TypeOK'
    <2>1. Submit(s) /\ DnsErr(s, NewId(s))
      BY <1>2 DEF NewNonsense
    <2>2. NewId(s) \in Identity /\ dnsSites' \in Seq(NamedSlots)
      BY <2>1, SubmitType
    <2>3. /\ id' \in [NamedSlots -> Identity]
          /\ ConnType'
          /\ scanSite' \in NamedSlots \cup {NoSite}
          /\ scanLeft' \in Nat /\ closing' \in Conns \cup {0}
      BY <2>1, <2>2, DnsOutcomeType
    <2>4. LoopType'
      BY <2>1, <2>3 DEF TypeOK, LoopType, Submit
    <2>5. SiteType'
      BY <1>2, <2>1, <2>2, <2>3 DEF TypeOK, SiteType, NewNonsense, Submit
    <2> QED BY <2>1, <2>3, <2>4, <2>5, Frames DEF TypeOK, Submit
  <1>3. ASSUME NEW s \in NamedSlots, NEW ip \in IPSlots,
               NEW st \in getFds, NewNumeric(s, ip, st)
        PROVE  TypeOK'
    <2> DEFINE d == [NewId(s) EXCEPT !.ip = ip]
    <2>1. Submit(s) /\ (DnsNoSocket(s, d) \/ DnsOK(s, d, st))
      BY <1>3 DEF NewNumeric
    <2>2. d \in Identity /\ dnsSites' \in Seq(NamedSlots)
      BY <2>1, SubmitType DEF Identity
    <2>3. /\ id' \in [NamedSlots -> Identity]
          /\ ConnType'
          /\ scanSite' \in NamedSlots \cup {NoSite}
          /\ scanLeft' \in Nat /\ closing' \in Conns \cup {0}
      <3> HIDE DEF d
      <3> QED BY <2>1, <2>2, DnsOutcomeType
    <2>4. LoopType'
      BY <2>1, <2>3 DEF TypeOK, LoopType, Submit
    <2>5. SiteType'
      BY <1>3, <2>1, <2>2, <2>3 DEF TypeOK, SiteType, NewNumeric, Submit
    <2> QED BY <2>1, <2>3, <2>4, <2>5, Frames DEF TypeOK, Submit
  <1>4. ASSUME NEW s \in NamedSlots, NEW ip \in IPSlots,
               NEW st \in getFds, AnswerOk(s, ip, st)
        PROVE  TypeOK'
    <2> DEFINE d == [id[s] EXCEPT !.ip = ip]
    <2>1. LastAnswer(s) /\ Answer(s) /\ (DnsNoSocket(s, d) \/ DnsOK(s, d, st))
      BY <1>4 DEF AnswerOk, LastAnswer
    <2>2. d \in Identity
      BY DEF TypeOK, SiteType, Identity
    <2>3. /\ id' \in [NamedSlots -> Identity]
          /\ ConnType'
          /\ scanSite' \in NamedSlots \cup {NoSite}
          /\ scanLeft' \in Nat /\ closing' \in Conns \cup {0}
      <3> HIDE DEF d
      <3> QED BY <2>1, <2>2, DnsOutcomeType
    <2>4. LoopType'
      BY <2>1, <2>3 DEF TypeOK, LoopType, Answer
    <2>5. SiteType'
      BY <2>1, <2>3, LastAnswerType
    <2> QED BY <2>1, <2>3, <2>4, <2>5, Frames DEF TypeOK, Answer
  <1>5. ASSUME NEW s \in NamedSlots, AnswerError(s) PROVE TypeOK'
    <2>1. LastAnswer(s) /\ Answer(s) /\ DnsErr(s, id[s]) /\ id[s] \in Identity
      BY <1>5 DEF AnswerError, LastAnswer, TypeOK, SiteType
    <2>2. /\ id' \in [NamedSlots -> Identity]
          /\ ConnType'
          /\ scanSite' \in NamedSlots \cup {NoSite}
          /\ scanLeft' \in Nat /\ closing' \in Conns \cup {0}
      BY <2>1, DnsOutcomeType
    <2>3. LoopType'
      BY <2>1, <2>2 DEF TypeOK, LoopType, Answer
    <2>4. SiteType'
      BY <2>1, <2>2, LastAnswerType
    <2> QED BY <2>1, <2>2, <2>3, <2>4, Frames DEF TypeOK, Answer
  <1>6. ASSUME NEW s \in NamedSlots, AnswerCname(s) PROVE TypeOK'
    <2>1. LoopType'
      BY <1>6 DEF TypeOK, LoopType, AnswerCname, Answer, NoScan
    <2>2. SiteType'
      BY <1>6 DEF TypeOK, SiteType, AnswerCname, Answer
    <2> QED BY <1>6, <2>1, <2>2, Frames DEF TypeOK, AnswerCname, Answer
  <1>7. ASSUME SubmitEnd \/ AnswersEnd PROVE TypeOK'
    <2>1. LoopType'
      BY <1>7 DEF TypeOK, LoopType, SubmitEnd, AnswersEnd
    <2> QED BY <1>7, <2>1, Frames DEF TypeOK, SubmitEnd, AnswersEnd
  <1> QED BY <1>1, <1>2, <1>3, <1>4, <1>5, <1>6, <1>7 DEF DnsStep

(* Every round of fetchOpen keeps the types. *)
LEMMA OpenType ==
    ASSUME TypeOK, OpenStep PROVE TypeOK'
  <1>1. ASSUME OpenSite PROVE TypeOK'
    <2>1. Head(okSites) \in IPSlots /\ okSites' \in Seq(IPSlots)
      BY <1>1, Queues DEF QueueOf, TypeOK, IPType, OpenSite
    <2>2. LoopType' /\ IPType'
      BY <1>1, <2>1 DEF TypeOK, LoopType, IPType, OpenSite
    <2> QED BY <1>1, <2>2, Frames DEF TypeOK, OpenSite
  <1>2. ASSUME OpenEnd PROVE TypeOK'
    <2>1. LoopType'
      BY <1>2 DEF TypeOK, LoopType, OpenEnd
    <2> QED BY <1>2, <2>1, Frames DEF TypeOK, OpenEnd
  <1> QED BY <1>1, <1>2 DEF OpenStep

\* endOfFile, for a robots.txt and for a page.
LEMMA EndOfFileType ==
    ASSUME TypeOK, ConnServesOne, NEW c \in Conns, NEW refused \in BOOLEAN,
           NEW f \in SUBSET Files, EndOfFile(c, refused, f)
    PROVE  /\ QueueType' /\ SiteType' /\ IPType' /\ ConnType'
           /\ scanSite' \in NamedSlots \cup {NoSite}
           /\ scanLeft' \in Nat /\ closing' \in Conns \cup {0}
           /\ fresh' \in SUBSET Urls /\ gone' \in SUBSET Urls
  <1>1. QueueType' /\ IPType' /\ fresh' \in SUBSET Urls
    BY Frames DEF EndOfFile
  <1>2. CASE EndOfRobots(c, refused, f)
    <2>1. server[c] \in NamedSlots
      BY <1>2 DEF TypeOK, ConnType, EndOfRobots
    <2> DEFINE x == IF refused THEN "noConnDns" ELSE "doneDns"
    <2>a. x \in DnsStates
      OBVIOUS
    <2>b. id[server[c]] \in Identity
      BY <2>1 DEF TypeOK, SiteType
    <2>2. [id[server[c]] EXCEPT !.dnsState = x, !.forbidden = f] \in Identity
      <3> HIDE DEF x
      <3> QED BY <2>a, <2>b DEF Identity
    <2>3. id' \in [NamedSlots -> Identity]
      BY <1>2, <2>1, <2>2 DEF TypeOK, SiteType, EndOfRobots
    <2>4. SiteType'
      BY <2>3 DEF TypeOK, SiteType, EndOfFile
    <2>5. ConnType'
      BY <1>2 DEF TypeOK, ConnType, EndOfFile, EndOfRobots
    <2>6. Len(fifo[server[c]]) \in Nat
      BY <2>1, LenProperties DEF TypeOK, SiteType
    <2>7. /\ scanSite' \in NamedSlots \cup {NoSite}
          /\ scanLeft' \in Nat /\ closing' \in Conns \cup {0}
      BY <1>2, <2>1, <2>6 DEF EndOfRobots, StartScan
    <2> QED BY <1>1, <1>2, <2>4, <2>5, <2>7, Frames DEF EndOfRobots
  <1>3. CASE EndOfPage(c)
    <2>1. here[c] \in Urls
      BY <1>3 DEF TypeOK, ConnType, EndOfFile, EndOfPage, ConnServesOne
    <2>2. freeConns' \in Seq(Conns)
      BY <1>3, Queues DEF QueueOf, TypeOK, ConnType, EndOfPage
    <2>3. ConnType'
      BY <1>3, <2>2 DEF TypeOK, ConnType, EndOfFile, EndOfPage
    <2>4. SiteType'
      BY <1>3 DEF TypeOK, SiteType, EndOfFile, EndOfPage
    <2>5. /\ scanSite' \in NamedSlots \cup {NoSite}
          /\ scanLeft' \in Nat /\ closing' \in Conns \cup {0}
      BY <1>3 DEF TypeOK, LoopType, EndOfPage, NoScan
    <2> QED BY <1>1, <1>3, <2>1, <2>3, <2>4, <2>5 DEF TypeOK, EndOfPage
  <1> QED BY <1>2, <1>3 DEF EndOfFile

(* Every event on a connexion keeps the types. *)
LEMMA PipeType ==
    ASSUME TypeOK, ConnServesOne, PipeStep PROVE TypeOK'
  <1>1. ASSUME NEW c \in Conns, KeepAlive(c) \/ NotYet(c) PROVE TypeOK'
    <2>1. LoopType'
      BY <1>1 DEF TypeOK, LoopType, KeepAlive, NotYet, Visit
    <2> QED BY <1>1, <2>1, Frames DEF TypeOK, KeepAlive, NotYet
  <1>2. ASSUME NEW c \in Conns, NEW st \in ConnStates, Written(c, st) PROVE TypeOK'
    <2>1. LoopType' /\ ConnType'
      BY <1>2 DEF TypeOK, LoopType, ConnType, Written, Visit
    <2> QED BY <1>2, <2>1, Frames DEF TypeOK, Written
  <1>3. ASSUME NEW c \in Conns, NEW f \in SUBSET Files,
               TimeOut(c, f) \/ Refused(c, f) \/ Ended(c, f)
        PROVE  TypeOK'
    <2>1. PICK refused \in BOOLEAN : EndOfFile(c, refused, f)
      BY <1>3 DEF TimeOut, Refused, Ended
    <2>2. Visit(c, phase)
      BY <1>3 DEF TimeOut, Refused, Ended, Visit
    <2>3. UNCHANGED <<now, phase, fetching>> /\ count' \in Int
      BY <2>1, <2>2 DEF TypeOK, LoopType, EndOfFile, Visit
    <2>4. /\ QueueType' /\ SiteType' /\ IPType' /\ ConnType'
          /\ scanSite' \in NamedSlots \cup {NoSite}
          /\ scanLeft' \in Nat /\ closing' \in Conns \cup {0}
          /\ fresh' \in SUBSET Urls /\ gone' \in SUBSET Urls
      BY <2>1, EndOfFileType
    <2>5. LoopType'
      BY <2>3, <2>4 DEF TypeOK, LoopType
    <2> QED BY <2>4, <2>5 DEF TypeOK
  <1> QED BY <1>1, <1>2, <1>3 DEF PipeStep

(* Every step between two phases of the main loop keeps the types. *)
LEMMA LoopStepType ==
    ASSUME TypeOK, CheckEnd \/ CronEnd \/ \E t \in now..MaxNow : LoopTop(t)
    PROVE  TypeOK'
  <1>1. CASE CheckEnd
    <2>1. LoopType'
      BY <1>1 DEF TypeOK, LoopType, CheckEnd
    <2> QED BY <1>1, <2>1, Frames DEF TypeOK, CheckEnd
  <1>2. CASE CronEnd
    <2>1. Len(waitQ) \in Nat
      BY LenProperties DEF TypeOK, QueueType
    <2>2. LoopType' /\ QueueType'
      BY <1>2, <2>1, SizeAssumption
      DEF TypeOK, LoopType, QueueType, CronEnd, StartSequencer
    <2> QED BY <1>2, <2>2, Frames DEF TypeOK, CronEnd
  <1>3. ASSUME NEW t \in now..MaxNow, LoopTop(t) PROVE TypeOK'
    <2>1. t \in Nat
      BY TimeAssumption DEF TypeOK, LoopType
    <2>2. LoopType' /\ QueueType'
      BY <1>3, <2>1, SizeAssumption
      DEF TypeOK, LoopType, QueueType, LoopTop, StartSequencer
    <2> QED BY <1>3, <2>2, Frames DEF TypeOK, LoopTop
  <1> QED BY <1>1, <1>2, <1>3

(* A url that arrives from the outside keeps the types. *)
LEMMA ArriveType ==
    ASSUME TypeOK, NEW u \in Urls, Arrive(u) PROVE TypeOK'
  <1>1. diskQ' \in Seq(Urls)
    BY Queues DEF QueueOf, TypeOK, QueueType, Arrive
  <1>2. LoopType' /\ QueueType' /\ fresh' \in SUBSET Urls
    BY <1>1 DEF TypeOK, LoopType, QueueType, Arrive, loopVars
  <1> QED BY <1>2, Frames DEF TypeOK, Arrive

(* Every step of the crawler thread keeps the types. *)
LEMMA NextType ==
    ASSUME TypeOK, ConnServesOne, SiteHeldOnce, WaitingIffHeld, [Next]_vars
    PROVE  TypeOK'
  <1>1. CASE UNCHANGED vars
    <2>1. LoopType'
      BY <1>1 DEF TypeOK, LoopType, vars, loopVars
    <2> QED BY <1>1, <2>1, Frames DEF TypeOK, vars
  <1>2. CASE Next
    BY <1>2, FetchType, ScanType, SequencerType, DnsType, OpenType, PipeType,
       LoopStepType, ArriveType DEF Next, ThreadNext
  <1> QED BY <1>1, <1>2

-----------------------------------------------------------------------------
(* The inductive invariant *)

Core == TypeOK /\ FreeConnsExact /\ ConnServesOne /\ SiteHeldOnce /\ WaitingIffHeld

-----------------------------------------------------------------------------
(* The initial state, and what a step leaves alone *)

\* At start every connexion is free and no site is held.
LEMMA InitCore == Init => Core
  <1> SUFFICES ASSUME Init PROVE Core
    OBVIOUS
  <1>1. TypeOK
    BY InitType
  <1>2. FreeConnsExact
    <2>1. DOMAIN freeConns = Conns /\ \A c \in Conns : freeConns[c] = c
      BY DEF Init
    <2>2. IsInjective(freeConns)
      BY <2>1 DEF IsInjective
    <2>3. ToSet(freeConns) = Conns
      BY <2>1 DEF ToSet
    <2>4. \A c \in 1..NbConn : c # 0
      BY SizeAssumption
    <2>5. \A c \in Conns : connState[c] = "emptyC" /\ c # closing
      BY <2>4 DEF Init
    <2> QED BY <2>2, <2>3, <2>5 DEF FreeConnsExact
  <1>3. ConnServesOne
    BY DEF Init, ConnServesOne
  <1>4. ToSet(dnsSites) = {} /\ IsInjective(dnsSites)
    BY DEF Init, IsInjective, ToSet
  <1>5. SiteHeldOnce
    BY <1>4, UrlAssumption DEF Init, SiteHeldOnce
  <1>6. WaitingIffHeld
    BY DEF Init, WaitingIffHeld
  <1> QED BY <1>1, <1>2, <1>3, <1>5, <1>6 DEF Core

\* Each part of Core depends on a few variables.
LEMMA CoreFrames ==
    ASSUME Core
    PROVE  /\ UNCHANGED <<connState, closing, freeConns>> => FreeConnsExact'
           /\ UNCHANGED <<connState, server, here, scanSite, closing>> => ConnServesOne'
           /\ UNCHANGED <<inDns, dnsSites, asked, server, scanSite, closing>> => SiteHeldOnce'
           /\ UNCHANGED <<fifo, inDns, scanSite, scanLeft>> => WaitingIffHeld'
  <1>1. UNCHANGED <<connState, closing, freeConns>> => FreeConnsExact'
    BY DEF Core, FreeConnsExact
  <1>2. UNCHANGED <<connState, server, here, scanSite, closing>> => ConnServesOne'
    BY DEF Core, ConnServesOne
  <1>3. UNCHANGED <<inDns, dnsSites, asked, server, scanSite, closing>> => SiteHeldOnce'
    BY DEF Core, SiteHeldOnce
  <1>4. UNCHANGED <<fifo, inDns, scanSite, scanLeft>> => WaitingIffHeld'
    BY DEF Core, WaitingIffHeld
  <1> QED BY <1>1, <1>2, <1>3, <1>4

\* The connexion get() returns is free, and serves nothing.
LEMMA HeadConn ==
    ASSUME Core, freeConns # <<>>
    PROVE  LET c == Head(freeConns) IN
           /\ c \in Conns /\ c # closing /\ c # 0
           /\ connState[c] = "emptyC" /\ server[c] = NoSite /\ here[c] = NoUrl
           /\ Tail(freeConns) \in Seq(Conns)
           /\ IsInjective(Tail(freeConns))
           /\ ToSet(Tail(freeConns)) = ToSet(freeConns) \ {c}
           /\ c \notin ToSet(Tail(freeConns))
           /\ IsInjective(Append(Tail(freeConns), c))
           /\ ToSet(Append(Tail(freeConns), c)) = ToSet(freeConns)
  <1> DEFINE c == Head(freeConns)
             rest == Tail(freeConns)
  <1>1. freeConns \in Seq(Conns) /\ IsInjective(freeConns)
    BY DEF Core, TypeOK, ConnType, FreeConnsExact
  <1>2. /\ c \in Conns /\ c \in ToSet(freeConns)
        /\ rest \in Seq(Conns) /\ IsInjective(rest)
        /\ ToSet(rest) = ToSet(freeConns) \ {c}
    BY <1>1, GetQueue
  <1>3. connState[c] = "emptyC" /\ c # closing
    BY <1>2 DEF Core, FreeConnsExact
  <1>4. server[c] = NoSite /\ here[c] = NoUrl
    BY <1>2, <1>3 DEF Core, ConnServesOne
  <1>5. IsInjective(Append(rest, c)) /\ ToSet(Append(rest, c)) = ToSet(freeConns)
    BY <1>1, RotateQueue
  <1>6. c # 0
    <2> HIDE DEF c, rest
    <2> QED BY <1>2, SizeAssumption
  <1> HIDE DEF c, rest
  <1> QED BY <1>2, <1>3, <1>4, <1>5, <1>6 DEF c, rest

-----------------------------------------------------------------------------
(* The pool of connexions *)

\* A free connexion is given out: it opens, for a page or for a site.
LEMMA PoolGet ==
    ASSUME Core, freeConns # <<>>, NEW st \in ConnStates, st # "emptyC",
           NEW s \in NamedSlots \cup {NoSite}, NEW u \in Urls \cup {NoUrl},
           s # NoSite <=> u = NoUrl,
           connState' = [connState EXCEPT ![Head(freeConns)] = st],
           server' = [server EXCEPT ![Head(freeConns)] = s],
           here' = [here EXCEPT ![Head(freeConns)] = u],
           freeConns' = Tail(freeConns),
           UNCHANGED <<scanSite, closing>>
    PROVE  FreeConnsExact' /\ ConnServesOne'
  <1> DEFINE c == Head(freeConns)
  <1>1. /\ c \in Conns /\ c # closing /\ c # 0
        /\ connState[c] = "emptyC" /\ server[c] = NoSite /\ here[c] = NoUrl
        /\ IsInjective(Tail(freeConns))
        /\ ToSet(Tail(freeConns)) = ToSet(freeConns) \ {c}
    BY HeadConn
  <1> HIDE DEF c
  <1>2. \A d \in Conns : /\ connState'[d] = IF d = c THEN st ELSE connState[d]
                         /\ server'[d] = IF d = c THEN s ELSE server[d]
                         /\ here'[d] = IF d = c THEN u ELSE here[d]
    BY DEF c, Core, TypeOK, ConnType
  <1>3. IsInjective(freeConns)' /\ ToSet(freeConns)' = ToSet(freeConns) \ {c}
    BY <1>1
  <1>4. FreeConnsExact'
    BY <1>1, <1>2, <1>3 DEF Core, FreeConnsExact
  <1>5. closing \in Conns \cup {0}
    BY DEF Core, TypeOK, LoopType
  <1>6. ConnServesOne'
    BY <1>1, <1>2, <1>5 DEF Core, ConnServesOne
  <1> QED BY <1>4, <1>6

\* getFds failed: the connexion goes back to the pool it came from.
LEMMA PoolRotate ==
    ASSUME Core, freeConns # <<>>,
           freeConns' = Append(Tail(freeConns), Head(freeConns)),
           UNCHANGED <<connState, closing>>
    PROVE  FreeConnsExact'
  <1>1. /\ IsInjective(freeConns)'
        /\ ToSet(freeConns)' = ToSet(freeConns)
    BY HeadConn
  <1> QED BY <1>1 DEF Core, FreeConnsExact

\* The thread between two handlers: no scan, so no connexion is closing.
LEMMA IdleClosing ==
    ASSUME Core, Idle
    PROVE  scanSite = NoSite /\ closing = 0
  BY DEF Core, ConnServesOne, Idle

-----------------------------------------------------------------------------
(* The named sites *)

\* A site that was queued or asked is taken by what newQuery or dnsAns does
\* next: the connexion that fetches its robots.txt, or the scan of dnsErr.
LEMMA DnsOutcome ==
    ASSUME Core, Idle, NEW s \in NamedSlots, NEW d, NEW st \in ConnStates,
           \/ st # "emptyC" /\ DnsOK(s, d, st)
           \/ DnsNoSocket(s, d)
           \/ DnsErr(s, d)
    PROVE  /\ FreeConnsExact' /\ ConnServesOne'
           /\ \/ /\ UNCHANGED <<scanSite, scanLeft, closing>>
                 /\ server' = [server EXCEPT ![Head(freeConns)] = s]
                 /\ Head(freeConns) \in Conns
              \/ /\ UNCHANGED server
                 /\ scanSite' = s /\ closing' = 0
                 /\ scanLeft' = Len(fifo[s])
  <1>1. scanSite = NoSite /\ closing = 0 /\ s # NoSite
    BY IdleClosing, UrlAssumption
  <1>2. CASE st # "emptyC" /\ DnsOK(s, d, st)
    <2>1. here = [here EXCEPT ![Head(freeConns)] = NoUrl]
      BY <1>2, HeadConn DEF DnsOK, Core, TypeOK, ConnType
    <2>2. FreeConnsExact' /\ ConnServesOne'
      BY <1>1, <1>2, <2>1, PoolGet DEF DnsOK, NoScan
    <2> QED BY <1>2, <2>2, HeadConn DEF DnsOK, NoScan
  <1>3. CASE DnsNoSocket(s, d)
    <2>1. FreeConnsExact'
      BY <1>1, <1>3, PoolRotate DEF DnsNoSocket, StartScan
    <2>2. ConnServesOne'
      BY <1>1, <1>3 DEF Core, ConnServesOne, DnsNoSocket, StartScan
    <2> QED BY <1>3, <2>1, <2>2 DEF DnsNoSocket, StartScan
  <1>4. CASE DnsErr(s, d)
    <2>1. FreeConnsExact'
      BY <1>1, <1>4 DEF Core, FreeConnsExact, DnsErr, StartScan, connVars
    <2>2. ConnServesOne'
      BY <1>1, <1>4 DEF Core, ConnServesOne, DnsErr, StartScan, connVars
    <2> QED BY <1>4, <2>1, <2>2 DEF DnsErr, StartScan, connVars
  <1> QED BY <1>2, <1>3, <1>4

\* A site that leaves dnsSites, or whose query is answered, is held by exactly
\* the connexion or the scan that DnsOutcome gives it.
LEMMA DnsTaken ==
    ASSUME Core, Idle, NEW s \in NamedSlots,
           inDns[s], \A c \in Conns : server[c] # s,
           IsInjective(dnsSites)', ToSet(dnsSites)' = ToSet(dnsSites) \ {s},
           \A t \in NamedSlots : asked'[t] = IF t = s THEN 0 ELSE asked[t],
           UNCHANGED inDns,
           \/ /\ UNCHANGED <<scanSite, closing>>
              /\ server' = [server EXCEPT ![Head(freeConns)] = s]
              /\ freeConns # <<>>
           \/ /\ UNCHANGED server
              /\ scanSite' = s /\ closing' = 0
    PROVE  SiteHeldOnce'
  <1>1. scanSite = NoSite /\ closing = 0 /\ s # NoSite /\ s \in NamedSlots
    BY IdleClosing, UrlAssumption
  <1>2. /\ \A t \in NamedSlots : asked[t] <= 1 /\ asked[t] \in Nat
        /\ \A c, d \in Conns : server[c] = server[d] /\ c # d => server[c] = NoSite
    BY DEF Core, SiteHeldOnce, TypeOK, SiteType
  <1>3. CASE /\ UNCHANGED <<scanSite, closing>>
             /\ server' = [server EXCEPT ![Head(freeConns)] = s]
             /\ freeConns # <<>>
    <2> DEFINE k == Head(freeConns)
    <2>1. k \in Conns /\ server[k] = NoSite
      BY <1>3, HeadConn
    <2>2. \A c \in Conns : server'[c] = IF c = k THEN s ELSE server[c]
      BY <1>3, <2>1 DEF Core, TypeOK, ConnType
    <2> HIDE DEF k
    <2>3. \A c, d \in Conns : server'[c] = server'[d] /\ c # d => server'[c] = NoSite
      BY <1>2, <2>1, <2>2
    <2>4. \A t \in NamedSlots : (\E c \in Conns : server'[c] = t)
                                  <=> t = s \/ \E c \in Conns : server[c] = t
      BY <2>1, <2>2, UrlAssumption
    <2>5. \A t \in NamedSlots : scanSite' # t /\ scanSite # t
      BY <1>1, <1>3, UrlAssumption
    <2> QED BY <1>1, <1>2, <2>3, <2>4, <2>5 DEF Core, SiteHeldOnce
  <1>4. CASE /\ UNCHANGED server
             /\ scanSite' = s /\ closing' = 0
    <2>1. \A t \in NamedSlots : scanSite # t
      BY <1>1, UrlAssumption
    <2> QED BY <1>1, <1>2, <1>4, <2>1 DEF Core, SiteHeldOnce
  <1> QED BY <1>3, <1>4

\* newQuery takes the head of dnsSites, which nothing else holds.
LEMMA SubmitHeld ==
    ASSUME Core, NEW s \in NamedSlots, Submit(s)
    PROVE  /\ inDns[s] /\ \A c \in Conns : server[c] # s
           /\ asked[s] = 0
           /\ IsInjective(dnsSites)' /\ ToSet(dnsSites)' = ToSet(dnsSites) \ {s}
           /\ fifo[s] # <<>>
  <1>1. /\ dnsSites \in Seq(NamedSlots) /\ dnsSites # <<>> /\ IsInjective(dnsSites)
        /\ s = Head(dnsSites) /\ dnsSites' = Tail(dnsSites)
    BY DEF Core, TypeOK, SiteType, SiteHeldOnce, Submit
  <1>2. s \in ToSet(dnsSites)
    BY <1>1, GetQueue
  <1>3. IsInjective(dnsSites)' /\ ToSet(dnsSites)' = ToSet(dnsSites) \ {s}
    BY <1>1, GetQueue
  <1>4. inDns[s] /\ (\A c \in Conns : server[c] # s) /\ ~(asked[s] > 0)
    BY <1>2 DEF Core, SiteHeldOnce
  <1>5. asked[s] = 0
    BY <1>4 DEF Core, TypeOK, SiteType
  <1>6. scanSite # s
    BY UrlAssumption DEF Submit, Idle
  <1>7. fifo[s] # <<>>
    BY <1>4, <1>6 DEF Core, WaitingIffHeld
  <1> QED BY <1>3, <1>4, <1>5, <1>7

\* The site of an answer has no other holder than its query.
LEMMA AnswerHeld ==
    ASSUME Core, NEW s \in NamedSlots, LastAnswer(s)
    PROVE  /\ inDns[s] /\ \A c \in Conns : server[c] # s
           /\ \A t \in NamedSlots : asked'[t] = IF t = s THEN 0 ELSE asked[t]
           /\ IsInjective(dnsSites)' /\ ToSet(dnsSites)' = ToSet(dnsSites) \ {s}
           /\ fifo[s] # <<>>
  <1>1. asked[s] \in Nat /\ asked[s] > 0 /\ asked[s] <= 1
    BY DEF LastAnswer, Answer, Core, TypeOK, SiteType, SiteHeldOnce
  <1>2. inDns[s] /\ (\A c \in Conns : server[c] # s) /\ s \notin ToSet(dnsSites)
    BY <1>1 DEF Core, SiteHeldOnce
  <1>3. \A t \in NamedSlots : asked'[t] = IF t = s THEN 0 ELSE asked[t]
    BY <1>1 DEF LastAnswer, Core, TypeOK, SiteType
  <1>4. IsInjective(dnsSites)' /\ ToSet(dnsSites)' = ToSet(dnsSites) \ {s}
    BY <1>2 DEF LastAnswer, Answer, Core, SiteHeldOnce
  <1>5. scanSite # s
    BY UrlAssumption DEF LastAnswer, Answer, Idle
  <1>6. fifo[s] # <<>>
    BY <1>2, <1>5 DEF Core, WaitingIffHeld
  <1> QED BY <1>2, <1>3, <1>4, <1>6

\* A scan that starts on a held site finds no more urls than the fifo has.
LEMMA ScanStarts ==
    ASSUME Core, Idle, NEW s \in NamedSlots, UNCHANGED <<fifo, inDns>>,
           \/ UNCHANGED <<scanSite, scanLeft>>
           \/ scanSite' = s /\ scanLeft' = Len(fifo[s])
    PROVE  WaitingIffHeld'
  <1>1. CASE UNCHANGED <<scanSite, scanLeft>>
    BY <1>1, CoreFrames
  <1>2. CASE scanSite' = s /\ scanLeft' = Len(fifo[s])
    <2>1. \A t \in NamedSlots : scanSite # t
      BY UrlAssumption DEF Idle
    <2>2. Len(fifo[s]) \in Nat
      BY LenProperties DEF Core, TypeOK, SiteType
    <2> QED BY <1>2, <2>1, <2>2 DEF Core, WaitingIffHeld
  <1> QED BY <1>1, <1>2

\* fetchDns keeps Core.
LEMMA DnsCore ==
    ASSUME Core, DnsStep
    PROVE  FreeConnsExact' /\ ConnServesOne' /\ SiteHeldOnce' /\ WaitingIffHeld'
  <1>1. ASSUME NEW s \in NamedSlots, NEW d, NEW st \in ConnStates, Submit(s),
               UNCHANGED asked,
               \/ st # "emptyC" /\ DnsOK(s, d, st)
               \/ DnsNoSocket(s, d)
               \/ DnsErr(s, d)
        PROVE  FreeConnsExact' /\ ConnServesOne' /\ SiteHeldOnce' /\ WaitingIffHeld'
    <2>1. Idle /\ UNCHANGED <<inDns, fifo>>
      BY <1>1 DEF Submit
    <2>2. /\ inDns[s] /\ \A c \in Conns : server[c] # s
          /\ \A t \in NamedSlots : asked'[t] = IF t = s THEN 0 ELSE asked[t]
          /\ IsInjective(dnsSites)' /\ ToSet(dnsSites)' = ToSet(dnsSites) \ {s}
      BY <1>1, SubmitHeld
    <2>3. freeConns # <<>>
      BY <1>1 DEF Submit, MaySubmit
    <2>4. FreeConnsExact' /\ ConnServesOne'
      BY <1>1, <2>1, DnsOutcome
    <2>5. SiteHeldOnce'
      BY <1>1, <2>1, <2>2, <2>3, DnsOutcome, DnsTaken
    <2>6. WaitingIffHeld'
      BY <1>1, <2>1, DnsOutcome, ScanStarts
    <2> QED BY <2>4, <2>5, <2>6
  <1>2. ASSUME NEW s \in NamedSlots, NEW d, NEW st \in ConnStates, LastAnswer(s),
               \/ st # "emptyC" /\ DnsOK(s, d, st)
               \/ DnsNoSocket(s, d)
               \/ DnsErr(s, d)
        PROVE  FreeConnsExact' /\ ConnServesOne' /\ SiteHeldOnce' /\ WaitingIffHeld'
    <2>1. Idle /\ UNCHANGED <<inDns, fifo>> /\ freeConns # <<>>
      BY <1>2 DEF LastAnswer, Answer
    <2>2. /\ inDns[s] /\ \A c \in Conns : server[c] # s
          /\ \A t \in NamedSlots : asked'[t] = IF t = s THEN 0 ELSE asked[t]
          /\ IsInjective(dnsSites)' /\ ToSet(dnsSites)' = ToSet(dnsSites) \ {s}
      BY <1>2, AnswerHeld
    <2>4. FreeConnsExact' /\ ConnServesOne'
      BY <1>2, <2>1, DnsOutcome
    <2>5. SiteHeldOnce'
      BY <1>2, <2>1, <2>2, DnsOutcome, DnsTaken
    <2>6. WaitingIffHeld'
      BY <1>2, <2>1, DnsOutcome, ScanStarts
    <2> QED BY <2>4, <2>5, <2>6
  <1>3. ASSUME NEW s \in NamedSlots, NewQuery(s)
        PROVE  FreeConnsExact' /\ ConnServesOne' /\ SiteHeldOnce' /\ WaitingIffHeld'
    <2>1. Submit(s) /\ UNCHANGED <<inDns, fifo, scanSite, scanLeft, closing, connState, server, here, freeConns>>
      BY <1>3 DEF NewQuery, Submit, NoScan, connVars
    <2>2. /\ asked[s] = 0 /\ inDns[s] /\ \A c \in Conns : server[c] # s
          /\ IsInjective(dnsSites)' /\ ToSet(dnsSites)' = ToSet(dnsSites) \ {s}
      BY <2>1, SubmitHeld
    <2>3. \A t \in NamedSlots : asked'[t] = IF t = s THEN 1 ELSE asked[t]
      BY <1>3, <2>2 DEF NewQuery, Core, TypeOK, SiteType
    <2>4. \A t \in NamedSlots : scanSite # t
      BY <2>1, UrlAssumption DEF Submit, Idle
    <2>5. SiteHeldOnce'
      BY <2>1, <2>2, <2>3, <2>4 DEF Core, SiteHeldOnce
    <2> QED BY <2>1, <2>5, CoreFrames
  <1>4. ASSUME NEW s \in NamedSlots, NewNonsense(s) \/ AnswerError(s)
        PROVE  FreeConnsExact' /\ ConnServesOne' /\ SiteHeldOnce' /\ WaitingIffHeld'
    <2>1. \/ Submit(s) /\ UNCHANGED asked /\ DnsErr(s, NewId(s))
          \/ LastAnswer(s) /\ DnsErr(s, id[s])
      BY <1>4 DEF NewNonsense, AnswerError
    <2> QED BY <1>1, <1>2, <2>1
  <1>5. ASSUME NEW s \in NamedSlots, NEW ip \in IPSlots,
               NEW st \in getFds,
               NewNumeric(s, ip, st) \/ AnswerOk(s, ip, st)
        PROVE  FreeConnsExact' /\ ConnServesOne' /\ SiteHeldOnce' /\ WaitingIffHeld'
    <2>1. PICK d : /\ \/ Submit(s) /\ UNCHANGED asked
                      \/ LastAnswer(s)
                   /\ \/ st # "emptyC" /\ DnsOK(s, d, st)
                      \/ DnsNoSocket(s, d)
      BY <1>5 DEF NewNumeric, AnswerOk
    <2> QED BY <1>1, <1>2, <2>1
  <1>6. ASSUME NEW s \in NamedSlots, AnswerCname(s)
        PROVE  FreeConnsExact' /\ ConnServesOne' /\ SiteHeldOnce' /\ WaitingIffHeld'
    BY <1>6, CoreFrames DEF AnswerCname, Answer, NoScan, connVars
  <1>7. ASSUME SubmitEnd \/ AnswersEnd
        PROVE  FreeConnsExact' /\ ConnServesOne' /\ SiteHeldOnce' /\ WaitingIffHeld'
    BY <1>7, CoreFrames DEF SubmitEnd, AnswersEnd, siteVars, connVars
  <1> QED BY <1>3, <1>4, <1>5, <1>6, <1>7 DEF DnsStep

-----------------------------------------------------------------------------
(* The other loops *)

\* fetch keeps Core: it gives one free connexion to a page, or none.
LEMMA FetchCore ==
    ASSUME Core, FetchStep
    PROVE  FreeConnsExact' /\ ConnServesOne' /\ SiteHeldOnce' /\ WaitingIffHeld'
  <1>1. ASSUME NEW i \in IPSlots, FetchEmpty(i) \/ FetchTooEarly(i)
        PROVE  FreeConnsExact' /\ ConnServesOne' /\ SiteHeldOnce' /\ WaitingIffHeld'
    BY <1>1, CoreFrames DEF FetchEmpty, FetchTooEarly, siteVars, connVars
  <1>2. ASSUME NEW i \in IPSlots, NEW st \in getFds \ {"emptyC"}, FetchConnect(i, st)
        PROVE  FreeConnsExact' /\ ConnServesOne' /\ SiteHeldOnce' /\ WaitingIffHeld'
    <2>1. /\ GetUrl(i) /\ freeConns # <<>>
          /\ UNCHANGED <<scanSite, scanLeft, closing, inDns, dnsSites, asked, fifo, server>>
      BY <1>2 DEF FetchConnect, GetUrl
    <2>2. Head(tab[i]) \in Urls /\ Head(tab[i]) # NoUrl
      BY <2>1, GetUrlType, UrlAssumption DEF Core
    <2>3. server' = [server EXCEPT ![Head(freeConns)] = NoSite]
      BY <2>1, HeadConn DEF Core, TypeOK, ConnType
    <2>4. FreeConnsExact' /\ ConnServesOne'
      BY <1>2, <2>1, <2>2, <2>3, PoolGet DEF FetchConnect
    <2> QED BY <2>1, <2>4, CoreFrames
  <1>3. ASSUME NEW i \in IPSlots, FetchFail(i)
        PROVE  FreeConnsExact' /\ ConnServesOne' /\ SiteHeldOnce' /\ WaitingIffHeld'
    <2>1. /\ freeConns # <<>>
          /\ freeConns' = Append(Tail(freeConns), Head(freeConns))
          /\ UNCHANGED <<scanSite, scanLeft, closing, inDns, dnsSites, asked, fifo,
                         connState, server, here>>
      BY <1>3 DEF FetchFail, GetUrl
    <2> QED BY <2>1, PoolRotate, CoreFrames
  <1> QED BY <1>1, <1>2, <1>3 DEF FetchStep

\* The scan of a fifo keeps Core: its site stays held until ScanEnd decides.
LEMMA ScanCore ==
    ASSUME Core, ScanStep
    PROVE  FreeConnsExact' /\ ConnServesOne' /\ SiteHeldOnce' /\ WaitingIffHeld'
  <1>1. ASSUME NEW s \in NamedSlots, ScanNext(s),
               \/ fifo' = [fifo EXCEPT ![s] = Tail(@)]
               \/ fifo' = [fifo EXCEPT ![s] = Append(Tail(@), Head(fifo[s]))]
        PROVE  FreeConnsExact' /\ ConnServesOne' /\ SiteHeldOnce' /\ WaitingIffHeld'
    <2>1. /\ scanSite = s /\ UNCHANGED <<scanSite, closing, inDns, dnsSites, asked,
                                         connState, server, here, freeConns>>
          /\ scanLeft' = scanLeft - 1
          /\ fifo[s] # <<>>
      BY <1>1 DEF ScanNext, connVars
    <2>2. fifo[s] \in Seq(Urls) /\ scanLeft \in Nat
      BY DEF Core, TypeOK, SiteType, LoopType
    <2>3. inDns[s] /\ scanLeft <= Len(fifo[s])
      BY <2>1, UrlAssumption DEF Core, WaitingIffHeld
    <2>4. \A t \in NamedSlots \ {s} : fifo'[t] = fifo[t]
      BY <1>1 DEF Core, TypeOK, SiteType
    <2>5. /\ Tail(fifo[s]) \in Seq(Urls) /\ Len(Tail(fifo[s])) = Len(fifo[s]) - 1
          /\ Len(Append(Tail(fifo[s]), Head(fifo[s]))) = Len(fifo[s])
      BY <2>1, <2>2
    <2>6. Len(fifo'[s]) >= Len(fifo[s]) - 1 /\ Len(fifo[s]) \in Nat
      BY <1>1, <2>2, <2>5 DEF Core, TypeOK, SiteType
    <2>7. scanLeft - 1 <= Len(fifo'[s])
      <3> DEFINE n == Len(fifo'[s])
                 m == Len(fifo[s])
      <3>1. n >= m - 1 /\ scanLeft <= m /\ m \in Nat /\ scanLeft \in Nat /\ n \in Int
        <4>1. fifo'[s] \in Seq(Urls)
          BY <1>1, ScanNextType, <2>5 DEF Core, TypeOK, SiteType
        <4> QED BY <2>2, <2>3, <2>6, <4>1
      <3> HIDE DEF n, m
      <3>2. scanLeft - 1 <= n
        BY <3>1
      <3> QED BY <3>2 DEF n
    <2>8. WaitingIffHeld'
      BY <2>1, <2>3, <2>4, <2>7 DEF Core, WaitingIffHeld
    <2> QED BY <2>1, <2>8, CoreFrames
  <1>2. ASSUME NEW s \in NamedSlots, ScanForget(s) \/ ScanKeep(s) \/ ScanTransfer(s)
        PROVE  FreeConnsExact' /\ ConnServesOne' /\ SiteHeldOnce' /\ WaitingIffHeld'
    BY <1>1, <1>2 DEF ScanForget, ScanKeep, ScanTransfer
  <1>3. ASSUME NEW s \in NamedSlots, ScanEnd(s)
        PROVE  FreeConnsExact' /\ ConnServesOne' /\ SiteHeldOnce' /\ WaitingIffHeld'
    <2>1. /\ scanSite = s /\ s # NoSite /\ scanSite' = NoSite /\ closing' = 0
          /\ UNCHANGED <<fifo, asked, connState, here>>
      BY <1>3, UrlAssumption DEF ScanEnd
    <2>2. \A t \in NamedSlots : inDns'[t] = IF t = s THEN fifo[s] # <<>> ELSE inDns[t]
      BY <1>3 DEF ScanEnd, Core, TypeOK, SiteType
    <2>3. WaitingIffHeld'
      BY <2>1, <2>2 DEF Core, WaitingIffHeld
    <2>4. closing \in Conns \cup {0}
      BY DEF Core, TypeOK, LoopType
    <2>5. closing # 0 => connState[closing] = "emptyC" /\ server[closing] = s
      BY <2>1 DEF Core, ConnServesOne
    <2>6. closing # 0 => closing \notin ToSet(freeConns)
      BY <2>4 DEF Core, FreeConnsExact
    <2>7. closing # 0 => /\ IsInjective(freeConns)'
                         /\ ToSet(freeConns)' = ToSet(freeConns) \cup {closing}
      <3>1. SUFFICES ASSUME closing # 0
                     PROVE  /\ IsInjective(freeConns)'
                            /\ ToSet(freeConns)' = ToSet(freeConns) \cup {closing}
        OBVIOUS
      <3>2. freeConns \in Seq(Conns) /\ IsInjective(freeConns) /\ closing \in Conns
        BY <2>4, <3>1 DEF Core, TypeOK, ConnType, FreeConnsExact
      <3>3. freeConns' = Append(freeConns, closing)
        BY <1>3, <3>1 DEF ScanEnd
      <3> HIDE DEF Conns
      <3>4. IsInjective(Append(freeConns, closing))
        BY <2>6, <3>1, <3>2, PutQueue, Zenon
      <3>5. ToSet(Append(freeConns, closing)) = ToSet(freeConns) \cup {closing}
        <4>1. Adds(Append(freeConns, closing), freeConns, closing)
          BY <3>2, PutQueue, Zenon
        <4> QED BY <4>1 DEF Adds
      <3> QED BY <3>3, <3>4, <3>5
    <2>8. FreeConnsExact'
      <3>1. CASE closing = 0
        BY <1>3, <2>1, <3>1 DEF ScanEnd, Core, FreeConnsExact
      <3>2. CASE closing # 0
        BY <2>1, <2>4, <2>5, <2>7, <3>2 DEF Core, FreeConnsExact
      <3> QED BY <3>1, <3>2
    <2>9. \A c \in Conns : server'[c] = IF closing # 0 /\ c = closing THEN NoSite ELSE server[c]
      BY <1>3, <2>4 DEF ScanEnd, Core, TypeOK, ConnType
    <2>10. ConnServesOne'
      BY <2>1, <2>4, <2>9 DEF Core, ConnServesOne
    <2>11. s \notin ToSet(dnsSites) /\ asked[s] = 0
      <3>1. closing # 0 => \E c \in Conns : server[c] = s
        BY <2>4, <2>5
      <3>2. s \notin ToSet(dnsSites) /\ ~(asked[s] > 0)
        BY <2>1, <3>1 DEF Core, SiteHeldOnce
      <3> QED BY <3>2 DEF Core, TypeOK, SiteType
    <2>12. \A c \in Conns : server'[c] # s
      <3>1. \A c \in Conns : server[c] = s => closing = c
        <4>1. closing = 0 => \A c \in Conns : server[c] # s
          BY <2>1 DEF Core, SiteHeldOnce
        <4> QED BY <2>1, <2>4, <2>5, <4>1 DEF Core, SiteHeldOnce
      <3> QED BY <2>1, <2>4, <2>9, <3>1, SizeAssumption
    <2>13. /\ IsInjective(dnsSites)'
           /\ ToSet(dnsSites)' = IF fifo[s] # <<>> THEN ToSet(dnsSites) \cup {s} ELSE ToSet(dnsSites)
      <3>1. dnsSites \in Seq(NamedSlots) /\ IsInjective(dnsSites)
        BY DEF Core, TypeOK, SiteType, SiteHeldOnce
      <3>2. IsInjective(Append(dnsSites, s))
        BY <2>11, <3>1, PutQueue, Zenon
      <3>3. ToSet(Append(dnsSites, s)) = ToSet(dnsSites) \cup {s}
        <4>1. Adds(Append(dnsSites, s), dnsSites, s)
          BY <3>1, PutQueue, Zenon
        <4> QED BY <4>1 DEF Adds
      <3> QED BY <1>3, <3>1, <3>2, <3>3 DEF ScanEnd
    <2>14. \A t \in NamedSlots \ {s} : (\E c \in Conns : server'[c] = t)
                                          <=> \E c \in Conns : server[c] = t
      BY <2>4, <2>5, <2>9, UrlAssumption
    <2>15. SiteHeldOnce'
      <3>1. \A c, d \in Conns : server'[c] = server'[d] /\ c # d => server'[c] = NoSite
        BY <2>9 DEF Core, SiteHeldOnce
      <3>2. \A t \in NamedSlots : scanSite' # t /\ asked'[t] <= 1
        BY <2>1, UrlAssumption DEF Core, SiteHeldOnce
      <3>3. \A t \in NamedSlots \ {s} : /\ t \in ToSet(dnsSites)' <=> t \in ToSet(dnsSites)
                                        /\ inDns'[t] = inDns[t]
                                        /\ scanSite # t
        BY <2>1, <2>2, <2>13
      <3>4. s \in ToSet(dnsSites)' <=> fifo[s] # <<>>
        BY <2>11, <2>13
      <3> DEFINE Held(t) ==
            LET queued == t \in ToSet(dnsSites)
                query  == asked[t] > 0
                robots == \E c \in Conns : server[c] = t
                failed == scanSite = t /\ closing = 0
            IN /\ inDns[t] <=> queued \/ query \/ robots \/ failed
               /\ ~(queued /\ query) /\ ~(queued /\ robots) /\ ~(queued /\ failed)
               /\ ~(query /\ robots) /\ ~(query /\ failed) /\ ~(robots /\ failed)
      <3>5. \A t \in NamedSlots : Held(t)
        BY DEF Core, SiteHeldOnce
      <3>6. ASSUME NEW t \in NamedSlots \ {s} PROVE Held(t)'
        BY <2>1, <2>14, <3>2, <3>3, <3>5
      <3>7. Held(s)'
        <4>1. inDns'[s] <=> fifo[s] # <<>>
          BY <2>2
        <4>2. ~(asked'[s] > 0) /\ ~(\E c \in Conns : server'[c] = s) /\ scanSite' # s
          BY <2>1, <2>11, <2>12, <3>2
        <4> QED BY <3>4, <4>1, <4>2
      <3>8. \A t \in NamedSlots : Held(t)'
        BY <3>6, <3>7
      <3> QED BY <2>13, <3>1, <3>2, <3>8 DEF SiteHeldOnce
    <2> QED BY <2>3, <2>8, <2>10, <2>15
  <1> QED BY <1>2, <1>3 DEF ScanStep

\* putGenericUrl keeps Core: only PutNamed touches a fifo, and it queues the
\* site in dnsSites unless something holds it already.
LEMMA SequencerCore ==
    ASSUME Core, SequencerStep
    PROVE  FreeConnsExact' /\ ConnServesOne' /\ SiteHeldOnce' /\ WaitingIffHeld'
  <1>1. ASSUME NEW u \in Urls, PutForget(u) \/ PutBack(u) \/ PutTransfer(u)
        PROVE  FreeConnsExact' /\ ConnServesOne' /\ SiteHeldOnce' /\ WaitingIffHeld'
    BY <1>1, CoreFrames DEF PutForget, PutBack, PutTransfer, CanGetUrl, connVars
  <1>2. ASSUME NEW u \in Urls, PutNamed(u)
        PROVE  FreeConnsExact' /\ ConnServesOne' /\ SiteHeldOnce' /\ WaitingIffHeld'
    <2> DEFINE s == Slot(u)
    <2>1. s \in NamedSlots
      BY UrlAssumption
    <2>2. /\ UNCHANGED <<scanSite, scanLeft, closing, asked, connState, server, here, freeConns>>
          /\ scanSite = NoSite /\ closing = 0
      BY <1>2, IdleClosing DEF PutNamed, CanGetUrl, connVars
    <2>3. \A t \in NamedSlots : inDns'[t] = IF t = s THEN TRUE ELSE inDns[t]
      BY <1>2 DEF PutNamed, Core, TypeOK, SiteType
    <2>4. \A t \in NamedSlots : /\ scanSite # t
                                /\ t # s => fifo'[t] = fifo[t]
      BY <1>2, <2>2, UrlAssumption DEF PutNamed, Core, TypeOK, SiteType
    <2>5. fifo'[s] # <<>>
      <3>1. fifo[s] \in Seq(Urls) /\ fifo'[s] = Append(fifo[s], u)
        BY <1>2, <2>1 DEF PutNamed, Core, TypeOK, SiteType
      <3>2. Append(fifo[s], u) # <<>>
        BY <3>1
      <3> QED BY <3>1, <3>2
    <2> HIDE DEF s
    <2>6. WaitingIffHeld'
      <3>1. \A t \in NamedSlots \ {s} : /\ fifo[t] # <<>> => inDns[t]
                                        /\ inDns[t] => fifo[t] # <<>>
        BY <2>4 DEF Core, WaitingIffHeld
      <3>2. \A t \in NamedSlots \ {s} : /\ fifo'[t] # <<>> => inDns'[t]
                                        /\ inDns'[t] => fifo'[t] # <<>>
        <4> SUFFICES ASSUME NEW t \in NamedSlots \ {s}
                     PROVE  /\ fifo'[t] # <<>> => inDns'[t]
                            /\ inDns'[t] => fifo'[t] # <<>>
          OBVIOUS
        <4>1. inDns'[t] <=> inDns[t]
          BY <2>3
        <4>2. fifo'[t] = fifo[t]
          BY <2>4
        <4> QED BY <3>1, <4>1, <4>2
      <3>3. inDns'[s] /\ scanSite' = NoSite
        BY <2>1, <2>2, <2>3
      <3> QED BY <2>5, <3>2, <3>3 DEF WaitingIffHeld
    <2>7. CASE inDns[s]
      <3>1. \A t \in NamedSlots : inDns'[t] <=> inDns[t]
        BY <2>3, <2>7
      <3>2. dnsSites' = dnsSites
        BY <1>2, <2>7 DEF PutNamed, s
      <3>3. SiteHeldOnce'
        BY <2>2, <3>1, <3>2 DEF Core, SiteHeldOnce
      <3> QED BY <2>2, <2>6, <3>3, CoreFrames
    <2>8. CASE ~inDns[s]
      <3>1. dnsSites \in Seq(NamedSlots) /\ IsInjective(dnsSites)
        BY DEF Core, TypeOK, SiteType, SiteHeldOnce
      <3>2. s \notin ToSet(dnsSites) /\ ~(asked[s] > 0) /\ \A c \in Conns : server[c] # s
        BY <2>1, <2>8 DEF Core, SiteHeldOnce
      <3>3. dnsSites' = Append(dnsSites, s)
        BY <1>2, <2>8 DEF PutNamed, s
      <3>4. IsInjective(Append(dnsSites, s))
        BY <2>1, <3>1, <3>2, PutQueue, Zenon
      <3>5. ToSet(Append(dnsSites, s)) = ToSet(dnsSites) \cup {s}
        <4>1. Adds(Append(dnsSites, s), dnsSites, s)
          BY <2>1, <3>1, PutQueue, Zenon
        <4> QED BY <4>1 DEF Adds
      <3>6. IsInjective(dnsSites)' /\ ToSet(dnsSites)' = ToSet(dnsSites) \cup {s}
        BY <3>3, <3>4, <3>5
      <3>7. SiteHeldOnce'
        BY <2>1, <2>2, <2>3, <2>4, <3>2, <3>6 DEF Core, SiteHeldOnce
      <3> QED BY <2>2, <2>6, <3>7, CoreFrames
    <2> QED BY <2>7, <2>8
  <1>3. ASSUME SequencerEnd
        PROVE  FreeConnsExact' /\ ConnServesOne' /\ SiteHeldOnce' /\ WaitingIffHeld'
    BY <1>3, CoreFrames DEF SequencerEnd, siteVars, connVars
  <1> QED BY <1>1, <1>2, <1>3 DEF SequencerStep

\* endOfFile keeps Core: a page's connexion is free at once, a robots.txt's is
\* emptied but stays out of the pool until the scan ends.
LEMMA EndOfFileCore ==
    ASSUME Core, Idle, NEW c \in Conns, NEW refused, NEW f, EndOfFile(c, refused, f)
    PROVE  FreeConnsExact' /\ ConnServesOne' /\ SiteHeldOnce' /\ WaitingIffHeld'
  <1>1. /\ scanSite = NoSite /\ closing = 0 /\ c # 0
        /\ connState[c] # "emptyC"
        /\ \A t \in NamedSlots : scanSite # t
        /\ UNCHANGED <<inDns, dnsSites, asked, fifo, server>>
    BY IdleClosing, SizeAssumption, UrlAssumption DEF EndOfFile
  <1>2. \A d \in Conns : connState'[d] = IF d = c THEN "emptyC" ELSE connState[d]
    BY DEF EndOfFile, EndOfRobots, EndOfPage, Core, TypeOK, ConnType
  <1>3. c \notin ToSet(freeConns)
    BY <1>1 DEF Core, FreeConnsExact
  <1>4. CASE EndOfRobots(c, refused, f)
    <2>1. /\ server[c] # NoSite /\ server[c] \in NamedSlots
          /\ scanSite' = server[c] /\ closing' = c /\ scanLeft' = Len(fifo[server[c]])
          /\ UNCHANGED <<here, freeConns>>
      BY <1>4 DEF EndOfRobots, StartScan, Core, TypeOK, ConnType
    <2>2. FreeConnsExact'
      BY <1>1, <1>2, <1>3, <2>1 DEF Core, FreeConnsExact
    <2>3. ConnServesOne'
      BY <1>1, <1>2, <2>1 DEF Core, ConnServesOne
    <2>4. SiteHeldOnce'
      BY <1>1, <2>1 DEF Core, SiteHeldOnce
    <2>5. WaitingIffHeld'
      BY <1>1, <2>1, ScanStarts
    <2> QED BY <2>2, <2>3, <2>4, <2>5
  <1>5. CASE EndOfPage(c)
    <2>1. /\ server[c] = NoSite /\ UNCHANGED <<scanSite, scanLeft, closing>>
          /\ freeConns' = Append(freeConns, c)
          /\ here' = [here EXCEPT ![c] = NoUrl]
      BY <1>5 DEF EndOfPage, NoScan
    <2>2. freeConns \in Seq(Conns) /\ IsInjective(freeConns)
      BY DEF Core, TypeOK, ConnType, FreeConnsExact
    <2>3. IsInjective(freeConns)' /\ ToSet(freeConns)' = ToSet(freeConns) \cup {c}
      <3> HIDE DEF Conns
      <3>1. IsInjective(Append(freeConns, c))
        BY <1>3, <2>2, PutQueue, Zenon
      <3>2. ToSet(Append(freeConns, c)) = ToSet(freeConns) \cup {c}
        <4>1. Adds(Append(freeConns, c), freeConns, c)
          BY <2>2, PutQueue, Zenon
        <4> QED BY <4>1 DEF Adds
      <3> QED BY <2>1, <3>1, <3>2
    <2>4. FreeConnsExact'
      BY <1>1, <1>2, <2>1, <2>3 DEF Core, FreeConnsExact
    <2>5. \A d \in Conns : here'[d] = IF d = c THEN NoUrl ELSE here[d]
      BY <2>1 DEF Core, TypeOK, ConnType
    <2>6. ConnServesOne'
      BY <1>1, <1>2, <2>1, <2>5 DEF Core, ConnServesOne
    <2> QED BY <1>1, <2>1, <2>4, <2>6, CoreFrames
  <1> QED BY <1>4, <1>5 DEF EndOfFile

\* checkTimeout and checkAll keep Core.
LEMMA PipeCore ==
    ASSUME Core, PipeStep
    PROVE  FreeConnsExact' /\ ConnServesOne' /\ SiteHeldOnce' /\ WaitingIffHeld'
  <1>1. ASSUME NEW c \in Conns, KeepAlive(c) \/ NotYet(c)
        PROVE  FreeConnsExact' /\ ConnServesOne' /\ SiteHeldOnce' /\ WaitingIffHeld'
    BY <1>1, CoreFrames DEF KeepAlive, NotYet, siteVars, connVars
  <1>2. ASSUME NEW c \in Conns, NEW st \in ConnStates, Written(c, st)
        PROVE  FreeConnsExact' /\ ConnServesOne' /\ SiteHeldOnce' /\ WaitingIffHeld'
    <2>1. /\ st # "emptyC" /\ connState[c] # "emptyC"
          /\ UNCHANGED <<scanSite, scanLeft, closing, server, here, freeConns,
                         inDns, dnsSites, asked, fifo>>
          /\ scanSite = NoSite /\ closing = 0
      BY <1>2, IdleClosing DEF Written, Visit, siteVars
    <2>2. \A d \in Conns : connState'[d] = "emptyC" <=> connState[d] = "emptyC"
      BY <1>2, <2>1 DEF Written, Core, TypeOK, ConnType
    <2>3. FreeConnsExact' /\ ConnServesOne'
      BY <2>1, <2>2 DEF Core, FreeConnsExact, ConnServesOne
    <2> QED BY <2>1, <2>3, CoreFrames
  <1>3. ASSUME NEW c \in Conns, NEW f \in SUBSET Files,
               TimeOut(c, f) \/ Refused(c, f) \/ Ended(c, f)
        PROVE  FreeConnsExact' /\ ConnServesOne' /\ SiteHeldOnce' /\ WaitingIffHeld'
    <2>1. Idle /\ \E refused \in BOOLEAN : EndOfFile(c, refused, f)
      BY <1>3 DEF TimeOut, Refused, Ended, Visit
    <2> QED BY <2>1, EndOfFileCore
  <1> QED BY <1>1, <1>2, <1>3 DEF PipeStep

\* Every step keeps Core.
LEMMA NextCore == Core /\ [Next]_vars => Core'
  <1> SUFFICES ASSUME Core, [Next]_vars PROVE Core'
    OBVIOUS
  <1>1. TypeOK'
    BY NextType DEF Core
  <1>2. CASE ThreadNext
    <2>1. CASE OpenStep \/ CheckEnd \/ CronEnd \/ \E t \in now..MaxNow : LoopTop(t)
      BY <1>1, <2>1, CoreFrames
      DEF Core, OpenStep, OpenSite, OpenEnd, CheckEnd, CronEnd, LoopTop, siteVars, connVars
    <2> QED BY <1>1, <1>2, <2>1, FetchCore, ScanCore, SequencerCore, DnsCore, PipeCore
            DEF ThreadNext, Core
  <1>3. CASE (\E u \in Urls : Arrive(u)) \/ UNCHANGED vars
    BY <1>1, <1>3, CoreFrames DEF Core, Arrive, vars, loopVars, siteVars, connVars
  <1> QED BY <1>2, <1>3 DEF Next

\* Core holds in every reachable state.
LEMMA CoreInvariant == Spec => []Core
  BY InitCore, NextCore, PTL DEF Spec

-----------------------------------------------------------------------------
(* The theorems *)

\* Every variable of the thread keeps its type: no counter of queries or of
\* waiting urls is decremented below zero, and every site a connexion, a query
\* or dnsSites names exists.
THEOREM TypeCorrect == Spec => []TypeOK
  <1>1. Core => TypeOK
    BY DEF Core
  <1> QED BY <1>1, CoreInvariant, PTL

\* No connexion is lost from freeConns or put there twice, and none serves a
\* page and a robots.txt, whatever fails: getFds, dns, the server, a timeout.
THEOREM PoolSafe == Spec => [](FreeConnsExact /\ ConnServesOne)
  <1>1. Core => FreeConnsExact /\ ConnServesOne
    BY DEF Core
  <1> QED BY <1>1, CoreInvariant, PTL

\* Whatever fails, a connexion in use works for a page or for the robots.txt of
\* a site, never for both, and endOfFile recycles the one its scan came from.
THEOREM ConnectionsServeOne == Spec => []ConnServesOne
  <1>1. Core => ConnServesOne
    BY DEF Core
  <1> QED BY <1>1, CoreInvariant, PTL

\* isInFifo of a named site is exact: the site is in one place, or in none.
THEOREM SitesHeldOnce == Spec => []SiteHeldOnce
  <1>1. Core => SiteHeldOnce
    BY DEF Core
  <1> QED BY <1>1, CoreInvariant, PTL

\* newQuery always finds a url in the fifo it reads, and a url that waits in a
\* fifo belongs to a site that dns, a connexion or a scan will come back to.
THEOREM SitesWait == Spec => []WaitingIffHeld
  <1>1. Core => WaitingIffHeld
    BY DEF Core
  <1> QED BY <1>1, CoreInvariant, PTL

\* What a named site stands for changes only when nothing asked for the old
\* name can still arrive.
THEOREM IdentityKept == Spec => IdentityStable
  <1> DEFINE Kept == \A s \in NamedSlots :
               id'[s].name # id[s].name \/ id'[s].port # id[s].port
                 => /\ asked[s] = 0
                    /\ \A c \in Conns : server[c] # s
                    /\ scanSite # s
  <1>1. Core /\ [Next]_vars => [Kept]_vars
    <2> SUFFICES ASSUME Core, Next PROVE Kept
      OBVIOUS
    <2>1. CASE UNCHANGED id
      BY <2>1
    <2>2. ASSUME NEW s \in NamedSlots, NEW d, Submit(s), id' = [id EXCEPT ![s] = d]
          PROVE  Kept
      <3>1. asked[s] = 0 /\ (\A c \in Conns : server[c] # s) /\ scanSite # s
        BY <2>2, SubmitHeld, UrlAssumption DEF Submit, Idle
      <3>2. \A t \in NamedSlots \ {s} : id'[t] = id[t]
        BY <2>2 DEF Core, TypeOK, SiteType
      <3> QED BY <3>1, <3>2
    <2>3. ASSUME NEW s \in NamedSlots, NEW d, id' = [id EXCEPT ![s] = d],
                 d.name = id[s].name /\ d.port = id[s].port
          PROVE  Kept
      BY <2>3 DEF Core, TypeOK, SiteType
    <2>4. CASE DnsStep
      <3>1. ASSUME NEW s \in NamedSlots, NewQuery(s) \/ NewNonsense(s) PROVE Kept
        BY <2>2, <3>1 DEF NewQuery, NewNonsense, DnsErr
      <3>2. ASSUME NEW s \in NamedSlots, AnswerCname(s) \/ SubmitEnd \/ AnswersEnd PROVE Kept
        BY <2>1, <3>2 DEF AnswerCname, SubmitEnd, AnswersEnd, siteVars
      <3>3. ASSUME NEW s \in NamedSlots, AnswerError(s) PROVE Kept
        <4>1. id[s] \in Identity /\ id' = [id EXCEPT ![s] = [id[s] EXCEPT !.dnsState = "errorDns"]]
          BY <3>3 DEF AnswerError, DnsErr, Core, TypeOK, SiteType
        <4>2. /\ [id[s] EXCEPT !.dnsState = "errorDns"].name = id[s].name
              /\ [id[s] EXCEPT !.dnsState = "errorDns"].port = id[s].port
          BY <4>1 DEF Identity
        <4> QED BY <2>3, <4>1, <4>2
      <3>4. ASSUME NEW s \in NamedSlots, NEW ip \in IPSlots, NEW st \in getFds,
                   NewNumeric(s, ip, st)
            PROVE Kept
        <4>1. \E d : id' = [id EXCEPT ![s] = d]
          BY <3>4 DEF NewNumeric, DnsNoSocket, DnsOK
        <4> QED BY <2>2, <3>4, <4>1 DEF NewNumeric
      <3>5. ASSUME NEW s \in NamedSlots, NEW ip \in IPSlots, NEW st \in getFds,
                   AnswerOk(s, ip, st)
            PROVE Kept
        <4> DEFINE d == [id[s] EXCEPT !.ip = ip]
                   e == [d EXCEPT !.dnsState = "noConnDns"]
        <4>1. id[s] \in Identity
          BY DEF Core, TypeOK, SiteType
        <4>2. d \in Identity /\ d.name = id[s].name /\ d.port = id[s].port
          BY <4>1 DEF Identity
        <4>3. id' = [id EXCEPT ![s] = d] \/ id' = [id EXCEPT ![s] = e]
          BY <3>5 DEF AnswerOk, DnsNoSocket, DnsOK
        <4> HIDE DEF d
        <4>4. e.name = id[s].name /\ e.port = id[s].port
          BY <4>2 DEF Identity
        <4> HIDE DEF e
        <4> QED BY <2>3, <4>2, <4>3, <4>4
      <3> QED BY <2>4, <3>1, <3>2, <3>3, <3>4, <3>5 DEF DnsStep
    <2>5. CASE PipeStep
      <3>1. ASSUME NEW c \in Conns, NEW refused \in BOOLEAN, NEW f,
                   EndOfRobots(c, refused, f)
            PROVE  Kept
        <4> DEFINE s == server[c]
                   x == IF refused THEN "noConnDns" ELSE "doneDns"
                   d == [id[s] EXCEPT !.dnsState = x, !.forbidden = f]
        <4>1. s \in NamedSlots /\ id' = [id EXCEPT ![s] = d]
          BY <3>1 DEF EndOfRobots, Core, TypeOK, SiteType, ConnType
        <4>2. id[s] \in Identity
          BY <4>1 DEF Core, TypeOK, SiteType
        <4> HIDE DEF s, x
        <4>3. d.name = id[s].name /\ d.port = id[s].port
          BY <4>2 DEF Identity
        <4> HIDE DEF d
        <4> QED BY <2>3, <4>1, <4>3
      <3>2. ASSUME NEW c \in Conns, NEW refused \in BOOLEAN, NEW f,
                   EndOfFile(c, refused, f)
            PROVE  Kept
        BY <2>1, <3>1, <3>2 DEF EndOfFile, EndOfPage
      <3>3. ASSUME NEW c \in Conns, NEW st,
                   KeepAlive(c) \/ NotYet(c) \/ Written(c, st)
            PROVE  Kept
        BY <2>1, <3>3 DEF KeepAlive, NotYet, Written, siteVars
      <3>4. ASSUME NEW c \in Conns, NEW f, TimeOut(c, f) \/ Refused(c, f) \/ Ended(c, f)
            PROVE  Kept
        BY <3>2, <3>4 DEF TimeOut, Refused, Ended
      <3> QED BY <2>5, <3>3, <3>4 DEF PipeStep
    <2>6. CASE FetchStep
      BY <2>1, <2>6 DEF FetchStep, FetchEmpty, FetchTooEarly, FetchConnect, FetchFail,
                        GetUrl, siteVars
    <2>7. CASE ScanStep
      BY <2>1, <2>7 DEF ScanStep, ScanForget, ScanKeep, ScanTransfer, ScanEnd, ScanNext
    <2>8. CASE SequencerStep
      BY <2>1, <2>8 DEF SequencerStep, PutForget, PutBack, PutNamed, PutTransfer,
                        CanGetUrl, SequencerEnd, siteVars
    <2>9. CASE OpenStep \/ CheckEnd \/ CronEnd \/ \E t \in now..MaxNow : LoopTop(t)
      BY <2>1, <2>9 DEF OpenStep, OpenSite, OpenEnd, CheckEnd, CronEnd, LoopTop, siteVars
    <2>10. CASE \E u \in Urls : Arrive(u)
      BY <2>1, <2>10 DEF Arrive, siteVars
    <2> QED BY <2>4, <2>5, <2>6, <2>7, <2>8, <2>9, <2>10 DEF Next, ThreadNext
  <1> QED BY <1>1, CoreInvariant, PTL DEF Spec, IdentityStable

-----------------------------------------------------------------------------
(* okSites *)

\* What IPSiteQueuedOnce reads.
LEMMA OkFrame ==
    ASSUME IPSiteQueuedOnce, UNCHANGED <<tab, inOk, okSites, fetching>>
    PROVE  IPSiteQueuedOnce'
  BY DEF IPSiteQueuedOnce

\* IPSite::putUrl queues the site once, or fetches it at once.
LEMMA PutUrlOk ==
    ASSUME TypeOK, IPSiteQueuedOnce, fetching = NoIP,
           NEW i \in IPSlots, NEW u \in Urls, PutUrl(i, u)
    PROVE  IPSiteQueuedOnce'
  <1>1. okSites \in Seq(IPSlots) /\ IsInjective(okSites)
    BY DEF TypeOK, IPType, IPSiteQueuedOnce
  <1>2. \A j \in IPSlots : fetching # j
    BY UrlAssumption
  <1>3. /\ \A j \in IPSlots \ {i} : inOk'[j] = inOk[j] /\ tab'[j] = tab[j]
        /\ inOk'[i] /\ tab'[i] = Append(tab[i], u)
    BY DEF PutUrl, TypeOK, IPType
  <1>4. tab'[i] # <<>>
    <2>1. tab[i] \in Seq(Urls)
      BY DEF TypeOK, IPType
    <2> QED BY <1>3, <2>1
  <1>5. CASE UNCHANGED <<okSites, fetching>> /\ inOk[i]
    <2>1. ASSUME NEW j \in IPSlots
          PROVE  /\ j \in ToSet(okSites) <=> inOk'[j]
                 /\ inOk'[j] <=> tab'[j] # <<>>
      BY <1>2, <1>3, <1>4, <1>5, <2>1 DEF IPSiteQueuedOnce
    <2> QED BY <1>1, <1>2, <1>5, <2>1 DEF IPSiteQueuedOnce
  <1>6. CASE okSites' = Append(okSites, i) /\ UNCHANGED fetching /\ ~inOk[i]
    <2>1. i \notin ToSet(okSites)
      BY <1>6 DEF IPSiteQueuedOnce
    <2>2. IsInjective(Append(okSites, i))
      BY <1>1, <2>1, PutQueue, Zenon
    <2>3. ToSet(Append(okSites, i)) = ToSet(okSites) \cup {i}
      <3>1. Adds(Append(okSites, i), okSites, i)
        BY <1>1, PutQueue, Zenon
      <3> QED BY <3>1 DEF Adds
    <2>4. ASSUME NEW j \in IPSlots
          PROVE  /\ j \in ToSet(okSites) \cup {i} <=> inOk'[j]
                 /\ inOk'[j] <=> tab'[j] # <<>>
      BY <1>2, <1>3, <1>4, <1>6, <2>4 DEF IPSiteQueuedOnce
    <2> QED BY <1>2, <1>6, <2>2, <2>3, <2>4 DEF IPSiteQueuedOnce
  <1>7. CASE UNCHANGED okSites /\ fetching' = i /\ ~inOk[i]
    <2>1. ASSUME NEW j \in IPSlots \ {i}
          PROVE  /\ j \in ToSet(okSites) <=> inOk'[j]
                 /\ inOk'[j] <=> tab'[j] # <<>>
      BY <1>2, <1>3, <2>1 DEF IPSiteQueuedOnce
    <2>2. i \notin ToSet(okSites)
      BY <1>7 DEF IPSiteQueuedOnce
    <2> QED BY <1>1, <1>3, <1>7, <2>1, <2>2 DEF IPSiteQueuedOnce
  <1> QED BY <1>5, <1>6, <1>7 DEF PutUrl

\* fetch keeps the site it works on out of okSites, and puts it back once.
LEMMA FetchOk ==
    ASSUME TypeOK, IPSiteQueuedOnce, FetchStep
    PROVE  IPSiteQueuedOnce'
  <1>1. okSites \in Seq(IPSlots) /\ IsInjective(okSites)
    BY DEF TypeOK, IPType, IPSiteQueuedOnce
  <1>2. ASSUME NEW i \in IPSlots, fetching = i
        PROVE  /\ i \notin ToSet(okSites) /\ inOk[i] /\ tab[i] \in Seq(Urls)
               /\ IsInjective(Append(okSites, i))
               /\ ToSet(Append(okSites, i)) = ToSet(okSites) \cup {i}
               /\ IsInjective(<<i>> \o okSites)
               /\ ToSet(<<i>> \o okSites) = ToSet(okSites) \cup {i}
               /\ \A j \in IPSlots \ {i} : /\ j \in ToSet(okSites) <=> inOk[j]
                                           /\ inOk[j] <=> tab[j] # <<>>
    <2>1. i \notin ToSet(okSites) /\ inOk[i] /\ tab[i] \in Seq(Urls)
      BY <1>2 DEF TypeOK, IPType, IPSiteQueuedOnce
    <2>2. IsInjective(Append(okSites, i))
      BY <1>1, <2>1, PutQueue, Zenon
    <2>3. ToSet(Append(okSites, i)) = ToSet(okSites) \cup {i}
      <3>1. Adds(Append(okSites, i), okSites, i)
        BY <1>1, PutQueue, Zenon
      <3> QED BY <3>1 DEF Adds
    <2>4. IsInjective(<<i>> \o okSites)
      BY <1>1, <2>1, RePutQueue, Zenon
    <2>5. ToSet(<<i>> \o okSites) = ToSet(okSites) \cup {i}
      <3>1. Adds(<<i>> \o okSites, okSites, i)
        BY <1>1, RePutQueue, Zenon
      <3> QED BY <3>1 DEF Adds
    <2>6. \A j \in IPSlots \ {i} : /\ j \in ToSet(okSites) <=> inOk[j]
                                   /\ inOk[j] <=> tab[j] # <<>>
      BY <1>2 DEF IPSiteQueuedOnce
    <2> QED BY <2>1, <2>2, <2>3, <2>4, <2>5, <2>6
  <1>3. ASSUME NEW i \in IPSlots, FetchEmpty(i) PROVE IPSiteQueuedOnce'
    <2>1. /\ fetching = i /\ tab[i] = <<>> /\ fetching' = NoIP /\ UNCHANGED <<tab, okSites>>
          /\ \A j \in IPSlots : inOk'[j] <=> j # i /\ inOk[j]
      BY <1>3 DEF FetchEmpty, TypeOK, IPType
    <2>2. \A j \in IPSlots : /\ j \in ToSet(okSites) <=> inOk'[j]
                             /\ inOk'[j] <=> tab'[j] # <<>>
      BY <1>2, <2>1
    <2> QED BY <1>1, <2>1, <2>2, UrlAssumption DEF IPSiteQueuedOnce
  <1>4. ASSUME NEW i \in IPSlots, FetchTooEarly(i) PROVE IPSiteQueuedOnce'
    <2>1. /\ fetching = i /\ tab[i] # <<>> /\ fetching' = NoIP /\ UNCHANGED <<tab, inOk>>
          /\ okSites' = <<i>> \o okSites
      BY <1>4 DEF FetchTooEarly
    <2>2. /\ IsInjective(okSites)'
          /\ ToSet(okSites)' = ToSet(okSites) \cup {i}
      <3>1. /\ IsInjective(<<i>> \o okSites)
            /\ ToSet(<<i>> \o okSites) = ToSet(okSites) \cup {i}
        BY <1>2, <2>1, Zenon
      <3> QED BY <2>1, <3>1
    <2>3. \A j \in IPSlots : /\ j \in ToSet(okSites)' <=> inOk'[j]
                             /\ inOk'[j] <=> tab'[j] # <<>>
      BY <1>2, <2>1, <2>2
    <2> QED BY <2>1, <2>2, <2>3, UrlAssumption DEF IPSiteQueuedOnce
  <1>5. ASSUME NEW i \in IPSlots, NEW st, FetchConnect(i, st) PROVE IPSiteQueuedOnce'
    <2>1. /\ fetching = i /\ tab[i] # <<>> /\ fetching' = NoIP
          /\ \A j \in IPSlots \ {i} : tab'[j] = tab[j] /\ inOk'[j] = inOk[j]
          /\ tab'[i] = Tail(tab[i])
          /\ inOk'[i] <=> Len(tab[i]) > 1
          /\ okSites' = IF Len(tab[i]) > 1 THEN Append(okSites, i) ELSE okSites
      BY <1>5 DEF FetchConnect, GetUrl, TypeOK, IPType
    <2>2. Tail(tab[i]) # <<>> <=> Len(tab[i]) > 1
      <3>1. tab[i] \in Seq(Urls) /\ tab[i] # <<>>
        BY <1>2, <2>1, Zenon
      <3>2. /\ Tail(tab[i]) \in Seq(Urls)
            /\ Len(Tail(tab[i])) = Len(tab[i]) - 1
        BY <3>1, HeadTailProperties
      <3>3. Tail(tab[i]) = <<>> <=> Len(Tail(tab[i])) = 0
        BY <3>2, EmptySeq
      <3>4. Len(tab[i]) \in Nat
        BY <3>1
      <3> QED BY <3>2, <3>3, <3>4
    <2>3. IsInjective(okSites)'
      BY <1>1, <1>2, <2>1
    <2>4. ToSet(okSites)' = IF Len(tab[i]) > 1 THEN ToSet(okSites) \cup {i} ELSE ToSet(okSites)
      <3>1. ToSet(Append(okSites, i)) = ToSet(okSites) \cup {i}
        BY <1>2, <2>1, Zenon
      <3> QED BY <2>1, <3>1
    <2>5. i \in ToSet(okSites)' <=> inOk'[i]
      BY <1>2, <2>1, <2>4
    <2>6. \A j \in IPSlots : /\ j \in ToSet(okSites)' <=> inOk'[j]
                             /\ inOk'[j] <=> tab'[j] # <<>>
      BY <1>2, <2>1, <2>2, <2>4, <2>5
    <2> QED BY <2>1, <2>3, <2>6, UrlAssumption DEF IPSiteQueuedOnce
  <1>6. ASSUME NEW i \in IPSlots, FetchFail(i) PROVE IPSiteQueuedOnce'
    <2>1. /\ fetching = i /\ UNCHANGED <<fetching, inOk, okSites>>
          /\ \A j \in IPSlots \ {i} : tab'[j] = tab[j]
      BY <1>6 DEF FetchFail, GetUrl, TypeOK, IPType
    <2> QED BY <1>1, <1>2, <2>1 DEF IPSiteQueuedOnce
  <1> QED BY <1>3, <1>4, <1>5, <1>6 DEF FetchStep

\* The site fetchOpen takes is the one it fetches.
LEMMA OpenOk ==
    ASSUME TypeOK, IPSiteQueuedOnce, OpenSite
    PROVE  IPSiteQueuedOnce'
  <1>1. /\ okSites \in Seq(IPSlots) /\ okSites # <<>> /\ IsInjective(okSites)
        /\ fetching = NoIP /\ UNCHANGED <<tab, inOk>>
        /\ fetching' = Head(okSites) /\ okSites' = Tail(okSites)
    BY DEF OpenSite, Idle, TypeOK, IPType, IPSiteQueuedOnce
  <1>2. /\ Head(okSites) \in IPSlots /\ Head(okSites) \in ToSet(okSites)
        /\ IsInjective(Tail(okSites))
        /\ ToSet(Tail(okSites)) = ToSet(okSites) \ {Head(okSites)}
    BY <1>1, GetQueue
  <1>3. \A j \in IPSlots : /\ fetching # j
                           /\ j \in ToSet(okSites) <=> inOk[j]
                           /\ inOk[j] <=> tab[j] # <<>>
    BY <1>1, UrlAssumption DEF IPSiteQueuedOnce
  <1> QED BY <1>1, <1>2, <1>3 DEF IPSiteQueuedOnce

\* An IP site is in okSites exactly when it has pages to fetch, and once: no
\* server is forgotten with pages waiting, none gets two turns for one.
THEOREM IPSitesQueuedOnce == Spec => []IPSiteQueuedOnce
  <1>1. Init => IPSiteQueuedOnce
    <2> SUFFICES ASSUME Init PROVE IPSiteQueuedOnce
      OBVIOUS
    <2>1. ToSet(okSites) = {} /\ IsInjective(okSites)
      BY DEF Init, IsInjective, ToSet
    <2> QED BY <2>1, UrlAssumption DEF Init, IPSiteQueuedOnce
  <1>2. TypeOK /\ IPSiteQueuedOnce /\ [Next]_vars => IPSiteQueuedOnce'
    <2> SUFFICES ASSUME TypeOK, IPSiteQueuedOnce, [Next]_vars PROVE IPSiteQueuedOnce'
      OBVIOUS
    <2>1. CASE ScanStep
      <3>1. ASSUME NEW s \in NamedSlots, ScanTransfer(s) PROVE IPSiteQueuedOnce'
        <4>1. /\ ScanNext(s) /\ fetching = NoIP
              /\ PutUrl(id[s].ip, Head(fifo[s])) /\ id[s].ip \in IPSlots
          BY <3>1 DEF ScanTransfer, ScanNext, TypeOK, SiteType, Identity
        <4> QED BY <4>1, ScanNextType, PutUrlOk
      <3>2. ASSUME NEW s \in NamedSlots, ScanForget(s) \/ ScanKeep(s) \/ ScanEnd(s)
            PROVE  IPSiteQueuedOnce'
        BY <3>2, OkFrame DEF ScanForget, ScanKeep, ScanEnd, ScanNext, ipVars
      <3> QED BY <2>1, <3>1, <3>2 DEF ScanStep
    <2>2. CASE SequencerStep
      <3>1. ASSUME NEW u \in Urls, PutTransfer(u) PROVE IPSiteQueuedOnce'
        <4>1. Slot(u) \in NamedSlots
          BY UrlAssumption DEF Slot
        <4>2. /\ fetching = NoIP
              /\ PutUrl(id[Slot(u)].ip, u) /\ id[Slot(u)].ip \in IPSlots
          BY <3>1, <4>1 DEF PutTransfer, CanGetUrl, Idle, TypeOK, SiteType, Identity
        <4> QED BY <4>2, PutUrlOk
      <3>2. ASSUME NEW u \in Urls, PutForget(u) \/ PutBack(u) \/ PutNamed(u) \/ SequencerEnd
            PROVE  IPSiteQueuedOnce'
        BY <3>2, OkFrame DEF PutForget, PutBack, PutNamed, SequencerEnd, ipVars
      <3> QED BY <2>2, <3>1, <3>2, OkFrame DEF SequencerStep, SequencerEnd, ipVars
    <2>3. CASE DnsStep
      BY <2>3, OkFrame
      DEF DnsStep, NewQuery, NewNumeric, NewNonsense, Submit, SubmitEnd, AnswerCname,
          AnswerError, AnswerOk, LastAnswer, Answer, AnswersEnd, ipVars
    <2>4. CASE PipeStep
      BY <2>4, OkFrame
      DEF PipeStep, KeepAlive, NotYet, Written, TimeOut, Refused, Ended, EndOfFile, ipVars
    <2>5. CASE OpenEnd \/ CheckEnd \/ CronEnd \/ (\E t \in now..MaxNow : LoopTop(t))
               \/ (\E u \in Urls : Arrive(u)) \/ UNCHANGED vars
      BY <2>5, OkFrame
      DEF OpenEnd, CheckEnd, CronEnd, LoopTop, Arrive, loopVars, vars, ipVars
    <2> QED BY <2>1, <2>2, <2>3, <2>4, <2>5, FetchOk, OpenOk DEF Next, ThreadNext, OpenStep
  <1> QED BY <1>1, <1>2, TypeCorrect, PTL DEF Spec

-----------------------------------------------------------------------------
(* The connexion fetch counts on *)

\* freeConns->get() never blocks the thread: a site is fetched only while a
\* connexion is free, and nothing takes that connexion before fetch does.
THEOREM ConnIsAtHand == Spec => []ConnAtHand
  <1>1. Init => ConnAtHand
    BY DEF Init, ConnAtHand
  <1>2. TypeOK /\ ConnAtHand /\ [Next]_vars => ConnAtHand'
    <2> SUFFICES ASSUME TypeOK, ConnAtHand, [Next]_vars PROVE ConnAtHand'
      OBVIOUS
    <2>1. CASE FetchStep
      <3>1. ASSUME NEW i \in IPSlots, FetchEmpty(i) \/ FetchTooEarly(i) PROVE ConnAtHand'
        BY <3>1 DEF FetchEmpty, FetchTooEarly, ConnAtHand
      <3>2. ASSUME NEW i \in IPSlots, NEW st, FetchConnect(i, st) PROVE ConnAtHand'
        BY <3>2 DEF FetchConnect, ConnAtHand
      <3>3. ASSUME NEW i \in IPSlots, FetchFail(i) PROVE ConnAtHand'
        <4>1. /\ freeConns \in Seq(Conns) /\ freeConns # <<>>
              /\ freeConns' = Append(Tail(freeConns), Head(freeConns))
          BY <3>3 DEF FetchFail, GetUrl, TypeOK, ConnType
        <4>2. Append(Tail(freeConns), Head(freeConns)) # <<>>
          BY <4>1
        <4> QED BY <4>1, <4>2 DEF ConnAtHand
      <3> QED BY <2>1, <3>1, <3>2, <3>3 DEF FetchStep
    <2>2. CASE ScanStep
      BY <2>2 DEF ScanStep, ScanForget, ScanKeep, ScanTransfer, ScanEnd, ScanNext,
                  PutUrl, ConnAtHand, connVars
    <2>3. CASE SequencerStep
      BY <2>3 DEF SequencerStep, PutForget, PutBack, PutNamed, PutTransfer, CanGetUrl,
                  PutUrl, SequencerEnd, ConnAtHand, connVars
    <2>4. CASE DnsStep
      BY <2>4
      DEF DnsStep, NewQuery, NewNumeric, NewNonsense, Submit, SubmitEnd, AnswerCname,
          AnswerError, AnswerOk, LastAnswer, Answer, AnswersEnd, Idle, ConnAtHand
    <2>5. CASE PipeStep
      BY <2>5
      DEF PipeStep, KeepAlive, NotYet, Written, TimeOut, Refused, Ended, EndOfFile,
          Visit, Idle, ConnAtHand
    <2>6. CASE OpenStep \/ CheckEnd \/ CronEnd \/ (\E t \in now..MaxNow : LoopTop(t))
               \/ (\E u \in Urls : Arrive(u)) \/ UNCHANGED vars
      BY <2>6
      DEF OpenStep, OpenSite, OpenEnd, CheckEnd, CronEnd, LoopTop, Arrive, loopVars,
          vars, connVars, ConnAtHand
    <2> QED BY <2>1, <2>2, <2>3, <2>4, <2>5, <2>6 DEF Next, ThreadNext
  <1> QED BY <1>1, <1>2, TypeCorrect, PTL DEF Spec

-----------------------------------------------------------------------------
(* URLsDiskWait *)

\* cron announces no more urls of URLsDiskWait than the file holds, although
\* the urls read are put back at its other end.
THEOREM ReadWaitIsBacked == Spec => []ReadWaitBacked
  <1>1. Init => ReadWaitBacked
    BY DEF Init, ReadWaitBacked
  <1>2. TypeOK /\ ReadWaitBacked /\ [Next]_vars => ReadWaitBacked'
    <2> SUFFICES ASSUME TypeOK, ReadWaitBacked, [Next]_vars PROVE ReadWaitBacked'
      OBVIOUS
    <2>1. waitQ \in Seq(Urls) /\ Len(waitQ) \in Nat /\ readWait \in Nat
      BY LenProperties DEF TypeOK, QueueType
    <2>2. CASE SequencerStep
      <3>1. ASSUME NEW u \in Urls, CanGetUrl(u)
            PROVE  /\ WaitQAfterGet \in Seq(Urls)
                   /\ readWait' <= Len(WaitQAfterGet)
                   /\ readWait' <= Len(Append(WaitQAfterGet, u))
        <4>1. CASE readWait > 0
          <5>1. /\ waitQ # <<>> /\ readWait' = readWait - 1
                /\ WaitQAfterGet = Tail(waitQ)
            BY <3>1, <4>1 DEF CanGetUrl, WaitQAfterGet
          <5>2. Tail(waitQ) \in Seq(Urls) /\ Len(Tail(waitQ)) = Len(waitQ) - 1
            BY <2>1, <5>1
          <5>3. Len(Append(Tail(waitQ), u)) = Len(waitQ)
            BY <2>1, <5>2
          <5>4. readWait' <= Len(waitQ) - 1 /\ readWait' <= Len(waitQ)
            BY <2>1, <5>1 DEF ReadWaitBacked
          <5> QED BY <5>1, <5>2, <5>3, <5>4
        <4>2. CASE ~(readWait > 0)
          <5>1. readWait' = 0 /\ WaitQAfterGet = waitQ
            BY <3>1, <4>2 DEF CanGetUrl, WaitQAfterGet
          <5>2. Len(Append(waitQ, u)) = Len(waitQ) + 1
            BY <2>1
          <5> QED BY <2>1, <5>1, <5>2
        <4> QED BY <4>1, <4>2
      <3>2. ASSUME NEW u \in Urls,
                   PutForget(u) \/ PutBack(u) \/ PutNamed(u) \/ PutTransfer(u)
            PROVE  ReadWaitBacked'
        BY <3>1, <3>2 DEF PutForget, PutBack, PutNamed, PutTransfer, ReadWaitBacked
      <3>3. CASE SequencerEnd
        BY <3>3 DEF SequencerEnd, queueVars, ReadWaitBacked
      <3> QED BY <2>2, <3>2, <3>3 DEF SequencerStep
    <2>3. CASE CronEnd
      BY <2>1, <2>3 DEF CronEnd, ReadWaitBacked
    <2>4. CASE FetchStep \/ ScanStep \/ DnsStep
      BY <2>4
      DEF FetchStep, FetchEmpty, FetchTooEarly, FetchConnect, FetchFail, GetUrl,
          ScanStep, ScanForget, ScanKeep, ScanTransfer, ScanEnd, ScanNext,
          DnsStep, NewQuery, NewNumeric, NewNonsense, Submit, SubmitEnd, AnswerCname,
          AnswerError, AnswerOk, LastAnswer, Answer, AnswersEnd, queueVars, ReadWaitBacked
    <2>5. CASE PipeStep \/ OpenStep \/ CheckEnd
      BY <2>5
      DEF PipeStep, KeepAlive, NotYet, Written, TimeOut, Refused, Ended, EndOfFile,
          OpenStep, OpenSite, OpenEnd, CheckEnd, queueVars, ReadWaitBacked
    <2>6. CASE \/ \E t \in now..MaxNow : LoopTop(t)
               \/ \E u \in Urls : Arrive(u)
               \/ UNCHANGED vars
      BY <2>6 DEF LoopTop, Arrive, vars, queueVars, ReadWaitBacked
    <2> QED BY <2>2, <2>3, <2>4, <2>5, <2>6 DEF Next, ThreadNext
  <1> QED BY <1>1, <1>2, TypeCorrect, PTL DEF Spec

-----------------------------------------------------------------------------
(* The dns queries *)

\* nbDnsCalls is the number of queries out, and never above dnsConn, whatever
\* the answers: the resolver is not flooded, and the thread does not stop
\* asking because of answers it has counted badly.
THEOREM DnsCallsCounted == Spec => []DnsCallsExact
  <1> DEFINE Out == {s \in NamedSlots : asked[s] > 0}
  <1>1. Init => DnsCallsExact
    <2> SUFFICES ASSUME Init PROVE DnsCallsExact
      OBVIOUS
    <2>1. Out = {} /\ nbDnsCalls = 0
      BY DEF Init
    <2> QED BY <2>1, FS_EmptySet, SizeAssumption DEF DnsCallsExact
  <1>2. Core /\ DnsCallsExact /\ [Next]_vars => DnsCallsExact'
    <2> SUFFICES ASSUME Core, DnsCallsExact, [Next]_vars PROVE DnsCallsExact'
      OBVIOUS
    <2>1. IsFiniteSet(Out) /\ Cardinality(Out) \in Nat
      <3>1. Out \subseteq NamedSlots /\ IsFiniteSet(NamedSlots)
        BY UrlAssumption
      <3> QED BY <3>1, FS_Subset, FS_CardinalityType
    <2>2. nbDnsCalls = Cardinality(Out) /\ nbDnsCalls <= DnsConn /\ DnsConn \in Nat
      BY SizeAssumption DEF DnsCallsExact
    <2>3. \A s \in NamedSlots : asked[s] \in Nat
      BY DEF Core, TypeOK, SiteType
    <2>4. ASSUME NEW s \in NamedSlots, NewQuery(s) PROVE DnsCallsExact'
      <3>1. Submit(s) /\ nbDnsCalls < DnsConn /\ nbDnsCalls' = nbDnsCalls + 1
        BY <2>4 DEF NewQuery, Submit, MaySubmit
      <3>2. asked[s] = 0
        BY <3>1, SubmitHeld
      <3>3. \A t \in NamedSlots : asked'[t] = IF t = s THEN 1 ELSE asked[t]
        BY <2>4, <3>2 DEF NewQuery, Core, TypeOK, SiteType
      <3>4. Out' = Out \cup {s} /\ s \notin Out
        BY <3>2, <3>3
      <3> HIDE DEF Out
      <3>5. Cardinality(Out \cup {s}) = Cardinality(Out) + 1
        BY <2>1, <3>4, FS_AddElement
      <3>6. nbDnsCalls' = Cardinality(Out')
        BY <2>2, <3>1, <3>4, <3>5
      <3>7. nbDnsCalls' <= DnsConn
        BY <2>1, <2>2, <3>1
      <3> QED BY <3>6, <3>7 DEF DnsCallsExact, Out
    <2>5. ASSUME NEW s \in NamedSlots, LastAnswer(s) PROVE DnsCallsExact'
      <3>1. asked[s] > 0 /\ nbDnsCalls' = nbDnsCalls - 1
        BY <2>5 DEF LastAnswer, Answer
      <3>2. \A t \in NamedSlots : asked'[t] = IF t = s THEN 0 ELSE asked[t]
        BY <2>5, AnswerHeld
      <3>3. Out' = Out \ {s} /\ s \in Out
        BY <3>1, <3>2
      <3> HIDE DEF Out
      <3>4. Cardinality(Out \ {s}) = Cardinality(Out) - 1
        BY <2>1, <3>3, FS_RemoveElement
      <3>5. nbDnsCalls' = Cardinality(Out') /\ nbDnsCalls' <= DnsConn
        BY <2>1, <2>2, <3>1, <3>3, <3>4
      <3> QED BY <3>5 DEF DnsCallsExact, Out
    <2>6. CASE UNCHANGED <<asked, nbDnsCalls>>
      BY <2>6 DEF DnsCallsExact
    <2>7. CASE DnsStep
      BY <2>4, <2>5, <2>6, <2>7
      DEF DnsStep, NewNumeric, NewNonsense, SubmitEnd, AnswerCname, AnswerError,
          AnswerOk, AnswersEnd, siteVars
    <2>8. CASE FetchStep \/ ScanStep \/ SequencerStep
      BY <2>6, <2>8
      DEF FetchStep, FetchEmpty, FetchTooEarly, FetchConnect, FetchFail, GetUrl,
          ScanStep, ScanForget, ScanKeep, ScanTransfer, ScanEnd, ScanNext,
          SequencerStep, PutForget, PutBack, PutNamed, PutTransfer, CanGetUrl,
          SequencerEnd, siteVars
    <2>9. CASE PipeStep \/ OpenStep \/ CheckEnd \/ CronEnd
      BY <2>6, <2>9
      DEF PipeStep, KeepAlive, NotYet, Written, TimeOut, Refused, Ended, EndOfFile,
          OpenStep, OpenSite, OpenEnd, CheckEnd, CronEnd, siteVars
    <2>10. CASE \/ \E t \in now..MaxNow : LoopTop(t)
                \/ \E u \in Urls : Arrive(u)
                \/ UNCHANGED vars
      BY <2>6, <2>10 DEF LoopTop, Arrive, vars, siteVars
    <2> QED BY <2>7, <2>8, <2>9, <2>10 DEF Next, ThreadNext
  <1> QED BY <1>1, <1>2, CoreInvariant, PTL DEF Spec
-----------------------------------------------------------------------------
(* The calls made to the servers: CrawlerThreadHistory *)

\* The history is only written: what the thread keeps, it keeps.
LEMMA HCore == HSpec => []Core
  <1>1. HInit => Core
    BY InitCore DEF HInit
  <1>2. Core /\ [HNext]_hvars => Core'
    <2>1. [HNext]_hvars => [Next]_vars
      BY DEF HNext, hvars
    <2> QED BY <2>1, NextCore
  <1> QED BY <1>1, <1>2, PTL DEF HSpec

\* Only fetch opens a connexion for a page: of the site it fetches, when the
\* turn of that site has come.
LEMMA PageOpened ==
    ASSUME Core, Next, NEW i \in IPSlots, OpenedPage(i) # {}
    PROVE  \E st : FetchConnect(i, st)
  <1>1. PICK c \in Conns : /\ connState[c] = "emptyC" /\ connState'[c] # "emptyC"
                           /\ server'[c] = NoSite /\ i = fetching
    BY DEF OpenedPage
  <1>2. fetching # NoIP
    BY <1>1, UrlAssumption
  <1>3. ~ScanStep
    BY <1>2 DEF ScanStep, ScanForget, ScanKeep, ScanTransfer, ScanEnd, ScanNext
  <1>4. ~SequencerStep
    BY <1>2 DEF SequencerStep, PutForget, PutBack, PutNamed, PutTransfer, CanGetUrl,
                SequencerEnd, Idle
  <1>5. ~DnsStep
    BY <1>2 DEF DnsStep, NewQuery, NewNonsense, NewNumeric, Submit, SubmitEnd, AnswerCname,
                AnswerError, AnswerOk, LastAnswer, Answer, AnswersEnd, Idle
  <1>6. ~PipeStep
    BY <1>2 DEF PipeStep, KeepAlive, NotYet, Written, TimeOut, Refused, Ended, Visit, Idle
  <1>7. ~(OpenStep \/ CheckEnd \/ CronEnd \/ \E t \in now..MaxNow : LoopTop(t))
    BY <1>2 DEF OpenStep, OpenSite, OpenEnd, CheckEnd, CronEnd, LoopTop, Idle
  <1>8. ~(\E u \in Urls : Arrive(u))
    BY <1>1 DEF Arrive, connVars
  <1>9. ASSUME NEW j \in IPSlots, FetchEmpty(j) \/ FetchTooEarly(j) \/ FetchFail(j) PROVE FALSE
    BY <1>1, <1>9 DEF FetchEmpty, FetchTooEarly, FetchFail, connVars
  <1>10. PICK j \in IPSlots, st \in getFds \ {"emptyC"} : FetchConnect(j, st)
    BY <1>3, <1>4, <1>5, <1>6, <1>7, <1>8, <1>9 DEF Next, ThreadNext, FetchStep
  <1>11. j = i
    BY <1>1, <1>10 DEF FetchConnect, GetUrl
  <1> QED BY <1>10, <1>11

\* lastAccess is never before the last page: fetch writes it, and no connexion
\* that failed moves it back.
LastPageKnown ==
    /\ lastPage \in [IPSlots -> Nat]
    /\ \A i \in IPSlots : lastPage[i] <= lastAccess[i]

LEMMA SpacedStep ==
    ASSUME Core, LastPageKnown, HNext
    PROVE  /\ LastPageKnown'
           /\ \A i \in IPSlots : OpenedPage(i) # {} => now - lastPage[i] >= WaitDuration
  <1>1. /\ now \in Nat /\ WaitDuration \in Nat /\ lastAccess \in [IPSlots -> Nat]
        /\ lastAccess' \in [IPSlots -> Nat]
    <2>1. TypeOK /\ TypeOK'
      BY NextCore DEF Core, HNext
    <2> QED BY <2>1, TimeAssumption DEF TypeOK, LoopType, IPType
  <1>2. ASSUME NEW i \in IPSlots, NEW j \in IPSlots, NEW st, FetchConnect(j, st)
        PROVE  /\ lastAccess[j] + WaitDuration <= now
               /\ lastAccess'[i] = IF i = j THEN now ELSE lastAccess[i]
    BY <1>1, <1>2 DEF FetchConnect, GetUrl
  <1>3. ASSUME NEW i \in IPSlots, OpenedPage(i) # {}
        PROVE  now - lastPage[i] >= WaitDuration /\ lastAccess'[i] = now
    <2>1. \E st : FetchConnect(i, st)
      BY <1>3, PageOpened DEF HNext
    <2> QED BY <1>1, <1>2, <2>1 DEF LastPageKnown
  <1>4. ASSUME NEW i \in IPSlots PROVE lastAccess[i] <= lastAccess'[i]
    <2>1. CASE \E j \in IPSlots : \E st : FetchConnect(j, st)
      BY <1>1, <1>2, <2>1
    <2>2. CASE UNCHANGED lastAccess
      BY <1>1, <2>2
    <2>3. CASE FetchStep
      <3>1. ASSUME NEW j \in IPSlots, FetchEmpty(j) \/ FetchTooEarly(j) \/ FetchFail(j)
            PROVE  UNCHANGED lastAccess
        BY <3>1 DEF FetchEmpty, FetchTooEarly, FetchFail
      <3> QED BY <2>1, <2>2, <2>3, <3>1 DEF FetchStep
    <2>4. CASE ScanStep \/ SequencerStep
      <3>1. UNCHANGED lastAccess
        BY <2>4 DEF ScanStep, ScanForget, ScanKeep, ScanTransfer, ScanEnd, SequencerStep,
                    PutForget, PutBack, PutNamed, PutTransfer, SequencerEnd, PutUrl, ipVars
      <3> QED BY <2>2, <3>1
    <2>5. CASE DnsStep
      <3>1. UNCHANGED lastAccess
        BY <2>5 DEF DnsStep, NewQuery, NewNonsense, NewNumeric, Submit, SubmitEnd, AnswerCname,
                    AnswerError, AnswerOk, LastAnswer, Answer, AnswersEnd, ipVars
      <3> QED BY <2>2, <3>1
    <2>6. CASE PipeStep
      <3>1. UNCHANGED lastAccess
        BY <2>6 DEF PipeStep, KeepAlive, NotYet, Written, TimeOut, Refused, Ended, EndOfFile, ipVars
      <3> QED BY <2>2, <3>1
    <2>7. CASE OpenStep \/ CheckEnd \/ CronEnd \/ \E t \in now..MaxNow : LoopTop(t)
      <3>1. UNCHANGED lastAccess
        BY <2>7 DEF OpenStep, OpenSite, OpenEnd, CheckEnd, CronEnd, LoopTop, ipVars
      <3> QED BY <2>2, <3>1
    <2>8. CASE \E u \in Urls : Arrive(u)
      <3>1. UNCHANGED lastAccess
        BY <2>8 DEF Arrive, ipVars
      <3> QED BY <2>2, <3>1
    <2> QED BY <2>3, <2>4, <2>5, <2>6, <2>7, <2>8 DEF HNext, Next, ThreadNext
  <1>5. \A i \in IPSlots : lastPage'[i] = IF OpenedPage(i) # {} THEN now ELSE lastPage[i]
    BY DEF HNext, Record
  <1>6. lastPage' \in [IPSlots -> Nat]
    BY <1>1 DEF HNext, Record, LastPageKnown
  <1>7. ASSUME NEW i \in IPSlots PROVE lastPage'[i] <= lastAccess'[i]
    BY <1>1, <1>3, <1>4, <1>5, <1>7 DEF LastPageKnown
  <1> QED BY <1>3, <1>6, <1>7 DEF LastPageKnown

\* Two pages are never asked of one address less than waitDuration apart.
THEOREM PagesAreSpaced == HSpec => PagesSpaced
  <1>1. HInit => LastPageKnown
    BY DEF HInit, Init, LastPageKnown
  <1>2. Core /\ LastPageKnown /\ [HNext]_hvars => LastPageKnown'
    <2>1. Core /\ LastPageKnown /\ HNext => LastPageKnown'
      BY SpacedStep
    <2>2. LastPageKnown /\ UNCHANGED hvars => LastPageKnown'
      BY DEF LastPageKnown, hvars, historyVars, vars, ipVars
    <2> QED BY <2>1, <2>2
  <1>3. Core /\ LastPageKnown /\ [HNext]_hvars =>
          [\A i \in IPSlots : OpenedPage(i) # {} => now - lastPage[i] >= WaitDuration]_hvars
    BY SpacedStep
  <1> QED BY <1>1, <1>2, <1>3, HCore, PTL DEF HSpec, PagesSpaced
\* What newId, dnsAns and robotsResult know of a site: no answer while a query
\* is out, and the robots.txt request of a site that is done has ended.
IdsCleared == \A s \in NamedSlots :
    /\ asked[s] > 0 => id[s].dnsState = "waitDns"
    /\ id[s].dnsState = "doneDns" => <<id[s].name, id[s].port, id[s].ip>> \in cleared

\* u may be asked of the server i
MayAsk(u, i) == <<HostOf[u], PortOf[u], i>> \in cleared

TabsCleared == \A i \in IPSlots : \A u \in ToSet(tab[i]) : MayAsk(u, i)
HereCleared == \A c \in Conns : here[c] # NoUrl => MayAsk(here[c], at[c])

\* Nothing is taken out of cleared.
LEMMA ClearedGrows ==
    ASSUME HNext
    PROVE  /\ cleared \subseteq cleared'
           /\ \A u, i : MayAsk(u, i) => MayAsk(u, i)'
  BY DEF HNext, Record, MayAsk

\* fetchDns gives a new identity to a site, or an address to one whose query
\* is answered: that site is not done before its robots.txt request is.
LEMMA DnsCleared ==
    ASSUME Core, HNext, IdsCleared, DnsStep
    PROVE  IdsCleared'
  <1>1. /\ id \in [NamedSlots -> Identity]
        /\ \A t \in NamedSlots : asked[t] \in Nat
        /\ cleared \subseteq cleared'
    BY ClearedGrows DEF Core, TypeOK, SiteType
  <1>2. ASSUME UNCHANGED <<id, asked>> PROVE IdsCleared'
    BY <1>1, <1>2 DEF IdsCleared
  <1>3. ASSUME NEW s \in NamedSlots, NEW d, id' = [id EXCEPT ![s] = d],
               d.dnsState # "doneDns",
               \/ \A t \in NamedSlots : asked'[t] = IF t = s THEN 0 ELSE asked[t]
               \/ d.dnsState = "waitDns" /\ asked' = [asked EXCEPT ![s] = @ + 1]
        PROVE  IdsCleared'
    <2>1. \A t \in NamedSlots : id'[t] = IF t = s THEN d ELSE id[t]
      BY <1>1, <1>3
    <2>2. \A t \in NamedSlots \ {s} : asked'[t] = asked[t]
      BY <1>3 DEF Core, TypeOK, SiteType
    <2>3. \/ asked'[s] = 0 \/ d.dnsState = "waitDns"
      BY <1>3
    <2> QED BY <1>1, <1>3, <2>1, <2>2, <2>3 DEF IdsCleared
  <1>4. ASSUME NEW s \in NamedSlots, NEW d, d.dnsState = "waitDns",
               DOMAIN d = DOMAIN id[s],
               \A t \in NamedSlots : asked'[t] = IF t = s THEN 0 ELSE asked[t],
               \/ \E st : DnsOK(s, d, st)
               \/ DnsNoSocket(s, d)
               \/ DnsErr(s, d)
        PROVE  IdsCleared'
    <2>1. "dnsState" \in DOMAIN d
      BY <1>1, <1>4 DEF Identity
    <2>2. \E e : id' = [id EXCEPT ![s] = e] /\ e.dnsState # "doneDns"
      BY <1>4, <2>1 DEF DnsOK, DnsNoSocket, DnsErr
    <2> QED BY <1>3, <1>4, <2>2
  <1>5. ASSUME NEW s \in NamedSlots, Submit(s)
        PROVE  /\ NewId(s).dnsState = "waitDns"
               /\ DOMAIN NewId(s) = DOMAIN id[s]
               /\ \A ip : /\ [NewId(s) EXCEPT !.ip = ip].dnsState = "waitDns"
                          /\ DOMAIN [NewId(s) EXCEPT !.ip = ip] = DOMAIN id[s]
               /\ UNCHANGED asked =>
                    \A t \in NamedSlots : asked'[t] = IF t = s THEN 0 ELSE asked[t]
    <2>1. asked[s] = 0
      BY <1>5, SubmitHeld
    <2> QED BY <1>1, <2>1 DEF NewId, Identity
  <1>6. ASSUME NEW s \in NamedSlots, LastAnswer(s)
        PROVE  /\ id[s].dnsState = "waitDns"
               /\ \A ip : /\ [id[s] EXCEPT !.ip = ip].dnsState = "waitDns"
                          /\ DOMAIN [id[s] EXCEPT !.ip = ip] = DOMAIN id[s]
               /\ \A t \in NamedSlots : asked'[t] = IF t = s THEN 0 ELSE asked[t]
    <2>1. id[s].dnsState = "waitDns"
      BY <1>6 DEF LastAnswer, Answer, IdsCleared
    <2> QED BY <1>1, <1>6, <2>1, AnswerHeld DEF Identity
  <1>7. ASSUME NEW s \in NamedSlots, NewQuery(s) PROVE IdsCleared'
    BY <1>3, <1>5, <1>7 DEF NewQuery
  <1>8. ASSUME NEW s \in NamedSlots, NewNonsense(s) PROVE IdsCleared'
    BY <1>4, <1>5, <1>8 DEF NewNonsense
  <1>9. ASSUME NEW s \in NamedSlots, NEW ip \in IPSlots, NEW st \in getFds,
               NewNumeric(s, ip, st)
        PROVE  IdsCleared'
    BY <1>4, <1>5, <1>9 DEF NewNumeric
  <1>10. ASSUME NEW s \in NamedSlots, NEW ip \in IPSlots, NEW st \in getFds,
                AnswerOk(s, ip, st)
         PROVE  IdsCleared'
    BY <1>4, <1>6, <1>10 DEF AnswerOk
  <1>11. ASSUME NEW s \in NamedSlots, AnswerError(s) PROVE IdsCleared'
    BY <1>4, <1>6, <1>11 DEF AnswerError
  <1>12. ASSUME \/ SubmitEnd \/ AnswersEnd
                \/ \E s \in NamedSlots : AnswerCname(s)
         PROVE  IdsCleared'
    BY <1>2, <1>12 DEF SubmitEnd, AnswersEnd, AnswerCname, siteVars
  <1> QED BY <1>7, <1>8, <1>9, <1>10, <1>11, <1>12 DEF DnsStep

\* endOfFile of a robots.txt: the site is done, for the name, the port and the
\* address it was asked of.
LEMMA EndOfFileCleared ==
    ASSUME Core, HNext, IdsCleared, Idle,
           NEW c \in Conns, NEW refused, NEW f, EndOfFile(c, refused, f)
    PROVE  IdsCleared'
  <1>1. /\ id \in [NamedSlots -> Identity] /\ UNCHANGED asked
        /\ \A t \in NamedSlots : asked[t] \in Nat
        /\ cleared \subseteq cleared'
    BY ClearedGrows DEF Core, TypeOK, SiteType, EndOfFile
  <1>2. CASE EndOfRobots(c, refused, f)
    <2> DEFINE s == server[c]
    <2>1. s \in NamedSlots /\ scanSite' = s /\ closing' = c
      BY <1>2 DEF EndOfRobots, StartScan, Core, TypeOK, ConnType
    <2>6. scanSite # s /\ closing' # 0
      BY <2>1, SizeAssumption, UrlAssumption DEF Idle, Conns
    <2>2. asked[s] = 0
      BY <1>1, <2>1 DEF Core, SiteHeldOnce
    <2>3. \A t \in NamedSlots \ {s} : id'[t] = id[t]
      BY <1>1, <1>2 DEF EndOfRobots
    <2>4. /\ id'[s].name = id[s].name /\ id'[s].port = id[s].port
          /\ id'[s].ip = id[s].ip
      BY <1>1, <1>2, <2>1 DEF EndOfRobots, Identity
    <2>5. id'[s].dnsState = "doneDns" => <<id[s].name, id[s].port, id[s].ip>> \in cleared'
      BY <2>1, <2>6 DEF HNext, Record, RobotsEnded
    <2> QED BY <1>1, <2>2, <2>3, <2>4, <2>5 DEF IdsCleared
  <1>3. CASE EndOfPage(c)
    BY <1>1, <1>3 DEF EndOfPage, IdsCleared
  <1> QED BY <1>2, <1>3 DEF EndOfFile

\* Every step keeps what is known of the sites.
LEMMA IdsStep ==
    ASSUME Core, HNext, IdsCleared
    PROVE  IdsCleared'
  <1>1. ASSUME UNCHANGED <<id, asked>> PROVE IdsCleared'
    BY <1>1, ClearedGrows DEF IdsCleared
  <1>2. CASE FetchStep \/ ScanStep \/ SequencerStep
    BY <1>1, <1>2
    DEF FetchStep, FetchEmpty, FetchTooEarly, FetchConnect, FetchFail, GetUrl,
        ScanStep, ScanForget, ScanKeep, ScanTransfer, ScanEnd, ScanNext,
        SequencerStep, PutForget, PutBack, PutNamed, PutTransfer, CanGetUrl,
        SequencerEnd, siteVars
  <1>3. CASE PipeStep
    <2>1. ASSUME NEW c \in Conns, KeepAlive(c) \/ NotYet(c) \/ \E st : Written(c, st)
          PROVE  IdsCleared'
      BY <1>1, <2>1 DEF KeepAlive, NotYet, Written, siteVars
    <2>2. ASSUME NEW c \in Conns, NEW f, TimeOut(c, f) \/ Refused(c, f) \/ Ended(c, f)
          PROVE  IdsCleared'
      <3>1. Idle /\ \E refused \in BOOLEAN : EndOfFile(c, refused, f)
        BY <2>2 DEF TimeOut, Refused, Ended, Visit
      <3> QED BY <3>1, EndOfFileCleared
    <2> QED BY <1>3, <2>1, <2>2 DEF PipeStep
  <1>4. CASE OpenStep \/ CheckEnd \/ CronEnd
    BY <1>1, <1>4 DEF OpenStep, OpenSite, OpenEnd, CheckEnd, CronEnd, siteVars
  <1>5. CASE \/ \E t \in now..MaxNow : LoopTop(t)
             \/ \E u \in Urls : Arrive(u)
    BY <1>1, <1>5 DEF LoopTop, Arrive, siteVars
  <1> QED BY <1>2, <1>3, <1>4, <1>5, DnsCleared DEF HNext, Next, ThreadNext

\* A url joins the IP site of a known site that is done, for its own host and
\* port: PutUrl is called under no other conditions.
LEMMA PutUrlCleared ==
    ASSUME Core, HNext, IdsCleared, TabsCleared,
           NEW s \in NamedSlots, NEW u \in Urls, PutUrl(id[s].ip, u),
           id[s].dnsState = "doneDns", SameName(s, u), id[s].port = PortOf[u]
    PROVE  TabsCleared'
  <1>1. id[s].ip \in IPSlots
    BY DEF Core, TypeOK, SiteType, Identity
  <1>2. MayAsk(u, id[s].ip)
    BY DEF IdsCleared, SameName, MayAsk
  <1>3. ASSUME NEW i \in IPSlots
        PROVE  ToSet(tab[i])' \subseteq ToSet(tab[i]) \cup (IF i = id[s].ip THEN {u} ELSE {})
    <2>1. tab[i] \in Seq(Urls)
      BY DEF Core, TypeOK, IPType
    <2>2. Adds(Append(tab[i], u), tab[i], u)
      BY <2>1, PutQueue, Zenon
    <2>3. tab'[i] = IF i = id[s].ip THEN Append(tab[i], u) ELSE tab[i]
      BY <1>1 DEF Core, TypeOK, IPType, PutUrl
    <2> QED BY <2>2, <2>3 DEF Adds
  <1> QED BY <1>2, <1>3, ClearedGrows DEF TabsCleared

\* The connexion given to a page holds no url.
LEMMA PageConn ==
    ASSUME Core, freeConns # <<>>
    PROVE  Head(freeConns) \in Conns /\ here[Head(freeConns)] = NoUrl
  <1>1. /\ Head(freeConns) \in Conns /\ Head(freeConns) \in ToSet(freeConns)
    BY GetQueue DEF Core, TypeOK, ConnType
  <1> QED BY <1>1 DEF Core, FreeConnsExact, ConnServesOne

\* Every step keeps the urls of the IP sites and of the connexions cleared.
LEMMA PagesStep ==
    ASSUME Core, HNext, IdsCleared, TabsCleared, HereCleared
    PROVE  TabsCleared' /\ HereCleared'
  <1>1. \A u, i : MayAsk(u, i) => MayAsk(u, i)'
    BY ClearedGrows
  <1>2. ASSUME UNCHANGED tab PROVE TabsCleared'
    BY <1>1, <1>2 DEF TabsCleared
  <1>3. \A c \in Conns : at'[c] = IF here'[c] = NoUrl THEN NoIP
                                   ELSE IF here[c] = NoUrl THEN fetching ELSE at[c]
    BY DEF HNext, Record
  <1>4. ASSUME UNCHANGED here PROVE HereCleared'
    BY <1>1, <1>3, <1>4 DEF HereCleared
  <1>5. ASSUME NEW j \in IPSlots, GetUrl(j) PROVE TabsCleared'
    <2>1. tab[j] \in Seq(Urls) /\ tab[j] # <<>> /\ tab \in [IPSlots -> Seq(Urls)]
      BY <1>5 DEF GetUrl, Core, TypeOK, IPType
    <2>2. ToSet(Tail(tab[j])) \subseteq ToSet(tab[j])
      BY <2>1 DEF ToSet
    <2>3. \A i \in IPSlots : ToSet(tab'[i]) \subseteq ToSet(tab[i])
      BY <1>5, <2>1, <2>2 DEF GetUrl
    <2> QED BY <1>1, <2>3 DEF TabsCleared
  <1>6. ASSUME NEW j \in IPSlots, NEW st, FetchConnect(j, st) PROVE HereCleared'
    <2>1. tab[j] \in Seq(Urls) /\ tab[j] # <<>>
      BY <1>6 DEF FetchConnect, GetUrl, Core, TypeOK, IPType
    <2>2. PICK u \in ToSet(tab[j]) : u = Head(tab[j])
      BY <2>1, GetQueue, Zenon
    <2>3. MayAsk(u, j)'
      BY <1>1, <2>2 DEF TabsCleared
    <2>4. PICK d \in Conns : here[d] = NoUrl /\ here' = [here EXCEPT ![d] = u]
      BY <1>6, <2>2, PageConn DEF FetchConnect, GetUrl
    <2>5. \A c \in Conns : here'[c] = IF c = d THEN u ELSE here[c]
      BY <2>4 DEF Core, TypeOK, ConnType
    <2>6. at'[d] = j
      <3>1. u # NoUrl /\ fetching = j
        BY <1>6, <2>1, <2>2, UrlAssumption DEF FetchConnect, GetUrl, ToSet
      <3> QED BY <1>3, <2>4, <2>5, <3>1
    <2>7. ASSUME NEW c \in Conns, here'[c] # NoUrl PROVE MayAsk(here[c], at[c])'
      <3>1. CASE c = d
        BY <2>3, <2>5, <2>6, <3>1 DEF MayAsk
      <3>2. CASE c # d
        <4>1. here'[c] = here[c] /\ at'[c] = at[c] /\ MayAsk(here[c], at[c])
          BY <1>3, <2>5, <2>7, <3>2 DEF HereCleared
        <4>2. MayAsk(here[c], at[c])'
          BY <1>1, <4>1 DEF MayAsk
        <4> QED BY <4>2
      <3> QED BY <3>1, <3>2
    <2> QED BY <2>7 DEF HereCleared
  <1>7. CASE FetchStep
    <2>1. ASSUME NEW j \in IPSlots, FetchEmpty(j) \/ FetchTooEarly(j) PROVE UNCHANGED <<tab, here>>
      BY <2>1 DEF FetchEmpty, FetchTooEarly, connVars
    <2>2. ASSUME NEW j \in IPSlots, FetchFail(j) PROVE GetUrl(j) /\ UNCHANGED here
      BY <2>2 DEF FetchFail
    <2>3. ASSUME NEW j \in IPSlots, NEW st, FetchConnect(j, st) PROVE GetUrl(j)
      BY <2>3 DEF FetchConnect
    <2> QED BY <1>2, <1>4, <1>5, <1>6, <1>7, <2>1, <2>2, <2>3 DEF FetchStep
  <1>8. CASE ScanStep
    <2>1. UNCHANGED here
      BY <1>8 DEF ScanStep, ScanForget, ScanKeep, ScanTransfer, ScanEnd, ScanNext, connVars
    <2>2. ASSUME NEW s \in NamedSlots, ScanTransfer(s) PROVE TabsCleared'
      <3>1. fifo[s] \in Seq(Urls) /\ fifo[s] # <<>>
        BY <2>2 DEF ScanTransfer, ScanNext, Core, TypeOK, SiteType
      <3>2. Head(fifo[s]) \in Urls
        BY <3>1, GetQueue, Zenon
      <3> QED BY <2>2, <3>2, PutUrlCleared DEF ScanTransfer
    <2>3. ASSUME NEW s \in NamedSlots, ScanForget(s) \/ ScanKeep(s) \/ ScanEnd(s)
          PROVE  UNCHANGED tab
      BY <2>3 DEF ScanForget, ScanKeep, ScanEnd, ipVars
    <2> QED BY <1>2, <1>4, <1>8, <2>1, <2>2, <2>3 DEF ScanStep
  <1>9. CASE SequencerStep
    <2>1. UNCHANGED here
      BY <1>9 DEF SequencerStep, PutForget, PutBack, PutNamed, PutTransfer, CanGetUrl,
                  SequencerEnd, connVars
    <2>2. ASSUME NEW u \in Urls, PutTransfer(u) PROVE TabsCleared'
      <3>1. Slot(u) \in NamedSlots
        BY UrlAssumption DEF Slot
      <3> QED BY <2>2, <3>1, PutUrlCleared DEF PutTransfer, Known
    <2>3. ASSUME \/ SequencerEnd
                 \/ \E u \in Urls : PutForget(u) \/ PutBack(u) \/ PutNamed(u)
          PROVE  UNCHANGED tab
      BY <2>3 DEF SequencerEnd, PutForget, PutBack, PutNamed, ipVars
    <2> QED BY <1>2, <1>4, <1>9, <2>1, <2>2, <2>3 DEF SequencerStep
  <1>10. CASE DnsStep
    <2>1. ASSUME NEW s \in NamedSlots, NEW d, NEW st,
                 DnsOK(s, d, st) \/ DnsNoSocket(s, d) \/ DnsErr(s, d)
          PROVE  UNCHANGED here
      BY <2>1 DEF DnsOK, DnsNoSocket, DnsErr, connVars
    <2>2. ASSUME NEW s \in NamedSlots, Submit(s) \/ Answer(s)
          PROVE  UNCHANGED tab
      BY <2>2 DEF Submit, Answer, ipVars
    <2>3. ASSUME NEW s \in NamedSlots, NEW ip, NEW st, NewNumeric(s, ip, st) \/ AnswerOk(s, ip, st)
          PROVE  UNCHANGED <<tab, here>>
      BY <2>1, <2>2, <2>3 DEF NewNumeric, AnswerOk, LastAnswer
    <2>4. ASSUME NEW s \in NamedSlots, NewNonsense(s) \/ AnswerError(s)
          PROVE  UNCHANGED <<tab, here>>
      BY <2>1, <2>2, <2>4 DEF NewNonsense, AnswerError, LastAnswer
    <2>5. ASSUME NEW s \in NamedSlots, NewQuery(s) \/ AnswerCname(s)
          PROVE  UNCHANGED <<tab, here>>
      BY <2>2, <2>5 DEF NewQuery, AnswerCname, connVars
    <2>6. CASE SubmitEnd \/ AnswersEnd
      BY <1>2, <1>4, <2>6 DEF SubmitEnd, AnswersEnd, ipVars, connVars
    <2> QED BY <1>2, <1>4, <1>10, <2>3, <2>4, <2>5, <2>6 DEF DnsStep
  <1>11. CASE PipeStep
    <2>1. UNCHANGED tab
      BY <1>11 DEF PipeStep, KeepAlive, NotYet, Written, TimeOut, Refused, Ended, EndOfFile, ipVars
    <2>2. \A c \in Conns : here'[c] = here[c] \/ here'[c] = NoUrl
      BY <1>11 DEF PipeStep, KeepAlive, NotYet, Written, TimeOut, Refused, Ended, EndOfFile,
                   EndOfRobots, EndOfPage, connVars, Core, TypeOK, ConnType
    <2>3. ASSUME NEW c \in Conns, here'[c] # NoUrl PROVE MayAsk(here[c], at[c])'
      <3>1. here'[c] = here[c] /\ at'[c] = at[c] /\ MayAsk(here[c], at[c])
        BY <1>3, <2>2, <2>3 DEF HereCleared
      <3> QED BY <1>1, <3>1 DEF MayAsk
    <2> QED BY <1>2, <2>1, <2>3 DEF HereCleared
  <1>12. CASE \/ OpenStep \/ CheckEnd \/ CronEnd
              \/ \E t \in now..MaxNow : LoopTop(t)
              \/ \E u \in Urls : Arrive(u)
    <2>1. UNCHANGED <<tab, here>>
      BY <1>12 DEF OpenStep, OpenSite, OpenEnd, CheckEnd, CronEnd, LoopTop, Arrive, ipVars, connVars
    <2> QED BY <1>2, <1>4, <2>1
  <1> QED BY <1>7, <1>8, <1>9, <1>10, <1>11, <1>12 DEF HNext, Next, ThreadNext

\* No page is asked of a server before a robots.txt request for its own host and
\* port to that same address ended otherwise than refused: neither the expiry of
\* dns answers nor a slot that meanwhile stands for another host, another port or
\* another address lets one through.
THEOREM PagesAreCleared == HSpec => []PageCleared
  <1> DEFINE J == IdsCleared /\ TabsCleared /\ HereCleared
  <1>1. HInit => J
    <2> SUFFICES ASSUME HInit PROVE J
      OBVIOUS
    <2>1. IdsCleared
      BY DEF HInit, Init, IdsCleared
    <2>2. TabsCleared
      BY DEF HInit, Init, TabsCleared, ToSet
    <2>3. HereCleared
      BY DEF HInit, Init, HereCleared
    <2> QED BY <2>1, <2>2, <2>3
  <1>2. Core /\ J /\ [HNext]_hvars => J'
    <2>1. Core /\ J /\ HNext => J'
      BY IdsStep, PagesStep
    <2>2. J /\ UNCHANGED hvars => J'
      BY DEF IdsCleared, TabsCleared, HereCleared, MayAsk, hvars, historyVars, vars,
             siteVars, ipVars, connVars
    <2> QED BY <2>1, <2>2
  <1>3. J => PageCleared
    BY DEF TabsCleared, HereCleared, MayAsk, PageCleared, ToSet
  <1> QED BY <1>1, <1>2, <1>3, HCore, PTL DEF HSpec

-----------------------------------------------------------------------------
(***************************************************************************)
(* Where the urls are, and how many: UrlInOnePlace, and the three counters *)
(* that bound the memory (nburls, the interval, IPUrl).                     *)
(* The places are the holders At(k, x): the sets of urls the queues, the    *)
(* connexions and the two histories hold.  Every step of the thread moves   *)
(* one url from one holder to another, or none (Moves, Stays); the theorems *)
(* follow from what a move does to a family of sets.                        *)
(***************************************************************************)
Kinds == {"fresh", "gone", "URLsDisk", "URLsDiskWait", "fifo", "tab", "conn"}

\* The holders of kind k are those of its keys
Keys(k) == IF k = "fifo" THEN NamedSlots
           ELSE IF k = "tab" THEN IPSlots
           ELSE IF k = "conn" THEN Conns ELSE {0}

\* The urls of one holder
At(k, x) == IF k = "fresh" THEN fresh
            ELSE IF k = "gone" THEN gone
            ELSE IF k = "URLsDisk" THEN ToSet(diskQ)
            ELSE IF k = "URLsDiskWait" THEN ToSet(waitQ)
            ELSE IF k = "fifo" THEN ToSet(fifo[x])
            ELSE IF k = "tab" THEN ToSet(tab[x])
            ELSE {here[x]} \ {NoUrl}

\* u is in the holder x of kind k, and in no other
Only(u, k, x) ==
    \A l \in Kinds : \A y \in Keys(l) : u \in At(l, y) <=> l = k /\ y = x

OneHolder == \A u \in Urls : \E k \in Kinds : \E x \in Keys(k) : Only(u, k, x)

\* No queue holds a url twice
UrlsOnce ==
    /\ IsInjective(diskQ) /\ IsInjective(waitQ)
    /\ \A s \in NamedSlots : IsInjective(fifo[s])
    /\ \A i \in IPSlots : IsInjective(tab[i])

\* A step takes u out of the holder x of kind k and puts it in y of kind l
Moves(u, k, x, l, y) ==
    /\ u \in At(k, x) /\ u \in Urls
    /\ k \in Kinds /\ x \in Keys(k) /\ l \in Kinds /\ y \in Keys(l)
    /\ ~(k = l /\ x = y)
    /\ \A m \in Kinds : \A z \in Keys(m) :
         At(m, z)' = IF m = k /\ z = x THEN At(k, x) \ {u}
                     ELSE IF m = l /\ z = y THEN At(l, y) \cup {u}
                     ELSE At(m, z)

\* A step leaves every url where it is
Stays == \A m \in Kinds : \A z \in Keys(m) : At(m, z)' = At(m, z)

\* The urls of the holders of the kinds K
HeldBy(K) == {u \in Urls : \E k \in K : \E x \in Keys(k) : u \in At(k, x)}

-----------------------------------------------------------------------------
(* Moves *)

\* A move keeps every url in one holder.
LEMMA MoveOne ==
    ASSUME OneHolder, NEW u, NEW k, NEW x, NEW l, NEW y, Moves(u, k, x, l, y)
    PROVE  OneHolder'
  <1>1. Only(u, k, x)
    BY DEF OneHolder, Only, Moves
  <1>2. \A m \in Kinds : \A z \in Keys(m) : u \in At(m, z)' <=> m = l /\ z = y
    BY <1>1 DEF Only, Moves
  <1>3. ASSUME NEW v \in Urls \ {u}, NEW m \in Kinds, NEW z \in Keys(m)
        PROVE  v \in At(m, z)' <=> v \in At(m, z)
    BY <1>3 DEF Moves
  <1>4. ASSUME NEW v \in Urls \ {u}
        PROVE  \E m \in Kinds : \E z \in Keys(m) : Only(v, m, z)'
    <2>1. PICK m \in Kinds : \E z \in Keys(m) : Only(v, m, z)
      BY DEF OneHolder
    <2>2. PICK z \in Keys(m) : Only(v, m, z)
      BY <2>1
    <2>3. Only(v, m, z)'
      BY <1>3, <2>2 DEF Only
    <2> QED BY <2>3
  <1>5. Only(u, l, y)' /\ l \in Kinds /\ y \in Keys(l)
    BY <1>2 DEF Only, Moves
  <1> QED BY <1>4, <1>5 DEF OneHolder

\* What a set of kinds holds gains the url that comes from outside, loses the
\* one that leaves, and no other.
LEMMA MoveHeld ==
    ASSUME OneHolder, NEW u, NEW k, NEW x, NEW l, NEW y, Moves(u, k, x, l, y),
           NEW K \in SUBSET Kinds
    PROVE  /\ u \in HeldBy(K) <=> k \in K
           /\ HeldBy(K)' = IF l \in K THEN HeldBy(K) \cup {u} ELSE HeldBy(K) \ {u}
  <1>1. \A m \in Kinds : \A z \in Keys(m) : u \in At(m, z) <=> m = k /\ z = x
    BY DEF OneHolder, Only, Moves
  <1>2. \A m \in Kinds : \A z \in Keys(m) : u \in At(m, z)' <=> m = l /\ z = y
    BY <1>1 DEF Moves
  <1>3. ASSUME NEW v \in Urls \ {u}, NEW m \in Kinds, NEW z \in Keys(m)
        PROVE  v \in At(m, z)' <=> v \in At(m, z)
    BY <1>3 DEF Moves
  <1>4. u \in HeldBy(K) <=> k \in K
    BY <1>1 DEF HeldBy, Moves
  <1>5. u \in HeldBy(K)' <=> l \in K
    BY <1>2 DEF HeldBy, Moves
  <1>6. ASSUME NEW v \in Urls \ {u} PROVE v \in HeldBy(K)' <=> v \in HeldBy(K)
    BY <1>3 DEF HeldBy
  <1>7. HeldBy(K) \subseteq Urls /\ HeldBy(K)' \subseteq Urls /\ u \in Urls
    BY DEF HeldBy, Moves
  <1> HIDE DEF HeldBy
  <1> QED BY <1>4, <1>5, <1>6, <1>7

\* A step that moves nothing.
LEMMA StayHeld ==
    ASSUME OneHolder, Stays
    PROVE  OneHolder' /\ \A K \in SUBSET Kinds : HeldBy(K)' = HeldBy(K)
  <1>1. ASSUME NEW u \in Urls, NEW k \in Kinds, NEW x \in Keys(k), Only(u, k, x)
        PROVE  Only(u, k, x)'
    BY <1>1 DEF Only, Stays
  <1>2. OneHolder'
    BY <1>1 DEF OneHolder
  <1>3. ASSUME NEW K \in SUBSET Kinds PROVE HeldBy(K)' = HeldBy(K)
    BY DEF HeldBy, Stays
  <1> QED BY <1>2, <1>3

\* The sets the invariants count are two such sets.
MemoryIsHeld ==
    InTabs = HeldBy({"tab"}) /\ InMemory = HeldBy({"fifo", "tab"})

LEMMA MemoryHeld == TypeOK => MemoryIsHeld
  <1> SUFFICES ASSUME TypeOK PROVE MemoryIsHeld
    OBVIOUS
  <1>1. \A s \in NamedSlots : ToSet(fifo[s]) \subseteq Urls
    BY EmptyQueue DEF TypeOK, SiteType
  <1>2. \A i \in IPSlots : ToSet(tab[i]) \subseteq Urls
    BY EmptyQueue DEF TypeOK, IPType
  <1>3. InTabs = HeldBy({"tab"})
    BY <1>2 DEF InTabs, HeldBy, At, Keys
  <1>4. \A u : u \in InMemory <=> \/ \E s \in NamedSlots : u \in ToSet(fifo[s])
                                 \/ \E i \in IPSlots : u \in ToSet(tab[i])
    BY DEF InMemory, InTabs
  <1>5. \A u : u \in HeldBy({"fifo", "tab"}) <=>
                /\ u \in Urls
                /\ \/ \E s \in NamedSlots : u \in ToSet(fifo[s])
                   \/ \E i \in IPSlots : u \in ToSet(tab[i])
    BY DEF HeldBy, At, Keys
  <1>6. \A u : u \in InMemory <=> u \in HeldBy({"fifo", "tab"})
    BY <1>1, <1>2, <1>4, <1>5
  <1>7. InMemory = HeldBy({"fifo", "tab"})
    <2> HIDE DEF InMemory, HeldBy
    <2> QED BY <1>6
  <1> QED BY <1>3, <1>7 DEF MemoryIsHeld

LEMMA MemoryHeldNext == TypeOK' => MemoryIsHeld'
  BY MemoryHeld, PTL

-----------------------------------------------------------------------------
(* What the steps move *)

\* A url that is in one holder is in no other.
LEMMA NotElsewhere ==
    ASSUME OneHolder, NEW u \in Urls, NEW k \in Kinds, NEW x \in Keys(k), u \in At(k, x)
    PROVE  Only(u, k, x)
  BY DEF OneHolder, Only

\* IPSite::getUrl takes the head of a tab.
LEMMA TabGet ==
    ASSUME TypeOK, UrlsOnce, NEW i \in IPSlots, GetUrl(i)
    PROVE  /\ Head(tab[i]) \in Urls /\ Head(tab[i]) \in ToSet(tab[i])
           /\ \A j \in IPSlots : ToSet(tab'[j]) = IF j = i THEN ToSet(tab[i]) \ {Head(tab[i])}
                                                  ELSE ToSet(tab[j])
           /\ \A j \in IPSlots : IsInjective(tab'[j])
  <1>1. tab[i] \in Seq(Urls) /\ tab[i] # <<>> /\ IsInjective(tab[i])
    BY DEF TypeOK, IPType, GetUrl, UrlsOnce
  <1>2. /\ Head(tab[i]) \in Urls /\ Head(tab[i]) \in ToSet(tab[i])
        /\ IsInjective(Tail(tab[i])) /\ ToSet(Tail(tab[i])) = ToSet(tab[i]) \ {Head(tab[i])}
    BY <1>1, GetQueue
  <1>3. \A j \in IPSlots : tab'[j] = IF j = i THEN Tail(tab[i]) ELSE tab[j]
    BY DEF TypeOK, IPType, GetUrl
  <1> QED BY <1>2, <1>3 DEF UrlsOnce

\* IPSite::putUrl appends to a tab.
LEMMA TabPut ==
    ASSUME TypeOK, UrlsOnce, NEW i \in IPSlots, NEW u \in Urls, PutUrl(i, u),
           u \notin ToSet(tab[i])
    PROVE  /\ \A j \in IPSlots : ToSet(tab'[j]) = IF j = i THEN ToSet(tab[i]) \cup {u}
                                                  ELSE ToSet(tab[j])
           /\ \A j \in IPSlots : IsInjective(tab'[j])
  <1>1. tab[i] \in Seq(Urls) /\ IsInjective(tab[i])
    BY DEF TypeOK, IPType, UrlsOnce
  <1>2. Adds(Append(tab[i], u), tab[i], u) /\ IsInjective(Append(tab[i], u))
    BY <1>1, PutQueue, Zenon
  <1>3. \A j \in IPSlots : tab'[j] = IF j = i THEN Append(tab[i], u) ELSE tab[j]
    BY DEF TypeOK, IPType, PutUrl
  <1> QED BY <1>2, <1>3 DEF UrlsOnce, Adds

\* The scan takes the head of the fifo of its site.
Dequeues(s) == fifo[s] # <<>> /\ fifo' = [fifo EXCEPT ![s] = Tail(@)]

LEMMA FifoGet ==
    ASSUME TypeOK, UrlsOnce, NEW s \in NamedSlots, Dequeues(s)
    PROVE  /\ Head(fifo[s]) \in Urls /\ Head(fifo[s]) \in ToSet(fifo[s])
           /\ \A t \in NamedSlots : ToSet(fifo'[t]) = IF t = s THEN ToSet(fifo[s]) \ {Head(fifo[s])}
                                                     ELSE ToSet(fifo[t])
           /\ \A t \in NamedSlots : IsInjective(fifo'[t])
  <1>1. fifo[s] \in Seq(Urls) /\ fifo[s] # <<>> /\ IsInjective(fifo[s])
    BY DEF TypeOK, SiteType, UrlsOnce, Dequeues
  <1>2. /\ Head(fifo[s]) \in Urls /\ Head(fifo[s]) \in ToSet(fifo[s])
        /\ IsInjective(Tail(fifo[s])) /\ ToSet(Tail(fifo[s])) = ToSet(fifo[s]) \ {Head(fifo[s])}
    BY <1>1, GetQueue
  <1>3. \A t \in NamedSlots : fifo'[t] = IF t = s THEN Tail(fifo[s]) ELSE fifo[t]
    BY DEF TypeOK, SiteType, Dequeues
  <1> QED BY <1>2, <1>3 DEF UrlsOnce

\* fetch: the page goes to a connexion, or is forgotten.
LEMMA FetchMoves ==
    ASSUME Core, OneHolder, UrlsOnce, NEW i \in IPSlots, GetUrl(i)
    PROVE  /\ \A st : FetchConnect(i, st) =>
                 Moves(Head(tab[i]), "tab", i, "conn", Head(freeConns)) /\ UrlsOnce'
           /\ FetchFail(i) => Moves(Head(tab[i]), "tab", i, "gone", 0) /\ UrlsOnce'
  <1> DEFINE u == Head(tab[i])
             c == Head(freeConns)
  <1>1. TypeOK /\ freeConns # <<>>
    BY DEF Core, GetUrl
  <1>2. /\ u \in Urls /\ u \in ToSet(tab[i])
        /\ \A j \in IPSlots : ToSet(tab'[j]) = IF j = i THEN ToSet(tab[i]) \ {u} ELSE ToSet(tab[j])
        /\ \A j \in IPSlots : IsInjective(tab'[j])
    BY <1>1, TabGet
  <1>3. c \in Conns /\ here[c] = NoUrl
    BY <1>1, PageConn
  <1>4. UNCHANGED <<diskQ, waitQ, fifo, fresh>>
    BY DEF GetUrl
  <1>5. UrlsOnce'
    BY <1>2, <1>4 DEF UrlsOnce
  <1>6. u # NoUrl
    BY <1>2, UrlAssumption
  <1>7. ASSUME NEW st, FetchConnect(i, st) PROVE Moves(u, "tab", i, "conn", c)
    <2>1. /\ gone' = gone
          /\ \A d \in Conns : here'[d] = IF d = c THEN u ELSE here[d]
      BY <1>7, <1>3 DEF FetchConnect, Core, TypeOK, ConnType
    <2> HIDE DEF u, c
    <2> QED BY <1>2, <1>3, <1>4, <1>6, <2>1 DEF Moves, At, Keys, Kinds
  <1>8. ASSUME FetchFail(i) PROVE Moves(u, "tab", i, "gone", 0)
    <2>1. gone' = gone \cup {u} /\ here' = here
      BY <1>8 DEF FetchFail
    <2> HIDE DEF u
    <2> QED BY <1>2, <1>4, <2>1 DEF Moves, At, Keys, Kinds
  <1> QED BY <1>5, <1>7, <1>8

\* A url put in the queue of an IP site leaves one holder for this tab; the
\* step changes the holder (k, x) and nothing else.
LEMMA TransferMoves ==
    ASSUME TypeOK, OneHolder, UrlsOnce, NEW u \in Urls, NEW i \in IPSlots, PutUrl(i, u),
           NEW k \in Kinds \ {"tab"}, NEW x \in Keys(k), u \in At(k, x),
           \A m \in Kinds \ {"tab"} : \A z \in Keys(m) :
             At(m, z)' = IF m = k /\ z = x THEN At(k, x) \ {u} ELSE At(m, z)
    PROVE  Moves(u, k, x, "tab", i) /\ \A j \in IPSlots : IsInjective(tab'[j])
  <1>1. Only(u, k, x)
    BY NotElsewhere
  <1>2. u \notin ToSet(tab[i])
    BY <1>1 DEF Only, Kinds, Keys, At
  <1>3. /\ \A j \in IPSlots : ToSet(tab'[j]) = IF j = i THEN ToSet(tab[i]) \cup {u} ELSE ToSet(tab[j])
        /\ \A j \in IPSlots : IsInjective(tab'[j])
    BY <1>2, TabPut
  <1>4. "tab" \in Kinds /\ i \in Keys("tab")
    BY DEF Kinds, Keys
  <1>5. \A j \in Keys("tab") : At("tab", j)' = IF j = i THEN At("tab", j) \cup {u} ELSE At("tab", j)
    BY <1>3 DEF Keys, At
  <1>6. Moves(u, k, x, "tab", i)
    BY <1>4, <1>5 DEF Moves
  <1> QED BY <1>3, <1>6

\* The scan of a fifo after a robots.txt or a dns error.
LEMMA ScanMoves ==
    ASSUME Core, OneHolder, UrlsOnce, NEW s \in NamedSlots
    PROVE  /\ ScanForget(s) => Moves(Head(fifo[s]), "fifo", s, "gone", 0) /\ UrlsOnce'
           /\ ScanKeep(s) => Stays /\ UrlsOnce'
           /\ ScanTransfer(s) => /\ Moves(Head(fifo[s]), "fifo", s, "tab", id[s].ip)
                                 /\ UrlsOnce'
  <1> DEFINE u == Head(fifo[s])
  <1>1. TypeOK
    BY DEF Core
  <1>2. ScanNext(s) => UNCHANGED <<diskQ, waitQ, here, fresh>>
    BY DEF ScanNext, connVars
  <1>3. ASSUME Dequeues(s)
        PROVE  /\ u \in Urls /\ u \in ToSet(fifo[s])
               /\ \A t \in NamedSlots : ToSet(fifo'[t]) = IF t = s THEN ToSet(fifo[s]) \ {u}
                                                         ELSE ToSet(fifo[t])
               /\ \A t \in NamedSlots : IsInjective(fifo'[t])
    BY <1>1, <1>3, FifoGet
  <1>4. ASSUME ScanForget(s) PROVE Moves(u, "fifo", s, "gone", 0) /\ UrlsOnce'
    <2>1. ScanNext(s) /\ Dequeues(s) /\ gone' = gone \cup {u} /\ tab' = tab
      BY <1>4 DEF ScanForget, ScanNext, Dequeues, ipVars
    <2> HIDE DEF u
    <2>2. Moves(u, "fifo", s, "gone", 0)
      BY <1>2, <1>3, <2>1 DEF Moves, At, Keys, Kinds
    <2>3. UrlsOnce'
      BY <1>2, <1>3, <2>1 DEF UrlsOnce
    <2> QED BY <2>2, <2>3
  <1>5. ASSUME ScanKeep(s) PROVE Stays /\ UrlsOnce'
    <2>1. /\ ScanNext(s) /\ fifo[s] # <<>> /\ gone' = gone /\ tab' = tab
          /\ fifo' = [fifo EXCEPT ![s] = Append(Tail(@), u)]
      BY <1>5 DEF ScanKeep, ScanNext, ipVars
    <2>2. fifo[s] \in Seq(Urls) /\ IsInjective(fifo[s])
      BY <1>1 DEF TypeOK, SiteType, UrlsOnce
    <2>3. /\ IsInjective(Append(Tail(fifo[s]), u))
          /\ ToSet(Append(Tail(fifo[s]), u)) = ToSet(fifo[s])
      BY <2>1, <2>2, RotateQueue
    <2>4. \A t \in NamedSlots : fifo'[t] = IF t = s THEN Append(Tail(fifo[s]), u) ELSE fifo[t]
      BY <1>1, <2>1 DEF TypeOK, SiteType
    <2>5. \A t \in NamedSlots : ToSet(fifo'[t]) = ToSet(fifo[t])
      <3>1. SUFFICES ASSUME NEW t \in NamedSlots PROVE ToSet(fifo'[t]) = ToSet(fifo[t])
        OBVIOUS
      <3> QED BY <2>3, <2>4
    <2>6. Stays
      BY <1>2, <2>1, <2>5 DEF Stays, At, Keys, Kinds
    <2>7. \A t \in NamedSlots : IsInjective(fifo'[t])
      BY <2>3, <2>4 DEF UrlsOnce
    <2>8. UrlsOnce'
      BY <1>2, <2>1, <2>7 DEF UrlsOnce
    <2> QED BY <2>6, <2>8
  <1>6. ASSUME ScanTransfer(s) PROVE Moves(u, "fifo", s, "tab", id[s].ip) /\ UrlsOnce'
    <2>1. ScanNext(s) /\ Dequeues(s) /\ gone' = gone /\ PutUrl(id[s].ip, u) /\ id[s].ip \in IPSlots
      BY <1>1, <1>6 DEF ScanTransfer, ScanNext, Dequeues, TypeOK, SiteType, Identity
    <2> HIDE DEF u
    <2>2. "fifo" \in Kinds \ {"tab"} /\ s \in Keys("fifo") /\ u \in At("fifo", s)
      BY <1>3, <2>1 DEF At, Keys, Kinds
    <2>3. \A m \in Kinds \ {"tab"} : \A z \in Keys(m) :
             At(m, z)' = IF m = "fifo" /\ z = s THEN At("fifo", s) \ {u} ELSE At(m, z)
      BY <1>2, <1>3, <2>1 DEF At, Keys, Kinds
    <2>4. /\ Moves(u, "fifo", s, "tab", id[s].ip)
          /\ \A j \in IPSlots : IsInjective(tab'[j])
      BY <1>1, <1>3, <2>1, <2>2, <2>3, TransferMoves
    <2>5. UrlsOnce'
      BY <1>2, <1>3, <2>1, <2>4 DEF UrlsOnce
    <2> QED BY <2>4, <2>5
  <1> QED BY <1>4, <1>5, <1>6

\* The file canGetUrl reads
Source == IF readWait > 0 THEN "URLsDiskWait" ELSE "URLsDisk"

\* canGetUrl takes the head of that file.
LEMMA DiskGet ==
    ASSUME TypeOK, UrlsOnce, NEW u \in Urls, CanGetUrl(u)
    PROVE  /\ u \in At(Source, 0) /\ Source \in Kinds \ {"tab"} /\ 0 \in Keys(Source)
           /\ IsInjective(diskQ') /\ IsInjective(WaitQAfterGet)
           /\ ToSet(diskQ') = IF Source = "URLsDisk" THEN ToSet(diskQ) \ {u} ELSE ToSet(diskQ)
           /\ ToSet(WaitQAfterGet) = IF Source = "URLsDisk" THEN ToSet(waitQ) ELSE ToSet(waitQ) \ {u}
  <1>1. diskQ \in Seq(Urls) /\ waitQ \in Seq(Urls) /\ IsInjective(diskQ) /\ IsInjective(waitQ)
    BY DEF TypeOK, QueueType, UrlsOnce
  <1>2. CASE readWait > 0
    <2>1. waitQ # <<>> /\ u = Head(waitQ) /\ diskQ' = diskQ /\ WaitQAfterGet = Tail(waitQ)
      BY <1>2 DEF CanGetUrl, WaitQAfterGet
    <2>2. /\ u \in ToSet(waitQ) /\ IsInjective(WaitQAfterGet)
          /\ ToSet(WaitQAfterGet) = ToSet(waitQ) \ {u}
      BY <1>1, <2>1, GetQueue
    <2> QED BY <1>1, <1>2, <2>1, <2>2 DEF Source, At, Keys, Kinds
  <1>3. CASE ~(readWait > 0)
    <2>1. diskQ # <<>> /\ u = Head(diskQ) /\ diskQ' = Tail(diskQ) /\ WaitQAfterGet = waitQ
      BY <1>3 DEF CanGetUrl, WaitQAfterGet
    <2>2. /\ u \in ToSet(diskQ) /\ IsInjective(diskQ')
          /\ ToSet(diskQ') = ToSet(diskQ) \ {u}
      BY <1>1, <2>1, GetQueue
    <2> QED BY <1>1, <1>3, <2>1, <2>2 DEF Source, At, Keys, Kinds
  <1> QED BY <1>2, <1>3

\* putGenericUrl: the url is forgotten, goes back to the disk, or enters the
\* memory.
LEMMA SequencerMoves ==
    ASSUME Core, OneHolder, UrlsOnce, NEW u \in Urls
    PROVE  /\ PutForget(u) => Moves(u, Source, 0, "gone", 0) /\ UrlsOnce'
           /\ PutBack(u) => /\ Stays \/ Moves(u, Source, 0, "URLsDiskWait", 0)
                            /\ UrlsOnce'
           /\ PutNamed(u) => Moves(u, Source, 0, "fifo", Slot(u)) /\ UrlsOnce'
           /\ PutTransfer(u) => Moves(u, Source, 0, "tab", id[Slot(u)].ip) /\ UrlsOnce'
  <1>1. TypeOK
    BY DEF Core
  <1>2. CanGetUrl(u) =>
        /\ u \in At(Source, 0) /\ Source \in Kinds \ {"tab"} /\ 0 \in Keys(Source)
        /\ IsInjective(diskQ') /\ IsInjective(WaitQAfterGet) /\ WaitQAfterGet \in Seq(Urls)
        /\ ToSet(diskQ') = IF Source = "URLsDisk" THEN ToSet(diskQ) \ {u} ELSE ToSet(diskQ)
        /\ ToSet(WaitQAfterGet) = IF Source = "URLsDisk" THEN ToSet(waitQ) ELSE ToSet(waitQ) \ {u}
        /\ UNCHANGED <<here, fresh>>
    BY <1>1, DiskGet, CanGetUrlType DEF CanGetUrl, connVars
  <1>3. CanGetUrl(u) => Only(u, Source, 0)
    BY <1>2, NotElsewhere
  <1>4. Source \in {"URLsDisk", "URLsDiskWait"}
    BY DEF Source
  <1>a. Source # "fifo"
    BY <1>4
  <1>5. ASSUME PutForget(u) PROVE Moves(u, Source, 0, "gone", 0) /\ UrlsOnce'
    <2>1. CanGetUrl(u) /\ gone' = gone \cup {u} /\ waitQ' = WaitQAfterGet /\ UNCHANGED <<fifo, tab>>
      BY <1>5 DEF PutForget, ipVars
    <2>2. Moves(u, Source, 0, "gone", 0)
      BY <1>2, <1>4, <2>1 DEF Moves, At, Keys, Kinds
    <2>3. UrlsOnce'
      BY <1>2, <2>1 DEF UrlsOnce
    <2> QED BY <2>2, <2>3
  <1>6. ASSUME PutBack(u)
        PROVE  (Stays \/ Moves(u, Source, 0, "URLsDiskWait", 0)) /\ UrlsOnce'
    <2>1. CanGetUrl(u) /\ waitQ' = Append(WaitQAfterGet, u) /\ UNCHANGED <<fifo, tab, gone>>
      BY <1>6 DEF PutBack, ipVars
    <2>2. u \notin ToSet(WaitQAfterGet)
      BY <1>2, <1>3, <1>4, <2>1 DEF Only, At, Keys, Kinds
    <2>3. Adds(waitQ', WaitQAfterGet, u) /\ IsInjective(waitQ')
      BY <1>2, <2>1, <2>2, PutQueue, Zenon
    <2>4. ToSet(waitQ') = ToSet(WaitQAfterGet) \cup {u}
      BY <2>3 DEF Adds
    <2>5. CASE Source = "URLsDisk"
      <3>1. Moves(u, Source, 0, "URLsDiskWait", 0)
        BY <1>2, <2>1, <2>4, <2>5 DEF Moves, At, Keys, Kinds
      <3> QED BY <1>2, <2>1, <2>3, <3>1 DEF UrlsOnce
    <2>6. CASE Source = "URLsDiskWait"
      <3>1. ToSet(waitQ') = ToSet(waitQ)
        BY <1>2, <2>1, <2>4, <2>6 DEF At
      <3>2. Stays
        BY <1>2, <2>1, <2>6, <3>1 DEF Stays, At, Keys, Kinds
      <3> QED BY <1>2, <2>1, <2>3, <3>2 DEF UrlsOnce
    <2> QED BY <1>4, <2>5, <2>6
  <1>7. ASSUME PutNamed(u) PROVE Moves(u, Source, 0, "fifo", Slot(u)) /\ UrlsOnce'
    <2> DEFINE s == Slot(u)
    <2>1. /\ CanGetUrl(u) /\ waitQ' = WaitQAfterGet /\ UNCHANGED <<gone, tab>>
          /\ fifo' = [fifo EXCEPT ![s] = Append(@, u)]
      BY <1>7 DEF PutNamed, ipVars
    <2>2. s \in NamedSlots
      BY UrlAssumption
    <2> HIDE DEF s
    <2>3. fifo[s] \in Seq(Urls) /\ IsInjective(fifo[s])
      BY <1>1, <2>2 DEF TypeOK, SiteType, UrlsOnce
    <2>4. u \notin ToSet(fifo[s])
      BY <1>3, <1>4, <2>1, <2>2 DEF Only, At, Keys, Kinds
    <2>5. Adds(Append(fifo[s], u), fifo[s], u) /\ IsInjective(Append(fifo[s], u))
      BY <2>3, <2>4, PutQueue, Zenon
    <2>6. \A t \in NamedSlots : fifo'[t] = IF t = s THEN Append(fifo[s], u) ELSE fifo[t]
      BY <1>1, <2>1 DEF TypeOK, SiteType
    <2>7. \A t \in NamedSlots : /\ ToSet(fifo'[t]) = IF t = s THEN ToSet(fifo[s]) \cup {u}
                                                            ELSE ToSet(fifo[t])
                               /\ IsInjective(fifo'[t])
      <3>1. UNCHANGED <<gone, tab>> /\ waitQ' = WaitQAfterGet /\ CanGetUrl(u)
        BY <2>1
      <3> QED BY <2>5, <2>6 DEF Adds, UrlsOnce
    <2>8. Moves(u, Source, 0, "fifo", s)
      <3>1. /\ u \in At(Source, 0) /\ Source \in Kinds /\ 0 \in Keys(Source)
            /\ "fifo" \in Kinds /\ s \in Keys("fifo")
        BY <1>2, <2>1, <2>2 DEF Kinds, Keys
      <3>2. /\ ToSet(diskQ') = IF Source = "URLsDisk" THEN ToSet(diskQ) \ {u} ELSE ToSet(diskQ)
            /\ ToSet(waitQ') = IF Source = "URLsDisk" THEN ToSet(waitQ) ELSE ToSet(waitQ) \ {u}
            /\ UNCHANGED <<here, fresh, gone, tab>>
        BY <1>2, <2>1
      <3>3. \A m \in Kinds \ {"fifo"} : \A z \in Keys(m) :
              At(m, z)' = IF m = Source /\ z = 0 THEN At(Source, 0) \ {u} ELSE At(m, z)
        BY <1>4, <3>2 DEF At, Keys, Kinds
      <3>4. \A z \in Keys("fifo") :
              At("fifo", z)' = IF z = s THEN At("fifo", s) \cup {u} ELSE At("fifo", z)
        BY <2>7 DEF At, Keys
      <3> QED BY <1>4, <1>a, <3>1, <3>3, <3>4 DEF Moves
    <2>9. UrlsOnce'
      BY <1>2, <2>1, <2>7 DEF UrlsOnce
    <2> QED BY <2>8, <2>9 DEF s
  <1>8. ASSUME PutTransfer(u)
        PROVE  Moves(u, Source, 0, "tab", id[Slot(u)].ip) /\ UrlsOnce'
    <2> DEFINE i == id[Slot(u)].ip
    <2>1. /\ CanGetUrl(u) /\ waitQ' = WaitQAfterGet /\ UNCHANGED <<gone, fifo>>
          /\ PutUrl(i, u)
      BY <1>8 DEF PutTransfer
    <2>2. i \in IPSlots
      <3>1. Slot(u) \in NamedSlots
        BY UrlAssumption
      <3> QED BY <1>1, <3>1 DEF TypeOK, SiteType, Identity
    <2> HIDE DEF i
    <2>3. \A m \in Kinds \ {"tab"} : \A z \in Keys(m) :
             At(m, z)' = IF m = Source /\ z = 0 THEN At(Source, 0) \ {u} ELSE At(m, z)
      <3>1. CASE Source = "URLsDisk"
        BY <1>2, <2>1, <3>1 DEF At, Keys, Kinds
      <3>2. CASE Source = "URLsDiskWait"
        BY <1>2, <2>1, <3>2 DEF At, Keys, Kinds
      <3> QED BY <1>4, <3>1, <3>2
    <2>4. Moves(u, Source, 0, "tab", i) /\ \A j \in IPSlots : IsInjective(tab'[j])
      BY <1>1, <1>2, <2>1, <2>2, <2>3, TransferMoves
    <2>5. UrlsOnce'
      BY <1>2, <2>1, <2>4 DEF UrlsOnce
    <2> QED BY <2>4, <2>5 DEF i
  <1> QED BY <1>5, <1>6, <1>7, <1>8

\* endOfFile for a page deletes its url.
LEMMA EndOfPageMoves ==
    ASSUME Core, OneHolder, UrlsOnce, NEW c \in Conns, NEW refused, NEW f,
           EndOfFile(c, refused, f), EndOfPage(c)
    PROVE  Moves(here[c], "conn", c, "gone", 0) /\ UrlsOnce'
  <1>1. here[c] \in Urls /\ here[c] # NoUrl
    BY DEF Core, TypeOK, ConnType, ConnServesOne, EndOfFile, EndOfPage
  <1>2. /\ gone' = gone \cup {here[c]}
        /\ \A d \in Conns : here'[d] = IF d = c THEN NoUrl ELSE here[d]
    BY DEF EndOfPage, Core, TypeOK, ConnType
  <1>3. UNCHANGED <<fresh, diskQ, waitQ, fifo, tab>>
    BY DEF EndOfFile, queueVars, ipVars
  <1>4. Moves(here[c], "conn", c, "gone", 0)
    BY <1>1, <1>2, <1>3 DEF Moves, At, Keys, Kinds
  <1> QED BY <1>3, <1>4 DEF UrlsOnce

\* A new url joins URLsDisk.
LEMMA ArriveMoves ==
    ASSUME Core, OneHolder, UrlsOnce, NEW u \in Urls, Arrive(u)
    PROVE  Moves(u, "fresh", 0, "URLsDisk", 0) /\ UrlsOnce'
  <1>1. /\ u \in fresh /\ fresh' = fresh \ {u} /\ diskQ' = Append(diskQ, u)
        /\ UNCHANGED <<waitQ, fifo, tab, here, gone>>
    BY DEF Arrive, siteVars, ipVars, connVars
  <1>2. diskQ \in Seq(Urls) /\ IsInjective(diskQ)
    BY DEF Core, TypeOK, QueueType, UrlsOnce
  <1>3. u \notin ToSet(diskQ)
    <2>1. "fresh" \in Kinds /\ 0 \in Keys("fresh") /\ u \in At("fresh", 0)
      BY <1>1 DEF Kinds, Keys, At
    <2>2. Only(u, "fresh", 0)
      BY <2>1, NotElsewhere
    <2> QED BY <2>2 DEF Only, Kinds, Keys, At
  <1>4. Adds(diskQ', diskQ, u) /\ IsInjective(diskQ')
    BY <1>1, <1>2, <1>3, PutQueue, Zenon
  <1>5. ToSet(diskQ') = ToSet(diskQ) \cup {u}
    BY <1>4 DEF Adds
  <1>6. Moves(u, "fresh", 0, "URLsDisk", 0)
    BY <1>1, <1>5 DEF Moves, At, Keys, Kinds
  <1> QED BY <1>1, <1>4, <1>6 DEF UrlsOnce

\* What the holders read.
LEMMA HoldersFrame ==
    ASSUME UrlsOnce, UNCHANGED <<fresh, gone, diskQ, waitQ, fifo, tab, here>>
    PROVE  Stays /\ UrlsOnce'
  <1>1. Stays
    BY DEF Stays, At, Keys, Kinds
  <1> QED BY <1>1 DEF UrlsOnce

-----------------------------------------------------------------------------
(* Counting *)

Memory == {"fifo", "tab"}

\* The urls of M whose hosts hash to s
OfSlot(M, s) == {u \in M : Slot(u) = s}

\* What a move from kind k to kind l adds to the number of urls the kinds K hold
Change(K, k, l) == IF l \in K /\ k \notin K THEN 1
                   ELSE IF k \in K /\ l \notin K THEN -1 ELSE 0

\* A url that enters a finite set counts once, for its own slot.
LEMMA CountEnter ==
    ASSUME NEW M, IsFiniteSet(M), NEW u, u \notin M
    PROVE  /\ IsFiniteSet(M \cup {u}) /\ Cardinality(M \cup {u}) = Cardinality(M) + 1
           /\ \A s : Cardinality(OfSlot(M \cup {u}, s)) =
                     IF s = Slot(u) THEN Cardinality(OfSlot(M, s)) + 1 ELSE Cardinality(OfSlot(M, s))
  <1>1. IsFiniteSet(M \cup {u}) /\ Cardinality(M \cup {u}) = Cardinality(M) + 1
    BY FS_AddElement
  <1>2. ASSUME NEW s
        PROVE  Cardinality(OfSlot(M \cup {u}, s)) =
               IF s = Slot(u) THEN Cardinality(OfSlot(M, s)) + 1 ELSE Cardinality(OfSlot(M, s))
    <2>1. OfSlot(M, s) \subseteq M /\ IsFiniteSet(OfSlot(M, s)) /\ u \notin OfSlot(M, s)
      <3>1. OfSlot(M, s) \in SUBSET M
        BY DEF OfSlot
      <3> QED BY <3>1, FS_Subset
    <2>2. OfSlot(M \cup {u}, s) = IF s = Slot(u) THEN OfSlot(M, s) \cup {u} ELSE OfSlot(M, s)
      BY DEF OfSlot
    <2>3. Cardinality(OfSlot(M, s) \cup {u}) = Cardinality(OfSlot(M, s)) + 1
      BY <2>1, FS_AddElement
    <2> QED BY <2>2, <2>3
  <1> QED BY <1>1, <1>2

\* A url that leaves is not counted any more.
LEMMA CountLeave ==
    ASSUME NEW M, IsFiniteSet(M), NEW u \in M
    PROVE  /\ IsFiniteSet(M \ {u}) /\ Cardinality(M \ {u}) = Cardinality(M) - 1
           /\ \A s : Cardinality(OfSlot(M \ {u}, s)) =
                     IF s = Slot(u) THEN Cardinality(OfSlot(M, s)) - 1 ELSE Cardinality(OfSlot(M, s))
  <1>1. IsFiniteSet(M \ {u}) /\ Cardinality(M \ {u}) = Cardinality(M) - 1
    BY FS_RemoveElement
  <1>2. ASSUME NEW s
        PROVE  Cardinality(OfSlot(M \ {u}, s)) =
               IF s = Slot(u) THEN Cardinality(OfSlot(M, s)) - 1 ELSE Cardinality(OfSlot(M, s))
    <2>1. OfSlot(M, s) \subseteq M /\ IsFiniteSet(OfSlot(M, s))
      <3>1. OfSlot(M, s) \in SUBSET M
        BY DEF OfSlot
      <3> QED BY <3>1, FS_Subset
    <2>2. CASE s = Slot(u)
      <3>1. u \in OfSlot(M, s) /\ OfSlot(M \ {u}, s) = OfSlot(M, s) \ {u}
        BY <2>2 DEF OfSlot
      <3> QED BY <2>1, <2>2, <3>1, FS_RemoveElement
    <2>3. CASE s # Slot(u)
      <3>1. OfSlot(M \ {u}, s) = OfSlot(M, s)
        BY <2>3 DEF OfSlot
      <3> QED BY <2>3, <3>1
    <2> QED BY <2>2, <2>3
  <1> QED BY <1>1, <1>2

\* What a move does to the number of urls that some kinds hold.
LEMMA CountMove ==
    ASSUME OneHolder, NEW u, NEW k, NEW x, NEW l, NEW y, Moves(u, k, x, l, y),
           NEW K \in SUBSET Kinds, IsFiniteSet(HeldBy(K))
    PROVE  /\ IsFiniteSet(HeldBy(K)')
           /\ Cardinality(HeldBy(K)') = Cardinality(HeldBy(K)) + Change(K, k, l)
           /\ \A s : Cardinality(OfSlot(HeldBy(K)', s)) =
                     Cardinality(OfSlot(HeldBy(K), s)) + IF s = Slot(u) THEN Change(K, k, l) ELSE 0
  <1>1. /\ u \in HeldBy(K) <=> k \in K
        /\ HeldBy(K)' = IF l \in K THEN HeldBy(K) \cup {u} ELSE HeldBy(K) \ {u}
    BY MoveHeld
  <1> DEFINE M == HeldBy(K)
             N == HeldBy(K)'
  <1>2. Cardinality(M) \in Nat /\ \A s : Cardinality(OfSlot(M, s)) \in Nat
    <2>1. \A s : OfSlot(M, s) \in SUBSET M
      BY DEF OfSlot
    <2>2. \A s : IsFiniteSet(OfSlot(M, s))
      BY <2>1, FS_Subset
    <2> QED BY <2>2, FS_CardinalityType
  <1> DEFINE Tally  == /\ IsFiniteSet(N)
                       /\ Cardinality(N) = Cardinality(M) + Change(K, k, l)
                       /\ \A s : Cardinality(OfSlot(N, s)) = Cardinality(OfSlot(M, s))
                                   + IF s = Slot(u) THEN Change(K, k, l) ELSE 0
  <1>a. SUFFICES Tally
    OBVIOUS
  <1> HIDE DEF M, N
  <1>3. CASE l \in K /\ k \notin K
    <2>1. N = M \cup {u} /\ u \notin M /\ Change(K, k, l) = 1
      BY <1>1, <1>3 DEF M, N, Change
    <2>2. /\ IsFiniteSet(N) /\ Cardinality(N) = Cardinality(M) + 1
          /\ \A s : Cardinality(OfSlot(N, s)) =
                     IF s = Slot(u) THEN Cardinality(OfSlot(M, s)) + 1 ELSE Cardinality(OfSlot(M, s))
      BY <2>1, CountEnter DEF M
    <2> QED BY <1>2, <2>1, <2>2
  <1>4. CASE k \in K /\ l \notin K
    <2>1. N = M \ {u} /\ u \in M /\ Change(K, k, l) = -1
      BY <1>1, <1>4 DEF M, N, Change
    <2>2. /\ IsFiniteSet(N) /\ Cardinality(N) = Cardinality(M) - 1
          /\ \A s : Cardinality(OfSlot(N, s)) =
                     IF s = Slot(u) THEN Cardinality(OfSlot(M, s)) - 1 ELSE Cardinality(OfSlot(M, s))
      BY <2>1, CountLeave DEF M
    <2>3. Cardinality(N) = Cardinality(M) + Change(K, k, l)
      BY <1>2, <2>1, <2>2
    <2>4. ASSUME NEW s
          PROVE  Cardinality(OfSlot(N, s)) = Cardinality(OfSlot(M, s))
                   + IF s = Slot(u) THEN Change(K, k, l) ELSE 0
      BY <1>2, <2>1, <2>2
    <2> QED BY <2>2, <2>3, <2>4
  <1>5. CASE k \in K <=> l \in K
    <2>1. N = M /\ Change(K, k, l) = 0
      BY <1>1, <1>5 DEF M, N, Change
    <2> QED BY <1>2, <2>1 DEF M
  <1> QED BY <1>3, <1>4, <1>5

\* The urls a fifo holds are those of its slot: the scan of a site never finds
\* a url that another site's nburls counts.
SlotsRight == \A s \in NamedSlots : \A u \in ToSet(fifo[s]) : Slot(u) = s

\* A move counts as one more, one less or none, in the memory and in the tabs.
LEMMA MoveCounts ==
    ASSUME TypeOK, TypeOK', OneHolder, SlotsRight, IsFiniteSet(InMemory),
           NEW u, NEW k, NEW x, NEW l, NEW y, Moves(u, k, x, l, y), l = "fifo" => y = Slot(u)
    PROVE  /\ IsFiniteSet(InMemory') /\ SlotsRight'
           /\ Cardinality(InMemory') = Cardinality(InMemory) + Change(Memory, k, l)
           /\ Cardinality(InTabs') = Cardinality(InTabs) + Change({"tab"}, k, l)
           /\ \A s : Cardinality(OfSlot(InMemory', s)) =
                     Cardinality(OfSlot(InMemory, s)) + IF s = Slot(u) THEN Change(Memory, k, l) ELSE 0
  <1>1. /\ InTabs = HeldBy({"tab"}) /\ InMemory = HeldBy(Memory)
        /\ InTabs' = HeldBy({"tab"})' /\ InMemory' = HeldBy(Memory)'
    BY MemoryHeld, MemoryHeldNext DEF MemoryIsHeld, Memory
  <1>2. /\ {"tab"} \in SUBSET Kinds /\ Memory \in SUBSET Kinds
    BY DEF Kinds, Memory
  <1>3. IsFiniteSet(InTabs)
    <2>1. InTabs \in SUBSET InMemory
      BY DEF InMemory
    <2> QED BY <2>1, FS_Subset
  <1>4. /\ IsFiniteSet(HeldBy(Memory)')
        /\ Cardinality(HeldBy(Memory)') = Cardinality(HeldBy(Memory)) + Change(Memory, k, l)
        /\ \A s : Cardinality(OfSlot(HeldBy(Memory)', s)) = Cardinality(OfSlot(HeldBy(Memory), s))
                    + IF s = Slot(u) THEN Change(Memory, k, l) ELSE 0
    BY <1>1, <1>2, CountMove
  <1>5. Cardinality(HeldBy({"tab"})') = Cardinality(HeldBy({"tab"})) + Change({"tab"}, k, l)
    BY <1>1, <1>2, <1>3, CountMove
  <1>6. SlotsRight'
    <2>1. ASSUME NEW s \in NamedSlots, NEW v \in ToSet(fifo'[s]) PROVE Slot(v) = s
      <3>1. "fifo" \in Kinds /\ s \in Keys("fifo") /\ At("fifo", s) = ToSet(fifo[s])
            /\ At("fifo", s)' = ToSet(fifo'[s])
        BY DEF Kinds, Keys, At
      <3>2. v \in ToSet(fifo[s]) \/ (v = u /\ l = "fifo" /\ y = s)
        BY <2>1, <3>1 DEF Moves
      <3> QED BY <3>2 DEF SlotsRight
    <2> QED BY <2>1 DEF SlotsRight
  <1> QED BY <1>1, <1>4, <1>5, <1>6

\* Nor does a step that moves nothing change the counts.
LEMMA StayCounts ==
    ASSUME TypeOK, TypeOK', OneHolder, SlotsRight, Stays
    PROVE  InMemory' = InMemory /\ InTabs' = InTabs /\ SlotsRight'
  <1>1. /\ InTabs = HeldBy({"tab"}) /\ InMemory = HeldBy(Memory)
        /\ InTabs' = HeldBy({"tab"})' /\ InMemory' = HeldBy(Memory)'
    BY MemoryHeld, MemoryHeldNext DEF MemoryIsHeld, Memory
  <1>2. /\ {"tab"} \in SUBSET Kinds /\ Memory \in SUBSET Kinds
    BY DEF Kinds, Memory
  <1>3. \A s \in NamedSlots : ToSet(fifo'[s]) = ToSet(fifo[s])
    BY DEF Stays, Kinds, Keys, At
  <1>4. HeldBy({"tab"})' = HeldBy({"tab"}) /\ HeldBy(Memory)' = HeldBy(Memory)
    BY <1>2, StayHeld
  <1> QED BY <1>1, <1>3, <1>4 DEF SlotsRight

-----------------------------------------------------------------------------
(* The inductive invariant *)

\* putGenericUrl leaves a cell of the ring empty, with either limit
Room == \A s \in NamedSlots : nburls[s] < MaxUrlsBySite

\* The sequencer takes no more urls than the share it was given
Share == space >= 0 /\ (phase = "sequencer" => count <= space)

UrlsInv ==
    /\ OneHolder /\ UrlsOnce
    /\ IsFiniteSet(InMemory) /\ SlotsRight
    /\ NbUrlsExact /\ IntervalExact /\ Room /\ Share

\* The counters of a step that moves u from kind k to kind l
Counts(u, k, l) ==
    /\ \A s \in NamedSlots :
         nburls'[s] = nburls[s] + IF s = Slot(u) THEN Change(Memory, k, l) ELSE 0
    /\ ipUrl' = ipUrl + Change({"tab"}, k, l)
    /\ interPos' - space' = (interPos - space) + Change(Memory, k, l)

LEMMA MoveInv ==
    ASSUME TypeOK, TypeOK', UrlsInv, NEW u, NEW k, NEW x, NEW l, NEW y,
           Moves(u, k, x, l, y), l = "fifo" => y = Slot(u), Counts(u, k, l),
           UrlsOnce', Room', Share', interPos' <= RamUrls
    PROVE  UrlsInv'
  <1>1. OneHolder'
    BY MoveOne DEF UrlsInv
  <1>2. /\ IsFiniteSet(InMemory') /\ SlotsRight'
        /\ Cardinality(InMemory') = Cardinality(InMemory) + Change(Memory, k, l)
        /\ Cardinality(InTabs') = Cardinality(InTabs) + Change({"tab"}, k, l)
        /\ \A s : Cardinality(OfSlot(InMemory', s)) =
                  Cardinality(OfSlot(InMemory, s)) + IF s = Slot(u) THEN Change(Memory, k, l) ELSE 0
    BY MoveCounts DEF UrlsInv
  <1>3. NbUrlsExact'
    <2>1. \A s \in NamedSlots : nburls[s] = Cardinality(OfSlot(InMemory, s))
      BY DEF UrlsInv, NbUrlsExact, OfSlot
    <2>2. \A s \in NamedSlots : nburls'[s] = Cardinality(OfSlot(InMemory', s))
      BY <1>2, <2>1 DEF Counts
    <2> QED BY <2>2 DEF NbUrlsExact, OfSlot
  <1>4. IntervalExact'
    <2>1. Cardinality(InMemory) \in Nat /\ Cardinality(InMemory') \in Nat
      BY <1>2, FS_CardinalityType DEF UrlsInv
    <2>2. space \in Int /\ interPos \in Int /\ space' \in Int /\ interPos' \in Int
      BY DEF TypeOK, QueueType
    <2>3. interPos = space + Cardinality(InMemory) /\ ipUrl = Cardinality(InTabs)
      BY DEF UrlsInv, IntervalExact
    <2>4. Change(Memory, k, l) \in Int
      BY DEF Change
    <2>5. interPos' = space' + Cardinality(InMemory')
      BY <1>2, <2>1, <2>2, <2>3, <2>4 DEF Counts
    <2>6. interPos' \in 0..RamUrls
      BY <2>1, <2>2, <2>5, SizeAssumption DEF Share
    <2>7. ipUrl' = Cardinality(InTabs')
      BY <1>2, <2>3 DEF Counts
    <2> QED BY <2>5, <2>6, <2>7 DEF IntervalExact
  <1> QED BY <1>1, <1>2, <1>3, <1>4 DEF UrlsInv

LEMMA StayInv ==
    ASSUME TypeOK, TypeOK', UrlsInv, Stays, UNCHANGED <<nburls, ipUrl>>,
           interPos' - space' = interPos - space,
           UrlsOnce', Share', interPos' <= RamUrls
    PROVE  UrlsInv'
  <1>1. OneHolder'
    BY StayHeld DEF UrlsInv
  <1>2. InMemory' = InMemory /\ InTabs' = InTabs /\ SlotsRight'
    BY StayCounts DEF UrlsInv
  <1>3. IsFiniteSet(InMemory') /\ NbUrlsExact' /\ Room'
    BY <1>2 DEF UrlsInv, NbUrlsExact, Room
  <1>4. IntervalExact'
    <2>1. Cardinality(InMemory) \in Nat
      BY FS_CardinalityType DEF UrlsInv
    <2>2. space \in Int /\ interPos \in Int /\ space' \in Int /\ interPos' \in Int
      BY DEF TypeOK, QueueType
    <2>3. interPos = space + Cardinality(InMemory) /\ ipUrl = Cardinality(InTabs)
      BY DEF UrlsInv, IntervalExact
    <2>4. interPos' = space' + Cardinality(InMemory)
      BY <2>1, <2>2, <2>3
    <2>5. interPos' \in 0..RamUrls
      BY <2>1, <2>2, <2>4, SizeAssumption DEF Share
    <2> QED BY <1>2, <2>3, <2>4, <2>5 DEF IntervalExact
  <1> QED BY <1>1, <1>2, <1>3, <1>4 DEF UrlsInv

\* A page that fetch takes leaves the memory.
LEMMA FetchInv ==
    ASSUME Core, TypeOK', UrlsInv, FetchStep PROVE UrlsInv'
  <1>1. TypeOK /\ OneHolder /\ UrlsOnce /\ Share /\ interPos <= RamUrls /\ Room
    BY DEF Core, UrlsInv, IntervalExact, TypeOK, QueueType
  <1>2. ASSUME NEW i \in IPSlots, FetchEmpty(i) \/ FetchTooEarly(i) PROVE UrlsInv'
    <2>1. /\ UNCHANGED <<fresh, gone, diskQ, waitQ, fifo, tab, here, nburls, ipUrl, space, interPos>>
          /\ UNCHANGED <<phase, count>> \/ phase' = "checkAll"
      BY <1>2 DEF FetchEmpty, FetchTooEarly, queueVars, siteVars, connVars
    <2>2. Stays /\ UrlsOnce'
      BY <1>1, <2>1, HoldersFrame
    <2>3. Share' /\ interPos' <= RamUrls
      BY <1>1, <2>1 DEF Share
    <2> QED BY <1>1, <2>1, <2>2, <2>3, StayInv
  <1>3. ASSUME NEW i \in IPSlots, GetUrl(i), NEW l \in {"conn", "gone"}, NEW y,
               Moves(Head(tab[i]), "tab", i, l, y), UrlsOnce'
        PROVE  UrlsInv'
    <2> DEFINE u == Head(tab[i])
    <2>1. u \in Urls /\ Slot(u) \in NamedSlots
      BY <1>3, UrlAssumption DEF Moves
    <2>2. /\ ipUrl' = ipUrl - 1 /\ interPos' = interPos - 1 /\ space' = space
          /\ nburls' = [nburls EXCEPT ![Slot(u)] = @ - 1] /\ UNCHANGED <<phase, count>>
      BY <1>3 DEF GetUrl
    <2>3. /\ nburls \in [NamedSlots -> Int] /\ interPos \in Int /\ space \in Int
      BY <1>1 DEF TypeOK, SiteType, QueueType
    <2> HIDE DEF u
    <2>4. \A s \in NamedSlots : nburls'[s] = nburls[s] + IF s = Slot(u) THEN -1 ELSE 0
      BY <2>1, <2>2, <2>3
    <2>5. Change(Memory, "tab", l) = -1 /\ Change({"tab"}, "tab", l) = -1 /\ l # "fifo"
      BY <1>3 DEF Change, Memory
    <2>6. ipUrl \in Int
      BY <1>1 DEF TypeOK, IPType
    <2>7. Counts(u, "tab", l)
      <3>1. ipUrl' = ipUrl + -1 /\ interPos' - space' = (interPos - space) + -1
        BY <2>2, <2>3, <2>6
      <3> QED BY <2>4, <2>5, <3>1 DEF Counts
    <2>8. Room'
      BY <1>1, <2>3, <2>4, SizeAssumption DEF Room
    <2>9. Share' /\ interPos' <= RamUrls
      BY <1>1, <2>2, <2>3, SizeAssumption DEF Share
    <2> QED BY <1>1, <1>3, <2>5, <2>7, <2>8, <2>9, MoveInv DEF u
  <1>4. ASSUME NEW i \in IPSlots, NEW st, FetchConnect(i, st) PROVE UrlsInv'
    <2>1. GetUrl(i)
      BY <1>4 DEF FetchConnect
    <2> QED BY <1>1, <1>3, <1>4, <2>1, FetchMoves
  <1>5. ASSUME NEW i \in IPSlots, FetchFail(i) PROVE UrlsInv'
    <2>1. GetUrl(i)
      BY <1>5 DEF FetchFail
    <2> QED BY <1>1, <1>3, <1>5, <2>1, FetchMoves
  <1> QED BY <1>2, <1>4, <1>5 DEF FetchStep

\* A url of a scanned fifo leaves the memory, turns, or goes to its IP site.
LEMMA ScanInv ==
    ASSUME Core, TypeOK', UrlsInv, ScanStep PROVE UrlsInv'
  <1>1. TypeOK /\ OneHolder /\ UrlsOnce /\ Share /\ interPos <= RamUrls /\ Room /\ SlotsRight
    BY DEF Core, UrlsInv, IntervalExact, TypeOK, QueueType
  <1>2. /\ nburls \in [NamedSlots -> Int] /\ interPos \in Int /\ space \in Int /\ ipUrl \in Int
    BY <1>1 DEF TypeOK, SiteType, QueueType, IPType
  <1>3. ASSUME NEW s \in NamedSlots, ScanForget(s) PROVE UrlsInv'
    <2> DEFINE u == Head(fifo[s])
    <2>1. Moves(u, "fifo", s, "gone", 0) /\ UrlsOnce'
      BY <1>1, <1>3, ScanMoves DEF Core
    <2>2. u \in ToSet(fifo[s])
      BY <2>1 DEF Moves, At
    <2>3. Slot(u) = s
      BY <1>1, <2>2 DEF SlotsRight
    <2>4. /\ ipUrl' = ipUrl /\ interPos' = interPos - 1 /\ space' = space
          /\ nburls' = [nburls EXCEPT ![s] = @ - 1] /\ UNCHANGED <<phase, count>>
      BY <1>3 DEF ScanForget, ScanNext, ipVars
    <2> HIDE DEF u
    <2>5. \A t \in NamedSlots : nburls'[t] = nburls[t] + IF t = Slot(u) THEN -1 ELSE 0
      BY <1>2, <2>3, <2>4
    <2>6. Change(Memory, "fifo", "gone") = -1 /\ Change({"tab"}, "fifo", "gone") = 0
      BY DEF Change, Memory
    <2>7. Counts(u, "fifo", "gone")
      <3>1. ipUrl' = ipUrl + 0 /\ interPos' - space' = (interPos - space) + -1
        BY <1>2, <2>4
      <3> QED BY <2>5, <2>6, <3>1 DEF Counts
    <2>8. Room'
      BY <1>1, <1>2, <2>5, SizeAssumption DEF Room
    <2>9. Share' /\ interPos' <= RamUrls
      BY <1>1, <1>2, <2>4, SizeAssumption DEF Share
    <2> QED BY <1>1, <2>1, <2>7, <2>8, <2>9, MoveInv
  <1>4. ASSUME NEW s \in NamedSlots, ScanTransfer(s) PROVE UrlsInv'
    <2> DEFINE u == Head(fifo[s])
               i == id[s].ip
    <2>1. Moves(u, "fifo", s, "tab", i) /\ UrlsOnce'
      BY <1>1, <1>4, ScanMoves DEF Core
    <2>2. PutUrl(i, u) /\ UNCHANGED <<nburls, interPos, space, phase, count>>
      BY <1>4 DEF ScanTransfer, ScanNext
    <2>3. ipUrl' = ipUrl + 1
      BY <2>2 DEF PutUrl
    <2> HIDE DEF u, i
    <2>4. Change(Memory, "fifo", "tab") = 0 /\ Change({"tab"}, "fifo", "tab") = 1
      BY DEF Change, Memory
    <2>5. Counts(u, "fifo", "tab")
      BY <1>2, <2>2, <2>3, <2>4 DEF Counts
    <2>6. Room' /\ Share' /\ interPos' <= RamUrls
      BY <1>1, <2>2 DEF Room, Share
    <2> QED BY <1>1, <2>1, <2>5, <2>6, MoveInv
  <1>5. ASSUME NEW s \in NamedSlots, ScanKeep(s) \/ ScanEnd(s) PROVE UrlsInv'
    <2>1. Stays /\ UrlsOnce'
      <3>1. CASE ScanKeep(s)
        BY <1>1, <3>1, ScanMoves
      <3>2. CASE ScanEnd(s)
        BY <1>1, <3>2, HoldersFrame DEF ScanEnd, queueVars, ipVars
      <3> QED BY <1>5, <3>1, <3>2
    <2>2. UNCHANGED <<nburls, ipUrl, space, interPos, phase, count>>
      BY <1>5 DEF ScanKeep, ScanNext, ScanEnd, queueVars, ipVars
    <2>3. Share' /\ interPos' <= RamUrls
      BY <1>1, <2>2 DEF Share
    <2> QED BY <1>1, <2>1, <2>2, <2>3, StayInv
  <1> QED BY <1>3, <1>4, <1>5 DEF ScanStep

\* A url the sequencer takes uses a place of its share, which it gives back
\* when it does not enter the memory.
LEMMA SequencerInv ==
    ASSUME Core, TypeOK', UrlsInv, SequencerStep PROVE UrlsInv'
  <1>1. TypeOK /\ OneHolder /\ UrlsOnce /\ Share /\ interPos <= RamUrls /\ Room
    BY DEF Core, UrlsInv, IntervalExact, TypeOK, QueueType
  <1>2. /\ nburls \in [NamedSlots -> Int] /\ interPos \in Int /\ space \in Int
        /\ ipUrl \in Int /\ count \in Int
    BY <1>1 DEF TypeOK, SiteType, QueueType, IPType, LoopType
  <1>3. ASSUME NEW u \in Urls, CanGetUrl(u) PROVE Share' /\ space' = space - 1
    <2>1. /\ phase = "sequencer" /\ count > 0 /\ phase' = phase
          /\ space' = space - 1 /\ count' = count - 1
      BY <1>3 DEF CanGetUrl
    <2> QED BY <1>1, <1>2, <2>1 DEF Share
  <1>4. Source \in {"URLsDisk", "URLsDiskWait"}
    BY DEF Source
  <1>5. ASSUME NEW u \in Urls, PutForget(u) \/ PutBack(u) PROVE UrlsInv'
    <2>1. /\ CanGetUrl(u) /\ interPos' = interPos - 1 /\ UNCHANGED <<nburls, ipUrl>>
      BY <1>5 DEF PutForget, PutBack, ipVars
    <2>2. Share' /\ space' = space - 1
      BY <1>3, <2>1
    <2>3. interPos' - space' = interPos - space /\ interPos' <= RamUrls
      BY <1>1, <1>2, <2>1, <2>2, SizeAssumption
    <2>4. Room'
      BY <1>1, <2>1 DEF Room
    <2>5. UrlsOnce' /\ (Stays \/ \E l \in {"gone", "URLsDiskWait"} : Moves(u, Source, 0, l, 0))
      BY <1>1, <1>5, SequencerMoves
    <2>6. CASE Stays
      BY <1>1, <2>1, <2>2, <2>3, <2>5, <2>6, StayInv
    <2>7. ASSUME NEW l \in {"gone", "URLsDiskWait"}, Moves(u, Source, 0, l, 0) PROVE UrlsInv'
      <3>1. Change(Memory, Source, l) = 0 /\ Change({"tab"}, Source, l) = 0 /\ l # "fifo"
        BY <1>4, <2>7 DEF Change, Memory
      <3>2. Counts(u, Source, l)
        BY <1>2, <2>1, <2>3, <3>1 DEF Counts
      <3> QED BY <1>1, <2>2, <2>3, <2>4, <2>5, <2>7, <3>1, <3>2, MoveInv
    <2> QED BY <2>5, <2>6, <2>7
  <1>6. ASSUME NEW u \in Urls, PutNamed(u) \/ PutTransfer(u) PROVE UrlsInv'
    <2> DEFINE s == Slot(u)
    <2>1. /\ CanGetUrl(u) /\ ~Enough(s) /\ UNCHANGED interPos
          /\ nburls' = [nburls EXCEPT ![s] = @ + 1]
      BY <1>6 DEF PutNamed, PutTransfer
    <2>2. s \in NamedSlots
      BY UrlAssumption
    <2>3. Share' /\ space' = space - 1
      BY <1>3, <2>1
    <2> HIDE DEF s
    <2>4. \A t \in NamedSlots : nburls'[t] = nburls[t] + IF t = s THEN 1 ELSE 0
      BY <1>2, <2>1, <2>2
    <2>5. interPos' - space' = (interPos - space) + 1
      BY <1>2, <2>1, <2>3
    <2>6. Room'
      <3>1. nburls[s] <= MaxUrlsBySite - Limit /\ Limit \in Nat /\ Limit > 1
        BY <1>2, <2>1, <2>2, SizeAssumption DEF Enough, Limit
      <3>2. nburls'[s] < MaxUrlsBySite
        BY <1>2, <2>2, <2>4, <3>1, SizeAssumption
      <3>3. \A t \in NamedSlots \ {s} : nburls'[t] = nburls[t]
        BY <1>2, <2>4
      <3> QED BY <1>1, <3>2, <3>3 DEF Room
    <2>7. CASE PutNamed(u)
      <3>1. Moves(u, Source, 0, "fifo", s) /\ UrlsOnce'
        BY <1>1, <2>7, SequencerMoves DEF s
      <3>2. Change(Memory, Source, "fifo") = 1 /\ Change({"tab"}, Source, "fifo") = 0
        BY <1>4 DEF Change, Memory
      <3>3. ipUrl' = ipUrl + 0
        BY <1>2, <2>7 DEF PutNamed, ipVars
      <3>4. Counts(u, Source, "fifo")
        BY <2>4, <2>5, <3>2, <3>3 DEF Counts, s
      <3>5. interPos' <= RamUrls
        BY <1>1, <2>1
      <3>6. s = Slot(u)
        BY DEF s
      <3> QED BY <1>1, <2>3, <2>6, <3>1, <3>4, <3>5, <3>6, MoveInv
    <2>8. CASE PutTransfer(u)
      <3>1. Moves(u, Source, 0, "tab", id[s].ip) /\ UrlsOnce'
        BY <1>1, <2>8, SequencerMoves DEF s
      <3>2. Change(Memory, Source, "tab") = 1 /\ Change({"tab"}, Source, "tab") = 1
        BY <1>4 DEF Change, Memory
      <3>3. ipUrl' = ipUrl + 1
        BY <2>8 DEF PutTransfer, PutUrl
      <3>4. Counts(u, Source, "tab")
        BY <2>4, <2>5, <3>2, <3>3 DEF Counts, s
      <3>5. interPos' <= RamUrls
        BY <1>1, <2>1
      <3> QED BY <1>1, <2>3, <2>6, <3>1, <3>4, <3>5, MoveInv
    <2> QED BY <1>6, <2>7, <2>8
  <1>7. CASE SequencerEnd
    <2>1. /\ UNCHANGED <<fresh, gone, diskQ, waitQ, fifo, tab, here, nburls, ipUrl, space, interPos>>
          /\ phase' = "fetchDns"
      BY <1>7 DEF SequencerEnd, queueVars, siteVars, ipVars, connVars
    <2>2. Stays /\ UrlsOnce' /\ Share' /\ interPos' <= RamUrls
      BY <1>1, <2>1, HoldersFrame DEF Share
    <2> QED BY <1>1, <2>1, <2>2, StayInv
  <1> QED BY <1>5, <1>6, <1>7 DEF SequencerStep

\* A step that moves no url and leaves the sequencer and the counters alone.
LEMMA UrlsFrame ==
    ASSUME Core, TypeOK', UrlsInv,
           UNCHANGED <<fresh, gone, diskQ, waitQ, fifo, tab, here>>,
           UNCHANGED <<nburls, ipUrl, space, interPos>>,
           UNCHANGED <<phase, count>> \/ phase' # "sequencer"
    PROVE  UrlsInv'
  <1>1. TypeOK /\ UrlsOnce /\ Share /\ interPos <= RamUrls
    BY DEF Core, UrlsInv, IntervalExact, TypeOK, QueueType
  <1>2. Stays /\ UrlsOnce' /\ Share' /\ interPos' <= RamUrls
    BY <1>1, HoldersFrame DEF Share
  <1> QED BY <1>1, <1>2, StayInv

\* A new share is what is left of the interval, once the last one is used.
LEMMA StartInv ==
    ASSUME Core, TypeOK', UrlsInv, StartSequencer,
           UNCHANGED <<fresh, gone, diskQ, waitQ, fifo, tab, here, nburls, ipUrl>>
    PROVE  UrlsInv'
  <1>1. TypeOK /\ UrlsOnce /\ Share /\ interPos <= RamUrls
    BY DEF Core, UrlsInv, IntervalExact, TypeOK, QueueType
  <1>2. space \in Int /\ interPos \in Int /\ RamUrls \in Int /\ MaxPerCall \in Int
    BY <1>1, SizeAssumption DEF TypeOK, QueueType
  <1>3. interPos' - space' = interPos - space /\ interPos' <= RamUrls
    BY <1>1, <1>2 DEF StartSequencer
  <1>4. Share'
    BY <1>1, <1>2 DEF StartSequencer, Share
  <1>5. Stays /\ UrlsOnce'
    BY <1>1, HoldersFrame
  <1> QED BY <1>1, <1>3, <1>4, <1>5, StayInv

\* endOfFile: the url of a page is deleted, a robots.txt has none.
LEMMA EndOfFileInv ==
    ASSUME Core, TypeOK', UrlsInv, NEW c \in Conns, NEW refused, NEW f,
           EndOfFile(c, refused, f), phase # "sequencer"
    PROVE  UrlsInv'
  <1>1. TypeOK /\ OneHolder /\ UrlsOnce /\ Share /\ interPos <= RamUrls /\ Room
    BY DEF Core, UrlsInv, IntervalExact, TypeOK, QueueType
  <1>2. UNCHANGED <<phase, fresh, diskQ, waitQ, fifo, tab, nburls, ipUrl, space, interPos>>
    BY DEF EndOfFile, queueVars, ipVars
  <1>3. CASE EndOfRobots(c, refused, f)
    BY <1>2, <1>3, UrlsFrame DEF EndOfRobots
  <1>4. CASE EndOfPage(c)
    <2>1. Moves(here[c], "conn", c, "gone", 0) /\ UrlsOnce'
      BY <1>1, <1>4, EndOfPageMoves
    <2>2. Change(Memory, "conn", "gone") = 0 /\ Change({"tab"}, "conn", "gone") = 0
      BY DEF Change, Memory
    <2>3. Counts(here[c], "conn", "gone")
      BY <1>1, <1>2, <2>2 DEF Counts, TypeOK, SiteType, IPType, QueueType
    <2>4. Share' /\ Room' /\ interPos' <= RamUrls
      BY <1>1, <1>2 DEF Share, Room
    <2> QED BY <1>1, <2>1, <2>3, <2>4, MoveInv
  <1> QED BY <1>3, <1>4 DEF EndOfFile

\* At start every url is still to be found.
LEMMA InitUrls == Init => UrlsInv
  <1> SUFFICES ASSUME Init PROVE UrlsInv
    OBVIOUS
  <1>1. /\ ToSet(diskQ) = {} /\ ToSet(waitQ) = {}
        /\ IsInjective(diskQ) /\ IsInjective(waitQ)
    BY DEF Init, ToSet, IsInjective
  <1>2. \A s \in NamedSlots : ToSet(fifo[s]) = {} /\ IsInjective(fifo[s])
    BY DEF Init, ToSet, IsInjective
  <1>3. \A i \in IPSlots : ToSet(tab[i]) = {} /\ IsInjective(tab[i])
    BY DEF Init, ToSet, IsInjective
  <1>4. OneHolder
    <2>1. fresh = Urls /\ gone = {} /\ \A c \in Conns : here[c] = NoUrl
      BY DEF Init
    <2>2. "fresh" \in Kinds /\ 0 \in Keys("fresh")
      BY DEF Kinds, Keys
    <2>3. ASSUME NEW u \in Urls PROVE Only(u, "fresh", 0)
      BY <1>1, <1>2, <1>3, <2>1 DEF Only, Kinds, Keys, At
    <2> QED BY <2>2, <2>3 DEF OneHolder
  <1>5. InMemory = {} /\ InTabs = {}
    <2>1. InTabs = {}
      BY <1>3 DEF InTabs
    <2>2. UNION {ToSet(fifo[s]) : s \in NamedSlots} = {}
      BY <1>2
    <2> QED BY <2>1, <2>2 DEF InMemory
  <1>6. NbUrlsExact
    <2>1. \A s \in NamedSlots : {u \in {} : Slot(u) = s} = {}
      OBVIOUS
    <2> QED BY <1>5, <2>1, FS_EmptySet DEF Init, NbUrlsExact
  <1>7. IntervalExact /\ IsFiniteSet(InMemory)
    BY <1>5, FS_EmptySet, SizeAssumption DEF Init, IntervalExact
  <1>8. Room /\ Share /\ SlotsRight
    BY <1>2, SizeAssumption DEF Init, Room, Share, SlotsRight
  <1> QED BY <1>1, <1>2, <1>3, <1>4, <1>6, <1>7, <1>8 DEF UrlsInv, UrlsOnce

\* Every step keeps the invariant.
LEMMA NextUrls == Core /\ Core' /\ UrlsInv /\ [Next]_vars => UrlsInv'
  <1> SUFFICES ASSUME Core, TypeOK', UrlsInv, [Next]_vars PROVE UrlsInv'
    BY DEF Core
  <1>1. CASE DnsStep
    <2>1. ASSUME NEW s \in NamedSlots, NEW d, NEW st,
                 DnsOK(s, d, st) \/ DnsNoSocket(s, d) \/ DnsErr(s, d) \/ UNCHANGED connVars
          PROVE  here' = here
      BY <2>1 DEF DnsOK, DnsNoSocket, DnsErr, connVars
    <2>2. ASSUME NEW s \in NamedSlots, Submit(s) \/ Answer(s), here' = here PROVE UrlsInv'
      <3>1. /\ UNCHANGED <<fresh, gone, diskQ, waitQ, fifo, tab>>
            /\ UNCHANGED <<nburls, ipUrl, space, interPos, phase, count>>
        BY <2>2 DEF Submit, Answer, queueVars, ipVars
      <3> QED BY <2>2, <3>1, UrlsFrame
    <2>3. ASSUME NEW s \in NamedSlots,
                 NewQuery(s) \/ NewNonsense(s) \/ AnswerCname(s) \/ AnswerError(s)
          PROVE  UrlsInv'
      BY <2>1, <2>2, <2>3 DEF NewQuery, NewNonsense, AnswerCname, AnswerError, LastAnswer
    <2>4. ASSUME NEW s \in NamedSlots, NEW ip, NEW st, NewNumeric(s, ip, st) \/ AnswerOk(s, ip, st)
          PROVE  UrlsInv'
      BY <2>1, <2>2, <2>4 DEF NewNumeric, AnswerOk, LastAnswer
    <2>5. ASSUME SubmitEnd \/ AnswersEnd PROVE UrlsInv'
      <3>1. /\ UNCHANGED <<fresh, gone, diskQ, waitQ, fifo, tab, here>>
            /\ UNCHANGED <<nburls, ipUrl, space, interPos>>
            /\ phase' # "sequencer"
        BY <2>5 DEF SubmitEnd, AnswersEnd, queueVars, siteVars, ipVars, connVars
      <3> QED BY <3>1, UrlsFrame
    <2> QED BY <1>1, <2>3, <2>4, <2>5 DEF DnsStep
  <1>2. CASE OpenStep \/ CheckEnd
    <2>1. /\ UNCHANGED <<fresh, gone, diskQ, waitQ, fifo, tab, here>>
          /\ UNCHANGED <<nburls, ipUrl, space, interPos>>
          /\ UNCHANGED <<phase, count>> \/ phase' # "sequencer"
      BY <1>2 DEF OpenStep, OpenSite, OpenEnd, CheckEnd, queueVars, siteVars, ipVars, connVars
    <2> QED BY <2>1, UrlsFrame
  <1>3. CASE PipeStep
    <2>1. ASSUME NEW c \in Conns, NEW st, KeepAlive(c) \/ NotYet(c) \/ Written(c, st)
          PROVE  UrlsInv'
      <3>1. /\ UNCHANGED <<fresh, gone, diskQ, waitQ, fifo, tab, here>>
            /\ UNCHANGED <<nburls, ipUrl, space, interPos>>
            /\ phase' # "sequencer"
        BY <2>1 DEF KeepAlive, NotYet, Written, Visit, queueVars, siteVars, ipVars, connVars
      <3> QED BY <3>1, UrlsFrame
    <2>2. ASSUME NEW c \in Conns, NEW f, TimeOut(c, f) \/ Refused(c, f) \/ Ended(c, f)
          PROVE  UrlsInv'
      <3>1. phase # "sequencer" /\ \E refused \in BOOLEAN : EndOfFile(c, refused, f)
        BY <2>2 DEF TimeOut, Refused, Ended, Visit
      <3> QED BY <3>1, EndOfFileInv
    <2> QED BY <1>3, <2>1, <2>2 DEF PipeStep
  <1>4. CASE CronEnd
    BY <1>4, StartInv DEF CronEnd, siteVars, ipVars, connVars
  <1>5. ASSUME NEW t, LoopTop(t) PROVE UrlsInv'
    <2>1. UNCHANGED <<fresh, gone, diskQ, waitQ, fifo, tab, here, nburls, ipUrl>>
      BY <1>5 DEF LoopTop, siteVars, ipVars, connVars
    <2>2. \/ StartSequencer
          \/ UNCHANGED <<space, interPos>> /\ phase' = "cron"
      BY <1>5 DEF LoopTop
    <2> QED BY <2>1, <2>2, UrlsFrame, StartInv
  <1>6. ASSUME NEW u \in Urls, Arrive(u) PROVE UrlsInv'
    <2>1. TypeOK /\ OneHolder /\ UrlsOnce /\ Share /\ interPos <= RamUrls /\ Room
      BY DEF Core, UrlsInv, IntervalExact, TypeOK, QueueType
    <2>2. Moves(u, "fresh", 0, "URLsDisk", 0) /\ UrlsOnce'
      BY <1>6, <2>1, ArriveMoves
    <2>3. UNCHANGED <<nburls, ipUrl, space, interPos, phase, count>>
      BY <1>6 DEF Arrive, loopVars, siteVars, ipVars
    <2>4. Change(Memory, "fresh", "URLsDisk") = 0 /\ Change({"tab"}, "fresh", "URLsDisk") = 0
      BY DEF Change, Memory
    <2>5. Counts(u, "fresh", "URLsDisk")
      BY <2>1, <2>3, <2>4 DEF Counts, TypeOK, SiteType, IPType, QueueType
    <2>6. Share' /\ Room' /\ interPos' <= RamUrls
      BY <2>1, <2>3 DEF Share, Room
    <2> QED BY <2>1, <2>2, <2>5, <2>6, MoveInv
  <1>7. CASE UNCHANGED vars
    BY <1>7, UrlsFrame DEF vars, loopVars, queueVars, siteVars, ipVars, connVars
  <1> QED BY <1>1, <1>2, <1>3, <1>4, <1>5, <1>6, <1>7, FetchInv, ScanInv, SequencerInv
          DEF Next, ThreadNext

LEMMA UrlsInvariant == Spec => []UrlsInv
  BY InitUrls, NextUrls, CoreInvariant, PTL DEF Spec

-----------------------------------------------------------------------------
(* The theorems *)

\* Where a url is in one queue.
LEMMA InQueue ==
    ASSUME NEW S, NEW q \in Seq(S), IsInjective(q), NEW u
    PROVE  /\ u \notin ToSet(q) => In(q, u) = {}
           /\ u \in ToSet(q) => \E n : In(q, u) = {n}
  <1>1. u \notin ToSet(q) => In(q, u) = {}
    BY DEF In, ToSet
  <1>2. ASSUME u \in ToSet(q) PROVE \E n : In(q, u) = {n}
    <2>1. PICK n \in DOMAIN q : q[n] = u
      BY <1>2 DEF ToSet
    <2>2. \A m \in DOMAIN q : q[m] = u => m = n
      BY <2>1 DEF IsInjective
    <2> QED BY <2>1, <2>2 DEF In
  <1> QED BY <1>1, <1>2

\* A set with a tag on each element is empty or a singleton as the set is.
Tagged(t, S) == {<<t, 0, n>> : n \in S}

LEMMA TaggedOne ==
    ASSUME NEW t, NEW S
    PROVE  /\ S = {} => Tagged(t, S) = {}
           /\ (\E n : S = {n}) => \E p : Tagged(t, S) = {p}
  <1>1. \A p : p \in Tagged(t, S) <=> \E n \in S : p = <<t, 0, n>>
    BY DEF Tagged
  <1>2. ASSUME NEW n, S = {n} PROVE Tagged(t, S) = {<<t, 0, n>>}
    <2>1. \A p : p \in Tagged(t, S) <=> p = <<t, 0, n>>
      BY <1>1, <1>2
    <2> QED BY <2>1
  <1>3. ASSUME S = {} PROVE Tagged(t, S) = {}
    BY <1>1, <1>3
  <1> QED BY <1>2, <1>3

\* nburls is the number of urls of the slot in memory, after any sequence of
\* scans, transfers, refusals and changes of identity: a slot neither stays
\* full for ever nor takes more urls than its ring.
THEOREM NbUrlsCounted == Spec => []NbUrlsExact
  <1>1. UrlsInv => NbUrlsExact
    BY DEF UrlsInv
  <1> QED BY <1>1, UrlsInvariant, PTL

\* The interval is exact and IPUrl too: the memory holds at most ramUrls urls,
\* and a place a url leaves is given to another one.
THEOREM IntervalCounted == Spec => []IntervalExact
  <1>1. UrlsInv => IntervalExact
    BY DEF UrlsInv
  <1> QED BY <1>1, UrlsInvariant, PTL

\* The ring of a site keeps its empty cell, for the urls that arrive and for
\* those its scans put back: the assertion of putInFifo never fails.
THEOREM RingNeverFull == Spec => []FifoNeverFull
  <1>1. TypeOK /\ UrlsInv => FifoNeverFull
    <2> SUFFICES ASSUME TypeOK, UrlsInv, NEW s \in NamedSlots
                 PROVE  Len(fifo[s]) < MaxUrlsBySite
      BY DEF FifoNeverFull
    <2> DEFINE q == fifo[s]
               M == OfSlot(InMemory, s)
    <2>1. q \in Seq(Urls) /\ IsInjective(q)
      BY DEF TypeOK, SiteType, UrlsInv, UrlsOnce
    <2>2. \A n \in DOMAIN q : q[n] \in M
      BY DEF UrlsInv, SlotsRight, OfSlot, InMemory, ToSet
    <2>3. IsFiniteSet(M) /\ Cardinality(M) = nburls[s]
      <3>1. M \in SUBSET InMemory
        BY DEF OfSlot
      <3>2. IsFiniteSet(M)
        BY <3>1, FS_Subset DEF UrlsInv
      <3> QED BY <3>2 DEF UrlsInv, NbUrlsExact, OfSlot
    <2> HIDE DEF q, M
    <2>4. Len(q) \in Nat /\ DOMAIN q = 1..Len(q) /\ q \in [1..Len(q) -> M]
      BY <2>1, <2>2, LenProperties
    <2>5. q \in Injection(1..Len(q), M)
      BY <2>1, <2>4 DEF Injection, IsInjective
    <2>6. Cardinality(1..Len(q)) <= Cardinality(M)
      BY <2>3, <2>5, FS_Injection
    <2>7. Cardinality(1..Len(q)) = Len(q)
      BY <2>4, FS_Interval
    <2>8. nburls[s] < MaxUrlsBySite /\ nburls[s] \in Int
      BY DEF UrlsInv, Room, TypeOK, SiteType
    <2> QED BY <2>3, <2>4, <2>6, <2>7, <2>8, SizeAssumption DEF q
  <1> QED BY <1>1, TypeCorrect, UrlsInvariant, PTL

\* No url is lost, fetched twice at a time or deleted twice: whatever dns, the
\* servers and the limits do, it is found, on disk, in one site, in one IP
\* site, read by one connexion, or deleted.
THEOREM UrlsInOnePlace == Spec => []UrlInOnePlace
  <1>1. ASSUME TypeOK, UrlsInv, NEW u \in Urls PROVE Cardinality(Places(u)) = 1
    <2>1. /\ diskQ \in Seq(Urls) /\ IsInjective(diskQ)
          /\ waitQ \in Seq(Urls) /\ IsInjective(waitQ)
          /\ \A s \in NamedSlots : fifo[s] \in Seq(Urls) /\ IsInjective(fifo[s])
          /\ \A i \in IPSlots : tab[i] \in Seq(Urls) /\ IsInjective(tab[i])
          /\ here \in [Conns -> Urls \cup {NoUrl}]
      BY <1>1 DEF TypeOK, QueueType, SiteType, IPType, ConnType, UrlsInv, UrlsOnce
    <2>2. PICK k \in Kinds : \E x \in Keys(k) : Only(u, k, x)
      BY <1>1 DEF UrlsInv, OneHolder
    <2>3. PICK x \in Keys(k) : Only(u, k, x)
      BY <2>2
    <2>4. /\ u \in fresh <=> k = "fresh"
          /\ u \in gone <=> k = "gone"
          /\ u \in ToSet(diskQ) <=> k = "URLsDisk"
          /\ u \in ToSet(waitQ) <=> k = "URLsDiskWait"
          /\ \A s \in NamedSlots : u \in ToSet(fifo[s]) <=> k = "fifo" /\ x = s
          /\ \A i \in IPSlots : u \in ToSet(tab[i]) <=> k = "tab" /\ x = i
          /\ \A c \in Conns : here[c] = u <=> k = "conn" /\ x = c
      <3>1. u # NoUrl
        BY <1>1, UrlAssumption
      <3>2. /\ u \in At("fresh", 0) <=> k = "fresh" /\ x = 0
            /\ u \in At("gone", 0) <=> k = "gone" /\ x = 0
            /\ u \in At("URLsDisk", 0) <=> k = "URLsDisk" /\ x = 0
            /\ u \in At("URLsDiskWait", 0) <=> k = "URLsDiskWait" /\ x = 0
            /\ \A s \in NamedSlots : u \in At("fifo", s) <=> k = "fifo" /\ x = s
            /\ \A i \in IPSlots : u \in At("tab", i) <=> k = "tab" /\ x = i
            /\ \A c \in Conns : u \in At("conn", c) <=> k = "conn" /\ x = c
        BY <2>3 DEF Only, Kinds, Keys
      <3> QED BY <3>1, <3>2 DEF At, Keys
    <2>5. /\ k # "URLsDisk" => In(diskQ, u) = {}
          /\ k = "URLsDisk" => \E n : In(diskQ, u) = {n}
          /\ k # "URLsDiskWait" => In(waitQ, u) = {}
          /\ k = "URLsDiskWait" => \E n : In(waitQ, u) = {n}
      BY <2>1, <2>4, InQueue
    <2>6. /\ \A s \in NamedSlots : ~(k = "fifo" /\ x = s) => In(fifo[s], u) = {}
          /\ k = "fifo" => x \in NamedSlots /\ \E n : In(fifo[x], u) = {n}
      BY <2>1, <2>3, <2>4, InQueue DEF Keys
    <2>7. /\ \A i \in IPSlots : ~(k = "tab" /\ x = i) => In(tab[i], u) = {}
          /\ k = "tab" => x \in IPSlots /\ \E n : In(tab[x], u) = {n}
      BY <2>1, <2>3, <2>4, InQueue DEF Keys
    <2>8. In(here, u) = IF k = "conn" THEN {x} ELSE {}
      BY <2>1, <2>3, <2>4 DEF In, Keys
    <2> DEFINE Fifos == UNION {{<<"fifo", s, n>> : n \in In(fifo[s], u)} : s \in NamedSlots}
               Tabs == UNION {{<<"tab", i, n>> : n \in In(tab[i], u)} : i \in IPSlots}
               Disk == Tagged("URLsDisk", In(diskQ, u))
               Wait == Tagged("URLsDiskWait", In(waitQ, u))
               Pages == Tagged("conn", In(here, u))
               New == IF u \in fresh THEN {<<"fresh", 0, 0>>} ELSE {}
               Old == IF u \in gone THEN {<<"gone", 0, 0>>} ELSE {}
    <2>9. Places(u) = New \cup Old \cup Disk \cup Wait \cup Fifos \cup Tabs \cup Pages
      BY DEF Places, Tagged
    <2>10. /\ IF k = "fresh" THEN \E p : New = {p} ELSE New = {}
           /\ IF k = "gone" THEN \E p : Old = {p} ELSE Old = {}
      BY <2>4
    <2>11. /\ IF k = "URLsDisk" THEN \E p : Disk = {p} ELSE Disk = {}
           /\ IF k = "URLsDiskWait" THEN \E p : Wait = {p} ELSE Wait = {}
      <3> HIDE DEF Fifos, Tabs, Pages, New, Old
      <3>1. /\ In(diskQ, u) = {} => Disk = {}
            /\ (\E n : In(diskQ, u) = {n}) => \E p : Disk = {p}
        BY TaggedOne, Zenon
      <3>2. /\ In(waitQ, u) = {} => Wait = {}
            /\ (\E n : In(waitQ, u) = {n}) => \E p : Wait = {p}
        BY TaggedOne, Zenon
      <3> HIDE DEF Disk, Wait
      <3> QED BY <2>5, <3>1, <3>2
    <2>12. IF k = "conn" THEN \E p : Pages = {p} ELSE Pages = {}
      <3> HIDE DEF Fifos, Tabs, Disk, Wait, New, Old
      <3>1. /\ In(here, u) = {} => Pages = {}
            /\ (\E n : In(here, u) = {n}) => \E p : Pages = {p}
        BY TaggedOne, Zenon
      <3> QED BY <2>8, <3>1, Zenon
    <2>13. IF k = "fifo" THEN \E p : Fifos = {p} ELSE Fifos = {}
      <3>1. CASE k = "fifo"
        <4>1. PICK n : In(fifo[x], u) = {n}
          BY <2>6, <3>1
        <4>2. \A p : p \in Fifos <=> \E s \in NamedSlots : \E m \in In(fifo[s], u) : p = <<"fifo", s, m>>
          OBVIOUS
        <4>3. \A p : p \in Fifos <=> p = <<"fifo", x, n>>
          BY <2>6, <3>1, <4>1, <4>2
        <4> HIDE DEF Fifos
        <4>4. Fifos = {<<"fifo", x, n>>}
          BY <4>3
        <4> QED BY <3>1, <4>4
      <3>2. CASE k # "fifo"
        BY <2>6, <3>2
      <3> QED BY <3>1, <3>2
    <2>14. IF k = "tab" THEN \E p : Tabs = {p} ELSE Tabs = {}
      <3>1. CASE k = "tab"
        <4>1. PICK n : In(tab[x], u) = {n}
          BY <2>7, <3>1
        <4>2. \A p : p \in Tabs <=> \E i \in IPSlots : \E m \in In(tab[i], u) : p = <<"tab", i, m>>
          OBVIOUS
        <4>3. \A p : p \in Tabs <=> p = <<"tab", x, n>>
          BY <2>7, <3>1, <4>1, <4>2
        <4> HIDE DEF Tabs
        <4>4. Tabs = {<<"tab", x, n>>}
          BY <4>3
        <4> QED BY <3>1, <4>4
      <3>2. CASE k # "tab"
        BY <2>7, <3>2
      <3> QED BY <3>1, <3>2
    <2> HIDE DEF Fifos, Tabs, Disk, Wait, Pages, New, Old
    <2>15. \E p : Places(u) = {p}
      BY <2>2, <2>9, <2>10, <2>11, <2>12, <2>13, <2>14 DEF Kinds
    <2> QED BY <2>15, FS_Singleton
  <1>2. TypeOK /\ UrlsInv => UrlInOnePlace
    BY <1>1 DEF UrlInOnePlace
  <1> QED BY <1>2, TypeCorrect, UrlsInvariant, PTL

=============================================================================
