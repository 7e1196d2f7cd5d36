--------------------------- MODULE CrawlerThread ---------------------------
(***************************************************************************)
(* One crawler thread: the main loop of startCrawler (main.cc) and the     *)
(* structures only that thread touches: the named sites (dns and           *)
(* robots.txt, site.cc), the IP sites (one queue of pages per server       *)
(* address, site.cc), the fixed pool of connexions (fetchPipe.cc) and the  *)
(* interval that bounds the urls in memory (site.h, sequencer.cc).         *)
(*                                                                         *)
(* The thread is sequential.  The body of each of its loops is one action; *)
(* "phase" says which function of the main loop runs, "count" is that      *)
(* function's loop counter, and three variables are the frames of the      *)
(* calls under way: "fetching" (IPSite::fetch, which calls itself),        *)
(* "scanSite"/"scanLeft" (the scan of a site's fifo by robotsResult or     *)
(* dnsErr) and "closing" (the connexion whose endOfFile waits for that     *)
(* scan).  The only other actor is the producer of URLsDisk: this crawler  *)
(* or another one putting a url it found (checker.cc).                     *)
(***************************************************************************)
EXTENDS Integers, Sequences, FiniteSets, SequencesExt

CONSTANTS
    Urls,           \* url objects
    Hosts, Ports, Files,
    HostOf, PortOf, FileOf,     \* what a url names
    NamedSlots,     \* indices of namedSiteList
    SlotOf,         \* hostHashCode: the slot of a host
    IPSlots,        \* indices of IPSiteList
    NumericHosts,   \* names that begin with a digit
    BadHosts,       \* those of them inet_aton refuses
    NbConn,         \* nb_conn
    DnsConn,        \* dnsConn
    MaxIPUrls,      \* maxIPUrls
    RamUrls,        \* ramUrls: size of the interval
    MaxPerCall,     \* maxPerCall
    MaxUrlsBySite,  \* maxUrlsBySite: cells of a site's ring
    LimitDisk,      \* the limit of putUrl
    LimitWait,      \* the limit of putUrlWait
    WaitDuration,   \* waitDuration
    DnsValidTime,   \* dnsValidTime
    ReadPeriod,     \* 300: period at which URLsDiskWait is read again
    StartNow,       \* the clock when the thread starts
    MaxNow,         \* bound: the clock stops there
    MaxHops,        \* bound: answers "prohibited cname" to one query
    NoUrl, NoSite, NoIP, NoHost

Conns == 1..NbConn
Slot(u) == SlotOf[HostOf[u]]

ASSUME UrlAssumption ==
    /\ HostOf \in [Urls -> Hosts]
    /\ PortOf \in [Urls -> Ports]
    /\ FileOf \in [Urls -> Files]
    /\ SlotOf \in [Hosts -> NamedSlots]
    /\ IsFiniteSet(NamedSlots)
    /\ BadHosts \subseteq NumericHosts
    /\ NumericHosts \subseteq Hosts
    /\ Ports # {} /\ IPSlots # {}
    /\ NoUrl \notin Urls
    /\ NoSite \notin NamedSlots
    /\ NoIP \notin IPSlots
    /\ NoHost \notin Hosts

ASSUME SizeAssumption ==
    /\ NbConn \in Nat \ {0}
    /\ DnsConn \in Nat
    /\ MaxIPUrls \in Nat
    /\ RamUrls \in Nat \ {0}
    /\ MaxPerCall \in Nat \ {0}
    /\ MaxUrlsBySite \in Nat
    /\ LimitDisk \in Nat
    /\ LimitWait \in Nat
    \* "Never fill totally the fifo => call at least with 1" (site.h): one
    \* cell stays empty, and the test is "nburls > maxUrlsBySite-limit"
    /\ LimitWait > 1 /\ LimitWait <= LimitDisk /\ LimitDisk <= MaxUrlsBySite

ASSUME TimeAssumption ==
    /\ WaitDuration \in Nat
    /\ DnsValidTime \in Nat
    /\ ReadPeriod \in Nat \ {0}
    /\ StartNow \in Nat
    /\ MaxNow \in Nat
    /\ MaxHops \in Nat
    \* lastAccess starts at 0, the epoch
    /\ StartNow >= WaitDuration /\ MaxNow >= StartNow

VARIABLES
    \* the main loop
    now, phase, count, fetching, scanSite, scanLeft, closing,
    \* the queues the sequencer reads, and the interval
    diskQ, waitQ, readWait, space, interPos,
    \* named sites
    id, nburls, fifo, inDns, dnsSites, asked, hops, nbDnsCalls,
    \* IP sites
    tab, lastAccess, inOk, okSites, ipUrl,
    \* connexions
    connState, server, here, freeConns,
    \* urls not found yet, and urls deleted
    fresh, gone

loopVars  == <<now, phase, count, fetching, scanSite, scanLeft, closing>>
queueVars == <<diskQ, waitQ, readWait, space, interPos>>
siteVars  == <<id, nburls, fifo, inDns, dnsSites, asked, hops, nbDnsCalls>>
ipVars    == <<tab, lastAccess, inOk, okSites, ipUrl>>
connVars  == <<connState, server, here, freeConns>>
vars == <<loopVars, queueVars, siteVars, ipVars, connVars, fresh, gone>>

Phases == {"top", "cron", "sequencer", "fetchDns", "dnsAnswers",
           "fetchOpen", "checkAll"}
DnsStates  == {"waitDns", "doneDns", "errorDns", "noConnDns"}
ConnStates == {"emptyC", "connectingC", "writeC", "openC"}

\* What getFds makes of a connexion: no socket, connecting, or connected
getFds == {"emptyC", "connectingC", "writeC"}

\* What a named site stands for: newId, dnsAns and robotsResult set it
Identity ==
    [name : Hosts \cup {NoHost}, port : Ports, dnsState : DnsStates,
     dnsTimeout : Nat, ip : IPSlots, forbidden : SUBSET Files]

LoopType ==
    /\ now \in Nat
    /\ phase \in Phases
    /\ count \in Int
    /\ fetching \in IPSlots \cup {NoIP}
    /\ scanSite \in NamedSlots \cup {NoSite}
    /\ scanLeft \in Nat
    /\ closing \in Conns \cup {0}

QueueType ==
    /\ diskQ \in Seq(Urls) /\ waitQ \in Seq(Urls)
    /\ readWait \in Nat
    /\ space \in Int /\ interPos \in Int

SiteType ==
    /\ id \in [NamedSlots -> Identity]
    /\ nburls \in [NamedSlots -> Int]
    /\ fifo \in [NamedSlots -> Seq(Urls)]
    /\ inDns \in [NamedSlots -> BOOLEAN]
    /\ dnsSites \in Seq(NamedSlots)
    /\ asked \in [NamedSlots -> Nat]
    /\ hops \in [NamedSlots -> Nat]
    /\ nbDnsCalls \in Int

IPType ==
    /\ tab \in [IPSlots -> Seq(Urls)]
    /\ lastAccess \in [IPSlots -> Nat]
    /\ inOk \in [IPSlots -> BOOLEAN]
    /\ okSites \in Seq(IPSlots)
    /\ ipUrl \in Int

ConnType ==
    /\ connState \in [Conns -> ConnStates]
    /\ server \in [Conns -> NamedSlots \cup {NoSite}]
    /\ here \in [Conns -> Urls \cup {NoUrl}]
    /\ freeConns \in Seq(Conns)

TypeOK ==
    /\ LoopType /\ QueueType /\ SiteType /\ IPType /\ ConnType
    /\ fresh \in SUBSET Urls /\ gone \in SUBSET Urls

Init ==
    /\ now = StartNow /\ phase = "top" /\ count = 0
    /\ fetching = NoIP /\ scanSite = NoSite /\ scanLeft = 0 /\ closing = 0
    /\ diskQ = <<>> /\ waitQ = <<>> /\ readWait = 0
    /\ space = 0 /\ interPos = 0
    \* port and ip are not initialised, and not read before newId sets them
    /\ id = [s \in NamedSlots |->
               [name |-> NoHost, port |-> CHOOSE p \in Ports : TRUE,
                dnsState |-> "waitDns", dnsTimeout |-> 0,
                ip |-> CHOOSE i \in IPSlots : TRUE, forbidden |-> {}]]
    /\ nburls = [s \in NamedSlots |-> 0]
    /\ fifo = [s \in NamedSlots |-> <<>>]
    /\ inDns = [s \in NamedSlots |-> FALSE]
    /\ dnsSites = <<>>
    /\ asked = [s \in NamedSlots |-> 0]
    /\ hops = [s \in NamedSlots |-> 0]
    /\ nbDnsCalls = 0
    /\ tab = [i \in IPSlots |-> <<>>]
    /\ lastAccess = [i \in IPSlots |-> 0]
    /\ inOk = [i \in IPSlots |-> FALSE]
    /\ okSites = <<>> /\ ipUrl = 0
    /\ connState = [c \in Conns |-> "emptyC"]
    /\ server = [c \in Conns |-> NoSite]
    /\ here = [c \in Conns |-> NoUrl]
    /\ freeConns = [c \in Conns |-> c]
    /\ fresh = Urls /\ gone = {}

-----------------------------------------------------------------------------
(* IPSite: the pages waiting for one server address *)

\* No frame is open: the function named by "phase" is the one running
Idle == fetching = NoIP /\ scanSite = NoSite

\* Mutant: isInFifo is not tested
PutUrlTwice(i, u) ==
    /\ tab' = [tab EXCEPT ![i] = Append(@, u)]
    /\ ipUrl' = ipUrl + 1
    /\ inOk' = [inOk EXCEPT ![i] = TRUE]
    /\ LET turn == lastAccess[i] + WaitDuration <= now /\ freeConns # <<>> IN
       /\ fetching' = IF turn THEN i ELSE fetching
       /\ okSites' = IF ~turn THEN Append(okSites, i) ELSE okSites
    /\ UNCHANGED lastAccess

\* IPSite::putUrl: u joins the queue of i, which is fetched at once when its
\* turn has come and a connexion is free, and else joins okSites
PutUrl(i, u) ==
    /\ tab' = [tab EXCEPT ![i] = Append(@, u)]
    /\ ipUrl' = ipUrl + 1
    /\ inOk' = [inOk EXCEPT ![i] = TRUE]
    /\ LET turn == lastAccess[i] + WaitDuration <= now /\ freeConns # <<>> IN
       /\ fetching' = IF ~inOk[i] /\ turn THEN i ELSE fetching
       /\ okSites' = IF ~inOk[i] /\ ~turn THEN Append(okSites, i) ELSE okSites
    /\ UNCHANGED lastAccess

\* IPSite::fetch with nothing left to read
FetchEmpty(i) ==
    /\ fetching = i
    /\ tab[i] = <<>>
    /\ inOk' = [inOk EXCEPT ![i] = FALSE]
    /\ fetching' = NoIP
    /\ UNCHANGED <<now, phase, count, scanSite, scanLeft, closing, queueVars,
                   siteVars, tab, lastAccess, okSites, ipUrl, connVars,
                   fresh, gone>>

\* Mutant: fetchOpen goes on with the site it has just put back
FetchTooEarlyGoesOn(i) ==
    /\ fetching = i
    /\ tab[i] # <<>>
    /\ lastAccess[i] + WaitDuration > now
    /\ okSites' = <<i>> \o okSites
    /\ fetching' = NoIP
    /\ UNCHANGED <<now, phase, count, scanSite, scanLeft, closing, queueVars,
                   siteVars, tab, lastAccess, inOk, ipUrl, connVars, fresh,
                   gone>>

\* IPSite::fetch before the time of the next call: the site goes back to the
\* head of okSites, and fetchOpen (the one caller that can see this) stops
FetchTooEarly(i) ==
    /\ fetching = i
    /\ tab[i] # <<>>
    /\ lastAccess[i] + WaitDuration > now
    /\ okSites' = <<i>> \o okSites
    /\ fetching' = NoIP
    /\ phase' = IF phase = "fetchOpen" THEN "checkAll" ELSE phase
    /\ count' = IF phase = "fetchOpen" THEN 1 ELSE count
    /\ UNCHANGED <<now, scanSite, scanLeft, closing, queueVars, siteVars,
                   tab, lastAccess, inOk, ipUrl, connVars, fresh, gone>>

\* Mutant: fetch does not look at the time
GetUrlAnyTime(i) ==
    /\ fetching = i
    /\ tab[i] # <<>>
    /\ freeConns # <<>>
    /\ tab' = [tab EXCEPT ![i] = Tail(@)]
    /\ ipUrl' = ipUrl - 1
    /\ nburls' = [nburls EXCEPT ![Slot(Head(tab[i]))] = @ - 1]
    /\ interPos' = interPos - 1
    /\ UNCHANGED <<now, phase, count, scanSite, scanLeft, closing, diskQ,
                   waitQ, readWait, space, id, fifo, inDns, dnsSites, asked,
                   hops, nbDnsCalls, fresh>>

\* Mutant: nburls is not decremented
GetUrlUncounted(i) ==
    /\ fetching = i
    /\ tab[i] # <<>>
    /\ lastAccess[i] + WaitDuration <= now
    /\ freeConns # <<>>
    /\ tab' = [tab EXCEPT ![i] = Tail(@)]
    /\ ipUrl' = ipUrl - 1
    /\ interPos' = interPos - 1
    /\ UNCHANGED <<now, phase, count, scanSite, scanLeft, closing, diskQ,
                   waitQ, readWait, space, id, nburls, fifo, inDns, dnsSites,
                   asked, hops, nbDnsCalls, fresh>>

\* IPSite::getUrl, under fetch: the head of i's queue leaves the memory
GetUrl(i) ==
    /\ fetching = i
    /\ tab[i] # <<>>
    /\ lastAccess[i] + WaitDuration <= now
    /\ freeConns # <<>>     \* freeConns->get() blocks the thread without one
    /\ tab' = [tab EXCEPT ![i] = Tail(@)]
    /\ ipUrl' = ipUrl - 1
    /\ nburls' = [nburls EXCEPT ![Slot(Head(tab[i]))] = @ - 1]
    /\ interPos' = interPos - 1
    /\ UNCHANGED <<now, phase, count, scanSite, scanLeft, closing, diskQ,
                   waitQ, readWait, space, id, fifo, inDns, dnsSites, asked,
                   hops, nbDnsCalls, fresh>>

\* IPSite::fetch opens a connexion for that page (st: what getFds returned)
FetchConnect(i, st) ==
    /\ GetUrl(i)
    /\ LET c == Head(freeConns) IN
       /\ connState' = [connState EXCEPT ![c] = st]
       /\ here' = [here EXCEPT ![c] = Head(tab[i])]
    /\ freeConns' = Tail(freeConns)
    /\ lastAccess' = [lastAccess EXCEPT ![i] = now]
    /\ inOk' = [inOk EXCEPT ![i] = Len(tab[i]) > 1]
    /\ okSites' = IF Len(tab[i]) > 1 THEN Append(okSites, i) ELSE okSites
    /\ fetching' = NoIP
    /\ UNCHANGED <<server, gone>>

\* getFds failed: the page is forgotten, and fetch calls itself
FetchFail(i) ==
    /\ GetUrl(i)
    /\ gone' = gone \cup {Head(tab[i])}
    /\ freeConns' = Append(Tail(freeConns), Head(freeConns))
    /\ UNCHANGED <<fetching, lastAccess, inOk, okSites, connState, server,
                   here>>

-----------------------------------------------------------------------------
(* NamedSite: the urls of the hosts of one hash slot *)

\* testRobots fails: the file is forbidden by the robots.txt of the slot
Forbidden(s, u) == FileOf[u] \in id[s].forbidden

SameName(s, u) == id[s].name = HostOf[u]

\* Mutant: the port is not compared
KnownAnyPort(s, u) ==
    id[s].dnsState # "waitDns" /\ SameName(s, u) /\ now <= id[s].dnsTimeout

\* The identity of the slot answers for u, and has not expired
Known(s, u) ==
    /\ id[s].dnsState # "waitDns"
    /\ SameName(s, u)
    /\ id[s].port = PortOf[u]
    /\ now <= id[s].dnsTimeout

\* newId: the slot takes the name and port of the head of its fifo
NewId(s) ==
    LET u == Head(fifo[s]) IN
    [id[s] EXCEPT !.name = HostOf[u], !.port = PortOf[u],
                  !.dnsState = "waitDns", !.dnsTimeout = now + DnsValidTime]

\* Mutant: the scan counts one url too many
StartScanOneMore(s, c) ==
    /\ scanSite' = s
    /\ scanLeft' = Len(fifo[s]) + 1
    /\ closing' = c

\* dnsErr and robotsResult begin to scan the fifo of s; c is the connexion
\* endOfFile recycles afterwards (0: none, for dnsErr)
StartScan(s, c) ==
    /\ scanSite' = s
    /\ scanLeft' = Len(fifo[s])
    /\ closing' = c

NoScan == UNCHANGED <<scanSite, scanLeft, closing>>

\* dnsOK: ask for the robots.txt of s, whose identity is now d
DnsOK(s, d, st) ==
    /\ freeConns # <<>>
    /\ id' = [id EXCEPT ![s] = d]
    /\ connState' = [connState EXCEPT ![Head(freeConns)] = st]
    /\ server' = [server EXCEPT ![Head(freeConns)] = s]
    /\ freeConns' = Tail(freeConns)
    /\ NoScan
    /\ UNCHANGED here

\* dnsOK when getFds finds no socket: the site's urls are given up
DnsNoSocket(s, d) ==
    /\ freeConns # <<>>
    /\ id' = [id EXCEPT ![s] = [d EXCEPT !.dnsState = "noConnDns"]]
    /\ freeConns' = Append(Tail(freeConns), Head(freeConns))
    /\ StartScan(s, 0)
    /\ UNCHANGED <<connState, server, here>>

\* dnsErr for a name without address
DnsErr(s, d) ==
    /\ id' = [id EXCEPT ![s] = [d EXCEPT !.dnsState = "errorDns"]]
    /\ StartScan(s, 0)
    /\ UNCHANGED connVars

-----------------------------------------------------------------------------
(* The scan of a fifo, by dnsErr and by robotsResult *)

\* Mutant: the scan goes on while there are urls
ScanNextNoEnd(s) ==
    /\ scanSite = s
    /\ fetching = NoIP
    /\ fifo[s] # <<>>
    /\ scanLeft' = scanLeft - 1
    /\ UNCHANGED <<now, phase, count, scanSite, closing, diskQ, waitQ,
                   readWait, space, id, inDns, dnsSites, asked, hops,
                   nbDnsCalls, connVars, fresh>>

\* The next url of the scanned fifo is taken out
ScanNext(s) ==
    /\ scanSite = s
    /\ fetching = NoIP
    /\ scanLeft > 0
    /\ fifo[s] # <<>>
    /\ scanLeft' = scanLeft - 1
    /\ UNCHANGED <<now, phase, count, scanSite, closing, diskQ, waitQ,
                   readWait, space, id, inDns, dnsSites, asked, hops,
                   nbDnsCalls, connVars, fresh>>

\* A url of the refused name, or one robots.txt forbids: forgetUrl
ScanForget(s) ==
    LET u == Head(fifo[s]) IN
    /\ ScanNext(s)
    /\ SameName(s, u)
    /\ \/ id[s].dnsState # "doneDns"
       \/ id[s].port = PortOf[u] /\ Forbidden(s, u)
    /\ fifo' = [fifo EXCEPT ![s] = Tail(@)]
    /\ nburls' = [nburls EXCEPT ![s] = @ - 1]
    /\ interPos' = interPos - 1
    /\ gone' = gone \cup {u}
    /\ UNCHANGED <<fetching, ipVars>>

\* A url of another name, or of another port: back into the fifo
ScanKeep(s) ==
    LET u == Head(fifo[s]) IN
    /\ ScanNext(s)
    /\ \/ ~SameName(s, u)
       \/ id[s].dnsState = "doneDns" /\ id[s].port # PortOf[u]
    /\ fifo' = [fifo EXCEPT ![s] = Append(Tail(@), u)]
    /\ UNCHANGED <<nburls, interPos, gone, fetching, ipVars>>

\* A url robots.txt allows: transfer puts it in its IPSite
ScanTransfer(s) ==
    LET u == Head(fifo[s]) IN
    /\ ScanNext(s)
    /\ SameName(s, u)
    /\ id[s].dnsState = "doneDns"
    /\ id[s].port = PortOf[u]
    /\ ~Forbidden(s, u)
    /\ fifo' = [fifo EXCEPT ![s] = Tail(@)]
    /\ PutUrl(id[s].ip, u)
    /\ UNCHANGED <<nburls, interPos, gone>>

\* "where should now lie this site", then endOfFile frees its connexion
ScanEnd(s) ==
    /\ scanSite = s
    /\ fetching = NoIP
    /\ scanLeft = 0
    /\ inDns' = [inDns EXCEPT ![s] = fifo[s] # <<>>]
    /\ dnsSites' = IF fifo[s] # <<>> THEN Append(dnsSites, s) ELSE dnsSites
    /\ scanSite' = NoSite
    /\ closing' = 0
    /\ IF closing # 0
         THEN /\ server' = [server EXCEPT ![closing] = NoSite]
              /\ freeConns' = Append(freeConns, closing)
         ELSE UNCHANGED <<server, freeConns>>
    /\ UNCHANGED <<now, phase, count, fetching, scanLeft, queueVars, id,
                   nburls, fifo, asked, hops, nbDnsCalls, ipVars, connState,
                   here, fresh, gone>>

-----------------------------------------------------------------------------
(* sequencer: urls enter the memory *)

\* Mutant: a new share is taken before the last one is used
StartSequencerAlways ==
    LET room == RamUrls - interPos IN
    /\ phase' = "sequencer"
    /\ space' = room
    /\ interPos' = RamUrls
    /\ count' = IF room > MaxPerCall THEN MaxPerCall ELSE room

\* sequencer's entry: a new share of the interval once the last one is used
StartSequencer ==
    LET room == IF space = 0 THEN RamUrls - interPos ELSE space IN
    /\ phase' = "sequencer"
    /\ space' = room
    /\ interPos' = IF space = 0 THEN RamUrls ELSE interPos
    /\ count' = IF room > MaxPerCall THEN MaxPerCall ELSE room

\* Mutant: the limit the comment of putGenericUrl allows
LimitOfComment == IF readWait > 0 THEN 1 ELSE LimitDisk

Limit == IF readWait > 0 THEN LimitWait ELSE LimitDisk

\* "Already enough Urls in memory for this Site"
Enough(s) == nburls[s] > MaxUrlsBySite - Limit

\* ... but u need not go back to the disk: its fate is known already
Forgettable(s, u) ==
    /\ SameName(s, u)
    /\ \/ id[s].dnsState \in {"errorDns", "noConnDns"}
       \/ /\ id[s].port = PortOf[u]
          /\ id[s].dnsState = "doneDns"
          /\ Forbidden(s, u)

WaitQAfterGet == IF readWait > 0 THEN Tail(waitQ) ELSE waitQ

\* canGetUrl takes u: from URLsDiskWait while readWait says so, else from
\* URLsDisk.  (URLsPriority and URLsPriorityWait: nothing feeds them.)
CanGetUrl(u) ==
    /\ phase = "sequencer" /\ Idle /\ count > 0
    /\ IF readWait > 0
         THEN waitQ # <<>> /\ u = Head(waitQ) /\ diskQ' = diskQ
         ELSE diskQ # <<>> /\ u = Head(diskQ) /\ diskQ' = Tail(diskQ)
    /\ readWait' = IF readWait > 0 THEN readWait - 1 ELSE 0
    /\ space' = space - 1
    /\ count' = count - 1
    /\ UNCHANGED <<now, phase, scanSite, scanLeft, closing, id, asked, hops,
                   nbDnsCalls, connVars, fresh>>

\* putGenericUrl: u is forgotten, because of its site's dns, connection or
\* robots.txt
PutForget(u) ==
    LET s == Slot(u) IN
    /\ CanGetUrl(u)
    /\ IF Enough(s)
         THEN Forgettable(s, u)
         ELSE Known(s, u) /\ (id[s].dnsState = "doneDns" => Forbidden(s, u))
    /\ gone' = gone \cup {u}
    /\ interPos' = interPos - 1
    /\ waitQ' = WaitQAfterGet
    /\ UNCHANGED <<nburls, fifo, inDns, dnsSites, fetching, ipVars>>

\* putGenericUrl: too many urls for this site, u goes to URLsDiskWait
PutBack(u) ==
    LET s == Slot(u) IN
    /\ CanGetUrl(u)
    /\ Enough(s) /\ ~Forgettable(s, u)
    /\ interPos' = interPos - 1
    /\ waitQ' = Append(WaitQAfterGet, u)
    /\ UNCHANGED <<nburls, fifo, inDns, dnsSites, fetching, ipVars, gone>>

\* putGenericUrl: u waits in its site for a dns answer and a robots.txt
PutNamed(u) ==
    LET s == Slot(u) IN
    /\ CanGetUrl(u)
    /\ ~Enough(s) /\ ~Known(s, u)
    /\ nburls' = [nburls EXCEPT ![s] = @ + 1]
    /\ fifo' = [fifo EXCEPT ![s] = Append(@, u)]
    /\ inDns' = [inDns EXCEPT ![s] = TRUE]
    /\ dnsSites' = IF inDns[s] THEN dnsSites ELSE Append(dnsSites, s)
    /\ waitQ' = WaitQAfterGet
    /\ UNCHANGED <<interPos, fetching, ipVars, gone>>

\* putGenericUrl: the site is known and allows u, transfer
PutTransfer(u) ==
    LET s == Slot(u) IN
    /\ CanGetUrl(u)
    /\ ~Enough(s) /\ Known(s, u)
    /\ id[s].dnsState = "doneDns" /\ ~Forbidden(s, u)
    /\ nburls' = [nburls EXCEPT ![s] = @ + 1]
    /\ PutUrl(id[s].ip, u)
    /\ waitQ' = WaitQAfterGet
    /\ UNCHANGED <<interPos, fifo, inDns, dnsSites, gone>>

\* still = 0, or there is no url left to get
SequencerEnd ==
    /\ phase = "sequencer" /\ Idle
    /\ count = 0 \/ (readWait = 0 /\ diskQ = <<>>)
    /\ phase' = "fetchDns"
    /\ count' = 0
    /\ UNCHANGED <<now, fetching, scanSite, scanLeft, closing, queueVars,
                   siteVars, ipVars, connVars, fresh, gone>>

-----------------------------------------------------------------------------
(* fetchDns: submit queries, then read the answers *)

MaySubmit ==
    /\ nbDnsCalls < DnsConn
    /\ freeConns # <<>>
    /\ ipUrl < MaxIPUrls

\* Mutant: the site is not taken out of dnsSites
SubmitPeek(s) ==
    /\ phase = "fetchDns" /\ Idle
    /\ MaySubmit
    /\ dnsSites # <<>> /\ s = Head(dnsSites)
    /\ UNCHANGED <<now, phase, count, fetching, queueVars, nburls, fifo,
                   inDns, dnsSites, hops, ipVars, fresh, gone>>

\* newQuery on the next site of dnsSites
Submit(s) ==
    /\ phase = "fetchDns" /\ Idle
    /\ MaySubmit
    /\ dnsSites # <<>> /\ s = Head(dnsSites)
    /\ dnsSites' = Tail(dnsSites)
    /\ UNCHANGED <<now, phase, count, fetching, queueVars, nburls, fifo,
                   inDns, hops, ipVars, fresh, gone>>

\* ... adns_submit
NewQuery(s) ==
    /\ Submit(s)
    /\ HostOf[Head(fifo[s])] \notin NumericHosts
    /\ id' = [id EXCEPT ![s] = NewId(s)]
    /\ asked' = [asked EXCEPT ![s] = @ + 1]
    /\ nbDnsCalls' = nbDnsCalls + 1
    /\ NoScan
    /\ UNCHANGED connVars

\* ... of a name in numbers-and-dots notation (ip: the IPSite of addr)
NewNumeric(s, ip, st) ==
    /\ Submit(s)
    /\ HostOf[Head(fifo[s])] \in NumericHosts \ BadHosts
    /\ LET d == [NewId(s) EXCEPT !.ip = ip] IN
       IF st = "emptyC" THEN DnsNoSocket(s, d) ELSE DnsOK(s, d, st)
    /\ UNCHANGED <<asked, nbDnsCalls>>

\* ... of a name that begins with a digit and is no address
NewNonsense(s) ==
    /\ Submit(s)
    /\ HostOf[Head(fifo[s])] \in BadHosts
    /\ DnsErr(s, NewId(s))
    /\ UNCHANGED <<asked, nbDnsCalls>>

SubmitEnd ==
    /\ phase = "fetchDns" /\ Idle
    /\ ~MaySubmit \/ dnsSites = <<>>
    /\ phase' = "dnsAnswers"
    /\ UNCHANGED <<now, count, fetching, scanSite, scanLeft, closing,
                   queueVars, siteVars, ipVars, connVars, fresh, gone>>

\* adns_check gives an answer for s
Answer(s) ==
    /\ phase = "dnsAnswers" /\ Idle
    /\ nbDnsCalls > 0 /\ freeConns # <<>>
    /\ asked[s] > 0
    /\ UNCHANGED <<now, phase, count, fetching, queueVars, nburls, fifo,
                   inDns, dnsSites, ipVars, fresh, gone>>

\* Mutant: nbDnsCalls is not decremented
LastAnswerUncounted(s) ==
    /\ Answer(s)
    /\ asked' = [asked EXCEPT ![s] = @ - 1]
    /\ hops' = [hops EXCEPT ![s] = 0]
    /\ UNCHANGED nbDnsCalls

\* dnsAns, the last answer for s
LastAnswer(s) ==
    /\ Answer(s)
    /\ asked' = [asked EXCEPT ![s] = @ - 1]
    /\ nbDnsCalls' = nbDnsCalls - 1
    /\ hops' = [hops EXCEPT ![s] = 0]

\* Mutant: the cname becomes the name of the site
AnswerCnameRenames(s) ==
    /\ Answer(s)
    /\ hops[s] < MaxHops
    /\ hops' = [hops EXCEPT ![s] = @ + 1]
    /\ \E h \in Hosts : id' = [id EXCEPT ![s].name = h]
    /\ NoScan
    /\ UNCHANGED <<asked, nbDnsCalls, connVars>>

\* ... a cname the resolver will not follow: ask for that cname instead
AnswerCname(s) ==
    /\ Answer(s)
    /\ hops[s] < MaxHops
    /\ hops' = [hops EXCEPT ![s] = @ + 1]
    /\ NoScan
    /\ UNCHANGED <<id, asked, nbDnsCalls, connVars>>

\* ... no address
AnswerError(s) ==
    /\ LastAnswer(s)
    /\ DnsErr(s, id[s])

\* ... an address, whose IPSite is ip
AnswerOk(s, ip, st) ==
    /\ LastAnswer(s)
    /\ LET d == [id[s] EXCEPT !.ip = ip] IN
       IF st = "emptyC" THEN DnsNoSocket(s, d) ELSE DnsOK(s, d, st)

\* No answer has come (yet), or no connexion is free
AnswersEnd ==
    /\ phase = "dnsAnswers" /\ Idle
    /\ phase' = "fetchOpen"
    /\ UNCHANGED <<now, count, fetching, scanSite, scanLeft, closing,
                   queueVars, siteVars, ipVars, connVars, fresh, gone>>

-----------------------------------------------------------------------------
(* fetchOpen: give the free connexions to the sites of okSites *)

OpenSite ==
    /\ phase = "fetchOpen" /\ Idle
    /\ freeConns # <<>> /\ okSites # <<>>
    /\ fetching' = Head(okSites)
    /\ okSites' = Tail(okSites)
    /\ UNCHANGED <<now, phase, count, scanSite, scanLeft, closing, queueVars,
                   siteVars, tab, lastAccess, inOk, ipUrl, connVars, fresh,
                   gone>>

OpenEnd ==
    /\ phase = "fetchOpen" /\ Idle
    /\ freeConns = <<>> \/ okSites = <<>>
    /\ phase' = "checkAll"
    /\ count' = 1
    /\ UNCHANGED <<now, fetching, scanSite, scanLeft, closing, queueVars,
                   siteVars, ipVars, connVars, fresh, gone>>

-----------------------------------------------------------------------------
(* fetchPipe.cc: the connexions, and the clock *)

\* robots::parse sets the forbidden files to f.  It leaves them alone when no
\* good answer code or no end of headers has been read.
RobotsParse(c, f) ==
    \/ f = id[server[c]].forbidden
    \/ connState[c] = "openC" /\ f \in SUBSET Files

\* endOfFile for a robots.txt: parse, then robotsResult scans the site's urls.
\* Every outcome but noConnection (a timeout too) counts as an answer.
EndOfRobots(c, refused, f) ==
    LET s == server[c] IN
    /\ s # NoSite
    /\ RobotsParse(c, f)
    /\ connState' = [connState EXCEPT ![c] = "emptyC"]
    /\ id' = [id EXCEPT
                ![s].dnsState = IF refused THEN "noConnDns" ELSE "doneDns",
                ![s].forbidden = f]
    /\ StartScan(s, c)
    /\ UNCHANGED <<here, freeConns, gone>>

\* Mutant: the connexion keeps the url
EndOfPageKeepsUrl(c) ==
    /\ server[c] = NoSite
    /\ connState' = [connState EXCEPT ![c] = "emptyC"]
    /\ gone' = gone \cup {here[c]}
    /\ freeConns' = Append(freeConns, c)
    /\ NoScan
    /\ UNCHANGED <<id, here>>

\* endOfFile for a page: the url is deleted and the connexion is free
EndOfPage(c) ==
    /\ server[c] = NoSite
    /\ connState' = [connState EXCEPT ![c] = "emptyC"]
    /\ gone' = gone \cup {here[c]}
    /\ here' = [here EXCEPT ![c] = NoUrl]
    /\ freeConns' = Append(freeConns, c)
    /\ NoScan
    /\ UNCHANGED id

\* Mutant: the state of the connexion is not tested
EndOfFileTwice(c, refused, f) ==
    /\ EndOfRobots(c, refused, f) \/ EndOfPage(c)
    /\ UNCHANGED <<now, phase, fetching, queueVars, nburls, fifo, inDns,
                   dnsSites, asked, hops, nbDnsCalls, ipVars, server, fresh>>

\* endOfFile, which the loops call only for a connexion in use
EndOfFile(c, refused, f) ==
    /\ connState[c] # "emptyC"
    /\ EndOfRobots(c, refused, f) \/ EndOfPage(c)
    /\ UNCHANGED <<now, phase, fetching, queueVars, nburls, fifo, inDns,
                   dnsSites, asked, hops, nbDnsCalls, ipVars, server, fresh>>

\* The loop of checkTimeout or of checkAll goes from connexion c to the next
Visit(c, f) ==
    /\ phase = f /\ Idle
    /\ c \in Conns /\ c = count
    /\ count' = c + 1

\* checkTimeout: c has time left (or is empty)
KeepAlive(c) ==
    /\ Visit(c, "cron")
    /\ UNCHANGED <<now, phase, fetching, scanSite, scanLeft, closing,
                   queueVars, siteVars, ipVars, connVars, fresh, gone>>

\* checkTimeout: "This server doesn't answer"
TimeOut(c, f) ==
    /\ Visit(c, "cron")
    /\ EndOfFile(c, FALSE, f)

\* checkAll: poll says nothing of c, or c reads or writes a part of its data
NotYet(c) ==
    /\ Visit(c, "checkAll")
    /\ UNCHANGED <<now, phase, fetching, scanSite, scanLeft, closing,
                   queueVars, siteVars, ipVars, connVars, fresh, gone>>

\* pipeWrite: the connection is refused
Refused(c, f) ==
    /\ Visit(c, "checkAll")
    /\ connState[c] = "connectingC"
    /\ EndOfFile(c, TRUE, f)

\* pipeWrite: connected, and a part or the whole of the request is written
Written(c, st) ==
    /\ Visit(c, "checkAll")
    /\ connState[c] \in {"connectingC", "writeC"}
    /\ st \in {"writeC", "openC"} \ {connState[c]}
    /\ connState' = [connState EXCEPT ![c] = st]
    /\ UNCHANGED <<now, phase, fetching, scanSite, scanLeft, closing,
                   queueVars, siteVars, ipVars, server, here, freeConns,
                   fresh, gone>>

\* pipeWrite or pipeRead: end of the file, error, or enough has been read
Ended(c, f) ==
    /\ Visit(c, "checkAll")
    /\ EndOfFile(c, FALSE, f)

\* The end of checkAll, then poll
CheckEnd ==
    /\ phase = "checkAll" /\ Idle
    /\ count > NbConn
    /\ phase' = "top"
    /\ count' = 0
    /\ UNCHANGED <<now, fetching, scanSite, scanLeft, closing, queueVars,
                   siteVars, ipVars, connVars, fresh, gone>>

\* The top of the main loop: update time, and call cron if it has changed
LoopTop(t) ==
    /\ phase = "top" /\ Idle
    /\ t >= now
    /\ now' = t
    /\ IF t # now
         THEN /\ phase' = "cron"
              /\ count' = 1
              /\ UNCHANGED <<space, interPos>>
         ELSE StartSequencer
    /\ UNCHANGED <<fetching, scanSite, scanLeft, closing, diskQ, waitQ,
                   readWait, siteVars, ipVars, connVars, fresh, gone>>

\* The end of cron: "see if we should read again urls in fifowait"
CronEnd ==
    /\ phase = "cron" /\ Idle
    /\ count > NbConn
    /\ readWait' = IF now % ReadPeriod = 0 THEN Len(waitQ)
                   ELSE IF now % ReadPeriod = ReadPeriod \div 2 THEN 0
                   ELSE readWait
    /\ StartSequencer
    /\ UNCHANGED <<now, fetching, scanSite, scanLeft, closing, diskQ, waitQ,
                   siteVars, ipVars, connVars, fresh, gone>>

\* check (checker.cc), of this crawler or another: a new url joins URLsDisk
Arrive(u) ==
    /\ u \in fresh
    /\ fresh' = fresh \ {u}
    /\ diskQ' = Append(diskQ, u)
    /\ UNCHANGED <<loopVars, waitQ, readWait, space, interPos, siteVars,
                   ipVars, connVars, gone>>

-----------------------------------------------------------------------------
FetchStep == \E i \in IPSlots :
    \/ FetchEmpty(i)
    \/ FetchTooEarly(i)
    \/ \E st \in getFds \ {"emptyC"} : FetchConnect(i, st)
    \/ FetchFail(i)

ScanStep == \E s \in NamedSlots :
    ScanForget(s) \/ ScanKeep(s) \/ ScanTransfer(s) \/ ScanEnd(s)

SequencerStep ==
    \/ \E u \in Urls : PutForget(u) \/ PutBack(u) \/ PutNamed(u) \/ PutTransfer(u)
    \/ SequencerEnd

DnsStep ==
    \/ \E s \in NamedSlots : NewQuery(s) \/ NewNonsense(s)
    \/ \E s \in NamedSlots, ip \in IPSlots, st \in getFds :
           NewNumeric(s, ip, st) \/ AnswerOk(s, ip, st)
    \/ SubmitEnd
    \/ \E s \in NamedSlots : AnswerCname(s) \/ AnswerError(s)
    \/ AnswersEnd

OpenStep == OpenSite \/ OpenEnd

PipeStep == \E c \in Conns :
    \/ KeepAlive(c)
    \/ NotYet(c)
    \/ \E st \in ConnStates : Written(c, st)
    \/ \E f \in SUBSET Files : TimeOut(c, f) \/ Refused(c, f) \/ Ended(c, f)

ThreadNext ==
    \/ FetchStep \/ ScanStep \/ SequencerStep \/ DnsStep \/ OpenStep
    \/ PipeStep \/ CheckEnd \/ CronEnd
    \/ \E t \in now..MaxNow : LoopTop(t)

Next == ThreadNext \/ \E u \in Urls : Arrive(u)

Spec == Init /\ [][Next]_vars

FairSpec == Spec /\ WF_vars(ThreadNext)

-----------------------------------------------------------------------------
(* Safety *)

\* freeConns holds each free connexion once: a connexion is there when its
\* state is emptyC, except the one whose endOfFile is still scanning a site.
\* A connexion put twice would serve two pages through one buffer.
FreeConnsExact ==
    /\ IsInjective(freeConns)
    /\ \A c \in Conns :
         c \in ToSet(freeConns) <=> connState[c] = "emptyC" /\ c # closing

\* An open connexion works for a site's robots.txt or for a page, not both,
\* and a free one for nothing; the scan under endOfFile is that of its site.
ConnServesOne ==
    /\ \A c \in Conns :
         LET robots == server[c] # NoSite
             page == here[c] # NoUrl
         IN IF connState[c] # "emptyC" THEN robots # page
                                       ELSE ~page /\ (robots => c = closing)
    /\ closing # 0 => /\ connState[closing] = "emptyC"
                      /\ scanSite # NoSite /\ server[closing] = scanSite

\* isInFifo: a named site is in dnsSites, or has one dns query out, or one
\* connexion fetching its robots.txt, or dnsErr scans it: in one of these
\* places and no more, exactly when isInFifo says so.  A site lost from them
\* would never be asked again, and a site twice there would change its
\* identity while a query or a robots.txt is under way.
SiteHeldOnce ==
    /\ IsInjective(dnsSites)
    /\ \A s \in NamedSlots : asked[s] <= 1
    /\ \A c, d \in Conns : server[c] = server[d] /\ c # d => server[c] = NoSite
    /\ \A s \in NamedSlots :
         LET queued == s \in ToSet(dnsSites)
             query  == asked[s] > 0
             robots == \E c \in Conns : server[c] = s
             failed == scanSite = s /\ closing = 0
         IN /\ inDns[s] <=> queued \/ query \/ robots \/ failed
            /\ ~(queued /\ query) /\ ~(queued /\ robots) /\ ~(queued /\ failed)
            /\ ~(query /\ robots) /\ ~(query /\ failed) /\ ~(robots /\ failed)

\* A site that is held has urls waiting in its fifo (newId reads its head), and
\* a site with waiting urls is held; the scan never reads an empty fifo.
WaitingIffHeld ==
    /\ \A s \in NamedSlots :
         /\ fifo[s] # <<>> => inDns[s]
         /\ inDns[s] /\ scanSite # s => fifo[s] # <<>>
    /\ scanSite # NoSite => scanLeft <= Len(fifo[scanSite])

\* IPSite::isInFifo: an IP site is once in okSites exactly when it has pages
\* to fetch, but for the one whose fetch is running.
IPSiteQueuedOnce ==
    /\ IsInjective(okSites)
    /\ \A i \in IPSlots :
         /\ i \in ToSet(okSites) <=> inOk[i] /\ fetching # i
         /\ fetching = i => inOk[i]
         /\ fetching # i => (inOk[i] <=> tab[i] # <<>>)

\* fetch never waits for a connexion: freeConns->get() would block the whole
\* crawler, and only this thread gives connexions back.
ConnAtHand ==
    fetching # NoIP => freeConns # <<>>

\* The urls in memory: those that wait in a named site, and those transferred
\* to an IP site.
InTabs == UNION {ToSet(tab[i]) : i \in IPSlots}
InMemory == (UNION {ToSet(fifo[s]) : s \in NamedSlots}) \cup InTabs

\* nburls counts the urls of the slot in memory, whatever the slot's identity
\* has become since they came.
NbUrlsExact ==
    \A s \in NamedSlots : nburls[s] = Cardinality({u \in InMemory : Slot(u) = s})

\* The ring of a site keeps one empty cell: the assertion of putInFifo holds
\* when a url arrives and when the scans put urls back.
FifoNeverFull ==
    \A s \in NamedSlots : Len(fifo[s]) < MaxUrlsBySite

\* The interval: its position is the part not used of the current share plus
\* the urls in memory, so that it bounds them; and IPUrl counts the pages of
\* the IP sites.
IntervalExact ==
    /\ interPos = space + Cardinality(InMemory)
    /\ interPos \in 0..RamUrls
    /\ ipUrl = Cardinality(InTabs)

\* Every url object is in one place: not found yet, on disk, waiting in its
\* site, in an IP site, read by a connexion, or deleted; never lost, never
\* deleted twice.
In(q, u) == {k \in DOMAIN q : q[k] = u}
Places(u) ==
      (IF u \in fresh THEN {<<"fresh", 0, 0>>} ELSE {})
    \cup (IF u \in gone THEN {<<"gone", 0, 0>>} ELSE {})
    \cup {<<"URLsDisk", 0, k>> : k \in In(diskQ, u)}
    \cup {<<"URLsDiskWait", 0, k>> : k \in In(waitQ, u)}
    \cup (UNION {{<<"fifo", s, k>> : k \in In(fifo[s], u)} : s \in NamedSlots})
    \cup (UNION {{<<"tab", i, k>> : k \in In(tab[i], u)} : i \in IPSlots})
    \cup {<<"conn", 0, c>> : c \in In(here, u)}

UrlInOnePlace == \A u \in Urls : Cardinality(Places(u)) = 1

\* The urls cron announces are in URLsDiskWait: get() on an empty file would
\* spin for ever with its lock held.
ReadWaitBacked == readWait <= Len(waitQ)

\* Queries are counted: nbDnsCalls is the number of sites with a query out,
\* and never more than dnsConn.
DnsCallsExact ==
    /\ nbDnsCalls = Cardinality({s \in NamedSlots : asked[s] > 0})
    /\ nbDnsCalls <= DnsConn

\* A site changes its name or port only while nothing is under way for the
\* old ones: no query, no robots.txt, no scan.
IdentityStable ==
    [][\A s \in NamedSlots :
         id'[s].name # id[s].name \/ id'[s].port # id[s].port
           => /\ asked[s] = 0
              /\ \A c \in Conns : server[c] # s
              /\ scanSite # s]_vars

\* Whatever dns, servers and other crawlers do, the thread comes back to the
\* top of its loop: no handler scans, submits or fetches for ever.
LoopReturns == []<>(phase = "top")
=============================================================================
