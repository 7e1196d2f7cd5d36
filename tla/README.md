# Karbin: specification, model checking and proofs

Karbin is a web crawler derived from larbin. One process runs `nrCrawler`
crawlers, each of them one thread with an event loop of its own. Every url
belongs to one crawler, by its hash code ("virtual nodes"), and a crawler that
finds a link to a url of another one puts it on that crawler's fifo on disk.

This directory holds TLA+ modules of the crawler's own logic, TLC
configurations that check them on small instances, and TLAPS proofs of the
safety of the crawler thread, of the two fifos, of the crawlers' rendezvous and
exchange of urls, of the resolver with its connection, and of how a page's
headers and the names of its links are read. `PROJECT.json` maps each definition
to the lines it models.

    tlc -workers 2 -config thread_site.cfg MCCrawlerThreadHistory   # one run
    tlapm CrawlerThreadProofs.tla                                   # one proof module

Source paths below are relative to `src/src/`, those that begin with `adns/`
to `src/`.


## 1. Inventory

| part | source | state | operations |
|---|---|---|---|
| process | `main.cc` | `map` (virtual node to crawler), `crawlers[]` | create the crawlers one by one, start a thread for each |
| rendezvous | `utils/rendezvous.cc` | `count` | `meet` (force, reset: never called) |
| main loop | `main.cc` | `now`, `posPoll`, `pollfds`, `ansPoll` | cron when the second changes, sequencer, fetchDns, fetchOpen, checkAll, poll |
| sequencer | `fetch/sequencer.cc` | `space` (one for all threads), `inter` (one per crawler), `readWait` | takes urls from disk to their named site |
| named sites | `fetch/site.cc` | per hash slot: name, port, fifo of urls, `nburls`, dns state, address, expiry, `forbidden`, `isInFifo` | putGenericUrl, newQuery, dnsAns, dnsOK, dnsErr, robotsResult, transfer, forgetUrl |
| IP sites | `fetch/site.cc` | per address slot: urls, `lastAccess`, `isInFifo` | putUrl, getUrl, fetch (recursive) |
| queues of sites | `utils/Fifo.h` | growing ring: `dnsSites`, `okSites`, the urls of an IP site | put, get, tryGet, rePut |
| connexions | `fetch/fetchPipe.cc`, `crawler.h` | per connexion: state, parser, timeout; `freeConns` | checkTimeout, checkAll, pipeWrite, pipeRead, endOfFile |
| dns | `fetch/fetchOpen.cc` | `nbDnsCalls`, queries out | submit, read answers |
| resolver: queries | `adns/query.c`, `adns/event.c`, `adns/reply.c`, `adns/check.c` | four queues of queries (`udpw`, `tcpw`, `childw`, `output`), each query's retries, timeout, children | submit, cancel, check, processany, afterpoll, finish |
| resolver: connection | `adns/event.c`, `adns/transmit.c` | `tcpstate`, `tcpserver`, `tcpsend`, `tcprecv` | connect, write, read, break, next server |
| resolver: data | `adns/types.c`, `adns/parse.c`, `adns/setup.c` | records, `resolv.conf` | parse answers, callbacks of child queries, init |
| check | `fetch/checker.cc`, `fetch/hashTable.cc` | a bit table of seen urls per crawler | check: test, set, and hand to the owner |
| fifo on disk | `utils/PersistentFifo.cc` | a chain of files, two buffers, `in`, `out` | put (any thread), get, tryGet (owner) |
| robots.txt | `fetch/file.cc`, `utils/text.cc` | the text, `posParse`, `state`, the site's `forbidden` | parse, parseRobots, nextToken |
| pages | `fetch/file.cc` | the headers read so far, `state`, `base`, `here->depth` | inputHeaders, parseCmdline, parseHeaders, parseHtml, manageUrl |
| urls | `utils/url.cc`, `utils/text.cc`, `fetch/checker.cc` | host, port, file, depth | parse against a base, fileNormalize, isValid, initOK, filter1, robotsMatch |
| output | `interf/` | files written for the pages read | loaded, failure |

How they interact. A crawler's thread is sequential: everything a named site,
an IP site or a connexion does happens inside one of the functions of its main
loop, but these call one another deeply (`endOfFile` calls `robotsResult`,
which scans a fifo and calls `transfer`, which calls `putUrl`, which calls
`fetch`, which takes a connexion and calls itself when it fails). Between
threads there are: `URLsDisk`, locked, where any crawler puts urls; `space`,
`stataddr` and the names of the files saved, not locked; `crawlers[]`, filled
while the constructors of the crawlers already check urls; the rendezvous.

What is hard here, and so what the properties are about:

* nested calls that give out and give back the same connexions and sites;
* a slot shared by all the hosts and ports of one hash code, whose identity
  changes, expires and is asked again while its urls wait elsewhere;
* counters kept by hand in distant places (`nburls`, `IPUrl`, `nbDnsCalls`,
  `readWait`, the interval), each of which stops the crawler when it drifts;
* calls that would block the only thread that could unblock them
  (`freeConns->get()`, `URLsDiskWait->get()`);
* lines cut by a buffer, a read, a flush, or the end of a file; headers and
  dns messages cut by a read;
* a resolver whose queries are on one of four queues, may own each other, and
  fail, time out, are answered or are cancelled while a loop walks a queue;
* one name spelled in many ways on the way from a link to a rule of robots.txt;
* crawlers that start one after the other and exchange urls from the first;
* variables shared between threads without a lock.

`PROJECT.json` lists the hazards one by one, at their lines, with the
properties that cover them.


## 2. Modules

    CrawlerThread  <-- CrawlerThreadHistory        (history variables)
         ^                    ^
         |                    +--- MCCrawlerThreadHistory (also MCCrawlerThread)
         +--- MCCrawlerThread
                              +--- CrawlerThreadProofs
    FifoQueue  <== Fifo (MCFifo, FifoProofs)
               <== PersistentFifo (MCPersistentFifo, PersistentFifoProofs)
    Crawlers   <-- MCCrawlers, CrawlersProofs
    Sequencers
    Queues     <-- Resolver <== Adns (MCAdns, AdnsProofs)
    AdnsStream <-- MCAdnsStream, AdnsStreamProofs
    Urls <-- Robots <-- Pages <-- MCPages, PagesProofs
    QueueLemmas    (about Queues, sequences and what is cut and joined in them;
                    used by the proofs of CrawlerThread, Adns, PersistentFifo,
                    AdnsStream and Pages)

(`<--` is extended by, `<==` is implemented by, with INSTANCE.)

### CrawlerThread

One crawler and its thread. An action is the body of one loop of the code, or
one outcome of a call (what `getFds`, the resolver, a server or `read` does).
What the C++ stack holds is in the state:

* `phase` is the function of the main loop that runs, `count` its counter
  (`still` in sequencer, the index of the connexion in checkTimeout and
  checkAll);
* `fetching` is the IP site whose `fetch` runs, `scanSite`/`scanLeft` the site
  and the rest of the loop of `robotsResult` or `dnsErr`, `closing` the
  connexion whose `endOfFile` waits for that scan. `Idle` is: no such frame.

| variable | code |
|---|---|
| `diskQ`, `waitQ`, `readWait`, `space`, `interPos` | `URLsDisk`, `URLsDiskWait`, `readWait`, `space`, `Interval::pos` |
| `id`, `nburls`, `fifo`, `inDns` | fields of `NamedSite` (`inDns`: its `isInFifo`) |
| `dnsSites`, `asked`, `nbDnsCalls` | the fifo of sites to ask, the queries adns has, their counter |
| `tab`, `lastAccess`, `inOk`, `okSites`, `ipUrl` | fields of `IPSite` (`inOk`: its `isInFifo`), the fifo, `IPUrl` |
| `connState`, `server`, `here`, `freeConns` | `Connexion::state`, the `robots` parser's site, the `html` parser's url, the pool |
| `fresh`, `gone` | urls nobody has found yet, urls deleted |

The data is abstract: a url names a host, a port and a file; a host has a slot
(`hostHashCode`); an address is its IP slot, and the resolver gives any; a
robots.txt leaves any set of forbidden files if something was read, or leaves
the old set. A connexion is refused, written, read or timed out at any time:
the bytes, the timeout counter and the descriptors are abstracted to that
choice, so whatever `poll` or the servers do is allowed.

The configuration modelled is the one of `options.h` (no cookies, no priority
input, no thread for output) without a proxy. `URLsPriority` and
`URLsPriorityWait` are never fed and always empty.

`CrawlerThreadHistory` adds variables that only record: when each address was
last called, for which host, port and address a request of robots.txt ended
otherwise than refused, at which address each connexion asks for its page, whose
robots.txt last filled `forbidden`.

### Fifo, FifoQueue

`FifoQueue` is what a fifo promises: a sequence, with put, get and rePut.
`Fifo` is the ring of `Fifo.h`, with `in`, `out`, `size` and the array, and
implements it with `queue <- Content`, the cells from `out` to `in`.

### PersistentFifo

The chain of files, the buffer before the last one and the buffer after the
first one. `put` is one action. `get` holds the lock from end to end, but what
`read` returns decides the next step, so each call of `read` is an action. A
line is a sequence of pieces (one or more bytes), only the last of which has
the newline: reads, flushes and buffers cut lines between any two pieces. It
implements `FifoQueue` too, with `Content` the lines of the buffer, the rest of
the first file, the other files and the output buffer.

### Crawlers

All the crawlers: `main`, the constructor that checks the start urls,
`Rendezvous::meet`, and each crawler's search reduced to: take a url from disk,
have its page parsed some time later with the first n of its links, check each
link. `pthread_cond_wait` in `meet` is in no loop, and POSIX lets it return without
a signal: `WaitReturns` is that return, for the threads in `Unsignalled`.
`SearchTogether` and `SeenIsCrawled` speak of the other threads, which start
together whatever those of `Unsignalled` do. One of `Unsignalled` may search early,
against what `rendezvous.h:22` says of `meet` ("will block the calling thread until
a total number of count threads have called this function"), and the links it finds
to crawlers that are not created are dropped.
`dropped` records of which urls `check` says "Wrong Crawler pointer".

### Sequencers

`sequencer` again, run by several threads: `space` is one variable of the
process, loads and stores are separate steps, and unsigned arithmetic wraps.

### Resolver, Adns

`Resolver` is what the crawler's thread may count on: a query that was accepted
is pending until it is answered, is answered once, and its answer is taken in
order or cancelled.

`Adns` is the resolver: the queries, as records with the fields of
`struct adns__query` that change (state, retries, servers sent to, children,
parent), the queues of `struct adns__state`, the state and server of its one
TCP connection. The functions of the code are operators from a state of the
resolver to the next (`adns__query_fail`, `server_broken`, `adns__query_done`,
... keep their names), so an action is a call of the user up to the first thing
it reads from a socket, or one round of the loop that reads it: `pc` names that
loop, `cur` is the query that a C local points to across rounds, which is where
it could point to a query that has been freed. `due` is the set of queries whose
timeout was over when the call began: time is a choice, made once a call, as
`now` is read once a call. `e` is what the system calls of a step return.
The queues are sequences and `Queues` has what taking a query off one does. It
is written with the cells that stay, counted, and not with `SelectSeq`: a set and
its cardinality are what the provers know about. For the same reason the
properties that say how many (`NbUrlsExact`, `IntervalExact`, `OncePerFinder`)
speak of the cardinality of a set of urls, or of copies, and not of a sum.
It implements `Resolver` with `pending` the queries of the user on `udpw`,
`tcpw`, `childw`, and `answered` the queue `output`.

| variable | code |
|---|---|
| `ads` | `struct adns__state`: the queries, `udpw`, `tcpw`, `childw`, `output`, `tcpstate`, `tcpserver` |
| `pc`, `cur` | the function the call is in, and its saved pointer |
| `call`, `due`, `fds` | the call of the user, the clock it read, the events `poll` gave it |

What is in a datagram is abstract: it is for one query that waits or for none
(the code compares the id and the whole question before it looks at anything
else), and is an answer, with the children it needs, an error, a truncation, a
referral, no such name or no such data.

### AdnsStream

The bytes of that connection, both ways. A message is its length in two bytes
and its body; the kernel takes and gives any number of bytes. `Adns` takes whole
messages from it, which is what `RepliesWhole` and `QueriesWhole` justify.

### Urls, Robots, Pages

`Urls` is text: strings are sequences of characters, an escape or a protocol is
one character. `fileNormalize`, the constructor that reads a link against the
base of a page, `isValid`, `robotsMatch`, `filter1` are the code's loops, the
ones that are no search as recursive functions: `Round` is one round of
`fileNormalize`, and `Normalized` the function that makes one after the other.
`Meant`, in `Pages`, is the reference for a name. It does not rewrite: it reads
the name once, character by character, and says where a walk from directory to
directory (`Walks`) comes to. `Robots` parses a robots.txt one token a step, from a text of any
records, whole or cut at any place. A record is for the program when its agent is
a part of the program's name, in capitals or not (`caseContain`): with USERAGENT
"larbin", `User-agent: BIN` is. The reference (`Ours`) says so with subsequences of
the name. `Pages` reads a page of that site: headers
in pieces of any size, a redirection, a BASE tag, links; each link goes through
`manageUrl`, with the filters and `initOK`, and `RobotsObeyed` compares the ones
let through with the rules of the robots.txt that was served.


## 3. Runs

Passing runs.

| run | instance | shows |
|---|---|---|
| `thread_site` | 4 urls, one slot for 2 hosts and 2 ports, 2 addresses, identities that expire in the next second, one connexion, one dns call, a ring of 3 | the bookkeeping of a named site, robots.txt before pages, spacing of pages |
| `thread_pool` | 4 urls (2 of one name), 2 slots, 2 connexions, 2 dns calls, a name, a numeric address, a nonsense name, one address, a limit that is reached | the pool, IP sites, dns calls, the interval, urls, identities; and that the loop goes on |
| `fifo` | 2 objects, a ring of one cell, at most 5 objects | the ring is a queue |
| `persistent_fifo` | lines of 2 and 3 pieces, buffers of 7, files of 3 lines, 3 names | the fifo on disk is a queue, and get returns |
| `crawlers` | 3 crawlers, 6 nodes, 4 urls (two with one hash code), 2 start urls; the wait of crawler 0 may return without a signal | rendezvous and exchange of urls |
| `adns` | 2 queries of the user that have up to 2 children, 3 queries alive, 2 servers | queues, retries, connection; a resolver |
| `adns_answers` | one query, for a ptr with a child or along a search list, 2 servers, calls of afterpoll | every call returns, every query is answered |
| `adns_stream` | 2 messages each way of 1 to 3 bytes, bytes of two values, writes of 0 to 4 bytes | replies whole, in order, and read in the end; queries whole as long as no write took one byte |
| `pages` | robots.txt of two records of 4 kinds of names (ours, a part of it in capitals, another, everybody) and 4 of rules, cut or not; 143 links; 4 header lines | rules, headers, names, and that robots.txt is obeyed |

The properties, each with the code it is about, are commented where they are
defined. In short:

* connexions: `FreeConnsExact`, `ConnServesOne`;
* named sites: `SiteHeldOnce` (queued, asked, fetched or scanned, in one place,
  exactly when `isInFifo`), `WaitingIffHeld`, `IdentityStable`, `NbUrlsExact`,
  `FifoNeverFull`, `DnsCallsExact`;
* IP sites: `IPSiteQueuedOnce`, `PagesSpaced`, `PageCleared`;
* urls: `UrlInOnePlace`, `IntervalExact`;
* the loop: `LoopReturns`;
* fifos: `IsQueue` (twice), `GetReturns`;
* crawlers: `SearchTogether`, `AllSearch`, `OncePerFinder`, `SeenIsCrawled`;
* queries of the resolver: `QueuesExact` (each on the queue of its state, its
  children on it and it on `childw` together), `RetriesBounded`,
  `AllServersTried`, `EsrchMeansNone` (adns_check says there is none only when
  there is none), `NoAbort` (no assertion fails, no freed query is touched),
  `IsResolver`;
* its connection: `TcpDownIsClean`, `SentIffUp`, and the messages on it,
  `QueriesWhole`, `RepliesWhole`, `RepliesArrive`;
* its calls: `CallReturns`, `Answers`;
* robots.txt and pages: `ForbiddenExact`, `HeadersRead`, `NamesResolved`,
  `RobotsObeyed`.

The bounds, and why they are enough.

* Crawler thread. The code's limits keep their order, `LimitWait <= LimitDisk <=
  MaxUrlsBySite`, with a ring that the urls of one slot would fill
  (`FifoNeverFull` breaks with the limit of 1 that the comment of `site.h:113`
  allows, since the ring keeps one cell empty); an interval no larger than the
  number of urls, so that it gets full; fewer connexions than sites that want
  one; `maxPerCall` smaller than the interval, so that a share is used in
  several calls. `MaxNow` bounds the clock (before and after `waitDuration`,
  before and after an expiry, and both halves of `ReadPeriod`, which stands for
  300); time may jump. `MaxHops` bounds answers with a cname. In `thread_site`
  nothing tells two of the urls apart and they are symmetric; its two addresses
  let a site move from one to the other while its pages wait.
* Fifos. The ring grows three times. Files of three lines in buffers of seven
  pieces put the end of a line, of a read, of a buffer and of a file in every
  relative position, and three names make them reused.
* Crawlers. Three are the number in `main.cc`; their order of creation and the
  owner of the start urls differ. Crawler 0 is the one that may wake without a
  signal: it comes first to `meet`, when the others are not created.
* Resolver. Two servers are the least for which one follows the other and the
  last is followed by the first; with one send over UDP (`UDPMAXRETRIES = 1`) the
  retries that count are those over TCP, which the code counts in three places,
  and the limit over UDP is reached at the first timeout; the theorems are for
  any limit. `Faults = {}`: no connect fails at once (section 6). A query of the
  user with two children, or two of which one has a child, wait together on
  each queue, so that every loop has a query to save while it fails another. Ids, names and
  the values of the timeouts are left out. Connections break in every step.
* Stream. With bytes of two values a length of 2 or 3 needs both its bytes; two
  messages meet in one read, and one is cut at every place, also in its length.
  Connections break and are made anew. A write takes any number of bytes; one that
  takes a single byte breaks what follows (section 6), and `QueriesWhole` speaks
  of the connections on which none did.
* Pages. All names of up to four characters of `/`, `.`, `a` hold every order
  of `/./`, `/../`, `//` and their ends; longer ones repeat the same steps.
  Robots.txt of two records hold every order of a name, a weaker and a stronger
  one; `maxRobotsItem` of 2 is exceeded. A word is a sequence of few characters,
  of one or more letters each: "lar", "bin" and "BIN" are enough for a name, a
  part of it and its capitals. `NamesResolved` is for `Plain` names, those with no
  escaped ".", "/" or "%" and no "." before a "#" (section 6).

What the passing runs leave out because the code fails there is listed in
section 6: it is not hidden by a bound without being named.

Runs that find a disagreement. Each checks what a comment of the code says.

| run | what the comment says | what the code does |
|---|---|---|
| `forbidden_own` | `site.cc:336` newId deletes the old identity | `forbidden` stays, and a robots.txt that cannot be read leaves it: one host's rules are applied to another. (Each page is still asked for only after a robots.txt request of its own host: `PageCleared`) |
| `interval_stall` | `site.h:53` putAll answers 0 when no url can be put | a share taken by two threads at once is lost, and both crawlers stop for good |
| `adns_connect` | `adns/adns.h:591` adns_processany never blocks | when no connection can even be begun and a query waits for one, `tcp_events` tries the servers in turn for ever |

`thread_pool` checks `IntervalExact` for one crawler alone: there the interval
is right. `Sequencers` shows what the second thread does to it. `adns_answers`
checks `CallReturns` where `connect` may fail late, but does not fail at once
for every server.

Fairness.

* `FairSpec` of `CrawlerThread` is weak fairness of the thread as a whole, and
  of none of its choices: it runs (`main` starts it and nothing blocks it,
  `ConnAtHand`), but no server, resolver or clock is assumed to do anything.
* `PersistentFifo`: weak fairness of the steps inside `get`. The thread runs
  and `read` returns; nothing is assumed of those who call `put`.
* `Crawlers`: weak fairness of `main`, of each thread's `meet`, and of each
  thread's search: every page taken is ended some day, by its end or by its
  timeout, which is what `checkTimeout` is for.
* `Adns`: weak fairness of the rounds of the loops, together: a call that is
  begun is executed. Strong fairness of adns_check with a query whose timeout
  is over: the crawler's loop calls it again and again (`fetchDns`), and the
  clock goes on. Nothing is assumed of the servers, nor that a reply comes.
* `AdnsStream`: the resolver reads what `poll` says can be read, and the kernel
  gives at least one byte then. Writing has no fairness.
* `Sequencers` and `Pages` have safety properties only.

`CHECK_DEADLOCK FALSE` is given for `Crawlers` only: when every link is known
and crawled there is nothing left to do there (the loops go on with nothing to
take, and are left out).


## 4. Proofs

`CrawlerThreadProofs` proves, for any number of urls, hosts, slots, connexions
and for every limit that the assumptions of `CrawlerThread` allow, that
`Core` is inductive:

    Core == TypeOK /\ FreeConnsExact /\ ConnServesOne /\ SiteHeldOnce /\ WaitingIffHeld

None of the parts is inductive alone. That the head of `freeConns` serves
nothing needs `FreeConnsExact`; that what `endOfFile` gives back was given out
needs `ConnServesOne`; `newId` reads the head of a fifo, which has one by
`WaitingIffHeld`; `WaitingIffHeld` is kept by the end of a scan because nothing
else holds the scanned site, by `SiteHeldOnce`; and types themselves need all
of them, since the code reads heads of queues and urls of connexions without a
test. The proof has one lemma per loop of the thread (`FetchCore`, `ScanCore`,
`SequencerCore`, `DnsCore`, `PipeCore`), and one below each for what is shared
(`PoolGet`: a connexion is given out; `PoolRotate`: it goes back at once;
`DnsOutcome`, `DnsTaken`: what becomes of the site a query or an answer was
for). `QueueLemmas` holds what append, head, tail and `Off` do to a queue in
which nothing is twice. From `Core` follow `TypeCorrect`, `PoolSafe`,
`ConnectionsServeOne`, `SitesHeldOnce`, `SitesWait` and the action property
`IdentityKept`.

Where the urls are and how many is next, in the same module: `UrlsInOnePlace`,
`NbUrlsCounted`, `IntervalCounted`, `RingNeverFull`. A place is a holder
`At(k, x)`, of a kind (a queue on disk, a fifo of a site, the pages of an IP
site, a connexion, not found yet, deleted) and a key. Each step either moves
one url from one holder to another (`Moves`) or moves none (`Stays`), with one
lemma for each loop; what a move does to the counters is then said once
(`CountMove`, `MoveInv`): the set of urls in memory gains one, loses one or stays.
The invariant is

    UrlsInv == /\ OneHolder /\ UrlsOnce
               /\ IsFiniteSet(InMemory) /\ SlotsRight
               /\ NbUrlsExact /\ IntervalExact /\ Room /\ Share

`Room`, that a slot counts fewer than `maxUrlsBySite` urls, is why the ring
never fills; `Share`, that sequencer takes no more urls than there is space for,
is why `interPos` stays in its interval. That a url sits in the fifo of its own slot
(`SlotsRight`) is why the counter that a page decrements on its way out is the
one that counted it.

Its last part adds four more invariants, each inductive with `Core` or
`TypeOK`: `IPSitesQueuedOnce`, `ConnIsAtHand`, `ReadWaitIsBacked`,
`DnsCallsCounted`; and the two properties of the history. `PagesAreSpaced`:
`lastAccess` is never before the last page asked (`LastPageKnown`), since fetch is
the one that opens a connexion for a page, and writes it; so two pages of a server
are `waitDuration` apart. `PagesAreCleared`: for a site in the state "done" a
request of its robots.txt to the address it is known by has ended otherwise than
refused (`IdsCleared`), and a url in the pages of an IP site, or at a connexion,
is one of a site for which one did, at the address of that IP site
(`TabsCleared`, `HereCleared`), since `cleared` only grows. It does not say that
the server answered: a request that timed out, even while connecting, or that could
not be written, clears the site in the code (`site.cc:359`).

`FifoProofs` proves that the ring is safe and implements the queue:
`RingIsQueue == Spec => IsQueue`, for every size and length. The invariant is
`TypeOK /\ NoStaleCell /\ RoomToRePut`: rePut needs the cell that get has just
left, which is still empty. `RingLemma` and `PlainRing` replace the modulo by a
case distinction, once; `PutShifts`, `GetShifts` and `RePutShifts` say what each
call does to the objects, at their places behind `out`; the refinement follows.

`CrawlersProofs` proves `CrawlersSearchTogether`, for any number of crawlers,
urls and nodes, and any set `Unsignalled` of threads that may wake without a
signal: none of the others searches before all have called `meet`. The
invariant is `Threads /\ (Meeting \/ Met)`: a thread is there once `main` has
created it, and either the count is what those that have called `meet` leave of
`nrCrawler` and nobody out of `Unsignalled` searches, or everybody does. The step
from the one to the other is the last call of `meet`: then the crawlers that have
called it are all but one, which needs the cardinality of that set and not only a
bound on the count. A thread that wakes early has called `meet` too, so it takes
nothing from the count of the others.
`OneCopyPerFinder` is for the search that follows: the copies of the urls of one
hash code, on disk, in memory and parsed, are at their owner, and are as many as
the crawlers that have the code in their table and could hand the url on (`Counted`).
A link that is new adds its finder and one copy; reading, fetching and parsing move
one, which is a map of the copies after a step one to one onto those before it. So
one crawler never has a url crawled twice, and two that find it always do.

`AdnsProofs` proves the safety properties of the resolver, for any
number of queries, servers and children and whatever the system calls return.
Functions are operators from state to state, so a proof is one lemma for each of
them, which the lemmas of its callers cite, and one step for each action.

* `ConnectionDownIsClean`: while the connection is down nothing is left of it to
  send and no query counts as sent, and one that is being made has a timeout.
  The invariant is `Clean(ads)`, with `InBroken` for what holds inside the one
  function that breaks a connection.
* `TypesHold`, `SentWhenUp`, `QueuesStayExact`, `EsrchIsTrue`: `QueuesExact` does
  not hold in the middle of a function, when a query has left a queue and is
  not yet on another. `Good(s, h)` says it of a state in which the queries of `h`
  are in the hands of a function; each function is shown to place, free or pass
  on the queries in hand, and to touch no other but their children and parents.
  Between steps only the query whose answer is being parsed is in hand (`Hand`).
* `AnswersOnce`: the resolver implements `Resolver`. Every function either
  answers nothing or one query, at the end of `output` (`Replied`); each action
  is then a step of `Resolver` or a stutter. Only adns_finish and adns_cancel
  drop queries, and they are the user's.
* `RetriesStayBounded`, `ServersAreTried`: the retries of a query over TCP are
  counted in three places, and its failure tests the count, not the servers. The
  invariant `Fits` ties the one to the other: while a query waits, the servers whose
  connection it saw break include the last `retries` ones of the ring before the
  current one (one fewer over a connection that is up: the write counted, its break
  has not come), so that the count which ends the query means all of them. In the loop of
  "server_broken", the queries before the saved one were looked at
  already (`Checked`), which is why the loop may go on from its saved pointer.
  `RetriesBounded` has the hypothesis `"connect" \notin Faults`: a connect that
  fails at once raises the count within one call, before the loop that reads it
  (section 6).
* `AssertionsHold`: `Culprit` lists what may make an assertion fail, and each step that
  aborts is shown to have it: a lack of resources in adns_afterpoll, a second name
  of a search asked for over TCP, a query freed behind the back of the loop of
  `tcp_events`. The three hypotheses leave them out: no poll with system
  failures, one name to search, one child for a ptr query. They are how the
  crawler uses the resolver: `adns_submit` has `adns_r_addr` in both its calls
  (`site.cc:209`, `site.cc:228`), `adns_check` is the only function that runs it
  (`fetchOpen.cc:64`). Each of the three fails in the code (section 6), so none
  can be dropped.

`QueuesStayExact`, `EsrchIsTrue` and `RetriesStayBounded` are of the form
`Spec => [](NoAbort => P)`: the process is gone once an assertion failed, and the
state the model stops in is the one of the middle of a function. With
`AssertionsHold` they give `P` for the crawler's uses.

`PersistentFifoProofs` proves that the fifo on disk is a queue (`DiskIsQueue`) and
that `in - out`, by which `get` waits, `tryGet` gives up and files are unlinked, is
the number of urls in it (`CountsAreContent`), for urls of any length, buffers and
files of any size and reads of any number of bytes. The invariant is

    IInv == TypeInv /\ Chapters(Wholes, out, in % UrlByFile) /\ LinesInv

`LinesInv`: what is not read yet, through the buffers and the files, is a sequence
of whole lines, `in - out` of them. That alone is not inductive: a read stops at the
end of a file, and what the code does there is right only when a line ends there and
the next file is the one with the next line. `Chapters` says how many lines begin and
end in each file, the first being the one that `out` counts in and the last the one
that `in` does.

`AdnsStreamProofs` proves `RepliesAreWhole` and `QueriesAreWhole`, for any number of
messages of any length, and pieces of any size. `ReceiveInv`: what is left in the buffer
from `skip` on, and what the network still has, are the frames of the messages not
given yet, so that the two bytes found at `skip` are a length. `SendInv` says the
same of what was written and what waits in `tcpsend`. `QueriesAreWhole` has no
hypothesis on the writes, but `QueriesWhole` speaks of the connections on which no write
took a single byte (`torn`): after one, the code keeps the wrong byte of the length
(`transmit.c:202`, section 6).

`PagesProofs` proves `HeadersAreRead`, for any number of lines in any pieces: the
invariant `HInv` says which lines must have been read for the page to be in its
state, and that no complete line is left behind unless the fate of the page is decided.
It then proves of the names of links, for names and bases of any length, that they
stay below the root (`NamesAreSettled`) and that a link is asked for under the name it
means (`NamesAreResolved`), both for `Plain` names: of "/%2E%2E/a", which is not one,
the code makes "/../a" (section 6). The argument is about one round of the loop
(`RoundSteps`): it returns, or it goes on with less to read (`LeftOf`), which is also
why the loop of the code ends and `Normalized` is what its rounds make of one another
(`NormalizedIs`). `Ready`, what the loop has passed is settled, is kept by each round.
So is `InLoop`, with which the meaning stays what it was: the walk along what was
passed is in the directory whose name was passed (`WalkAlong`), so a second "/" or a
"." leaves it where it is, and ".." brings it back to where `Up` leads (`CutMeans`).
`NamesInv` carries this from the name to the link: the base of a page is a url whose
file begins with "/", or none.

Last, it proves of robots.txt that what is forbidden is what the file says
(`ForbiddenIsExact`) and that the links of the site are refused by it and by nothing
else (`RobotsAreObeyed`), for any number of records, names and rules of any length.
A text is taken from its end, since the tokens of what is left do not depend on what
came before: `ReadAgents`, `ReadRules` and `ReadRecord` say which tokens a record gives,
whatever follows it, and `CutToken` that a text that was cut, once `parse` has blanked
its last word, has no token that the whole one has not. `RInv` places the parser in the
file: the tokens left are those of the file from some record and some place in it, and
what is forbidden are the rules met before that place in the records that concern the
program (`ContainsOurs`: those that `caseContain` finds in its name). `VInv` is the
verdict: `initOK` refused a link exactly when the rules that are held forbid it, and
`MatchIsPrefix` relates `robotsMatch` to them.
The hypotheses: `FilesAreWellWritten`, that names and rules are words (no space, no
":", no leading "#", not a keyword), that each rule means something plain once made
good, and that only the first record may have no name; and, for `RobotsAreObeyed`,
`NoPatternsAsked`, that a "*" only begins a rule. `MCPages` has TLC check that the
files of the run satisfy both, so that they are not empty.

Induction over data is done on sets of naturals: `QueueLemmas` proves `Least` (such
a set has a least element) and `Induct` from the library's theorems about naturals,
and the lemmas about sequences that are cut, joined and flattened follow from them.
In `PagesProofs`, `LoopExists` does so for the recursive functions of the model: a
loop whose rounds have less and less to do has a value, which is what its rounds make
of one another; the search of `nextToken` for its next word and `robotsMatch` are such
loops.

Assumptions: those named in the modules (`UrlAssumption`, `SizeAssumption`,
`TimeAssumption`, `FifoAssumption`, `PersistentAssumption`, `CrawlersAssumption`,
`AdnsAssumption`, `AdnsStreamAssumption`, `UrlsAssumption`, `RobotsAssumption`,
`PagesAssumption`, `NoQuotesAssumption`); TLC evaluates them on each run. They say that hosts have slots,
that limits are positive and in order, that the clock starts later than
`waitDuration` after the epoch, that a line fits in a buffer, that links and bases
are sequences of characters and that the url of a page is valid and its file begins
with "/".

`NoQuotesAssumption` leaves quoted words out of the texts (section 5).

`ConnAtHand` (`freeConns->get()` never blocks), `ReadWaitBacked` (nor does
`URLsDiskWait->get()`), the types of the ring, `NoStaleCell`, the count of the fifo on
disk and `NamesSettled` are stated by theorems and are not repeated in runs.

Every invariant and every action property that a passing run checks is stated by a
theorem. Model-checked only: liveness (`LoopReturns`, `GetReturns`, `AllSearch`,
`SeenIsCrawled`, `CallReturns`, `Answers`, `RepliesArrive`), which is out of the
prover's reach. Rules with a "*" inside them and files that are not well written are
in neither a theorem nor a run.


## 5. Not modelled

* Descriptors, `ansPoll`, `stataddr`, the bytes of a connexion for a page: what
  a connexion is told, and when, is a free choice.
* Of pages, what comments, tags, attributes and entities look like: the model
  begins with the link that was found. The `Content-Length` is too long or not.
  The scheme of a link is one character, so "after index 7" in the test of a BASE
  tag (`file.cc:648`) is "after the scheme" (`BaseScheme`).
* Of `nextToken`, words in quotes (`text.cc:180`), which may be empty or hold
  spaces and ":": the texts have no quote (`NoQuotesAssumption`).
* Of adns: `adns_synchronous` and `adns_wait` (the crawler does not call them),
  `adns_forallqueries`, the timeouts told to `select`, the signal handling of
  its threads, `resolv.conf`, sort lists, and the reading of names and records
  out of a datagram, which gives a good or a bad answer.
* A failing disk and a resolver that refuses queries: the code ignores both
  errors (see the hazards).
* `SyncFifo` and `ConstantSizedFifo` as rings with threads: the first is not
  used by the configuration modelled, the second is used by one thread and is a
  sequence in `CrawlerThread`.
* `RELOAD`, proxy, priority fifos, cookies, `MAXBANDWIDTH`, `THREAD_OUTPUT`,
  duplicate detection: off in `options.h`, or never fed.
* The user outputs, the statistics, buffers and vectors: no state the
  properties are about.


## 6. Met while reading and not checked by a run

Where a passing run avoids one of these, the bound or constant is named.

Crawler.

* `crawler.h:112` waits between two calls at the same server: requests of
  robots.txt neither wait nor count; `PagesSpaced` is what holds.
* `hashTable.h:6` no url is crawled twice: the table tested is the finder's, so it
  is once for each crawler that finds it. `OncePerFinder` says exactly that, and so
  that a url is crawled twice in every behaviour of `crawlers` in which two find it.
* `rendezvous.cc:37` has no loop around `pthread_cond_wait`: a return without a
  signal lets a thread search early (`WaitReturns`, modelled; `SearchTogether` and
  `SeenIsCrawled` are about the threads out of `Unsignalled`).
* A request of robots.txt that times out or cannot be written clears the site
  for its pages as an answer does (`site.cc:359`); only a refused connexion does not.
* `space` without a lock also lifts the bound on the urls in memory.
* `site.h:65` speaks of "just one jump" along cnames, and the test for it is
  commented out in `dnsAns` (`MaxHops`).
* A connection refused on one port forgets the urls of the same host on every
  port (`site.cc:390`, `ScanForget`).
* `adns_submit`'s result is ignored by `site.cc:209`.
* Urls put back in `URLsDiskWait` are read again in the seconds 0 mod 300
  (`main.cc:137`): a loop busy in that second waits for the next.
* `ansPoll` (`main.cc:104`) is indexed by descriptors that may have been closed
  and opened since `poll`; `stataddr` and the names of the mirror save are
  statics that threads share.
* `PersistentFifo`: file names have six digits (`:146`); a write that fails in
  `flushOut` (`:260`) loses lines that are still counted.

Urls and pages.

* `%2F` is decoded, though the comment of `url.cc:130` keeps it (`isgraph('/')` holds,
  so the test for "/" never has one), and so are `%2E` and `%25`, behind the place where
  "/../" is looked for: "/%2E%2E/a" is asked for as "/../a"; `/..#x` and `/.#x` are not
  normalized (`Plain` leaves all these names out of `NamesResolved`, `NamesSettled` and
  `RobotsObeyed`).
* Any agent that is a part of the program's name is taken for it, "a" or "bin"
  too (`text.cc:102`, `file.cc:174`): modelled, and in the runs and theorems.
* `robotsMatch` does not come back to a `*`: `*` takes as little as it can, once.
* Several User-agent lines for one record count as records (`file.cc:162`).
* The length in `Content-Length` overflows an `int` (`file.cc:444`); a port
  wraps at 16 bits (`url.cc:477`, `PortLimit`).
* `parseTag` tests `posParse[i]` after it has added i to `posParse`
  (`file.cc:604`): short links are lost.
* `initOK` refuses links for a dns error that has expired (`url.cc:330`).

Resolver.

* `adns_globalsystemfailure` (`event.c:600`) fails the head of each queue and
  never takes it off (`Faults = {"system"}` and `Polls = TRUE`).
* `adns__search_next` after "no such name" over TCP runs into an assertion
  (`transmit.c:229`; `SearchNames = 2`).
* A ptr query with two children: the query that the loop of `server_broken`
  saved may be freed by the failure of the one before it (`event.c:227`;
  `MaxKids = 2` with `ptr`).
* After a write of one byte `adns__querysend_tcp` appends 2-wr bytes from "length"
  and not from "length+wr" (`transmit.c:202`): modelled, and excepted by
  `QueriesWhole` (`torn`). `adns/internal.h:384` says the query is sent, or the
  connection breaks.
* Retries are not bounded when `connect` fails at once (`Faults = {"connect"}`).
  A server that truncates over TCP is asked again and again, each time with its
  retries at zero (`"tcp_tc"`).
* `adns__query_done` takes a parent off `childw` in the one case (no memory)
  where it may not be on it.
* The descriptors given to adns_afterpoll may belong to a connection that is
  gone: modelled, `adns_answers` shows that the queries are answered all the
  same.


## 7. Plan

Done: the crawler thread, its history, the fifos, the crawlers, the shared
interval, the resolver and its stream, urls, robots.txt and pages; the proofs
above. What would come next:

1. Patterns: `robotsMatch` on rules with a "*" inside them, against the set of
   names they stand for, and files whose records are not well written.
2. `SearchTogether`, `OncePerFinder` and the routing of urls as a refinement of
   an abstract set of urls that are found and crawled.
3. `ConstantSizedFifo` and `SyncFifo` with several threads; the connect path
   with `stataddr`, and the mirror save.
4. `Adns` below `CrawlerThread` in one run, instead of its free choice of
   answers.
