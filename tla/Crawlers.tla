------------------------------ MODULE Crawlers ------------------------------
(***************************************************************************)
(* The crawlers of one process (main.cc): main creates them one by one,    *)
(* their threads wait for one another (rendezvous.cc), and then each one   *)
(* crawls the urls of its own virtual nodes and hands the links it finds   *)
(* to the crawler that owns them (checker.cc, hashTable.cc).               *)
(*                                                                         *)
(* What a crawler does between taking a url from URLsDisk and parsing its  *)
(* page is the module CrawlerThread.  Here the page stays in memory, and   *)
(* is parsed later, with the links found before its end, an error or the   *)
(* depth limit: some prefix of Links[u], possibly none.                    *)
(***************************************************************************)
EXTENDS Integers, Sequences, FiniteSets, SequencesExt

CONSTANTS
    NrCrawler, NrVNode,     \* nrCrawler, nrVNode
    Urls,
    Hash,                   \* hashCode of a url
    Links,                  \* the links of a page that pass the filters
    StartUrls,              \* the startUrls of larbin.conf, in order
    Unsignalled             \* the threads whose pthread_cond_wait may return
                            \* without a signal (POSIX allows all of them)

ASSUME CrawlersAssumption ==
    /\ NrCrawler \in Nat \ {0} /\ NrVNode \in Nat \ {0}
    \* 12 and 3: map[i] = i / cNodes is a crawler
    /\ NrVNode % NrCrawler = 0
    /\ Hash \in [Urls -> Nat]
    /\ Links \in [Urls -> Seq(Urls)]
    /\ StartUrls \in Seq(Urls)
    /\ Unsignalled \subseteq 0..NrCrawler - 1

VARIABLES
    created,    \* crawlers[c] is set for c < created
    parsed,     \* startUrls crawler "created", under construction, has read
    pc,         \* what the thread of each crawler does
    count,      \* Rendezvous::count
    seen,       \* the hash codes in the table of each crawler
    disk,       \* URLsDisk of each crawler
    memory,     \* how many times each crawler has each url in memory
    links,      \* the links not checked yet of the page being parsed
    done,       \* how many times each crawler has parsed each url
    dropped     \* history: <<c, h>>, of which c said "Wrong Crawler pointer"

vars == <<created, parsed, pc, count, seen, disk, memory, links, done, dropped>>

Crawlers == 0..NrCrawler - 1
Hashes == {Hash[u] : u \in Urls}

\* Virtual node --> crawler
map == [i \in 0..NrVNode - 1 |-> i \div (NrVNode \div NrCrawler)]
Owner(h) == map[h % NrVNode]

Init ==
    /\ created = 0 /\ parsed = 0
    /\ pc = [c \in Crawlers |-> "none"]
    /\ count = NrCrawler
    /\ seen = [c \in Crawlers |-> {}]
    /\ disk = [c \in Crawlers |-> <<>>]
    /\ memory = [c \in Crawlers |-> [u \in Urls |-> 0]]
    /\ links = [c \in Crawlers |-> <<>>]
    /\ done = [c \in Crawlers |-> [u \in Urls |-> 0]]
    /\ dropped = {}

-----------------------------------------------------------------------------
(* checker.cc *)

\* Mutant: testSet tests and does not set
TestedNotSet(c, u) == seen

\* testSet: the bit of u is set in the table of c
TestedSet(c, u) == [seen EXCEPT ![c] = @ \cup {Hash[u]}]

\* The crawler that is to have u
Route(c, u) == Owner(Hash[u])

\* Mutant: only this crawler's own urls reach a URLsDisk
ReachableOwn(c, o) == o = c

\* The crawler c may put a url in URLsDisk of o: it is itself, or the pointer
\* crawlers[o] is set
Reachable(c, o) == o = c \/ o < created

\* check: a url whose bit is set is deleted, and so is one for a crawler not
\* created ("Wrong Crawler pointer"); the others go to their crawler's disk
check(c, u) ==
    LET o == Route(c, u)
        new == Hash[u] \notin seen[c]
    IN  /\ seen' = TestedSet(c, u)
        /\ disk' = IF new /\ Reachable(c, o)
                     THEN [disk EXCEPT ![o] = Append(@, u)] ELSE disk
        /\ dropped' = IF new /\ ~Reachable(c, o)
                        THEN dropped \cup {<<c, Hash[u]>>} ELSE dropped

-----------------------------------------------------------------------------
(* main, and the constructor of Crawler *)

\* parseFile, in the constructor of the next crawler: check a startUrl
ParseStartUrl ==
    /\ created < NrCrawler
    /\ parsed < Len(StartUrls)
    /\ check(created, StartUrls[parsed + 1])
    /\ parsed' = parsed + 1
    /\ UNCHANGED <<created, pc, count, memory, links, done>>

\* The constructor returns, crawlers[i] is set and the thread is started
StartThread ==
    /\ created < NrCrawler
    /\ parsed = Len(StartUrls)
    /\ created' = created + 1
    /\ parsed' = 0
    /\ pc' = [pc EXCEPT ![created] = "starting"]
    /\ UNCHANGED <<count, seen, disk, memory, links, done, dropped>>

-----------------------------------------------------------------------------
(* rendezvous.cc (nobody calls force, reset or forceAndReset) *)

\* Mutant: the last but one is taken for the last
LastToMeetEarly == count <= 2

\* After count--, there is nobody left to wait for
LastToMeet == count <= 1

\* Mutant: the threads that wait are not woken
WokenSelf(c) == {c}

\* pthread_cond_broadcast wakes every thread that waits
Woken(c) == {c} \cup {d \in Crawlers : pc[d] = "waiting"}

\* meet: wait for the others
MeetWaits(c) ==
    /\ pc[c] = "starting"
    /\ ~LastToMeet
    /\ count' = count - 1
    /\ pc' = [pc EXCEPT ![c] = "waiting"]
    /\ UNCHANGED <<created, parsed, seen, disk, memory, links, done, dropped>>

\* The wait of meet is in no loop: when it returns without a signal, so does
\* meet
WaitReturns(c) ==
    /\ c \in Unsignalled
    /\ pc[c] = "waiting"
    /\ pc' = [pc EXCEPT ![c] = "searching"]
    /\ UNCHANGED <<created, parsed, count, seen, disk, memory, links, done, dropped>>

\* meet of the last one
MeetLast(c) ==
    /\ pc[c] = "starting"
    /\ LastToMeet
    /\ count' = NrCrawler
    /\ pc' = [d \in Crawlers |-> IF d \in Woken(c) THEN "searching" ELSE pc[d]]
    /\ UNCHANGED <<created, parsed, seen, disk, memory, links, done, dropped>>

-----------------------------------------------------------------------------
(* The search: the thread of c is in its main loop *)

\* sequencer: the next url of URLsDisk is taken to memory
TakeUrl(c) ==
    /\ pc[c] = "searching" /\ links[c] = <<>>
    /\ disk[c] # <<>>
    /\ memory' = [memory EXCEPT ![c][Head(disk[c])] = @ + 1]
    /\ disk' = [disk EXCEPT ![c] = Tail(@)]
    /\ UNCHANGED <<created, parsed, pc, count, seen, links, done, dropped>>

\* parseHtml: the first n links of the page
Found(u, n) == SubSeq(Links[u], 1, n)

\* endOfFile of some url in memory: n links were found (0: it was forgotten)
ParsePage(c, u, n) ==
    /\ pc[c] = "searching" /\ links[c] = <<>>
    /\ memory[c][u] > 0
    /\ memory' = [memory EXCEPT ![c][u] = @ - 1]
    /\ done' = [done EXCEPT ![c][u] = @ + 1]
    /\ links' = [links EXCEPT ![c] = Found(u, n)]
    /\ UNCHANGED <<created, parsed, pc, count, seen, disk, dropped>>

\* manageUrl: check the next link of the page
CheckLink(c) ==
    /\ links[c] # <<>>
    /\ check(c, Head(links[c]))
    /\ links' = [links EXCEPT ![c] = Tail(@)]
    /\ UNCHANGED <<created, parsed, pc, count, memory, done>>

MainNext == ParseStartUrl \/ StartThread

MeetNext(c) == MeetWaits(c) \/ MeetLast(c)

SearchNext(c) ==
    \/ TakeUrl(c)
    \/ \E u \in Urls : \E n \in 0..Len(Links[u]) : ParsePage(c, u, n)
    \/ CheckLink(c)

Next == MainNext \/ \E c \in Crawlers : MeetNext(c) \/ WaitReturns(c) \/ SearchNext(c)

Spec == Init /\ [][Next]_vars

\* main and every thread run; no wait has to return without a signal
FairSpec ==
    /\ Spec
    /\ WF_vars(MainNext)
    /\ \A c \in Crawlers : WF_vars(MeetNext(c)) /\ WF_vars(SearchNext(c))

-----------------------------------------------------------------------------
\* The copies a crawler has, or has had, of the urls of hash code h: in the
\* cells of URLsDisk, in memory and parsed
OnDisk(c, h) == {<<"disk", k>> : k \in {j \in DOMAIN disk[c] : Hash[disk[c][j]] = h}}
InMemory(c, u) == {<<"memory", u, n>> : n \in 1..memory[c][u]}
Parsed(c, u) == {<<"done", u, n>> : n \in 1..done[c][u]}

Copies(c, h) ==
    OnDisk(c, h)
      \cup (UNION {InMemory(c, u) \cup Parsed(c, u) : u \in {v \in Urls : Hash[v] = h}})

\* rendezvous.cc: a crawler whose wait returns only when it is signalled does
\* not search before every crawler is created and has called meet, and then all
\* search.
SearchTogether ==
    (\E c \in Crawlers \ Unsignalled : pc[c] = "searching")
      => created = NrCrawler /\ \A c \in Crawlers : pc[c] = "searching"

\* hashTable.h says of the table that it "is in charge of making sure we don't
\* crawl twice the same url".  The table is the finder's, and not the owner's
\* (checker.cc): a url is on its way exactly once for each crawler that finds it
\* and whose pointer to the owner is set, so that one crawler never has it crawled
\* twice, and two always do.
OncePerFinder ==
    \A h \in Hashes :
      Cardinality(Copies(Owner(h), h))
        = Cardinality({c \in Crawlers : h \in seen[c] /\ <<c, h>> \notin dropped})

\* Every crawler gets through the rendezvous.
AllSearch == <>(\A c \in Crawlers : pc[c] = "searching")

\* What is found is crawled, whichever crawler finds it and when, if its wait in
\* meet ended with a signal: one that searches early loses the links to crawlers
\* that are not created ("Wrong Crawler pointer").
SeenIsCrawled ==
    \A c \in Crawlers \ Unsignalled, h \in Hashes :
      h \in seen[c] ~> \E u \in Urls : Hash[u] = h /\ done[Owner(h)][u] > 0
=============================================================================
