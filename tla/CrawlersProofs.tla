--------------------------- MODULE CrawlersProofs ---------------------------
(***************************************************************************)
(* The rendezvous of the crawlers (rendezvous.cc), for any number of them: *)
(* nobody whose wait returns only when signalled searches before all have  *)
(* met.  meet decides by its counter, so the invariant says what the       *)
(* counter counts: the threads that have called meet, those that wait and  *)
(* those whose wait returned without a signal.                             *)
(* Then the urls they find (checker.cc): the owner of a hash code has as   *)
(* many copies of its urls as there are crawlers that have found one and   *)
(* could hand it on.                                                       *)
(***************************************************************************)
EXTENDS Crawlers, FiniteSetTheorems, SequenceTheorems, TLAPS

Called == {c \in Crawlers : pc[c] \in {"waiting", "searching"}}

\* What main has done: a crawler has a thread exactly when it is created.
Threads ==
    /\ created \in 0..NrCrawler
    /\ pc \in [Crawlers -> {"none", "starting", "waiting", "searching"}]
    /\ \A c \in Crawlers : pc[c] = "none" <=> c >= created

\* Before they have all met, the counter is what is left after those that have
\* called meet, and only an unsignalled one searches.
Meeting ==
    /\ count = NrCrawler - Cardinality(Called)
    /\ \A c \in Crawlers \ Unsignalled : pc[c] # "searching"

Met == \A c \in Crawlers : pc[c] = "searching"

IInv == Threads /\ (Meeting \/ Met)

rendezvousVars == <<created, pc, count>>

-----------------------------------------------------------------------------
\* There are NrCrawler crawlers, and what is true of a set of them.
LEMMA CrawlersFinite ==
    /\ NrCrawler \in Nat \ {0}
    /\ IsFiniteSet(Crawlers) /\ Cardinality(Crawlers) = NrCrawler
    /\ 0 \in Crawlers
    /\ \A S \in SUBSET Crawlers : IsFiniteSet(S) /\ Cardinality(S) \in Nat
  <1>1. NrCrawler \in Nat \ {0}
    BY CrawlersAssumption
  <1>2. IsFiniteSet(Crawlers) /\ Cardinality(Crawlers) = NrCrawler
    <2>1. 0 \in Int /\ NrCrawler - 1 \in Int /\ ~(0 > NrCrawler - 1)
          /\ (NrCrawler - 1) - 0 + 1 = NrCrawler
      BY <1>1
    <2>2. IsFiniteSet(0..NrCrawler - 1)
          /\ Cardinality(0..NrCrawler - 1)
               = IF 0 > NrCrawler - 1 THEN 0 ELSE (NrCrawler - 1) - 0 + 1
      BY ONLY <2>1, FS_Interval
    <2> QED BY <2>1, <2>2 DEF Crawlers
  <1>3. 0 \in Crawlers
    BY <1>1 DEF Crawlers
  <1>4. ASSUME NEW S \in SUBSET Crawlers
        PROVE  IsFiniteSet(S) /\ Cardinality(S) \in Nat
    BY <1>2, FS_Subset, FS_CardinalityType
  <1> QED BY <1>1, <1>2, <1>3, <1>4

\* In the beginning there is no crawler, and none has called meet.
LEMMA InitIInv == Init => IInv
  <1> SUFFICES ASSUME Init PROVE IInv
    OBVIOUS
  <1>1. Threads
    BY CrawlersFinite DEF Init, Threads, Crawlers
  <1>2. Called = {}
    BY DEF Init, Called
  <1>3. Cardinality(Called) = 0
    BY <1>2, FS_EmptySet
  <1>4. Meeting
    BY <1>3, CrawlersFinite DEF Init, Meeting
  <1> QED BY <1>1, <1>4 DEF IInv

\* main starts the thread of a crawler: it has not called meet yet.
LEMMA StartThreadIInv ==
    ASSUME IInv, StartThread
    PROVE  IInv'
  <1>1. /\ created \in Crawlers /\ created \in Nat /\ pc[created] = "none"
        /\ created' = created + 1 /\ count' = count
        /\ pc' = [pc EXCEPT ![created] = "starting"]
    BY CrawlersFinite DEF IInv, Threads, StartThread, Crawlers
  <1>2. Threads'
    BY <1>1, CrawlersFinite DEF IInv, Threads, StartThread, Crawlers
  <1>3. Meeting
    <2>1. pc[created] # "searching"
      BY <1>1
    <2> QED BY <1>1, <2>1 DEF IInv, Met
  <1>4. Called' = Called
    BY <1>1 DEF IInv, Threads, Called
  <1>5. Meeting'
    <2>1. count' = NrCrawler - Cardinality(Called')
      BY <1>1, <1>3, <1>4 DEF Meeting
    <2>2. \A c \in Crawlers \ Unsignalled : pc'[c] # "searching"
      BY <1>1, <1>3 DEF IInv, Threads, Meeting
    <2> QED BY <2>1, <2>2 DEF Meeting, Called
  <1> QED BY <1>2, <1>5 DEF IInv

\* A thread that calls meet is the first time there, before they have all met.
LEMMA StartingMeets ==
    ASSUME IInv, NEW c \in Crawlers, pc[c] = "starting"
    PROVE  Meeting /\ c \notin Called
  BY DEF IInv, Met, Called

\* One more thread has called meet.
LEMMA MeetWaitsIInv ==
    ASSUME IInv, NEW c \in Crawlers, MeetWaits(c)
    PROVE  IInv'
  <1>1. /\ pc[c] = "starting" /\ created' = created /\ count' = count - 1
        /\ pc' = [pc EXCEPT ![c] = "waiting"]
    BY DEF MeetWaits
  <1>2. Meeting /\ c \notin Called
    BY <1>1, StartingMeets
  <1>3. Threads'
    BY <1>1 DEF IInv, Threads, Crawlers
  <1>4. Called' = Called \cup {c}
    BY <1>1 DEF IInv, Threads, Called
  <1>5. Cardinality(Called) \in Nat
        /\ Cardinality(Called \cup {c}) = Cardinality(Called) + 1
    <2>1. Called \in SUBSET Crawlers
      BY DEF Called
    <2>2. IsFiniteSet(Called) /\ Cardinality(Called) \in Nat
      BY <2>1, CrawlersFinite
    <2>3. Cardinality(Called \cup {c})
            = IF c \in Called THEN Cardinality(Called) ELSE Cardinality(Called) + 1
      BY ONLY <2>2, FS_AddElement
    <2> QED BY <1>2, <2>2, <2>3
  <1>6. count' = NrCrawler - Cardinality(Called')
    <2>1. count = NrCrawler - Cardinality(Called) /\ NrCrawler \in Nat
      BY <1>2, CrawlersFinite DEF Meeting
    <2>2. Cardinality(Called') = Cardinality(Called) + 1
      BY <1>4, <1>5
    <2> QED BY <1>1, <1>5, <2>1, <2>2
  <1>7. \A d \in Crawlers \ Unsignalled : pc'[d] # "searching"
    BY <1>1, <1>2 DEF IInv, Threads, Meeting
  <1>8. Meeting'
    BY <1>6, <1>7 DEF Meeting, Called
  <1> QED BY <1>3, <1>8 DEF IInv

\* A wait that returns without a signal leaves the counter as it is: the thread
\* has called meet, before and after.
LEMMA WaitReturnsIInv ==
    ASSUME IInv, NEW c \in Crawlers, WaitReturns(c)
    PROVE  IInv'
  <1>1. /\ pc[c] = "waiting" /\ c \in Unsignalled
        /\ created' = created /\ count' = count
        /\ pc' = [pc EXCEPT ![c] = "searching"]
    BY DEF WaitReturns
  <1>2. Meeting
    BY <1>1 DEF IInv, Met
  <1>3. Threads'
    BY <1>1 DEF IInv, Threads
  <1>4. Called' = Called
    BY <1>1 DEF IInv, Threads, Called
  <1>5. Meeting'
    <2>1. count' = NrCrawler - Cardinality(Called')
      BY <1>1, <1>2, <1>4 DEF Meeting
    <2>2. \A d \in Crawlers \ Unsignalled : pc'[d] # "searching"
      BY <1>1, <1>2 DEF IInv, Threads, Meeting
    <2> QED BY <2>1, <2>2 DEF Meeting, Called
  <1> QED BY <1>3, <1>5 DEF IInv

\* The last one finds that all the others have called meet, and wakes those that
\* still wait.
LEMMA MeetLastIInv ==
    ASSUME IInv, NEW c \in Crawlers, MeetLast(c)
    PROVE  IInv'
  <1>1. /\ pc[c] = "starting" /\ count <= 1 /\ created' = created
        /\ pc' = [d \in Crawlers |-> IF d \in Woken(c) THEN "searching" ELSE pc[d]]
    BY DEF MeetLast, LastToMeet
  <1>2. Meeting /\ c \notin Called
    BY <1>1, StartingMeets
  <1> DEFINE Others == Crawlers \ {c}
  <1>3. IsFiniteSet(Others) /\ Cardinality(Others) = NrCrawler - 1
    BY CrawlersFinite, FS_RemoveElement
  <1>4. Called = Others
    <2>1. Called \in SUBSET Others
      BY <1>2 DEF Called
    <2>2. Cardinality(Called) \in Nat
      BY <2>1, CrawlersFinite
    <2>3. Cardinality(Called) <= Cardinality(Others)
          /\ (Cardinality(Others) = Cardinality(Called) => Others = Called)
      BY ONLY <1>3, <2>1, FS_Subset
    <2>4. Cardinality(Called) >= NrCrawler - 1
      BY <1>1, <1>2, <2>2, CrawlersFinite DEF Meeting
    <2>5. Cardinality(Others) = Cardinality(Called)
      BY <1>3, <2>2, <2>3, <2>4, CrawlersFinite
    <2> QED BY <2>3, <2>5
  <1>5. \A d \in Crawlers : d \in Woken(c) \/ pc[d] = "searching"
    BY <1>4 DEF Woken, Called
  <1>6. pc' = [d \in Crawlers |-> "searching"]
    BY <1>1, <1>5
  <1>7. created = NrCrawler
    <2>1. \A d \in Crawlers : pc[d] # "none"
      BY <1>1, <1>4 DEF Called
    <2>2. \A d \in Crawlers : d < created
      BY <2>1, CrawlersFinite DEF IInv, Threads, Crawlers
    <2>3. NrCrawler - 1 \in Crawlers
      BY CrawlersFinite DEF Crawlers
    <2> QED BY <2>2, <2>3, CrawlersFinite DEF IInv, Threads
  <1>8. Threads'
    BY <1>1, <1>6, <1>7, CrawlersFinite DEF Threads, Crawlers
  <1>9. Met'
    BY <1>6 DEF Met
  <1> QED BY <1>8, <1>9 DEF IInv

\* No other step touches the rendezvous.
LEMMA OthersIInv ==
    ASSUME IInv, UNCHANGED rendezvousVars
    PROVE  IInv'
  BY DEF IInv, Threads, Meeting, Met, Called, rendezvousVars

LEMMA StepIInv == IInv /\ [Next]_vars => IInv'
  <1> SUFFICES ASSUME IInv, [Next]_vars PROVE IInv'
    OBVIOUS
  <1>1. CASE ParseStartUrl
    BY <1>1, OthersIInv DEF ParseStartUrl, rendezvousVars
  <1>2. CASE StartThread
    BY <1>2, StartThreadIInv
  <1>3. CASE \E c \in Crawlers : MeetWaits(c)
    BY <1>3, MeetWaitsIInv
  <1>4. CASE \E c \in Crawlers : MeetLast(c)
    BY <1>4, MeetLastIInv
  <1>5. CASE \E c \in Crawlers : WaitReturns(c)
    BY <1>5, WaitReturnsIInv
  <1>6. CASE \E c \in Crawlers : SearchNext(c)
    BY <1>6, OthersIInv DEF SearchNext, TakeUrl, ParsePage, CheckLink, rendezvousVars
  <1>7. CASE UNCHANGED vars
    BY <1>7, OthersIInv DEF vars, rendezvousVars
  <1> QED BY <1>1, <1>2, <1>3, <1>4, <1>5, <1>6, <1>7 DEF Next, MainNext, MeetNext

LEMMA IInvSearchTogether == IInv => SearchTogether
  <1> SUFFICES ASSUME IInv, NEW c \in Crawlers \ Unsignalled, pc[c] = "searching"
               PROVE  created = NrCrawler /\ \A d \in Crawlers : pc[d] = "searching"
    BY DEF SearchTogether
  <1>1. Met
    BY DEF IInv, Meeting
  <1>2. NrCrawler - 1 \in Crawlers /\ NrCrawler \in Nat
    BY CrawlersFinite DEF Crawlers
  <1>3. ~(NrCrawler - 1 >= created)
    BY <1>1, <1>2 DEF IInv, Threads, Met
  <1> QED BY <1>1, <1>2, <1>3 DEF IInv, Threads, Met

\* A crawler whose wait returns only when signalled searches only when every
\* crawler is created and has met the others (Rendezvous::meet), for any number
\* of crawlers and of start urls, and whichever other waits return by themselves.
THEOREM CrawlersSearchTogether == Spec => []SearchTogether
  BY InitIInv, StepIInv, IInvSearchTogether, PTL DEF Spec

-----------------------------------------------------------------------------
(* The urls found: the copies a crawler gets of them *)

\* What the search keeps in each crawler.
SearchTypes ==
    /\ parsed \in 0..Len(StartUrls)
    /\ seen \in [Crawlers -> SUBSET Nat]
    /\ disk \in [Crawlers -> Seq(Urls)]
    /\ memory \in [Crawlers -> [Urls -> Nat]]
    /\ links \in [Crawlers -> Seq(Urls)]
    /\ done \in [Crawlers -> [Urls -> Nat]]
    /\ \A c \in Crawlers, h \in Nat : <<c, h>> \in dropped => h \in seen[c]

\* The crawlers that have found a url of hash code h, and handed it on.
Finders(h) == {c \in Crawlers : h \in seen[c] /\ <<c, h>> \notin dropped}

\* One copy for each finder.
Counted(h) ==
    /\ IsFiniteSet(Copies(Owner(h), h))
    /\ Cardinality(Copies(Owner(h), h)) = Cardinality(Finders(h))

\* The virtual nodes are divided among the crawlers: every hash code has an
\* owner, and a pointer to it (map and crawlers[], global.cc).
LEMMA OwnerIsCrawler ==
    ASSUME NEW h \in Nat
    PROVE  Owner(h) \in Crawlers
  <1> DEFINE K == NrVNode \div NrCrawler
             i == h % NrVNode
             q == i \div K
  <1>1. NrCrawler \in Nat \ {0} /\ NrVNode \in Nat \ {0} /\ NrVNode % NrCrawler = 0
    BY CrawlersAssumption
  <1>2. K \in Nat /\ NrVNode = NrCrawler * K
    BY <1>1
  <1>3. K > 0
    BY <1>1, <1>2
  <1>4. i \in 0..NrVNode - 1
    BY <1>1
  <1> HIDE DEF K, i
  <1>5. q \in Nat /\ K * q <= i
    BY <1>2, <1>3, <1>4
  <1>6. q < NrCrawler
    BY <1>1, <1>2, <1>3, <1>4, <1>5
  <1>7. Owner(h) = q
    BY <1>4 DEF Owner, map, K, i
  <1> QED BY <1>1, <1>5, <1>6, <1>7 DEF Crawlers

\* A set that goes one to one onto a finite set is finite, and as large.
LEMMA OneToOne ==
    ASSUME NEW S, NEW T, IsFiniteSet(T), NEW f \in [S -> T],
           \A x, y \in S : f[x] = f[y] => x = y,
           \A y \in T : \E x \in S : f[x] = y
    PROVE  IsFiniteSet(S) /\ Cardinality(S) = Cardinality(T)
  <1>1. f \in Injection(S, T)
    BY DEF Injection, IsInjective
  <1>2. f \in Surjection(S, T)
    BY DEF Surjection
  <1> QED BY <1>1, <1>2, FS_Injection, Zenon

\* What Counted says is kept when the copies are as many.
LEMMA AsManyCopies ==
    ASSUME NEW h, Counted(h), UNCHANGED <<seen, dropped>>,
           IsFiniteSet(Copies(Owner(h), h)'),
           Cardinality(Copies(Owner(h), h)') = Cardinality(Copies(Owner(h), h))
    PROVE  Counted(h)'
  BY DEF Counted, Finders

\* check puts a url on the disk of its owner exactly when the crawler that found
\* it becomes one more finder of it (testSet before put).
LEMMA CheckCounted ==
    ASSUME SearchTypes, \A h \in Hashes : Counted(h),
           NEW c \in Crawlers, NEW u \in Urls, check(c, u), UNCHANGED <<memory, done>>
    PROVE  \A h \in Hashes : Counted(h)'
  <1> DEFINE o == Owner(Hash[u])
             puts == Hash[u] \notin seen[c] /\ Reachable(c, o)
  <1>1. Hash[u] \in Nat /\ o \in Crawlers /\ seen[c] \in SUBSET Nat /\ disk[o] \in Seq(Urls)
    BY CrawlersAssumption, OwnerIsCrawler DEF SearchTypes
  <1>2. \A d \in Crawlers : seen'[d] = IF d = c THEN seen[d] \cup {Hash[u]} ELSE seen[d]
    BY DEF check, TestedSet, SearchTypes
  <1>3. /\ disk' = IF puts THEN [disk EXCEPT ![o] = Append(@, u)] ELSE disk
        /\ dropped' = IF Hash[u] \notin seen[c] /\ ~puts
                        THEN dropped \cup {<<c, Hash[u]>>} ELSE dropped
    BY DEF check, Route
  <1> SUFFICES ASSUME NEW h \in Hashes PROVE Counted(h)'
    OBVIOUS
  <1>4. h \in Nat /\ Owner(h) \in Crawlers
    BY CrawlersAssumption, OwnerIsCrawler DEF Hashes
  <1>5. /\ Finders(h) \in SUBSET Crawlers /\ IsFiniteSet(Finders(h))
        /\ Cardinality(Finders(h)) \in Nat
    BY CrawlersFinite DEF Finders
  <1>6. /\ IsFiniteSet(Copies(Owner(h), h))
        /\ Cardinality(Copies(Owner(h), h)) = Cardinality(Finders(h))
    BY DEF Counted
  <1> DEFINE q == disk[o]
  <1>7. /\ DOMAIN q = 1..Len(q) /\ Len(q) \in Nat
        /\ DOMAIN Append(q, u) = 1..(Len(q) + 1)
        /\ \A k \in 1..Len(q) : Append(q, u)[k] = q[k]
        /\ Append(q, u)[Len(q) + 1] = u
    BY <1>1, LenProperties
  <1>8. CASE puts /\ h = Hash[u]
    <2>1. Finders(h)' = Finders(h) \cup {c} /\ c \notin Finders(h)
      BY <1>2, <1>3, <1>4, <1>8 DEF Finders, SearchTypes
    <2>2. Cardinality(Finders(h)') = Cardinality(Finders(h)) + 1
      <3>1. Cardinality(Finders(h) \cup {c})
              = IF c \in Finders(h) THEN Cardinality(Finders(h)) ELSE Cardinality(Finders(h)) + 1
        BY ONLY <1>5, FS_AddElement
      <3> QED BY <2>1, <3>1
    <2> DEFINE new == <<"disk", Len(q) + 1>>
    <2>3. Owner(h) = o /\ disk'[o] = Append(q, u)
      BY <1>1, <1>3, <1>8 DEF SearchTypes
    <2>4. OnDisk(o, h)' = OnDisk(o, h) \cup {new} /\ new \notin OnDisk(o, h)
      BY <1>7, <1>8, <2>3 DEF OnDisk
    <2>5. /\ Copies(o, h)' = Copies(o, h) \cup {new}
          /\ new \notin Copies(o, h)
      BY <2>4 DEF Copies, InMemory, Parsed
    <2> HIDE DEF new, o
    <2>6. /\ IsFiniteSet(Copies(o, h)')
          /\ Cardinality(Copies(o, h)') = Cardinality(Copies(o, h)) + 1
      <3>1. IsFiniteSet(Copies(o, h))
        BY <1>6, <2>3
      <3>2. /\ IsFiniteSet(Copies(o, h) \cup {new})
            /\ Cardinality(Copies(o, h) \cup {new})
                 = IF new \in Copies(o, h) THEN Cardinality(Copies(o, h))
                                           ELSE Cardinality(Copies(o, h)) + 1
        BY ONLY <3>1, FS_AddElement
      <3> QED BY <2>5, <3>2
    <2>7. Copies(Owner(h), h)' = Copies(o, h)' /\ Copies(Owner(h), h) = Copies(o, h)
      BY <2>3 DEF o, Copies, OnDisk, InMemory, Parsed
    <2> QED BY <1>6, <2>2, <2>6, <2>7 DEF Counted
  <1>9. CASE ~(puts /\ h = Hash[u])
    <2>1. Finders(h)' = Finders(h)
      BY <1>2, <1>3, <1>4, <1>9 DEF Finders, SearchTypes
    <2>2. OnDisk(Owner(h), h)' = OnDisk(Owner(h), h)
      <3>1. CASE ~puts
        BY <1>3, <3>1 DEF OnDisk
      <3>2. CASE puts /\ h # Hash[u]
        <4>1. disk'[Owner(h)] = IF Owner(h) = o THEN Append(q, u) ELSE disk[Owner(h)]
          BY <1>1, <1>3, <1>4, <3>2 DEF SearchTypes
        <4> HIDE DEF o, puts
        <4>2. CASE Owner(h) = o
          BY <1>7, <3>2, <4>1, <4>2 DEF OnDisk
        <4>3. CASE Owner(h) # o
          BY <4>1, <4>3 DEF OnDisk
        <4> QED BY <4>2, <4>3
      <3> QED BY <1>9, <3>1, <3>2
    <2>3. Copies(Owner(h), h)' = Copies(Owner(h), h)
      BY <2>2 DEF Copies, InMemory, Parsed
    <2> QED BY <1>6, <2>1, <2>3 DEF Counted
  <1> QED BY <1>8, <1>9

\* The sequencer moves one copy from the disk to the memory: the copies behind
\* it come one cell nearer.
LEMMA TakeUrlCounted ==
    ASSUME SearchTypes, NEW h \in Hashes, Counted(h), NEW c \in Crawlers, TakeUrl(c)
    PROVE  Counted(h)'
  <1> DEFINE o == Owner(h)
             q == disk[c]
             u == Head(q)
             m == memory[c][u]
             S == Copies(o, h)'
             T == Copies(o, h)
  <1>1. o \in Crawlers
    BY CrawlersAssumption, OwnerIsCrawler DEF Hashes
  <1>2. q \in Seq(Urls) /\ q # <<>>
    BY DEF TakeUrl, SearchTypes
  <1>3. /\ DOMAIN q = 1..Len(q) /\ Len(q) \in Nat \ {0} /\ u = q[1] /\ u \in Urls
        /\ DOMAIN Tail(q) = 1..(Len(q) - 1)
        /\ \A k \in 1..(Len(q) - 1) : Tail(q)[k] = q[k + 1]
    BY <1>2
  <1>4. m \in Nat
    BY <1>3 DEF SearchTypes
  <1>5. CASE c # o
    <2>1. disk'[o] = disk[o] /\ memory'[o] = memory[o] /\ done'[o] = done[o]
      BY <1>1, <1>5 DEF TakeUrl, SearchTypes
    <2>2. S = T
      BY <2>1 DEF Copies, OnDisk, InMemory, Parsed
    <2>3. IsFiniteSet(S) /\ Cardinality(S) = Cardinality(T)
      BY <2>2, FS_CardinalityType DEF Counted
    <2> QED BY <2>3, AsManyCopies DEF TakeUrl
  <1>6. CASE c = o
    <2>1. /\ disk'[o] = Tail(q) /\ done'[o] = done[o]
          /\ \A v \in Urls : memory'[o][v] = IF v = u THEN m + 1 ELSE memory[o][v]
      BY <1>1, <1>3, <1>6 DEF TakeUrl, SearchTypes
    <2> DEFINE new == <<"memory", u, m + 1>>
               back(x) == IF x = new THEN <<"disk", 1>>
                          ELSE IF x \in OnDisk(o, h)' THEN <<"disk", x[2] + 1>> ELSE x
               f == [x \in S |-> back(x)]
    <2>2. \A x \in OnDisk(o, h)' : \E k \in 1..(Len(q) - 1) :
             x = <<"disk", k>> /\ <<"disk", k + 1>> \in OnDisk(o, h)
      BY <1>3, <1>6, <2>1 DEF OnDisk
    <2>3. \A x \in S : \/ x \in OnDisk(o, h)'
                       \/ x = new /\ Hash[u] = h
                       \/ x \in T \ OnDisk(o, h) /\ x # new /\ x[1] # "disk"
      <3>1. ASSUME NEW v \in Urls, Hash[v] = h, NEW x \in InMemory(o, v)'
            PROVE  \/ x = new /\ Hash[u] = h
                   \/ x \in InMemory(o, v) /\ x # new
        <4>1. PICK n \in 1..memory'[o][v] : x = <<"memory", v, n>>
          BY <3>1 DEF InMemory
        <4> QED BY <1>3, <1>4, <1>6, <2>1, <3>1, <4>1 DEF InMemory
      <3>2. ASSUME NEW v \in Urls, Hash[v] = h, NEW x \in Parsed(o, v)'
            PROVE  x \in Parsed(o, v) /\ x # new
        BY <2>1, <3>2 DEF Parsed
      <3>3. \A v, x : x \in InMemory(o, v) \/ x \in Parsed(o, v) => x[1] # "disk"
        BY DEF InMemory, Parsed
      <3>4. \A x \in OnDisk(o, h) : x[1] = "disk"
        BY DEF OnDisk
      <3> HIDE DEF new
      <3>5. ASSUME NEW x \in S, x \notin OnDisk(o, h)', ~(x = new /\ Hash[u] = h)
            PROVE  x \in T \ OnDisk(o, h) /\ x # new /\ x[1] # "disk"
        <4>1. PICK v \in Urls : Hash[v] = h /\ (x \in InMemory(o, v)' \/ x \in Parsed(o, v)')
          BY <3>5 DEF Copies
        <4>2. (x \in InMemory(o, v) \/ x \in Parsed(o, v)) /\ x # new
          BY <3>1, <3>2, <3>5, <4>1
        <4> QED BY <3>3, <3>4, <4>1, <4>2 DEF Copies
      <3> QED BY <3>5
    <2>4. OnDisk(o, h) \subseteq T /\ (Hash[u] = h => <<"disk", 1>> \in OnDisk(o, h))
      BY <1>3, <1>6 DEF Copies, OnDisk
    <2>5. \A x \in OnDisk(o, h)' : x # new
      <3>1. new[1] = "memory" /\ \A k : <<"disk", k>>[1] = "disk"
        OBVIOUS
      <3> HIDE DEF new
      <3> QED BY <2>2, <3>1
    <2>6. \A x \in S : back(x) \in T
      <3> HIDE DEF new, S, T
      <3>1. ASSUME NEW x \in OnDisk(o, h)' PROVE back(x) \in T
        <4>1. PICK k \in 1..(Len(q) - 1) : x = <<"disk", k>> /\ <<"disk", k + 1>> \in OnDisk(o, h)
          BY <2>2
        <4>2. x[2] = k
          BY <4>1
        <4>3. back(x) = <<"disk", k + 1>>
          BY <2>5, <4>2
        <4> QED BY <2>4, <4>1, <4>3
      <3>2. ASSUME NEW x \in S, x = new, Hash[u] = h PROVE back(x) \in T
        BY <2>4, <3>2
      <3>3. ASSUME NEW x \in T \ OnDisk(o, h), x # new, x \notin OnDisk(o, h)' PROVE back(x) \in T
        BY <3>3
      <3> QED BY <2>3, <3>1, <3>2, <3>3
    <2>7. \A x, y \in S : back(x) = back(y) => x = y
      <3>1. ASSUME NEW x \in OnDisk(o, h)'
            PROVE  \E k \in 1..(Len(q) - 1) : x = <<"disk", k>> /\ back(x) = <<"disk", k + 1>>
        <4>1. PICK k \in 1..(Len(q) - 1) : x = <<"disk", k>> /\ <<"disk", k + 1>> \in OnDisk(o, h)
          BY <2>2
        <4>2. x[2] = k /\ x # new
          BY <2>5, <4>1
        <4> HIDE DEF new
        <4>3. back(x) = <<"disk", k + 1>>
          BY <4>2
        <4> QED BY <4>1, <4>3
      <3>2. ASSUME NEW x \in S, x \notin OnDisk(o, h)', x # new
            PROVE  back(x) = x /\ x[1] # "disk"
        BY <2>3, <3>2
      <3>3. back(new) = <<"disk", 1>>
        OBVIOUS
      <3> HIDE DEF back, new, S, T
      <3>4. \A j, k \in Nat : <<"disk", j>> = <<"disk", k>> => j = k
        OBVIOUS
      <3>5. ASSUME NEW x \in OnDisk(o, h)', NEW y \in OnDisk(o, h)', back(x) = back(y)
            PROVE  x = y
        <4>1. PICK j \in 1..(Len(q) - 1) : x = <<"disk", j>> /\ back(x) = <<"disk", j + 1>>
          BY <3>1
        <4>2. PICK k \in 1..(Len(q) - 1) : y = <<"disk", k>> /\ back(y) = <<"disk", k + 1>>
          BY <3>1
        <4>3. j + 1 = k + 1
          BY <1>3, <3>4, <3>5, <4>1, <4>2
        <4> QED BY <1>3, <4>1, <4>2, <4>3
      <3>6. \A x \in OnDisk(o, h)' : back(x)[1] = "disk" /\ back(x) # back(new)
        BY <1>3, <3>1, <3>3
      <3> QED BY <3>2, <3>3, <3>5, <3>6
    <2>8. ASSUME NEW y \in T PROVE \E x \in S : back(x) = y
      <3>1. CASE y \in OnDisk(o, h)
        <4>1. PICK k \in 1..Len(q) : y = <<"disk", k>> /\ Hash[q[k]] = h
          BY <1>3, <1>6, <3>1 DEF OnDisk
        <4>2. CASE k = 1
          <5>1. PICK v \in Urls : v = u
            BY <1>3
          <5>2. Hash[v] = h /\ memory'[o][v] = m + 1 /\ new = <<"memory", v, m + 1>>
            BY <1>3, <2>1, <4>1, <4>2, <5>1
          <5>3. new \in InMemory(o, v)'
            BY <1>4, <5>2 DEF InMemory
          <5>4. back(new) = y
            BY <4>1, <4>2
          <5> HIDE DEF new, back
          <5>5. new \in S
            BY <5>2, <5>3 DEF Copies
          <5> QED BY <5>4, <5>5
        <4>3. CASE k # 1
          <5> DEFINE x == <<"disk", k - 1>>
          <5>1. k - 1 \in 1..(Len(q) - 1) /\ Tail(q)[k - 1] = q[k]
            BY <1>3, <4>3
          <5>2. x \in OnDisk(o, h)'
            BY <1>3, <2>1, <4>1, <5>1 DEF OnDisk
          <5>3. x \in S
            BY <5>2 DEF Copies
          <5>4. x # new /\ x[2] = k - 1
            BY <2>5, <5>2
          <5>5. back(x) = <<"disk", (k - 1) + 1>>
            BY <5>2, <5>4
          <5>6. (k - 1) + 1 = k
            BY <1>3, <4>1
          <5>7. back(x) = y
            BY <4>1, <5>5, <5>6
          <5> QED BY <5>3, <5>7
        <4> QED BY <4>2, <4>3
      <3>2. CASE y \notin OnDisk(o, h)
        <4>1. PICK v \in Urls : Hash[v] = h /\ (y \in InMemory(o, v) \/ y \in Parsed(o, v))
          BY <3>2 DEF Copies
        <4>2. (y \in InMemory(o, v)' \/ y \in Parsed(o, v)') /\ y # new
          BY <1>4, <1>6, <2>1, <4>1 DEF InMemory, Parsed
        <4>3. y[1] # "disk"
          BY <4>1 DEF InMemory, Parsed
        <4>4. y \in S
          BY <4>1, <4>2 DEF Copies
        <4>5. y \notin OnDisk(o, h)'
          BY <4>3 DEF OnDisk
        <4>6. back(y) = y
          BY <4>2, <4>5
        <4> QED BY <4>4, <4>6
      <3> QED BY <3>1, <3>2
    <2> HIDE DEF back, S, T
    <2>9. /\ f \in [S -> T]
          /\ \A x, y \in S : f[x] = f[y] => x = y
          /\ \A y \in T : \E x \in S : f[x] = y
      BY <2>6, <2>7, <2>8
    <2>10. IsFiniteSet(T)
      BY DEF Counted, T
    <2> HIDE DEF f, o
    <2>11. IsFiniteSet(S) /\ Cardinality(S) = Cardinality(T)
      BY <2>9, <2>10, OneToOne
    <2> QED BY <2>11, AsManyCopies DEF TakeUrl, S, T, o
  <1> QED BY <1>5, <1>6

\* endOfFile turns one copy in memory into one that is parsed.
LEMMA ParsePageCounted ==
    ASSUME SearchTypes, NEW h \in Hashes, Counted(h),
           NEW c \in Crawlers, NEW u \in Urls, NEW n, ParsePage(c, u, n)
    PROVE  Counted(h)'
  <1> DEFINE o == Owner(h)
             old == <<"memory", u, memory[c][u]>>
             new == <<"done", u, done[c][u] + 1>>
             S == Copies(o, h)'
             T == Copies(o, h)
             back(x) == IF x = new THEN old ELSE x
             f == [x \in S |-> back(x)]
  <1>1. o \in Crawlers
    BY CrawlersAssumption, OwnerIsCrawler DEF Hashes
  <1>2. memory[c][u] \in Nat \ {0} /\ done[c][u] \in Nat
    BY DEF ParsePage, SearchTypes
  <1>3. CASE c # o
    <2>1. disk'[o] = disk[o] /\ memory'[o] = memory[o] /\ done'[o] = done[o]
      BY <1>1, <1>3 DEF ParsePage, SearchTypes
    <2>2. S = T
      BY <2>1 DEF Copies, OnDisk, InMemory, Parsed
    <2>3. IsFiniteSet(S) /\ Cardinality(S) = Cardinality(T)
      BY <2>2, FS_CardinalityType DEF Counted
    <2> QED BY <2>3, AsManyCopies DEF ParsePage
  <1>4. CASE c = o
    <2>1. /\ disk'[o] = disk[o]
          /\ \A v \in Urls : /\ memory'[o][v] = IF v = u THEN memory[c][u] - 1 ELSE memory[o][v]
                             /\ done'[o][v] = IF v = u THEN done[c][u] + 1 ELSE done[o][v]
      BY <1>1, <1>4 DEF ParsePage, SearchTypes
    <2>2. \A v \in Urls : InMemory(o, v)' \subseteq InMemory(o, v) \ {old}
      BY <1>2, <1>4, <2>1 DEF InMemory
    <2>3. \A v \in Urls : \A x \in Parsed(o, v)' : \/ v = u /\ x = new
                                                  \/ x \in Parsed(o, v)
      BY <1>2, <1>4, <2>1 DEF Parsed
    <2>4. /\ old \in InMemory(o, u)
          /\ \A v \in Urls : old \notin Parsed(o, v)
          /\ old \notin OnDisk(o, h)
          /\ \A v \in Urls : new \notin InMemory(o, v) /\ new \notin Parsed(o, v)
          /\ new \notin OnDisk(o, h)
      BY <1>2, <1>4 DEF InMemory, Parsed, OnDisk
    <2>5. OnDisk(o, h)' = OnDisk(o, h)
      BY <2>1 DEF OnDisk
    <2> HIDE DEF old, new, o
    <2>6. ASSUME NEW x \in S PROVE \/ x = new /\ Hash[u] = h
                                   \/ x \in T \ {old, new}
      BY <2>2, <2>3, <2>4, <2>5 DEF Copies
    <2>7. Hash[u] = h => old \in T
      BY <2>4 DEF Copies
    <2>8. ASSUME NEW y \in T
          PROVE  /\ y = old => new \in S
                 /\ y # old => y \in S /\ y # new
      <3>1. \A v \in Urls : old \in InMemory(o, v) => v = u
        BY DEF old, InMemory
      <3>2. \A v \in Urls : /\ InMemory(o, v) \ {old} \subseteq InMemory(o, v)'
                            /\ Parsed(o, v) \subseteq Parsed(o, v)'
        BY <1>2, <1>4, <2>1 DEF old, InMemory, Parsed
      <3>3. new \in Parsed(o, u)'
        BY <1>2, <2>1 DEF new, Parsed
      <3>4. CASE y = old
        BY <2>4, <3>1, <3>3, <3>4 DEF Copies
      <3>5. CASE y # old
        BY <2>4, <2>5, <3>2, <3>5 DEF Copies
      <3> QED BY <3>4, <3>5
    <2> HIDE DEF S, T
    <2>9. \A x \in S : back(x) \in T
      <3>1. \A x \in S : (x = new /\ Hash[u] = h) \/ x \in T \ {new}
        BY <2>6
      <3> SUFFICES ASSUME NEW x \in S PROVE back(x) \in T
        OBVIOUS
      <3>2. CASE x = new
        BY <2>7, <3>1, <3>2
      <3>3. CASE x # new
        BY <3>1, <3>3
      <3> QED BY <3>2, <3>3
    <2>10. \A x, y \in S : back(x) = back(y) => x = y
      BY <2>6
    <2>11. ASSUME NEW y \in T PROVE \E x \in S : back(x) = y
      <3>1. CASE y = old
        BY <2>8, <3>1
      <3>2. CASE y # old
        BY <2>8, <3>2
      <3> QED BY <3>1, <3>2
    <2> HIDE DEF back
    <2>12. /\ f \in [S -> T]
           /\ \A x, y \in S : f[x] = f[y] => x = y
           /\ \A y \in T : \E x \in S : f[x] = y
      BY <2>9, <2>10, <2>11
    <2>13. IsFiniteSet(T)
      BY DEF Counted, T, o
    <2> HIDE DEF f
    <2>14. IsFiniteSet(S) /\ Cardinality(S) = Cardinality(T)
      BY <2>12, <2>13, OneToOne
    <2> QED BY <2>14, AsManyCopies DEF ParsePage, S, T, o
  <1> QED BY <1>3, <1>4

\* The search keeps its types.
LEMMA SearchTypesStep ==
    ASSUME IInv, SearchTypes, [Next]_vars
    PROVE  SearchTypes'
  <1> USE DEF SearchTypes
  <1>1. ASSUME NEW c \in Crawlers, NEW u \in Urls, check(c, u)
        PROVE  /\ seen' \in [Crawlers -> SUBSET Nat] /\ disk' \in [Crawlers -> Seq(Urls)]
               /\ \A d \in Crawlers, h \in Nat : <<d, h>> \in dropped' => h \in seen'[d]
    <2>1. seen' \in [Crawlers -> SUBSET Nat]
      BY <1>1, CrawlersAssumption DEF check, TestedSet
    <2>2. Owner(Hash[u]) \in Crawlers
      BY CrawlersAssumption, OwnerIsCrawler
    <2>3. disk' = disk \/ disk' = [disk EXCEPT ![Owner(Hash[u])] = Append(@, u)]
      BY <1>1 DEF check, Route
    <2>4. Append(disk[Owner(Hash[u])], u) \in Seq(Urls)
      BY <2>2
    <2>5. ASSUME NEW d \in Crawlers, NEW h \in Nat, <<d, h>> \in dropped' PROVE h \in seen'[d]
      <3>1. <<d, h>> \in dropped \/ (d = c /\ h = Hash[u])
        BY <1>1, <2>5 DEF check
      <3> QED BY <1>1, <3>1 DEF check, TestedSet
    <2> QED BY <2>1, <2>3, <2>4, <2>5
  <1>2. CASE ParseStartUrl
    <2>1. created \in Crawlers /\ parsed + 1 \in 1..Len(StartUrls) /\ StartUrls \in Seq(Urls)
      BY <1>2, CrawlersAssumption DEF ParseStartUrl, IInv, Threads, Crawlers
    <2>2. StartUrls[parsed + 1] \in Urls
      BY <2>1
    <2> QED BY <1>1, <1>2, <2>1, <2>2 DEF ParseStartUrl
  <1>3. CASE StartThread
    BY <1>3, CrawlersAssumption DEF StartThread
  <1>4. CASE \E c \in Crawlers : MeetNext(c) \/ WaitReturns(c)
    BY <1>4 DEF MeetNext, MeetWaits, MeetLast, WaitReturns
  <1>5. ASSUME NEW c \in Crawlers, TakeUrl(c) PROVE SearchTypes'
    <2>1. disk[c] \in Seq(Urls) /\ disk[c] # <<>>
      BY <1>5 DEF TakeUrl
    <2>2. Head(disk[c]) \in Urls /\ Tail(disk[c]) \in Seq(Urls)
      BY <2>1
    <2>3. memory[c] \in [Urls -> Nat]
      OBVIOUS
    <2>4. [memory[c] EXCEPT ![Head(disk[c])] = @ + 1] \in [Urls -> Nat]
      BY <2>2, <2>3
    <2> QED BY <1>5, <2>2, <2>4 DEF TakeUrl
  <1>6. ASSUME NEW c \in Crawlers, NEW u \in Urls, NEW n \in 0..Len(Links[u]), ParsePage(c, u, n)
        PROVE  SearchTypes'
    <2>1. Links[u] \in Seq(Urls)
      BY CrawlersAssumption
    <2>2. Found(u, n) \in Seq(Urls)
      <3>1. Len(Links[u]) \in Nat
        BY <2>1
      <3>2. SubSeq(Links[u], 1, n) \in Seq(Urls)
        BY <2>1, <3>1
      <3> QED BY <3>2 DEF Found
    <2>3. memory[c] \in [Urls -> Nat] /\ done[c] \in [Urls -> Nat] /\ memory[c][u] > 0
      BY <1>6 DEF ParsePage
    <2>4. /\ [memory[c] EXCEPT ![u] = @ - 1] \in [Urls -> Nat]
          /\ [done[c] EXCEPT ![u] = @ + 1] \in [Urls -> Nat]
      BY <2>3
    <2> QED BY <1>6, <2>2, <2>4 DEF ParsePage
  <1>7. ASSUME NEW c \in Crawlers, CheckLink(c) PROVE SearchTypes'
    <2>1. links[c] \in Seq(Urls) /\ links[c] # <<>>
      BY <1>7 DEF CheckLink
    <2>2. Head(links[c]) \in Urls /\ Tail(links[c]) \in Seq(Urls)
      BY <2>1
    <2> QED BY <1>1, <1>7, <2>2 DEF CheckLink
  <1>8. CASE UNCHANGED vars
    BY <1>8 DEF vars
  <1> QED BY <1>2, <1>3, <1>4, <1>5, <1>6, <1>7, <1>8 DEF Next, MainNext, SearchNext

\* A url comes to URLsDisk, to memory and to its parse exactly once for each
\* crawler that finds it and can hand it on, for any web, any hash codes and any
\* division of the virtual nodes: one crawler never puts a url twice, in any
\* interleaving, and none of those it puts is lost.  Two crawlers that find the
\* same url have it crawled twice.
THEOREM OneCopyPerFinder == Spec => []OncePerFinder
  <1> DEFINE J == IInv /\ SearchTypes /\ \A h \in Hashes : Counted(h)
  <1>1. Init => J
    <2> SUFFICES ASSUME Init PROVE J
      OBVIOUS
    <2>1. SearchTypes
      BY CrawlersAssumption DEF Init, SearchTypes
    <2>2. ASSUME NEW h \in Hashes PROVE Counted(h)
      <3>1. Owner(h) \in Crawlers
        BY CrawlersAssumption, OwnerIsCrawler DEF Hashes
      <3>2. Copies(Owner(h), h) = {}
        BY <3>1 DEF Init, Copies, OnDisk, InMemory, Parsed
      <3>3. Finders(h) = {}
        BY DEF Init, Finders
      <3>4. IsFiniteSet({}) /\ Cardinality({}) = 0
        BY FS_EmptySet
      <3> QED BY <3>2, <3>3, <3>4 DEF Counted
    <2> QED BY <2>1, <2>2, InitIInv
  <1>2. J /\ [Next]_vars => J'
    <2> SUFFICES ASSUME J, [Next]_vars PROVE J'
      OBVIOUS
    <2>1. IInv' /\ SearchTypes'
      BY StepIInv, SearchTypesStep
    <2> SUFFICES \A h \in Hashes : Counted(h)'
      BY <2>1 DEF Hashes
    <2>2. CASE ParseStartUrl
      <3>1. created \in Crawlers /\ parsed + 1 \in 1..Len(StartUrls) /\ StartUrls \in Seq(Urls)
        BY <2>2, CrawlersAssumption DEF ParseStartUrl, IInv, Threads, Crawlers, SearchTypes
      <3>2. StartUrls[parsed + 1] \in Urls
        BY <3>1
      <3> QED BY <2>2, <3>1, <3>2, CheckCounted DEF ParseStartUrl
    <2>3. ASSUME NEW c \in Crawlers, CheckLink(c) PROVE \A h \in Hashes : Counted(h)'
      <3>1. links[c] \in Seq(Urls) /\ links[c] # <<>>
        BY <2>3 DEF CheckLink, SearchTypes
      <3>2. Head(links[c]) \in Urls
        BY <3>1
      <3> QED BY <2>3, <3>2, CheckCounted DEF CheckLink
    <2>4. CASE StartThread \/ (\E c \in Crawlers : MeetNext(c) \/ WaitReturns(c))
                \/ UNCHANGED vars
      <3>1. UNCHANGED <<seen, disk, memory, done, dropped>>
        BY <2>4 DEF StartThread, MeetNext, MeetWaits, MeetLast, WaitReturns, vars
      <3> QED BY <3>1 DEF Counted, Copies, OnDisk, InMemory, Parsed, Finders
    <2> QED BY <2>2, <2>3, <2>4, TakeUrlCounted, ParsePageCounted DEF Next, MainNext, SearchNext
  <1>3. J => OncePerFinder
    BY DEF OncePerFinder, Counted, Finders
  <1> QED BY <1>1, <1>2, <1>3, PTL DEF Spec
=============================================================================
