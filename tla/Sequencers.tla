----------------------------- MODULE Sequencers -----------------------------
(***************************************************************************)
(* sequencer (sequencer.cc) as the threads of all crawlers run it.  The    *)
(* interval that bounds the urls in memory (site.h) is one per crawler,    *)
(* but "space", what is left of the share taken from it, is one variable   *)
(* of the process, read and written without a lock: a load and a store of  *)
(* it are two steps, and a decrement is both.  The module CrawlerThread    *)
(* has the same function for one crawler alone.                            *)
(***************************************************************************)
EXTENDS Integers

CONSTANTS
    Crawlers,
    Size,           \* ramUrls, the size of each interval
    MaxPerCall,     \* maxPerCall
    Uint,           \* 2^32
    MaxHeld         \* bound: urls of one crawler in memory

VARIABLES
    space,
    pos,        \* Interval::pos of each crawler
    held,       \* urls each crawler has in memory
    pc,         \* where in sequencer the thread of each crawler is
    still,      \* its local variable
    loaded      \* the value of space it has just read in "space--"

vars == <<space, pos, held, pc, still, loaded>>

Init ==
    /\ space = 0
    /\ pos = [c \in Crawlers |-> 0]
    /\ held = [c \in Crawlers |-> 0]
    /\ pc = [c \in Crawlers |-> "idle"]
    /\ still = [c \in Crawlers |-> 0]
    /\ loaded = [c \in Crawlers |-> 0]

Goto(c, l) == pc' = [pc EXCEPT ![c] = l]

\* "space == 0"
Enter(c) ==
    /\ pc[c] = "idle"
    /\ Goto(c, IF space = 0 THEN "putAll" ELSE "still")
    /\ UNCHANGED <<space, pos, held, still, loaded>>

\* How many urls can we put
Answer(c) == (Size - pos[c]) % Uint

\* space = putAll()
PutAll(c) ==
    /\ pc[c] = "putAll"
    /\ space' = Answer(c)
    /\ pos' = [pos EXCEPT ![c] = Size]
    /\ Goto(c, "still")
    /\ UNCHANGED <<held, still, loaded>>

\* "int still = space", at most maxPerCall
Still(c) ==
    LET n == IF space >= Uint \div 2 THEN space - Uint ELSE space IN
    /\ pc[c] = "still"
    /\ still' = [still EXCEPT ![c] = IF n > MaxPerCall THEN MaxPerCall ELSE n]
    /\ Goto(c, IF n = 0 THEN "idle" ELSE "canGetUrl")
    /\ UNCHANGED <<space, pos, held, loaded>>

\* canGetUrl has put a url in memory, and space is loaded
CanGetUrl(c) ==
    /\ pc[c] = "canGetUrl"
    /\ held[c] < MaxHeld
    /\ held' = [held EXCEPT ![c] = @ + 1]
    /\ loaded' = [loaded EXCEPT ![c] = space]
    /\ Goto(c, "space--")
    /\ UNCHANGED <<space, pos, still>>

\* space and still are decremented
Decrement(c) ==
    /\ pc[c] = "space--"
    /\ space' = (loaded[c] - 1) % Uint
    /\ still' = [still EXCEPT ![c] = @ - 1]
    /\ Goto(c, IF still[c] = 1 THEN "idle" ELSE "canGetUrl")
    /\ UNCHANGED <<pos, held, loaded>>

\* canGetUrl: there is no url
NoUrlLeft(c) ==
    /\ pc[c] = "canGetUrl"
    /\ Goto(c, "idle")
    /\ UNCHANGED <<space, pos, held, still, loaded>>

\* getOne: later in the main loop, a url has left the memory
GetOne(c) ==
    /\ pc[c] = "idle"
    /\ held[c] > 0
    /\ held' = [held EXCEPT ![c] = @ - 1]
    /\ pos' = [pos EXCEPT ![c] = (@ - 1) % Uint]
    /\ UNCHANGED <<space, pc, still, loaded>>

Next == \E c \in Crawlers :
    \/ Enter(c) \/ PutAll(c) \/ Still(c) \/ CanGetUrl(c) \/ Decrement(c)
    \/ NoUrlLeft(c) \/ GetOne(c)

Spec == Init /\ [][Next]_vars

-----------------------------------------------------------------------------
\* site.h: putAll "answer[s] 0 if no urls can be put": when every interval
\* answers 0 and no share of them is left, there are urls in memory, whose end
\* will make room.  (If not, no crawler takes a url from its disk any more.)
ZeroOnlyWhenFull ==
    /\ space = 0
    /\ \A c \in Crawlers : pc[c] = "idle" /\ Answer(c) = 0
    => \E c \in Crawlers : held[c] > 0
=============================================================================
