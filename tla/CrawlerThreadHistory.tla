------------------------ MODULE CrawlerThreadHistory ------------------------
(***************************************************************************)
(* CrawlerThread with a memory of what it did to the servers, for the      *)
(* properties that relate a page to the calls made before it.  The         *)
(* variables are only written: they constrain no step of the thread.       *)
(***************************************************************************)
EXTENDS CrawlerThread

VARIABLES
    lastPage,   \* when a connexion for a page was last opened, by IP site
    at,         \* the IP site of the page of each connexion
    cleared,    \* <<host, port, ip>> whose robots.txt request ended, and not
                \* because the connexion was refused
    author      \* the host whose robots.txt may have filled id[s].forbidden:
                \* the last one that sent anything

historyVars == <<lastPage, at, cleared, author>>
hvars == <<vars, historyVars>>

HInit ==
    /\ Init
    \* far enough in the past
    /\ lastPage = [i \in IPSlots |-> 0]
    /\ at = [c \in Conns |-> NoIP]
    /\ cleared = {}
    /\ author = [s \in NamedSlots |-> NoHost]

\* The connexions this step opens for a page of i
OpenedPage(i) == {c \in Conns :
    /\ connState[c] = "emptyC" /\ connState'[c] # "emptyC"
    /\ server'[c] = NoSite /\ i = fetching}

\* The step is the end of a robots.txt request of s
RobotsEnded(s) == scanSite # s /\ scanSite' = s /\ closing' # 0

Record ==
    /\ lastPage' = [i \in IPSlots |-> IF OpenedPage(i) # {} THEN now ELSE lastPage[i]]
    /\ at' = [c \in Conns |->
         IF here'[c] = NoUrl THEN NoIP ELSE IF here[c] = NoUrl THEN fetching ELSE at[c]]
    /\ cleared' = cleared \cup
         {<<id[s].name, id[s].port, id[s].ip>> :
             s \in {t \in NamedSlots : RobotsEnded(t) /\ id'[t].dnsState = "doneDns"}}
    /\ author' = [s \in NamedSlots |->
         IF RobotsEnded(s) /\ connState[closing'] = "openC"
           THEN id[s].name ELSE author[s]]

HNext == Next /\ Record

HSpec == HInit /\ [][HNext]_hvars

-----------------------------------------------------------------------------
\* No page is asked of a server before a robots.txt request for its own host
\* and port to that same address ended otherwise than refused (site.cc,
\* robotsResult and transfer): the slot of a page may meanwhile stand for another
\* host, another port or another address.  An end is not an answer: the request
\* may have timed out, even before the connexion was there, or could not be
\* written (checkTimeout, pipeWrite: any error but noConnection).
PageCleared ==
    /\ \A i \in IPSlots : \A k \in DOMAIN tab[i] :
         <<HostOf[tab[i][k]], PortOf[tab[i][k]], i>> \in cleared
    /\ \A c \in Conns : here[c] # NoUrl =>
         <<HostOf[here[c]], PortOf[here[c]], at[c]>> \in cleared

\* Two pages are never asked of one address less than waitDuration apart,
\* whichever of fetchOpen and putUrl starts the fetch, and whether or not
\* other connections to it failed in between.
PagesSpaced ==
    [][\A i \in IPSlots :
         OpenedPage(i) # {} => now - lastPage[i] >= WaitDuration]_hvars

\* site.cc, newId: "Delete the old identity of the site".  The forbidden
\* files of a known site come from a robots.txt of the host it stands for.
ForbiddenIsOwn ==
    \A s \in NamedSlots :
      id[s].dnsState = "doneDns" /\ id[s].forbidden # {} => author[s] = id[s].name
=============================================================================
