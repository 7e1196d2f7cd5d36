-------------------------- MODULE MCCrawlerThread --------------------------
(* Small instances of CrawlerThread for TLC *)
EXTENDS CrawlerThread, TLC

CONSTANTS u1, u2, u3, u4, a, b, n

\* One slot, thread_site and forbidden_own: u1 and u2 are files of a, u3 is of
\* another host of the same slot, u4 is on another port of a
SiteHostOf == [u \in Urls |-> IF u = u3 THEN b ELSE a]
SitePortOf == [u \in Urls |-> IF u = u4 THEN 8080 ELSE 80]
SiteFileOf == [u \in Urls |-> IF u = u2 THEN "private" ELSE "index"]
SiteSlotOf == [h \in Hosts |-> 1]

\* Every url names the same file
OneFileOf == [u \in Urls |-> "index"]

\* thread_site: nothing tells u1 from u2
Twins == Permutations({u1, u2})

\* Two slots, thread_pool: a is a name, n an address in numbers and dots, and
\* b begins with a digit and is nonsense; u1 and u4 are of a
PoolHostOf == [u \in Urls |-> CASE u = u2 -> n [] u = u3 -> b [] OTHER -> a]
PoolPortOf == [u \in Urls |-> 80]
PoolSlotOf == [h \in Hosts |-> IF h = a THEN 1 ELSE 2]
=============================================================================
