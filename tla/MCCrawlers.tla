---------------------------- MODULE MCCrawlers ----------------------------
(* A web of four pages that link to one another; p and q belong to the     *)
(* nodes of the first and of the last crawler, r and s to the second one,  *)
(* with the same hash code.  larbin.conf names q, then p.                  *)
EXTENDS Crawlers

CONSTANTS p, q, r, s

WebHash == [u \in Urls |-> CASE u = p -> 0 [] u = q -> NrVNode - 1
                             [] OTHER -> NrVNode \div NrCrawler]
WebLinks == [u \in Urls |-> CASE u = p -> <<q, r>> [] u = q -> <<s, p>>
                              [] OTHER -> <<p, q>>]
WebStart == <<q, p>>
=============================================================================
