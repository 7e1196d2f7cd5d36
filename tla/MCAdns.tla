------------------------------- MODULE MCAdns -------------------------------
(* Two name servers, so that a query can be sent to another one, and one send *)
(* over UDP, so that the timeout of each is an answer: the values of the code *)
(* are 5 servers at most and 15 sends.                                        *)
EXTENDS Adns
=============================================================================
