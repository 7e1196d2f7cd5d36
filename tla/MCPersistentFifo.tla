-------------------------- MODULE MCPersistentFifo --------------------------
(* Lines of two and of three pieces, in files of three lines and buffers of  *)
(* seven pieces: lines cut anywhere, three names.                           *)
EXTENDS PersistentFifo

CONSTANTS short, long

Lengths == [u \in Items |-> IF u = short THEN 2 ELSE 3]
=============================================================================
