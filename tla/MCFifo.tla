------------------------------ MODULE MCFifo ------------------------------
(* A ring that starts with one cell and grows three times *)
EXTENDS Fifo
=============================================================================
