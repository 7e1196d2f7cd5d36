---------------------------- MODULE MCAdnsStream ----------------------------
(* Messages of up to three bytes over bytes of two values: the length of a    *)
(* message of two or three bytes is in both bytes of it, and the two bytes of *)
(* the lengths 1 and 2 differ.  writev takes any number of the bytes of a     *)
(* message.                                                                   *)
EXTENDS AdnsStream
=============================================================================
