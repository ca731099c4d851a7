---------------------------- MODULE MCWaitThread ----------------------------
(* A thread of up to three turns, read in pages of two. *)
EXTENDS WaitThread, TLC

CONSTANTS t1, t2, t3
=============================================================================
