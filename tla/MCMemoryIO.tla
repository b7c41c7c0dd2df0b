----------------------------- MODULE MCMemoryIO -----------------------------
(* A small instance of MemoryIO for TLC: the sizes of the code scaled down, *)
(* so that every branch of the growth of a buffer is taken.                 *)
EXTENDS MemoryIO

BackAndForth == {-2, 0, 1}
=============================================================================
