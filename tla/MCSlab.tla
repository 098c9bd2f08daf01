------------------------------ MODULE MCSlab ------------------------------
(***************************************************************************)
(* A small instance of Slab for TLC: chunks of 12, 16 and 32 bytes in pages *)
(* of 32, and 4 bytes of head.                                             *)
(***************************************************************************)
EXTENDS Slab, TLC

ThreadSymmetry == Permutations(Threads)
=============================================================================
