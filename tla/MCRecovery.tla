---------------------------- MODULE MCRecovery ----------------------------
(***************************************************************************)
(* A small instance of Recovery for TLC: two block sizes, 1 and 2, and a   *)
(* value for each.                                                         *)
(***************************************************************************)
EXTENDS Recovery, TLC

CONSTANTS s1, l1

MCDataSize == s1 :> 1 @@ l1 :> 2

KeySymmetry == Permutations(Keys)
=============================================================================
