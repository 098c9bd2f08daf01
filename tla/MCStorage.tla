----------------------------- MODULE MCStorage -----------------------------
(***************************************************************************)
(* Small instances of Storage for TLC.  Block sizes are 1 and 2; the values *)
(* s1 and s2 fit the smaller block, l1 the larger, x1 none; the size of h1 *)
(* is negative as an int when INT_MAX is 7.                                *)
(***************************************************************************)
EXTENDS Storage, TLC

CONSTANTS s1, s2, l1, x1, h1

Sizes == s1 :> 1 @@ s2 :> 1 @@ l1 :> 2 @@ x1 :> 3 @@ h1 :> 8
MCDataSize == [d \in Data |-> Sizes[d]]

WorkerSymmetry == Permutations(Workers)
=============================================================================
