--------------------------- MODULE MCKeyRotation ---------------------------
(***************************************************************************)
(* Small instances of KeyRotation for TLC: two rotating threads, one       *)
(* signing thread, since signers do not see each other, and enough keys    *)
(* for the oldest to be pruned twice and for a rotation after an overlap.  *)
(***************************************************************************)
EXTENDS KeyRotation

\* The rotating threads are alike.
Alike == Permutations(Rotators)
=============================================================================
