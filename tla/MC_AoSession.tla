----------------------------- MODULE MC_AoSession -----------------------------
(***************************************************************************)
(* Instances of AoSession.                                                 *)
(***************************************************************************)
EXTENDS AoSession, TLC

CONSTANTS s1, s2

MCSymmetry == Permutations(Sessions)
=============================================================================
