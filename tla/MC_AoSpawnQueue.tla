--------------------------- MODULE MC_AoSpawnQueue ---------------------------
(***************************************************************************)
(* Instances of AoSpawnQueue: two bridges, a /batch-spawn of two jobs and  *)
(* two /spawn requests of which one repeats the fingerprint of the other.  *)
(***************************************************************************)
EXTENDS AoSpawnQueue, TLC

CONSTANTS b1, b2, c1, c2, c3, j1, j2, j3, j4, f1, f2, f3

MCJobsOf == c1 :> {j1} @@ c2 :> {j2, j3} @@ c3 :> {j4}
MCFingerprintOf == j1 :> f1 @@ j2 :> f2 @@ j3 :> f3 @@ j4 :> f1

\* The same without the second item of the batch.
MCJobsOf3 == c1 :> {j1} @@ c2 :> {j2} @@ c3 :> {j4}
MCFingerprintOf3 == j1 :> f1 @@ j2 :> f2 @@ j4 :> f1

MCSymmetry == Permutations({b1, b2})
=============================================================================
