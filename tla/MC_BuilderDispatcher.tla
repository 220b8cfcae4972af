------------------------ MODULE MC_BuilderDispatcher ------------------------
(***************************************************************************)
(* Instances of BuilderDispatcher: two or three events of different levels *)
(* of which two share a dedup key, two workers, two overlapping calls of    *)
(* dispatchNext.                                                            *)
(***************************************************************************)
EXTENDS BuilderDispatcher, TLC

CONSTANTS e1, e2, e3, w1, w2, l1, l2, c1, c2, c3, k1, k2, s1, s2

MCPriorityOf == e1 :> 0 @@ e2 :> 2 @@ e3 :> 3
MCCorrelationOf == e1 :> c1 @@ e2 :> c2 @@ e3 :> c3
MCKeyOf == e1 :> k1 @@ e2 :> k1 @@ e3 :> k2

\* The same for the first two events only, with keys of their own.
MCPriorityOf2 == e1 :> 2 @@ e2 :> 3
MCCorrelationOf2 == e1 :> c1 @@ e2 :> c2
MCKeyOf2 == e1 :> k1 @@ e2 :> k2

\* One event only.
MCPriorityOf1 == e1 :> 2
MCCorrelationOf1 == e1 :> c1
MCKeyOf1 == e1 :> k1

MCSymmetry == Permutations({w1, w2}) \cup Permutations({l1, l2})
              \cup Permutations({s1, s2})
=============================================================================
