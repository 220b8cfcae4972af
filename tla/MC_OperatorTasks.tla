--------------------------- MODULE MC_OperatorTasks ---------------------------
(***************************************************************************)
(* Instances of OperatorTasks: two contributors and root ask for the same  *)
(* resource; a third contributor asks for a department of two agents, and  *)
(* for an agent of another department.                                     *)
(***************************************************************************)
EXTENDS OperatorTasks, TLC

CONSTANTS t1, t2, t3, x, p, c1, c2, o1, o2, o3, root, a1, a2, r1, d1, d2

MCOperatorOf == t1 :> o1 @@ t2 :> root @@ t3 :> o2 @@ x :> o3 @@ p :> o3
                @@ c1 :> o3 @@ c2 :> o3
MCPriorityOf == o1 :> 50 @@ o2 :> 50 @@ o3 :> 50 @@ root :> 100
MCAgentOf == t1 :> a1 @@ t2 :> a2 @@ t3 :> a1 @@ x :> a1 @@ p :> a1 @@ c1 :> a1
             @@ c2 :> a2
MCKeyOf == [t \in Tasks |-> IF t \in {t1, t2, t3} THEN r1 ELSE NoKey]
MCChildrenOf == [t \in Tasks |-> IF t = p THEN <<c1, c2>> ELSE <<>>]

\* The task to be approved names the resource that another task locks.
MCOperatorOfCross == t1 :> o1 @@ x :> o3
MCAgentOfCross == t1 :> a1 @@ x :> a2
MCKeyOfCross == [t \in Tasks |-> r1]

MCSymmetry == Permutations({d1, d2})
              \cup {t1 :> t3 @@ t3 :> t1 @@ o1 :> o2 @@ o2 :> o1}
=============================================================================
