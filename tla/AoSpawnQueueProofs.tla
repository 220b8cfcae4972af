------------------------- MODULE AoSpawnQueueProofs -------------------------
(***************************************************************************)
(* Proofs about AoSpawnQueue that hold for any number of bridges, requests *)
(* and jobs, any caps, and any number of crashes, SIGTERMs, late starts,   *)
(* Redis errors and expired dedup keys.                                    *)
(***************************************************************************)
EXTENDS AoSpawnQueue, SequenceTheorems, TLAPS

USE DEF EnqueueAdmits, DequeueAdmits, Reserved, Decrement, LoopsOn

-----------------------------------------------------------------------------
(* The list commands.                                                      *)

\* ToSet over indices instead of over the domain.
LEMMA ToSetLemma ==
  ASSUME NEW S, NEW s \in Seq(S)
  PROVE  \A x : x \in ToSet(s) <=> \E n \in 1..Len(s) : s[n] = x
BY DEF ToSet

\* LREM of an id that is on the list closes the gap the id leaves.
LEMMA LRemShape ==
  ASSUME NEW S, NEW s \in Seq(S), NEW j \in ToSet(s)
  PROVE  \E i \in 1..Len(s) :
            /\ s[i] = j
            /\ LRem(s, j) \in Seq(S) /\ Len(LRem(s, j)) = Len(s) - 1
            /\ \A n \in 1..Len(s) - 1 :
                  LRem(s, j)[n] = IF n < i THEN s[n] ELSE s[n + 1]
<1> DEFINE i == CHOOSE n \in 1..Len(s) : s[n] = j
           p == SubSeq(s, 1, i - 1)
           q == SubSeq(s, i + 1, Len(s))
           r == LRem(s, j)
<1>1. i \in 1..Len(s) /\ s[i] = j
  BY DEF ToSet
<1>2. r = p \o q
  BY DEF LRem, RemoveAt
<1> HIDE DEF i, r
<1>3. /\ p \in Seq(S) /\ Len(p) = i - 1
      /\ \A n \in 1..i - 1 : p[n] = s[n]
  BY <1>1
<1>4. /\ q \in Seq(S) /\ Len(q) = Len(s) - i
      /\ \A n \in 1..Len(s) - i : q[n] = s[i + n]
  BY <1>1
<1> HIDE DEF p, q
<1>5. /\ p \o q \in Seq(S) /\ Len(p \o q) = Len(p) + Len(q)
      /\ \A n \in 1..Len(p) + Len(q) :
            (p \o q)[n] = IF n <= Len(p) THEN p[n] ELSE q[n - Len(p)]
  BY <1>3, <1>4, ConcatProperties
<1>6. Len(p) + Len(q) = Len(s) - 1
  BY <1>1, <1>3, <1>4
<1>7. ASSUME NEW n \in 1..Len(s) - 1
      PROVE  r[n] = IF n < i THEN s[n] ELSE s[n + 1]
  <2>1. r[n] = IF n <= Len(p) THEN p[n] ELSE q[n - Len(p)]
    BY <1>2, <1>5, <1>6
  <2>2. CASE n < i
    BY <1>1, <1>3, <2>1, <2>2
  <2>3. CASE n >= i
    <3>1. n - Len(p) \in 1..Len(s) - i /\ i + (n - Len(p)) = n + 1
      BY <1>1, <1>3, <2>3
    <3> QED BY <1>1, <1>3, <1>4, <2>1, <2>3, <3>1
  <2> QED BY <1>1, <2>2, <2>3
<1>8. r \in Seq(S) /\ Len(r) = Len(s) - 1
  BY <1>2, <1>5, <1>6
<1> QED BY <1>1, <1>7, <1>8 DEF r

\* LREM yields a list of the same ids, at most one shorter, that keeps every
\* other id.
LEMMA LRemLemma ==
  ASSUME NEW S, NEW s \in Seq(S), NEW j
  PROVE  /\ LRem(s, j) \in Seq(S)
         /\ Len(LRem(s, j)) <= Len(s)
         /\ ToSet(LRem(s, j)) \subseteq ToSet(s)
         /\ \A k \in ToSet(s) : k # j => k \in ToSet(LRem(s, j))
<1>1. CASE j \notin ToSet(s)
  BY <1>1 DEF LRem
<1>2. CASE j \in ToSet(s)
  <2> DEFINE r == LRem(s, j)
  <2>1. PICK i \in 1..Len(s) :
          /\ s[i] = j
          /\ r \in Seq(S) /\ Len(r) = Len(s) - 1
          /\ \A n \in 1..Len(s) - 1 : r[n] = IF n < i THEN s[n] ELSE s[n + 1]
    BY <1>2, LRemShape
  <2> HIDE DEF r
  <2>2. ToSet(r) \subseteq ToSet(s)
    BY <2>1 DEF ToSet
  <2>3. ASSUME NEW k \in ToSet(s), k # j PROVE k \in ToSet(r)
    <3>1. PICK n \in 1..Len(s) : s[n] = k
      BY DEF ToSet
    <3>2. n # i
      BY <2>1, <2>3, <3>1
    <3>3. CASE n < i
      <4>1. n \in 1..Len(r) /\ r[n] = k
        BY <2>1, <3>1, <3>3
      <4> QED BY <4>1, <2>1 DEF ToSet
    <3>4. CASE n > i
      <4>1. n - 1 \in 1..Len(r) /\ r[n - 1] = k
        BY <2>1, <3>1, <3>4
      <4> QED BY <4>1, <2>1 DEF ToSet
    <3> QED BY <2>1, <3>1, <3>2, <3>3, <3>4
  <2>4. Len(r) <= Len(s)
    BY <2>1
  <2> QED BY <2>1, <2>2, <2>3, <2>4 DEF r
<1> QED BY <1>1, <1>2

\* A push adds one id.
LEMMA AppendLemma ==
  ASSUME NEW S, NEW s \in Seq(S), NEW j \in S
  PROVE  /\ Append(s, j) \in Seq(S)
         /\ Len(Append(s, j)) = Len(s) + 1
         /\ ToSet(Append(s, j)) = ToSet(s) \cup {j}
<1>1. Append(s, j) \in Seq(S) /\ Len(Append(s, j)) = Len(s) + 1
  OBVIOUS
<1>2. \A n \in 1..Len(s) : Append(s, j)[n] = s[n]
  OBVIOUS
<1>3. Append(s, j)[Len(s) + 1] = j
  OBVIOUS
<1>4. ToSet(Append(s, j)) \subseteq ToSet(s) \cup {j}
  BY <1>1, <1>2, <1>3 DEF ToSet
<1>5. ToSet(s) \cup {j} \subseteq ToSet(Append(s, j))
  <2>1. ToSet(s) \subseteq ToSet(Append(s, j))
    BY <1>1, <1>2 DEF ToSet
  <2>2. j \in ToSet(Append(s, j))
    BY <1>1, <1>3 DEF ToSet
  <2> QED BY <2>1, <2>2
<1> QED BY <1>1, <1>4, <1>5

\* A pop takes one id off.
LEMMA TailLemma ==
  ASSUME NEW S, NEW s \in Seq(S), s # <<>>
  PROVE  /\ Head(s) \in S /\ Tail(s) \in Seq(S)
         /\ Len(Tail(s)) = Len(s) - 1 /\ Len(s) \in Nat \ {0}
         /\ ToSet(s) = {Head(s)} \cup ToSet(Tail(s))
<1>1. /\ Head(s) \in S /\ Tail(s) \in Seq(S) /\ Len(Tail(s)) = Len(s) - 1
      /\ Len(s) \in Nat \ {0} /\ Head(s) = s[1]
      /\ \A n \in 1..Len(s) - 1 : Tail(s)[n] = s[n + 1]
  OBVIOUS
<1>2. ToSet(s) \subseteq {Head(s)} \cup ToSet(Tail(s))
  <2> SUFFICES ASSUME NEW n \in 1..Len(s)
               PROVE  s[n] \in {Head(s)} \cup ToSet(Tail(s))
    BY DEF ToSet
  <2>1. CASE n = 1
    BY <1>1, <2>1
  <2>2. CASE n > 1
    <3>1. n - 1 \in 1..Len(Tail(s)) /\ Tail(s)[n - 1] = s[n]
      BY <1>1, <2>2
    <3>2. s[n] \in ToSet(Tail(s))
      BY <3>1, <1>1, ToSetLemma
    <3> QED BY <3>2
  <2> QED BY <1>1, <2>1, <2>2
<1>3. {Head(s)} \cup ToSet(Tail(s)) \subseteq ToSet(s)
  <2>1. Head(s) \in ToSet(s)
    BY <1>1 DEF ToSet
  <2>2. ToSet(Tail(s)) \subseteq ToSet(s)
    BY <1>1 DEF ToSet
  <2> QED BY <2>1, <2>2
<1> QED BY <1>1, <1>2, <1>3

-----------------------------------------------------------------------------
(* Type correctness.                                                       *)

\* A handler that has been received works on a job of its request, at a
\* bridge; the job has not been pushed before its push, nor have the others
\* that are left.
HandlerInvAt(c) ==
  /\ left[c] \subseteq JobsOf[c] /\ left[c] \cap entered = {}
  /\ pc[c] \notin {"waiting", "closed"} =>
       at[c] \in Bridges /\ item[c] \in JobsOf[c] \ left[c]
  /\ pc[c] \in {"reserve", "push", "undoFull"} => item[c] \notin entered

HandlerInv == \A c \in Calls : HandlerInvAt(c)

\* A drain loop that is under way started it with a free slot, which nothing
\* takes meanwhile; it holds an id from the pop to the start of the job.
DrainInv ==
  \A b \in Bridges :
    /\ active[b] <= MaxConcurrent
    /\ drain[b] # "idle" => active[b] < MaxConcurrent
    /\ drain[b] \in {"fetch", "drop", "start"} <=> hand[b] # NoJob
    /\ hand[b] # NoJob => hand[b] \in entered
    /\ drain[b] = "drop" => hand[b] \notin jobs

\* What is in Redis was pushed; what was pushed and not removed is there.
EnteredInv ==
  /\ ToSet(pending) \cup ToSet(running) \cup jobs \subseteq entered
  /\ \A j \in entered \ done :
        j \in jobs /\ (j \in ToSet(pending) \/ j \in ToSet(running))
  /\ \A j \in Jobs : answer[j] = "accepted" => j \in entered

\* The inductive invariant.
IInv == /\ TypeOK /\ HandlerInv /\ DrainInv /\ EnteredInv
        /\ RunningCap /\ BacklogBound

\* The values of the handler variables after TakeUp and Proceed.
LEMMA TakeUpType ==
  ASSUME TypeOK, NEW c \in Calls, NEW j \in left[c], TakeUp(c, j)
  PROVE  /\ pc' \in [Calls -> {"waiting", "reserve", "push", "undoFull",
                               "undoError", "reply", "closed"}]
         /\ item' \in [Calls -> Jobs \cup {NoJob}]
         /\ left' \in [Calls -> SUBSET Jobs]
BY DEF TypeOK, TakeUp

LEMMA ProceedType ==
  ASSUME TypeOK, NEW c \in Calls, NEW ok \in BOOLEAN, Proceed(c, ok)
  PROVE  /\ pc' \in [Calls -> {"waiting", "reserve", "push", "undoFull",
                               "undoError", "reply", "closed"}]
         /\ item' \in [Calls -> Jobs \cup {NoJob}]
         /\ left' \in [Calls -> SUBSET Jobs]
<1>1. CASE \E j \in left[c] : TakeUp(c, j)
  BY <1>1, TakeUpType
<1>2. CASE /\ pc' = [pc EXCEPT ![c] = IF ok \/ c \in BatchCalls
                                      THEN "reply" ELSE "closed"]
           /\ UNCHANGED <<item, left>>
  BY <1>2 DEF TypeOK
<1> QED BY <1>1, <1>2 DEF Proceed

LEMMA KickedType ==
  ASSUME NEW b, drain[b] \in {"idle", "pop", "fetch", "drop", "start"}
  PROVE  Kicked(b) \in {"idle", "pop", "fetch", "drop", "start"}
BY DEF Kicked

LEMMA InitType == Init => TypeOK
BY ConstantsAssumption DEF Init, TypeOK, NoOne

LEMMA NextType == TypeOK /\ HandlerInv /\ DrainInv /\ [Next]_vars => TypeOK'
<1> SUFFICES ASSUME TypeOK, HandlerInv, DrainInv, [Next]_vars PROVE TypeOK'
  OBVIOUS
<1> USE ConstantsAssumption
<1>1. ASSUME NEW c \in Calls, NEW b \in Bridges, Receive(c, b) PROVE TypeOK'
  BY <1>1, TakeUpType DEF TypeOK, Receive, redisVars, drainVars, historyVars, faultVars
<1>2. ASSUME NEW c \in Calls, Reserve(c) PROVE TypeOK'
  <2>1. item[c] \in Jobs
    BY <1>2 DEF HandlerInv, HandlerInvAt, Reserve
  <2>2. CASE /\ dedup' = [dedup EXCEPT ![FingerprintOf[item[c]]] = item[c]]
             /\ pc' = [pc EXCEPT ![c] = "push"]
             /\ UNCHANGED <<item, left, answer>>
    BY <1>2, <2>1, <2>2 DEF TypeOK, Reserve, drainVars, faultVars
  <2>3. CASE /\ answer' = [answer EXCEPT ![item[c]] = "duplicate"]
             /\ Proceed(c, FALSE) /\ UNCHANGED dedup
    BY <1>2, <2>1, <2>3, ProceedType DEF TypeOK, Reserve, drainVars, faultVars
  <2> QED BY <1>2, <2>2, <2>3 DEF Reserve
<1>3. ASSUME NEW c \in Calls, Push(c) PROVE TypeOK'
  <2>1. item[c] \in Jobs
    BY <1>3 DEF HandlerInv, HandlerInvAt, Push
  <2>2. CASE /\ Enter(item[c]) /\ Proceed(c, TRUE)
             /\ answer' = [answer EXCEPT ![item[c]] = "accepted"]
    BY <1>3, <2>1, <2>2, ProceedType, AppendLemma
       DEF TypeOK, Push, Enter, drainVars, faultVars
  <2>3. CASE /\ pc' = [pc EXCEPT ![c] = "undoFull"]
             /\ UNCHANGED <<pending, jobs, entered, answer, item, left>>
    BY <1>3, <2>3 DEF TypeOK, Push, drainVars, faultVars
  <2> QED BY <1>3, <2>2, <2>3 DEF Push
<1>4. ASSUME NEW c \in Calls, UndoFull(c) PROVE TypeOK'
  <2>1. item[c] \in Jobs
    BY <1>4 DEF HandlerInv, HandlerInvAt, UndoFull
  <2> QED BY <1>4, <2>1, ProceedType DEF TypeOK, UndoFull, drainVars, faultVars
<1>5. ASSUME NEW c \in Calls, UndoError(c) PROVE TypeOK'
  <2>1. item[c] \in Jobs
    BY <1>5 DEF HandlerInv, HandlerInvAt, UndoError
  <2>2. /\ dedup' \in [Fingerprints -> Jobs \cup {NoJob}] /\ errors' \in Nat
    <3>1. CASE /\ dedup' = [dedup EXCEPT ![FingerprintOf[item[c]]] = NoJob]
               /\ UNCHANGED errors
      BY <3>1 DEF TypeOK
    <3>2. CASE errors' = errors + 1 /\ UNCHANGED dedup
      BY <3>2 DEF TypeOK
    <3> QED BY <1>5, <3>1, <3>2 DEF UndoError
  <2> QED BY <1>5, <2>1, <2>2 DEF TypeOK, UndoError, GiveUp, drainVars
<1>6. ASSUME NEW c \in Calls, Reply(c) PROVE TypeOK'
  <2>1. at[c] \in Bridges
    BY <1>6 DEF HandlerInv, HandlerInvAt, Reply
  <2> QED BY <1>6, <2>1, KickedType DEF TypeOK, Reply, redisVars, historyVars, faultVars
<1>7. ASSUME NEW c \in Calls, ReserveError(c) PROVE TypeOK'
  <2>1. item[c] \in Jobs
    BY <1>7 DEF HandlerInv, HandlerInvAt, ReserveError
  <2> QED BY <1>7, <2>1 DEF TypeOK, ReserveError, GiveUp, drainVars
<1>8. ASSUME NEW c \in Calls, PushError(c) PROVE TypeOK'
  <2>1. item[c] \in Jobs
    BY <1>8 DEF HandlerInv, HandlerInvAt, PushError
  <2>2. /\ pending' \in Seq(Jobs) /\ jobs' \subseteq Jobs /\ entered' \subseteq Jobs
    <3>1. CASE Enter(item[c])
      BY <3>1, <2>1, AppendLemma DEF TypeOK, Enter
    <3>2. CASE UNCHANGED <<pending, jobs, entered>>
      BY <3>2 DEF TypeOK
    <3> QED BY <1>8, <3>1, <3>2 DEF PushError
  <2> QED BY <1>8, <2>2 DEF TypeOK, PushError, drainVars
<1>9. ASSUME NEW b \in Bridges, DrainPop(b) PROVE TypeOK'
  <2>1. /\ pending' \in Seq(Jobs) /\ running' \in Seq(Jobs)
        /\ hand' \in [Bridges -> Jobs \cup {NoJob}]
        /\ drain' \in [Bridges -> {"idle", "pop", "fetch", "drop", "start"}]
    <3>1. CASE /\ pending # <<>> /\ running' = Append(running, Head(pending))
               /\ pending' = Tail(pending)
               /\ hand' = [hand EXCEPT ![b] = Head(pending)]
               /\ drain' = [drain EXCEPT ![b] = "fetch"]
      <4>1. Head(pending) \in Jobs /\ Tail(pending) \in Seq(Jobs)
        BY <3>1, TailLemma DEF TypeOK
      <4>2. running' \in Seq(Jobs)
        BY <3>1, <4>1, AppendLemma DEF TypeOK
      <4> QED BY <3>1, <4>1, <4>2 DEF TypeOK
    <3>2. CASE /\ drain' = [drain EXCEPT ![b] = "idle"]
               /\ UNCHANGED <<pending, running, hand>>
      BY <3>2 DEF TypeOK
    <3> QED BY <1>9, <3>1, <3>2 DEF DrainPop
  <2> QED BY <1>9, <2>1 DEF TypeOK, DrainPop, handlerVars, historyVars, faultVars
<1>10. ASSUME NEW b \in Bridges, DrainFetch(b) PROVE TypeOK'
  BY <1>10 DEF TypeOK, DrainFetch, redisVars, handlerVars, historyVars, faultVars
<1>11. ASSUME NEW b \in Bridges, DrainDrop(b) PROVE TypeOK'
  BY <1>11, LRemLemma DEF TypeOK, DrainDrop, handlerVars, historyVars, faultVars
<1>12. ASSUME NEW b \in Bridges, DrainStart(b) PROVE TypeOK'
  <2>1. hand[b] \in Jobs
    BY <1>12 DEF TypeOK, DrainInv, DrainStart
  <2>2. executing' \in [Bridges -> [Jobs -> Nat]]
    BY <1>12, <2>1 DEF TypeOK, DrainStart
  <2> QED BY <1>12, <2>2 DEF TypeOK, DrainStart, redisVars, handlerVars, historyVars, faultVars
<1>13. ASSUME NEW b \in Bridges, NEW j \in Jobs, ExecEnd(b, j) PROVE TypeOK'
  <2>1. /\ executing' \in [Bridges -> [Jobs -> Nat]]
        /\ completing' \in [Bridges -> [Jobs -> Nat]]
        /\ active' \in [Bridges -> Nat]
    BY <1>13 DEF TypeOK, ExecEnd
  <2> QED BY <1>13, <2>1 DEF TypeOK, ExecEnd, redisVars, handlerVars, historyVars, faultVars
<1>14. ASSUME NEW b \in Bridges, NEW j \in Jobs, Complete(b, j) PROVE TypeOK'
  <2>1. completing' \in [Bridges -> [Jobs -> Nat]]
    BY <1>14 DEF TypeOK, Complete
  <2>2. running' \in Seq(Jobs)
    BY <1>14, LRemLemma DEF TypeOK, Complete
  <2> QED BY <1>14, <2>1, <2>2, KickedType DEF TypeOK, Complete, handlerVars, faultVars
<1>15. ASSUME NEW b \in Bridges, Start(b) PROVE TypeOK'
  BY <1>15 DEF TypeOK, Start, redisVars, drainVars, handlerVars, historyVars, faultVars
<1>16. ASSUME NEW b \in Bridges, Recover(b) PROVE TypeOK'
  <2>1. /\ pending' \in Seq(Jobs) /\ running' \in Seq(Jobs)
        /\ recovering' \in [Bridges -> BOOLEAN]
        /\ drain' \in [Bridges -> {"idle", "pop", "fetch", "drop", "start"}]
    <3>1. CASE /\ running # <<>> /\ pending' = Append(pending, Head(running))
               /\ running' = Tail(running) /\ UNCHANGED <<recovering, drain>>
      <4>1. Head(running) \in Jobs /\ Tail(running) \in Seq(Jobs)
        BY <3>1, TailLemma DEF TypeOK
      <4> QED BY <3>1, <4>1, AppendLemma DEF TypeOK
    <3>2. CASE /\ recovering' = [recovering EXCEPT ![b] = FALSE]
               /\ drain' = [drain EXCEPT ![b] = Kicked(b)]
               /\ UNCHANGED <<pending, running>>
      BY <3>2, KickedType DEF TypeOK
    <3> QED BY <1>16, <3>1, <3>2 DEF Recover
  <2> QED BY <1>16, <2>1, KickedType DEF TypeOK, Recover, handlerVars, historyVars, faultVars
<1>17. ASSUME NEW b \in Bridges, RecoverError(b) PROVE TypeOK'
  BY <1>17 DEF TypeOK, RecoverError, redisVars, drainVars, handlerVars, historyVars
<1>18. ASSUME NEW b \in Bridges, Sigterm(b) PROVE TypeOK'
  BY <1>18 DEF TypeOK, Sigterm, redisVars, drainVars, handlerVars, historyVars
<1>19. ASSUME NEW b \in Bridges, Exit(b) PROVE TypeOK'
  <2>1. stops' \in Nat
    BY <1>19 DEF TypeOK, Exit
  <2>2. NoOne \in [Jobs -> Nat]
    BY DEF NoOne
  <2>3. /\ executing' \in [Bridges -> [Jobs -> Nat]]
        /\ completing' \in [Bridges -> [Jobs -> Nat]]
    BY <1>19, <2>2 DEF TypeOK, Exit
  <2> QED BY <1>19, <2>1, <2>3 DEF TypeOK, Exit, redisVars, historyVars
<1>20. ASSUME NEW f \in Fingerprints, DedupExpires(f) PROVE TypeOK'
  BY <1>20 DEF TypeOK, DedupExpires, drainVars, handlerVars, historyVars
<1>21. CASE UNCHANGED vars
  BY <1>21 DEF TypeOK, vars, redisVars, drainVars, handlerVars, historyVars, faultVars
<1> QED
  BY <1>1, <1>2, <1>3, <1>4, <1>5, <1>6, <1>7, <1>8, <1>9, <1>10, <1>11, <1>12,
     <1>13, <1>14, <1>15, <1>16, <1>17, <1>18, <1>19, <1>20, <1>21
     DEF Next, HandlerStep, HandlerError, DrainStep

-----------------------------------------------------------------------------
(* The invariant is inductive.                                             *)

\* A step of request c that pushes at most its own item leaves the other
\* requests as they were.
LEMMA OtherHandlers ==
  ASSUME HandlerInv, NEW c \in Calls, NEW d \in Calls \ {c},
         entered' = entered \/ entered' = entered \cup {item[c]},
         item[c] \in JobsOf[c],
         pc'[d] = pc[d], at'[d] = at[d], item'[d] = item[d], left'[d] = left[d]
  PROVE  HandlerInvAt(d)'
BY ConstantsAssumption DEF HandlerInv, HandlerInvAt

\* Request c goes on after its item: with the next job, or to its end.
LEMMA ProceedHandler ==
  ASSUME IInv, NEW c \in Calls, NEW ok \in BOOLEAN,
         pc[c] \in {"reserve", "push", "undoFull"},
         Proceed(c, ok), at' = at,
         entered' = entered \/ entered' = entered \cup {item[c]}
  PROVE  HandlerInv'
<1>1. item[c] \in JobsOf[c] \ left[c] /\ at[c] \in Bridges
  BY DEF IInv, HandlerInv, HandlerInvAt
<1>2. HandlerInvAt(c)'
  <2>1. ASSUME NEW j \in left[c], TakeUp(c, j) PROVE HandlerInvAt(c)'
    BY <1>1, <2>1 DEF IInv, TypeOK, HandlerInv, HandlerInvAt, TakeUp
  <2>2. CASE /\ pc' = [pc EXCEPT ![c] = IF ok \/ c \in BatchCalls
                                        THEN "reply" ELSE "closed"]
             /\ UNCHANGED <<item, left>>
    BY <1>1, <2>2 DEF IInv, TypeOK, HandlerInv, HandlerInvAt
  <2> QED BY <2>1, <2>2 DEF Proceed
<1>3. ASSUME NEW d \in Calls \ {c} PROVE HandlerInvAt(d)'
  <2>1. /\ pc'[d] = pc[d] /\ at'[d] = at[d]
        /\ item'[d] = item[d] /\ left'[d] = left[d]
    BY DEF Proceed, TakeUp, IInv, TypeOK
  <2> QED BY <1>1, <2>1, OtherHandlers DEF IInv
<1> QED BY <1>2, <1>3 DEF HandlerInv

LEMMA NextHandler == IInv /\ [Next]_vars => HandlerInv'
<1> SUFFICES ASSUME IInv, [Next]_vars PROVE HandlerInv'
  OBVIOUS
<1> USE ConstantsAssumption
\* The step changes nothing the invariant speaks of.
<1>1. ASSUME UNCHANGED <<handlerVars, entered>> PROVE HandlerInv'
  BY <1>1 DEF IInv, HandlerInv, HandlerInvAt, handlerVars
\* The step only moves request c on without a push.
<1>2. ASSUME NEW c \in Calls, pc[c] \notin {"waiting", "closed"},
             UNCHANGED <<at, item, left, entered>>,
             \/ pc' = [pc EXCEPT ![c] = "closed"]
             \/ pc' = [pc EXCEPT ![c] = "reply"]
             \/ pc' = [pc EXCEPT ![c] = "undoError"]
             \/ pc[c] = "reserve" /\ pc' = [pc EXCEPT ![c] = "push"]
             \/ pc[c] = "push" /\ pc' = [pc EXCEPT ![c] = "undoFull"]
      PROVE  HandlerInv'
  <2>1. HandlerInvAt(c)'
    BY <1>2 DEF IInv, TypeOK, HandlerInv, HandlerInvAt
  <2>2. ASSUME NEW d \in Calls \ {c} PROVE HandlerInvAt(d)'
    <3>1. pc'[d] = pc[d]
      BY <1>2 DEF IInv, TypeOK
    <3>2. HandlerInvAt(d)
      BY DEF IInv, HandlerInv
    <3> QED BY <1>2, <3>1, <3>2 DEF HandlerInvAt
  <2> QED BY <2>1, <2>2 DEF HandlerInv
<1>3. ASSUME NEW c \in Calls, NEW b \in Bridges, Receive(c, b)
      PROVE  HandlerInv'
  <2>1. PICK j \in left[c] : TakeUp(c, j)
    BY <1>3 DEF Receive
  <2>2. entered' = entered /\ at' = [at EXCEPT ![c] = b]
    BY <1>3 DEF Receive, historyVars
  <2>3. HandlerInvAt(c)'
    <3>1. /\ left'[c] = left[c] \ {j} /\ item'[c] = j /\ at'[c] = b
          /\ pc'[c] = "reserve"
      BY <2>1, <2>2 DEF IInv, TypeOK, TakeUp
    <3>2. left[c] \subseteq JobsOf[c] /\ left[c] \cap entered = {}
      BY DEF IInv, HandlerInv, HandlerInvAt
    <3> QED BY <2>2, <3>1, <3>2 DEF HandlerInvAt
  <2>4. ASSUME NEW d \in Calls \ {c} PROVE HandlerInvAt(d)'
    <3>1. /\ pc'[d] = pc[d] /\ item'[d] = item[d] /\ left'[d] = left[d]
          /\ at'[d] = at[d]
      BY <2>1, <2>2 DEF IInv, TypeOK, TakeUp
    <3>2. HandlerInvAt(d)
      BY DEF IInv, HandlerInv
    <3> QED BY <2>2, <3>1, <3>2 DEF HandlerInvAt
  <2> QED BY <2>3, <2>4 DEF HandlerInv
<1>4. ASSUME NEW c \in Calls, Reserve(c) PROVE HandlerInv'
  <2>1. CASE pc' = [pc EXCEPT ![c] = "push"] /\ UNCHANGED <<item, left, answer>>
    BY <1>2, <1>4, <2>1 DEF Reserve
  <2>2. CASE Proceed(c, FALSE)
    BY <1>4, <2>2, ProceedHandler DEF Reserve
  <2> QED BY <1>4, <2>1, <2>2 DEF Reserve
<1>5. ASSUME NEW c \in Calls, Push(c) PROVE HandlerInv'
  <2>1. CASE Enter(item[c]) /\ Proceed(c, TRUE)
    BY <1>5, <2>1, ProceedHandler DEF Push, Enter
  <2>2. CASE pc' = [pc EXCEPT ![c] = "undoFull"] /\ UNCHANGED <<entered, item, left>>
    BY <1>2, <1>5, <2>2 DEF Push
  <2> QED BY <1>5, <2>1, <2>2 DEF Push
<1>6. ASSUME NEW c \in Calls, UndoFull(c) PROVE HandlerInv'
  BY <1>6, ProceedHandler DEF UndoFull
<1>7. ASSUME NEW c \in Calls, UndoError(c) PROVE HandlerInv'
  BY <1>2, <1>7 DEF UndoError, GiveUp
<1>8. ASSUME NEW c \in Calls, Reply(c) PROVE HandlerInv'
  BY <1>2, <1>8 DEF Reply, historyVars
<1>9. ASSUME NEW c \in Calls, ReserveError(c) PROVE HandlerInv'
  BY <1>2, <1>9 DEF ReserveError, GiveUp
<1>10. ASSUME NEW c \in Calls, PushError(c) PROVE HandlerInv'
  <2>1. CASE UNCHANGED entered
    BY <1>2, <1>10, <2>1 DEF PushError
  <2>2. CASE Enter(item[c])
    <3>1. item[c] \in JobsOf[c] \ left[c] /\ at[c] \in Bridges
      BY <1>10 DEF IInv, HandlerInv, HandlerInvAt, PushError
    <3>2. HandlerInvAt(c)'
      BY <1>10, <2>2, <3>1
         DEF IInv, TypeOK, HandlerInv, HandlerInvAt, PushError, Enter
    <3>3. ASSUME NEW d \in Calls \ {c} PROVE HandlerInvAt(d)'
      <4>1. /\ pc'[d] = pc[d] /\ at'[d] = at[d]
            /\ item'[d] = item[d] /\ left'[d] = left[d]
        BY <1>10 DEF PushError, IInv, TypeOK
      <4> QED BY <2>2, <3>1, <4>1, OtherHandlers DEF IInv, Enter
    <3> QED BY <3>2, <3>3 DEF HandlerInv
  <2> QED BY <1>10, <2>1, <2>2 DEF PushError
<1>11. ASSUME NEW b \in Bridges, Exit(b) PROVE HandlerInv'
  BY <1>11 DEF IInv, TypeOK, HandlerInv, HandlerInvAt, Exit, historyVars
<1>12. ASSUME NEW b \in Bridges, DrainStep(b) PROVE HandlerInv'
  BY <1>1, <1>12 DEF DrainStep, DrainPop, DrainFetch, DrainDrop, DrainStart,
                     historyVars
<1>13. ASSUME NEW b \in Bridges, NEW j \in Jobs, ExecEnd(b, j) \/ Complete(b, j)
       PROVE  HandlerInv'
  BY <1>1, <1>13 DEF ExecEnd, Complete, historyVars
<1>14. ASSUME NEW b \in Bridges,
              Start(b) \/ Recover(b) \/ RecoverError(b) \/ Sigterm(b)
       PROVE  HandlerInv'
  BY <1>1, <1>14 DEF Start, Recover, RecoverError, Sigterm, historyVars
<1>15. ASSUME NEW f \in Fingerprints, DedupExpires(f) PROVE HandlerInv'
  BY <1>1, <1>15 DEF DedupExpires, historyVars
<1>16. CASE UNCHANGED vars
  BY <1>1, <1>16 DEF vars, historyVars
<1> QED
  BY <1>3, <1>4, <1>5, <1>6, <1>7, <1>8, <1>9, <1>10, <1>11, <1>12, <1>13, <1>14,
     <1>15, <1>16 DEF Next, HandlerStep, HandlerError

\* A step that leaves the drain loops alone keeps what is known of them, if
\* it adds at most one fresh id.
LEMMA DrainUnchanged ==
  ASSUME IInv, UNCHANGED <<active, drain, hand>>,
         \/ UNCHANGED <<jobs, entered>>
         \/ \E j \in Jobs \ entered : jobs' = jobs \cup {j} /\ entered' = entered \cup {j}
  PROVE  DrainInv'
BY DEF IInv, DrainInv

LEMMA NextDrain == IInv /\ [Next]_vars => DrainInv'
<1> SUFFICES ASSUME IInv, [Next]_vars PROVE DrainInv'
  OBVIOUS
<1> USE ConstantsAssumption
\* A call of drainSpawnQueue.
<1>0. ASSUME NEW b \in Bridges, drain' = [drain EXCEPT ![b] = Kicked(b)],
             UNCHANGED <<active, hand, entered>>, jobs' \subseteq jobs
      PROVE  DrainInv'
  BY <1>0 DEF IInv, TypeOK, DrainInv, Kicked
<1>1. ASSUME NEW c \in Calls, NEW b \in Bridges, Receive(c, b) PROVE DrainInv'
  BY <1>1, DrainUnchanged DEF Receive, redisVars, drainVars, historyVars
<1>2. ASSUME NEW c \in Calls,
             Reserve(c) \/ UndoFull(c) \/ UndoError(c) \/ ReserveError(c)
      PROVE  DrainInv'
  BY <1>2, DrainUnchanged
     DEF Reserve, UndoFull, UndoError, ReserveError, drainVars
<1>3. ASSUME NEW c \in Calls, Push(c) \/ PushError(c) PROVE DrainInv'
  <2>1. item[c] \in Jobs \ entered
    BY <1>3 DEF IInv, HandlerInv, HandlerInvAt, Push, PushError
  <2> QED BY <1>3, <2>1, DrainUnchanged DEF Push, PushError, Enter, drainVars
<1>4. ASSUME NEW c \in Calls, Reply(c) PROVE DrainInv'
  <2>1. at[c] \in Bridges
    BY <1>4 DEF IInv, HandlerInv, HandlerInvAt, Reply
  <2> QED BY <1>0, <1>4, <2>1 DEF Reply, redisVars, historyVars
<1>5. ASSUME NEW b \in Bridges, DrainPop(b) PROVE DrainInv'
  <2>1. CASE /\ pending # <<>> /\ hand' = [hand EXCEPT ![b] = Head(pending)]
             /\ drain' = [drain EXCEPT ![b] = "fetch"]
    <3>1. Head(pending) \in Jobs /\ Head(pending) \in entered
      BY <2>1, TailLemma DEF IInv, TypeOK, EnteredInv
    <3> QED BY <1>5, <2>1, <3>1
            DEF IInv, TypeOK, DrainInv, DrainPop, historyVars
  <2>2. CASE drain' = [drain EXCEPT ![b] = "idle"] /\ hand' = hand
    BY <1>5, <2>2 DEF IInv, TypeOK, DrainInv, DrainPop, historyVars
  <2> QED BY <1>5, <2>1, <2>2 DEF DrainPop
<1>6. ASSUME NEW b \in Bridges, DrainFetch(b) PROVE DrainInv'
  BY <1>6 DEF IInv, TypeOK, DrainInv, DrainFetch, redisVars, historyVars
<1>7. ASSUME NEW b \in Bridges, DrainDrop(b) PROVE DrainInv'
  BY <1>7 DEF IInv, TypeOK, DrainInv, DrainDrop, historyVars
<1>8. ASSUME NEW b \in Bridges, DrainStart(b) PROVE DrainInv'
  BY <1>8 DEF IInv, TypeOK, DrainInv, DrainStart, redisVars, historyVars
<1>9. ASSUME NEW b \in Bridges, NEW j \in Jobs, ExecEnd(b, j) PROVE DrainInv'
  BY <1>9 DEF IInv, TypeOK, DrainInv, ExecEnd, redisVars, historyVars
<1>10. ASSUME NEW b \in Bridges, NEW j \in Jobs, Complete(b, j) PROVE DrainInv'
  BY <1>0, <1>10 DEF Complete
<1>11. ASSUME NEW b \in Bridges, Recover(b) PROVE DrainInv'
  <2>1. CASE UNCHANGED drain
    BY <1>11, <2>1, DrainUnchanged DEF Recover, historyVars
  <2>2. CASE drain' = [drain EXCEPT ![b] = Kicked(b)]
    BY <1>0, <1>11, <2>2 DEF Recover, historyVars
  <2> QED BY <1>11, <2>1, <2>2 DEF Recover
<1>12. ASSUME NEW b \in Bridges, Start(b) \/ RecoverError(b) \/ Sigterm(b)
       PROVE  DrainInv'
  BY <1>12, DrainUnchanged
     DEF Start, RecoverError, Sigterm, redisVars, drainVars, historyVars
<1>13. ASSUME NEW b \in Bridges, Exit(b) PROVE DrainInv'
  BY <1>13 DEF IInv, TypeOK, DrainInv, Exit, redisVars, historyVars
<1>14. ASSUME NEW f \in Fingerprints, DedupExpires(f) PROVE DrainInv'
  BY <1>14, DrainUnchanged DEF DedupExpires, drainVars, historyVars
<1>15. CASE UNCHANGED vars
  BY <1>15, DrainUnchanged DEF vars, redisVars, drainVars, historyVars
<1> QED
  BY <1>1, <1>2, <1>3, <1>4, <1>5, <1>6, <1>7, <1>8, <1>9, <1>10, <1>11, <1>12,
     <1>13, <1>14, <1>15 DEF Next, HandlerStep, HandlerError, DrainStep

\* Lists that keep their ids keep what is known of them, whoever holds them.
LEMMA EnteredUnchanged ==
  ASSUME IInv,
         ToSet(pending') \cup ToSet(running') = ToSet(pending) \cup ToSet(running),
         UNCHANGED <<jobs, entered, done>>,
         \A j \in Jobs : answer'[j] = "accepted" => answer[j] = "accepted"
  PROVE  EnteredInv'
BY DEF IInv, EnteredInv

LEMMA NextEntered == IInv /\ [Next]_vars => EnteredInv'
<1> SUFFICES ASSUME IInv, [Next]_vars PROVE EnteredInv'
  OBVIOUS
<1> USE ConstantsAssumption
<1>0. ASSUME UNCHANGED <<pending, running, jobs, historyVars>> PROVE EnteredInv'
  BY <1>0 DEF IInv, EnteredInv, historyVars
<1>1. ASSUME NEW c \in Calls, NEW b \in Bridges, Receive(c, b) PROVE EnteredInv'
  BY <1>0, <1>1 DEF Receive, redisVars
<1>2. ASSUME NEW c \in Calls,
             Reserve(c) \/ UndoFull(c) \/ UndoError(c) \/ ReserveError(c)
      PROVE  EnteredInv'
  <2>1. \A j \in Jobs : answer'[j] = "accepted" => answer[j] = "accepted"
    <3>1. PICK outcome \in {"duplicate", "full", "error"} :
            answer' = answer \/ answer' = [answer EXCEPT ![item[c]] = outcome]
      BY <1>2 DEF Reserve, UndoFull, UndoError, ReserveError, GiveUp
    <3> QED BY <3>1 DEF IInv, TypeOK
  <2>2. UNCHANGED <<pending, running, jobs, entered, done>>
    BY <1>2 DEF Reserve, UndoFull, UndoError, ReserveError
  <2> QED BY <2>1, <2>2, EnteredUnchanged
<1>3. ASSUME NEW c \in Calls, Enter(item[c]), item[c] \in Jobs,
             UNCHANGED <<running, done>>,
             answer' = answer \/ answer' = [answer EXCEPT ![item[c]] = "accepted"]
      PROVE  EnteredInv'
  <2>1. ToSet(pending') = ToSet(pending) \cup {item[c]}
    BY <1>3, AppendLemma DEF IInv, TypeOK, Enter
  <2> QED BY <1>3, <2>1 DEF IInv, TypeOK, EnteredInv, Enter
<1>4. ASSUME NEW c \in Calls, Push(c) \/ PushError(c) PROVE EnteredInv'
  <2>1. item[c] \in Jobs
    BY <1>4 DEF IInv, HandlerInv, HandlerInvAt, Push, PushError
  <2>2. CASE Enter(item[c])
    BY <1>3, <1>4, <2>1, <2>2 DEF Push, PushError
  <2>3. CASE UNCHANGED <<pending, jobs, entered, answer>>
    BY <1>0, <1>4, <2>3 DEF Push, PushError, historyVars
  <2> QED BY <1>4, <2>2, <2>3 DEF Push, PushError
<1>5. ASSUME NEW b \in Bridges, DrainPop(b) PROVE EnteredInv'
  <2>1. CASE pending # <<>> /\ running' = Append(running, Head(pending))
             /\ pending' = Tail(pending)
    <3>1. /\ Head(pending) \in Jobs
          /\ ToSet(pending) = {Head(pending)} \cup ToSet(Tail(pending))
      BY <2>1, TailLemma DEF IInv, TypeOK
    <3>2. ToSet(running') = ToSet(running) \cup {Head(pending)}
      BY <2>1, <3>1, AppendLemma DEF IInv, TypeOK
    <3> QED BY <1>5, <2>1, <3>1, <3>2, EnteredUnchanged DEF DrainPop, historyVars
  <2>2. CASE UNCHANGED <<pending, running>>
    BY <1>0, <1>5, <2>2 DEF DrainPop
  <2> QED BY <1>5, <2>1, <2>2 DEF DrainPop
<1>6. ASSUME NEW b \in Bridges, DrainFetch(b) \/ DrainStart(b) PROVE EnteredInv'
  BY <1>0, <1>6 DEF DrainFetch, DrainStart, redisVars
<1>7. ASSUME NEW b \in Bridges, DrainDrop(b) PROVE EnteredInv'
  <2>1. hand[b] \in entered \ jobs
    BY <1>7 DEF IInv, DrainInv, DrainDrop
  <2>2. /\ ToSet(running') \subseteq ToSet(running)
        /\ \A k \in ToSet(running) : k # hand[b] => k \in ToSet(running')
    BY <1>7, LRemLemma DEF IInv, TypeOK, DrainDrop
  <2> QED BY <1>7, <2>1, <2>2 DEF IInv, EnteredInv, DrainDrop, historyVars
<1>8. ASSUME NEW b \in Bridges, NEW j \in Jobs, ExecEnd(b, j) PROVE EnteredInv'
  BY <1>0, <1>8 DEF ExecEnd, redisVars
<1>9. ASSUME NEW b \in Bridges, NEW j \in Jobs, Complete(b, j) PROVE EnteredInv'
  <2>1. /\ ToSet(running') \subseteq ToSet(running)
        /\ \A k \in ToSet(running) : k # j => k \in ToSet(running')
    BY <1>9, LRemLemma DEF IInv, TypeOK, Complete
  <2> QED BY <1>9, <2>1 DEF IInv, EnteredInv, Complete
<1>10. ASSUME NEW b \in Bridges, Recover(b) PROVE EnteredInv'
  <2>1. CASE /\ running # <<>> /\ pending' = Append(pending, Head(running))
             /\ running' = Tail(running)
    <3>1. /\ Head(running) \in Jobs
          /\ ToSet(running) = {Head(running)} \cup ToSet(Tail(running))
      BY <2>1, TailLemma DEF IInv, TypeOK
    <3>2. ToSet(pending') = ToSet(pending) \cup {Head(running)}
      BY <2>1, <3>1, AppendLemma DEF IInv, TypeOK
    <3> QED BY <1>10, <2>1, <3>1, <3>2, EnteredUnchanged DEF Recover, historyVars
  <2>2. CASE UNCHANGED <<pending, running>>
    BY <1>0, <1>10, <2>2 DEF Recover
  <2> QED BY <1>10, <2>1, <2>2 DEF Recover
<1>11. ASSUME NEW b \in Bridges,
              Start(b) \/ RecoverError(b) \/ Sigterm(b) \/ Exit(b)
       PROVE  EnteredInv'
  BY <1>0, <1>11 DEF Start, RecoverError, Sigterm, Exit, redisVars
<1>12. ASSUME NEW c \in Calls, Reply(c) PROVE EnteredInv'
  BY <1>0, <1>12 DEF Reply, redisVars
<1>13. ASSUME NEW f \in Fingerprints, DedupExpires(f) PROVE EnteredInv'
  BY <1>0, <1>13 DEF DedupExpires
<1>14. CASE UNCHANGED vars
  BY <1>0, <1>14 DEF vars, redisVars
<1> QED
  BY <1>1, <1>2, <1>4, <1>5, <1>6, <1>7, <1>8, <1>9, <1>10, <1>11, <1>12, <1>13,
     <1>14 DEF Next, HandlerStep, HandlerError, DrainStep

LEMMA NextCaps == IInv /\ [Next]_vars => RunningCap' /\ BacklogBound'
<1> SUFFICES ASSUME IInv, [Next]_vars PROVE RunningCap' /\ BacklogBound'
  OBVIOUS
<1> USE ConstantsAssumption
<1> DEFINE p == Len(pending)
           r == Len(running)
<1>0. p \in Nat /\ r \in Nat /\ r <= MaxConcurrent /\ p + r <= MaxQueue + MaxConcurrent
  BY DEF IInv, TypeOK, RunningCap, BacklogBound
\* A step that does not lengthen running, nor the two lists together.
<1>1. ASSUME Len(pending') \in Nat, Len(running') \in Nat, Len(running') <= r,
             Len(pending') + Len(running') <= p + r
      PROVE  RunningCap' /\ BacklogBound'
  BY <1>0, <1>1 DEF RunningCap, BacklogBound
<1>2. ASSUME UNCHANGED <<pending, running>> PROVE RunningCap' /\ BacklogBound'
  BY <1>0, <1>1, <1>2
\* The push is the only step that lengthens the two lists together.
<1>3. ASSUME NEW c \in Calls, Push(c) \/ PushError(c)
      PROVE  RunningCap' /\ BacklogBound'
  <2>1. item[c] \in Jobs
    BY <1>3 DEF IInv, HandlerInv, HandlerInvAt, Push, PushError
  <2>2. CASE p < MaxQueue /\ Enter(item[c])
    <3>1. Len(pending') = p + 1 /\ running' = running
      BY <1>3, <2>1, <2>2, AppendLemma DEF IInv, TypeOK, Enter, Push, PushError
    <3> QED BY <1>0, <2>2, <3>1 DEF RunningCap, BacklogBound
  <2>3. CASE UNCHANGED <<pending, jobs, entered>>
    BY <1>2, <1>3, <2>3 DEF Push, PushError
  <2> QED BY <1>3, <2>2, <2>3 DEF Push, PushError
\* The pop is the only step that lengthens running.
<1>4. ASSUME NEW b \in Bridges, DrainPop(b) PROVE RunningCap' /\ BacklogBound'
  <2>1. CASE /\ r < MaxConcurrent /\ pending # <<>>
             /\ running' = Append(running, Head(pending))
             /\ pending' = Tail(pending)
    <3>1. Head(pending) \in Jobs /\ Len(pending') = p - 1
      BY <2>1, TailLemma DEF IInv, TypeOK
    <3>2. Len(running') = r + 1
      BY <2>1, <3>1, AppendLemma DEF IInv, TypeOK
    <3> QED BY <1>0, <2>1, <3>1, <3>2 DEF RunningCap, BacklogBound
  <2> QED BY <1>2, <1>4, <2>1 DEF DrainPop
<1>5. ASSUME NEW j, running' = LRem(running, j), pending' = pending
      PROVE  RunningCap' /\ BacklogBound'
  <2>1. running' \in Seq(Jobs) /\ Len(running') <= r
    BY <1>5, LRemLemma DEF IInv, TypeOK
  <2>2. Len(running') \in Nat
    BY <2>1
  <2> QED BY <1>0, <1>1, <1>5, <2>1, <2>2
<1>6. ASSUME NEW b \in Bridges, Recover(b) PROVE RunningCap' /\ BacklogBound'
  <2>1. CASE /\ running # <<>> /\ pending' = Append(pending, Head(running))
             /\ running' = Tail(running)
    <3>1. Head(running) \in Jobs /\ Len(running') = r - 1 /\ r > 0
      BY <2>1, TailLemma DEF IInv, TypeOK
    <3>2. Len(pending') = p + 1
      BY <2>1, <3>1, AppendLemma DEF IInv, TypeOK
    <3> QED BY <1>0, <1>1, <3>1, <3>2
  <2> QED BY <1>2, <1>6, <2>1 DEF Recover
<1>7. ASSUME NEW c \in Calls, NEW b \in Bridges, Receive(c, b)
      PROVE  RunningCap' /\ BacklogBound'
  BY <1>2, <1>7 DEF Receive, redisVars
<1>8. ASSUME NEW b \in Bridges, NEW j \in Jobs, ExecEnd(b, j)
      PROVE  RunningCap' /\ BacklogBound'
  BY <1>2, <1>8 DEF ExecEnd, redisVars
<1>9. ASSUME NEW f \in Fingerprints, DedupExpires(f)
      PROVE  RunningCap' /\ BacklogBound'
  BY <1>2, <1>9 DEF DedupExpires
<1>10. CASE UNCHANGED vars
  BY <1>2, <1>10 DEF vars, redisVars
<1>11. ASSUME NEW b \in Bridges, DrainDrop(b) PROVE RunningCap' /\ BacklogBound'
  BY <1>5, <1>11 DEF DrainDrop
<1>14. ASSUME NEW b \in Bridges, NEW j \in Jobs, Complete(b, j)
       PROVE  RunningCap' /\ BacklogBound'
  BY <1>5, <1>14 DEF Complete
<1>12. ASSUME NEW b \in Bridges,
              \/ DrainFetch(b) \/ DrainStart(b) \/ Start(b) \/ RecoverError(b)
              \/ Sigterm(b) \/ Exit(b)
       PROVE  RunningCap' /\ BacklogBound'
  BY <1>2, <1>12
     DEF DrainFetch, DrainStart, Start, RecoverError, Sigterm, Exit, redisVars
<1>13. ASSUME NEW c \in Calls,
              \/ Reserve(c) \/ UndoFull(c) \/ UndoError(c) \/ ReserveError(c)
              \/ Reply(c)
       PROVE  RunningCap' /\ BacklogBound'
  BY <1>2, <1>13
     DEF Reserve, UndoFull, UndoError, ReserveError, Reply, redisVars
<1> QED
  BY <1>3, <1>4, <1>6, <1>7, <1>8, <1>9, <1>10, <1>11, <1>12, <1>13, <1>14
     DEF Next, HandlerStep, HandlerError, DrainStep

LEMMA InitInv == Init => IInv
<1> SUFFICES ASSUME Init PROVE IInv
  OBVIOUS
<1> USE ConstantsAssumption
<1>1. TypeOK
  BY InitType
<1>2. HandlerInv
  BY DEF Init, HandlerInv, HandlerInvAt
<1>3. DrainInv
  BY DEF Init, DrainInv
<1>4. EnteredInv
  BY DEF Init, EnteredInv, ToSet
<1>5. RunningCap /\ BacklogBound
  BY DEF Init, RunningCap, BacklogBound
<1> QED BY <1>1, <1>2, <1>3, <1>4, <1>5 DEF IInv

\* The invariant holds in every reachable state.
THEOREM InductiveInvariant == Spec => []IInv
<1>1. IInv /\ [Next]_vars => IInv'
  BY NextType, NextHandler, NextDrain, NextEntered, NextCaps DEF IInv
<1> QED BY InitInv, <1>1, PTL DEF Spec

-----------------------------------------------------------------------------
(* What follows from it.                                                   *)

\* Every variable keeps its type, whatever fails.
THEOREM TypeCorrect == Spec => []TypeOK
<1>1. IInv => TypeOK
  BY DEF IInv
<1> QED BY InductiveInvariant, <1>1, PTL

\* The running list never outgrows MAX_CONCURRENT, and crashes never pile up
\* more than one cap of jobs above MAX_QUEUE: the admission control of the
\* two Lua scripts of queue-store.mjs survives any number of restarts.
THEOREM ListsBounded == Spec => []RunningCap /\ []BacklogBound
<1>1. IInv => RunningCap /\ BacklogBound
  BY DEF IInv
<1> QED BY InductiveInvariant, <1>1, PTL

\* No bridge ever has more than MAX_CONCURRENT jobs in hand or executing.
THEOREM ActiveBounded == Spec => []ActiveBound
<1>1. IInv => ActiveBound
  <2> SUFFICES ASSUME IInv, NEW b \in Bridges
               PROVE  active[b] + (IF hand[b] = NoJob THEN 0 ELSE 1) <= MaxConcurrent
    BY DEF ActiveBound
  <2>1. active[b] \in Nat /\ active[b] <= MaxConcurrent
    BY DEF IInv, TypeOK, DrainInv
  <2>2. CASE hand[b] = NoJob
    BY <2>1, <2>2
  <2>3. CASE hand[b] # NoJob
    <3>1. drain[b] # "idle"
      BY <2>3 DEF IInv, DrainInv
    <3>2. active[b] < MaxConcurrent
      BY <3>1 DEF IInv, DrainInv
    <3> QED BY <2>1, <2>3, <3>2, ConstantsAssumption
  <2> QED BY <2>2, <2>3
<1> QED BY InductiveInvariant, <1>1, PTL

\* An accepted job that was not removed is on one of the lists with its
\* record, after any crashes, late starts and Redis errors.
THEOREM NoJobLost == Spec => []NoLostJob
<1>1. IInv => NoLostJob
  BY DEF IInv, EnteredInv, NoLostJob
<1> QED BY InductiveInvariant, <1>1, PTL
=============================================================================
