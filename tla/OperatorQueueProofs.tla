-------------------------- MODULE OperatorQueueProofs --------------------------
(***************************************************************************)
(* More of what holds of OperatorTasks for every value of the constants:   *)
(* each agent executes one task at a time and serves its queue in order of *)
(* priority, what is finished keeps a final status, a resource has one     *)
(* worker, and no slot of an operator leaks.                               *)
(***************************************************************************)
EXTENDS OperatorTasksProofs, FiniteSetTheorems, SequenceTheorems

-----------------------------------------------------------------------------
(* Sequences of tasks.                                                     *)

Sorted(s) == \A m, n \in DOMAIN s : m < n => Priority(s[m]) >= Priority(s[n])

\* What Tail takes off a sequence without repetitions.
LEMMA TailInjective ==
  ASSUME NEW S, NEW s \in Seq(S), s # <<>>, IsInjective(s)
  PROVE  /\ IsInjective(Tail(s)) /\ Head(s) \notin ToSet(Tail(s))
         /\ ToSet(Tail(s)) = ToSet(s) \ {Head(s)}
<1> DEFINE r == Tail(s)
<1>1. /\ Len(s) \in Nat \ {0} /\ DOMAIN s = 1..Len(s) /\ Head(s) = s[1]
      /\ r \in Seq(S) /\ DOMAIN r = 1..Len(s) - 1
      /\ \A n \in 1..Len(s) - 1 : r[n] = s[n + 1]
  OBVIOUS
<1> HIDE DEF r
<1>2. IsInjective(r)
  <2> SUFFICES ASSUME NEW m \in 1..Len(s) - 1, NEW n \in 1..Len(s) - 1, r[m] = r[n]
               PROVE  m = n
    BY <1>1 DEF IsInjective
  <2>1. s[m + 1] = s[n + 1] /\ m + 1 \in 1..Len(s) /\ n + 1 \in 1..Len(s)
    BY <1>1
  <2>2. m + 1 = n + 1
    BY <1>1, <2>1 DEF IsInjective
  <2> QED BY <2>2
<1>3. Head(s) \notin ToSet(r)
  <2> SUFFICES ASSUME NEW n \in 1..Len(s) - 1, r[n] = Head(s) PROVE FALSE
    BY <1>1 DEF ToSet
  <2>1. s[n + 1] = s[1] /\ n + 1 \in 1..Len(s) /\ 1 \in 1..Len(s)
    BY <1>1
  <2>2. n + 1 = 1
    BY <1>1, <2>1 DEF IsInjective
  <2> QED BY <2>2
<1>4. \A e : e \in ToSet(r) => e \in ToSet(s)
  <2> SUFFICES ASSUME NEW n \in 1..Len(s) - 1 PROVE r[n] \in ToSet(s)
    BY <1>1 DEF ToSet
  <2>1. n + 1 \in DOMAIN s /\ r[n] = s[n + 1]
    BY <1>1
  <2> QED BY <2>1 DEF ToSet
<1>5. \A e \in ToSet(s) : e # Head(s) => e \in ToSet(r)
  <2> SUFFICES ASSUME NEW n \in 1..Len(s), s[n] # s[1] PROVE s[n] \in ToSet(r)
    BY <1>1 DEF ToSet
  <2>1. n - 1 \in 1..Len(s) - 1 /\ (n - 1) + 1 = n
    BY <1>1
  <2>2. r[n - 1] = s[n]
    BY <1>1, <2>1
  <2> QED BY <1>1, <2>1, <2>2 DEF ToSet
<1> QED BY <1>2, <1>3, <1>4, <1>5 DEF r

\* Tail keeps a queue sorted.
LEMMA TailSorted ==
  ASSUME NEW s \in Seq(Tasks), s # <<>>, Sorted(s)
  PROVE  Sorted(Tail(s))
<1> DEFINE r == Tail(s)
<1>1. /\ Len(s) \in Nat \ {0} /\ DOMAIN s = 1..Len(s) /\ DOMAIN r = 1..Len(s) - 1
      /\ \A n \in 1..Len(s) - 1 : r[n] = s[n + 1]
  OBVIOUS
<1> HIDE DEF r
<1>2. ASSUME NEW m \in 1..Len(s) - 1, NEW n \in 1..Len(s) - 1, m < n
      PROVE  Priority(r[m]) >= Priority(r[n])
  <2>1. m + 1 \in DOMAIN s /\ n + 1 \in DOMAIN s /\ m + 1 < n + 1
    BY <1>1, <1>2
  <2> QED BY <1>1, <2>1 DEF Sorted
<1>3. Sorted(r)
  BY <1>1, <1>2 DEF Sorted
<1> QED BY <1>3 DEF r

\* Where insertion puts a task: behind the first i tasks, which are, in a
\* sorted queue, those of at least its priority.
LEMMA InsertPlace ==
  ASSUME NEW q \in Seq(Tasks), NEW t \in Tasks
  PROVE  \E i \in 0..Len(q) :
           /\ Insert(q, t) \in Seq(Tasks) /\ Len(Insert(q, t)) = Len(q) + 1
           /\ \A n \in 1..Len(q) + 1 :
                Insert(q, t)[n] = IF n <= i THEN q[n]
                                  ELSE IF n = i + 1 THEN t ELSE q[n - 1]
           /\ Sorted(q) => \A n \in 1..Len(q) : n <= i <=> Priority(q[n]) >= Priority(t)
<1> DEFINE D == {n \in DOMAIN q : Priority(q[n]) >= Priority(t)}
           i == Cardinality(D)
           r == Insert(q, t)
<1>1. Len(q) \in Nat /\ DOMAIN q = 1..Len(q) /\ \A n \in 1..Len(q) : q[n] \in Tasks
  OBVIOUS
<1>2. IsFiniteSet(D) /\ i \in 0..Len(q)
  <2>1. 1 \in Int /\ Len(q) \in Int /\ Len(q) - 1 + 1 = Len(q) /\ (1 > Len(q) => Len(q) = 0)
    BY <1>1
  <2>2. IsFiniteSet(1..Len(q)) /\ Cardinality(1..Len(q)) = Len(q)
    BY <2>1, FS_Interval
  <2>3. D \in SUBSET (1..Len(q))
    BY <1>1
  <2>4. IsFiniteSet(D) /\ Cardinality(D) <= Len(q)
    BY <2>2, <2>3, FS_Subset
  <2>5. Cardinality(D) \in Nat
    BY <2>4, FS_CardinalityType
  <2> QED BY <1>1, <2>4, <2>5
<1>3. /\ r \in Seq(Tasks) /\ Len(r) = Len(q) + 1
      /\ \A n \in 1..Len(q) + 1 : r[n] = IF n <= i THEN q[n]
                                        ELSE IF n = i + 1 THEN t ELSE q[n - 1]
  <2>1. r = (SubSeq(q, 1, (i + 1) - 1) \o <<t>>) \o SubSeq(q, i + 1, Len(q))
    BY DEF Insert, InsertAt
  <2> HIDE DEF i, r
  <2> DEFINE u == SubSeq(q, 1, i)
             v == SubSeq(q, i + 1, Len(q))
  <2>2. (i + 1) - 1 = i /\ i \in Nat /\ i <= Len(q)
    BY <1>1, <1>2
  <2>3. u \in Seq(Tasks) /\ Len(u) = i /\ \A n \in 1..i : u[n] = q[n]
    BY <1>1, <1>2
  <2>4. v \in Seq(Tasks) /\ Len(v) = Len(q) - i /\ \A n \in 1..Len(q) - i : v[n] = q[i + n]
    <3>1. i + 1 \in Int /\ Len(q) \in Int /\ \A n \in i + 1..Len(q) : q[n] \in Tasks
      BY <1>1, <2>2
    <3>2. /\ v \in Seq(Tasks)
          /\ Len(v) = IF i + 1 <= Len(q) THEN Len(q) - (i + 1) + 1 ELSE 0
          /\ \A n \in 1..Len(q) - (i + 1) + 1 : v[n] = q[(i + 1) + n - 1]
      BY <3>1, SubSeqProperties
    <3>3. Len(q) - (i + 1) + 1 = Len(q) - i /\ (i + 1 <= Len(q) \/ Len(q) - i = 0)
      <4>1. Len(q) \in Int /\ i \in Int /\ i <= Len(q)
        BY <1>1, <2>2
      <4>2. \A x, y \in Int : x <= y => /\ y - (x + 1) + 1 = y - x
                                        /\ x + 1 <= y \/ y - x = 0
        OBVIOUS
      <4> QED BY <4>1, <4>2
    <3>4. \A n \in 1..Len(q) - i : (i + 1) + n - 1 = i + n
      BY <1>1, <2>2
    <3> HIDE DEF v
    <3> QED BY <3>2, <3>3, <3>4
  <2>5. r = (u \o <<t>>) \o v
    BY <2>1, <2>2
  <2> HIDE DEF u, v
  <2> DEFINE w == u \o <<t>>
  <2>6. w \in Seq(Tasks) /\ Len(w) = i + 1
        /\ \A n \in 1..i + 1 : w[n] = IF n <= i THEN q[n] ELSE t
    BY <2>2, <2>3
  <2>7. r = w \o v
    BY <2>5
  <2> HIDE DEF w
  <2>8. r \in Seq(Tasks) /\ Len(r) = (i + 1) + (Len(q) - i)
    <3>1. \A x, y \in Seq(Tasks) : x \o y \in Seq(Tasks) /\ Len(x \o y) = Len(x) + Len(y)
      OBVIOUS
    <3>2. w \o v \in Seq(Tasks) /\ Len(w \o v) = Len(w) + Len(v)
      BY <2>4, <2>6, <3>1
    <3> QED BY <2>4, <2>6, <2>7, <3>2
  <2>9. ASSUME NEW n \in 1..Len(q) + 1
        PROVE  r[n] = IF n <= i THEN q[n] ELSE IF n = i + 1 THEN t ELSE q[n - 1]
    <3>1. r[n] = IF n <= i + 1 THEN w[n] ELSE v[n - (i + 1)]
      <4>1. \A x, y \in Seq(Tasks) : \A m \in 1..Len(x) + Len(y) :
              (x \o y)[m] = IF m <= Len(x) THEN x[m] ELSE y[m - Len(x)]
        OBVIOUS
      <4>2. n \in 1..Len(w) + Len(v)
        BY <1>1, <1>2, <2>4, <2>6
      <4>3. (w \o v)[n] = IF n <= Len(w) THEN w[n] ELSE v[n - Len(w)]
        BY <2>4, <2>6, <4>1, <4>2
      <4> QED BY <2>6, <2>7, <4>3
    <3>2. CASE n <= i + 1
      BY <1>1, <2>2, <2>6, <3>1, <3>2
    <3>3. CASE n > i + 1
      <4>1. n - (i + 1) \in 1..Len(q) - i /\ i + (n - (i + 1)) = n - 1
        BY <1>1, <2>2, <3>3
      <4>2. v[n - (i + 1)] = q[i + (n - (i + 1))]
        BY <2>4, <4>1
      <4>3. ~(n <= i + 1) /\ ~(n <= i) /\ n # i + 1
        BY <1>1, <2>2, <3>3
      <4>4. r[n] = v[n - (i + 1)]
        BY <3>1, <4>3
      <4>5. r[n] = q[n - 1]
        BY <4>1, <4>2, <4>4
      <4> QED BY <4>3, <4>5
    <3> QED BY <1>1, <2>2, <3>2, <3>3
  <2>10. Len(r) = Len(q) + 1
    BY <1>1, <2>2, <2>8
  <2> QED BY <2>8, <2>9, <2>10
<1>4. ASSUME Sorted(q) PROVE D = 1..i
  <2> HIDE DEF i
  <2>1. \A s \in Tasks : Priority(s) \in Nat
    BY ConstantsAssumption DEF Priority
  <2>2. ASSUME NEW n \in D PROVE n <= i
    <3>1. 1..n \in SUBSET D
      <4> SUFFICES ASSUME NEW m \in 1..n, m # n PROVE m \in D
        OBVIOUS
      <4>1. m \in DOMAIN q /\ m < n
        BY <1>1
      <4>2. Priority(q[m]) >= Priority(q[n]) /\ Priority(q[n]) >= Priority(t)
        BY <1>4, <4>1 DEF Sorted
      <4>3. Priority(q[m]) \in Nat /\ Priority(q[n]) \in Nat /\ Priority(t) \in Nat
        BY <1>1, <2>1, <4>1
      <4> QED BY <4>1, <4>2, <4>3
    <3>2. 1 \in Int /\ n \in Int /\ ~(1 > n) /\ n - 1 + 1 = n
      BY <1>1
    <3>3. Cardinality(1..n) = n
      BY <3>2, FS_Interval
    <3>4. Cardinality(1..n) <= Cardinality(D)
      BY <1>2, <3>1, FS_Subset
    <3> QED BY <3>3, <3>4 DEF i
  <2>3. D \in SUBSET (1..i)
    BY <1>1, <1>2, <2>2
  <2>4. 1 \in Int /\ i \in Int /\ (1 > i => i = 0) /\ i - 1 + 1 = i
    BY <1>1, <1>2
  <2>5. IsFiniteSet(1..i) /\ Cardinality(1..i) = i
    BY <2>4, FS_Interval
  <2>6. Cardinality(D) = i
    BY DEF i
  <2> QED BY <2>3, <2>5, <2>6, FS_Subset
<1>5. Sorted(q) => \A n \in 1..Len(q) : n <= i <=> Priority(q[n]) >= Priority(t)
  <2> HIDE DEF i
  <2> SUFFICES ASSUME Sorted(q), NEW n \in 1..Len(q)
               PROVE  n <= i <=> Priority(q[n]) >= Priority(t)
    OBVIOUS
  <2>1. n <= i <=> n \in 1..i
    BY <1>1, <1>2
  <2>2. n \in D <=> Priority(q[n]) >= Priority(t)
    BY <1>1
  <2> QED BY <1>4, <2>1, <2>2
<1> HIDE DEF i, r
<1> QED BY <1>2, <1>3, <1>5 DEF r

\* The queue after insertion of a task that was not in it.
LEMMA InsertEffect ==
  ASSUME NEW q \in Seq(Tasks), NEW t \in Tasks, IsInjective(q), Sorted(q), t \notin ToSet(q)
  PROVE  /\ Insert(q, t) \in Seq(Tasks) /\ Insert(q, t) # <<>>
         /\ IsInjective(Insert(q, t)) /\ Sorted(Insert(q, t))
         /\ ToSet(Insert(q, t)) = ToSet(q) \cup {t}
         /\ q = <<>> => Head(Insert(q, t)) = t /\ Tail(Insert(q, t)) = <<>>
<1> DEFINE r == Insert(q, t)
<1>1. /\ Len(q) \in Nat /\ DOMAIN q = 1..Len(q)
      /\ \A n \in 1..Len(q) : q[n] \in Tasks /\ q[n] # t
  BY DEF ToSet
<1>2. PICK i \in 0..Len(q) :
        /\ r \in Seq(Tasks) /\ Len(r) = Len(q) + 1
        /\ \A n \in 1..Len(q) + 1 : r[n] = IF n <= i THEN q[n]
                                          ELSE IF n = i + 1 THEN t ELSE q[n - 1]
        /\ \A n \in 1..Len(q) : n <= i <=> Priority(q[n]) >= Priority(t)
  BY InsertPlace
<1>3. r \in Seq(Tasks) /\ DOMAIN r = 1..Len(q) + 1
  BY <1>2
<1> HIDE DEF r
\* The place in q of an entry of r that is not t.
<1> DEFINE from(n) == IF n <= i THEN n ELSE n - 1
<1>4. \A n \in 1..Len(q) + 1 : n # i + 1 => from(n) \in 1..Len(q) /\ r[n] = q[from(n)]
  BY <1>1, <1>2
<1>5. r[i + 1] = t /\ i + 1 \in 1..Len(q) + 1
  BY <1>1, <1>2
<1>6. \A m, n \in 1..Len(q) + 1 : m # i + 1 /\ n # i + 1 =>
        /\ from(m) = from(n) => m = n
        /\ m < n => from(m) < from(n)
  BY <1>1, <1>2
<1>7. IsInjective(r)
  <2> HIDE DEF from
  <2> SUFFICES ASSUME NEW m \in 1..Len(q) + 1, NEW n \in 1..Len(q) + 1, r[m] = r[n]
               PROVE  m = n
    BY <1>3 DEF IsInjective
  <2>1. CASE m = i + 1 \/ n = i + 1
    BY <1>1, <1>4, <1>5, <2>1
  <2>2. CASE m # i + 1 /\ n # i + 1
    <3>1. from(m) \in DOMAIN q /\ from(n) \in DOMAIN q /\ q[from(m)] = q[from(n)]
      BY <1>1, <1>4, <2>2
    <3>2. from(m) = from(n)
      BY <3>1 DEF IsInjective
    <3> QED BY <1>6, <2>2, <3>2
  <2> QED BY <2>1, <2>2
<1>8. Sorted(r)
  <2> SUFFICES ASSUME NEW m \in 1..Len(q) + 1, NEW n \in 1..Len(q) + 1, m < n
               PROVE  Priority(r[m]) >= Priority(r[n])
    BY <1>3 DEF Sorted
  <2>1. \A s \in Tasks : Priority(s) \in Nat
    BY ConstantsAssumption DEF Priority
  <2>2. CASE m = i + 1
    <3>1. n # i + 1 /\ ~(from(n) <= i)
      BY <1>1, <1>2, <2>2
    <3>2. ~(Priority(q[from(n)]) >= Priority(t)) /\ q[from(n)] \in Tasks
      BY <1>1, <1>2, <1>4, <3>1
    <3> QED BY <1>4, <1>5, <2>1, <2>2, <3>1, <3>2
  <2>3. CASE n = i + 1
    <3>1. m # i + 1 /\ from(m) <= i
      BY <1>1, <1>2, <2>3
    <3>2. Priority(q[from(m)]) >= Priority(t)
      BY <1>2, <1>4, <3>1
    <3> QED BY <1>4, <1>5, <2>3, <3>1, <3>2
  <2>4. CASE m # i + 1 /\ n # i + 1
    <3>1. from(m) \in DOMAIN q /\ from(n) \in DOMAIN q /\ from(m) < from(n)
      BY <1>1, <1>4, <1>6, <2>4
    <3>2. Priority(q[from(m)]) >= Priority(q[from(n)])
      BY <3>1 DEF Sorted
    <3> QED BY <1>4, <2>4, <3>2
  <2> QED BY <2>2, <2>3, <2>4
<1>9. ToSet(r) = ToSet(q) \cup {t}
  <2>1. \A n \in 1..Len(q) : \E m \in 1..Len(q) + 1 : r[m] = q[n]
    <3> TAKE n \in 1..Len(q)
    <3> DEFINE m == IF n <= i THEN n ELSE n + 1
    <3>1. m \in 1..Len(q) + 1 /\ m # i + 1 /\ from(m) = n
      BY <1>1, <1>2
    <3> HIDE DEF m, from
    <3> QED BY <1>4, <3>1
  <2> HIDE DEF from
  <2>2. \A e : e \in ToSet(r) => e \in ToSet(q) \/ e = t
    BY <1>1, <1>3, <1>4, <1>5 DEF ToSet
  <2>3. \A e : e \in ToSet(q) => e \in ToSet(r)
    BY <1>1, <1>3, <2>1 DEF ToSet
  <2>4. t \in ToSet(r)
    BY <1>3, <1>5 DEF ToSet
  <2> QED BY <2>2, <2>3, <2>4
<1>10. ASSUME q = <<>> PROVE Head(r) = t /\ Tail(r) = <<>>
  <2>1. Len(q) = 0
    BY <1>10
  <2>2. i = 0 /\ Len(r) = 1 /\ r[1] = t
    BY <1>2, <1>5, <2>1
  <2>3. r = <<t>>
    BY <1>3, <2>2
  <2> QED BY <2>3
<1>11. r # <<>>
  BY <1>1, <1>2
<1> QED BY <1>3, <1>7, <1>8, <1>9, <1>10, <1>11 DEF r

-----------------------------------------------------------------------------
(* The queues of the agents.                                               *)

\* The tasks in the queue are those that are queued for the agent, each once and
\* in order of priority; the agent executes one task, and one whenever some wait.
AgentInv(a) ==
  /\ IsInjective(queue[a]) /\ Sorted(queue[a])
  /\ \A t \in Tasks : t \in ToSet(queue[a]) <=> exec[t].pc = "queued" /\ AgentOf[t] = a
  /\ \A t \in Tasks : running[a] = t <=> InFlight(t) /\ AgentOf[t] = a
  /\ queue[a] # <<>> => ~IsIdle(a)

QueueInv ==
  /\ exec \in [Tasks -> ExecTypes]
  /\ queue \in [Agents -> Seq(Tasks)] /\ running \in [Agents -> TaskOrNone]
  /\ \A a \in Agents : AgentInv(a)

LEMMA QueueInit == Init => QueueInv
<1> SUFFICES ASSUME Init PROVE QueueInv
  OBVIOUS
<1>1. /\ exec \in [Tasks -> ExecTypes] /\ \A t \in Tasks : exec[t].pc = "none"
      /\ queue = [a \in Agents |-> <<>>] /\ running = [a \in Agents |-> NoTask]
  BY DEF Init, NotRun, ExecTypes, Places
<1>2. <<>> \in Seq(Tasks) /\ IsInjective(<<>>) /\ Sorted(<<>>) /\ \A t : t \notin ToSet(<<>>)
  BY DEF IsInjective, Sorted, ToSet
<1>3. ASSUME NEW a \in Agents PROVE AgentInv(a)
  BY <1>1, <1>2, ConstantsAssumption DEF AgentInv, InFlight, IsIdle
<1> QED BY <1>1, <1>2, <1>3 DEF QueueInv, TaskOrNone

\* A task that has not been executed enters its queue, or begins when its agent
\* is idle; nothing else changes.
LEMMA EnqueueExact ==
  ASSUME QueueInv, NEW t \in Tasks, exec[t].pc = "none", Enqueue(t)
  PROVE  /\ QueueInv'
         /\ exec'[t].pc \in {"queued", "begin"} /\ exec'[t].result = exec[t].result
         /\ \A u \in Tasks \ {t} : exec'[u] = exec[u]
         /\ entries' = [entries EXCEPT ![t] = @ + 1]
<1> DEFINE a == AgentOf[t]
           r == Insert(queue[a], t)
<1>1. a \in Agents /\ queue[a] \in Seq(Tasks) /\ AgentInv(a) /\ t \notin ToSet(queue[a])
  BY ConstantsAssumption DEF QueueInv, AgentInv
<1>2. /\ r \in Seq(Tasks) /\ r # <<>> /\ IsInjective(r) /\ Sorted(r)
      /\ ToSet(r) = ToSet(queue[a]) \cup {t}
      /\ queue[a] = <<>> => Head(r) = t /\ Tail(r) = <<>>
  BY <1>1, InsertEffect DEF AgentInv
<1>3. \A w \in Places : /\ [exec EXCEPT ![t].pc = w] \in [Tasks -> ExecTypes]
                        /\ [exec EXCEPT ![t].pc = w][t].pc = w
                        /\ [exec EXCEPT ![t].pc = w][t].result = exec[t].result
  BY DEF QueueInv, ExecTypes
<1>4. {"queued", "begin"} \subseteq Places
  BY DEF Places
<1>5. \A b \in Agents \ {a} :
        queue'[b] = queue[b] /\ running'[b] = running[b]
        /\ (\A u \in Tasks \ {t} : exec'[u] = exec[u]) => AgentInv(b)'
  <2> TAKE b \in Agents \ {a}
  <2>1. AgentInv(b)
    BY DEF QueueInv
  <2> SUFFICES ASSUME queue'[b] = queue[b], running'[b] = running[b],
                      \A u \in Tasks \ {t} : exec'[u] = exec[u]
               PROVE  AgentInv(b)'
    OBVIOUS
  <2>2. t \notin ToSet(queue[b]) /\ running[b] # t
    BY <2>1 DEF AgentInv
  <2> QED BY <2>1, <2>2 DEF AgentInv, InFlight, IsIdle
<1>6. CASE IsIdle(a)
  <2>1. queue[a] = <<>>
    BY <1>1, <1>6 DEF AgentInv
  <2> DEFINE states == [exec EXCEPT ![t].pc = "queued"]
  <2>2. ProcessNext(a, r, states)
    BY <1>6 DEF Enqueue
  <2>3. /\ queue' = [queue EXCEPT ![a] = <<>>] /\ running' = [running EXCEPT ![a] = t]
        /\ exec' = [states EXCEPT ![t].pc = "begin"]
    BY <1>2, <2>1, <2>2 DEF ProcessNext
  <2>4. /\ states \in [Tasks -> ExecTypes] /\ states[t].result = exec[t].result
        /\ \A u \in Tasks \ {t} : states[u] = exec[u]
    BY DEF QueueInv, ExecTypes, Places
  <2> HIDE DEF states
  <2>5. /\ exec' \in [Tasks -> ExecTypes]
        /\ exec'[t].pc = "begin" /\ exec'[t].result = exec[t].result
        /\ \A u \in Tasks \ {t} : exec'[u] = exec[u]
    BY <1>4, <2>3, <2>4 DEF ExecTypes
  <2>6. /\ queue' \in [Agents -> Seq(Tasks)] /\ running' \in [Agents -> TaskOrNone]
        /\ queue'[a] = <<>> /\ running'[a] = t
        /\ \A b \in Agents \ {a} : queue'[b] = queue[b] /\ running'[b] = running[b]
    BY <1>1, <2>3 DEF QueueInv, TaskOrNone
  <2>7. AgentInv(a)'
    <3>1. IsInjective(<<>>) /\ Sorted(<<>>) /\ \A u : u \notin ToSet(<<>>)
      BY DEF IsInjective, Sorted, ToSet
    <3>2. \A u \in Tasks : ~(exec[u].pc = "queued" /\ AgentOf[u] = a)
      BY <1>1, <2>1, <3>1 DEF AgentInv
    <3>3. \A u \in Tasks : ~(InFlight(u) /\ AgentOf[u] = a)
      BY <1>1, <1>6, ConstantsAssumption DEF AgentInv, IsIdle
    <3>4. \A u \in Tasks \ {t} : InFlight(u)' <=> InFlight(u)
      BY <2>5 DEF InFlight
    <3>5. InFlight(t)'
      BY <2>5 DEF InFlight
    <3>6. \A u \in Tasks : u \in ToSet(queue[a])' <=> exec'[u].pc = "queued" /\ AgentOf[u] = a
      BY <2>5, <2>6, <3>1, <3>2
    <3>7. \A u \in Tasks : running'[a] = u <=> InFlight(u)' /\ AgentOf[u] = a
      BY <2>6, <3>3, <3>4, <3>5
    <3> QED BY <2>6, <3>1, <3>6, <3>7 DEF AgentInv
  <2> QED BY <1>5, <2>5, <2>6, <2>7 DEF QueueInv, Enqueue
<1>7. CASE ~IsIdle(a)
  <2>1. /\ queue' = [queue EXCEPT ![a] = r] /\ running' = running
        /\ exec' = [exec EXCEPT ![t].pc = "queued"]
    BY <1>7 DEF Enqueue
  <2>2. /\ exec' \in [Tasks -> ExecTypes]
        /\ exec'[t].pc = "queued" /\ exec'[t].result = exec[t].result
        /\ \A u \in Tasks \ {t} : exec'[u] = exec[u]
    BY <1>3, <1>4, <2>1 DEF QueueInv
  <2> HIDE DEF r
  <2>3. /\ queue' \in [Agents -> Seq(Tasks)] /\ queue'[a] = r
        /\ \A b \in Agents \ {a} : queue'[b] = queue[b]
    BY <1>1, <1>2, <2>1 DEF QueueInv
  <2>4. AgentInv(a)'
    <3>1. \A u \in Tasks : u \in ToSet(r) <=> exec'[u].pc = "queued" /\ AgentOf[u] = a
      BY <1>1, <1>2, <2>2 DEF AgentInv
    <3>2. \A u \in Tasks : InFlight(u)' <=> InFlight(u)
      BY <2>2 DEF InFlight
    <3>3. \A u \in Tasks : running'[a] = u <=> InFlight(u)' /\ AgentOf[u] = a
      BY <1>1, <2>1, <3>2 DEF AgentInv
    <3> QED BY <1>2, <1>7, <2>1, <2>3, <3>1, <3>3 DEF AgentInv, IsIdle
  <2> QED BY <1>5, <2>1, <2>2, <2>3, <2>4 DEF QueueInv, Enqueue
<1> QED BY <1>6, <1>7

\* No task but t moves, save one whose turn it is now.
OthersWait(t) ==
  \A u \in Tasks \ {t} :
    \/ exec'[u] = exec[u]
    \/ exec[u].pc = "queued" /\ exec'[u].pc = "begin" /\ exec'[u].result = exec[u].result

\* When an execution ends, its agent begins the next task of the queue, if any.
LEMMA FinishExact ==
  ASSUME QueueInv, NEW t \in Tasks, Finish(t)
  PROVE  QueueInv' /\ exec[t].pc = "finish" /\ exec'[t].pc = "done" /\ OthersWait(t)
<1> DEFINE a == AgentOf[t]
           states == [exec EXCEPT ![t].pc = "done"]
<1>1. a \in Agents /\ queue[a] \in Seq(Tasks) /\ AgentInv(a) /\ exec[t].pc = "finish"
  BY ConstantsAssumption DEF QueueInv, Finish
<1>2. /\ states \in [Tasks -> ExecTypes] /\ states[t].pc = "done"
      /\ \A u \in Tasks \ {t} : states[u] = exec[u]
  BY DEF QueueInv, ExecTypes, Places
<1>3. ProcessNext(a, queue[a], states)
  BY DEF Finish
<1>4. running[a] = t
  BY <1>1 DEF AgentInv, InFlight
<1>5. \A u \in Tasks \ {t} : ~(InFlight(u) /\ AgentOf[u] = a)
  BY <1>1, <1>4 DEF AgentInv
<1> HIDE DEF states
<1>6. \A b \in Agents \ {a} :
        queue'[b] = queue[b] /\ running'[b] = running[b]
        /\ (\A u \in Tasks : AgentOf[u] = b => exec'[u] = exec[u]) => AgentInv(b)'
  <2> TAKE b \in Agents \ {a}
  <2>1. AgentInv(b)
    BY DEF QueueInv
  <2> SUFFICES ASSUME queue'[b] = queue[b], running'[b] = running[b],
                      \A u \in Tasks : AgentOf[u] = b => exec'[u] = exec[u],
                      NEW u \in Tasks
               PROVE  /\ u \in ToSet(queue[b])' <=> exec'[u].pc = "queued" /\ AgentOf[u] = b
                      /\ running'[b] = u <=> InFlight(u)' /\ AgentOf[u] = b
    BY <2>1 DEF AgentInv, IsIdle
  <2>2. CASE AgentOf[u] = b
    BY <2>1, <2>2 DEF AgentInv, InFlight
  <2>3. CASE AgentOf[u] # b
    BY <2>1, <2>3 DEF AgentInv
  <2> QED BY <2>2, <2>3
<1>7. CASE queue[a] = <<>>
  <2>1. /\ queue' = queue /\ running' = [running EXCEPT ![a] = NoTask] /\ exec' = states
    BY <1>1, <1>3, <1>7 DEF ProcessNext, QueueInv
  <2>2. running' \in [Agents -> TaskOrNone] /\ running'[a] = NoTask
        /\ \A b \in Agents \ {a} : running'[b] = running[b]
    BY <1>1, <2>1 DEF QueueInv, TaskOrNone
  <2>3. AgentInv(a)'
    <3>1. \A u \in Tasks : u \notin ToSet(queue[a])
      BY <1>7 DEF ToSet
    <3>2. \A u \in Tasks : ~(exec'[u].pc = "queued" /\ AgentOf[u] = a)
      BY <1>1, <1>2, <2>1, <3>1 DEF AgentInv
    <3>3. \A u \in Tasks : ~(InFlight(u)' /\ AgentOf[u] = a)
      BY <1>2, <1>5, <2>1 DEF InFlight
    <3> QED BY <1>1, <1>7, <2>1, <2>2, <3>1, <3>2, <3>3, ConstantsAssumption DEF AgentInv
  <2> QED BY <1>2, <1>6, <2>1, <2>2, <2>3, <1>1 DEF QueueInv, OthersWait
<1>8. CASE queue[a] # <<>>
  <2> DEFINE r == Tail(queue[a])
  <2>a. PICK h \in Tasks : h = Head(queue[a])
    BY <1>1, <1>8, SeqParts
  <2>1. /\ h \in Tasks /\ r \in Seq(Tasks) /\ h \in ToSet(queue[a])
    BY <1>1, <1>8, <2>a, SeqParts
  <2>2. /\ IsInjective(r) /\ Sorted(r) /\ h \notin ToSet(r)
        /\ ToSet(r) = ToSet(queue[a]) \ {h}
    BY <1>1, <1>8, <2>a, TailInjective, TailSorted DEF AgentInv
  <2>3. exec[h].pc = "queued" /\ AgentOf[h] = a /\ h # t
    BY <1>1, <2>1 DEF AgentInv
  <2>4. /\ queue' = [queue EXCEPT ![a] = r] /\ running' = [running EXCEPT ![a] = h]
        /\ exec' = [states EXCEPT ![h].pc = "begin"]
    BY <1>3, <1>8, <2>a DEF ProcessNext
  <2> HIDE DEF r
  <2>5. /\ exec' \in [Tasks -> ExecTypes] /\ exec'[h].pc = "begin"
        /\ exec'[h].result = exec[h].result /\ exec'[t].pc = "done"
        /\ \A u \in Tasks \ {t, h} : exec'[u] = exec[u]
    <3>1. states[h] \in ExecTypes /\ states[h].pc = exec[h].pc /\ states[h].result = exec[h].result
      BY <1>2, <2>1, <2>3
    <3>2. [states[h] EXCEPT !.pc = "begin"] \in ExecTypes
      BY <3>1 DEF ExecTypes, Places
    <3>3. exec' = [states EXCEPT ![h] = [states[h] EXCEPT !.pc = "begin"]]
      BY <2>4
    <3>4. exec'[h] = [states[h] EXCEPT !.pc = "begin"]
      BY <1>2, <2>1, <3>3
    <3>5. exec'[h].pc = "begin" /\ exec'[h].result = exec[h].result
      BY <3>1, <3>4 DEF ExecTypes
    <3>6. \A u \in Tasks \ {h} : exec'[u] = states[u]
      BY <1>2, <3>3
    <3>7. exec' \in [Tasks -> ExecTypes]
      BY <1>2, <2>1, <3>2, <3>3
    <3> QED BY <1>2, <2>3, <3>5, <3>6, <3>7
  <2>6. /\ queue' \in [Agents -> Seq(Tasks)] /\ running' \in [Agents -> TaskOrNone]
        /\ queue'[a] = r /\ running'[a] = h
        /\ \A b \in Agents \ {a} : queue'[b] = queue[b] /\ running'[b] = running[b]
    BY <1>1, <2>1, <2>4 DEF QueueInv, TaskOrNone
  <2>7. AgentInv(a)'
    <3>1. \A u \in Tasks : u \in ToSet(queue[a])' <=> exec'[u].pc = "queued" /\ AgentOf[u] = a
      <4> TAKE u \in Tasks
      <4>1. u \in ToSet(queue[a])' <=> u \in ToSet(queue[a]) /\ u # h
        BY <2>2, <2>6
      <4>2. u \in ToSet(queue[a]) <=> exec[u].pc = "queued" /\ AgentOf[u] = a
        BY <1>1 DEF AgentInv
      <4>3. exec'[u].pc = "queued" <=> exec[u].pc = "queued" /\ u # h
        BY <1>1, <2>5
      <4> QED BY <4>1, <4>2, <4>3
    <3>2. InFlight(h)' /\ ~InFlight(t)'
      BY <2>5 DEF InFlight
    <3>3. \A u \in Tasks \ {t, h} : ~(InFlight(u)' /\ AgentOf[u] = a)
      BY <1>5, <2>5 DEF InFlight
    <3>4. \A u \in Tasks : running'[a] = u <=> InFlight(u)' /\ AgentOf[u] = a
      BY <2>3, <2>6, <3>2, <3>3
    <3>5. h # NoTask
      BY <2>1, ConstantsAssumption
    <3> QED BY <2>2, <2>6, <3>1, <3>4, <3>5 DEF AgentInv, IsIdle
  <2>8. ASSUME NEW b \in Agents \ {a} PROVE AgentInv(b)'
    BY <1>6, <2>3, <2>5, <2>6
  <2>9. OthersWait(t)
    BY <2>3, <2>5 DEF OthersWait
  <2> QED BY <1>1, <2>5, <2>6, <2>7, <2>8, <2>9 DEF QueueInv
<1> QED BY <1>7, <1>8

\* An execution that goes on leaves the queues alone.
LEMMA AdvanceExact ==
  ASSUME QueueInv, NEW t \in Tasks, exec' \in [Tasks -> ExecTypes],
         UNCHANGED <<queue, running>>, InFlight(t), InFlight(t)',
         \A u \in Tasks \ {t} : exec'[u] = exec[u]
  PROVE  QueueInv'
<1>1. \A u \in Tasks : /\ InFlight(u)' <=> InFlight(u)
                       /\ exec'[u].pc = "queued" <=> exec[u].pc = "queued"
  BY DEF InFlight
<1>2. ASSUME NEW a \in Agents PROVE AgentInv(a)'
  <2>1. AgentInv(a)
    BY DEF QueueInv
  <2> QED BY <1>1, <2>1 DEF AgentInv, IsIdle
<1> QED BY <1>2 DEF QueueInv

\* A restart empties the queues.
LEMMA RestartExact ==
  ASSUME QueueInv, Restart
  PROVE  /\ QueueInv'
         /\ \A t \in Tasks : \/ exec'[t] = exec[t] /\ exec[t].pc \in {"none", "done"}
                             \/ exec'[t].pc = "lost" /\ exec[t].pc \notin {"none", "done"}
<1>1. exec' = [t \in Tasks |-> IF exec[t].pc \in {"none", "done"} THEN exec[t]
                               ELSE [exec[t] EXCEPT !.pc = "lost"]]
  BY DEF Restart
<1>2. \A r \in ExecTypes : [r EXCEPT !.pc = "lost"] \in ExecTypes /\ [r EXCEPT !.pc = "lost"].pc = "lost"
  BY DEF ExecTypes, Places
<1>3. exec \in [Tasks -> ExecTypes]
  BY DEF QueueInv
<1>4. exec' \in [Tasks -> ExecTypes]
  BY <1>1, <1>2, <1>3
<1>5. \A t \in Tasks : \/ exec'[t] = exec[t] /\ exec[t].pc \in {"none", "done"}
                       \/ exec'[t].pc = "lost" /\ exec[t].pc \notin {"none", "done"}
  BY <1>1, <1>2, <1>3
<1>6. \A t \in Tasks : exec'[t].pc \in {"none", "done", "lost"}
  BY <1>5
<1>7. <<>> \in Seq(Tasks) /\ IsInjective(<<>>) /\ Sorted(<<>>) /\ \A t : t \notin ToSet(<<>>)
  BY DEF IsInjective, Sorted, ToSet
<1>8. queue' = [a \in Agents |-> <<>>] /\ running' = [a \in Agents |-> NoTask]
  BY DEF Restart
<1>9. ASSUME NEW a \in Agents PROVE AgentInv(a)'
  BY <1>6, <1>7, <1>8, ConstantsAssumption DEF AgentInv, InFlight, IsIdle
<1> QED BY <1>4, <1>5, <1>7, <1>8, <1>9 DEF QueueInv, TaskOrNone

-----------------------------------------------------------------------------
(* How a task comes to its first execution.                                *)

\* Only the tasks that need an approval have a request, and only those are
\* decided on.
CrossOnly ==
  /\ \A t \in Tasks \ Cross : request[t] = "none" /\ handler[t] \notin {"pending", "ask"}
  /\ \A d \in Deciders : decision[d].pc # "idle" => decision[d].task \in Cross

LEMMA CrossOnlyInit == Init => CrossOnly
BY ChildrenNotCross DEF Init, CrossOnly, Undecided

LEMMA CrossOnlyHandlers ==
  ASSUME Shape, DOMAIN request = Tasks, CrossOnly, NEW r \in Tasks,
         Admit(r) \/ SubmitStep(r) \/ SubmitError(r)
  PROVE  CrossOnly'
<1>1. /\ \A t \in Tasks \ {r} : handler'[t] = handler[t]
      /\ r \notin Cross => handler'[r] \notin {"pending", "ask"}
  BY DEF CrossOnly, Admit, SubmitStep, SubmitError, CreatePending, Ask, Acquire,
         MarkPreempted, CreateBlocked, Create, FanOut, Goto, Shape
<1>2. \A t \in Tasks \ Cross : request'[t] = request[t]
  BY DEF CrossOnly, Admit, SubmitStep, SubmitError, CreatePending, Ask, Acquire,
         MarkPreempted, CreateBlocked, Create, FanOut, storeVars
<1>3. UNCHANGED decision
  BY DEF Admit, SubmitStep, SubmitError, CreatePending, Ask, Acquire,
         MarkPreempted, CreateBlocked, Create, FanOut
<1> QED BY <1>1, <1>2, <1>3 DEF CrossOnly

LEMMA CrossOnlyDecisions ==
  ASSUME Shape, DOMAIN request = Tasks, CrossOnly, NEW d \in Deciders,
         \/ \E t \in Tasks : Decide(d, t)
         \/ ApplyVerdict(d) \/ FollowUp(d) \/ DecideError(d)
  PROVE  CrossOnly'
<1>1. UNCHANGED handler
  BY DEF Decide, ApplyVerdict, FollowUp, DecideError, handlerVars
<1>2. CASE \E t \in Tasks : Decide(d, t)
  <2>1. PICK t \in Tasks : Decide(d, t)
    BY <1>2
  <2>2. t \in Cross
    BY <2>1 DEF Decide, CrossOnly
  <2>3. UNCHANGED request
    BY <2>1 DEF Decide, storeVars
  <2>4. /\ \A e \in Deciders \ {d} : decision'[e] = decision[e]
        /\ decision'[d].task = t
    BY <2>1 DEF Decide, Shape
  <2> QED BY <1>1, <2>2, <2>3, <2>4 DEF CrossOnly
<1>3. CASE ApplyVerdict(d) \/ FollowUp(d) \/ DecideError(d)
  <2>1. decision[d].pc # "idle" /\ decision[d].task \in Cross
    BY <1>3 DEF ApplyVerdict, FollowUp, DecideError, CrossOnly
  <2>2. /\ \A e \in Deciders \ {d} : decision'[e] = decision[e]
        /\ decision'[d].task = decision[d].task
    BY <1>3 DEF ApplyVerdict, FollowUp, DecideError, Shape, DecisionTypes
  <2>3. \A t \in Tasks \ Cross : request'[t] = request[t]
    BY <1>3, <2>1 DEF ApplyVerdict, FollowUp, DecideError, storeVars
  <2> QED BY <1>1, <2>1, <2>2, <2>3 DEF CrossOnly
<1> QED BY <1>2, <1>3

LEMMA CrossOnlyOthers ==
  ASSUME Shape, CrossOnly,
         \/ \E t \in Tasks : \/ ExecStep(t) \/ ExecError(t)
                             \/ Cancel(t) \/ CancelOne(t) \/ RunOut(t)
         \/ \E o \in Operators : Floor(o)
         \/ \E k \in Keys : TakeLock(k)
         \/ ExpirePending \/ Restart \/ UNCHANGED vars
  PROVE  CrossOnly'
<1>1. CASE Restart
  <2>1. \A t \in Tasks : handler'[t] \in {handler[t], "closed"} /\ request' = request
    BY <1>1 DEF Restart, storeVars
  <2>2. \A d \in Deciders : /\ decision'[d].task = decision[d].task
                            /\ decision[d].pc = "idle" => decision'[d].pc = "idle"
    BY <1>1 DEF Restart, Shape, DecisionTypes
  <2> QED BY <2>1, <2>2 DEF CrossOnly
<1>2. CASE ~Restart
  <2>1. UNCHANGED <<handler, decision>>
    BY <1>2 DEF ExecStep, Begin, Return, ReadStatus, WriteResult, Release, Finish,
         ExecError, Cancel, CancelOne, RunOut, Floor, TakeLock, ExpirePending,
         vars, handlerVars
  <2>2. \/ UNCHANGED request
        \/ request' = [t \in Tasks |-> IF t \in overdue /\ request[t] = "pending"
                                       THEN "expired" ELSE request[t]]
    BY <1>2 DEF ExecStep, Begin, Return, ReadStatus, WriteResult, Release, Finish,
         ExecError, Cancel, CancelOne, RunOut, Floor, TakeLock, ExpirePending,
         vars, storeVars
  <2> QED BY <2>1, <2>2 DEF CrossOnly
<1> QED BY <1>1, <1>2

\* A child task is handled with its department, each once; until a task's own
\* request, the fan-out of its department or its approval hands it to the
\* executor, it has not been executed.
Fresh(t) ==
  /\ t \in Children => handler[t] = "closed"
  /\ IsInjective(left[t]) /\ ToSet(left[t]) \subseteq ToSet(ChildrenOf[t])
  /\ \/ t \in Fanned
     \/ t \in Cross /\ entries[t] = 0
     \/ t \notin Cross /\ handler[t] # "closed"
     \/ \E r \in Tasks : t \in ToSet(left[r])
     => exec[t].pc = "none"

EntryInv ==
  /\ ApprovalInv /\ CrossOnly /\ QueueInv
  /\ \A t \in Tasks : Fresh(t)

LEMMA EntryInit == Init => EntryInv
<1> SUFFICES ASSUME Init PROVE EntryInv
  OBVIOUS
<1>1. ApprovalInv /\ CrossOnly /\ QueueInv
  BY ApprovalInit, CrossOnlyInit, QueueInit
<1>2. ASSUME NEW t \in Tasks PROVE Fresh(t)
  BY ConstantsAssumption DEF Init, Fresh, NotRun
<1> QED BY <1>1, <1>2 DEF EntryInv

\* What does not execute a task and does not reopen its request keeps it fresh.
LEMMA FreshStays ==
  ASSUME NEW t \in Tasks, Fresh(t), IsInjective(left'[t]),
         \A r \in Tasks : ToSet(left'[r]) \subseteq ToSet(left[r]),
         exec[t].pc = "none" => exec'[t].pc = "none",
         handler'[t] # "closed" => handler[t] # "closed",
         entries'[t] = 0 => entries[t] = 0
  PROVE  Fresh(t)'
BY DEF Fresh

\* The handler of a request for one agent hands over a fresh task.
LEMMA CreateEnters ==
  ASSUME EntryInv, NEW r \in Tasks, Create(r)
  PROVE  /\ r \notin Cross \cup Fanned \cup Children
         /\ exec[r].pc = "none" /\ left[r] = ChildrenOf[r]
         /\ \A q \in Tasks : r \notin ToSet(left[q])
<1>1. Fresh(r) /\ handler[r] = "create" /\ r \notin Fanned
  BY DEF EntryInv, Create
<1>2. r \notin Cross
  BY <1>1 DEF EntryInv, ApprovalInv, Approval
<1>3. r \notin Children /\ exec[r].pc = "none"
  BY <1>1, <1>2 DEF Fresh
<1>4. ChildrenOf[r] = <<>> /\ left[r] \in Seq(Tasks)
  BY <1>1 DEF Fanned, EntryInv, ApprovalInv, Shape
<1>5. \A e : e \notin ToSet(left[r])
  <2>1. ToSet(<<>>) = {}
    BY DEF ToSet
  <2> QED BY <1>1, <1>4, <2>1 DEF Fresh
<1>6. left[r] = <<>>
  <2> SUFFICES ASSUME left[r] # <<>> PROVE FALSE
    OBVIOUS
  <2> QED BY <1>4, <1>5, SeqParts
<1>7. \A q \in Tasks : r \notin ToSet(left[q])
  BY <1>3 DEF EntryInv, ApprovalInv
<1> QED BY <1>1, <1>2, <1>3, <1>4, <1>6, <1>7

\* So does the fan-out of a department: its next child task.
LEMMA FanOutEnters ==
  ASSUME EntryInv, NEW r \in Tasks, FanOut(r), left[r] # <<>>
  PROVE  \E c \in Tasks :
           /\ c = Head(left[r]) /\ c \in ToSet(ChildrenOf[r])
           /\ c \in Children /\ c \notin Cross \cup Fanned
           /\ exec[c].pc = "none" /\ handler[c] = "closed" /\ Enqueue(c)
           /\ left' = [left EXCEPT ![r] = Tail(@)]
           /\ IsInjective(left'[r]) /\ ToSet(left'[r]) \subseteq ToSet(left[r])
           /\ \A q \in Tasks : c \notin ToSet(left'[q])
<1> DEFINE c == Head(left[r])
<1>1. left[r] \in Seq(Tasks) /\ Fresh(r) /\ left \in [Tasks -> Seq(Tasks)]
  BY DEF EntryInv, ApprovalInv, Shape
<1>2. c \in Tasks /\ c \in ToSet(left[r])
  BY <1>1, SeqParts
<1>3. /\ IsInjective(Tail(left[r])) /\ c \notin ToSet(Tail(left[r]))
      /\ ToSet(Tail(left[r])) = ToSet(left[r]) \ {c}
  BY <1>1, TailInjective DEF Fresh
<1>4. Enqueue(c) /\ left' = [left EXCEPT ![r] = Tail(@)]
  BY DEF FanOut
<1> HIDE DEF c
<1>5. c \in ToSet(ChildrenOf[r]) /\ c \in Children /\ c \notin Cross
  BY <1>1, <1>2, ChildrenNotCross DEF Fresh
<1>6. exec[c].pc = "none" /\ handler[c] = "closed"
  BY <1>2, <1>5 DEF EntryInv, Fresh
<1>7. c \notin Fanned
  BY <1>5, ConstantsAssumption DEF Fanned
<1>8. left'[r] = Tail(left[r]) /\ \A q \in Tasks \ {r} : left'[q] = left[q]
  BY <1>1, <1>4
<1>9. ASSUME NEW q \in Tasks, q # r PROVE c \notin ToSet(left[q])
  <2>1. ToSet(left[q]) \subseteq ToSet(ChildrenOf[q])
    BY DEF EntryInv, Fresh
  <2> QED BY <1>5, <1>9, <2>1, ConstantsAssumption
<1> QED BY <1>2, <1>3, <1>4, <1>5, <1>6, <1>7, <1>8, <1>9 DEF c

\* And the follow-up of an approval.
LEMMA FollowEnters ==
  ASSUME EntryInv, NEW d \in Deciders, FollowUp(d), decision[d].verdict = "approved"
  PROVE  LET t == decision[d].task IN
           /\ t \in Tasks /\ t \in Cross /\ t \notin Children \cup Fanned
           /\ exec[t].pc = "none" /\ entries[t] = 0 /\ handler[t] = "closed"
           /\ request[t] = "approved" /\ Enqueue(t)
<1> DEFINE t == decision[d].task
<1>1. decision[d].pc = "follow" /\ Enqueue(t)
  BY DEF FollowUp
<1>2. t \in Cross /\ t \in Tasks /\ t \notin Children \cup Fanned
  BY <1>1, ConstantsAssumption DEF EntryInv, CrossOnly
<1>3. Approving(d, t)
  BY <1>1 DEF Approving
<1>4. Approval(t) /\ Fresh(t)
  BY <1>2 DEF EntryInv, ApprovalInv
<1>5. request[t] = "approved" /\ entries[t] = 0
  BY <1>3, <1>4 DEF Approval
<1>6. exec[t].pc = "none" /\ handler[t] = "closed"
  BY <1>2, <1>4, <1>5 DEF Fresh, Approval
<1> QED BY <1>1, <1>2, <1>5, <1>6

\* Every step is one of these, as far as the queues are concerned: a fresh task
\* enters, an execution goes on or ends, or the process restarts.
Enters(t) ==
  /\ Enqueue(t) /\ exec[t].pc = "none" /\ t \notin Fanned
  /\ t \notin Cross => handler'[t] = "closed"
  /\ t \notin Cross \cup Children => handler[t] = "create"
  /\ \A q \in Tasks : t \notin ToSet(left'[q])

Executes(t) == \/ Begin(t) \/ Return(t) \/ ReadStatus(t) \/ WriteResult(t)
               \/ Release(t) \/ ExecError(t)

Advances(t) ==
  /\ Executes(t) /\ InFlight(t) /\ InFlight(t)' /\ \A u \in Tasks \ {t} : exec'[u] = exec[u]
  /\ UNCHANGED <<queue, running, entries>>

LEMMA Kinds ==
  ASSUME EntryInv, Shape', [Next]_vars
  PROVE  \/ \E t \in Tasks : Enters(t) \/ Advances(t) \/ Finish(t)
         \/ Restart \/ UNCHANGED queueVars
<1>0. Shape
  BY DEF EntryInv, ApprovalInv
<1>1. CASE \E t \in Tasks : Create(t)
  <2>1. PICK t \in Tasks : Create(t)
    BY <1>1
  <2>2. /\ t \notin Fanned /\ exec[t].pc = "none"
        /\ \A q \in Tasks : t \notin ToSet(left[q])
    BY <2>1, CreateEnters
  <2>3. Enqueue(t) /\ left' = left /\ handler'[t] = "closed" /\ handler[t] = "create"
    BY <1>0, <2>1 DEF Create, Goto, Shape
  <2> QED BY <2>2, <2>3 DEF Enters
<1>2. CASE \E t \in Tasks : FanOut(t)
  <2>1. PICK r \in Tasks : FanOut(r)
    BY <1>2
  <2>2. CASE left[r] = <<>>
    BY <2>1, <2>2 DEF FanOut
  <2>3. CASE left[r] # <<>>
    <3>1. PICK c \in Tasks : /\ c \notin Fanned /\ exec[c].pc = "none"
                             /\ c \in Children /\ handler[c] = "closed" /\ Enqueue(c)
                             /\ \A q \in Tasks : c \notin ToSet(left'[q])
      BY <2>1, <2>3, FanOutEnters
    <3>2. handler' = handler
      BY <2>1, <2>3 DEF FanOut
    <3> QED BY <3>1, <3>2 DEF Enters
  <2> QED BY <2>2, <2>3
<1>3. CASE \E d \in Deciders : FollowUp(d)
  <2>1. PICK d \in Deciders : FollowUp(d)
    BY <1>3
  <2>2. CASE decision[d].verdict = "approved"
    <3>1. PICK t \in Tasks : /\ t = decision[d].task
                             /\ t \in Cross /\ t \notin Children \cup Fanned
                             /\ exec[t].pc = "none" /\ Enqueue(t)
      BY <2>1, <2>2, FollowEnters
    <3>2. left' = left
      BY <2>1 DEF FollowUp, handlerVars
    <3>3. \A q \in Tasks : t \notin ToSet(left'[q])
      BY <3>1, <3>2 DEF EntryInv, ApprovalInv
    <3> QED BY <3>1, <3>3 DEF Enters
  <2>3. CASE decision[d].verdict # "approved"
    BY <2>1, <2>3 DEF FollowUp
  <2> QED BY <2>2, <2>3
<1>4. CASE \E t \in Tasks : Executes(t)
  <2>1. PICK t \in Tasks : Executes(t)
    BY <1>4
  <2>2. UNCHANGED <<queue, running, entries>> /\ InFlight(t)
    BY <2>1 DEF Executes, Begin, Return, ReadStatus, WriteResult, Release, ExecError,
                Step, InFlight
  <2>3. InFlight(t)' /\ \A u \in Tasks \ {t} : exec'[u] = exec[u]
    <3>1. CASE Begin(t) \/ ReadStatus(t) \/ WriteResult(t) \/ Release(t)
      BY <1>0, <3>1 DEF Begin, ReadStatus, WriteResult, Release, Step, InFlight,
                        Shape, ExecTypes
    <3>2. CASE Return(t) \/ ExecError(t)
      BY <1>0, <3>2 DEF Return, ExecError, InFlight, Shape, ExecTypes
    <3> QED BY <2>1, <3>1, <3>2 DEF Executes
  <2> QED BY <2>1, <2>2, <2>3 DEF Advances
<1>5. CASE \E t \in Tasks : Finish(t)
  BY <1>5
<1>6. CASE Restart
  BY <1>6
<1>7. CASE \/ UNCHANGED vars \/ ExpirePending
           \/ \E t \in Tasks : \/ Admit(t) \/ SubmitError(t) \/ CreatePending(t) \/ Ask(t)
                               \/ Acquire(t) \/ MarkPreempted(t) \/ CreateBlocked(t)
                               \/ Cancel(t) \/ CancelOne(t) \/ RunOut(t)
           \/ \E o \in Operators : Floor(o)
           \/ \E k \in Keys : TakeLock(k)
           \/ \E d \in Deciders : \/ \E t \in Tasks : Decide(d, t)
                                  \/ ApplyVerdict(d) \/ DecideError(d)
  BY <1>7 DEF vars, ExpirePending, Admit, SubmitError, CreatePending, Ask, Acquire,
     MarkPreempted, CreateBlocked, Cancel, CancelOne, RunOut, Floor, TakeLock, Decide,
     ApplyVerdict, DecideError
<1> QED BY <1>1, <1>2, <1>3, <1>4, <1>5, <1>6, <1>7 DEF Next, SubmitStep, ExecStep, Executes

\* What that says of the executions and the entries.
LEMMA KindsEffect ==
  ASSUME EntryInv, Shape', [Next]_vars
  PROVE  /\ QueueInv'
         /\ \/ \E t \in Tasks :
                 \/ /\ Enters(t) /\ exec'[t].pc \in {"queued", "begin"}
                    /\ exec'[t].result = exec[t].result
                    /\ \A u \in Tasks \ {t} : exec'[u] = exec[u]
                    /\ entries' = [entries EXCEPT ![t] = @ + 1]
                 \/ Advances(t)
                 \/ /\ Finish(t) /\ exec'[t].pc = "done"
                    /\ OthersWait(t)
            \/ /\ Restart
               /\ \A t \in Tasks :
                    \/ exec'[t] = exec[t] /\ exec[t].pc \in {"none", "done"}
                    \/ exec'[t].pc = "lost" /\ exec[t].pc \notin {"none", "done"}
            \/ UNCHANGED queueVars
<1>0. QueueInv /\ exec' \in [Tasks -> ExecTypes]
  BY DEF EntryInv, Shape
<1>1. CASE \E t \in Tasks : Enters(t)
  BY <1>0, <1>1, EnqueueExact DEF Enters
<1>2. CASE \E t \in Tasks : Advances(t)
  BY <1>0, <1>2, AdvanceExact DEF Advances
<1>3. CASE \E t \in Tasks : Finish(t)
  BY <1>0, <1>3, FinishExact
<1>4. CASE Restart
  BY <1>0, <1>4, RestartExact
<1>5. CASE UNCHANGED queueVars
  BY <1>0, <1>5 DEF queueVars, QueueInv, AgentInv, InFlight, IsIdle
<1> QED BY <1>1, <1>2, <1>3, <1>4, <1>5, Kinds

\* A request is closed for good, and a fan-out only gets shorter.
LEMMA RequestsClose ==
  ASSUME EntryInv, [Next]_vars
  PROVE  /\ \A t \in Tasks : handler'[t] # "closed" => handler[t] # "closed"
         /\ \A r \in Tasks : /\ IsInjective(left'[r])
                             /\ ToSet(left'[r]) \subseteq ToSet(left[r])
<1>0. Shape /\ \A r \in Tasks : IsInjective(left[r])
  BY DEF EntryInv, ApprovalInv, Fresh
<1>1. CASE \E r \in Tasks : Admit(r) \/ SubmitStep(r) \/ SubmitError(r)
  <2>1. PICK r \in Tasks : Admit(r) \/ SubmitStep(r) \/ SubmitError(r)
    BY <1>1
  <2>2. handler[r] # "closed" /\ \A t \in Tasks \ {r} : handler'[t] = handler[t]
    BY <1>0, <2>1 DEF Admit, SubmitStep, SubmitError, CreatePending, Ask, Acquire,
       MarkPreempted, CreateBlocked, Create, FanOut, Goto, Open, Shape
  <2>3. CASE FanOut(r) /\ left[r] # <<>>
    <3>1. /\ left' = [left EXCEPT ![r] = Tail(@)]
          /\ IsInjective(left'[r]) /\ ToSet(left'[r]) \subseteq ToSet(left[r])
      BY <2>3, FanOutEnters
    <3>2. \A q \in Tasks \ {r} : left'[q] = left[q]
      BY <1>0, <3>1 DEF Shape
    <3> QED BY <1>0, <2>2, <3>1, <3>2
  <2>4. CASE ~(FanOut(r) /\ left[r] # <<>>)
    <3>1. left' = left
      BY <2>1, <2>4 DEF Admit, SubmitStep, SubmitError, CreatePending, Ask, Acquire,
         MarkPreempted, CreateBlocked, Create, FanOut
    <3> QED BY <1>0, <2>2, <3>1
  <2> QED BY <2>3, <2>4
<1>2. CASE Restart
  BY <1>0, <1>2 DEF Restart, Open
<1>3. CASE \/ UNCHANGED vars \/ ExpirePending
           \/ \E t \in Tasks : \/ ExecStep(t) \/ ExecError(t)
                               \/ Cancel(t) \/ CancelOne(t) \/ RunOut(t)
           \/ \E o \in Operators : Floor(o)
           \/ \E k \in Keys : TakeLock(k)
           \/ \E d \in Deciders : \/ \E t \in Tasks : Decide(d, t)
                                  \/ ApplyVerdict(d) \/ FollowUp(d) \/ DecideError(d)
  <2>1. UNCHANGED handlerVars
    BY <1>3 DEF vars, ExpirePending, ExecStep, Begin, Return, ReadStatus, WriteResult,
       Release, Finish, ExecError, Cancel, CancelOne, RunOut, Floor, TakeLock, Decide,
       ApplyVerdict, FollowUp, DecideError
  <2> QED BY <1>0, <2>1 DEF handlerVars
<1> QED BY <1>1, <1>2, <1>3 DEF Next

LEMMA EntryNext == EntryInv /\ [Next]_vars => EntryInv'
<1> SUFFICES ASSUME EntryInv, [Next]_vars PROVE EntryInv'
  OBVIOUS
<1>1. Shape /\ Shape' /\ ApprovalInv /\ DOMAIN request = Tasks /\ CrossOnly
  BY ShapeNext DEF EntryInv, ApprovalInv
<1>2. ApprovalInv'
  BY <1>1, ApprovalHandlers, ApprovalOthers, ApprovalDecisions DEF Next
<1>3. CrossOnly'
  BY <1>1, CrossOnlyHandlers, CrossOnlyOthers, CrossOnlyDecisions DEF Next
<1>4. QueueInv'
  BY <1>1, KindsEffect
<1>5. ASSUME NEW u \in Tasks,
             exec[u].pc = "none" => exec'[u].pc = "none", entries'[u] = 0 => entries[u] = 0
      PROVE  Fresh(u)'
  <2>1. Fresh(u)
    BY DEF EntryInv
  <2> QED BY <1>5, <2>1, RequestsClose, FreshStays
<1>6. ASSUME NEW u \in Tasks PROVE Fresh(u)'
  <2>1. CASE \E t \in Tasks : /\ Enters(t) /\ exec'[t].pc \in {"queued", "begin"}
                              /\ \A v \in Tasks \ {t} : exec'[v] = exec[v]
                              /\ entries' = [entries EXCEPT ![t] = @ + 1]
    <3>1. PICK t \in Tasks : /\ Enters(t) /\ exec'[t].pc \in {"queued", "begin"}
                             /\ \A v \in Tasks \ {t} : exec'[v] = exec[v]
                             /\ entries' = [entries EXCEPT ![t] = @ + 1]
      BY <2>1
    <3>2. CASE u = t
      <4>1. entries'[u] # 0
        BY <1>1, <3>1, <3>2 DEF ApprovalInv
      <4>2. Fresh(u)
        BY DEF EntryInv
      <4>3. u \notin Fanned /\ (u \notin Cross => handler'[u] = "closed")
            /\ \A q \in Tasks : u \notin ToSet(left'[q])
        BY <3>1, <3>2 DEF Enters
      <4>4. /\ IsInjective(left'[u]) /\ ToSet(left'[u]) \subseteq ToSet(left[u])
            /\ handler'[u] # "closed" => handler[u] # "closed"
        BY RequestsClose
      <4> QED BY <4>1, <4>2, <4>3, <4>4 DEF Fresh
    <3>3. CASE u # t
      BY <1>1, <1>5, <3>1, <3>3 DEF ApprovalInv
    <3> QED BY <3>2, <3>3
  <2>2. CASE \E t \in Tasks : Advances(t)
    BY <1>5, <2>2 DEF Advances, InFlight
  <2>3. CASE \E t \in Tasks : Finish(t) /\ exec'[t].pc = "done" /\ OthersWait(t)
    BY <1>5, <2>3 DEF Finish, OthersWait
  <2>4. CASE Restart /\ \A t \in Tasks :
                  \/ exec'[t] = exec[t] /\ exec[t].pc \in {"none", "done"}
                  \/ exec'[t].pc = "lost" /\ exec[t].pc \notin {"none", "done"}
    BY <1>5, <2>4 DEF Restart
  <2>5. CASE UNCHANGED queueVars
    BY <1>5, <2>5 DEF queueVars
  <2> QED BY <1>1, <2>1, <2>2, <2>3, <2>4, <2>5, KindsEffect
<1> QED BY <1>2, <1>3, <1>4, <1>6 DEF EntryInv

\* "one at a time per agent" (task-queue.ts:14-20): however tasks are submitted,
\* fanned out and approved, and however their executions end, no agent executes
\* two tasks, and none waits for an agent that executes nothing.
THEOREM SerialQueues == Spec => []SerialAgents
<1>1. EntryInv => SerialAgents
  <2> SUFFICES ASSUME EntryInv PROVE SerialAgents
    OBVIOUS
  <2>1. \A a \in Agents : AgentInv(a)
    BY DEF EntryInv, QueueInv
  <2>2. \A t \in Tasks : AgentOf[t] \in Agents
    BY ConstantsAssumption
  <2>3. ASSUME NEW t \in Tasks, NEW u \in Tasks, InFlight(t), InFlight(u),
               AgentOf[t] = AgentOf[u]
        PROVE  t = u
    BY <2>1, <2>2, <2>3 DEF AgentInv
  <2> QED BY <2>1, <2>3 DEF AgentInv, SerialAgents
<1> QED BY <1>1, EntryInit, EntryNext, PTL DEF Spec

\* Each queue is in order of priority at every moment (task-queue.ts:22-26),
\* although a task is sorted in only when it enters.
THEOREM PriorityOrder == Spec => [](\A a \in Agents : Sorted(queue[a]))
<1>1. EntryInv => \A a \in Agents : Sorted(queue[a])
  BY DEF EntryInv, QueueInv, AgentInv
<1> QED BY <1>1, EntryInit, EntryNext, PTL DEF Spec

-----------------------------------------------------------------------------
(* The records of the tasks.                                               *)

Statuses == {"none", "queued", "running", "completed", "failed", "cancelled",
             "pending_approval", "blocked", "preempted"}
Final == {"completed", "failed", "cancelled", "preempted"}
Over(t) == exec[t].pc \in {"release", "finish", "done"}

\* A task that is executed or awaits an approval has a record; an execution that
\* is about to write has a result; one that is over has left a final status.
Record(t) ==
  /\ exec[t].pc # "none" \/ request[t] # "none" \/ handler[t] = "ask" => status[t] # "none"
  /\ exec[t].pc \in {"read", "write"} => exec[t].result \in {"completed", "failed"}
  /\ errors = 0 /\ Over(t) => status[t] \in Final

RecordInv ==
  /\ EntryInv /\ status \in [Tasks -> Statuses]
  /\ \A t \in Tasks : Record(t)

\* A step of another task or of an execution that is over leaves the status or
\* makes it a final one, and no record is ever deleted.
StatusMoves(u) ==
  /\ status[u] # "none" => status'[u] # "none"
  /\ status'[u] \in {status[u]} \cup Final \/ exec[u].pc \in {"none", "begin"}
  /\ exec[u].pc = "none" => exec'[u].pc = "none" \/ status'[u] # "none"

LEMMA UpdatedEffect ==
  ASSUME status \in [Tasks -> Statuses], NEW t, NEW s \in Statuses \ {"none"}
  PROVE  /\ Updated(t, s) \in [Tasks -> Statuses]
         /\ \A u \in Tasks : Updated(t, s)[u] =
              IF u = t /\ status[u] # "none" THEN s ELSE status[u]
BY DEF Updated

LEMMA RecordInit == Init => RecordInv
<1> SUFFICES ASSUME Init PROVE RecordInv
  OBVIOUS
<1>1. EntryInv
  BY EntryInit
<1>2. status \in [Tasks -> Statuses]
  BY DEF Init, Statuses
<1>3. \A t \in Tasks : Record(t)
  BY DEF Init, Record, NotRun, Over
<1> QED BY <1>1, <1>2, <1>3 DEF RecordInv

\* Requests write the status of tasks that have not been executed.
LEMMA StatusHandlers ==
  ASSUME RecordInv, NEW r \in Tasks,
         Admit(r) \/ SubmitStep(r) \/ SubmitError(r)
  PROVE  /\ status' \in [Tasks -> Statuses]
         /\ \A u \in Tasks : StatusMoves(u)
<1>0. /\ EntryInv /\ Shape /\ QueueInv /\ status \in [Tasks -> Statuses]
      /\ Fresh(r)
  BY DEF RecordInv, EntryInv, ApprovalInv
<1>1. CASE Admit(r) \/ SubmitError(r) \/ Ask(r) \/ Acquire(r)
  <2>1. UNCHANGED <<status, exec>>
    BY <1>1 DEF Admit, SubmitError, Ask, Acquire, storeVars, queueVars
  <2> QED BY <1>0, <2>1 DEF StatusMoves
<1>2. CASE CreatePending(r) \/ CreateBlocked(r)
  <2>1. exec[r].pc = "none"
    <3>1. CASE CreatePending(r)
      <4>1. handler[r] = "pending" /\ r \in Cross
        BY <1>0, <3>1 DEF CreatePending, EntryInv, CrossOnly
      <4>2. Approval(r)
        BY <1>0, <4>1 DEF EntryInv, ApprovalInv
      <4>3. entries[r] = 0
        BY <4>1, <4>2 DEF Approval
      <4> QED BY <1>0, <4>1, <4>3 DEF Fresh
    <3>2. CASE CreateBlocked(r)
      <4>1. handler[r] = "block"
        BY <3>2 DEF CreateBlocked
      <4>2. r \notin Cross
        BY <1>0, <4>1 DEF EntryInv, ApprovalInv, Approval
      <4> QED BY <1>0, <4>1, <4>2 DEF Fresh
    <3> QED BY <1>2, <3>1, <3>2
  <2>2. /\ status' \in {[status EXCEPT ![r] = "pending_approval"],
                        [status EXCEPT ![r] = "blocked"]}
        /\ UNCHANGED exec
    BY <1>2 DEF CreatePending, CreateBlocked, queueVars
  <2>3. /\ status' \in [Tasks -> Statuses] /\ status'[r] # "none"
        /\ \A u \in Tasks \ {r} : status'[u] = status[u]
    BY <1>0, <2>2 DEF Statuses
  <2> QED BY <2>1, <2>2, <2>3 DEF StatusMoves
<1>3. CASE MarkPreempted(r)
  <2>1. status' = Updated(old[r], "preempted") /\ UNCHANGED exec
    BY <1>3 DEF MarkPreempted, queueVars
  <2>2. "preempted" \in Statuses \ {"none"}
    BY DEF Statuses
  <2>3. /\ status' \in [Tasks -> Statuses]
        /\ \A u \in Tasks : status'[u] =
             IF u = old[r] /\ status[u] # "none" THEN "preempted" ELSE status[u]
    BY <1>0, <2>1, <2>2, UpdatedEffect
  <2> QED BY <2>1, <2>3 DEF StatusMoves, Final
<1>4. CASE Create(r)
  <2>1. exec[r].pc = "none" /\ Enqueue(r)
    BY <1>0, <1>4, CreateEnters DEF Create
  <2>2. \A u \in Tasks \ {r} : exec'[u] = exec[u]
    BY <1>0, <2>1, EnqueueExact
  <2>3. status' = [status EXCEPT ![r] = "queued"]
    BY <1>4 DEF Create
  <2>4. /\ status' \in [Tasks -> Statuses] /\ status'[r] # "none"
        /\ \A u \in Tasks \ {r} : status'[u] = status[u]
    BY <1>0, <2>3 DEF Statuses
  <2> QED BY <2>1, <2>2, <2>4 DEF StatusMoves
<1>5. CASE FanOut(r)
  <2>1. CASE left[r] # <<>>
    <3>1. PICK c \in Tasks : c = Head(left[r]) /\ exec[c].pc = "none" /\ Enqueue(c)
      BY <1>0, <1>5, <2>1, FanOutEnters
    <3>2. \A u \in Tasks \ {c} : exec'[u] = exec[u]
      BY <1>0, <3>1, EnqueueExact
    <3>3. status' = [status EXCEPT ![c] = "queued"]
      BY <1>5, <2>1, <3>1 DEF FanOut
    <3>4. /\ status' \in [Tasks -> Statuses] /\ status'[c] # "none"
          /\ \A u \in Tasks \ {c} : status'[u] = status[u]
      BY <1>0, <3>3 DEF Statuses
    <3> QED BY <3>1, <3>2, <3>4 DEF StatusMoves
  <2>2. CASE left[r] = <<>>
    <3>1. status' = [status EXCEPT ![r] = "running"] /\ UNCHANGED exec /\ r \in Fanned
      BY <1>5, <2>2 DEF FanOut, queueVars
    <3>2. exec[r].pc = "none"
      BY <1>0, <3>1 DEF Fresh
    <3>3. /\ status' \in [Tasks -> Statuses] /\ status'[r] # "none"
          /\ \A u \in Tasks \ {r} : status'[u] = status[u]
      BY <1>0, <3>1 DEF Statuses
    <3> QED BY <3>1, <3>2, <3>3 DEF StatusMoves
  <2> QED BY <2>1, <2>2
<1> QED BY <1>1, <1>2, <1>3, <1>4, <1>5 DEF SubmitStep

\* Executions and cancel calls update a record; time changes none.
LEMMA StatusExec ==
  ASSUME RecordInv, NEW t \in Tasks,
         \/ ExecStep(t) \/ ExecError(t) \/ Cancel(t) \/ CancelOne(t) \/ RunOut(t)
  PROVE  /\ status' \in [Tasks -> Statuses]
         /\ \A u \in Tasks : StatusMoves(u)
<1>0. /\ QueueInv /\ status \in [Tasks -> Statuses] /\ Record(t)
      /\ exec \in [Tasks -> ExecTypes]
  BY DEF RecordInv, EntryInv, QueueInv
<1>1. \A u \in Tasks : exec[u].pc = "none" => exec'[u].pc = "none"
  <2>1. CASE Finish(t)
    BY <1>0, <2>1, FinishExact DEF OthersWait
  <2>2. CASE Executes(t)
    <3>1. exec[t].pc # "none" /\ \A u \in Tasks \ {t} : exec'[u] = exec[u]
      BY <1>0, <2>2 DEF Executes, Begin, Return, ReadStatus, WriteResult, Release,
                        ExecError, Step
    <3> QED BY <3>1
  <2>3. CASE Cancel(t) \/ CancelOne(t) \/ RunOut(t)
    BY <2>3 DEF Cancel, CancelOne, RunOut, queueVars
  <2> QED BY <2>1, <2>2, <2>3 DEF ExecStep, Executes
<1>2. CASE Begin(t)
  <2>1. status' = Updated(t, "running") /\ exec[t].pc = "begin" /\ "running" \in Statuses \ {"none"}
    BY <1>2 DEF Begin, Statuses
  <2>2. /\ status' \in [Tasks -> Statuses]
        /\ \A u \in Tasks : status'[u] =
             IF u = t /\ status[u] # "none" THEN "running" ELSE status[u]
    BY <1>0, <2>1, UpdatedEffect
  <2> QED BY <1>1, <2>1, <2>2 DEF StatusMoves
<1>3. CASE WriteResult(t)
  <2>1. status' = Updated(t, exec[t].result) /\ exec[t].pc = "write"
    BY <1>3 DEF WriteResult
  <2>2. exec[t].result \in {"completed", "failed"} /\ {"completed", "failed"} \subseteq Statuses \ {"none"}
    BY <1>0, <2>1 DEF Record, Statuses
  <2>3. /\ status' \in [Tasks -> Statuses]
        /\ \A u \in Tasks : status'[u] =
             IF u = t /\ status[u] # "none" THEN exec[t].result ELSE status[u]
    BY <1>0, <2>1, <2>2, UpdatedEffect
  <2> QED BY <1>1, <2>2, <2>3 DEF StatusMoves, Final
<1>4. CASE CancelOne(t)
  <2>1. status' = Updated(Head(cancelling[t]), "cancelled") /\ "cancelled" \in Statuses \ {"none"}
    BY <1>4 DEF CancelOne, Statuses
  <2>2. /\ status' \in [Tasks -> Statuses]
        /\ \A u \in Tasks : status'[u] =
             IF u = Head(cancelling[t]) /\ status[u] # "none" THEN "cancelled" ELSE status[u]
    BY <1>0, <2>1, UpdatedEffect
  <2> QED BY <1>1, <2>2 DEF StatusMoves, Final
<1>5. CASE \/ Return(t) \/ ReadStatus(t) \/ Release(t) \/ Finish(t) \/ ExecError(t)
           \/ Cancel(t) \/ RunOut(t)
  <2>1. status' = status
    BY <1>5 DEF Return, ReadStatus, Release, Finish, ExecError, Cancel, RunOut, storeVars
  <2> QED BY <1>0, <1>1, <2>1 DEF StatusMoves
<1> QED BY <1>2, <1>3, <1>4, <1>5 DEF ExecStep

\* A decision writes the status of a task that has not been executed, or cancels it.
LEMMA StatusDecisions ==
  ASSUME RecordInv, NEW d \in Deciders,
         \/ \E t \in Tasks : Decide(d, t)
         \/ ApplyVerdict(d) \/ FollowUp(d) \/ DecideError(d)
  PROVE  /\ status' \in [Tasks -> Statuses]
         /\ \A u \in Tasks : StatusMoves(u)
<1>0. /\ EntryInv /\ QueueInv /\ status \in [Tasks -> Statuses]
      /\ \A t \in Tasks : Record(t)
  BY DEF RecordInv, EntryInv
<1>1. CASE FollowUp(d) /\ decision[d].verdict = "approved"
  <2>1. PICK t \in Tasks : /\ t = decision[d].task /\ exec[t].pc = "none" /\ Enqueue(t)
                           /\ request[t] = "approved"
    BY <1>0, <1>1, FollowEnters
  <2>2. \A u \in Tasks \ {t} : exec'[u] = exec[u]
    BY <1>0, <2>1, EnqueueExact
  <2>3. status' = Updated(t, "queued") /\ "queued" \in Statuses \ {"none"}
    BY <1>1, <2>1 DEF FollowUp, Statuses
  <2>4. /\ status' \in [Tasks -> Statuses]
        /\ \A u \in Tasks : status'[u] =
             IF u = t /\ status[u] # "none" THEN "queued" ELSE status[u]
    BY <1>0, <2>3, UpdatedEffect
  <2>5. status[t] # "none"
    BY <1>0, <2>1 DEF Record
  <2> QED BY <2>1, <2>2, <2>4, <2>5 DEF StatusMoves
<1>2. CASE FollowUp(d) /\ decision[d].verdict # "approved"
  <2>1. /\ status' = Updated(decision[d].task, "cancelled") /\ UNCHANGED exec
        /\ "cancelled" \in Statuses \ {"none"}
    BY <1>2 DEF FollowUp, Statuses, queueVars
  <2>2. /\ status' \in [Tasks -> Statuses]
        /\ \A u \in Tasks : status'[u] =
             IF u = decision[d].task /\ status[u] # "none" THEN "cancelled" ELSE status[u]
    BY <1>0, <2>1, UpdatedEffect
  <2> QED BY <2>1, <2>2 DEF StatusMoves, Final
<1>3. CASE (\E t \in Tasks : Decide(d, t)) \/ ApplyVerdict(d) \/ DecideError(d)
  <2>1. UNCHANGED <<status, exec>>
    BY <1>3 DEF Decide, ApplyVerdict, DecideError, storeVars, queueVars
  <2> QED BY <1>0, <2>1 DEF StatusMoves
<1> QED BY <1>1, <1>2, <1>3

LEMMA StatusOthers ==
  ASSUME RecordInv,
         \/ \E o \in Operators : Floor(o)
         \/ \E k \in Keys : TakeLock(k)
         \/ ExpirePending \/ Restart \/ UNCHANGED vars
  PROVE  /\ status' \in [Tasks -> Statuses]
         /\ \A u \in Tasks : StatusMoves(u)
<1>1. QueueInv /\ status \in [Tasks -> Statuses]
  BY DEF RecordInv, EntryInv
<1>2. status' = status
  BY DEF Floor, TakeLock, ExpirePending, Restart, vars, storeVars
<1>3. \A u \in Tasks : exec[u].pc = "none" => exec'[u].pc = "none"
  <2>1. CASE Restart
    BY <1>1, <2>1, RestartExact
  <2>2. CASE ~Restart
    BY <2>2 DEF Floor, TakeLock, ExpirePending, vars, queueVars
  <2> QED BY <2>1, <2>2
<1> QED BY <1>1, <1>2, <1>3 DEF StatusMoves

LEMMA StatusNext ==
  ASSUME RecordInv, [Next]_vars
  PROVE  /\ status' \in [Tasks -> Statuses]
         /\ \A u \in Tasks : StatusMoves(u)
BY StatusHandlers, StatusExec, StatusDecisions, StatusOthers DEF Next

\* A request is made by a handler that has written the record.
LEMMA AskMoves ==
  ASSUME EntryInv, status \in [Tasks -> Statuses], [Next]_vars, NEW u \in Tasks
  PROVE  /\ handler'[u] = "ask" => handler[u] = "ask" \/ status'[u] # "none"
         /\ request'[u] # "none" => request[u] # "none" \/ handler[u] = "ask"
<1>0. Shape /\ DOMAIN request = Tasks
  BY DEF EntryInv, ApprovalInv
<1>1. CASE \E r \in Tasks : Admit(r) \/ SubmitStep(r) \/ SubmitError(r)
  <2>1. PICK r \in Tasks : Admit(r) \/ SubmitStep(r) \/ SubmitError(r)
    BY <1>1
  <2>2. request'[u] # "none" => request[u] # "none" \/ handler[u] = "ask"
    BY <1>0, <2>1 DEF Admit, SubmitStep, SubmitError, CreatePending, Ask, Acquire,
       MarkPreempted, CreateBlocked, Create, FanOut, storeVars
  <2>3. CASE CreatePending(r)
    BY <1>0, <2>2, <2>3 DEF CreatePending, Goto, Shape
  <2>4. CASE ~CreatePending(r)
    <3>1. handler'[u] = "ask" => handler[u] = "ask"
      BY <1>0, <2>1, <2>4 DEF Admit, SubmitStep, SubmitError, Ask, Acquire,
         MarkPreempted, CreateBlocked, Create, FanOut, Goto, Shape
    <3> QED BY <2>2, <3>1
  <2> QED BY <2>3, <2>4
<1>2. CASE \/ UNCHANGED vars \/ ExpirePending \/ Restart
           \/ \E t \in Tasks : \/ ExecStep(t) \/ ExecError(t)
                               \/ Cancel(t) \/ CancelOne(t) \/ RunOut(t)
           \/ \E o \in Operators : Floor(o)
           \/ \E k \in Keys : TakeLock(k)
  <2>1. handler'[u] \in {handler[u], "closed"}
    <3>1. CASE Restart
      BY <3>1 DEF Restart
    <3>2. CASE ~Restart
      BY <1>2, <3>2 DEF vars, ExpirePending, ExecStep, Begin, Return, ReadStatus,
         WriteResult, Release, Finish, ExecError, Cancel, CancelOne, RunOut, Floor,
         TakeLock, handlerVars
    <3> QED BY <3>1, <3>2
  <2>2. request'[u] # "none" => request[u] # "none"
    BY <1>2 DEF vars, ExpirePending, ExecStep, Begin, Return, ReadStatus, Restart,
       WriteResult, Release, Finish, ExecError, Cancel, CancelOne, RunOut, Floor,
       TakeLock, storeVars
  <2> QED BY <2>1, <2>2
<1>3. CASE \E d \in Deciders : \/ \E t \in Tasks : Decide(d, t)
                               \/ ApplyVerdict(d) \/ FollowUp(d) \/ DecideError(d)
  <2>1. handler' = handler
    BY <1>3 DEF Decide, ApplyVerdict, FollowUp, DecideError, handlerVars
  <2>2. request'[u] # "none" => request[u] # "none"
    BY <1>0, <1>3 DEF Decide, ApplyVerdict, FollowUp, DecideError, StillPending, storeVars
  <2> QED BY <2>1, <2>2
<1> QED BY <1>1, <1>2, <1>3 DEF Next

\* Failed commands and stops are only ever added.
LEMMA FaultsGrow ==
  ASSUME Shape, [Next]_vars
  PROVE  /\ errors' = 0 => errors = 0
         /\ stops' = 0 => stops = 0
<1>1. errors \in Nat /\ stops \in Nat
  BY DEF Shape
<1>2. errors' \in {errors, errors + 1} /\ stops' \in {stops, stops + 1}
  BY DEF Next, Admit, SubmitStep, SubmitError, CreatePending, Ask, Acquire,
     MarkPreempted, CreateBlocked, Create, FanOut, ExecStep, Begin, Return, ReadStatus,
     WriteResult, Release, Finish, ExecError, Cancel, CancelOne, RunOut, Floor, TakeLock,
     Decide, ApplyVerdict, FollowUp, DecideError, ExpirePending, Restart, vars, boundVars
<1> QED BY <1>1, <1>2

\* An execution writes what executor.execute returned, and is over only when the
\* record says so.
LEMMA AdvanceRecord ==
  ASSUME EntryInv, status \in [Tasks -> Statuses], NEW t \in Tasks, Record(t), Advances(t)
  PROVE  /\ exec'[t].pc \in {"read", "write"} => exec'[t].result \in {"completed", "failed"}
         /\ errors' = 0 /\ Over(t)' => Over(t) \/ status'[t] \in Final
<1>0. exec \in [Tasks -> ExecTypes] /\ errors \in Nat
  BY DEF EntryInv, ApprovalInv, Shape
<1>1. CASE Begin(t)
  BY <1>0, <1>1 DEF Begin, Step, Over, ExecTypes
<1>2. CASE Return(t)
  BY <1>0, <1>2 DEF Return, Over, ExecTypes
<1>3. CASE ReadStatus(t)
  BY <1>0, <1>3 DEF ReadStatus, Step, Over, ExecTypes, Record, KeepsStatus, Final, storeVars
<1>4. CASE WriteResult(t)
  <2>1. exec[t].pc = "write" /\ status' = Updated(t, exec[t].result) /\ exec'[t].pc = "release"
    BY <1>0, <1>4 DEF WriteResult, Step, ExecTypes
  <2>2. status[t] # "none" /\ exec[t].result \in {"completed", "failed"}
    BY <2>1 DEF Record
  <2> QED BY <2>1, <2>2 DEF Updated, Final
<1>5. CASE Release(t)
  BY <1>0, <1>5 DEF Release, Step, Over, ExecTypes
<1>6. CASE ExecError(t)
  BY <1>0, <1>6 DEF ExecError, Over, ExecTypes
<1> QED BY <1>1, <1>2, <1>3, <1>4, <1>5, <1>6 DEF Advances, Executes

LEMMA RecordNext == RecordInv /\ [Next]_vars => RecordInv'
<1> SUFFICES ASSUME RecordInv, [Next]_vars PROVE RecordInv'
  OBVIOUS
<1>0. /\ EntryInv /\ EntryInv' /\ Shape /\ Shape' /\ status \in [Tasks -> Statuses]
      /\ \A t \in Tasks : Record(t)
  BY EntryNext DEF RecordInv, EntryInv, ApprovalInv
<1>1. /\ status' \in [Tasks -> Statuses]
      /\ \A u \in Tasks : StatusMoves(u)
  BY StatusNext
<1>2. ASSUME NEW u \in Tasks
      PROVE  exec'[u].pc # "none" \/ request'[u] # "none" \/ handler'[u] = "ask"
             => status'[u] # "none"
  <2>1. Record(u) /\ StatusMoves(u)
    BY <1>0, <1>1
  <2>2. /\ handler'[u] = "ask" => handler[u] = "ask" \/ status'[u] # "none"
        /\ request'[u] # "none" => request[u] # "none" \/ handler[u] = "ask"
    BY <1>0, AskMoves
  <2> QED BY <2>1, <2>2 DEF Record, StatusMoves
<1>3. ASSUME NEW u \in Tasks
      PROVE  /\ exec'[u].pc \in {"read", "write"} => exec'[u].result \in {"completed", "failed"}
             /\ errors' = 0 /\ Over(u)' => Over(u) \/ status'[u] \in Final
  <2>1. Record(u)
    BY <1>0
  <2>2. CASE \E t \in Tasks : /\ Enters(t) /\ exec'[t].pc \in {"queued", "begin"}
                              /\ \A v \in Tasks \ {t} : exec'[v] = exec[v]
    BY <2>1, <2>2 DEF Record, Over
  <2>3. CASE \E t \in Tasks : Advances(t)
    <3>1. PICK t \in Tasks : Advances(t)
      BY <2>3
    <3>2. CASE u = t
      BY <1>0, <3>1, <3>2, AdvanceRecord
    <3>3. CASE u # t
      BY <2>1, <3>1, <3>3 DEF Advances, Record, Over
    <3> QED BY <3>2, <3>3
  <2>4. CASE \E t \in Tasks : Finish(t) /\ exec'[t].pc = "done" /\ OthersWait(t)
    BY <2>1, <2>4 DEF Finish, OthersWait, Record, Over
  <2>5. CASE \A t \in Tasks :
                  \/ exec'[t] = exec[t] /\ exec[t].pc \in {"none", "done"}
                  \/ exec'[t].pc = "lost" /\ exec[t].pc \notin {"none", "done"}
    BY <2>1, <2>5 DEF Over
  <2>6. CASE UNCHANGED queueVars
    BY <2>1, <2>6 DEF queueVars, Record, Over
  <2> QED BY <1>0, <2>2, <2>3, <2>4, <2>5, <2>6, KindsEffect
<1>4. ASSUME NEW u \in Tasks PROVE errors' = 0 /\ Over(u)' => status'[u] \in Final
  <2>1. Record(u) /\ StatusMoves(u) /\ (errors' = 0 => errors = 0)
    BY <1>0, <1>1, FaultsGrow
  <2>2. Over(u) => exec[u].pc \notin {"none", "begin"}
    BY DEF Over
  <2> QED BY <1>3, <2>1, <2>2 DEF Record, StatusMoves
<1>5. ASSUME NEW u \in Tasks PROVE Record(u)'
  BY <1>2, <1>3, <1>4 DEF Record
<1> QED BY <1>0, <1>1, <1>5 DEF RecordInv

\* When an execution is over, the record of its task has a final status for good
\* (task-executor.ts:55-90), whatever a cancel, a preemption or an approval writes
\* late, as long as no command failed.
THEOREM FinalStatus == Spec => []FinishedIsFinal
<1>1. RecordInv => FinishedIsFinal
  BY DEF RecordInv, Record, Over, Final, FinishedIsFinal
<1> QED BY <1>1, RecordInit, RecordNext, PTL DEF Spec

-----------------------------------------------------------------------------
(* One task works on a resource.                                           *)

\* From the acquisition to the release of its lock a task holds it, unless its
\* operator has lost it.
Claims(t) == handler[t] \in {"mark", "create"} \/ Holds(exec[t].pc)
Covered(t) == KeyOf[t] # NoKey /\ Claims(t) => lock[KeyOf[t]] = t \/ LostLock(t)

CoverInv == EntryInv /\ \A t \in Tasks : Covered(t)

LEMMA CoverInit == Init => CoverInv
BY EntryInit DEF Init, CoverInv, Covered, Claims, Holds, NotRun

\* Lost locks are remembered.
LEMMA LossesStay ==
  ASSUME [Next]_vars
  PROVE  /\ taken \subseteq taken'
         /\ \A t : LostLock(t) => LostLock(t)'
<1>1. taken \subseteq taken'
  BY DEF Next, Admit, SubmitStep, SubmitError, CreatePending, Ask, Acquire,
     MarkPreempted, CreateBlocked, Create, FanOut, ExecStep, Begin, Return, ReadStatus,
     WriteResult, Release, Finish, ExecError, Cancel, CancelOne, RunOut, Floor, TakeLock,
     Decide, ApplyVerdict, FollowUp, DecideError, ExpirePending, Restart, vars
<1> QED BY <1>1 DEF LostLock

\* A lock goes by preemption, expiry or force, which is a loss, or by a release
\* of a task of the same operator.
LEMMA LockMoves ==
  ASSUME Shape, [Next]_vars, NEW k \in Keys, NEW u \in Tasks, lock[k] = u, KeyOf[u] = k
  PROVE  \/ lock'[k] = u
         \/ LostLock(u)'
         \/ \E t \in Tasks : Release(t) /\ KeyOf[t] = k /\ OperatorOf[t] = OperatorOf[u]
<1>0. u # NoTask /\ NoKey \notin Keys /\ lock \in [Keys -> Tasks \cup {NoTask}]
  BY ConstantsAssumption DEF Shape
<1>1. CASE \E r \in Tasks : Acquire(r)
  <2>1. PICK r \in Tasks : Acquire(r)
    BY <1>1
  <2>2. CASE lock'[k] # u
    <3>1. lock' = [lock EXCEPT ![KeyOf[r]] = r] /\ KeyOf[r] = k
      BY <1>0, <2>1, <2>2 DEF Acquire
    <3>2. taken' = taken \cup {lock[k]}
      BY <1>0, <2>1, <2>2, <3>1 DEF Acquire
    <3>3. u \in taken'
      BY <3>2
    <3>4. LostLock(u)'
      BY <3>3 DEF LostLock
    <3> QED BY <3>4
  <2> QED BY <2>2
<1>2. CASE \E j \in Keys : TakeLock(j)
  <2>1. PICK j \in Keys : TakeLock(j)
    BY <1>2
  <2>2. CASE j = k
    BY <2>1, <2>2 DEF TakeLock, LostLock
  <2>3. CASE j # k
    BY <1>0, <2>1, <2>3 DEF TakeLock
  <2> QED BY <2>2, <2>3
<1>3. CASE \E t \in Tasks : Release(t)
  <2>1. PICK t \in Tasks : Release(t)
    BY <1>3
  <2>2. CASE lock'[k] # u
    <3>1. lock' # lock
      BY <2>2
    <3>2. KeyOf[t] # NoKey /\ MayRelease(t, lock[KeyOf[t]])
          /\ lock' = [lock EXCEPT ![KeyOf[t]] = NoTask]
      BY <2>1, <3>1 DEF Release
    <3>3. KeyOf[t] = k
      BY <1>0, <2>2, <3>2
    <3> QED BY <2>1, <3>2, <3>3 DEF MayRelease
  <2> QED BY <2>2
<1>4. CASE ~(\/ \E t \in Tasks : Acquire(t) \/ Release(t)
             \/ \E j \in Keys : TakeLock(j))
  <2>1. lock' = lock
    BY <1>4 DEF Next, Admit, SubmitStep, SubmitError, CreatePending, Ask,
     MarkPreempted, CreateBlocked, Create, FanOut, ExecStep, Begin, Return, ReadStatus,
     WriteResult, Finish, ExecError, Cancel, CancelOne, RunOut, Floor,
     Decide, ApplyVerdict, FollowUp, DecideError, ExpirePending, Restart, vars, storeVars
  <2> QED BY <2>1
<1> QED BY <1>1, <1>2, <1>3, <1>4

\* No task with a resource comes to claim it but by acquiring its lock: its own
\* request hands it to the executor.
LEMMA ClaimMoves ==
  ASSUME EntryInv, [Next]_vars, NEW u \in Tasks \ Cross, KeyOf[u] # NoKey, Claims(u)'
  PROVE  Claims(u) \/ lock'[KeyOf[u]] = u
<1>0. /\ Shape /\ Shape' /\ u \notin Children /\ KeyOf[u] \in Keys
      /\ lock \in [Keys -> Tasks \cup {NoTask}]
      /\ handler \in [Tasks -> {"new", "pending", "ask", "lock", "mark", "block",
                                "create", "closed"}]
  BY ShapeNext, ConstantsAssumption DEF EntryInv, ApprovalInv, Shape
<1>1. ASSUME handler'[u] \in {"mark", "create"}, handler[u] \notin {"mark", "create"}
      PROVE  lock'[KeyOf[u]] = u
  <2>1. CASE \E r \in Tasks : Admit(r) \/ SubmitStep(r) \/ SubmitError(r)
    <3>1. PICK r \in Tasks : Admit(r) \/ SubmitStep(r) \/ SubmitError(r)
      BY <2>1
    <3>a. u = r
      BY <1>0, <1>1, <3>1 DEF Admit, SubmitStep, SubmitError, CreatePending, Ask, Acquire,
         MarkPreempted, CreateBlocked, Create, FanOut, Goto
    <3>b. ~Admit(u)
      <4> SUFFICES ASSUME Admit(u) PROVE FALSE
        OBVIOUS
      <4>1. handler'[u] \in {"closed", "pending", "lock"}
        BY <1>0 DEF Admit, Goto
      <4> QED BY <1>1, <4>1
    <3>2. u = r /\ Acquire(r)
      BY <1>0, <1>1, <3>1, <3>a, <3>b DEF SubmitStep, SubmitError, CreatePending, Ask,
         MarkPreempted, CreateBlocked, Create, FanOut, Goto
    <3>3. Acquire(u) /\ handler'[u] # "block"
      BY <1>1, <3>2
    <3>4. lock' = [lock EXCEPT ![KeyOf[u]] = u]
      BY <1>0, <3>3 DEF Acquire, Goto
    <3> QED BY <1>0, <3>4
  <2>2. CASE Restart
    BY <1>1, <2>2 DEF Restart
  <2>3. CASE ~Restart /\ ~\E r \in Tasks : Admit(r) \/ SubmitStep(r) \/ SubmitError(r)
    <3>1. handler' = handler
      BY <2>3 DEF Next, vars, ExpirePending, ExecStep, Begin, Return, ReadStatus,
       WriteResult, Release, Finish, ExecError, Cancel, CancelOne, RunOut, Floor,
       TakeLock, Decide, ApplyVerdict, FollowUp, DecideError, handlerVars
    <3> QED BY <1>1, <3>1
  <2> QED BY <2>1, <2>2, <2>3
<1>2. ASSUME Holds(exec'[u].pc), ~Holds(exec[u].pc) PROVE handler[u] = "create"
  <2>1. CASE \E t \in Tasks : /\ Enters(t) /\ \A v \in Tasks \ {t} : exec'[v] = exec[v]
    BY <1>0, <1>2, <2>1 DEF Enters
  <2>2. CASE \E t \in Tasks : Advances(t)
    <3>1. PICK t \in Tasks : Advances(t)
      BY <2>2
    <3>2. Holds(exec[t].pc)
      BY <3>1 DEF Advances, Executes, Begin, Return, ReadStatus, WriteResult, Release,
                  ExecError, Holds
    <3> QED BY <1>2, <3>1, <3>2 DEF Advances
  <2>3. CASE \E t \in Tasks : Finish(t) /\ exec'[t].pc = "done" /\ OthersWait(t)
    BY <1>2, <2>3 DEF OthersWait, Holds
  <2>4. CASE \A t \in Tasks :
                  \/ exec'[t] = exec[t] /\ exec[t].pc \in {"none", "done"}
                  \/ exec'[t].pc = "lost" /\ exec[t].pc \notin {"none", "done"}
    BY <1>2, <2>4 DEF Holds
  <2>5. CASE UNCHANGED queueVars
    BY <1>2, <2>5 DEF queueVars
  <2> QED BY <1>0, <2>1, <2>2, <2>3, <2>4, <2>5, KindsEffect
<1> QED BY <1>1, <1>2 DEF Claims

LEMMA CoverNext ==
  ASSUME \A t \in Cross : KeyOf[t] = NoKey, CoverInv, [Next]_vars
  PROVE  CoverInv'
<1>0. EntryInv /\ Shape /\ EntryInv' /\ \A t \in Tasks : Covered(t)
  BY EntryNext DEF CoverInv, EntryInv, ApprovalInv
<1>1. ASSUME NEW u \in Tasks, KeyOf[u] # NoKey, Claims(u)'
      PROVE  lock'[KeyOf[u]] = u \/ LostLock(u)'
  <2>1. u \notin Cross /\ KeyOf[u] \in Keys
    BY <1>1, ConstantsAssumption
  <2>2. CASE lock'[KeyOf[u]] = u
    BY <2>2
  <2>3. CASE LostLock(u)
    BY <2>3, LossesStay
  <2>4. CASE lock'[KeyOf[u]] # u /\ ~LostLock(u)
    <3>1. Claims(u)
      BY <1>0, <1>1, <2>1, <2>4, ClaimMoves
    <3>2. lock[KeyOf[u]] = u
      BY <1>0, <1>1, <2>4, <3>1 DEF Covered
    <3>3. CASE \E t \in Tasks : /\ Release(t) /\ KeyOf[t] = KeyOf[u]
                                /\ OperatorOf[t] = OperatorOf[u]
      <4>1. PICK t \in Tasks : /\ Release(t) /\ KeyOf[t] = KeyOf[u]
                               /\ OperatorOf[t] = OperatorOf[u]
        BY <3>3
      <4>2. exec[t].pc = "release" /\ exec'[t].pc = "finish" /\ handler' = handler
        BY <1>0, <4>1 DEF Release, Step, handlerVars, Shape, ExecTypes
      <4>3. t # u
        <5> SUFFICES ASSUME t = u PROVE FALSE
          OBVIOUS
        <5>1. handler[u] = "closed"
          BY <1>0, <2>1, <4>2 DEF EntryInv, Fresh
        <5> QED BY <1>1, <4>2, <5>1 DEF Claims, Holds
      <4>4. Claims(t) /\ Covered(t)
        BY <1>0, <4>2 DEF Claims, Holds
      <4>5. LostLock(t)
        BY <1>1, <3>2, <4>1, <4>3, <4>4 DEF Covered
      <4>6. LostLock(u)
        BY <4>1, <4>5 DEF LostLock
      <4> QED BY <2>4, <4>6
    <3> QED BY <1>0, <2>1, <2>4, <3>2, <3>3, LockMoves
  <2> QED BY <2>2, <2>3, <2>4
<1>2. ASSUME NEW u \in Tasks PROVE Covered(u)'
  BY <1>1 DEF Covered
<1> QED BY <1>0, <1>2 DEF CoverInv

\* Two tasks never work on one resource unless one of their operators lost its
\* lock (task-locks.ts:18-88), given that no task that needs an approval names a
\* resource: the follow-up of an approval acquires no lock (conflict-routes.ts:222).
THEOREM OneWorker ==
  (\A t \in Cross : KeyOf[t] = NoKey) => (Spec => []ResourceExclusive)
<1> SUFFICES ASSUME \A t \in Cross : KeyOf[t] = NoKey PROVE Spec => []ResourceExclusive
  OBVIOUS
<1>1. CoverInv => ResourceExclusive
  BY DEF CoverInv, Covered, Claims, Holds, Working, ResourceExclusive
<1>2. CoverInv /\ [Next]_vars => CoverInv'
  BY CoverNext
<1> QED BY <1>1, <1>2, CoverInit, PTL DEF Spec

-----------------------------------------------------------------------------
(* The slots of the operators.                                             *)

Busy(t) == exec[t].pc \notin {"none", "done"}

\* The request that a task is executed for.
Owns(r, t) ==
  r \in Tasks \ Children /\ IF r \in Fanned THEN t \in ToSet(ChildrenOf[r]) ELSE t = r

\* The requests of an operator whose work goes on.
Works(o) == {r \in Tasks \ Children : OperatorOf[r] = o /\ Outstanding(r)}

SlotInv ==
  /\ EntryInv /\ concurrent \in [Operators -> Int]
  /\ errors = 0 /\ stops = 0 =>
       \A o \in Operators : IsFiniteSet(Works(o)) /\ concurrent[o] <= Cardinality(Works(o))

LEMMA OutstandingDef ==
  \A r \in Tasks \ Children :
    /\ Outstanding(r) <=> \E t \in Tasks : Owns(r, t) /\ Busy(t)
    /\ Outstanding(r)' <=> \E t \in Tasks : Owns(r, t) /\ Busy(t)'
<1> TAKE r \in Tasks \ Children
<1>1. ChildrenOf[r] \in Seq(Tasks)
  BY ConstantsAssumption
<1>2. \A i \in DOMAIN ChildrenOf[r] : ChildrenOf[r][i] \in Tasks
  BY <1>1
<1>3. CASE r \in Fanned
  BY <1>2, <1>3 DEF Outstanding, Owns, Busy, ToSet
<1>4. CASE r \notin Fanned
  BY <1>4 DEF Outstanding, Owns, Busy
<1> QED BY <1>3, <1>4

\* Every task that is executed has one such request, of the same operator.
LEMMA Owner ==
  ASSUME NEW t \in Tasks \ Fanned
  PROVE  \E r \in Tasks \ Children :
           /\ Owns(r, t) /\ OperatorOf[r] = OperatorOf[t]
           /\ \A q : Owns(q, t) => q = r
<1>1. CASE t \in Children
  <2>1. PICK r \in Tasks : t \in ToSet(ChildrenOf[r])
    BY <1>1 DEF Children
  <2>2. ChildrenOf[r] # <<>>
    BY <2>1 DEF ToSet
  <2>3. r \in Fanned /\ r \notin Children
    BY <2>2, ConstantsAssumption DEF Fanned
  <2>4. \A q \in Tasks : t \in ToSet(ChildrenOf[q]) => q = r
    BY <2>1, ConstantsAssumption
  <2>5. OperatorOf[r] = OperatorOf[t]
    BY <2>1, ConstantsAssumption
  <2> QED BY <1>1, <2>1, <2>3, <2>4, <2>5 DEF Owns
<1>2. CASE t \notin Children
  <2>1. \A q \in Tasks : t \notin ToSet(ChildrenOf[q])
    BY <1>2 DEF Children
  <2> QED BY <1>2, <2>1 DEF Owns
<1> QED BY <1>1, <1>2

\* What one task does concerns no request but its own.
LEMMA OneMoves ==
  ASSUME NEW t, NEW r, \A q : Owns(q, t) => q = r,
         \A u \in Tasks \ {t} : Busy(u)' <=> Busy(u)
  PROVE  \A q \in Tasks \ Children : q # r => (Outstanding(q)' <=> Outstanding(q))
<1> TAKE q \in Tasks \ Children
<1>1. /\ Outstanding(q) <=> \E u \in Tasks : Owns(q, u) /\ Busy(u)
      /\ Outstanding(q)' <=> \E u \in Tasks : Owns(q, u) /\ Busy(u)'
  BY OutstandingDef
<1> QED BY <1>1

\* The three ways in which the slots and the work change, as long as no command
\* failed and the process runs: a task enters, for whose request a slot is
\* counted when its first task enters; an execution ends and gives its slot
\* back; nothing, save that a counter below 0 is set to 0.
SlotEnters(r, t) ==
  /\ Owns(r, t) /\ Busy(t)' /\ \A u \in Tasks \ {t} : Busy(u)' <=> Busy(u)
  /\ \/ concurrent' = concurrent
     \/ concurrent' = [concurrent EXCEPT ![OperatorOf[r]] = @ + 1] /\ ~Outstanding(r)

SlotReturns(t) ==
  /\ t \notin Fanned /\ Busy(t) /\ ~Busy(t)'
  /\ \A u \in Tasks \ {t} : Busy(u)' <=> Busy(u)
  /\ concurrent' = [concurrent EXCEPT ![OperatorOf[t]] = @ - 1]

SlotsStay ==
  /\ \A u \in Tasks : Busy(u)' <=> Busy(u)
  /\ concurrent' \in [Operators -> Int]
  /\ \A o \in Operators : concurrent'[o] \in {concurrent[o], 0}

LEMMA SlotKinds ==
  ASSUME SlotInv, [Next]_vars, errors' = 0, stops' = 0
  PROVE  \/ \E r \in Tasks \ Children, t \in Tasks : SlotEnters(r, t)
         \/ \E t \in Tasks : SlotReturns(t)
         \/ SlotsStay
<1>0. /\ EntryInv /\ Shape /\ QueueInv /\ errors \in Nat /\ stops \in Nat
      /\ concurrent \in [Operators -> Int]
  BY DEF SlotInv, EntryInv, ApprovalInv, Shape
<1>1. CASE \E r \in Tasks : Create(r)
  <2>1. PICK r \in Tasks : Create(r)
    BY <1>1
  <2>2. /\ r \notin Fanned \cup Children /\ exec[r].pc = "none" /\ left[r] = ChildrenOf[r]
        /\ Enqueue(r)
    BY <1>0, <2>1, CreateEnters DEF Create
  <2>3. /\ exec'[r].pc \in {"queued", "begin"}
        /\ \A u \in Tasks \ {r} : exec'[u] = exec[u]
    BY <1>0, <2>2, EnqueueExact
  <2>4. concurrent' = [concurrent EXCEPT ![OperatorOf[r]] = @ + 1]
    BY <2>1, <2>2 DEF Create, Counted
  <2>5. ~Outstanding(r) /\ Owns(r, r)
    BY <2>2 DEF Outstanding, Owns
  <2>6. SlotEnters(r, r)
    BY <2>3, <2>4, <2>5 DEF SlotEnters, Busy
  <2> QED BY <2>2, <2>6
<1>2. CASE \E r \in Tasks : FanOut(r)
  <2>1. PICK r \in Tasks : FanOut(r)
    BY <1>2
  <2>2. CASE left[r] = <<>>
    <3>1. UNCHANGED <<exec, concurrent>>
      BY <2>1, <2>2 DEF FanOut, queueVars
    <3> QED BY <1>0, <3>1 DEF SlotsStay, Busy
  <2>3. CASE left[r] # <<>>
    <3>1. PICK c \in Tasks : /\ c \in ToSet(ChildrenOf[r]) /\ exec[c].pc = "none"
                             /\ Enqueue(c)
      BY <1>0, <2>1, <2>3, FanOutEnters
    <3>2. /\ exec'[c].pc \in {"queued", "begin"}
          /\ \A u \in Tasks \ {c} : exec'[u] = exec[u]
      BY <1>0, <3>1, EnqueueExact
    <3>3. r \in Fanned /\ r \notin Children /\ Owns(r, c)
      BY <2>1, <3>1, ConstantsAssumption DEF FanOut, Fanned, Owns
    <3>4. CASE left[r] = ChildrenOf[r]
      <4>1. concurrent' = [concurrent EXCEPT ![OperatorOf[r]] = @ + 1]
        BY <2>1, <2>3, <3>4 DEF FanOut, Counted
      <4>2. ASSUME NEW u \in Tasks, Owns(r, u) PROVE ~Busy(u)
        <5>1. u \in ToSet(left[r])
          BY <3>3, <3>4, <4>2 DEF Owns
        <5> QED BY <1>0, <5>1 DEF EntryInv, Fresh, Busy
      <4>3. ~Outstanding(r)
        BY <3>3, <4>2, OutstandingDef
      <4>4. SlotEnters(r, c)
        BY <3>2, <3>3, <4>1, <4>3 DEF SlotEnters, Busy
      <4> QED BY <3>3, <4>4
    <3>5. CASE left[r] # ChildrenOf[r]
      <4>1. concurrent' = [concurrent EXCEPT ![OperatorOf[r]] = @]
        BY <2>1, <2>3, <3>5 DEF FanOut, Counted
      <4>2. concurrent' = concurrent
        BY <1>0, <4>1
      <4>3. SlotEnters(r, c)
        BY <3>2, <3>3, <4>2 DEF SlotEnters, Busy
      <4> QED BY <3>3, <4>3
    <3> QED BY <3>4, <3>5
  <2> QED BY <2>2, <2>3
<1>3. CASE \E d \in Deciders : FollowUp(d)
  <2>1. PICK d \in Deciders : FollowUp(d)
    BY <1>3
  <2>2. CASE decision[d].verdict = "approved"
    <3>1. PICK t \in Tasks : /\ t \notin Children \cup Fanned
                             /\ exec[t].pc = "none" /\ Enqueue(t)
      BY <1>0, <2>1, <2>2, FollowEnters
    <3>2. /\ exec'[t].pc \in {"queued", "begin"}
          /\ \A u \in Tasks \ {t} : exec'[u] = exec[u]
      BY <1>0, <3>1, EnqueueExact
    <3>3. concurrent' = concurrent
      BY <2>1 DEF FollowUp
    <3>4. SlotEnters(t, t)
      BY <3>1, <3>2, <3>3 DEF SlotEnters, Owns, Busy
    <3> QED BY <3>1, <3>4
  <2>3. CASE decision[d].verdict # "approved"
    <3>1. UNCHANGED <<exec, concurrent>>
      BY <2>1, <2>3 DEF FollowUp, queueVars
    <3> QED BY <1>0, <3>1 DEF SlotsStay, Busy
  <2> QED BY <2>2, <2>3
<1>4. CASE \E t \in Tasks : Executes(t)
  <2>1. PICK t \in Tasks : Executes(t)
    BY <1>4
  <2>2. ~ExecError(t)
    BY <1>0 DEF ExecError
  <2>3. concurrent' = concurrent
    BY <2>1, <2>2 DEF Executes, Begin, Return, ReadStatus, WriteResult, Release, storeVars
  <2>4. Busy(t)' /\ Busy(t) /\ \A u \in Tasks \ {t} : exec'[u] = exec[u]
    BY <1>0, <2>1, <2>2 DEF Executes, Begin, Return, ReadStatus, WriteResult, Release,
                            Step, Busy, Shape, ExecTypes
  <2> QED BY <1>0, <2>3, <2>4 DEF SlotsStay, Busy
<1>5. CASE \E t \in Tasks : Finish(t)
  <2>1. PICK t \in Tasks : Finish(t)
    BY <1>5
  <2>2. exec[t].pc = "finish" /\ exec'[t].pc = "done" /\ OthersWait(t)
    BY <1>0, <2>1, FinishExact
  <2>3. t \notin Fanned
    BY <1>0, <2>2 DEF EntryInv, Fresh
  <2>4. concurrent' = [concurrent EXCEPT ![OperatorOf[t]] = @ - 1]
    BY <2>1 DEF Finish, Decrement
  <2>5. SlotReturns(t)
    BY <2>2, <2>3, <2>4 DEF SlotReturns, Busy, OthersWait
  <2> QED BY <2>5
<1>6. CASE \E o \in Operators : Floor(o)
  <2>1. PICK o \in Operators : Floor(o)
    BY <1>6
  <2>2. UNCHANGED exec /\ concurrent' = [concurrent EXCEPT ![o] = 0]
    BY <2>1 DEF Floor, queueVars
  <2> QED BY <1>0, <2>2 DEF SlotsStay, Busy
<1>7. CASE Restart \/ \E t \in Tasks : SubmitError(t)
  BY <1>0, <1>7 DEF Restart, SubmitError
<1>8. CASE \/ UNCHANGED vars \/ ExpirePending
           \/ \E t \in Tasks : \/ Admit(t) \/ CreatePending(t) \/ Ask(t)
                               \/ Acquire(t) \/ MarkPreempted(t) \/ CreateBlocked(t)
                               \/ Cancel(t) \/ CancelOne(t) \/ RunOut(t)
           \/ \E k \in Keys : TakeLock(k)
           \/ \E d \in Deciders : \/ \E t \in Tasks : Decide(d, t)
                                  \/ ApplyVerdict(d) \/ DecideError(d)
  <2>1. UNCHANGED <<exec, concurrent>>
    BY <1>8 DEF vars, ExpirePending, Admit, CreatePending, Ask, Acquire,
       MarkPreempted, CreateBlocked, Cancel, CancelOne, RunOut, TakeLock, Decide,
       ApplyVerdict, DecideError, storeVars, queueVars
  <2> QED BY <1>0, <2>1 DEF SlotsStay, Busy
<1> QED BY <1>1, <1>2, <1>3, <1>4, <1>5, <1>6, <1>7, <1>8 DEF Next, SubmitStep, ExecStep,
           Executes

LEMMA ConcurrentType ==
  ASSUME concurrent \in [Operators -> Int], [Next]_vars
  PROVE  concurrent' \in [Operators -> Int]
<1>a. ASSUME NEW o \in Operators, NEW i \in {0, concurrent[o] + 1, concurrent[o], concurrent[o] - 1}
      PROVE  [concurrent EXCEPT ![o] = i] \in [Operators -> Int]
  <2>1. concurrent[o] \in Int
    OBVIOUS
  <2>2. i \in Int
    BY <2>1
  <2> QED BY <2>2
<1>1. ASSUME NEW r \in Tasks PROVE Counted(r) \in [Operators -> Int]
  BY <1>a, ConstantsAssumption DEF Counted
<1>2. CASE \E t \in Tasks : Finish(t)
  <2>1. PICK t \in Tasks : concurrent' = [concurrent EXCEPT ![OperatorOf[t]] = concurrent[OperatorOf[t]] - 1]
    BY <1>2 DEF Finish, Decrement
  <2> QED BY <1>a, <2>1, ConstantsAssumption
<1>3. CASE \E o \in Operators : Floor(o)
  BY <1>3 DEF Floor
<1>4. CASE ~(\E t \in Tasks : Finish(t)) /\ ~(\E o \in Operators : Floor(o))
  <2>1. concurrent' = concurrent \/ \E r \in Tasks : concurrent' = Counted(r)
    BY <1>4 DEF Next, Admit, SubmitStep, SubmitError, CreatePending, Ask, Acquire,
     MarkPreempted, CreateBlocked, Create, FanOut, ExecStep, Begin, Return, ReadStatus,
     WriteResult, Release, ExecError, Cancel, CancelOne, RunOut, TakeLock,
     Decide, ApplyVerdict, FollowUp, DecideError, ExpirePending, Restart, vars, storeVars
  <2> QED BY <1>1, <2>1
<1> QED BY <1>2, <1>3, <1>4

LEMMA SlotNext == SlotInv /\ [Next]_vars => SlotInv'
<1> SUFFICES ASSUME SlotInv, [Next]_vars PROVE SlotInv'
  OBVIOUS
<1>0. /\ EntryInv' /\ Shape /\ concurrent \in [Operators -> Int]
      /\ concurrent' \in [Operators -> Int]
  BY EntryNext, ConcurrentType DEF SlotInv, EntryInv, ApprovalInv
<1>1. ASSUME errors' = 0, stops' = 0, NEW o \in Operators
      PROVE  IsFiniteSet(Works(o)') /\ concurrent'[o] <= Cardinality(Works(o)')
  <2>1. /\ IsFiniteSet(Works(o)) /\ concurrent[o] <= Cardinality(Works(o))
        /\ Cardinality(Works(o)) \in Nat
    BY <1>0, <1>1, FaultsGrow, FS_CardinalityType DEF SlotInv
  <2>2. concurrent[o] \in Int /\ concurrent'[o] \in Int
    BY <1>0
  <2>3. CASE SlotsStay
    <3>1. \A r \in Tasks \ Children : Outstanding(r)' <=> Outstanding(r)
      BY <2>3, OutstandingDef DEF SlotsStay
    <3>2. Works(o)' = Works(o)
      BY <3>1 DEF Works
    <3>3. concurrent'[o] \in {concurrent[o], 0}
      BY <2>3 DEF SlotsStay
    <3> QED BY <2>1, <2>2, <3>2, <3>3
  <2>4. CASE \E r \in Tasks \ Children, t \in Tasks : SlotEnters(r, t)
    <3>1. PICK r \in Tasks \ Children, t \in Tasks : SlotEnters(r, t)
      BY <2>4
    <3>2. \A q : Owns(q, t) => q = r
      <4>1. t \notin Fanned
        BY <3>1, ConstantsAssumption DEF SlotEnters, Owns, Children, Fanned
      <4> QED BY <3>1, <4>1, Owner DEF SlotEnters
    <3>3. \A q \in Tasks \ Children : q # r => (Outstanding(q)' <=> Outstanding(q))
      BY <3>1, <3>2, OneMoves DEF SlotEnters
    <3>4. Outstanding(r)'
      BY <3>1, OutstandingDef DEF SlotEnters
    <3>5. CASE OperatorOf[r] = o
      <4>1. Works(o)' = Works(o) \cup {r}
        BY <3>3, <3>4, <3>5 DEF Works
      <4>2. /\ IsFiniteSet(Works(o) \cup {r})
            /\ Cardinality(Works(o) \cup {r}) =
                 IF r \in Works(o) THEN Cardinality(Works(o)) ELSE Cardinality(Works(o)) + 1
        BY <2>1, FS_AddElement
      <4>3. CASE concurrent' = concurrent
        BY <2>1, <2>2, <4>1, <4>2, <4>3
      <4>4. CASE concurrent' # concurrent
        <5>1. r \notin Works(o)
          BY <3>1, <4>4 DEF SlotEnters, Works
        <5>2. concurrent'[o] = concurrent[o] + 1
          BY <1>0, <3>1, <3>5, <4>4 DEF SlotEnters
        <5> QED BY <2>1, <2>2, <4>1, <4>2, <5>1, <5>2
      <4> QED BY <4>3, <4>4
    <3>6. CASE OperatorOf[r] # o
      <4>1. Works(o)' = Works(o)
        BY <3>3, <3>6 DEF Works
      <4>2. concurrent'[o] = concurrent[o]
        BY <1>0, <3>1, <3>6 DEF SlotEnters
      <4> QED BY <2>1, <4>1, <4>2
    <3> QED BY <3>5, <3>6
  <2>5. CASE \E t \in Tasks : SlotReturns(t)
    <3>1. PICK t \in Tasks : SlotReturns(t)
      BY <2>5
    <3>2. PICK r \in Tasks \ Children :
            /\ Owns(r, t) /\ OperatorOf[r] = OperatorOf[t]
            /\ \A q : Owns(q, t) => q = r
      BY <3>1, Owner DEF SlotReturns
    <3>3. \A q \in Tasks \ Children : q # r => (Outstanding(q)' <=> Outstanding(q))
      BY <3>1, <3>2, OneMoves DEF SlotReturns
    <3>4. Outstanding(r)
      BY <3>1, <3>2, OutstandingDef DEF SlotReturns
    <3>5. CASE OperatorOf[r] = o
      <4>1. Works(o)' = IF Outstanding(r)' THEN Works(o) ELSE Works(o) \ {r}
        BY <3>3, <3>4, <3>5 DEF Works
      <4>2. /\ IsFiniteSet(Works(o) \ {r})
            /\ Cardinality(Works(o) \ {r}) =
                 IF r \in Works(o) THEN Cardinality(Works(o)) - 1 ELSE Cardinality(Works(o))
        BY <2>1, FS_RemoveElement
      <4>3. concurrent'[o] = concurrent[o] - 1
        BY <1>0, <3>1, <3>2, <3>5 DEF SlotReturns
      <4> QED BY <2>1, <2>2, <4>1, <4>2, <4>3
    <3>6. CASE OperatorOf[r] # o
      <4>1. Works(o)' = Works(o)
        BY <3>3, <3>6 DEF Works
      <4>2. concurrent'[o] = concurrent[o]
        BY <1>0, <3>1, <3>2, <3>6 DEF SlotReturns
      <4> QED BY <2>1, <4>1, <4>2
    <3> QED BY <3>5, <3>6
  <2> QED BY <1>1, <2>3, <2>4, <2>5, SlotKinds
<1>2. errors' = 0 /\ stops' = 0 =>
        \A o \in Operators : (IsFiniteSet(Works(o)) /\ concurrent[o] <= Cardinality(Works(o)))'
  BY <1>1
<1> QED BY <1>0, <1>2 DEF SlotInv

\* An operator's counter never exceeds its requests whose work goes on
\* (rate-limiter.ts:36-47): a slot is counted once per request, but given back
\* once per task of it, and a counter that fell below 0 is set to 0 late.
THEOREM NoSlotLeaks == Spec => []SlotsNotLeaked
<1>1. Init => SlotInv
  <2> SUFFICES ASSUME Init PROVE SlotInv
    OBVIOUS
  <2>1. EntryInv /\ concurrent \in [Operators -> Int]
    BY EntryInit DEF Init
  <2>2. \A t \in Tasks : ~Busy(t)
    BY DEF Init, Busy, NotRun
  <2>3. \A o : Works(o) = {}
    BY <2>2, OutstandingDef DEF Works
  <2>4. \A o \in Operators : concurrent[o] = 0
    BY DEF Init
  <2>5. IsFiniteSet({}) /\ Cardinality({}) = 0
    BY FS_EmptySet
  <2>6. \A o \in Operators : IsFiniteSet(Works(o)) /\ concurrent[o] <= Cardinality(Works(o))
    <3> TAKE o \in Operators
    <3>1. Works(o) = {} /\ concurrent[o] = 0
      BY <2>3, <2>4
    <3> QED BY <2>5, <3>1
  <2> QED BY <2>1, <2>6 DEF SlotInv
<1>2. SlotInv => SlotsNotLeaked
  BY DEF SlotInv, SlotsNotLeaked, Works
<1> QED BY <1>1, <1>2, SlotNext, PTL DEF Spec

-----------------------------------------------------------------------------
(* Types.                                                                  *)

Requests == {"none", "pending", "approved", "rejected", "expired"}

\* The types of the variables the invariants above leave out; a lock is acquired
\* for a resource, and a verdict is one of two.
RestTypes ==
  /\ \A t \in Tasks : handler[t] = "lock" => KeyOf[t] \in Keys
  /\ request \in [Tasks -> Requests] /\ overdue \subseteq Tasks
  /\ old \in [Tasks -> TaskOrNone] /\ floors \in [Operators -> Nat]
  /\ aborted \subseteq Tasks /\ cancelling \in [Tasks -> Seq(Tasks)]
  /\ \A d \in Deciders : decision[d].pc # "idle" => decision[d].verdict \in {"approved", "rejected"}
  /\ taken \subseteq Tasks /\ {requests, cancels, takes} \subseteq Nat

TypeInv == RecordInv /\ concurrent \in [Operators -> Int] /\ RestTypes

LEMMA RestInit == Init => RestTypes
BY DEF Init, RestTypes, Requests, TaskOrNone, Undecided

LEMMA RestHandlers ==
  ASSUME Shape, RestTypes, NEW r \in Tasks,
         Admit(r) \/ SubmitStep(r) \/ SubmitError(r)
  PROVE  RestTypes'
<1>1. UNCHANGED <<overdue, floors, aborted, cancelling, decision, cancels, takes>>
  BY DEF Admit, SubmitStep, SubmitError, CreatePending, Ask, Acquire, MarkPreempted,
         CreateBlocked, Create, FanOut, storeVars, boundVars
<1>2. requests' \in {requests, requests + 1} /\ request' \in {request, [request EXCEPT ![r] = "pending"]}
  BY DEF Admit, SubmitStep, SubmitError, CreatePending, Ask, Acquire, MarkPreempted,
         CreateBlocked, Create, FanOut, storeVars, boundVars
<1>3. request' \in [Tasks -> Requests]
  BY <1>2 DEF RestTypes, Requests
<1>4. old' \in [Tasks -> TaskOrNone] /\ taken' \subseteq Tasks
  <2>1. CASE Acquire(r)
    <3>1. CASE UNCHANGED <<old, taken>>
      BY <3>1 DEF RestTypes
    <3>2. CASE ~UNCHANGED <<old, taken>>
      <4>1. /\ KeyOf[r] \in Keys /\ lock[KeyOf[r]] # NoTask
            /\ old' = [old EXCEPT ![r] = lock[KeyOf[r]]] /\ taken' = taken \cup {lock[KeyOf[r]]}
        BY <2>1, <3>2 DEF Acquire, RestTypes
      <4>2. lock[KeyOf[r]] \in Tasks
        BY <4>1 DEF Shape
      <4> QED BY <4>1, <4>2 DEF RestTypes, TaskOrNone
    <3> QED BY <3>1, <3>2
  <2>2. CASE ~Acquire(r)
    <3>1. UNCHANGED <<old, taken>>
      BY <2>2 DEF Admit, SubmitStep, SubmitError, CreatePending, Ask, MarkPreempted,
         CreateBlocked, Create, FanOut, handlerVars
    <3> QED BY <3>1 DEF RestTypes
  <2> QED BY <2>1, <2>2
<1>5. \A t \in Tasks : handler'[t] = "lock" => KeyOf[t] \in Keys
  <2>1. \A t \in Tasks \ {r} : handler'[t] = handler[t]
    BY DEF Admit, SubmitStep, SubmitError, CreatePending, Ask, Acquire, MarkPreempted,
       CreateBlocked, Create, FanOut, Goto, Shape
  <2>2. handler'[r] = "lock" => KeyOf[r] # NoKey \/ handler'[r] = handler[r]
    BY DEF Admit, SubmitStep, SubmitError, CreatePending, Ask, Acquire, MarkPreempted,
       CreateBlocked, Create, FanOut, Goto, Shape
  <2> QED BY <2>1, <2>2, ConstantsAssumption DEF RestTypes
<1> QED BY <1>1, <1>2, <1>3, <1>4, <1>5 DEF RestTypes

LEMMA RestExec ==
  ASSUME RestTypes, NEW t \in Tasks,
         \/ ExecStep(t) \/ ExecError(t) \/ Cancel(t) \/ CancelOne(t) \/ RunOut(t)
  PROVE  RestTypes'
<1>1. UNCHANGED <<request, handler, old, decision, taken, requests, takes>>
  BY DEF ExecStep, Begin, Return, ReadStatus, WriteResult, Release, Finish, ExecError,
         Cancel, CancelOne, RunOut, storeVars, handlerVars, boundVars
<1>2. CASE ExecStep(t) \/ ExecError(t)
  <2>1. UNCHANGED <<overdue, aborted, cancelling, cancels>>
    BY <1>2 DEF ExecStep, Begin, Return, ReadStatus, WriteResult, Release, Finish, ExecError,
           storeVars, boundVars
  <2>2. floors' \in [Operators -> Nat]
    <3>1. \/ floors' = floors
          \/ floors' = [floors EXCEPT ![OperatorOf[t]] =
                          IF concurrent[OperatorOf[t]] <= 0 THEN floors[OperatorOf[t]] + 1
                          ELSE floors[OperatorOf[t]]]
      BY <1>2 DEF ExecStep, Begin, Return, ReadStatus, WriteResult, Release, Finish, ExecError,
             Decrement
    <3>2. OperatorOf[t] \in Operators
      BY ConstantsAssumption
    <3>3. floors \in [Operators -> Nat] /\ floors[OperatorOf[t]] \in Nat
      BY <3>2 DEF RestTypes
    <3>4. (IF concurrent[OperatorOf[t]] <= 0 THEN floors[OperatorOf[t]] + 1
           ELSE floors[OperatorOf[t]]) \in Nat
      BY <3>3
    <3> QED BY <3>1, <3>3, <3>4
  <2> QED BY <1>1, <2>1, <2>2 DEF RestTypes
<1>3. CASE Cancel(t)
  <2>1. UNCHANGED <<overdue, floors>> /\ cancels' = cancels + 1
    BY <1>3 DEF Cancel, storeVars
  <2>2. Append(ChildrenOf[t], t) \in Seq(Tasks) /\ Head(Append(ChildrenOf[t], t)) \in Tasks
    <3>1. ChildrenOf[t] \in Seq(Tasks)
      BY ConstantsAssumption
    <3>2. Append(ChildrenOf[t], t) \in Seq(Tasks) /\ Append(ChildrenOf[t], t) # <<>>
      BY <3>1
    <3> QED BY <3>2, SeqParts
  <2>3. cancelling' = [cancelling EXCEPT ![t] = Append(ChildrenOf[t], t)]
        /\ Abort({Head(Append(ChildrenOf[t], t))})
    BY <1>3 DEF Cancel
  <2>4. cancelling' \in [Tasks -> Seq(Tasks)]
    BY <2>2, <2>3 DEF RestTypes
  <2>5. aborted' \subseteq Tasks
    BY <2>2, <2>3 DEF RestTypes, Abort
  <2> QED BY <1>1, <2>1, <2>4, <2>5 DEF RestTypes
<1>4. CASE CancelOne(t)
  <2>1. UNCHANGED <<overdue, floors, cancels>>
    BY <1>4 DEF CancelOne, boundVars
  <2>2. cancelling[t] \in Seq(Tasks) /\ cancelling[t] # <<>>
    BY <1>4 DEF CancelOne, RestTypes
  <2>3. /\ Tail(cancelling[t]) \in Seq(Tasks)
        /\ Len(cancelling[t]) > 1 => cancelling[t][2] \in Tasks
    BY <2>2
  <2>4. /\ cancelling' = [cancelling EXCEPT ![t] = Tail(cancelling[t])]
        /\ Abort(IF Len(cancelling[t]) > 1 THEN {cancelling[t][2]} ELSE {})
    BY <1>4 DEF CancelOne
  <2>5. aborted' \subseteq Tasks
    BY <2>3, <2>4 DEF RestTypes, Abort
  <2> QED BY <1>1, <2>1, <2>3, <2>4, <2>5 DEF RestTypes
<1>5. CASE RunOut(t)
  BY <1>1, <1>5 DEF RunOut, RestTypes, boundVars
<1> QED BY <1>2, <1>3, <1>4, <1>5

LEMMA RestDecisions ==
  ASSUME Shape, RestTypes, NEW d \in Deciders,
         \/ \E t \in Tasks : Decide(d, t)
         \/ ApplyVerdict(d) \/ FollowUp(d) \/ DecideError(d)
  PROVE  RestTypes'
<1>1. UNCHANGED <<overdue, handler, old, floors, aborted, cancelling, taken, requests,
                  cancels, takes>>
  BY DEF Decide, ApplyVerdict, FollowUp, DecideError, storeVars, handlerVars, boundVars
<1>2. \A e \in Deciders : decision'[e].pc # "idle" =>
        decision'[e].verdict \in {"approved", "rejected"}
  <2>1. CASE \E t \in Tasks : Decide(d, t)
    <3>1. PICK t \in Tasks, v \in {"approved", "rejected"} :
            decision' = [decision EXCEPT ![d] = [pc |-> "apply", task |-> t, verdict |-> v]]
      BY <2>1 DEF Decide
    <3> QED BY <3>1 DEF RestTypes, Shape
  <2>2. CASE ApplyVerdict(d) \/ FollowUp(d) \/ DecideError(d)
    <3>1. /\ \A e \in Deciders \ {d} : decision'[e] = decision[e]
          /\ decision'[d].verdict = decision[d].verdict /\ decision[d].pc # "idle"
      BY <2>2 DEF ApplyVerdict, FollowUp, DecideError, Shape, DecisionTypes
    <3> QED BY <3>1 DEF RestTypes
  <2> QED BY <2>1, <2>2
<1>3. request' \in [Tasks -> Requests]
  <2>1. CASE ApplyVerdict(d)
    <3>1. decision[d].verdict \in Requests
      BY <2>1 DEF ApplyVerdict, RestTypes, Requests
    <3> QED BY <2>1, <3>1 DEF ApplyVerdict, RestTypes
  <2>2. CASE ~ApplyVerdict(d)
    BY <2>2 DEF Decide, FollowUp, DecideError, RestTypes, storeVars
  <2> QED BY <2>1, <2>2
<1> QED BY <1>1, <1>2, <1>3 DEF RestTypes

LEMMA RestOthers ==
  ASSUME Shape, RestTypes,
         \/ \E o \in Operators : Floor(o)
         \/ \E k \in Keys : TakeLock(k)
         \/ ExpirePending \/ Restart \/ UNCHANGED vars
  PROVE  RestTypes'
<1>1. CASE \E o \in Operators : Floor(o)
  <2>1. PICK o \in Operators : Floor(o)
    BY <1>1
  <2>2. floors' \in [Operators -> Nat]
    <3>1. floors \in [Operators -> Nat] /\ floors[o] - 1 \in Nat
      BY <2>1 DEF Floor, RestTypes
    <3>2. floors' = [floors EXCEPT ![o] = floors[o] - 1]
      BY <2>1 DEF Floor
    <3> QED BY <3>1, <3>2
  <2> QED BY <2>1, <2>2 DEF Floor, RestTypes, handlerVars, boundVars
<1>2. CASE \E k \in Keys : TakeLock(k)
  <2>1. PICK k \in Keys : TakeLock(k)
    BY <1>2
  <2>2. lock[k] \in Tasks
    BY <2>1 DEF TakeLock, Shape
  <2>3. taken' \subseteq Tasks /\ takes' = takes + 1
    BY <2>1, <2>2 DEF TakeLock, RestTypes
  <2> QED BY <2>1, <2>3 DEF TakeLock, RestTypes, handlerVars
<1>3. CASE ExpirePending
  <2>1. request' \in [Tasks -> Requests]
    BY <1>3 DEF ExpirePending, RestTypes, Requests
  <2> QED BY <1>3, <2>1 DEF ExpirePending, RestTypes, handlerVars, boundVars
<1>4. CASE Restart
  <2>1. /\ UNCHANGED <<request, overdue, old, taken, requests, cancels, takes>>
        /\ floors' = [o \in Operators |-> 0] /\ aborted' = {}
        /\ cancelling' = [t \in Tasks |-> <<>>]
        /\ \A t \in Tasks : handler'[t] \in {handler[t], "closed"}
    BY <1>4 DEF Restart, storeVars
  <2>2. floors' \in [Operators -> Nat] /\ aborted' \subseteq Tasks
        /\ cancelling' \in [Tasks -> Seq(Tasks)]
    BY <2>1
  <2>3. \A d \in Deciders : /\ decision'[d].verdict = decision[d].verdict
                            /\ decision[d].pc = "idle" => decision'[d].pc = "idle"
    BY <1>4 DEF Restart, Shape, DecisionTypes
  <2> QED BY <2>1, <2>2, <2>3 DEF RestTypes
<1>5. CASE UNCHANGED vars
  BY <1>5 DEF RestTypes, vars, storeVars, handlerVars, boundVars
<1> QED BY <1>1, <1>2, <1>3, <1>4, <1>5

\* Every variable of the model keeps its type, for every value of the constants;
\* a result is written only when there is one, and a lock is acquired only for a
\* resource.
THEOREM TypeCorrect == Spec => []TypeOK
<1>1. Init => TypeInv
  <2>1. Init => concurrent \in [Operators -> Int]
    BY DEF Init
  <2> QED BY <2>1, RecordInit, RestInit DEF TypeInv
<1>2. TypeInv /\ [Next]_vars => TypeInv'
  <2> SUFFICES ASSUME TypeInv, [Next]_vars PROVE TypeInv'
    OBVIOUS
  <2>1. RecordInv /\ RestTypes /\ Shape /\ concurrent \in [Operators -> Int]
    BY DEF TypeInv, RecordInv, EntryInv, ApprovalInv
  <2>2. RestTypes'
    BY <2>1, RestHandlers, RestExec, RestDecisions, RestOthers DEF Next
  <2> QED BY <2>1, <2>2, RecordNext, ConcurrentType DEF TypeInv
<1>3. TypeInv => TypeOK
  <2> SUFFICES ASSUME TypeInv PROVE TypeOK
    OBVIOUS
  <2>1. /\ Shape /\ entries \in [Tasks -> Nat] /\ RestTypes /\ QueueInv
        /\ status \in [Tasks -> Statuses] /\ concurrent \in [Operators -> Int]
    BY DEF TypeInv, RecordInv, EntryInv, ApprovalInv
  <2> QED BY <2>1 DEF Shape, RestTypes, Requests, QueueInv, Statuses, ExecTypes, Places,
                      DecisionTypes, TaskOrNone, TypeOK
<1> QED BY <1>1, <1>2, <1>3, PTL DEF Spec
=============================================================================
