----------------------- MODULE BuilderDispatcherProofs -----------------------
(***************************************************************************)
(* Proofs about the dispatch loop of BuilderDispatcher, for any events,     *)
(* workers, overlapping calls of dispatchNext, sweeps, stops, errors and    *)
(* pauses.                                                                  *)
(***************************************************************************)
EXTENDS BuilderDispatcher, SequenceTheorems, TLAPS

USE ConstantsAssumption

-----------------------------------------------------------------------------
(* The inductive invariant.                                                *)

\* What a loop and the workers look like; the rest of TypeOK is not needed.
LoopShape ==
  /\ dispatching \in BOOLEAN
  /\ DOMAIN loop = Loops
  /\ \A l \in Loops :
       DOMAIN loop[l] = {"pc", "worker", "task", "level", "promoted"}
  /\ DOMAIN worker = Workers

\* A loop under way has a worker of the pool.
LoopWorker == \A l \in Loops : loop[l].pc # "idle" => loop[l].worker \in Workers

LoopInv == LoopShape /\ LoopWorker /\ MutexExact /\ WorkerFree

controlVars == <<dispatching, loop, worker>>

USE DEF redisVars, processVars, loopVars, workVars, historyVars, boundVars

-----------------------------------------------------------------------------
(* What the pieces of dispatchNext do to the invariant.                    *)

LEMMA Unchanged ==
  ASSUME LoopInv, UNCHANGED controlVars
  PROVE  LoopInv'
BY DEF LoopInv, LoopShape, LoopWorker, MutexExact, WorkerFree, controlVars

\* A call of dispatchNext starts a loop only when none runs, with a worker
\* that is idle.
LEMMA DispatchKeeps ==
  ASSUME LoopInv, Dispatch(worker), UNCHANGED worker
  PROVE  LoopInv'
<1>1. CASE UNCHANGED loopVars
  BY <1>1, Unchanged DEF controlVars
<1>2. CASE ~UNCHANGED loopVars
  <2>1. ~dispatching /\ dispatching' = TRUE
    BY <1>2 DEF Dispatch, MutexFree
  <2>2. PICK k \in Loops, w \in Workers :
          worker[w] = NoTask /\ loop' = [loop EXCEPT ![k] = LoopWith(w)]
    BY <1>2 DEF Dispatch, Pickable
  <2>3. \A l \in Loops : loop[l].pc = "idle"
    BY <2>1 DEF LoopInv, MutexExact
  <2> QED BY <2>1, <2>2, <2>3
          DEF LoopInv, LoopShape, LoopWorker, MutexExact, WorkerFree, LoopWith
<1> QED BY <1>1, <1>2

\* The one running loop ends and the mutex is released with it.
LEMMA BreakKeeps ==
  ASSUME LoopInv, NEW l \in Loops, loop[l].pc # "idle", Break(l), UNCHANGED worker
  PROVE  LoopInv'
<1>1. \A m \in Loops : m # l => loop[m].pc = "idle"
  BY DEF LoopInv, MutexExact
<1>2. \A m \in Loops : loop'[m].pc = "idle"
  BY <1>1 DEF Break, IdleLoop, LoopInv, LoopShape
<1> QED BY <1>2 DEF Break, IdleLoop, LoopInv, LoopShape, LoopWorker, MutexExact,
                    WorkerFree

\* A loop that moves on keeps its worker.
LEMMA MoveKeeps ==
  ASSUME LoopInv, NEW l \in Loops, loop[l].pc # "idle", UNCHANGED worker,
         UNCHANGED dispatching, DOMAIN loop' = Loops,
         \A m \in Loops : m # l => loop'[m] = loop[m],
         loop'[l].pc # "idle", loop'[l].worker = loop[l].worker,
         DOMAIN loop'[l] = DOMAIN loop[l]
  PROVE  LoopInv'
<1>1. LoopShape'
  BY DEF LoopInv, LoopShape
<1>2. \A m \in Loops : /\ loop'[m].worker = loop[m].worker
                       /\ (loop'[m].pc # "idle" <=> loop[m].pc # "idle")
  OBVIOUS
<1> QED BY <1>1, <1>2 DEF LoopInv, LoopWorker, MutexExact, WorkerFree

LEMMA AtKeeps ==
  ASSUME LoopInv, NEW l \in Loops, loop[l].pc # "idle", UNCHANGED worker,
         NEW where, where # "idle", NEW p, At(l, where, p)
  PROVE  LoopInv'
<1>1. UNCHANGED dispatching /\ DOMAIN loop' = Loops
  BY DEF At, LoopInv, LoopShape
<1>2. \A m \in Loops : m # l => loop'[m] = loop[m]
  BY DEF At, LoopInv, LoopShape
<1>3. /\ loop'[l].pc # "idle" /\ loop'[l].worker = loop[l].worker
      /\ DOMAIN loop'[l] = DOMAIN loop[l]
  BY DEF At, LoopInv, LoopShape
<1> QED BY <1>1, <1>2, <1>3, MoveKeeps

LEMMA TookKeeps ==
  ASSUME LoopInv, NEW l \in Loops, loop[l].pc # "idle", UNCHANGED worker,
         NEW t, NEW b, Took(l, t, b)
  PROVE  LoopInv'
<1>1. UNCHANGED dispatching /\ DOMAIN loop' = Loops
  BY DEF Took, LoopInv, LoopShape
<1>2. \A m \in Loops : m # l => loop'[m] = loop[m]
  BY DEF Took, LoopInv, LoopShape
<1>3. /\ loop'[l].pc # "idle" /\ loop'[l].worker = loop[l].worker
      /\ DOMAIN loop'[l] = DOMAIN loop[l]
  BY DEF Took, LoopInv, LoopShape
<1> QED BY <1>1, <1>2, <1>3, MoveKeeps

-----------------------------------------------------------------------------
(* The steps that change a loop or a worker.                               *)

LEMMA PeekKeeps ==
  ASSUME LoopInv, NEW l \in Loops, Peek(l) PROVE LoopInv'
<1>1. loop[l].pc # "idle" /\ UNCHANGED worker
  BY DEF Peek
<1>2. At(l, "pop", 0) \/ At(l, "promote", 0)
  BY DEF Peek
<1> QED BY <1>1, <1>2, AtKeeps

LEMMA PromoteKeeps ==
  ASSUME LoopInv, NEW l \in Loops, Promote(l) PROVE LoopInv'
<1>1. loop[l].pc # "idle" /\ UNCHANGED worker
  BY DEF Promote
<1>2. CASE Took(l, Head(zset[3]), TRUE)
  BY <1>1, <1>2, TookKeeps
<1>3. CASE At(l, "pop", 0)
  BY <1>1, <1>3, AtKeeps
<1> QED BY <1>2, <1>3 DEF Promote

LEMMA PopKeeps ==
  ASSUME LoopInv, NEW l \in Loops, Pop(l) PROVE LoopInv'
<1>1. loop[l].pc # "idle" /\ UNCHANGED worker
  BY DEF Pop
<1>2. CASE Took(l, Head(zset[loop[l].level]), FALSE)
  BY <1>1, <1>2, TookKeeps
<1>3. CASE At(l, "pop", loop[l].level + 1)
  BY <1>1, <1>3, AtKeeps
<1>4. CASE Break(l)
  BY <1>1, <1>4, BreakKeeps
<1> QED BY <1>2, <1>3, <1>4 DEF Pop

LEMMA FetchKeeps ==
  ASSUME LoopInv, NEW l \in Loops, Fetch(l) PROVE LoopInv'
<1>1. /\ loop[l].pc # "idle" /\ UNCHANGED worker /\ UNCHANGED dispatching
      /\ DOMAIN loop' = Loops
  BY DEF Fetch, LoopInv, LoopShape
<1>2. \A m \in Loops : m # l => loop'[m] = loop[m]
  BY DEF Fetch, LoopInv, LoopShape
<1>3. /\ loop'[l].pc # "idle" /\ loop'[l].worker = loop[l].worker
      /\ DOMAIN loop'[l] = DOMAIN loop[l]
  BY DEF Fetch, LoopInv, LoopShape
<1> QED BY <1>1, <1>2, <1>3, MoveKeeps

LEMMA RequeueKeeps ==
  ASSUME LoopInv, NEW l \in Loops, Requeue(l) PROVE LoopInv'
BY BreakKeeps DEF Requeue

LEMMA LoopErrorKeeps ==
  ASSUME LoopInv, NEW l \in Loops, LoopError(l) PROVE LoopInv'
BY BreakKeeps DEF LoopError

\* The loop's worker becomes busy; the loop ends, or goes on with a worker
\* that is still idle.
LEMMA AssignKeeps ==
  ASSUME LoopInv, NEW l \in Loops, Assign(l) PROVE LoopInv'
<1>1. loop[l].pc = "assign" /\ \A m \in Loops : m # l => loop[m].pc = "idle"
  BY DEF Assign, LoopInv, MutexExact
<1>2. DOMAIN worker' = Workers
  BY DEF Assign, LoopInv, LoopShape
<1>3. CASE Break(l)
  <2>1. \A m \in Loops : loop'[m].pc = "idle"
    BY <1>1, <1>3 DEF Break, IdleLoop, LoopInv, LoopShape
  <2> QED BY <1>2, <1>3, <2>1 DEF Break, IdleLoop, LoopInv, LoopShape,
                                  LoopWorker, MutexExact, WorkerFree
<1>4. CASE ~Break(l)
  <2>1. PICK w \in Workers : /\ worker'[w] = NoTask
                             /\ loop' = [loop EXCEPT ![l] = LoopWith(w)]
    BY <1>4 DEF Assign
  <2>2. UNCHANGED dispatching
    BY <1>4 DEF Assign
  <2>3. /\ loop'[l] = LoopWith(w) /\ DOMAIN loop' = Loops
        /\ \A m \in Loops : m # l => loop'[m] = loop[m]
    BY <2>1 DEF LoopInv, LoopShape
  <2> QED BY <1>1, <1>2, <2>1, <2>2, <2>3
          DEF LoopInv, LoopShape, LoopWorker, MutexExact, WorkerFree, LoopWith
<1> QED BY <1>3, <1>4

\* A worker that was executing becomes idle: no loop counts on it being busy.
LEMMA WorkerEndKeeps ==
  ASSUME LoopInv, NEW w \in Workers, NEW r \in Outcomes, WorkerEnd(w, r)
  PROVE  LoopInv'
<1>1. UNCHANGED loopVars /\ DOMAIN worker' = Workers
  BY DEF WorkerEnd, LoopInv, LoopShape
<1>2. \A v \in Workers : worker[v] = NoTask => worker'[v] = NoTask
  BY DEF WorkerEnd, LoopInv, LoopShape
<1> QED BY <1>1, <1>2 DEF LoopInv, LoopShape, LoopWorker, MutexExact, WorkerFree

LEMMA ExitKeeps ==
  ASSUME LoopInv, Exit PROVE LoopInv'
<1>1. /\ dispatching' = FALSE /\ loop' = [l \in Loops |-> IdleLoop]
      /\ worker' = [w \in Workers |-> NoTask]
  BY DEF Exit
<1> QED BY <1>1 DEF IdleLoop, LoopInv, LoopShape, LoopWorker, MutexExact, WorkerFree

-----------------------------------------------------------------------------
(* The theorem.                                                            *)

LEMMA InitLoop == Init => LoopInv
<1> SUFFICES ASSUME Init PROVE LoopInv
  OBVIOUS
<1>1. /\ dispatching = FALSE /\ loop = [l \in Loops |-> IdleLoop]
      /\ worker = [w \in Workers |-> NoTask]
  BY DEF Init
<1> QED BY <1>1 DEF IdleLoop, LoopInv, LoopShape, LoopWorker, MutexExact, WorkerFree

LEMMA StepLoop == LoopInv /\ [Next]_vars => LoopInv'
<1> SUFFICES ASSUME LoopInv, [Next]_vars PROVE LoopInv'
  OBVIOUS
<1>1. CASE UNCHANGED vars
  BY <1>1, Unchanged DEF vars, controlVars
<1>2. ASSUME NEW e \in Events, Arrive(e) \/ HandlerStep(e) \/ HandlerError(e)
      PROVE  LoopInv'
  <2>1. CASE EnqueueEvent(e)
    BY <2>1, DispatchKeeps DEF EnqueueEvent
  <2>2. CASE ~EnqueueEvent(e)
    <3>1. UNCHANGED controlVars
      BY <1>2, <2>2 DEF HandlerStep, Arrive, FloodGuard, SetCorrelation, SetDedup,
                        ReadDepth, HandlerError, controlVars
    <3> QED BY <3>1, Unchanged
  <2> QED BY <2>1, <2>2
<1>3. CASE Poll
  BY <1>3, DispatchKeeps DEF Poll
<1>4. CASE Exit
  BY <1>4, ExitKeeps
<1>5. CASE Pause \/ Sigterm \/ DrainAdd \/ RestartStep
  <2>1. UNCHANGED controlVars
    BY <1>5 DEF Pause, Sigterm, DrainAdd, RestartStep, Start, RecoverEnd, FlushEnd,
                RecoverTask, FlushTask, controlVars
  <2> QED BY <2>1, Unchanged
<1>6. ASSUME NEW l \in Loops, LoopStep(l) \/ LoopError(l)
      PROVE  LoopInv'
  BY <1>6, PeekKeeps, PromoteKeeps, PopKeeps, FetchKeeps, RequeueKeeps, AssignKeeps,
     LoopErrorKeeps DEF LoopStep
<1>7. ASSUME NEW w \in Workers, DrainMark(w) PROVE LoopInv'
  BY <1>7, Unchanged DEF DrainMark, controlVars
<1>8. ASSUME NEW w \in Workers, NEW r \in Outcomes, WorkerEnd(w, r) PROVE LoopInv'
  BY <1>8, WorkerEndKeeps
<1>9. ASSUME NEW t \in Ids,
             PostStep(t) \/ RecordError(t) \/ PushError(t) \/ HashExpires(t)
      PROVE  LoopInv'
  <2>1. CASE Record(t)
    <3>1. UNCHANGED worker /\ (Dispatch(worker) \/ UNCHANGED loopVars)
      BY <2>1 DEF Record
    <3> QED BY <3>1, DispatchKeeps, Unchanged DEF controlVars
  <2>2. CASE Trim(t) \/ RecordError(t) \/ PushError(t)
    BY <2>2, DispatchKeeps DEF Trim, RecordError, PushError
  <2>3. CASE Retry(t) \/ PushToDlq(t) \/ HashExpires(t)
    BY <2>3, Unchanged DEF Retry, PushToDlq, HashExpires, controlVars
  <2> QED BY <1>9, <2>1, <2>2, <2>3 DEF PostStep
<1>10. ASSUME NEW k \in Keys, CircuitAges(k) PROVE LoopInv'
  BY <1>10, Unchanged DEF CircuitAges, controlVars
<1>11. ASSUME NEW s \in Sweepers, SweepStep(s) \/ \E m \in SweepModes : SweepBegin(s, m)
       PROVE  LoopInv'
  <2>1. UNCHANGED controlVars
    BY <1>11 DEF SweepStep, SweepBegin, SweepGivesUp, SweepSkips, SweepRetries,
                 SweepArchives, SweepEnd, controlVars
  <2> QED BY <2>1, Unchanged
<1> QED BY <1>1, <1>2, <1>3, <1>4, <1>5, <1>6, <1>7, <1>8, <1>9, <1>10, <1>11 DEF Next

LEMMA LoopInvariant == Spec => []LoopInv
BY InitLoop, StepLoop, PTL DEF Spec

\* Whatever calls dispatchNext (the poll timer, an enqueued event, an ended
\* worker), whatever fails in it and wherever the process stops, one dispatch
\* loop runs and the mutex flag says so.
THEOREM DispatchExclusive == Spec => []MutexExact
<1>1. LoopInv => MutexExact
  BY DEF LoopInv
<1> QED BY <1>1, LoopInvariant, PTL

\* The worker a dispatch loop chose is still idle when the loop hands it a
\* task, whatever ran during the awaits in between.
THEOREM ChosenWorkerIdle == Spec => []WorkerFree
<1>1. LoopInv => WorkerFree
  BY DEF LoopInv
<1> QED BY <1>1, LoopInvariant, PTL


-----------------------------------------------------------------------------
(* The types.  A loop holds a task between the pop and the hand-over, and   *)
(* then only; a result is recorded only when there is one.                 *)

States == {"none", "QUEUED", "ASSIGNED", "RUNNING", "COMPLETED", "FAILED", "TIMEOUT",
           "REQUEUED"}
Tasks == [event : AnyEvent, prio : Levels, dlqCount : Nat, tmoCount : Nat]
LoopTypes == [pc : {"idle", "peek", "promote", "pop", "fetch", "requeue", "assign"},
              worker : Workers \cup {NoWorker}, task : TaskOrNone,
              level : Levels, promoted : BOOLEAN]
PostTypes == [pc : {"none", "record", "retry", "push", "trim"},
              result : Outcomes \cup {"none"}]
SweepTypes == [pc : {"idle", "entries"}, mode : {"retry", "drain"},
               todo : Seq(Entries), keep : Seq(Entries), changed : BOOLEAN]

StoreType == /\ zset \in [Levels -> Seq(Ids)] /\ state \in [Ids -> States]
             /\ task \in [Ids -> Tasks] /\ used \in 0..MaxTasks
HoldsTask == {"fetch", "requeue", "assign"}
LoopType == /\ dispatching \in BOOLEAN /\ loop \in [Loops -> LoopTypes]
            /\ \A l \in Loops : loop[l].task # NoTask <=> loop[l].pc \in HoldsTask
            /\ \A l \in Loops : loop[l].pc # "idle" => loop[l].worker \in Workers
WorkType == /\ worker \in [Workers -> TaskOrNone] /\ post \in [Ids -> PostTypes]
            /\ \A t \in Ids : post[t].pc # "none" => post[t].result \in Outcomes
DlqType == /\ dlq \in Seq(Entries) /\ sweep \in [Sweepers -> SweepTypes]
           /\ \A s \in Sweepers : sweep[s].pc = "idle" => sweep[s] = IdleSweep
RestartType == /\ phase \in {"down", "recover", "flush", "up", "draining"}
               /\ scan \subseteq Ids /\ closing \in TaskOrNone /\ expiring \subseteq Ids
HandlerType == /\ corr \subseteq Correlations /\ dedup \subseteq Keys
               /\ handler \in [Events -> {"new", "flood", "corr", "dedup", "depth",
                                          "enqueue", "done"}]
               /\ answer \in [Events -> {"none", "accepted", "rejected", "duplicate",
                                         "error"}]
HistoryType == /\ finished \subseteq AnyEvent /\ archived \subseteq AnyEvent
               /\ retries \in [Events -> Nat] /\ failures \in [Keys -> Nat]
CountType == /\ paused \in BOOLEAN
             /\ fails \in Nat /\ sweeps \in Nat /\ stops \in Nat /\ sigterms \in Nat
             /\ errors \in Nat /\ pauses \in Nat /\ discards \in Nat

TypeInv == /\ StoreType /\ LoopType /\ WorkType /\ DlqType /\ RestartType
           /\ HandlerType /\ HistoryType /\ CountType

\* The same constants as the model reads them.
LEMMA Bounds ==
  /\ MaxTasks \in Nat /\ DlqMaxSize \in Nat /\ DlqMaxRetries \in Nat
  /\ \A e \in Events : PriorityOf[e] \in Levels /\ KeyOf[e] \in Keys /\ e \in AnyEvent
  /\ NoTask \notin Ids /\ Ids \subseteq Nat
BY DEF AnyEvent, NoTask, Ids

LEMMA InitTypes == Init => TypeInv
<1> SUFFICES ASSUME Init PROVE TypeInv
  OBVIOUS
<1>1. StoreType
  <2>1. Unused \in Tasks
    BY DEF Unused, Tasks, AnyEvent, Levels
  <2>2. <<>> \in Seq(Ids) /\ used \in 0..MaxTasks
    BY Bounds DEF Init
  <2> QED BY <2>1, <2>2 DEF Init, StoreType, States
<1>2. LoopType
  <2>1. IdleLoop \in LoopTypes
    BY DEF IdleLoop, LoopTypes, TaskOrNone, Levels
  <2> QED BY <2>1 DEF Init, LoopType, IdleLoop, HoldsTask
<1>3. WorkType
  BY DEF Init, WorkType, PostTypes, NoPost, TaskOrNone
<1>4. DlqType
  <2>1. IdleSweep \in SweepTypes
    BY DEF IdleSweep, SweepTypes
  <2> QED BY <2>1 DEF Init, DlqType
<1>5. RestartType /\ HandlerType /\ HistoryType /\ CountType
  BY DEF Init, RestartType, HandlerType, HistoryType, CountType, TaskOrNone
<1> QED BY <1>1, <1>2, <1>3, <1>4, <1>5 DEF TypeInv

\* The parts of a sequence, as sets.
LEMMA SeqSet ==
  ASSUME NEW S, NEW q \in Seq(S)
  PROVE  /\ ToSet(q) = {q[i] : i \in 1..Len(q)} /\ ToSet(q) \subseteq S
         /\ q = <<>> <=> ToSet(q) = {}
<1>1. /\ Len(q) \in Nat /\ DOMAIN q = 1..Len(q) /\ \A i \in 1..Len(q) : q[i] \in S
      /\ q = <<>> <=> Len(q) = 0
  OBVIOUS
<1>2. Len(q) # 0 => 1 \in 1..Len(q)
  BY <1>1
<1>3. Len(q) = 0 => 1..Len(q) = {}
  BY <1>1
<1>4. ToSet(q) = {q[i] : i \in 1..Len(q)}
  BY <1>1 DEF ToSet
<1>5. ToSet(q) \subseteq S
  BY <1>1, <1>4
<1>6. q = <<>> <=> ToSet(q) = {}
  <2>1. CASE Len(q) = 0
    BY <1>1, <1>3, <1>4, <2>1
  <2>2. CASE Len(q) # 0
    <3>1. q[1] \in ToSet(q)
      BY <1>2, <1>4, <2>2
    <3> QED BY <1>1, <2>2, <3>1
  <2> QED BY <2>1, <2>2
<1> QED BY <1>4, <1>5, <1>6

LEMMA SeqTail ==
  ASSUME NEW S, NEW q \in Seq(S), q # <<>>
  PROVE  /\ Head(q) \in S /\ Head(q) \in ToSet(q) /\ Tail(q) \in Seq(S)
         /\ ToSet(q) = ToSet(Tail(q)) \cup {Head(q)}
         /\ IsInjective(q) => IsInjective(Tail(q)) /\ Head(q) \notin ToSet(Tail(q))
<1>1. /\ Len(q) \in Nat /\ Len(q) >= 1 /\ Tail(q) \in Seq(S) /\ Len(Tail(q)) = Len(q) - 1
      /\ Head(q) = q[1] /\ Head(q) \in S
      /\ \A i \in 1..Len(q) - 1 : Tail(q)[i] = q[i + 1]
  OBVIOUS
<1>2. DOMAIN q = 1..Len(q) /\ DOMAIN Tail(q) = 1..Len(q) - 1
  BY <1>1
<1>3. ToSet(q) = ToSet(Tail(q)) \cup {Head(q)}
  <2>1. ASSUME NEW x \in ToSet(q) PROVE x \in ToSet(Tail(q)) \cup {Head(q)}
    <3>1. PICK i \in 1..Len(q) : x = q[i]
      BY SeqSet
    <3>2. CASE i = 1
      BY <1>1, <3>1, <3>2
    <3>3. CASE i # 1
      <4>1. i - 1 \in 1..Len(q) - 1 /\ (i - 1) + 1 = i
        BY <1>1, <3>3
      <4>2. Tail(q)[i - 1] = x
        BY <1>1, <3>1, <4>1
      <4> QED BY <1>2, <4>1, <4>2 DEF ToSet
    <3> QED BY <3>2, <3>3
  <2>2. ASSUME NEW x \in ToSet(Tail(q)) PROVE x \in ToSet(q)
    <3>1. PICK i \in 1..Len(q) - 1 : x = Tail(q)[i]
      BY <1>2 DEF ToSet
    <3>2. i + 1 \in 1..Len(q)
      BY <1>1
    <3>3. x = q[i + 1]
      BY <1>1, <3>1
    <3> QED BY <1>2, <3>2, <3>3 DEF ToSet
  <2>3. Head(q) \in ToSet(q)
    <3>1. 1 \in 1..Len(q)
      BY <1>1
    <3> QED BY <1>1, <1>2, <3>1 DEF ToSet
  <2> QED BY <2>1, <2>2, <2>3
<1>4. ASSUME IsInjective(q) PROVE IsInjective(Tail(q)) /\ Head(q) \notin ToSet(Tail(q))
  <2>1. ASSUME NEW i \in 1..Len(q), NEW j \in 1..Len(q), q[i] = q[j] PROVE i = j
    BY <1>2, <1>4, <2>1 DEF IsInjective
  <2>2. ASSUME NEW i \in 1..Len(q) - 1, NEW j \in 1..Len(q) - 1, Tail(q)[i] = Tail(q)[j]
        PROVE  i = j
    <3>1. i + 1 \in 1..Len(q) /\ j + 1 \in 1..Len(q) /\ q[i + 1] = q[j + 1]
      BY <1>1, <2>2
    <3>2. i + 1 = j + 1
      BY <2>1, <3>1
    <3> QED BY <3>2
  <2>3. ASSUME NEW i \in 1..Len(q) - 1 PROVE Tail(q)[i] # Head(q)
    <3>1. i + 1 \in 1..Len(q) /\ 1 \in 1..Len(q) /\ i + 1 # 1
      BY <1>1
    <3>2. q[i + 1] # q[1]
      BY <2>1, <3>1
    <3> QED BY <1>1, <3>2
  <2>4. IsInjective(Tail(q))
    BY <1>2, <2>2 DEF IsInjective
  <2> QED BY <1>2, <2>3, <2>4 DEF ToSet
<1>5. Head(q) \in ToSet(q)
  BY <1>3
<1> QED BY <1>1, <1>3, <1>4, <1>5

LEMMA SeqAppend ==
  ASSUME NEW S, NEW q \in Seq(S), NEW x \in S
  PROVE  /\ Append(q, x) \in Seq(S) /\ ToSet(Append(q, x)) = ToSet(q) \cup {x}
         /\ IsInjective(q) /\ x \notin ToSet(q) => IsInjective(Append(q, x))
<1> DEFINE r == Append(q, x)
<1>1. /\ Len(q) \in Nat /\ r \in Seq(S) /\ DOMAIN r = 1..Len(q) + 1 /\ r[Len(q) + 1] = x
      /\ DOMAIN q = 1..Len(q) /\ \A i \in 1..Len(q) : r[i] = q[i]
  OBVIOUS
<1> HIDE DEF r
<1>2. 1..Len(q) + 1 = (1..Len(q)) \cup {Len(q) + 1}
  <2>1. \A n \in Nat : 1..n + 1 = (1..n) \cup {n + 1}
    BY ONLY SMT
  <2> QED BY ONLY <1>1, <2>1
<1>3. ToSet(r) = ToSet(q) \cup {x}
  <2>1. ASSUME NEW y PROVE y \in ToSet(r) <=> \E i \in (1..Len(q)) \cup {Len(q) + 1} : y = r[i]
    BY <1>1, <1>2 DEF ToSet
  <2>2. ASSUME NEW y PROVE y \in ToSet(q) <=> \E i \in 1..Len(q) : y = r[i]
    BY <1>1 DEF ToSet
  <2>3. ASSUME NEW y PROVE y \in ToSet(r) <=> y \in ToSet(q) \cup {x}
    BY <1>1, <2>1, <2>2
  <2> QED BY <2>3
<1>4. ASSUME IsInjective(q), x \notin ToSet(q) PROVE IsInjective(r)
  <2>1. ASSUME NEW i \in 1..Len(q) PROVE q[i] # x
    BY <1>1, <1>4 DEF ToSet
  <2>2. ASSUME NEW i \in 1..Len(q), NEW j \in 1..Len(q), q[i] = q[j] PROVE i = j
    BY <1>1, <1>4, <2>2 DEF IsInjective
  <2>3. ASSUME NEW i \in 1..Len(q) + 1, NEW j \in 1..Len(q) + 1, r[i] = r[j] PROVE i = j
    BY <1>1, <1>2, <2>1, <2>2, <2>3
  <2> QED BY <1>1, <2>3 DEF IsInjective
<1> QED BY <1>1, <1>3, <1>4 DEF r

LEMMA SeqWithout ==
  ASSUME NEW S, NEW q \in Seq(S), NEW t
  PROVE  /\ Without(q, t) \in Seq(S)
         /\ ToSet(q) \ {t} \subseteq ToSet(Without(q, t))
         /\ ToSet(Without(q, t)) \subseteq ToSet(q)
         /\ IsInjective(q) => /\ ToSet(Without(q, t)) = ToSet(q) \ {t}
                              /\ IsInjective(Without(q, t))
<1>1. /\ Len(q) \in Nat /\ DOMAIN q = 1..Len(q) /\ \A n \in 1..Len(q) : q[n] \in S
  OBVIOUS
<1>2. CASE t \notin ToSet(q)
  <2>1. Without(q, t) = q
    BY <1>2 DEF Without
  <2> QED BY <1>2, <2>1
<1>3. CASE t \in ToSet(q)
  <2> DEFINE i == CHOOSE k \in 1..Len(q) : q[k] = t
             u == SubSeq(q, 1, i - 1)
             v == SubSeq(q, i + 1, Len(q))
             r == u \o v
  <2>1. i \in 1..Len(q) /\ q[i] = t
    <3>1. \E k \in 1..Len(q) : q[k] = t
      BY <1>1, <1>3 DEF ToSet
    <3> QED BY <3>1
  <2>2. Without(q, t) = r
    BY <1>3 DEF Without, RemoveAt
  <2> HIDE DEF i
  <2>3. i \in Int /\ Len(q) \in Int /\ 1 <= i /\ i <= Len(q)
    BY <1>1, <2>1
  <2>4. u \in Seq(S) /\ Len(u) = i - 1 /\ \A n \in 1..i - 1 : u[n] = q[n]
    <3>1. 1 \in Int /\ i - 1 \in Int /\ \A n \in 1..i - 1 : q[n] \in S
      BY <1>1, <2>3
    <3>2. /\ u \in Seq(S) /\ Len(u) = IF 1 <= i - 1 THEN (i - 1) - 1 + 1 ELSE 0
          /\ \A n \in 1..(i - 1) - 1 + 1 : u[n] = q[1 + n - 1]
      BY ONLY <3>1, SubSeqProperties
    <3>3. /\ (i - 1) - 1 + 1 = i - 1 /\ (1 <= i - 1 \/ i - 1 = 0)
          /\ \A n \in 1..i - 1 : 1 + n - 1 = n
      BY <2>3
    <3> HIDE DEF u
    <3> QED BY <3>2, <3>3
  <2>5. v \in Seq(S) /\ Len(v) = Len(q) - i /\ \A n \in 1..Len(q) - i : v[n] = q[n + i]
    <3>1. i + 1 \in Int /\ Len(q) \in Int /\ \A n \in i + 1..Len(q) : q[n] \in S
      BY <1>1, <2>3
    <3>2. /\ v \in Seq(S)
          /\ Len(v) = IF i + 1 <= Len(q) THEN Len(q) - (i + 1) + 1 ELSE 0
          /\ \A n \in 1..Len(q) - (i + 1) + 1 : v[n] = q[(i + 1) + n - 1]
      BY ONLY <3>1, SubSeqProperties
    <3>3. Len(q) - (i + 1) + 1 = Len(q) - i /\ (i + 1 <= Len(q) \/ Len(q) - i = 0)
      BY <2>3
    <3>4. \A n \in 1..Len(q) - i : (i + 1) + n - 1 = n + i
      BY <2>3
    <3> HIDE DEF v
    <3> QED BY <3>2, <3>3, <3>4
  <2> HIDE DEF u, v
  <2>6. r \in Seq(S) /\ Len(r) = Len(q) - 1 /\ DOMAIN r = 1..Len(q) - 1
    <3>1. \A x, y \in Seq(S) : x \o y \in Seq(S) /\ Len(x \o y) = Len(x) + Len(y)
      OBVIOUS
    <3>2. r \in Seq(S) /\ Len(r) = Len(u) + Len(v)
      BY <2>4, <2>5, <3>1
    <3>3. DOMAIN r = 1..Len(r)
      BY <3>2
    <3>4. Len(u) + Len(v) = Len(q) - 1
      BY <2>3, <2>4, <2>5
    <3> QED BY <3>2, <3>3, <3>4
  <2>7. ASSUME NEW n \in 1..Len(q) - 1 PROVE r[n] = q[IF n < i THEN n ELSE n + 1]
    <3>1. \A x, y \in Seq(S) : \A m \in 1..Len(x) + Len(y) :
            (x \o y)[m] = IF m <= Len(x) THEN x[m] ELSE y[m - Len(x)]
      BY ONLY ConcatProperties
    <3>2. n \in 1..Len(u) + Len(v)
      <4>1. Len(u) + Len(v) = Len(q) - 1
        BY <2>3, <2>4, <2>5
      <4> QED BY <4>1
    <3>3. r[n] = IF n <= Len(u) THEN u[n] ELSE v[n - Len(u)]
      BY <2>4, <2>5, <3>1, <3>2
    <3>4. CASE n < i
      <4>1. n <= i - 1 /\ n \in 1..i - 1
        BY ONLY <2>3, <3>4, n \in 1..Len(q) - 1
      <4> QED BY <2>4, <3>3, <3>4, <4>1
    <3>5. CASE ~(n < i)
      <4>1. ~(n <= Len(u)) /\ n - Len(u) = n - (i - 1) /\ n - (i - 1) \in 1..Len(q) - i
            /\ (n - (i - 1)) + i = n + 1
        BY <2>3, <2>4, <3>5
      <4>2. r[n] = v[n - (i - 1)]
        BY <3>3, <4>1
      <4>3. r[n] = q[n + 1]
        BY <2>5, <4>1, <4>2
      <4> QED BY <3>5, <4>3
    <3> QED BY <3>4, <3>5
  <2> HIDE DEF r
  <2> DEFINE f(n) == IF n < i THEN n ELSE n + 1
  <2>8. \A n \in 1..Len(q) - 1 : f(n) \in 1..Len(q) /\ f(n) # i
    BY ONLY <2>3
  <2>9. \A n, m \in 1..Len(q) - 1 : f(n) = f(m) => n = m
    BY ONLY <2>3
  <2>10. ASSUME NEW k \in 1..Len(q), k # i PROVE \E n \in 1..Len(q) - 1 : f(n) = k
    <3>0. k < i \/ k > i
      BY ONLY <2>3, <2>10
    <3>1. CASE k < i
      <4>1. k \in 1..Len(q) - 1
        BY ONLY <2>3, <3>1, <2>10
      <4> QED BY <3>1, <4>1
    <3>2. CASE k > i
      <4>1. /\ k - 1 \in 1..Len(q) - 1 /\ ~(k - 1 < i) /\ (k - 1) + 1 = k
        BY ONLY <2>3, <3>2, <2>10
      <4> QED BY <4>1
    <3> QED BY <3>0, <3>1, <3>2
  <2>11. \A n \in 1..Len(q) - 1 : r[n] = q[f(n)]
    BY <2>7
  <2> HIDE DEF f
  <2>12. ASSUME NEW y PROVE y \in ToSet(r) <=> \E n \in 1..Len(q) - 1 : y = q[f(n)]
    BY <2>6, <2>11 DEF ToSet
  <2>13. ASSUME NEW y PROVE y \in ToSet(q) <=> \E k \in 1..Len(q) : y = q[k]
    BY <1>1 DEF ToSet
  <2>14. ToSet(q) \ {t} \subseteq ToSet(r) /\ ToSet(r) \subseteq ToSet(q)
    <3>1. ASSUME NEW y \in ToSet(r) PROVE y \in ToSet(q)
      <4>1. PICK n \in 1..Len(q) - 1 : y = q[f(n)]
        BY <2>12
      <4> QED BY <2>8, <2>13, <4>1
    <3>2. ASSUME NEW y \in ToSet(q), y # t PROVE y \in ToSet(r)
      <4>1. PICK k \in 1..Len(q) : y = q[k]
        BY <2>13
      <4>2. k # i
        BY <2>1, <3>2, <4>1
      <4>3. PICK n \in 1..Len(q) - 1 : f(n) = k
        BY <2>10, <4>2
      <4> QED BY <2>12, <4>1, <4>3
    <3> QED BY <3>1, <3>2
  <2>15. ASSUME IsInjective(q) PROVE ToSet(r) = ToSet(q) \ {t} /\ IsInjective(r)
    <3>1. ASSUME NEW n \in 1..Len(q), NEW m \in 1..Len(q), q[n] = q[m] PROVE n = m
      <4>1. \A a, b \in DOMAIN q : q[a] = q[b] => a = b
        BY <2>15 DEF IsInjective
      <4> QED BY ONLY <1>1, <3>1, <4>1
    <3>2. t \notin ToSet(r)
      BY <2>1, <2>8, <2>12, <3>1
    <3>3. IsInjective(r)
      <4>1. ASSUME NEW n \in 1..Len(q) - 1, NEW m \in 1..Len(q) - 1, r[n] = r[m]
            PROVE  n = m
        BY <2>8, <2>9, <2>11, <3>1, <4>1
      <4> QED BY <2>6, <4>1 DEF IsInjective
    <3> QED BY <2>14, <3>2, <3>3
  <2> QED BY <2>2, <2>6, <2>14, <2>15
<1> QED BY <1>2, <1>3


LEMMA EnqueueTypes ==
  ASSUME StoreType, NEW e \in AnyEvent, NEW p \in Levels, NEW d \in Nat, NEW n \in Nat,
         Enqueue(e, p, d, n)
  PROVE  StoreType' /\ used + 1 \in Ids /\ used' = used + 1
<1>1. used \in Nat /\ used + 1 \in Ids /\ used' = used + 1 /\ used' \in 0..MaxTasks
  <2>1. used \in 0..MaxTasks /\ used < MaxTasks /\ used' = used + 1 /\ MaxTasks \in Nat
    BY Bounds DEF StoreType, Enqueue
  <2> QED BY ONLY <2>1 DEF Ids
<1> DEFINE r == [event |-> e, prio |-> p, dlqCount |-> d, tmoCount |-> n]
<1>2. r \in Tasks /\ "QUEUED" \in States
  BY DEF Tasks, States
<1> HIDE DEF r
<1>3. task' = [task EXCEPT ![used + 1] = r]
  BY DEF Enqueue, r
<1>4. task' \in [Ids -> Tasks] /\ state' \in [Ids -> States]
  BY <1>1, <1>2, <1>3 DEF Enqueue, StoreType
<1>5. zset' \in [Levels -> Seq(Ids)]
  <2>1. zset[p] \in Seq(Ids)
    BY DEF StoreType
  <2>2. Append(zset[p], used + 1) \in Seq(Ids)
    BY <1>1, <2>1, SeqAppend
  <2>3. zset' = [zset EXCEPT ![p] = Append(zset[p], used + 1)]
    BY DEF Enqueue
  <2> QED BY <2>2, <2>3 DEF StoreType
<1> QED BY <1>1, <1>4, <1>5 DEF StoreType

LEMMA WrittenType ==
  ASSUME StoreType, NEW t, NEW v \in States PROVE Written(t, v) \in [Ids -> States]
BY DEF StoreType, Written, States

\* A step that only writes states, or only takes ids out of the queues.
LEMMA StoreWritten ==
  ASSUME StoreType, NEW t, NEW v \in States, state' = Written(t, v) \/ UNCHANGED state,
         UNCHANGED <<zset, task, used>>
  PROVE  StoreType'
<1>1. state' \in [Ids -> States]
  BY WrittenType DEF StoreType
<1> QED BY <1>1 DEF StoreType

LEMMA StoreTaken ==
  ASSUME StoreType, NEW p \in Levels, zset[p] # <<>>, zset' = Taken(p),
         UNCHANGED <<state, task, used>>
  PROVE  StoreType' /\ Head(zset[p]) \in Ids
<1>1. zset \in [Levels -> Seq(Ids)] /\ zset[p] \in Seq(Ids)
  BY DEF StoreType
<1>2. Tail(zset[p]) \in Seq(Ids) /\ Head(zset[p]) \in Ids
  BY <1>1, SeqTail
<1>3. zset' = [zset EXCEPT ![p] = Tail(zset[p])]
  BY DEF Taken
<1>4. zset' \in [Levels -> Seq(Ids)]
  BY ONLY <1>1, <1>2, <1>3
<1> QED BY <1>2, <1>4 DEF StoreType

LEMMA StoreLoops ==
  ASSUME TypeInv, NEW l \in Loops, LoopStep(l) \/ LoopError(l)
  PROVE  StoreType'
<1>1. CASE Peek(l) \/ LoopError(l)
  BY <1>1 DEF Peek, LoopError, TypeInv, StoreType
<1>2. CASE Promote(l)
  <2>1. 3 \in Levels
    BY DEF Levels
  <2>2. CASE zset[3] # <<>>
    BY <1>2, <2>1, <2>2, StoreTaken DEF Promote, TypeInv
  <2>3. CASE zset[3] = <<>>
    BY <1>2, <2>3 DEF Promote, TypeInv, StoreType
  <2> QED BY <2>2, <2>3
<1>3. CASE Pop(l)
  <2>1. loop[l].level \in Levels
    BY DEF TypeInv, LoopType, LoopTypes
  <2>2. CASE zset[loop[l].level] # <<>>
    BY <1>3, <2>1, <2>2, StoreTaken DEF Pop, TypeInv
  <2>3. CASE zset[loop[l].level] = <<>>
    BY <1>3, <2>3 DEF Pop, TypeInv, StoreType
  <2> QED BY <2>2, <2>3
<1>4. CASE Fetch(l) \/ Assign(l)
  <2>1. {"ASSIGNED", "RUNNING"} \subseteq States
    BY DEF States
  <2>2. UNCHANGED <<zset, task, used>> /\ \E v \in {"ASSIGNED", "RUNNING"} :
          state' = Written(loop[l].task, v) \/ UNCHANGED state
    BY <1>4 DEF Fetch, Assign
  <2> QED BY <2>1, <2>2, StoreWritten DEF TypeInv
<1>5. CASE Requeue(l)
  <2>1. loop[l].task \in Ids
    BY <1>5 DEF Requeue, TypeInv, LoopType, LoopTypes, HoldsTask, TaskOrNone
  <2>2. task[loop[l].task] \in Tasks
    BY <2>1 DEF TypeInv, StoreType
  <2>3. task[loop[l].task].event \in AnyEvent /\ task[loop[l].task].prio \in Levels
    BY <2>2 DEF Tasks
  <2> QED BY <1>5, <2>3, EnqueueTypes DEF Requeue, TypeInv
<1> QED BY <1>1, <1>2, <1>3, <1>4, <1>5 DEF LoopStep

LEMMA StorePosts ==
  ASSUME TypeInv, NEW t \in Ids,
         PostStep(t) \/ RecordError(t) \/ PushError(t) \/ HashExpires(t)
  PROVE  StoreType'
<1>1. CASE Record(t)
  <2>1. UNCHANGED <<zset, task, used>> /\ \E v \in {"COMPLETED", "FAILED", "TIMEOUT"} :
          state' = Written(t, v)
    BY <1>1 DEF Record
  <2> QED BY <2>1, StoreWritten DEF TypeInv, States
<1>2. CASE Retry(t)
  <2>1. task[t] \in Tasks
    BY DEF TypeInv, StoreType
  <2>2. task[t].event \in AnyEvent /\ task[t].prio \in Levels /\ task[t].tmoCount + 1 \in Nat
    BY <2>1 DEF Tasks
  <2> QED BY <1>2, <2>2, EnqueueTypes DEF Retry, TypeInv
<1>3. CASE PushToDlq(t) \/ Trim(t) \/ PushError(t)
  BY <1>3 DEF PushToDlq, Trim, PushError, TypeInv, StoreType
<1>4. CASE RecordError(t)
  BY <1>4, StoreWritten DEF RecordError, TypeInv, States
<1>5. CASE HashExpires(t)
  <2>1. state' = [state EXCEPT ![t] = "none"] /\ UNCHANGED <<zset, task, used>>
    BY <1>5 DEF HashExpires
  <2> QED BY <2>1 DEF TypeInv, StoreType, States
<1> QED BY <1>1, <1>2, <1>3, <1>4, <1>5 DEF PostStep

LEMMA StoreSweeps ==
  ASSUME TypeInv, NEW s \in Sweepers, SweepStep(s) \/ \E m \in SweepModes : SweepBegin(s, m)
  PROVE  StoreType'
<1>1. CASE SweepRetries(s)
  <2> DEFINE x == Head(sweep[s].todo)
             again == sweep[s].mode = "retry"
  <2>1. sweep[s] \in SweepTypes /\ sweep[s].todo # <<>>
    BY <1>1 DEF TypeInv, DlqType, SweepRetries
  <2>2. x \in Entries
    BY <2>1, SeqTail DEF SweepTypes
  <2>3. x.event \in AnyEvent /\ x.prio \in Levels /\ x.count + 1 \in Nat
    BY <2>2 DEF Entries
  <2>4. Enqueue(x.event, IF again THEN x.prio ELSE 3, IF again THEN x.count + 1 ELSE 0, 0)
    BY <1>1 DEF SweepRetries
  <2> HIDE DEF x, again
  <2>5. (IF again THEN x.prio ELSE 3) \in Levels /\ (IF again THEN x.count + 1 ELSE 0) \in Nat
    BY <2>3 DEF Levels
  <2> QED BY <2>3, <2>4, <2>5, EnqueueTypes DEF TypeInv
<1>2. CASE ~SweepRetries(s)
  <2>1. UNCHANGED <<zset, state, task, used>>
    BY <1>2 DEF SweepStep, SweepBegin, SweepGivesUp, SweepSkips, SweepArchives, SweepEnd
  <2> QED BY <2>1 DEF TypeInv, StoreType
<1> QED BY <1>1, <1>2

LEMMA StoreRestarts ==
  ASSUME TypeInv, DrainAdd \/ Exit \/ RestartStep \/ \E w \in Workers : DrainMark(w)
  PROVE  StoreType'
<1>1. CASE DrainAdd
  <2>1. closing \in Ids
    BY <1>1 DEF DrainAdd, TypeInv, RestartType, TaskOrNone
  <2>2. task[closing].prio \in Levels
    BY <2>1 DEF TypeInv, StoreType, Tasks
  <2>3. Append(zset[task[closing].prio], closing) \in Seq(Ids)
    BY <2>1, <2>2, SeqAppend DEF TypeInv, StoreType
  <2>4. zset' = [zset EXCEPT ![task[closing].prio] = Append(zset[task[closing].prio], closing)]
        /\ UNCHANGED <<state, task, used>>
    BY <1>1 DEF DrainAdd
  <2> QED BY <2>3, <2>4 DEF TypeInv, StoreType
<1>2. CASE \E w \in Workers : DrainMark(w)
  BY <1>2, StoreWritten DEF DrainMark, TypeInv, States
<1>3. CASE Exit \/ Start \/ RecoverEnd \/ FlushEnd
  BY <1>3 DEF Exit, Start, RecoverEnd, FlushEnd, TypeInv, StoreType
<1>4. ASSUME NEW t \in Ids, RecoverTask(t) PROVE StoreType'
  <2>1. UNCHANGED <<task, used>>
    BY <1>4 DEF RecoverTask
  <2>2. CASE UNCHANGED zset
    BY <1>4, <2>1, <2>2, StoreWritten DEF RecoverTask, TypeInv, States
  <2>3. CASE ~UNCHANGED zset
    <3>1. /\ state' = Written(t, "QUEUED")
          /\ zset' = [zset EXCEPT ![task[t].prio] = Append(Without(zset[task[t].prio], t), t)]
      BY <1>4, <2>3 DEF RecoverTask
    <3>2. task[t].prio \in Levels
      BY DEF TypeInv, StoreType, Tasks
    <3>3. Append(Without(zset[task[t].prio], t), t) \in Seq(Ids)
      <4>1. Without(zset[task[t].prio], t) \in Seq(Ids)
        BY <3>2, SeqWithout DEF TypeInv, StoreType
      <4> QED BY <4>1, SeqAppend
    <3>4. state' \in [Ids -> States]
      BY <3>1, WrittenType DEF TypeInv, States
    <3> QED BY <2>1, <3>1, <3>3, <3>4 DEF TypeInv, StoreType
  <2> QED BY <2>2, <2>3
<1>5. ASSUME NEW t \in Ids, FlushTask(t) PROVE StoreType'
  <2>1. /\ UNCHANGED <<task, used>> /\ state' = [state EXCEPT ![t] = "none"]
        /\ zset' = [p \in Levels |-> Without(zset[p], t)]
    BY <1>5 DEF FlushTask
  <2>2. \A p \in Levels : Without(zset[p], t) \in Seq(Ids)
    BY SeqWithout DEF TypeInv, StoreType
  <2> QED BY <2>1, <2>2 DEF TypeInv, StoreType, States
<1> QED BY <1>1, <1>2, <1>3, <1>4, <1>5 DEF RestartStep

LEMMA StoreNext == ASSUME TypeInv, [Next]_vars PROVE StoreType'
<1>1. ASSUME NEW e \in Events, Arrive(e) \/ HandlerStep(e) \/ HandlerError(e)
      PROVE  StoreType'
  <2>1. CASE EnqueueEvent(e)
    BY <2>1, EnqueueTypes, Bounds DEF EnqueueEvent, TypeInv
  <2>2. CASE ~EnqueueEvent(e)
    <3>1. UNCHANGED <<zset, state, task, used>>
      BY <1>1, <2>2 DEF HandlerStep, Arrive, FloodGuard, SetCorrelation, SetDedup,
                        ReadDepth, HandlerError
    <3> QED BY <3>1 DEF TypeInv, StoreType
  <2> QED BY <2>1, <2>2
<1>2. CASE Poll \/ Pause \/ Sigterm \/ UNCHANGED vars \/ \E k \in Keys : CircuitAges(k)
  <2>1. UNCHANGED <<zset, state, task, used>>
    BY <1>2 DEF Poll, Pause, Sigterm, CircuitAges, vars
  <2> QED BY <2>1 DEF TypeInv, StoreType
<1>3. ASSUME NEW w \in Workers, \E r \in Outcomes : WorkerEnd(w, r) PROVE StoreType'
  BY <1>3 DEF WorkerEnd, TypeInv, StoreType
<1> QED BY <1>1, <1>2, <1>3, StoreLoops, StorePosts, StoreSweeps, StoreRestarts DEF Next

\* Calls of dispatchNext: the task of a loop is an id from the pop on.
LEMMA LoopMoves ==
  ASSUME LoopType, NEW l \in Loops, NEW r \in LoopTypes,
         loop' = [loop EXCEPT ![l] = r], dispatching' \in BOOLEAN,
         r.task # NoTask <=> r.pc \in HoldsTask, r.pc # "idle" => r.worker \in Workers
  PROVE  LoopType'
BY DEF LoopType

LEMMA LoopRecords ==
  /\ IdleLoop \in LoopTypes /\ IdleLoop.task = NoTask /\ IdleLoop.pc = "idle"
  /\ \A w \in Workers : LoopWith(w) \in LoopTypes /\ LoopWith(w).task = NoTask
                        /\ LoopWith(w).pc = "peek" /\ LoopWith(w).worker = w
BY DEF IdleLoop, LoopWith, LoopTypes, TaskOrNone, Levels

LEMMA LoopPicks ==
  ASSUME LoopType, NEW l \in Loops, NEW w \in Workers, loop' = [loop EXCEPT ![l] = LoopWith(w)],
         dispatching' \in BOOLEAN
  PROVE  LoopType'
<1>1. PICK r : r = LoopWith(w)
  OBVIOUS
<1>2. r \in LoopTypes /\ r.task = NoTask /\ r.pc = "peek" /\ r.worker = w
  BY <1>1, LoopRecords
<1>3. loop' = [loop EXCEPT ![l] = r]
  BY <1>1
<1> QED BY <1>2, <1>3, LoopMoves DEF HoldsTask

LEMMA DispatchTypes ==
  ASSUME LoopType, NEW W, Dispatch(W) PROVE LoopType'
<1>1. CASE UNCHANGED loopVars
  BY <1>1 DEF LoopType
<1>2. CASE ~UNCHANGED loopVars
  <2>1. PICK k \in Loops, w \in Workers :
          loop' = [loop EXCEPT ![k] = LoopWith(w)] /\ dispatching' = TRUE
    BY <1>2 DEF Dispatch
  <2>2. dispatching' \in BOOLEAN
    BY <2>1
  <2> QED BY <2>1, <2>2, LoopPicks
<1> QED BY <1>1, <1>2

LEMMA BreakTypes ==
  ASSUME LoopType, NEW l \in Loops, Break(l) PROVE LoopType'
<1>1. dispatching' \in BOOLEAN /\ loop' = [loop EXCEPT ![l] = IdleLoop]
  BY DEF Break
<1> QED BY <1>1, LoopRecords, LoopMoves DEF HoldsTask

LEMMA AtTypes ==
  ASSUME LoopType, NEW l \in Loops, loop[l].pc # "idle", loop[l].pc \notin HoldsTask,
         NEW where \in {"peek", "promote", "pop"}, NEW p \in Levels, At(l, where, p)
  PROVE  LoopType'
<1> DEFINE r == [loop[l] EXCEPT !.pc = where, !.level = p]
<1>1. loop[l] \in LoopTypes
  BY DEF LoopType
<1>2. r \in LoopTypes /\ r.pc = where /\ r.task = loop[l].task /\ r.worker = loop[l].worker
  BY <1>1 DEF LoopTypes
<1>3. loop' = [loop EXCEPT ![l] = r] /\ dispatching' \in BOOLEAN
  BY DEF At, LoopType
<1> HIDE DEF r
<1>4. loop[l].task = NoTask /\ loop[l].worker \in Workers
  BY DEF LoopType
<1> QED BY <1>2, <1>3, <1>4, LoopMoves DEF HoldsTask

LEMMA TookTypes ==
  ASSUME LoopType, NEW l \in Loops, loop[l].pc # "idle", NEW t \in Ids, NEW b \in BOOLEAN,
         Took(l, t, b)
  PROVE  LoopType'
<1> DEFINE r == [loop[l] EXCEPT !.pc = "fetch", !.task = t, !.promoted = b]
<1>1. loop[l] \in LoopTypes /\ t \in TaskOrNone /\ t # NoTask
  BY Bounds DEF LoopType, TaskOrNone
<1>2. r \in LoopTypes /\ r.pc = "fetch" /\ r.task = t /\ r.worker = loop[l].worker
  BY <1>1 DEF LoopTypes
<1>3. loop' = [loop EXCEPT ![l] = r] /\ dispatching' \in BOOLEAN
  BY DEF Took, LoopType
<1> HIDE DEF r
<1>4. loop[l].worker \in Workers
  BY DEF LoopType
<1> QED BY <1>1, <1>2, <1>3, <1>4, LoopMoves DEF HoldsTask

LEMMA FetchTypes ==
  ASSUME LoopType, NEW l \in Loops, Fetch(l) PROVE LoopType'
<1>1. /\ loop[l] \in LoopTypes /\ loop[l].pc = "fetch" /\ loop[l].worker \in Workers
      /\ loop[l].task # NoTask /\ dispatching' \in BOOLEAN
  BY DEF LoopType, Fetch, HoldsTask
<1>2. CASE \E where \in {"requeue", "assign"} : loop' = [loop EXCEPT ![l].pc = where]
  <2>1. PICK where \in {"requeue", "assign"} : loop' = [loop EXCEPT ![l].pc = where]
    BY <1>2
  <2> DEFINE r == [loop[l] EXCEPT !.pc = where]
  <2>2. /\ r \in LoopTypes /\ r.pc = where /\ r.task = loop[l].task
        /\ r.worker = loop[l].worker
    BY <1>1 DEF LoopTypes
  <2>3. loop' = [loop EXCEPT ![l] = r]
    BY <2>1
  <2> HIDE DEF r
  <2> QED BY <1>1, <2>2, <2>3, LoopMoves DEF HoldsTask
<1>3. CASE \E where \in {"pop", "peek"} :
             loop' = [loop EXCEPT ![l].pc = where, ![l].task = NoTask, ![l].level = 0]
  <2>1. PICK where \in {"pop", "peek"} :
             loop' = [loop EXCEPT ![l].pc = where, ![l].task = NoTask, ![l].level = 0]
    BY <1>3
  <2> DEFINE r == [loop[l] EXCEPT !.pc = where, !.task = NoTask, !.level = 0]
  <2>2. /\ r \in LoopTypes /\ r.pc = where /\ r.task = NoTask
        /\ r.worker = loop[l].worker
    <3>1. NoTask \in TaskOrNone /\ 0 \in Levels
      BY DEF TaskOrNone, Levels
    <3> QED BY <1>1, <3>1 DEF LoopTypes
  <2>3. loop' = [loop EXCEPT ![l] = r]
    BY <2>1
  <2> HIDE DEF r
  <2> QED BY <1>1, <2>2, <2>3, LoopMoves DEF HoldsTask
<1> QED BY <1>2, <1>3 DEF Fetch

LEMMA LoopSteps ==
  ASSUME TypeInv, NEW l \in Loops, LoopStep(l) \/ LoopError(l)
  PROVE  LoopType'
<1>1. CASE Peek(l)
  <2>1. At(l, "pop", 0) \/ At(l, "promote", 0)
    BY <1>1 DEF Peek
  <2>2. 0 \in Levels /\ loop[l].pc = "peek" /\ LoopType
    BY <1>1 DEF Levels, Peek, TypeInv
  <2> QED BY <2>1, <2>2, AtTypes DEF HoldsTask
<1>2. CASE Promote(l)
  <2>1. 0 \in Levels /\ 3 \in Levels /\ loop[l].pc = "promote" /\ LoopType /\ StoreType
    BY <1>2 DEF Levels, Promote, TypeInv
  <2>2. CASE At(l, "pop", 0)
    BY <2>1, <2>2, AtTypes DEF HoldsTask
  <2>3. CASE ~At(l, "pop", 0)
    <3>1. zset[3] # <<>> /\ Took(l, Head(zset[3]), TRUE)
      BY <1>2, <2>3 DEF Promote
    <3>2. zset[3] \in Seq(Ids)
      BY <2>1 DEF StoreType
    <3>3. Head(zset[3]) \in Ids
      BY <3>1, <3>2, SeqTail
    <3> QED BY <2>1, <3>1, <3>3, TookTypes
  <2> QED BY <2>2, <2>3
<1>3. CASE Pop(l)
  <2>1. loop[l].pc = "pop" /\ LoopType /\ StoreType /\ loop[l].level \in Levels
    BY <1>3 DEF Pop, TypeInv, LoopType, LoopTypes
  <2>2. CASE loop[l].level < 3 /\ At(l, "pop", loop[l].level + 1)
    <3>1. loop[l].level + 1 \in Levels
      BY <2>1, <2>2 DEF Levels
    <3> QED BY <2>1, <2>2, <3>1, AtTypes DEF HoldsTask
  <2>3. CASE Break(l)
    BY <2>1, <2>3, BreakTypes
  <2>4. CASE zset[loop[l].level] # <<>> /\ Took(l, Head(zset[loop[l].level]), FALSE)
    <3>1. zset[loop[l].level] \in Seq(Ids)
      BY <2>1 DEF StoreType
    <3>2. Head(zset[loop[l].level]) \in Ids
      BY <2>4, <3>1, SeqTail
    <3> QED BY <2>1, <2>4, <3>2, TookTypes
  <2> QED BY <1>3, <2>2, <2>3, <2>4 DEF Pop
<1>4. CASE Fetch(l)
  BY <1>4, FetchTypes DEF TypeInv
<1>5. CASE Requeue(l) \/ LoopError(l)
  BY <1>5, BreakTypes DEF Requeue, LoopError, TypeInv
<1>6. CASE Assign(l)
  <2>1. CASE Break(l)
    BY <2>1, BreakTypes DEF TypeInv
  <2>2. CASE ~Break(l)
    <3>1. PICK w \in Workers : loop' = [loop EXCEPT ![l] = LoopWith(w)]
      BY <1>6, <2>2 DEF Assign
    <3>2. dispatching' \in BOOLEAN
      BY <1>6, <2>2 DEF Assign, TypeInv, LoopType
    <3> QED BY <3>1, <3>2, LoopPicks DEF TypeInv
  <2> QED BY <2>1, <2>2
<1> QED BY <1>1, <1>2, <1>3, <1>4, <1>5, <1>6 DEF LoopStep

LEMMA LoopNext == ASSUME TypeInv, [Next]_vars PROVE LoopType'
<1>1. ASSUME Dispatch(worker) PROVE LoopType'
  BY <1>1, DispatchTypes DEF TypeInv
<1>2. ASSUME UNCHANGED loopVars PROVE LoopType'
  BY <1>2 DEF TypeInv, LoopType
<1>3. ASSUME NEW e \in Events, Arrive(e) \/ HandlerStep(e) \/ HandlerError(e)
      PROVE  LoopType'
  BY <1>1, <1>2, <1>3 DEF HandlerStep, Arrive, FloodGuard, SetCorrelation, SetDedup, ReadDepth,
                   EnqueueEvent, HandlerError
<1>4. CASE Poll \/ Pause \/ Sigterm \/ DrainAdd \/ RestartStep \/ UNCHANGED vars
  BY <1>1, <1>2, <1>4 DEF Poll, Pause, Sigterm, DrainAdd, RestartStep, Start, RecoverEnd,
                   FlushEnd, RecoverTask, FlushTask, vars
<1>5. CASE Exit
  <2>1. loop' = [l \in Loops |-> IdleLoop] /\ dispatching' = FALSE
    BY <1>5 DEF Exit
  <2> QED BY <2>1, LoopRecords DEF LoopType, HoldsTask
<1>6. ASSUME NEW t \in Ids, PostStep(t) \/ RecordError(t) \/ PushError(t) \/ HashExpires(t)
      PROVE  LoopType'
  BY <1>1, <1>2, <1>6 DEF PostStep, Record, Retry, PushToDlq, Trim, RecordError, PushError,
                   HashExpires
<1>7. CASE \/ \E w \in Workers : DrainMark(w) \/ \E r \in Outcomes : WorkerEnd(w, r)
           \/ \E k \in Keys : CircuitAges(k)
  BY <1>2, <1>7 DEF DrainMark, WorkerEnd, CircuitAges
<1>8. ASSUME NEW s \in Sweepers, SweepStep(s) \/ \E m \in SweepModes : SweepBegin(s, m)
      PROVE  LoopType'
  BY <1>2, <1>8 DEF SweepStep, SweepBegin, SweepGivesUp, SweepSkips, SweepRetries,
                    SweepArchives, SweepEnd
<1> QED BY <1>3, <1>4, <1>5, <1>6, <1>7, <1>8, LoopSteps DEF Next

LEMMA WorkNext == ASSUME TypeInv, [Next]_vars PROVE WorkType'
<1>0. WorkType
  BY DEF TypeInv
<1>1. ASSUME UNCHANGED <<worker, post>> PROVE WorkType'
  BY <1>0, <1>1 DEF WorkType
<1>2. ASSUME NEW t \in Ids, NEW r \in PostTypes, UNCHANGED worker,
             post' = [post EXCEPT ![t] = r], r.pc # "none" => r.result \in Outcomes
      PROVE  WorkType'
  BY <1>0, <1>2 DEF WorkType
<1>3. ASSUME NEW e \in Events, Arrive(e) \/ HandlerStep(e) \/ HandlerError(e)
      PROVE  WorkType'
  BY <1>1, <1>3 DEF HandlerStep, Arrive, FloodGuard, SetCorrelation, SetDedup, ReadDepth,
                    EnqueueEvent, HandlerError
<1>4. CASE Poll \/ Pause \/ Sigterm \/ DrainAdd \/ RestartStep \/ UNCHANGED vars
  BY <1>1, <1>4 DEF Poll, Pause, Sigterm, DrainAdd, RestartStep, Start, RecoverEnd,
                    FlushEnd, RecoverTask, FlushTask, vars
<1>5. CASE Exit
  <2>1. worker' = [w \in Workers |-> NoTask] /\ post' = [t \in Ids |-> NoPost]
    BY <1>5 DEF Exit
  <2> QED BY <2>1 DEF WorkType, PostTypes, NoPost, TaskOrNone
<1>6. ASSUME NEW l \in Loops, LoopStep(l) \/ LoopError(l) PROVE WorkType'
  <2>1. CASE Assign(l)
    <3>1. loop[l].task \in TaskOrNone
      BY DEF TypeInv, LoopType, LoopTypes
    <3>2. worker' = [worker EXCEPT ![loop[l].worker] = loop[l].task] /\ UNCHANGED post
      BY <2>1 DEF Assign
    <3> QED BY <1>0, <3>1, <3>2 DEF WorkType
  <2>2. CASE ~Assign(l)
    BY <1>1, <1>6, <2>2 DEF LoopStep, Peek, Promote, Pop, Fetch, Requeue, LoopError
  <2> QED BY <2>1, <2>2
<1>7. ASSUME NEW t \in Ids, PostStep(t) \/ RecordError(t) \/ PushError(t) \/ HashExpires(t)
      PROVE  WorkType'
  <2>1. post[t] \in PostTypes /\ (post[t].pc # "none" => post[t].result \in Outcomes)
    BY <1>0 DEF WorkType
  <2>2. NoPost \in PostTypes /\ NoPost.pc = "none"
    BY DEF NoPost, PostTypes
  <2>3. CASE Leave(t) /\ UNCHANGED worker
    BY <1>2, <2>2, <2>3 DEF Leave
  <2>4. CASE /\ UNCHANGED worker /\ post[t].pc # "none"
             /\ \E where \in {"retry", "push", "trim"} : post' = [post EXCEPT ![t].pc = where]
    <3>1. PICK where \in {"retry", "push", "trim"} : post' = [post EXCEPT ![t].pc = where]
      BY <2>4
    <3> DEFINE r == [post[t] EXCEPT !.pc = where]
    <3>2. r \in PostTypes /\ r.result = post[t].result
      BY <2>1 DEF PostTypes
    <3>3. post' = [post EXCEPT ![t] = r]
      BY <3>1
    <3> HIDE DEF r
    <3> QED BY <1>2, <2>1, <2>4, <3>2, <3>3
  <2>5. CASE UNCHANGED <<worker, post>>
    BY <1>1, <2>5
  <2> QED BY <1>7, <2>3, <2>4, <2>5 DEF PostStep, Record, Retry, PushToDlq, Trim, RecordError,
                                PushError, HashExpires
<1>8. ASSUME NEW w \in Workers, NEW o \in Outcomes, WorkerEnd(w, o) PROVE WorkType'
  <2> DEFINE r == [pc |-> "record", result |-> o]
  <2>1. r \in PostTypes /\ r.result \in Outcomes
    BY DEF PostTypes
  <2>2. worker[w] \in Ids /\ post' = [post EXCEPT ![worker[w]] = r]
        /\ worker' = [worker EXCEPT ![w] = NoTask]
    BY <1>0, <1>8 DEF WorkerEnd, WorkType, TaskOrNone
  <2> HIDE DEF r
  <2>3. NoTask \in TaskOrNone
    BY DEF TaskOrNone
  <2> QED BY <1>0, <2>1, <2>2, <2>3 DEF WorkType
<1>9. CASE (\E w \in Workers : DrainMark(w)) \/ \E k \in Keys : CircuitAges(k)
  BY <1>1, <1>9 DEF DrainMark, CircuitAges
<1>10. ASSUME NEW s \in Sweepers, SweepStep(s) \/ \E m \in SweepModes : SweepBegin(s, m)
       PROVE  WorkType'
  BY <1>1, <1>10 DEF SweepStep, SweepBegin, SweepGivesUp, SweepSkips, SweepRetries,
                     SweepArchives, SweepEnd
<1> QED BY <1>3, <1>4, <1>5, <1>6, <1>7, <1>8, <1>9, <1>10 DEF Next

\* A part of a sequence of entries is one, and its events are events.
LEMMA EntryParts ==
  ASSUME NEW q \in Seq(Entries), NEW m \in Nat, NEW n \in Nat, n <= Len(q)
  PROVE  /\ SubSeq(q, m + 1, n) \in Seq(Entries)
         /\ EventsOf(SubSeq(q, m + 1, n)) \subseteq AnyEvent
<1>1. \A S : \A x \in Seq(S) : Len(x) \in Nat /\ \A i \in 1..Len(x) : x[i] \in S
  BY ONLY SMT
<1>2. m + 1 \in Int /\ n \in Int /\ \A i \in m + 1..n : q[i] \in Entries
  <2>1. Len(q) \in Nat /\ \A i \in 1..Len(q) : q[i] \in Entries
    BY ONLY <1>1, q \in Seq(Entries)
  <2> QED BY ONLY <2>1, m \in Nat, n \in Nat, n <= Len(q)
<1>3. SubSeq(q, m + 1, n) \in Seq(Entries)
  BY ONLY <1>2, SubSeqProperties
<1>4. \A r \in Seq(Entries) : EventsOf(r) \subseteq AnyEvent
  <2> TAKE r \in Seq(Entries)
  <2>1. \A i \in DOMAIN r : r[i] \in Entries
    OBVIOUS
  <2> QED BY <2>1 DEF EventsOf, Entries
<1> QED BY <1>3, <1>4

LEMMA KeptParts ==
  ASSUME NEW q \in Seq(Entries)
  PROVE  /\ Kept(q) \in Seq(Entries) /\ Len(Kept(q)) \in Nat
         /\ EventsOf(SubSeq(q, Len(Kept(q)) + 1, Len(q))) \subseteq AnyEvent
<1>1. Len(q) \in Nat /\ DlqMaxSize \in Nat
  BY Bounds
<1> DEFINE n == IF Len(q) < DlqMaxSize THEN Len(q) ELSE DlqMaxSize
<1>2. n \in Nat /\ n <= Len(q) /\ Len(q) <= Len(q)
  BY <1>1
<1>a. Kept(q) = SubSeq(q, 1, n)
  BY DEF Kept
<1> HIDE DEF n
<1>3. Kept(q) \in Seq(Entries)
  <2>1. SubSeq(q, 0 + 1, n) \in Seq(Entries)
    BY <1>2, EntryParts
  <2>2. 0 + 1 = 1
    OBVIOUS
  <2> QED BY <1>a, <2>1, <2>2
<1>4. Len(Kept(q)) \in Nat
  BY <1>3
<1> QED BY <1>1, <1>2, <1>3, <1>4, EntryParts

\* A sweep moves the first entry of its snapshot, or drops it.
LEMMA SweepMoves ==
  ASSUME DlqType, NEW s \in Sweepers, NEW r \in SweepTypes, r.pc = "entries",
         sweep' = [sweep EXCEPT ![s] = r], UNCHANGED dlq
  PROVE  DlqType'
BY DEF DlqType

LEMMA SweepBusy ==
  ASSUME DlqType, NEW s \in Sweepers, sweep[s].todo # <<>>
  PROVE  /\ sweep[s] \in SweepTypes /\ sweep[s].pc = "entries"
         /\ Head(sweep[s].todo) \in Entries /\ Tail(sweep[s].todo) \in Seq(Entries)
<1>1. sweep[s] \in SweepTypes
  BY DEF DlqType
<1>2. sweep[s].pc = "entries"
  BY <1>1 DEF DlqType, SweepTypes, IdleSweep
<1>3. Head(sweep[s].todo) \in Entries /\ Tail(sweep[s].todo) \in Seq(Entries)
  BY <1>1, SeqTail DEF SweepTypes
<1> QED BY <1>1, <1>2, <1>3

LEMMA SweepStepTypes ==
  ASSUME TypeInv, NEW s \in Sweepers, SweepStep(s) \/ \E m \in SweepModes : SweepBegin(s, m)
  PROVE  DlqType'
<1>0. DlqType
  BY DEF TypeInv
<1>1. ASSUME sweep[s].todo # <<>>, UNCHANGED dlq, NEW x \in Entries, NEW b \in BOOLEAN,
             SweepKeeps(s, x, b)
      PROVE  DlqType'
  <2> DEFINE q == Tail(sweep[s].todo)
             k == Append(sweep[s].keep, x)
             c == sweep[s].changed \/ b
             r == [sweep[s] EXCEPT !.todo = q, !.keep = k, !.changed = c]
  <2>1. /\ sweep[s] \in SweepTypes /\ sweep[s].pc = "entries"
        /\ q \in Seq(Entries) /\ sweep[s].keep \in Seq(Entries)
    BY <1>0, <1>1, SweepBusy DEF SweepTypes
  <2>2. k \in Seq(Entries) /\ c \in BOOLEAN
    BY <1>1, <2>1, SeqAppend
  <2>3. sweep' = [sweep EXCEPT ![s] = r]
    BY <1>1 DEF SweepKeeps
  <2> HIDE DEF q, k, c
  <2>4. r \in SweepTypes /\ r.pc = "entries"
    BY <2>1, <2>2 DEF SweepTypes
  <2> HIDE DEF r
  <2> QED BY <1>0, <1>1, <2>3, <2>4, SweepMoves
<1>2. ASSUME sweep[s].todo # <<>>, UNCHANGED dlq, SweepDrops(s)
      PROVE  DlqType'
  <2> DEFINE q == Tail(sweep[s].todo)
             r == [sweep[s] EXCEPT !.todo = q, !.changed = TRUE]
  <2>1. sweep[s] \in SweepTypes /\ sweep[s].pc = "entries" /\ q \in Seq(Entries)
    BY <1>0, <1>2, SweepBusy
  <2>2. sweep' = [sweep EXCEPT ![s] = r]
    BY <1>2 DEF SweepDrops
  <2> HIDE DEF q
  <2>3. r \in SweepTypes /\ r.pc = "entries"
    BY <2>1 DEF SweepTypes
  <2> HIDE DEF r
  <2> QED BY <1>0, <1>2, <2>2, <2>3, SweepMoves
<1>3. CASE SweepGivesUp(s)
  <2> DEFINE x == Head(sweep[s].todo)
             y == [x EXCEPT !.permanent = TRUE]
  <2>1. x \in Entries /\ sweep[s].todo # <<>> /\ UNCHANGED dlq
    BY <1>0, <1>3, SweepBusy DEF SweepGivesUp
  <2>2. SweepKeeps(s, y, ~x.permanent) \/ SweepDrops(s)
    BY <1>3 DEF SweepGivesUp
  <2> HIDE DEF x
  <2>3. y \in Entries /\ (~x.permanent) \in BOOLEAN
    BY <2>1 DEF Entries
  <2> HIDE DEF y
  <2> QED BY <1>1, <1>2, <2>1, <2>2, <2>3
<1>4. CASE SweepSkips(s)
  <2>1. /\ Head(sweep[s].todo) \in Entries /\ sweep[s].todo # <<>> /\ UNCHANGED dlq
        /\ SweepKeeps(s, Head(sweep[s].todo), FALSE)
    BY <1>0, <1>4, SweepBusy DEF SweepSkips
  <2> QED BY <1>1, <2>1
<1>5. CASE SweepRetries(s) \/ SweepArchives(s)
  <2>1. sweep[s].todo # <<>> /\ UNCHANGED dlq /\ SweepDrops(s)
    BY <1>5 DEF SweepRetries, SweepArchives
  <2> QED BY <1>2, <2>1
<1>6. CASE SweepEnd(s)
  <2>1. sweep[s].keep \in Seq(Entries) /\ IdleSweep \in SweepTypes
    BY <1>0 DEF DlqType, SweepTypes, IdleSweep
  <2>2. dlq' \in Seq(Entries) /\ sweep' = [sweep EXCEPT ![s] = IdleSweep]
    BY <1>0, <1>6, <2>1 DEF SweepEnd, DlqType
  <2> QED BY <1>0, <2>1, <2>2 DEF DlqType
<1>7. ASSUME NEW m \in SweepModes, SweepBegin(s, m) PROVE DlqType'
  <2> DEFINE r == [IdleSweep EXCEPT !.pc = "entries", !.mode = m, !.todo = dlq]
  <2>1. sweep' = [sweep EXCEPT ![s] = r] /\ UNCHANGED dlq
    BY <1>7 DEF SweepBegin
  <2>2. m \in {"retry", "drain"} /\ dlq \in Seq(Entries)
    BY <1>0 DEF DlqType
  <2>3. IdleSweep \in SweepTypes
    BY DEF SweepTypes, IdleSweep
  <2>4. r \in SweepTypes /\ r.pc = "entries"
    BY <2>2, <2>3 DEF SweepTypes
  <2> HIDE DEF r
  <2> QED BY <1>0, <2>1, <2>4, SweepMoves
<1> QED BY <1>3, <1>4, <1>5, <1>6, <1>7 DEF SweepStep

LEMMA DlqNext == ASSUME TypeInv, [Next]_vars PROVE DlqType'
<1>0. DlqType
  BY DEF TypeInv
<1>1. ASSUME UNCHANGED <<dlq, sweep>> PROVE DlqType'
  BY <1>0, <1>1 DEF DlqType
<1>2. ASSUME dlq' \in Seq(Entries), UNCHANGED sweep PROVE DlqType'
  BY <1>0, <1>2 DEF DlqType
<1>3. ASSUME NEW e \in Events, Arrive(e) \/ HandlerStep(e) \/ HandlerError(e)
      PROVE  DlqType'
  BY <1>1, <1>3 DEF HandlerStep, Arrive, FloodGuard, SetCorrelation, SetDedup, ReadDepth,
                    EnqueueEvent, HandlerError
<1>4. CASE Poll \/ Pause \/ Sigterm \/ DrainAdd \/ UNCHANGED vars
  BY <1>1, <1>4 DEF Poll, Pause, Sigterm, DrainAdd, vars
<1>5. CASE Exit
  <2>1. sweep' = [s \in Sweepers |-> IdleSweep] /\ dlq' = dlq
    BY <1>5 DEF Exit
  <2>2. IdleSweep \in SweepTypes
    BY DEF SweepTypes, IdleSweep
  <2> QED BY <1>0, <2>1, <2>2 DEF DlqType
<1>6. CASE RestartStep
  <2>1. CASE FlushEnd
    <3>1. PICK n \in 0..Len(dlq) : dlq' = SubSeq(dlq, 1, n)
      BY <2>1 DEF FlushEnd
    <3>2. n \in Nat /\ n <= Len(dlq) /\ 0 + 1 = 1
      BY <1>0 DEF DlqType
    <3>3. SubSeq(dlq, 0 + 1, n) \in Seq(Entries)
      BY <1>0, <3>2, EntryParts DEF DlqType
    <3>4. UNCHANGED sweep
      BY <2>1 DEF FlushEnd
    <3> QED BY <1>2, <3>1, <3>2, <3>3, <3>4
  <2>2. CASE ~FlushEnd
    BY <1>1, <1>6, <2>2 DEF RestartStep, Start, RecoverEnd, RecoverTask, FlushTask
  <2> QED BY <2>1, <2>2
<1>7. ASSUME NEW l \in Loops, LoopStep(l) \/ LoopError(l) PROVE DlqType'
  BY <1>1, <1>7 DEF LoopStep, Peek, Promote, Pop, Fetch, Requeue, Assign, LoopError
<1>8. ASSUME NEW w \in Workers, DrainMark(w) \/ \E r \in Outcomes : WorkerEnd(w, r)
      PROVE  DlqType'
  BY <1>1, <1>8 DEF DrainMark, WorkerEnd
<1>9. ASSUME NEW t \in Ids, PostStep(t) \/ RecordError(t) \/ PushError(t) \/ HashExpires(t)
      PROVE  DlqType'
  <2>1. CASE PushToDlq(t)
    <3> DEFINE x == Entry(t)
    <3>1. x \in Entries
      <4>1. task[t] \in Tasks /\ EntryCount(t) = task[t].dlqCount
        BY DEF TypeInv, StoreType, EntryCount
      <4>2. task[t].dlqCount \in Nat /\ task[t].event \in AnyEvent /\ task[t].prio \in Levels
        BY <4>1 DEF Tasks
      <4>3. (EntryCount(t) >= DlqMaxRetries) \in BOOLEAN
            /\ (post[t].result = "TIMEOUT") \in BOOLEAN
        OBVIOUS
      <4> QED BY <4>1, <4>2, <4>3 DEF Entry, Entries
    <3> HIDE DEF x
    <3>2. dlq' = <<x>> \o dlq /\ UNCHANGED sweep
      BY <2>1 DEF PushToDlq, x
    <3>3. <<x>> \o dlq \in Seq(Entries)
      BY <1>0, <3>1 DEF DlqType
    <3> QED BY <1>2, <3>2, <3>3
  <2>2. CASE Trim(t)
    BY <1>0, <1>2, <2>2, KeptParts DEF Trim, DlqType
  <2>3. CASE ~PushToDlq(t) /\ ~Trim(t)
    BY <1>1, <1>9, <2>3 DEF PostStep, Record, Retry, RecordError, PushError, HashExpires
  <2> QED BY <2>1, <2>2, <2>3
<1>10. CASE \E k \in Keys : CircuitAges(k)
  BY <1>1, <1>10 DEF CircuitAges
<1> QED BY <1>3, <1>4, <1>5, <1>6, <1>7, <1>8, <1>9, <1>10, SweepStepTypes DEF Next

\* The restart: its phase, what it has still to visit, what expires.
LEMMA RestartNext == ASSUME TypeInv, [Next]_vars PROVE RestartType'
<1>0. RestartType
  BY DEF TypeInv
<1>1. ASSUME UNCHANGED <<processVars, expiring>> PROVE RestartType'
  BY <1>0, <1>1 DEF RestartType
<1>2. ASSUME NEW e \in Events, Arrive(e) \/ HandlerStep(e) \/ HandlerError(e)
      PROVE  RestartType'
  BY <1>1, <1>2 DEF HandlerStep, Arrive, FloodGuard, SetCorrelation, SetDedup, ReadDepth,
                    EnqueueEvent, HandlerError
<1>3. CASE Poll \/ Pause \/ UNCHANGED vars
  BY <1>1, <1>3 DEF Poll, Pause, vars
<1>4. CASE Sigterm \/ DrainAdd \/ Exit
  BY <1>0, <1>4 DEF Sigterm, DrainAdd, Exit, RestartType, TaskOrNone
<1>5. CASE RestartStep
  BY <1>0, <1>5 DEF RestartStep, Start, RecoverEnd, FlushEnd, RecoverTask, FlushTask,
                    RestartType
<1>6. ASSUME NEW l \in Loops, LoopStep(l) \/ LoopError(l) PROVE RestartType'
  BY <1>1, <1>6 DEF LoopStep, Peek, Promote, Pop, Fetch, Requeue, Assign, LoopError
<1>7. ASSUME NEW w \in Workers, DrainMark(w) \/ \E r \in Outcomes : WorkerEnd(w, r)
      PROVE  RestartType'
  <2>1. CASE DrainMark(w)
    <3>1. worker[w] \in TaskOrNone
      BY DEF TypeInv, WorkType
    <3> QED BY <1>0, <2>1, <3>1 DEF DrainMark, RestartType
  <2>2. CASE \E r \in Outcomes : WorkerEnd(w, r)
    BY <1>1, <2>2 DEF WorkerEnd
  <2> QED BY <1>7, <2>1, <2>2
<1>8. ASSUME NEW t \in Ids, PostStep(t) \/ RecordError(t) \/ PushError(t) PROVE RestartType'
  BY <1>1, <1>8 DEF PostStep, Record, Retry, PushToDlq, Trim, RecordError, PushError
<1>9. ASSUME NEW t \in Ids, HashExpires(t) PROVE RestartType'
  BY <1>0, <1>9 DEF HashExpires, RestartType
<1>10. CASE \E k \in Keys : CircuitAges(k)
  BY <1>1, <1>10 DEF CircuitAges
<1>11. ASSUME NEW s \in Sweepers, SweepStep(s) \/ \E m \in SweepModes : SweepBegin(s, m)
       PROVE  RestartType'
  BY <1>1, <1>11 DEF SweepStep, SweepGivesUp, SweepSkips, SweepRetries, SweepArchives,
                     SweepEnd, SweepBegin
<1> QED BY <1>2, <1>3, <1>4, <1>5, <1>6, <1>7, <1>8, <1>9, <1>10, <1>11 DEF Next

\* handleEvent: its place, its answer, the two keys.
LEMMA HandlerNext == ASSUME TypeInv, [Next]_vars PROVE HandlerType'
<1>0. HandlerType
  BY DEF TypeInv
<1>1. ASSUME UNCHANGED <<corr, dedup, handler, answer>> PROVE HandlerType'
  BY <1>0, <1>1 DEF HandlerType
<1>2. ASSUME NEW e \in Events, Arrive(e) \/ HandlerStep(e) \/ HandlerError(e)
      PROVE  HandlerType'
  <2>1. CorrelationOf[e] \in Correlations /\ KeyOf[e] \in Keys
    OBVIOUS
  <2>2. /\ corr' \subseteq Correlations /\ dedup' \subseteq Keys
    BY <1>0, <1>2, <2>1 DEF HandlerType, HandlerStep, Arrive, FloodGuard, SetCorrelation,
                            SetDedup, ReadDepth, EnqueueEvent, HandlerError
  <2>3. \/ \E x \in {"flood", "corr", "dedup", "depth", "enqueue"} : Goto(e, x)
        \/ \E a \in {"accepted", "rejected", "duplicate", "error"} : Answer(e, a)
    BY <1>2 DEF HandlerStep, Arrive, FloodGuard, SetCorrelation, SetDedup, ReadDepth,
                EnqueueEvent, HandlerError
  <2> QED BY <1>0, <2>2, <2>3 DEF HandlerType, Goto, Answer
<1>3. CASE Poll \/ Pause \/ Sigterm \/ DrainAdd \/ UNCHANGED vars
  BY <1>1, <1>3 DEF Poll, Pause, Sigterm, DrainAdd, vars
<1>4. CASE Exit
  <2>1. UNCHANGED <<corr, dedup, answer>>
        /\ handler' = [e \in Events |-> IF handler[e] = "new" THEN "new" ELSE "done"]
    BY <1>4 DEF Exit
  <2> QED BY <1>0, <2>1 DEF HandlerType
<1>5. CASE RestartStep
  BY <1>1, <1>5 DEF RestartStep, Start, RecoverEnd, FlushEnd, RecoverTask, FlushTask
<1>6. ASSUME NEW l \in Loops, LoopStep(l) \/ LoopError(l) PROVE HandlerType'
  BY <1>1, <1>6 DEF LoopStep, Peek, Promote, Pop, Fetch, Requeue, Assign, LoopError
<1>7. ASSUME NEW w \in Workers, DrainMark(w) \/ \E r \in Outcomes : WorkerEnd(w, r)
      PROVE  HandlerType'
  BY <1>1, <1>7 DEF DrainMark, WorkerEnd
<1>8. ASSUME NEW t \in Ids, PostStep(t) \/ RecordError(t) \/ PushError(t) \/ HashExpires(t)
      PROVE  HandlerType'
  <2>1. CASE Record(t)
    BY <1>0, <2>1 DEF Record, HandlerType
  <2>2. CASE ~Record(t)
    BY <1>1, <1>8, <2>2 DEF PostStep, Retry, PushToDlq, Trim, RecordError, PushError,
                            HashExpires
  <2> QED BY <2>1, <2>2
<1>9. CASE \E k \in Keys : CircuitAges(k)
  BY <1>1, <1>9 DEF CircuitAges
<1>10. ASSUME NEW s \in Sweepers, SweepStep(s) \/ \E m \in SweepModes : SweepBegin(s, m)
       PROVE  HandlerType'
  BY <1>1, <1>10 DEF SweepStep, SweepGivesUp, SweepSkips, SweepRetries, SweepArchives,
                     SweepEnd, SweepBegin
<1> QED BY <1>2, <1>3, <1>4, <1>5, <1>6, <1>7, <1>8, <1>9, <1>10 DEF Next

\* A failure counted for any key, none of which is lost to the type.
LEMMA FailureCounts ==
  ASSUME HistoryType, NEW k, failures' = [failures EXCEPT ![k] = @ + 1]
  PROVE  failures' \in [Keys -> Nat]
<1>1. CASE k \in Keys
  <2>1. failures[k] + 1 \in Nat
    BY <1>1 DEF HistoryType
  <2> QED BY <1>1, <2>1 DEF HistoryType
<1>2. CASE k \notin Keys
  BY <1>2 DEF HistoryType
<1> QED BY <1>1, <1>2

\* What happened to the events.
LEMMA HistoryNext == ASSUME TypeInv, [Next]_vars PROVE HistoryType'
<1>0. /\ HistoryType /\ \A t \in Ids : task[t].event \in AnyEvent
      /\ \A t \in Ids : DOMAIN task = Ids /\ task[t] \in Tasks
  BY DEF TypeInv, StoreType, Tasks
<1>1. ASSUME UNCHANGED <<finished, archived, retries, failures>> PROVE HistoryType'
  BY <1>0, <1>1 DEF HistoryType
<1>2. ASSUME NEW e \in Events, Arrive(e) \/ HandlerStep(e) \/ HandlerError(e)
      PROVE  HistoryType'
  BY <1>1, <1>2 DEF HandlerStep, Arrive, FloodGuard, SetCorrelation, SetDedup, ReadDepth,
                    EnqueueEvent, HandlerError
<1>3. CASE Poll \/ Pause \/ Sigterm \/ DrainAdd \/ UNCHANGED vars
  BY <1>1, <1>3 DEF Poll, Pause, Sigterm, DrainAdd, vars
<1>4. CASE Exit
  <2>1. UNCHANGED historyVars /\ failures' = [k \in Keys |-> 0]
    BY <1>4 DEF Exit
  <2> QED BY <1>0, <2>1 DEF HistoryType
<1>5. CASE RestartStep
  <2>1. CASE FlushEnd
    <3>1. PICK n \in 0..Len(dlq) :
             archived' = archived \cup EventsOf(SubSeq(dlq, n + 1, Len(dlq)))
      BY <2>1 DEF FlushEnd
    <3>2. dlq \in Seq(Entries) /\ Len(dlq) \in Nat /\ n \in Nat /\ Len(dlq) <= Len(dlq)
      BY DEF TypeInv, DlqType
    <3>3. EventsOf(SubSeq(dlq, n + 1, Len(dlq))) \subseteq AnyEvent
      BY <3>2, EntryParts
    <3>4. UNCHANGED <<finished, retries, failures>>
      BY <2>1 DEF FlushEnd
    <3> QED BY <1>0, <3>1, <3>3, <3>4 DEF HistoryType
  <2>2. CASE \E t \in Ids : RecoverTask(t) \/ FlushTask(t)
    BY <1>0, <2>2 DEF RecoverTask, FlushTask, HistoryType
  <2>3. CASE Start \/ RecoverEnd
    BY <1>1, <2>3 DEF Start, RecoverEnd
  <2> QED BY <1>5, <2>1, <2>2, <2>3 DEF RestartStep
<1>6. ASSUME NEW l \in Loops, LoopStep(l) \/ LoopError(l) PROVE HistoryType'
  BY <1>1, <1>6 DEF LoopStep, Peek, Promote, Pop, Fetch, Requeue, Assign, LoopError
<1>7. ASSUME NEW w \in Workers, DrainMark(w) \/ \E r \in Outcomes : WorkerEnd(w, r)
      PROVE  HistoryType'
  <2>1. CASE DrainMark(w)
    BY <1>1, <2>1 DEF DrainMark
  <2>2. CASE \E r \in Outcomes : WorkerEnd(w, r)
    <3>1. /\ finished' = finished \/ finished' = finished \cup {task[worker[w]].event}
          /\ UNCHANGED <<archived, retries, failures>> /\ worker[w] # NoTask
      BY <2>2 DEF WorkerEnd
    <3>2. worker[w] \in Ids
      BY <3>1 DEF TypeInv, WorkType, TaskOrNone
    <3> QED BY <1>0, <3>1, <3>2 DEF HistoryType
  <2> QED BY <1>7, <2>1, <2>2
<1>8. ASSUME NEW t \in Ids, PostStep(t) \/ RecordError(t) \/ PushError(t) \/ HashExpires(t)
      PROVE  HistoryType'
  <2>1. CASE Trim(t)
    <3>1. /\ archived' = archived \cup EventsOf(SubSeq(dlq, Len(Kept(dlq)) + 1, Len(dlq)))
          /\ failures' = [failures EXCEPT ![KeyOf[task[t].event]] = @ + 1]
          /\ UNCHANGED <<finished, retries>>
      BY <2>1 DEF Trim
    <3>2. EventsOf(SubSeq(dlq, Len(Kept(dlq)) + 1, Len(dlq))) \subseteq AnyEvent
      BY KeptParts DEF TypeInv, DlqType
    <3> QED BY <1>0, <3>1, <3>2, FailureCounts DEF HistoryType
  <2>2. CASE PushError(t)
    <3>1. /\ failures' = [failures EXCEPT ![KeyOf[task[t].event]] = @ + 1]
          /\ UNCHANGED historyVars
      BY <2>2 DEF PushError
    <3> QED BY <1>0, <3>1, FailureCounts DEF HistoryType
  <2>3. CASE ~Trim(t) /\ ~PushError(t)
    BY <1>1, <1>8, <2>3 DEF PostStep, Record, Retry, PushToDlq, RecordError, HashExpires
  <2> QED BY <2>1, <2>2, <2>3
<1>9. ASSUME NEW k \in Keys, CircuitAges(k) PROVE HistoryType'
  <2>1. /\ failures[k] > 0 /\ failures' = [failures EXCEPT ![k] = @ - 1]
        /\ UNCHANGED historyVars
    BY <1>9 DEF CircuitAges
  <2>2. failures[k] - 1 \in Nat
    BY <1>0, <2>1 DEF HistoryType
  <2> QED BY <1>0, <2>1, <2>2 DEF HistoryType
<1>10. ASSUME NEW s \in Sweepers, SweepStep(s) \/ \E m \in SweepModes : SweepBegin(s, m)
       PROVE  HistoryType'
  <2> DEFINE x == Head(sweep[s].todo)
  <2>1. sweep[s].todo # <<>> => x.event \in AnyEvent
    BY SweepBusy DEF TypeInv, Entries
  <2> HIDE DEF x
  <2>2. CASE SweepRetries(s)
    <3>1. /\ retries' = [retries EXCEPT ![x.event] = IF sweep[s].mode = "retry" THEN @ + 1 ELSE @]
          /\ UNCHANGED <<finished, archived, failures>>
      BY <2>2 DEF SweepRetries, x
    <3>2. CASE x.event \in Events
      <4>1. retries[x.event] \in Nat /\ retries[x.event] + 1 \in Nat
        BY <1>0, <3>2 DEF HistoryType
      <4> QED BY <1>0, <3>1, <3>2, <4>1 DEF HistoryType
    <3>3. CASE x.event \notin Events
      BY <1>0, <3>1, <3>3 DEF HistoryType
    <3> QED BY <3>2, <3>3
  <2>3. CASE SweepGivesUp(s) \/ SweepArchives(s)
    <3>1. /\ archived' = archived \/ archived' = archived \cup {x.event}
          /\ UNCHANGED <<finished, retries, failures>> /\ sweep[s].todo # <<>>
      BY <2>3 DEF SweepGivesUp, SweepArchives, x
    <3> QED BY <1>0, <2>1, <3>1 DEF HistoryType
  <2>4. CASE ~SweepRetries(s) /\ ~SweepGivesUp(s) /\ ~SweepArchives(s)
    BY <1>1, <1>10, <2>4 DEF SweepStep, SweepSkips, SweepEnd, SweepBegin
  <2> QED BY <2>2, <2>3, <2>4
<1> QED BY <1>2, <1>3, <1>4, <1>5, <1>6, <1>7, <1>8, <1>9, <1>10 DEF Next

\* The bounds of the exploration: a step adds one to one of them at most.
Counted(c, d) == d = c \/ d = c + 1
Counts == /\ Counted(fails, fails') /\ Counted(sweeps, sweeps') /\ Counted(stops, stops')
          /\ Counted(sigterms, sigterms') /\ Counted(errors, errors')
          /\ Counted(pauses, pauses') /\ Counted(discards, discards')

LEMMA CountSteps == ASSUME [Next]_vars PROVE Counts
<1>1. ASSUME NEW e \in Events, Arrive(e) \/ HandlerStep(e) \/ HandlerError(e)
      PROVE  Counts
  BY <1>1 DEF HandlerStep, Arrive, FloodGuard, SetCorrelation, SetDedup, ReadDepth,
              EnqueueEvent, HandlerError, Counts, Counted
<1>2. CASE Poll \/ Pause \/ Sigterm \/ DrainAdd \/ Exit \/ UNCHANGED vars
  BY <1>2 DEF Poll, Pause, Sigterm, DrainAdd, Exit, vars, Counts, Counted
<1>3. CASE RestartStep
  BY <1>3 DEF RestartStep, Start, RecoverEnd, FlushEnd, RecoverTask, FlushTask, Counts,
              Counted
<1>4. ASSUME NEW l \in Loops, LoopStep(l) \/ LoopError(l) PROVE Counts
  BY <1>4 DEF LoopStep, Peek, Promote, Pop, Fetch, Requeue, Assign, LoopError, Counts,
              Counted
<1>5. ASSUME NEW w \in Workers, DrainMark(w) \/ \E r \in Outcomes : WorkerEnd(w, r)
      PROVE  Counts
  BY <1>5 DEF DrainMark, WorkerEnd, Counts, Counted
<1>6. ASSUME NEW t \in Ids, PostStep(t) \/ RecordError(t) \/ PushError(t) \/ HashExpires(t)
      PROVE  Counts
  BY <1>6 DEF PostStep, Record, Retry, PushToDlq, Trim, RecordError, PushError,
              HashExpires, Counts, Counted
<1>7. CASE \E k \in Keys : CircuitAges(k)
  BY <1>7 DEF CircuitAges, Counts, Counted
<1>8. ASSUME NEW s \in Sweepers, SweepStep(s) \/ \E m \in SweepModes : SweepBegin(s, m)
      PROVE  Counts
  BY <1>8 DEF SweepStep, SweepGivesUp, SweepSkips, SweepRetries, SweepArchives,
              SweepEnd, SweepBegin, Counts, Counted
<1> QED BY <1>1, <1>2, <1>3, <1>4, <1>5, <1>6, <1>7, <1>8 DEF Next

LEMMA CountNext == ASSUME TypeInv, [Next]_vars PROVE CountType'
<1>1. paused' \in BOOLEAN
  <2>1. CASE Pause
    BY <2>1 DEF Pause, TypeInv, CountType
  <2>2. ASSUME ~Pause PROVE UNCHANGED paused
    <3>1. ASSUME NEW e \in Events, Arrive(e) \/ HandlerStep(e) \/ HandlerError(e)
          PROVE  UNCHANGED paused
      BY <3>1 DEF HandlerStep, Arrive, FloodGuard, SetCorrelation, SetDedup, ReadDepth,
                  EnqueueEvent, HandlerError
    <3>2. CASE Poll \/ Sigterm \/ DrainAdd \/ Exit \/ RestartStep \/ UNCHANGED vars
      BY <3>2 DEF Poll, Sigterm, DrainAdd, Exit, RestartStep, Start, RecoverEnd, FlushEnd,
                  RecoverTask, FlushTask, vars
    <3>3. ASSUME NEW l \in Loops, LoopStep(l) \/ LoopError(l) PROVE UNCHANGED paused
      BY <3>3 DEF LoopStep, Peek, Promote, Pop, Fetch, Requeue, Assign, LoopError
    <3>4. ASSUME NEW w \in Workers, DrainMark(w) \/ \E r \in Outcomes : WorkerEnd(w, r)
          PROVE  UNCHANGED paused
      BY <3>4 DEF DrainMark, WorkerEnd
    <3>5. ASSUME NEW t \in Ids, PostStep(t) \/ RecordError(t) \/ PushError(t) \/ HashExpires(t)
          PROVE  UNCHANGED paused
      BY <3>5 DEF PostStep, Record, Retry, PushToDlq, Trim, RecordError, PushError,
                  HashExpires
    <3>6. CASE \E k \in Keys : CircuitAges(k)
      BY <3>6 DEF CircuitAges
    <3>7. ASSUME NEW s \in Sweepers, SweepStep(s) \/ \E m \in SweepModes : SweepBegin(s, m)
          PROVE  UNCHANGED paused
      BY <3>7 DEF SweepStep, SweepGivesUp, SweepSkips, SweepRetries, SweepArchives,
                  SweepEnd, SweepBegin
    <3> QED BY <2>2, <3>1, <3>2, <3>3, <3>4, <3>5, <3>6, <3>7 DEF Next
  <2> QED BY <2>1, <2>2 DEF TypeInv, CountType
<1> QED BY <1>1, CountSteps DEF TypeInv, CountType, Counts, Counted

LEMMA TypeNext == TypeInv /\ [Next]_vars => TypeInv'
<1> SUFFICES ASSUME TypeInv, [Next]_vars PROVE TypeInv'
  OBVIOUS
<1> QED BY StoreNext, LoopNext, WorkNext, DlqNext, RestartNext, HandlerNext, HistoryNext,
           CountNext DEF TypeInv

LEMMA TypeInvariant == Spec => []TypeInv
BY InitTypes, TypeNext, PTL DEF Spec

\* Every variable of the dispatcher, its Redis keys and its histories keeps its
\* type in every reachable state.
THEOREM TypesHold == Spec => []TypeOK
<1>1. ASSUME TypeInv PROVE TypeOK
  <2>1. {fails, sweeps, stops, sigterms, errors, pauses, discards} \subseteq Nat
    BY <1>1 DEF TypeInv, CountType
  <2>2. paused \in BOOLEAN
    BY <1>1 DEF TypeInv, CountType
  <2> QED BY ONLY <1>1, <2>1, <2>2 DEF TypeInv, TypeOK, StoreType, LoopType, WorkType,
             DlqType, RestartType, HandlerType, HistoryType, States, Tasks, LoopTypes,
             PostTypes, SweepTypes
<1> QED BY <1>1, TypeInvariant, PTL
=============================================================================
