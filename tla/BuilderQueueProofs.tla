-------------------------- MODULE BuilderQueueProofs --------------------------
(***************************************************************************)
(* Proofs about the tasks of BuilderDispatcher: where a task is (queued, in *)
(* the hand of the dispatch loop, with a worker, in the post-processing of  *)
(* runWorker), that it is there once, that its state says so, and that it   *)
(* is nowhere only when its event is settled.                               *)
(***************************************************************************)
EXTENDS BuilderDispatcherProofs, FiniteSetTheorems

USE DEF redisVars, processVars, loopVars, workVars, historyVars, boundVars

-----------------------------------------------------------------------------
(* Where a task is.                                                        *)

QueueIn(Z) == {t \in Ids : \E p \in Levels : t \in ToSet(Z[p])}
HandsIn(L, where) == {t \in Ids : \E l \in Loops : L[l].task = t /\ L[l].pc \in where}

Queue == QueueIn(zset)
Popped == HandsIn(loop, {"fetch"})
Fetched == HandsIn(loop, {"requeue", "assign"})
Working == {t \in Ids : \E w \in Workers : worker[w] = t}

\* An id is in one sorted set, the one of its priority, once.
LevelledIn(Z, T) ==
  \A p \in Levels : IsInjective(Z[p]) /\ \A t \in ToSet(Z[p]) : T[t].prio = p
Levelled == LevelledIn(zset, task)

ZSets == [Levels -> Seq(Ids)]

-----------------------------------------------------------------------------
(* What the commands on the sorted sets do to the queue.                   *)

LEMMA LevelSet ==
  ASSUME NEW Z \in ZSets, NEW p \in Levels
  PROVE  Z[p] \in Seq(Ids) /\ ToSet(Z[p]) \subseteq QueueIn(Z) /\ ToSet(Z[p]) \subseteq Ids
<1>1. Z[p] \in Seq(Ids)
  BY DEF ZSets
<1>2. ToSet(Z[p]) \subseteq Ids
  BY <1>1, SeqSet
<1> QED BY <1>1, <1>2 DEF QueueIn

\* ZADD
LEMMA QueuePush ==
  ASSUME NEW Z \in ZSets, NEW p \in Levels, NEW x \in Ids, NEW Y,
         Y[p] = Append(Z[p], x), \A q \in Levels \ {p} : Y[q] = Z[q]
  PROVE  /\ QueueIn(Y) = QueueIn(Z) \cup {x}
         /\ \A T : LevelledIn(Z, T) /\ x \notin QueueIn(Z) /\ T[x].prio = p => LevelledIn(Y, T)
<1>1. Z[p] \in Seq(Ids) /\ ToSet(Z[p]) \subseteq QueueIn(Z)
  BY LevelSet
<1>2. ToSet(Append(Z[p], x)) = ToSet(Z[p]) \cup {x}
      /\ (IsInjective(Z[p]) /\ x \notin ToSet(Z[p]) => IsInjective(Append(Z[p], x)))
  BY <1>1, SeqAppend
<1>3. Y[p] = Append(Z[p], x) /\ \A q \in Levels \ {p} : Y[q] = Z[q]
  OBVIOUS
<1>4. QueueIn(Y) = QueueIn(Z) \cup {x}
  BY <1>2, <1>3 DEF QueueIn
<1>5. ASSUME NEW T, LevelledIn(Z, T), x \notin QueueIn(Z), T[x].prio = p
      PROVE  LevelledIn(Y, T)
  BY <1>1, <1>2, <1>3, <1>5 DEF LevelledIn
<1> QED BY <1>4, <1>5

\* ZPOPMIN
LEMMA QueuePop ==
  ASSUME NEW Z \in ZSets, NEW p \in Levels, Z[p] # <<>>, NEW Y,
         Y[p] = Tail(Z[p]), \A q \in Levels \ {p} : Y[q] = Z[q]
  PROVE  /\ Head(Z[p]) \in QueueIn(Z)
         /\ QueueIn(Z) \ {Head(Z[p])} \subseteq QueueIn(Y) /\ QueueIn(Y) \subseteq QueueIn(Z)
         /\ \A T : LevelledIn(Z, T) => LevelledIn(Y, T) /\ Head(Z[p]) \notin QueueIn(Y)
<1> DEFINE x == Head(Z[p])
<1>1. Z[p] \in Seq(Ids) /\ ToSet(Z[p]) \subseteq QueueIn(Z)
  BY LevelSet
<1>2. /\ x \in ToSet(Z[p]) /\ ToSet(Z[p]) = ToSet(Tail(Z[p])) \cup {x}
      /\ IsInjective(Z[p]) => IsInjective(Tail(Z[p])) /\ x \notin ToSet(Tail(Z[p]))
  BY <1>1, SeqTail
<1>3. Y[p] = Tail(Z[p]) /\ \A q \in Levels \ {p} : Y[q] = Z[q]
  OBVIOUS
<1> HIDE DEF x
<1>4. QueueIn(Z) \ {x} \subseteq QueueIn(Y) /\ QueueIn(Y) \subseteq QueueIn(Z)
  BY <1>2, <1>3 DEF QueueIn
<1>5. ASSUME NEW T, LevelledIn(Z, T) PROVE LevelledIn(Y, T) /\ x \notin QueueIn(Y)
  <2>1. LevelledIn(Y, T)
    BY <1>2, <1>3, <1>5 DEF LevelledIn
  <2>2. T[x].prio = p /\ x \notin ToSet(Y[p])
    BY <1>2, <1>3, <1>5 DEF LevelledIn
  <2>3. \A q \in Levels \ {p} : x \notin ToSet(Y[q])
    BY <2>1, <2>2 DEF LevelledIn
  <2> QED BY <2>1, <2>2, <2>3 DEF QueueIn
<1> QED BY <1>1, <1>2, <1>4, <1>5 DEF x

\* ZREM and ZADD of the startup recovery.
LEMMA QueueAgain ==
  ASSUME NEW Z \in ZSets, NEW p \in Levels, NEW x \in Ids, NEW Y,
         Y[p] = Append(Without(Z[p], x), x), \A q \in Levels \ {p} : Y[q] = Z[q]
  PROVE  /\ QueueIn(Y) = QueueIn(Z) \cup {x}
         /\ \A T : LevelledIn(Z, T) /\ T[x].prio = p => LevelledIn(Y, T)
<1> DEFINE q == Without(Z[p], x)
<1>1. Z[p] \in Seq(Ids)
  BY LevelSet
<1>2. /\ q \in Seq(Ids) /\ ToSet(Z[p]) \ {x} \subseteq ToSet(q) /\ ToSet(q) \subseteq ToSet(Z[p])
      /\ IsInjective(Z[p]) => ToSet(q) = ToSet(Z[p]) \ {x} /\ IsInjective(q)
  BY <1>1, SeqWithout
<1>3. Y[p] = Append(q, x) /\ \A l \in Levels \ {p} : Y[l] = Z[l]
  OBVIOUS
<1> HIDE DEF q
<1>4. /\ ToSet(Append(q, x)) = ToSet(q) \cup {x}
      /\ IsInjective(q) /\ x \notin ToSet(q) => IsInjective(Append(q, x))
  BY <1>2, SeqAppend
<1>5. QueueIn(Y) = QueueIn(Z) \cup {x}
  <2>1. /\ ToSet(Z[p]) \subseteq ToSet(Y[p]) /\ x \in ToSet(Y[p])
        /\ ToSet(Y[p]) \subseteq ToSet(Z[p]) \cup {x}
    BY <1>2, <1>3, <1>4
  <2>2. \A l \in Levels : /\ ToSet(Z[l]) \subseteq ToSet(Y[l])
                         /\ ToSet(Y[l]) \subseteq ToSet(Z[l]) \cup {x}
    BY <1>3, <2>1
  <2>3. x \in QueueIn(Y)
    BY <2>1 DEF QueueIn
  <2>4. ASSUME NEW t \in Ids, t # x PROVE t \in QueueIn(Y) <=> t \in QueueIn(Z)
    BY <2>2, <2>4 DEF QueueIn
  <2>5. QueueIn(Y) \subseteq Ids /\ QueueIn(Z) \subseteq Ids
    BY DEF QueueIn
  <2> QED BY <2>3, <2>4, <2>5
<1>6. ASSUME NEW T, LevelledIn(Z, T), T[x].prio = p PROVE LevelledIn(Y, T)
  <2>1. IsInjective(Z[p]) /\ \A t \in ToSet(Z[p]) : T[t].prio = p
    BY <1>6 DEF LevelledIn
  <2>2. IsInjective(Y[p])
    BY <1>2, <1>3, <1>4, <2>1
  <2>3. \A t \in ToSet(Y[p]) : T[t].prio = p
    BY <1>2, <1>3, <1>4, <1>6, <2>1
  <2> QED BY <1>3, <1>6, <2>2, <2>3 DEF LevelledIn
<1> QED BY <1>5, <1>6

\* ZREM of the flush.
LEMMA QueueDrop ==
  ASSUME NEW Z \in ZSets, NEW x, NEW Y, \A p \in Levels : Y[p] = Without(Z[p], x)
  PROVE  /\ QueueIn(Z) \ {x} \subseteq QueueIn(Y) /\ QueueIn(Y) \subseteq QueueIn(Z)
         /\ \A T : LevelledIn(Z, T) => LevelledIn(Y, T) /\ x \notin QueueIn(Y)
<1>1. ASSUME NEW p \in Levels
      PROVE  /\ Y[p] = Without(Z[p], x)
             /\ ToSet(Z[p]) \ {x} \subseteq ToSet(Y[p]) /\ ToSet(Y[p]) \subseteq ToSet(Z[p])
             /\ IsInjective(Z[p]) => ToSet(Y[p]) = ToSet(Z[p]) \ {x} /\ IsInjective(Y[p])
  <2>1. Y[p] = Without(Z[p], x) /\ Z[p] \in Seq(Ids)
    BY LevelSet
  <2> QED BY <2>1, SeqWithout
<1>2. QueueIn(Z) \ {x} \subseteq QueueIn(Y) /\ QueueIn(Y) \subseteq QueueIn(Z)
  BY <1>1 DEF QueueIn
<1>3. ASSUME NEW T, LevelledIn(Z, T) PROVE LevelledIn(Y, T) /\ x \notin QueueIn(Y)
  BY <1>1, <1>3 DEF LevelledIn, QueueIn
<1> QED BY <1>2, <1>3
-----------------------------------------------------------------------------
(* What the steps of the loop and of the workers do to the places.          *)

Base == TypeInv /\ LoopInv

LEMMA BaseNext == (Init => Base) /\ (Base /\ [Next]_vars => Base')
<1>1. Init => Base
  BY InitTypes, InitLoop DEF Base
<1>2. Base /\ [Next]_vars => Base'
  BY TypeNext, StepLoop DEF Base
<1> QED BY <1>1, <1>2

\* One call of dispatchNext runs: what it holds is all that is held.
LEMMA OneHand ==
  ASSUME NEW L, NEW l \in Loops, NEW where, "idle" \notin where,
         \A m \in Loops \ {l} : L[m].pc = "idle",
         L[l].pc \in where => L[l].task \in Ids
  PROVE  HandsIn(L, where) = IF L[l].pc \in where THEN {L[l].task} ELSE {}
BY DEF HandsIn

LEMMA HandsEmpty ==
  ASSUME NEW L, NEW where, "idle" \notin where, \A m \in Loops : L[m].pc = "idle"
  PROVE  HandsIn(L, where) = {}
BY DEF HandsIn

LEMMA HeldTask ==
  ASSUME Base, NEW l \in Loops, loop[l].pc \in HoldsTask
  PROVE  loop[l].task \in Ids
BY DEF Base, TypeInv, LoopType, LoopTypes, TaskOrNone

\* Before a step of a loop.
LEMMA LoopBusy ==
  ASSUME Base, NEW l \in Loops, loop[l].pc # "idle"
  PROVE  /\ dispatching /\ \A m \in Loops \ {l} : loop[m].pc = "idle"
         /\ Popped = IF loop[l].pc = "fetch" THEN {loop[l].task} ELSE {}
         /\ Fetched = IF loop[l].pc \in {"requeue", "assign"} THEN {loop[l].task} ELSE {}
<1>1. dispatching /\ \A m \in Loops \ {l} : loop[m].pc = "idle"
  BY DEF Base, LoopInv, MutexExact
<1>2. loop[l].pc \in {"fetch"} => loop[l].task \in Ids
  BY HeldTask DEF HoldsTask
<1>3. loop[l].pc \in {"requeue", "assign"} => loop[l].task \in Ids
  BY HeldTask DEF HoldsTask
<1>4. Popped = IF loop[l].pc \in {"fetch"} THEN {loop[l].task} ELSE {}
  BY <1>1, <1>2, OneHand DEF Popped
<1>5. Fetched = IF loop[l].pc \in {"requeue", "assign"} THEN {loop[l].task} ELSE {}
  BY <1>1, <1>3, OneHand DEF Fetched
<1> QED BY <1>1, <1>4, <1>5

\* After it.
LEMMA LoopMoved ==
  ASSUME Base, NEW l \in Loops, loop[l].pc # "idle",
         NEW r, loop' = [loop EXCEPT ![l] = r], r.pc \in HoldsTask => r.task \in Ids
  PROVE  /\ Popped' = IF r.pc = "fetch" THEN {r.task} ELSE {}
         /\ Fetched' = IF r.pc \in {"requeue", "assign"} THEN {r.task} ELSE {}
<1>1. loop'[l] = r /\ \A m \in Loops \ {l} : loop'[m].pc = "idle"
  BY LoopBusy DEF Base, TypeInv, LoopType
<1>2. HandsIn(loop', {"fetch"}) = IF r.pc \in {"fetch"} THEN {r.task} ELSE {}
  BY <1>1, OneHand DEF HoldsTask
<1>3. HandsIn(loop', {"requeue", "assign"})
        = IF r.pc \in {"requeue", "assign"} THEN {r.task} ELSE {}
  BY <1>1, OneHand DEF HoldsTask
<1> QED BY <1>2, <1>3 DEF Popped, Fetched

LEMMA LoopsIdle ==
  ASSUME Base, ~dispatching PROVE Popped = {} /\ Fetched = {}
BY HandsEmpty DEF Base, LoopInv, MutexExact, Popped, Fetched

LEMMA BreakHands ==
  ASSUME Base, NEW l \in Loops, loop[l].pc # "idle", Break(l)
  PROVE  Popped' = {} /\ Fetched' = {} /\ dispatching' = FALSE
<1>1. loop' = [loop EXCEPT ![l] = IdleLoop] /\ IdleLoop.pc = "idle" /\ dispatching' = FALSE
  BY DEF Break, IdleLoop
<1> QED BY <1>1, LoopMoved DEF HoldsTask

LEMMA AtHands ==
  ASSUME Base, NEW l \in Loops, loop[l].pc # "idle", NEW where, NEW level,
         where \notin HoldsTask, At(l, where, level)
  PROVE  Popped' = {} /\ Fetched' = {} /\ UNCHANGED dispatching
<1> DEFINE r == [loop[l] EXCEPT !.pc = where, !.level = level]
<1>1. loop' = [loop EXCEPT ![l] = r] /\ UNCHANGED dispatching
  BY DEF At
<1>2. r.pc = where
  BY DEF Base, TypeInv, LoopType, LoopTypes
<1> HIDE DEF r
<1> QED BY <1>1, <1>2, LoopMoved DEF HoldsTask

LEMMA TookHands ==
  ASSUME Base, NEW l \in Loops, loop[l].pc # "idle", NEW t \in Ids, NEW promoted,
         Took(l, t, promoted)
  PROVE  Popped' = {t} /\ Fetched' = {} /\ UNCHANGED dispatching
<1> DEFINE r == [loop[l] EXCEPT !.pc = "fetch", !.task = t, !.promoted = promoted]
<1>1. loop' = [loop EXCEPT ![l] = r] /\ UNCHANGED dispatching
  BY DEF Took
<1>2. r.pc = "fetch" /\ r.task = t
  BY DEF Base, TypeInv, LoopType, LoopTypes
<1> HIDE DEF r
<1> QED BY <1>1, <1>2, LoopMoved DEF HoldsTask

\* A new loop holds nothing yet.
LEMMA DispatchHands ==
  ASSUME Base, Dispatch(worker)
  PROVE  UNCHANGED <<Popped, Fetched>> /\ (~Running => UNCHANGED dispatching)
<1>1. CASE UNCHANGED loopVars
  BY <1>1 DEF Popped, Fetched, HandsIn
<1>2. CASE ~UNCHANGED loopVars
  <2>1. Running /\ ~dispatching
    BY <1>2 DEF Dispatch, MutexFree
  <2>2. PICK k \in Loops, w \in Workers : loop' = [loop EXCEPT ![k] = LoopWith(w)]
    BY <1>2 DEF Dispatch
  <2>3. \A l \in Loops : loop[l].pc = "idle"
    BY <2>1 DEF Base, LoopInv, MutexExact
  <2>4. loop'[k].pc = "peek" /\ \A l \in Loops \ {k} : loop'[l].pc = "idle"
    BY <2>2, <2>3 DEF LoopWith, Base, TypeInv, LoopType
  <2>5. HandsIn(loop', {"fetch"}) = {} /\ HandsIn(loop', {"requeue", "assign"}) = {}
    BY <2>4 DEF HandsIn
  <2> QED BY <2>1, <2>5, LoopsIdle DEF Popped, Fetched
<1> QED BY <1>1, <1>2

-----------------------------------------------------------------------------
(* What the actions that move a task do to the places.                     *)

\* Two workers never execute the same task.
OneWorker ==
  \A v, w \in Workers : worker[v] = worker[w] /\ worker[v] # NoTask => v = w

\* An id that was never enqueued is nowhere.
Nowhere(t) ==
  /\ state[t] = "none" /\ task[t] = Unused /\ post[t] = NoPost /\ closing # t
  /\ t \notin Queue \cup Popped \cup Fetched \cup Working \cup expiring
FreshInv == \A t \in Ids : t > used => Nowhere(t)

LEMMA StoreShape ==
  ASSUME Base
  PROVE  /\ zset \in ZSets /\ state \in [Ids -> States] /\ task \in [Ids -> Tasks]
         /\ worker \in [Workers -> TaskOrNone] /\ post \in [Ids -> PostTypes]
         /\ used \in Nat /\ \A t \in Ids : task[t].prio \in Levels
BY DEF Base, TypeInv, StoreType, WorkType, ZSets, Tasks

\* The pipeline of enqueue().
LEMMA EnqueueEffect ==
  ASSUME Base, NEW e \in AnyEvent, NEW p \in Levels, NEW d \in Nat, NEW n \in Nat,
         Enqueue(e, p, d, n)
  PROVE  /\ used + 1 \in Ids /\ used' = used + 1 /\ Queue' = Queue \cup {used + 1}
         /\ state' = [state EXCEPT ![used + 1] = "QUEUED"]
         /\ task' = [task EXCEPT ![used + 1] = [event |-> e, prio |-> p, dlqCount |-> d,
                                                tmoCount |-> n]]
         /\ FreshInv /\ Levelled => Levelled'
<1>1. used + 1 \in Ids /\ used' = used + 1
  BY EnqueueTypes DEF Base, TypeInv
<1>2. zset' = [zset EXCEPT ![p] = Append(@, used + 1)] /\ zset \in ZSets
  BY StoreShape DEF Enqueue
<1> DEFINE x == used + 1
<1>a. /\ QueueIn(zset') = QueueIn(zset) \cup {x}
      /\ \A T : LevelledIn(zset, T) /\ x \notin QueueIn(zset) /\ T[x].prio = p
              => LevelledIn(zset', T)
  <2>1. /\ x \in Ids /\ zset \in ZSets
        /\ zset'[p] = Append(zset[p], x) /\ \A q \in Levels \ {p} : zset'[q] = zset[q]
    BY <1>1, <1>2 DEF ZSets
  <2> HIDE DEF x
  <2> QED BY <2>1, QueuePush
<1>3. Queue' = Queue \cup {used + 1}
  BY <1>a DEF Queue
<1>4. ASSUME FreshInv, Levelled PROVE Levelled'
  <2>1. used + 1 \notin Queue
    <3>1. used + 1 > used
      BY StoreShape
    <3>2. Nowhere(used + 1)
      BY <1>1, <1>4, <3>1 DEF FreshInv
    <3> QED BY <3>2 DEF Nowhere
  <2>2. task'[used + 1].prio = p /\ \A t \in Ids \ {used + 1} : task'[t] = task[t]
    BY <1>1, StoreShape DEF Enqueue
  <2>3. \A q \in Levels : used + 1 \notin ToSet(zset[q]) /\ ToSet(zset[q]) \subseteq Ids
    BY <1>2, <2>1, LevelSet DEF Queue
  <2>4. LevelledIn(zset, task')
    BY <1>4, <2>2, <2>3 DEF Levelled, LevelledIn
  <2>5. LevelledIn(zset', task')
    BY <1>a, <2>1, <2>2, <2>4 DEF Queue
  <2> QED BY <2>5 DEF Levelled
<1> QED BY <1>1, <1>3, <1>4 DEF Enqueue

\* ZPOPMIN of the dispatch loop: nothing moves, or the head goes to the loop.
LEMMA TakeEffect ==
  ASSUME Base, NEW l \in Loops, Promote(l) \/ Pop(l)
  PROVE  /\ dispatching /\ Popped = {} /\ Fetched = {} /\ Fetched' = {}
         /\ \/ UNCHANGED zset /\ Popped' = {}
            \/ \E x \in Queue :
                 /\ Popped' = {x} /\ UNCHANGED dispatching
                 /\ Queue \ {x} \subseteq Queue' /\ Queue' \subseteq Queue
                 /\ Levelled => Levelled' /\ x \notin Queue'
<1>1. loop[l].pc \in {"promote", "pop"} /\ loop[l].pc # "idle" /\ UNCHANGED task
  BY DEF Promote, Pop
<1>2. dispatching /\ Popped = {} /\ Fetched = {}
  BY <1>1, LoopBusy
<1>3. ASSUME UNCHANGED zset,
             Break(l) \/ \E level \in Levels : At(l, "pop", level)
      PROVE  Fetched' = {} /\ Popped' = {}
  BY <1>1, <1>3, BreakHands, AtHands DEF HoldsTask
<1>4. ASSUME NEW p \in Levels, zset[p] # <<>>, NEW b, Took(l, Head(zset[p]), b),
             zset' = Taken(p)
      PROVE  /\ Fetched' = {}
             /\ \E x \in Queue : /\ Popped' = {x} /\ UNCHANGED dispatching
                                 /\ Queue \ {x} \subseteq Queue' /\ Queue' \subseteq Queue
                                 /\ Levelled => Levelled' /\ x \notin Queue'
  <2>1. /\ zset \in ZSets /\ zset'[p] = Tail(zset[p])
        /\ \A q \in Levels \ {p} : zset'[q] = zset[q]
    BY <1>4, StoreShape DEF Taken, ZSets
  <2> DEFINE x == Head(zset[p])
  <2>2. /\ x \in Queue /\ Queue \ {x} \subseteq Queue' /\ Queue' \subseteq Queue
        /\ Levelled => LevelledIn(zset', task) /\ x \notin Queue'
    BY <1>4, <2>1, QueuePop DEF Queue, Levelled
  <2>3. x \in Ids
    BY <2>2 DEF Queue, QueueIn
  <2>4. Fetched' = {} /\ Popped' = {x} /\ UNCHANGED dispatching
    BY <1>1, <1>4, <2>3, TookHands
  <2> HIDE DEF x
  <2>5. LevelledIn(zset', task) => Levelled'
    BY <1>1 DEF Levelled
  <2> QED BY <2>2, <2>4, <2>5
<1>5. CASE Promote(l)
  <2>1. 0 \in Levels /\ 3 \in Levels
    BY DEF Levels
  <2> QED BY <1>2, <1>3, <1>4, <1>5, <2>1 DEF Promote
<1>6. CASE Pop(l)
  <2>1. loop[l].level \in Levels /\ \A n \in Levels : n < 3 => n + 1 \in Levels
    BY DEF Base, TypeInv, LoopType, LoopTypes, Levels
  <2> QED BY <1>2, <1>3, <1>4, <1>6, <2>1 DEF Pop
<1> QED BY <1>5, <1>6

\* HGETALL and HSET of the loop.
LEMMA FetchEffect ==
  ASSUME Base, NEW l \in Loops, Fetch(l)
  PROVE  \E t \in Ids :
           /\ dispatching /\ Popped = {t} /\ Fetched = {} /\ Popped' = {}
           /\ UNCHANGED dispatching
           /\ \/ /\ state[t] # "none" /\ Fetched' = {t}
                 /\ state' = [state EXCEPT ![t] = "ASSIGNED"]
              \/ state[t] = "none" /\ Fetched' = {} /\ UNCHANGED state
<1> DEFINE t == loop[l].task
<1>1. loop[l].pc = "fetch" /\ loop[l].pc # "idle" /\ t \in Ids /\ loop[l] \in LoopTypes
  BY HeldTask DEF Fetch, HoldsTask, Base, TypeInv, LoopType
<1>2. dispatching /\ Popped = {t} /\ Fetched = {}
  BY <1>1, LoopBusy
<1>3. CASE state[t] # "none"
  <2> DEFINE r == [loop[l] EXCEPT !.pc = IF paused THEN "requeue" ELSE "assign"]
  <2>1. loop' = [loop EXCEPT ![l] = r] /\ state' = Written(t, "ASSIGNED")
        /\ UNCHANGED dispatching
    BY <1>3 DEF Fetch
  <2>2. r.pc \in {"requeue", "assign"} /\ r.task = t
    BY <1>1 DEF LoopTypes
  <2>3. state' = [state EXCEPT ![t] = "ASSIGNED"]
    BY <1>3, <2>1 DEF Written
  <2> HIDE DEF r
  <2>4. Popped' = {} /\ Fetched' = {t}
    BY <1>1, <2>1, <2>2, LoopMoved
  <2> QED BY <1>1, <1>2, <1>3, <2>1, <2>3, <2>4
<1>4. CASE state[t] = "none"
  <2> DEFINE r == [loop[l] EXCEPT !.pc = IF loop[l].promoted THEN "pop" ELSE "peek",
                                  !.task = NoTask, !.level = 0]
  <2>1. loop' = [loop EXCEPT ![l] = r] /\ UNCHANGED state /\ UNCHANGED dispatching
    BY <1>4 DEF Fetch
  <2>2. r.pc \in {"pop", "peek"}
    BY <1>1 DEF LoopTypes
  <2> HIDE DEF r
  <2>3. Popped' = {} /\ Fetched' = {}
    BY <1>1, <2>1, <2>2, LoopMoved DEF HoldsTask
  <2> QED BY <1>1, <1>2, <1>4, <2>1, <2>3
<1> QED BY <1>3, <1>4

\* The pause's fresh task in place of the dequeued one.
LEMMA RequeueEffect ==
  ASSUME Base, NEW l \in Loops, Requeue(l)
  PROVE  \E t \in Ids :
           /\ dispatching /\ Fetched = {t} /\ Popped = {} /\ Popped' = {} /\ Fetched' = {}
           /\ dispatching' = FALSE
           /\ task[t].event \in AnyEvent /\ task[t].prio \in Levels
           /\ Enqueue(task[t].event, task[t].prio, 0, 0)
<1> DEFINE t == loop[l].task
<1>1. loop[l].pc = "requeue" /\ loop[l].pc # "idle" /\ t \in Ids
  BY HeldTask DEF Requeue, HoldsTask
<1>2. dispatching /\ Fetched = {t} /\ Popped = {}
  BY <1>1, LoopBusy
<1>3. Popped' = {} /\ Fetched' = {} /\ dispatching' = FALSE
  BY <1>1, BreakHands DEF Requeue
<1>4. task[t].event \in AnyEvent /\ task[t].prio \in Levels
  BY <1>1, StoreShape DEF Tasks
<1> QED BY <1>1, <1>2, <1>3, <1>4 DEF Requeue

\* HSET RUNNING and the start of execute().
LEMMA AssignEffect ==
  ASSUME Base, NEW l \in Loops, Assign(l)
  PROVE  \E t \in Ids :
           /\ dispatching /\ Fetched = {t} /\ Popped = {} /\ Popped' = {} /\ Fetched' = {}
           /\ state' = [state EXCEPT ![t] = IF @ = "none" THEN @ ELSE "RUNNING"]
           /\ Working' = Working \cup {t}
           /\ OneWorker /\ t \notin Working => OneWorker'
<1> DEFINE t == loop[l].task
           w == loop[l].worker
<1>1. loop[l].pc = "assign" /\ loop[l].pc # "idle" /\ t \in Ids /\ w \in Workers
  BY HeldTask DEF Assign, HoldsTask, Base, TypeInv, LoopType
<1>2. dispatching /\ Fetched = {t} /\ Popped = {}
  BY <1>1, LoopBusy
<1>3. worker[w] = NoTask
  BY <1>1 DEF Base, LoopInv, WorkerFree
<1>4. worker' = [worker EXCEPT ![w] = t] /\ state' = Written(t, "RUNNING")
  BY DEF Assign
<1>5. Popped' = {} /\ Fetched' = {}
  <2>1. CASE Break(l)
    BY <1>1, <2>1, BreakHands
  <2>2. CASE \E v \in Workers : loop' = [loop EXCEPT ![l] = LoopWith(v)]
    <3>1. PICK v \in Workers : loop' = [loop EXCEPT ![l] = LoopWith(v)]
      BY <2>2
    <3>2. LoopWith(v).pc = "peek"
      BY DEF LoopWith
    <3> QED BY <1>1, <3>1, <3>2, LoopMoved DEF HoldsTask
  <2> QED BY <2>1, <2>2 DEF Assign
<1> HIDE DEF t, w
<1>6. worker \in [Workers -> TaskOrNone] /\ t # NoTask
  BY <1>1, StoreShape, Bounds
<1>7. worker'[w] = t /\ \A v \in Workers \ {w} : worker'[v] = worker[v]
  BY <1>1, <1>4, <1>6
<1>8. Working' = Working \cup {t}
  BY <1>1, <1>3, <1>6, <1>7, Bounds DEF Working
<1>9. OneWorker /\ t \notin Working => OneWorker'
  BY <1>1, <1>6, <1>7 DEF OneWorker, Working
<1> QED BY <1>1, <1>2, <1>4, <1>5, <1>8, <1>9 DEF Written

\* execute() returns.
LEMMA EndEffect ==
  ASSUME Base, NEW w \in Workers, NEW result, WorkerEnd(w, result)
  PROVE  \E t \in Working :
           /\ worker[w] = t /\ post' = [post EXCEPT ![t] = [pc |-> "record", result |-> result]]
           /\ Working \ {t} \subseteq Working' /\ Working' \subseteq Working
           /\ OneWorker => OneWorker' /\ t \notin Working'
<1> DEFINE t == worker[w]
<1>1. t # NoTask /\ worker' = [worker EXCEPT ![w] = NoTask] /\ worker \in [Workers -> TaskOrNone]
  BY StoreShape DEF WorkerEnd
<1>2. t \in Ids /\ t \in Working
  BY <1>1 DEF TaskOrNone, Working
<1>3. worker'[w] = NoTask /\ \A v \in Workers \ {w} : worker'[v] = worker[v]
  BY <1>1
<1>4. Working \ {t} \subseteq Working' /\ Working' \subseteq Working
  BY <1>2, <1>3, Bounds DEF Working
<1>5. ASSUME OneWorker PROVE OneWorker' /\ t \notin Working'
  BY <1>1, <1>2, <1>3, <1>5, Bounds DEF OneWorker, Working
<1> QED BY <1>2, <1>4, <1>5 DEF WorkerEnd

\* The startup recovery visits a task.
LEMMA RecoverEffect ==
  ASSUME Base, NEW t \in Ids, RecoverTask(t)
  PROVE  /\ phase = "recover" /\ t \in scan /\ scan' = scan \ {t}
         /\ UNCHANGED <<task, phase, closing, loopVars, workVars, handler, used, finished,
                        answer, dlq, sigterms, errors, stops, dedup, retries, sweep>>
         /\ \/ /\ Orphaned(t) /\ state' = [state EXCEPT ![t] = "QUEUED"]
               /\ Queue' = Queue \cup {t} /\ (Levelled => Levelled')
               /\ UNCHANGED <<expiring, archived>>
            \/ ~Orphaned(t) /\ UNCHANGED <<zset, state, expiring, archived>>
            \/ /\ state[t] \in {"QUEUED", "ASSIGNED", "RUNNING"}
               /\ UNCHANGED <<zset, state>>
               /\ expiring' = expiring \cup {t} /\ archived' = archived \cup {task[t].event}
<1>1. ASSUME Orphaned(t), state' = Written(t, "QUEUED"), UNCHANGED task,
             zset' = [zset EXCEPT ![task[t].prio] = Append(Without(@, t), t)]
      PROVE  /\ state' = [state EXCEPT ![t] = "QUEUED"] /\ Queue' = Queue \cup {t}
             /\ Levelled => Levelled'
  <2> DEFINE p == task[t].prio
  <2>1. /\ p \in Levels /\ zset \in ZSets
        /\ zset'[p] = Append(Without(zset[p], t), t)
        /\ \A q \in Levels \ {p} : zset'[q] = zset[q]
    BY <1>1, StoreShape DEF ZSets
  <2>2. task[t].prio = p
    OBVIOUS
  <2> HIDE DEF p
  <2>3. /\ QueueIn(zset') = QueueIn(zset) \cup {t}
        /\ \A T : LevelledIn(zset, T) /\ T[t].prio = p => LevelledIn(zset', T)
    BY <2>1, QueueAgain
  <2>4. LevelledIn(zset, task) => LevelledIn(zset', task)
    BY <2>2, <2>3
  <2>5. Levelled => Levelled'
    BY <1>1, <2>4 DEF Levelled
  <2>6. state' = [state EXCEPT ![t] = "QUEUED"]
    BY <1>1 DEF Orphaned, Written
  <2> QED BY <2>3, <2>5, <2>6 DEF Queue
<1> QED BY <1>1 DEF RecoverTask

\* The flush drops a task.
LEMMA FlushEffect ==
  ASSUME Base, NEW t \in Ids, FlushTask(t)
  PROVE  /\ phase = "flush" /\ state[t] \in {"QUEUED", "ASSIGNED", "RUNNING"}
         /\ state' = [state EXCEPT ![t] = "none"] /\ expiring' = expiring \ {t}
         /\ Queue \ {t} \subseteq Queue' /\ Queue' \subseteq Queue
         /\ Levelled => Levelled' /\ t \notin Queue'
         /\ archived' = archived \cup {task[t].event}
<1>1. zset \in ZSets /\ UNCHANGED task /\ \A p \in Levels : zset'[p] = Without(zset[p], t)
  BY StoreShape DEF FlushTask
<1>2. /\ QueueIn(zset) \ {t} \subseteq QueueIn(zset') /\ QueueIn(zset') \subseteq QueueIn(zset)
      /\ \A T : LevelledIn(zset, T) => LevelledIn(zset', T) /\ t \notin QueueIn(zset')
  BY <1>1, QueueDrop
<1>3. LevelledIn(zset, task) => LevelledIn(zset', task) /\ t \notin QueueIn(zset')
  BY <1>2
<1>4. Levelled => Levelled' /\ t \notin Queue'
  BY <1>1, <1>3 DEF Levelled, Queue
<1> QED BY <1>2, <1>4 DEF FlushTask, Queue

\* addToQueue of the drain.
LEMMA DrainAddEffect ==
  ASSUME Base, DrainAdd
  PROVE  /\ closing \in Ids /\ Queue' = Queue \cup {closing} /\ closing' = NoTask
         /\ UNCHANGED <<loop, dispatching, worker, expiring, post, state, task, used, phase>>
         /\ Levelled /\ closing \notin Queue => Levelled'
<1> DEFINE p == task[closing].prio
<1>1. closing \in Ids
  BY DEF DrainAdd, Base, TypeInv, RestartType, TaskOrNone
<1>2. /\ zset \in ZSets /\ p \in Levels /\ zset'[p] = Append(zset[p], closing)
      /\ \A q \in Levels \ {p} : zset'[q] = zset[q]
  <2>1. p \in Levels /\ zset \in ZSets
    BY <1>1, StoreShape
  <2> QED BY <2>1 DEF DrainAdd, ZSets
<1>3. task[closing].prio = p
  OBVIOUS
<1> HIDE DEF p
<1>4. /\ QueueIn(zset') = QueueIn(zset) \cup {closing}
      /\ \A T : LevelledIn(zset, T) /\ closing \notin QueueIn(zset) /\ T[closing].prio = p
                => LevelledIn(zset', T)
  BY <1>1, <1>2, QueuePush
<1>5. LevelledIn(zset, task) /\ closing \notin QueueIn(zset) => LevelledIn(zset', task)
  BY <1>3, <1>4
<1>6. UNCHANGED <<loop, dispatching, worker, expiring, post, state, task, used, phase>>
      /\ closing' = NoTask
  BY DEF DrainAdd
<1>7. Levelled /\ closing \notin Queue => Levelled'
  BY <1>5, <1>6 DEF Levelled, Queue
<1> QED BY <1>1, <1>4, <1>6, <1>7 DEF Queue

\* The process is gone.
LEMMA ExitEffect ==
  ASSUME Exit
  PROVE  /\ Popped' = {} /\ Fetched' = {} /\ Working' = {} /\ OneWorker'
         /\ dispatching' = FALSE /\ closing' = NoTask /\ phase' = "down"
         /\ \A t \in Ids : post'[t] = NoPost
         /\ UNCHANGED <<zset, state, task, used, expiring>>
<1>1. /\ loop' = [l \in Loops |-> IdleLoop] /\ worker' = [w \in Workers |-> NoTask]
      /\ post' = [t \in Ids |-> NoPost]
      /\ dispatching' = FALSE /\ closing' = NoTask /\ phase' = "down"
      /\ UNCHANGED <<zset, state, task, used, expiring>>
  BY DEF Exit
<1>2. Popped' = {} /\ Fetched' = {} /\ Working' = {} /\ OneWorker'
  BY <1>1, Bounds DEF Popped, Fetched, HandsIn, Working, OneWorker, IdleLoop
<1> QED BY <1>1, <1>2

-----------------------------------------------------------------------------
(* Ids are handed out in order and used once.                              *)

Places == Queue \cup Popped \cup Fetched \cup Working \cup expiring
taskVars == <<zset, loop, worker, post, state, task, used, closing, expiring>>

LEMMA PlacesKept ==
  (UNCHANGED zset => UNCHANGED Queue) /\ (UNCHANGED loop => UNCHANGED <<Popped, Fetched>>)
  /\ (UNCHANGED worker => UNCHANGED <<Working, OneWorker>>)
  /\ (UNCHANGED <<zset, task>> => UNCHANGED Levelled)
BY DEF Queue, Popped, Fetched, HandsIn, Working, OneWorker, Levelled

LEMMA FreshInit == Init => FreshInv
<1> SUFFICES ASSUME Init PROVE FreshInv
  OBVIOUS
<1>1. Popped = {} /\ Fetched = {} /\ Working = {} /\ closing = NoTask
  BY Bounds DEF Init, Popped, Fetched, HandsIn, IdleLoop, Working
<1>2. Queue = {}
  <2>1. ToSet(<<>>) = {}
    BY DEF ToSet
  <2> QED BY <2>1 DEF Init, Queue, QueueIn
<1> QED BY <1>1, <1>2, Bounds DEF Init, FreshInv, Nowhere

\* A step that fills no place but with ids known before, or with the next id.
LEMMA FreshKept ==
  ASSUME Base, FreshInv, used' = used \/ used' = used + 1,
         Places' \subseteq Places \cup {used', closing} \cup {t \in Ids : state[t] # "none"},
         closing' \in Working \cup {closing, NoTask},
         \A t \in Ids : t > used' /\ Nowhere(t) =>
                          state'[t] = state[t] /\ task'[t] = task[t] /\ post'[t] = post[t]
  PROVE  FreshInv'
<1> SUFFICES ASSUME NEW t \in Ids, t > used' PROVE Nowhere(t)'
  BY DEF FreshInv
<1>1. t > used /\ t # used' /\ t # NoTask
  BY StoreShape, Bounds
<1>2. Nowhere(t)
  BY <1>1 DEF FreshInv
<1>3. t \notin Places /\ t # closing /\ state[t] = "none"
  BY <1>2 DEF Nowhere, Places
<1>4. t \notin Places' /\ closing' # t
  BY <1>1, <1>3 DEF Places
<1> QED BY <1>2, <1>4 DEF Nowhere, Places

\* enqueue(), by whatever calls it.
LEMMA FreshEnqueue ==
  ASSUME Base, FreshInv, NEW e \in AnyEvent, NEW p \in Levels, NEW d \in Nat, NEW n \in Nat,
         Enqueue(e, p, d, n), Popped' \subseteq Popped, Fetched' \subseteq Fetched,
         UNCHANGED <<worker, closing, expiring>>,
         \A t \in Ids : t > used' /\ Nowhere(t) => post'[t] = post[t]
  PROVE  FreshInv'
<1>1. /\ used' = used + 1 /\ Queue' = Queue \cup {used'}
      /\ \A t \in Ids : t # used' => state'[t] = state[t] /\ task'[t] = task[t]
  <2>1. /\ used' = used + 1 /\ Queue' = Queue \cup {used + 1}
        /\ state' = [state EXCEPT ![used + 1] = "QUEUED"]
        /\ task' = [task EXCEPT ![used + 1] = [event |-> e, prio |-> p, dlqCount |-> d,
                                               tmoCount |-> n]]
    BY EnqueueEffect
  <2>2. DOMAIN state = Ids /\ DOMAIN task = Ids
    BY StoreShape
  <2> QED BY <2>1, <2>2
<1>2. UNCHANGED Working
  BY PlacesKept
<1>3. Places' \subseteq Places \cup {used', closing}
  BY <1>1, <1>2 DEF Places
<1>4. closing' \in Working \cup {closing, NoTask}
  OBVIOUS
<1>5. \A t \in Ids : t > used' /\ Nowhere(t) =>
                       state'[t] = state[t] /\ task'[t] = task[t] /\ post'[t] = post[t]
  <2>1. used' \in Nat
    BY <1>1, StoreShape
  <2>2. \A t \in Ids : t > used' => t # used'
    BY <2>1
  <2> QED BY <1>1, <2>2
<1> QED BY <1>1, <1>3, <1>4, <1>5, FreshKept

\* What the four callers of enqueue() pass on.
LEMMA EventEnqueues ==
  ASSUME Base, NEW e \in Events, EnqueueEvent(e)
  PROVE  e \in AnyEvent /\ PriorityOf[e] \in Levels /\ Enqueue(e, PriorityOf[e], 0, 0)
         /\ UNCHANGED <<Popped, Fetched>>
BY Bounds, DispatchHands DEF EnqueueEvent

LEMMA RetryEnqueues ==
  ASSUME Base, NEW t \in Ids, Retry(t)
  PROVE  /\ task[t].event \in AnyEvent /\ task[t].prio \in Levels /\ task[t].tmoCount + 1 \in Nat
         /\ Enqueue(task[t].event, task[t].prio, 0, task[t].tmoCount + 1)
<1>1. task[t] \in Tasks
  BY StoreShape
<1> QED BY <1>1 DEF Retry, Tasks

LEMMA SweepEnqueues ==
  ASSUME Base, NEW s \in Sweepers, SweepRetries(s)
  PROVE  \E e \in AnyEvent, p \in Levels, d \in Nat : Enqueue(e, p, d, 0)
<1> DEFINE x == Head(sweep[s].todo)
<1>1. x \in Entries
  BY SweepBusy DEF SweepRetries, Base, TypeInv
<1>2. x.event \in AnyEvent /\ x.prio \in Levels /\ x.count \in Nat /\ x.count + 1 \in Nat
      /\ 3 \in Levels
  BY <1>1 DEF Entries, Levels
<1> QED BY <1>2 DEF SweepRetries

\* The steps that touch neither a task nor the places: handleEvent before its
\* enqueue, a sweep's reads and writes of the list, the circuit breaker, a pause.
Aside(e, s, k) ==
  \/ Arrive(e) \/ FloodGuard(e) \/ SetCorrelation(e) \/ SetDedup(e) \/ ReadDepth(e)
  \/ HandlerError(e)
  \/ SweepGivesUp(s) \/ SweepSkips(s) \/ SweepArchives(s) \/ SweepEnd(s)
  \/ \E m \in SweepModes : SweepBegin(s, m)
  \/ CircuitAges(k)

LEMMA AsideEffect ==
  ASSUME NEW e, NEW s, NEW k, Aside(e, s, k) \/ Pause \/ UNCHANGED vars
  PROVE  UNCHANGED <<zset, dispatching, loop, worker, post, state, task, used, expiring,
                     processVars, sigterms>>
<1>1. CASE Arrive(e) \/ FloodGuard(e) \/ SetCorrelation(e) \/ SetDedup(e) \/ ReadDepth(e)
           \/ HandlerError(e)
  BY <1>1 DEF Arrive, FloodGuard, SetCorrelation, SetDedup, ReadDepth, HandlerError
<1>2. CASE SweepGivesUp(s) \/ SweepSkips(s) \/ SweepArchives(s) \/ SweepEnd(s)
           \/ \E m \in SweepModes : SweepBegin(s, m)
  BY <1>2 DEF SweepGivesUp, SweepSkips, SweepArchives, SweepEnd, SweepBegin
<1>3. CASE CircuitAges(k) \/ Pause \/ UNCHANGED vars
  BY <1>3 DEF CircuitAges, Pause, vars
<1> QED BY <1>1, <1>2, <1>3 DEF Aside

\* The step relation with those apart.
Moves ==
  \/ \E e \in Events : EnqueueEvent(e)
  \/ Poll \/ Sigterm \/ DrainAdd \/ Exit \/ RestartStep
  \/ \E l \in Loops : LoopStep(l) \/ LoopError(l)
  \/ \E w \in Workers : DrainMark(w) \/ \E r \in Outcomes : WorkerEnd(w, r)
  \/ \E t \in Ids : PostStep(t) \/ RecordError(t) \/ PushError(t) \/ HashExpires(t)
  \/ \E s \in Sweepers : SweepRetries(s)

LEMMA StepKinds ==
  ASSUME [Next]_vars
  PROVE  (\E e, s, k : Aside(e, s, k)) \/ Pause \/ UNCHANGED vars \/ Moves
BY DEF Next, HandlerStep, SweepStep, Aside, Moves

LEMMA FreshNext == ASSUME Base, FreshInv, [Next]_vars PROVE FreshInv'
<1>1. ASSUME UNCHANGED <<Queue, Popped, Fetched, Working, expiring, post, state, task, used,
                         closing>>
      PROVE  FreshInv'
  BY <1>1 DEF FreshInv, Nowhere
<1>2. ASSUME UNCHANGED <<zset, loop, worker, expiring, post, state, task, used, closing>>
      PROVE  FreshInv'
  BY <1>1, <1>2, PlacesKept
<1>3. ASSUME UNCHANGED <<zset, worker, expiring, state, task, used, closing>>,
             UNCHANGED <<Popped, Fetched>>,
             \A t \in Ids : Nowhere(t) => post'[t] = post[t]
      PROVE  FreshInv'
  BY <1>3, PlacesKept DEF FreshInv, Nowhere
<1>4. CASE (\E e, s, k : Aside(e, s, k)) \/ Pause \/ UNCHANGED vars
  BY <1>2, <1>4, AsideEffect
<1>5. ASSUME NEW e \in Events, EnqueueEvent(e) PROVE FreshInv'
  <2>1. UNCHANGED <<worker, post, closing, expiring>>
    BY <1>5 DEF EnqueueEvent
  <2>2. 0 \in Nat
    OBVIOUS
  <2> QED BY <1>5, <2>1, <2>2, EventEnqueues, FreshEnqueue
<1>6. CASE Poll
  BY <1>3, <1>6, DispatchHands DEF Poll
<1>7. CASE Sigterm
  BY <1>2, <1>7 DEF Sigterm
<1>8. CASE DrainAdd
  <2>1. /\ Queue' = Queue \cup {closing} /\ closing' = NoTask
        /\ UNCHANGED <<loop, worker, expiring, post, state, task, used>>
    BY <1>8, DrainAddEffect
  <2>2. Places' \subseteq Places \cup {used', closing}
    BY <2>1, PlacesKept DEF Places
  <2> QED BY <2>1, <2>2, FreshKept
<1>9. CASE Exit
  <2>1. Places' \subseteq Places
    BY <1>9, ExitEffect, PlacesKept DEF Places
  <2>2. \A t \in Ids : Nowhere(t) => post'[t] = post[t]
    BY <1>9, ExitEffect DEF Nowhere
  <2> QED BY <1>9, <2>1, <2>2, ExitEffect, FreshKept
<1>10. CASE RestartStep
  <2>1. CASE Start \/ RecoverEnd \/ FlushEnd
    BY <1>2, <2>1 DEF Start, RecoverEnd, FlushEnd
  <2>2. ASSUME NEW t \in Ids, RecoverTask(t) PROVE FreshInv'
    <3>1. UNCHANGED <<loop, worker, post, task, used, closing>>
      BY <2>2, RecoverEffect
    <3>2. CASE UNCHANGED <<zset, state, expiring>>
      BY <1>2, <3>1, <3>2
    <3>3. CASE ~UNCHANGED <<zset, state, expiring>>
      <4>1. /\ state[t] # "none" /\ expiring' \subseteq expiring \cup {t}
            /\ \A u \in Ids \ {t} : state'[u] = state[u]
            /\ UNCHANGED zset \/ Queue' = Queue \cup {t}
        BY <2>2, <3>3, RecoverEffect, StoreShape DEF Orphaned
      <4>2. Places' \subseteq Places \cup {u \in Ids : state[u] # "none"}
        BY <3>1, <4>1, PlacesKept DEF Places
      <4> QED BY <3>1, <4>1, <4>2, FreshKept DEF Nowhere
    <3> QED BY <3>2, <3>3
  <2>3. ASSUME NEW t \in Ids, FlushTask(t) PROVE FreshInv'
    <3>1. UNCHANGED <<loop, worker, post, task, used, closing>>
      BY <2>3 DEF FlushTask
    <3>2. /\ expiring' \subseteq expiring /\ state[t] # "none" /\ Queue' \subseteq Queue
          /\ \A u \in Ids \ {t} : state'[u] = state[u]
      BY <2>3, FlushEffect, StoreShape
    <3>3. Places' \subseteq Places
      BY <3>1, <3>2, PlacesKept DEF Places
    <3> QED BY <3>1, <3>2, <3>3, FreshKept DEF Nowhere
  <2> QED BY <1>10, <2>1, <2>2, <2>3 DEF RestartStep
<1>11. ASSUME NEW l \in Loops, LoopStep(l) \/ LoopError(l) PROVE FreshInv'
  <2>1. CASE Peek(l)
    <3>1. loop[l].pc = "peek" /\ (At(l, "pop", 0) \/ At(l, "promote", 0))
      BY <2>1 DEF Peek
    <3>2. Popped' = {} /\ Fetched' = {} /\ Popped = {} /\ Fetched = {}
      BY <3>1, AtHands, LoopBusy DEF HoldsTask
    <3> QED BY <1>3, <2>1, <3>2 DEF Peek
  <2>2. CASE Promote(l) \/ Pop(l)
    <3>1. Queue' \subseteq Queue /\ Popped' \subseteq Queue /\ Fetched' = {}
      BY <2>2, TakeEffect, PlacesKept
    <3>2. UNCHANGED <<worker, post, state, task, used, closing, expiring>>
      BY <2>2 DEF Promote, Pop
    <3>3. Places' \subseteq Places
      BY <3>1, <3>2, PlacesKept DEF Places
    <3> QED BY <3>2, <3>3, FreshKept
  <2>3. CASE Fetch(l)
    <3>1. PICK t \in Popped : /\ Popped' = {} /\ Fetched' \subseteq {t}
                              /\ \A u \in Ids \ {t} : state'[u] = state[u]
      BY <2>3, FetchEffect, StoreShape
    <3>2. UNCHANGED <<zset, worker, post, task, used, closing, expiring>>
      BY <2>3 DEF Fetch
    <3>3. Places' \subseteq Places
      BY <3>1, <3>2, PlacesKept DEF Places
    <3> QED BY <3>1, <3>2, <3>3, FreshKept DEF Nowhere
  <2>4. CASE Requeue(l)
    <3>1. PICK t \in Ids : /\ Popped' = {} /\ Fetched' = {}
                           /\ task[t].event \in AnyEvent /\ task[t].prio \in Levels
                           /\ Enqueue(task[t].event, task[t].prio, 0, 0)
      BY <2>4, RequeueEffect
    <3>2. UNCHANGED <<worker, post, closing, expiring>> /\ 0 \in Nat
      BY <2>4 DEF Requeue
    <3> QED BY <3>1, <3>2, FreshEnqueue
  <2>5. CASE Assign(l)
    <3>1. PICK t \in Fetched : /\ Popped' = {} /\ Fetched' = {} /\ Working' = Working \cup {t}
                               /\ \A u \in Ids \ {t} : state'[u] = state[u]
      BY <2>5, AssignEffect, StoreShape
    <3>2. UNCHANGED <<zset, post, task, used, closing, expiring>>
      BY <2>5 DEF Assign
    <3>3. Places' \subseteq Places
      BY <3>1, <3>2, PlacesKept DEF Places
    <3> QED BY <3>1, <3>2, <3>3, FreshKept DEF Nowhere
  <2>6. CASE LoopError(l)
    <3>1. UNCHANGED <<zset, worker, post, state, task, used, closing, expiring>>
          /\ loop[l].pc # "idle" /\ Break(l)
      BY <2>6 DEF LoopError
    <3>2. Popped' = {} /\ Fetched' = {}
      BY <3>1, BreakHands
    <3>3. Places' \subseteq Places
      BY <3>1, <3>2, PlacesKept DEF Places
    <3> QED BY <3>1, <3>3, FreshKept
  <2> QED BY <1>11, <2>1, <2>2, <2>3, <2>4, <2>5, <2>6 DEF LoopStep
<1>12. ASSUME NEW w \in Workers, DrainMark(w) \/ \E r \in Outcomes : WorkerEnd(w, r)
       PROVE  FreshInv'
  <2>1. CASE DrainMark(w)
    <3>1. UNCHANGED <<zset, loop, worker, post, task, used, expiring>> /\ closing' = worker[w]
          /\ worker[w] # NoTask /\ state' = Written(worker[w], "REQUEUED")
      BY <2>1 DEF DrainMark
    <3>2. worker[w] \in Working /\ \A u \in Ids \ Working : state'[u] = state[u]
      BY <3>1, StoreShape DEF Working, Written, TaskOrNone
    <3>3. Places' \subseteq Places
      BY <3>1, PlacesKept DEF Places
    <3> QED BY <3>1, <3>2, <3>3, FreshKept DEF Nowhere
  <2>2. ASSUME NEW r \in Outcomes, WorkerEnd(w, r) PROVE FreshInv'
    <3>1. PICK t \in Working : Working' \subseteq Working
                               /\ post' = [post EXCEPT ![t] = [pc |-> "record", result |-> r]]
      BY <2>2, EndEffect
    <3>2. UNCHANGED <<zset, loop, state, task, used, closing, expiring>>
      BY <2>2 DEF WorkerEnd
    <3>3. Places' \subseteq Places
      BY <3>1, <3>2, PlacesKept DEF Places
    <3> QED BY <3>1, <3>2, <3>3, StoreShape, FreshKept DEF Nowhere
  <2> QED BY <1>12, <2>1, <2>2
<1>13. ASSUME NEW t \in Ids, PostStep(t) \/ RecordError(t) \/ PushError(t) \/ HashExpires(t)
       PROVE  FreshInv'
  <2>1. ASSUME Record(t) \/ Trim(t) \/ RecordError(t) \/ PushError(t) \/ PushToDlq(t)
        PROVE  FreshInv'
    <3>1. /\ UNCHANGED <<zset, worker, task, used, closing, expiring>>
          /\ \A u \in Ids \ {t} : state'[u] = state[u] /\ post'[u] = post[u]
          /\ post[t] # NoPost
          /\ Dispatch(worker) \/ UNCHANGED loop
      BY <2>1, StoreShape DEF Record, Trim, RecordError, PushError, PushToDlq, Written, Leave,
                              NoPost
    <3>2. UNCHANGED <<Popped, Fetched>>
      BY <3>1, DispatchHands, PlacesKept
    <3>3. Places' \subseteq Places
      BY <3>1, <3>2, PlacesKept DEF Places
    <3> QED BY <3>1, <3>3, FreshKept DEF Nowhere
  <2>2. CASE Retry(t)
    <3>1. /\ UNCHANGED <<loop, worker, closing, expiring>> /\ 0 \in Nat
          /\ \A u \in Ids : Nowhere(u) => post'[u] = post[u]
      BY <2>2, StoreShape DEF Retry, Leave, Nowhere, NoPost
    <3>2. UNCHANGED <<Popped, Fetched>>
      BY <3>1, PlacesKept
    <3> QED BY <2>2, <3>1, <3>2, RetryEnqueues, FreshEnqueue
  <2>3. CASE HashExpires(t)
    <3>1. UNCHANGED <<zset, loop, worker, post, task, used, closing>> /\ expiring' \subseteq expiring
          /\ t \in expiring /\ \A u \in Ids \ {t} : state'[u] = state[u]
      BY <2>3, StoreShape DEF HashExpires
    <3>2. Places' \subseteq Places
      BY <3>1, PlacesKept DEF Places
    <3> QED BY <3>1, <3>2, FreshKept DEF Nowhere
  <2> QED BY <1>13, <2>1, <2>2, <2>3 DEF PostStep
<1>14. ASSUME NEW s \in Sweepers, SweepRetries(s) PROVE FreshInv'
  <2>1. UNCHANGED <<loop, worker, post, closing, expiring>> /\ 0 \in Nat
    BY <1>14 DEF SweepRetries
  <2>2. UNCHANGED <<Popped, Fetched>>
    BY <2>1, PlacesKept
  <2> QED BY <1>14, <2>1, <2>2, SweepEnqueues, FreshEnqueue
<1> QED BY <1>4, <1>5, <1>6, <1>7, <1>8, <1>9, <1>10, <1>11, <1>12, <1>13, <1>14, StepKinds
        DEF Moves

LEMMA FreshInvariant == Spec => [](Base /\ FreshInv)
<1>1. Init => Base /\ FreshInv
  BY BaseNext, FreshInit
<1>2. (Base /\ FreshInv) /\ [Next]_vars => (Base /\ FreshInv)'
  BY BaseNext, FreshNext
<1> QED BY <1>1, <1>2, PTL DEF Spec

-----------------------------------------------------------------------------
(* A task is in one place.                                                 *)

\* handleEvent is not called while cleanup runs: the only way a task gets into
\* the process before the polling starts.
NoEventsAtStartup == ~EventsAtStartup

Starting == phase \in {"down", "recover", "flush"}
StartupInv == Starting => \A e \in Events : handler[e] \in {"new", "done"}

\* Nothing of the previous process is left when the next one cleans up.
Quiet == /\ ~dispatching /\ closing = NoTask /\ Working = {}
         /\ \A t \in Ids : post[t].pc = "none"

\* A task is at once in a sorted set, or about to be added, and with a worker
\* or its post-processing: the drain of a SIGTERM does that to a running task.
Double(t) == (t \in Queue \/ closing = t) /\ (t \in Working \/ post[t].pc # "none")

Apart(t) ==
  /\ t \in Popped \cup Fetched => t \notin Working \cup Queue /\ post[t].pc = "none"
  /\ t \in Working => post[t].pc = "none"
  /\ Double(t) => /\ phase = "draining" /\ ~dispatching
                  /\ t \in Working => state[t] \in {"REQUEUED", "none"}

HoldInv ==
  /\ Levelled /\ OneWorker
  /\ Starting => Quiet
  /\ closing # NoTask => phase = "draining" /\ ~dispatching /\ closing \notin Queue
  /\ \A t \in Ids : Apart(t)

LEMMA StartupNext ==
  ASSUME NoEventsAtStartup, Base, StartupInv, [Next]_vars PROVE StartupInv'
<1>1. ASSUME UNCHANGED <<phase, handler>> PROVE StartupInv'
  BY <1>1 DEF StartupInv, Starting
<1>2. ASSUME NEW e \in Events, Arrive(e) \/ HandlerStep(e) \/ HandlerError(e)
      PROVE  StartupInv'
  <2>1. ~Starting
    BY <1>2 DEF NoEventsAtStartup, StartupInv, Starting, HandlerStep, Arrive, FloodGuard,
                SetCorrelation, SetDedup, ReadDepth, EnqueueEvent, HandlerError
  <2>2. UNCHANGED phase
    BY <1>2 DEF HandlerStep, Arrive, FloodGuard, SetCorrelation, SetDedup, ReadDepth,
                EnqueueEvent, HandlerError
  <2> QED BY <2>1, <2>2 DEF StartupInv, Starting
<1>3. CASE Poll \/ Pause \/ DrainAdd \/ UNCHANGED vars
  BY <1>1, <1>3 DEF Poll, Pause, DrainAdd, vars
<1>4. CASE Sigterm
  BY <1>4 DEF Sigterm, StartupInv, Starting
<1>5. CASE Exit
  <2>1. handler' = [e \in Events |-> IF handler[e] = "new" THEN "new" ELSE "done"]
    BY <1>5 DEF Exit
  <2> QED BY <2>1 DEF StartupInv
<1>6. CASE RestartStep
  <2>1. Starting /\ UNCHANGED handler
    BY <1>6 DEF RestartStep, Start, RecoverEnd, FlushEnd, RecoverTask, FlushTask, Starting
  <2> QED BY <2>1 DEF StartupInv
<1>7. ASSUME NEW l \in Loops, LoopStep(l) \/ LoopError(l) PROVE StartupInv'
  BY <1>1, <1>7 DEF LoopStep, Peek, Promote, Pop, Fetch, Requeue, Assign, LoopError
<1>8. ASSUME NEW w \in Workers, DrainMark(w) \/ \E r \in Outcomes : WorkerEnd(w, r)
      PROVE  StartupInv'
  BY <1>1, <1>8 DEF DrainMark, WorkerEnd
<1>9. ASSUME NEW t \in Ids, PostStep(t) \/ RecordError(t) \/ PushError(t) \/ HashExpires(t)
      PROVE  StartupInv'
  BY <1>1, <1>9 DEF PostStep, Record, Retry, PushToDlq, Trim, RecordError, PushError,
                    HashExpires
<1>10. CASE \E k \in Keys : CircuitAges(k)
  BY <1>1, <1>10 DEF CircuitAges
<1>11. ASSUME NEW s \in Sweepers, SweepStep(s) \/ \E m \in SweepModes : SweepBegin(s, m)
       PROVE  StartupInv'
  BY <1>1, <1>11 DEF SweepStep, SweepGivesUp, SweepSkips, SweepRetries, SweepArchives,
                     SweepEnd, SweepBegin
<1> QED BY <1>2, <1>3, <1>4, <1>5, <1>6, <1>7, <1>8, <1>9, <1>10, <1>11 DEF Next

\* enqueue() puts a fresh id into one place.
LEMMA HoldEnqueue ==
  ASSUME Base, FreshInv, HoldInv, Starting => UNCHANGED dispatching,
         NEW e \in AnyEvent, NEW p \in Levels, NEW d \in Nat, NEW n \in Nat,
         Enqueue(e, p, d, n), Popped' \subseteq Popped, Fetched' \subseteq Fetched,
         UNCHANGED <<worker, closing, phase>>,
         phase = "draining" /\ ~dispatching => ~dispatching',
         \A t \in Ids : post'[t].pc \in {post[t].pc, "none"}
  PROVE  HoldInv'
<1> DEFINE x == used + 1
<1>1. /\ x \in Ids /\ Queue' = Queue \cup {x} /\ Levelled'
      /\ \A t \in Ids \ {x} : state'[t] = state[t]
  BY EnqueueEffect, StoreShape DEF HoldInv
<1>2. Nowhere(x) /\ x # NoTask
  <2>1. x > used
    BY StoreShape
  <2> QED BY <1>1, <2>1, Bounds DEF FreshInv
<1> HIDE DEF x
<1>3. UNCHANGED <<Working, OneWorker>>
  BY PlacesKept
<1>4. ASSUME NEW t \in Ids PROVE Apart(t)'
  <2>1. CASE t = x
    BY <1>1, <1>2, <1>3, <2>1 DEF Nowhere, NoPost, Apart, Double
  <2>2. CASE t # x
    <3>1. /\ Apart(t) /\ (t \in Queue' <=> t \in Queue) /\ state'[t] = state[t]
          /\ post'[t].pc \in {post[t].pc, "none"} /\ UNCHANGED <<Working, phase, closing>>
          /\ t \in Popped' \cup Fetched' => t \in Popped \cup Fetched
      BY <1>1, <1>3, <2>2 DEF HoldInv
    <3> QED BY <3>1 DEF Apart, Double
  <2> QED BY <2>1, <2>2
<1>5. closing' # NoTask => phase' = "draining" /\ ~dispatching' /\ closing' \notin Queue'
  BY <1>1, <1>2 DEF HoldInv, Nowhere
<1>6. Starting' => Starting /\ Quiet'
  BY <1>3 DEF HoldInv, Starting, Quiet
<1> QED BY <1>1, <1>3, <1>4, <1>5, <1>6 DEF HoldInv

\* Nothing that the invariant is about moves.
LEMMA HoldSame ==
  ASSUME HoldInv, UNCHANGED <<zset, task, dispatching, Popped, Fetched, worker, post, state,
                              closing, phase>>
  PROVE  HoldInv'
<1>1. UNCHANGED <<Queue, Working, OneWorker, Levelled>>
  BY PlacesKept
<1>2. \A t \in Ids : Apart(t)' <=> Apart(t)
  BY <1>1 DEF Apart, Double
<1> QED BY <1>1, <1>2 DEF HoldInv, Starting, Quiet

LEMMA HoldInit == Init => HoldInv
<1> SUFFICES ASSUME Init PROVE HoldInv
  OBVIOUS
<1>1. Popped = {} /\ Fetched = {} /\ Working = {} /\ OneWorker /\ closing = NoTask
  BY Bounds DEF Init, Popped, Fetched, HandsIn, IdleLoop, Working, OneWorker
<1>2. Levelled
  <2>1. \A p \in Levels : zset[p] = <<>>
    BY DEF Init
  <2>2. ToSet(<<>>) = {} /\ IsInjective(<<>>)
    BY DEF ToSet, IsInjective
  <2> QED BY <2>1, <2>2 DEF Levelled, LevelledIn
<1>3. ~Starting /\ \A t \in Ids : post[t].pc = "none"
  BY DEF Init, Starting, NoPost
<1> QED BY <1>1, <1>2, <1>3 DEF HoldInv, Apart, Double

\* The dispatch loop: it moves while it holds the mutex, so no drain is at work.
LEMMA HoldLoop ==
  ASSUME Base, FreshInv, HoldInv, NEW l \in Loops, LoopStep(l) \/ LoopError(l)
  PROVE  HoldInv'
<1>1. dispatching /\ ~Starting
  <2>1. loop[l].pc # "idle"
    BY DEF LoopStep, LoopError, Peek, Promote, Pop, Fetch, Requeue, Assign
  <2>2. dispatching
    BY <2>1, LoopBusy
  <2> QED BY <2>2 DEF HoldInv, Quiet
<1>2. closing = NoTask /\ \A t \in Ids : ~Double(t)
  BY <1>1 DEF HoldInv, Apart
<1>3. UNCHANGED <<phase, closing>>
  BY DEF LoopStep, LoopError, Peek, Promote, Pop, Fetch, Requeue, Assign
<1>4. ASSUME Levelled', OneWorker', \A t \in Ids : Apart(t)' PROVE HoldInv'
  BY <1>1, <1>2, <1>3, <1>4 DEF HoldInv, Starting
<1>5. CASE Peek(l) \/ LoopError(l)
  <2>1. loop[l].pc # "idle" /\ UNCHANGED <<zset, worker, post, state, task>>
        /\ (Break(l) \/ At(l, "pop", 0) \/ At(l, "promote", 0))
    BY <1>5 DEF Peek, LoopError
  <2>2. Popped' = {} /\ Fetched' = {}
    BY <2>1, AtHands, BreakHands DEF HoldsTask
  <2>3. UNCHANGED <<Queue, Working, OneWorker, Levelled>>
    BY <2>1, PlacesKept
  <2> QED BY <1>2, <1>3, <1>4, <2>1, <2>2, <2>3 DEF HoldInv, Apart, Double
<1>6. CASE Promote(l) \/ Pop(l)
  <2>1. UNCHANGED <<worker, post, state, task>>
    BY <1>6 DEF Promote, Pop
  <2>2. UNCHANGED <<Working, OneWorker>>
    BY <2>1, PlacesKept
  <2>3. Fetched' = {}
    BY <1>6, TakeEffect
  <2>4. CASE UNCHANGED zset /\ Popped' = {}
    <3>1. UNCHANGED <<Queue, Levelled>>
      BY <2>1, <2>4, PlacesKept
    <3> QED BY <1>2, <1>3, <1>4, <2>1, <2>2, <2>3, <2>4, <3>1 DEF HoldInv, Apart, Double
  <2>5. CASE ~(UNCHANGED zset /\ Popped' = {})
    <3>1. PICK x \in Queue : /\ Popped' = {x} /\ Queue' \subseteq Queue
                             /\ Levelled' /\ x \notin Queue'
      BY <1>6, <2>5, TakeEffect DEF HoldInv
    <3>2. ASSUME NEW t \in Ids PROVE Apart(t)'
      <4>1. Apart(t) /\ ~Double(t)
        BY <1>2 DEF HoldInv
      <4> QED BY <1>2, <1>3, <2>1, <2>2, <2>3, <3>1, <4>1 DEF Apart, Double
    <3> QED BY <1>4, <2>2, <3>1, <3>2 DEF HoldInv
  <2> QED BY <2>4, <2>5
<1>7. CASE Fetch(l)
  <2>1. UNCHANGED <<zset, worker, post, task>>
    BY <1>7 DEF Fetch
  <2>2. UNCHANGED <<Queue, Working, OneWorker, Levelled>>
    BY <2>1, PlacesKept
  <2>3. PICK t \in Popped : Popped' = {} /\ Fetched' \subseteq {t}
    BY <1>7, FetchEffect
  <2> QED BY <1>2, <1>3, <1>4, <2>1, <2>2, <2>3 DEF HoldInv, Apart, Double
<1>8. CASE Requeue(l)
  <2>1. PICK t \in Ids : /\ Popped' = {} /\ Fetched' = {}
                         /\ task[t].event \in AnyEvent /\ task[t].prio \in Levels
                         /\ Enqueue(task[t].event, task[t].prio, 0, 0)
    BY <1>8, RequeueEffect
  <2>2. UNCHANGED <<worker, post, closing, phase>> /\ 0 \in Nat
    BY <1>8 DEF Requeue
  <2> QED BY <1>1, <2>1, <2>2, HoldEnqueue
<1>9. CASE Assign(l)
  <2>1. UNCHANGED <<zset, post, task>>
    BY <1>9 DEF Assign
  <2>2. UNCHANGED <<Queue, Levelled>>
    BY <2>1, PlacesKept
  <2>3. PICK t \in Fetched : /\ Popped' = {} /\ Fetched' = {} /\ Working' = Working \cup {t}
                             /\ OneWorker /\ t \notin Working => OneWorker'
    BY <1>9, AssignEffect
  <2>4. t \in Ids /\ t \notin Working \cup Queue /\ post[t].pc = "none"
    BY <2>3 DEF HoldInv, Apart, Fetched, HandsIn
  <2>5. ASSUME NEW u \in Ids PROVE Apart(u)'
    <3>1. Apart(u) /\ ~Double(u)
      BY <1>2 DEF HoldInv
    <3>2. closing' # u
      BY <1>2, <1>3, Bounds
    <3> QED BY <2>1, <2>2, <2>3, <2>4, <3>1, <3>2 DEF Apart, Double
  <2> QED BY <1>4, <2>2, <2>3, <2>4, <2>5 DEF HoldInv
<1> QED BY <1>5, <1>6, <1>7, <1>8, <1>9 DEF LoopStep

\* runWorker after execute().
LEMMA HoldPost ==
  ASSUME Base, FreshInv, HoldInv, NEW t \in Ids,
         PostStep(t) \/ RecordError(t) \/ PushError(t) \/ HashExpires(t)
  PROVE  HoldInv'
<1>1. ASSUME Record(t) \/ Trim(t) \/ RecordError(t) \/ PushError(t) \/ PushToDlq(t)
      PROVE  HoldInv'
  <2>1. /\ UNCHANGED <<zset, worker, task, closing, phase>>
        /\ \A u \in Ids \ {t} : state'[u] = state[u] /\ post'[u] = post[u]
        /\ post[t].pc # "none"
        /\ Dispatch(worker) \/ UNCHANGED loopVars
    BY <1>1, StoreShape DEF Record, Trim, RecordError, PushError, PushToDlq, Written, Leave
  <2>2. UNCHANGED <<Popped, Fetched>> /\ (~Running => UNCHANGED dispatching)
    BY <2>1, DispatchHands, PlacesKept
  <2>3. UNCHANGED <<Queue, Working, OneWorker, Levelled>>
    BY <2>1, PlacesKept
  <2>4. t \notin Popped \cup Fetched \cup Working /\ ~Starting
    BY <2>1 DEF HoldInv, Apart, Quiet
  <2>5. phase = "draining" => UNCHANGED dispatching
    BY <2>2 DEF Running
  <2>6. ASSUME NEW u \in Ids PROVE Apart(u)'
    <3>1. Apart(u)
      BY DEF HoldInv
    <3>2. CASE u = t
      BY <2>1, <2>2, <2>3, <2>4, <2>5, <3>1, <3>2 DEF Apart, Double
    <3>3. CASE u # t
      BY <2>1, <2>2, <2>3, <2>5, <3>1, <3>3 DEF Apart, Double
    <3> QED BY <3>2, <3>3
  <2> QED BY <2>1, <2>3, <2>4, <2>5, <2>6 DEF HoldInv, Starting
<1>2. CASE Retry(t)
  <2>1. /\ UNCHANGED <<loopVars, worker, closing, phase>> /\ 0 \in Nat /\ post[t].pc = "retry"
        /\ \A u \in Ids : post'[u].pc \in {post[u].pc, "none"}
    BY <1>2, StoreShape DEF Retry, Leave, NoPost
  <2>2. UNCHANGED <<Popped, Fetched>> /\ ~Starting
    BY <2>1, PlacesKept DEF HoldInv, Quiet
  <2> QED BY <1>2, <2>1, <2>2, RetryEnqueues, HoldEnqueue
<1>3. CASE HashExpires(t)
  <2>1. /\ UNCHANGED <<zset, loopVars, worker, post, task, closing, phase>>
        /\ \A u \in Ids : state'[u] = state[u] \/ state'[u] = "none"
    BY <1>3, StoreShape DEF HashExpires
  <2>2. UNCHANGED <<Queue, Popped, Fetched, Working, OneWorker, Levelled>>
    BY <2>1, PlacesKept
  <2>3. ASSUME NEW u \in Ids PROVE Apart(u)'
    BY <2>1, <2>2 DEF HoldInv, Apart, Double
  <2> QED BY <2>1, <2>2, <2>3 DEF HoldInv, Starting, Quiet
<1> QED BY <1>1, <1>2, <1>3 DEF PostStep

\* The workers: the drain marks one, or execute() returns.
LEMMA HoldWork ==
  ASSUME Base, HoldInv, NEW w \in Workers,
         DrainMark(w) \/ \E r \in Outcomes : WorkerEnd(w, r)
  PROVE  HoldInv'
<1>1. CASE DrainMark(w)
  <2> DEFINE t == worker[w]
  <2>1. /\ UNCHANGED <<zset, loopVars, worker, post, task, phase>> /\ phase = "draining"
        /\ closing' = t /\ t # NoTask /\ state[t] \notin {"REQUEUED", "none"}
        /\ \A l \in Loops : loop[l].pc = "idle"
        /\ state' = [state EXCEPT ![t] = "REQUEUED"]
    BY <1>1 DEF DrainMark, Written
  <2> HIDE DEF t
  <2>2. t \in Ids /\ t \in Working
    BY <2>1, StoreShape DEF t, Working, TaskOrNone
  <2>3. ~dispatching
    BY <2>1 DEF Base, LoopInv, MutexExact
  <2>4. t \notin Queue
    BY <2>1, <2>2 DEF HoldInv, Apart, Double
  <2>5. UNCHANGED <<Queue, Popped, Fetched, Working, OneWorker, Levelled>>
    BY <2>1, PlacesKept
  <2>6. state'[t] = "REQUEUED" /\ \A u \in Ids \ {t} : state'[u] = state[u]
    BY <2>1, <2>2, StoreShape
  <2>7. ASSUME NEW u \in Ids PROVE Apart(u)'
    <3>1. Apart(u)
      BY DEF HoldInv
    <3>2. CASE u = t
      BY <2>1, <2>2, <2>3, <2>5, <2>6, <3>1, <3>2 DEF Apart
    <3>3. CASE u # t
      BY <2>1, <2>3, <2>5, <2>6, <3>1, <3>3 DEF Apart, Double
    <3> QED BY <3>2, <3>3
  <2> QED BY <2>1, <2>3, <2>4, <2>5, <2>7 DEF HoldInv, Starting
<1>2. ASSUME NEW r \in Outcomes, WorkerEnd(w, r) PROVE HoldInv'
  <2>1. PICK t \in Working :
          /\ post' = [post EXCEPT ![t] = [pc |-> "record", result |-> r]]
          /\ Working' \subseteq Working /\ OneWorker' /\ t \notin Working'
    BY <1>2, EndEffect DEF HoldInv
  <2>2. UNCHANGED <<zset, loopVars, state, task, closing, phase>> /\ t \in Ids
    BY <1>2, <2>1 DEF WorkerEnd, Working
  <2>3. UNCHANGED <<Queue, Popped, Fetched, Levelled>>
    BY <2>2, PlacesKept
  <2>4. post'[t].pc = "record" /\ \A u \in Ids \ {t} : post'[u] = post[u]
    BY <2>1, <2>2, StoreShape
  <2>5. ~Starting
    BY <2>1 DEF HoldInv, Quiet
  <2>6. ASSUME NEW u \in Ids PROVE Apart(u)'
    <3>1. Apart(u)
      BY DEF HoldInv
    <3>2. CASE u = t
      BY <2>1, <2>2, <2>3, <2>4, <3>1, <3>2 DEF Apart, Double
    <3>3. CASE u # t
      BY <2>1, <2>2, <2>3, <2>4, <3>1, <3>3 DEF Apart, Double
    <3> QED BY <3>2, <3>3
  <2> QED BY <2>1, <2>2, <2>3, <2>5, <2>6 DEF HoldInv, Starting
<1> QED BY <1>1, <1>2

\* The end of the process and the cleanup of the next one.
LEMMA HoldRestart ==
  ASSUME Base, HoldInv, Sigterm \/ DrainAdd \/ Exit \/ RestartStep
  PROVE  HoldInv'
<1>1. CASE Sigterm
  <2>1. /\ UNCHANGED <<zset, loopVars, worker, post, state, task, closing>> /\ phase = "up"
        /\ phase' = "draining"
    BY <1>1 DEF Sigterm
  <2>2. UNCHANGED <<Queue, Popped, Fetched, Working, OneWorker, Levelled>>
    BY <2>1, PlacesKept
  <2>3. \A t \in Ids : Apart(t)'
    BY <2>1, <2>2 DEF HoldInv, Apart, Double
  <2> QED BY <2>1, <2>2, <2>3 DEF HoldInv, Starting
<1>2. CASE DrainAdd
  <2>1. /\ closing \in Ids /\ Queue' = Queue \cup {closing} /\ closing' = NoTask
        /\ UNCHANGED <<loop, dispatching, worker, post, state, task, phase>>
        /\ Levelled /\ closing \notin Queue => Levelled'
    BY <1>2, DrainAddEffect
  <2>2. UNCHANGED <<Popped, Fetched, Working, OneWorker>> /\ closing # NoTask
    BY <2>1, PlacesKept, Bounds
  <2>3. ~dispatching /\ ~Starting /\ Levelled'
    BY <2>1, <2>2 DEF HoldInv, Starting
  <2>4. Popped = {} /\ Fetched = {}
    BY <2>3, LoopsIdle
  <2>5. ASSUME NEW u \in Ids PROVE Apart(u)'
    <3>1. Apart(u) /\ (Double(u)' => Double(u)) /\ closing # NoTask
      BY <2>1, <2>2, Bounds DEF HoldInv, Double
    <3> QED BY <2>1, <2>2, <2>4, <3>1 DEF Apart
  <2> QED BY <2>1, <2>2, <2>3, <2>5 DEF HoldInv, Starting
<1>3. CASE Exit
  <2>1. Levelled'
    BY <1>3, ExitEffect, PlacesKept DEF HoldInv
  <2> QED BY <1>3, <2>1, ExitEffect DEF HoldInv, Apart, Double, Quiet, NoPost
<1>4. ASSUME Start \/ RecoverEnd \/ FlushEnd PROVE HoldInv'
  <2>1. UNCHANGED <<zset, loopVars, worker, post, state, task, closing>> /\ Starting
        /\ phase' # "draining"
    BY <1>4 DEF Start, RecoverEnd, FlushEnd, Starting
  <2>2. UNCHANGED <<Queue, Popped, Fetched, Working, OneWorker, Levelled>> /\ Quiet
    BY <2>1, PlacesKept DEF HoldInv
  <2>3. \A t \in Ids : Apart(t)'
    BY <2>1, <2>2 DEF HoldInv, Apart, Double, Quiet
  <2> QED BY <2>1, <2>2, <2>3 DEF HoldInv, Quiet
<1>5. ASSUME NEW t \in Ids, RecoverTask(t) \/ FlushTask(t) PROVE HoldInv'
  <2>1. UNCHANGED <<loopVars, worker, post, task, closing, phase>> /\ Starting
    BY <1>5 DEF RecoverTask, FlushTask, Starting
  <2>2. UNCHANGED <<Popped, Fetched, Working, OneWorker>> /\ Quiet
    BY <2>1, PlacesKept DEF HoldInv
  <2>3. Levelled'
    BY <1>5, RecoverEffect, FlushEffect, PlacesKept DEF HoldInv
  <2>4. Popped = {} /\ Fetched = {}
    BY <2>2, LoopsIdle DEF Quiet
  <2>5. \A u \in Ids : Apart(u)'
    BY <2>1, <2>2, <2>4, Bounds DEF Apart, Double, Quiet
  <2> QED BY <2>1, <2>2, <2>3, <2>5 DEF HoldInv, Quiet
<1> QED BY <1>1, <1>2, <1>3, <1>4, <1>5 DEF RestartStep

LEMMA HoldNext ==
  ASSUME Base, FreshInv, StartupInv, HoldInv, [Next]_vars PROVE HoldInv'
<1>1. CASE (\E e, s, k : Aside(e, s, k)) \/ Pause \/ UNCHANGED vars
  <2>1. UNCHANGED <<zset, dispatching, loop, worker, post, state, task, processVars>>
    BY <1>1, AsideEffect
  <2>2. UNCHANGED <<Popped, Fetched>>
    BY <2>1, PlacesKept
  <2> QED BY <2>1, <2>2, HoldSame
<1>2. ASSUME NEW e \in Events, EnqueueEvent(e) PROVE HoldInv'
  <2>1. /\ UNCHANGED <<worker, post, closing, phase>> /\ 0 \in Nat /\ Dispatch(worker)
        /\ handler[e] = "enqueue"
    BY <1>2 DEF EnqueueEvent
  <2>2. ~Starting
    BY <2>1 DEF StartupInv
  <2>3. phase = "draining" /\ ~dispatching => ~dispatching'
    BY <2>1, DispatchHands DEF Running
  <2> QED BY <1>2, <2>1, <2>2, <2>3, EventEnqueues, HoldEnqueue
<1>3. CASE Poll
  <2>1. /\ UNCHANGED <<zset, worker, post, state, task, closing, phase>> /\ phase = "up"
        /\ Dispatch(worker)
    BY <1>3 DEF Poll
  <2>2. UNCHANGED <<Queue, Popped, Fetched, Working, OneWorker, Levelled>>
    BY <2>1, DispatchHands, PlacesKept
  <2>3. \A t \in Ids : Apart(t)'
    BY <2>1, <2>2 DEF HoldInv, Apart, Double
  <2> QED BY <2>1, <2>2, <2>3 DEF HoldInv, Starting
<1>4. ASSUME NEW s \in Sweepers, SweepRetries(s) PROVE HoldInv'
  <2>1. UNCHANGED <<loopVars, worker, post, closing, phase>> /\ 0 \in Nat
    BY <1>4 DEF SweepRetries
  <2>2. UNCHANGED <<Popped, Fetched>>
    BY <2>1, PlacesKept
  <2> QED BY <1>4, <2>1, <2>2, SweepEnqueues, HoldEnqueue
<1> QED BY <1>1, <1>2, <1>3, <1>4, StepKinds, HoldLoop, HoldPost, HoldWork, HoldRestart
        DEF Moves

\* What all the invariants of this module rest on.
PlaceInv == Base /\ FreshInv /\ StartupInv /\ HoldInv

LEMMA PlaceInit == Init => PlaceInv
<1>1. Init => StartupInv
  BY DEF Init, StartupInv, Starting
<1> QED BY <1>1, BaseNext, FreshInit, HoldInit DEF PlaceInv

LEMMA PlaceNext == NoEventsAtStartup /\ PlaceInv /\ [Next]_vars => PlaceInv'
BY BaseNext, FreshNext, StartupNext, HoldNext DEF PlaceInv

LEMMA PlaceInvariant == NoEventsAtStartup /\ Spec => []PlaceInv
<1>1. CASE NoEventsAtStartup
  <2>1. PlaceInv /\ [Next]_vars => PlaceInv'
    BY <1>1, PlaceNext
  <2> QED BY PlaceInit, <2>1, PTL DEF Spec
<1> QED BY <1>1

LEMMA AtMostOne ==
  ASSUME NEW S, \A x, y \in S : x = y
  PROVE  Cardinality(S) \in {0, 1} /\ (Cardinality(S) = 1 <=> S # {})
<1>1. CASE S = {}
  BY <1>1, FS_EmptySet
<1>2. CASE S # {}
  <2>1. PICK x : S = {x}
    BY <1>2
  <2> QED BY <2>1, FS_Singleton
<1> QED BY <1>1, <1>2

\* As long as no event is handled while cleanup runs, and outside the drain of a
\* SIGTERM, no task is queued twice, handed to two workers, or queued and at work
\* at once, whatever fails, crashes, is retried or swept.
THEOREM NeverTwice == NoEventsAtStartup /\ Spec => []HeldOnce
<1>1. ASSUME PlaceInv PROVE HeldOnce
  <2> SUFFICES ASSUME phase # "draining", NEW t \in Ids PROVE Held(t) <= 1
    BY DEF HeldOnce
  <2> DEFINE A == {x \in Levels \X Ids : x[2] \in DOMAIN zset[x[1]] /\ zset[x[1]][x[2]] = t}
             B == {l \in Loops : loop[l].task = t}
             C == {w \in Workers : worker[w] = t}
  <2>1. Base /\ HoldInv /\ Apart(t) /\ ~Double(t) /\ t # NoTask
    BY <1>1, Bounds DEF PlaceInv, HoldInv, Apart
  <2>2. (\A x, y \in A : x = y) /\ (A # {} => t \in Queue)
    <3>1. ASSUME NEW x \in A
          PROVE  /\ x[1] \in Levels /\ t \in ToSet(zset[x[1]]) /\ x = <<x[1], x[2]>>
                 /\ task[t].prio = x[1] /\ IsInjective(zset[x[1]])
                 /\ x[2] \in DOMAIN zset[x[1]] /\ zset[x[1]][x[2]] = t
      BY <2>1 DEF HoldInv, Levelled, LevelledIn, ToSet
    <3>2. ASSUME NEW x \in A, NEW y \in A PROVE x = y
      <4>1. x[1] = y[1]
        BY <3>1
      <4>2. x[2] = y[2]
        BY <3>1, <4>1 DEF IsInjective
      <4> QED BY <3>1, <4>1, <4>2
    <3>3. A # {} => t \in Queue
      BY <3>1 DEF Queue, QueueIn
    <3> QED BY <3>2, <3>3
  <2>3. (\A l, m \in B : l = m) /\ (B # {} => t \in Popped \cup Fetched)
    <3>1. ASSUME NEW l \in B PROVE loop[l].pc \in HoldsTask
      BY <2>1 DEF Base, TypeInv, LoopType
    <3> QED BY <2>1, <3>1 DEF Base, LoopInv, MutexExact, HoldsTask, Popped, Fetched, HandsIn
  <2>4. (\A v, w \in C : v = w) /\ (C # {} => t \in Working)
    BY <2>1 DEF HoldInv, OneWorker, Working
  <2>5. Held(t) = Cardinality(A) + Cardinality(B) + Cardinality(C)
    BY DEF Held
  <2> HIDE DEF A, B, C
  <2>6. (A = {} /\ B = {}) \/ (A = {} /\ C = {}) \/ (B = {} /\ C = {})
    BY <2>1, <2>2, <2>3, <2>4 DEF Apart, Double
  <2>7. /\ Cardinality(A) \in {0, 1} /\ (Cardinality(A) = 1 <=> A # {})
        /\ Cardinality(B) \in {0, 1} /\ (Cardinality(B) = 1 <=> B # {})
        /\ Cardinality(C) \in {0, 1} /\ (Cardinality(C) = 1 <=> C # {})
    BY <2>2, <2>3, <2>4, AtMostOne
  <2> QED BY <2>5, <2>6, <2>7
<1>2. NoEventsAtStartup => (Spec => []PlaceInv)
  BY PlaceInvariant
<1>3. NoEventsAtStartup /\ Spec => []HeldOnce
  BY <1>1, <1>2, PTL
<1> QED BY <1>3

-----------------------------------------------------------------------------
(* A task's state says where it is.                                        *)

Terminal == {"COMPLETED", "FAILED", "TIMEOUT", "none"}

\* A task the recovery has passed is none that was running, but for those it
\* lets expire.
Recovered(t) == phase = "flush" \/ (phase = "recover" /\ t \notin scan)

StateOf(t) ==
  /\ state[t] # "REQUEUED"
  /\ t \in Queue => state[t] \in {"QUEUED", "none"}
  /\ t \in Popped => state[t] \in {"QUEUED", "none"}
  /\ t \in Fetched => state[t] \in {"ASSIGNED", "none"}
  /\ t \in Working => state[t] \in {"RUNNING", "none"}
  /\ post[t].pc = "record" => state[t] \in {"RUNNING", "none"}
  /\ post[t].pc \in {"retry", "push", "trim"} => state[t] \in Terminal
  /\ Recovered(t) /\ state[t] \in {"ASSIGNED", "RUNNING"} => t \in expiring

StateInv == sigterms = 0 => phase # "draining" /\ \A t \in Ids : StateOf(t)

\* A task whose state stays and that enters no place.
LEMMA StateFrame ==
  ASSUME Base, NEW t \in Ids, StateOf(t), state'[t] = state[t],
         t \in Queue' => t \in Queue, t \in Popped' => t \in Popped,
         t \in Fetched' => t \in Fetched, t \in Working' => t \in Working,
         post'[t].pc \in {post[t].pc, "none"} \/ (post[t].pc = "push" /\ post'[t].pc = "trim"),
         t \in expiring => t \in expiring',
         Recovered(t)' => \/ Recovered(t) \/ t \in expiring'
                          \/ state[t] \notin {"ASSIGNED", "RUNNING"}
  PROVE  StateOf(t)' /\ Follows(t)
<1>1. state[t] \in States
  BY StoreShape
<1>2. StateOf(t)'
  BY DEF StateOf
<1>3. Follows(t)
  BY <1>1 DEF Follows, States, StateOf
<1> QED BY <1>2, <1>3

\* enqueue(): the fresh id is QUEUED, the others stay.
LEMMA StateEnqueue ==
  ASSUME PlaceInv, \A t \in Ids : StateOf(t),
         NEW e \in AnyEvent, NEW p \in Levels, NEW d \in Nat, NEW n \in Nat,
         Enqueue(e, p, d, n), Popped' \subseteq Popped, Fetched' \subseteq Fetched,
         UNCHANGED <<worker, phase, scan, expiring>>,
         \A t \in Ids : post'[t].pc \in {post[t].pc, "none"},
         NEW t \in Ids
  PROVE  StateOf(t)' /\ Follows(t)
<1> DEFINE x == used + 1
<1>1. /\ x \in Ids /\ Queue' = Queue \cup {x} /\ x > used
      /\ state'[x] = "QUEUED" /\ \A u \in Ids \ {x} : state'[u] = state[u]
  <2>1. Base /\ used \in Nat /\ state \in [Ids -> States]
    BY StoreShape DEF PlaceInv
  <2>2. x \in Ids /\ Queue' = Queue \cup {x} /\ state' = [state EXCEPT ![x] = "QUEUED"]
    BY <2>1, EnqueueEffect
  <2>3. x > used
    BY ONLY <2>1
  <2> HIDE DEF x
  <2> QED BY <2>1, <2>2, <2>3
<1>2. Nowhere(x)
  BY <1>1 DEF PlaceInv, FreshInv
<1> HIDE DEF x
<1>3. UNCHANGED Working
  BY PlacesKept
<1>4. CASE t = x
  <2>1. post'[t].pc = "none" /\ t \notin Popped' \cup Fetched' \cup Working'
    BY <1>2, <1>3, <1>4 DEF Nowhere, NoPost
  <2>2. state[t] = "none" /\ state'[t] = "QUEUED"
    BY <1>1, <1>2, <1>4 DEF Nowhere
  <2> QED BY <2>1, <2>2 DEF StateOf, Follows
<1>5. CASE t # x
  BY <1>1, <1>3, <1>5, StateFrame DEF PlaceInv, Recovered
<1> QED BY <1>4, <1>5

\* The dispatch loop.
LEMMA StateLoop ==
  ASSUME PlaceInv, \A t \in Ids : StateOf(t), phase # "draining",
         NEW l \in Loops, LoopStep(l) \/ LoopError(l), NEW u \in Ids
  PROVE  StateOf(u)' /\ Follows(u)
<1>1. UNCHANGED <<phase, scan, expiring, post>> /\ dispatching /\ Base
  <2>1. loop[l].pc # "idle" /\ UNCHANGED <<phase, scan, expiring, post>>
    BY DEF LoopStep, LoopError, Peek, Promote, Pop, Fetch, Requeue, Assign
  <2> QED BY <2>1, LoopBusy DEF PlaceInv
<1>2. StateOf(u) /\ Apart(u) /\ ~Double(u) /\ ~Recovered(u) /\ ~Recovered(u)'
  BY <1>1 DEF PlaceInv, HoldInv, Apart, Starting, Quiet, Recovered
<1>3. CASE Peek(l) \/ LoopError(l)
  <2>1. loop[l].pc # "idle" /\ UNCHANGED <<zset, worker, state>>
        /\ (Break(l) \/ At(l, "pop", 0) \/ At(l, "promote", 0))
    BY <1>3 DEF Peek, LoopError
  <2>2. Popped' = {} /\ Fetched' = {} /\ UNCHANGED <<Queue, Working>>
    BY <1>1, <2>1, AtHands, BreakHands, PlacesKept DEF HoldsTask
  <2> QED BY <1>1, <1>2, <2>1, <2>2, StateFrame
<1>4. CASE Promote(l) \/ Pop(l)
  <2>1. UNCHANGED <<worker, state, Working>> /\ Fetched' = {}
    BY <1>1, <1>4, TakeEffect, PlacesKept DEF Promote, Pop
  <2>2. CASE UNCHANGED zset /\ Popped' = {}
    BY <1>1, <1>2, <2>1, <2>2, PlacesKept, StateFrame
  <2>3. CASE ~(UNCHANGED zset /\ Popped' = {})
    <3>1. PICK x \in Queue : Popped' = {x} /\ Queue' \subseteq Queue /\ x \notin Queue'
      BY <1>1, <1>4, <2>3, TakeEffect DEF PlaceInv, HoldInv
    <3>2. CASE u = x
      <4>1. state[u] \in {"QUEUED", "none"} /\ u \notin Working /\ post[u].pc = "none"
        BY <1>2, <3>1, <3>2 DEF StateOf, Double
      <4> QED BY <1>1, <1>2, <2>1, <3>1, <3>2, <4>1 DEF StateOf, Follows
    <3>3. CASE u # x
      BY <1>1, <1>2, <2>1, <3>1, <3>3, StateFrame
    <3> QED BY <3>2, <3>3
  <2> QED BY <2>2, <2>3
<1>5. CASE Fetch(l)
  <2>1. UNCHANGED <<zset, worker, Queue, Working>>
    BY <1>5, PlacesKept DEF Fetch
  <2>2. PICK t \in Ids :
           /\ Popped = {t} /\ Popped' = {}
           /\ \/ /\ state[t] # "none" /\ Fetched' = {t}
                 /\ state' = [state EXCEPT ![t] = "ASSIGNED"]
              \/ state[t] = "none" /\ Fetched' = {} /\ UNCHANGED state
    BY <1>1, <1>5, FetchEffect
  <2>3. CASE u = t /\ Fetched' = {t}
    <3>1. state[u] = "QUEUED" /\ state'[u] = "ASSIGNED"
      BY <1>1, <1>2, <2>2, <2>3, StoreShape DEF StateOf
    <3>2. u \notin Queue \cup Working /\ post[u].pc = "none"
      BY <1>2, <2>2, <2>3 DEF Apart
    <3> QED BY <1>1, <1>2, <2>1, <2>2, <2>3, <3>1, <3>2 DEF StateOf, Follows
  <2>4. CASE ~(u = t /\ Fetched' = {t})
    <3>1. state'[u] = state[u] /\ u \notin Fetched' /\ u \notin Popped'
      BY <1>1, <2>2, <2>4, StoreShape
    <3> QED BY <1>1, <1>2, <2>1, <3>1, StateFrame
  <2> QED BY <2>3, <2>4
<1>6. CASE Requeue(l)
  <2>1. PICK t \in Ids : /\ Popped' = {} /\ Fetched' = {}
                         /\ task[t].event \in AnyEvent /\ task[t].prio \in Levels
                         /\ Enqueue(task[t].event, task[t].prio, 0, 0)
    BY <1>1, <1>6, RequeueEffect
  <2>2. UNCHANGED worker /\ 0 \in Nat
    BY <1>6 DEF Requeue
  <2> QED BY <1>1, <2>1, <2>2, StateEnqueue
<1>7. CASE Assign(l)
  <2>1. PICK t \in Fetched : /\ Popped' = {} /\ Fetched' = {} /\ Working' = Working \cup {t}
                             /\ state' = [state EXCEPT ![t] = IF @ = "none" THEN @ ELSE "RUNNING"]
    BY <1>1, <1>7, AssignEffect
  <2>2. UNCHANGED Queue /\ t \in Ids
    BY <1>7, <2>1, PlacesKept DEF Assign, Fetched, HandsIn
  <2>3. CASE u = t
    <3>1. state[u] \in {"ASSIGNED", "none"} /\ u \notin Queue /\ post[u].pc = "none"
      BY <1>2, <2>1, <2>3 DEF StateOf, Apart
    <3>2. state'[u] = IF state[u] = "none" THEN "none" ELSE "RUNNING"
      BY <1>1, <2>1, <2>2, <2>3, StoreShape
    <3> QED BY <1>1, <1>2, <2>1, <2>2, <3>1, <3>2 DEF StateOf, Follows
  <2>4. CASE u # t
    <3>1. state'[u] = state[u]
      BY <1>1, <2>1, <2>4, StoreShape
    <3> QED BY <1>1, <1>2, <2>1, <2>2, <2>4, <3>1, StateFrame
  <2> QED BY <2>3, <2>4
<1> QED BY <1>3, <1>4, <1>5, <1>6, <1>7 DEF LoopStep

\* What runWorker after execute() does to its task.
PostMoves(t) ==
  \/ /\ post[t].pc = "record" /\ post'[t].pc \in {"none", "retry", "push"}
     /\ state'[t] \in Terminal /\ (state'[t] = "none" <=> state[t] = "none")
  \/ /\ post[t].pc \in {"record", "retry"} /\ post'[t].pc = "none"
     /\ state'[t] = state[t] \/ (state[t] # "none" /\ state'[t] = "FAILED")
  \/ post[t].pc = "push" /\ post'[t].pc \in {"trim", "none"} /\ state'[t] = state[t]
  \/ post[t].pc = "trim" /\ post'[t].pc = "none" /\ state'[t] = state[t]

LEMMA PostEffect ==
  ASSUME Base, NEW t \in Ids,
         Record(t) \/ Trim(t) \/ RecordError(t) \/ PushError(t) \/ PushToDlq(t)
  PROVE  /\ UNCHANGED <<zset, task, worker, used, closing, phase, scan, expiring, handler>>
         /\ UNCHANGED <<Queue, Popped, Fetched, Working>>
         /\ \A u \in Ids \ {t} : state'[u] = state[u] /\ post'[u] = post[u]
         /\ PostMoves(t)
<1>0. state \in [Ids -> States] /\ post \in [Ids -> PostTypes] /\ t \in Ids
  BY StoreShape
<1>1. UNCHANGED <<zset, task, worker, used, closing, phase, scan, expiring, handler>>
  BY DEF Record, Trim, RecordError, PushError, PushToDlq
<1>2. Dispatch(worker) \/ UNCHANGED loopVars
  BY DEF Record, Trim, RecordError, PushError, PushToDlq
<1>3. \A u \in Ids \ {t} : state'[u] = state[u] /\ post'[u] = post[u]
  BY <1>0 DEF Record, Trim, RecordError, PushError, PushToDlq, Written, Leave
<1>4. UNCHANGED <<Queue, Popped, Fetched, Working>>
  BY <1>1, <1>2, DispatchHands, PlacesKept
<1>5. ASSUME Record(t) PROVE PostMoves(t)
  <2>1. post[t].pc = "record"
        /\ state'[t] = IF state[t] = "none" THEN "none" ELSE post[t].result
    BY <1>0, <1>5 DEF Record, Written
  <2>2. post[t].result \in {"COMPLETED", "FAILED", "TIMEOUT"}
        /\ post'[t].pc \in {"none", "retry", "push"}
    BY <1>0, <1>5 DEF Record, Leave, NoPost, PostTypes
  <2> QED BY <2>1, <2>2 DEF PostMoves, Terminal
<1>6. ASSUME RecordError(t) PROVE PostMoves(t)
  <2>1. post[t].pc \in {"record", "retry"} /\ post'[t].pc = "none"
        /\ (state'[t] = state[t] \/ state' = Written(t, "FAILED"))
    BY <1>0, <1>6 DEF RecordError, Leave, NoPost
  <2>2. state'[t] = state[t] \/ (state[t] # "none" /\ state'[t] = "FAILED")
    BY <1>0, <2>1 DEF Written
  <2> QED BY <2>1, <2>2 DEF PostMoves
<1>7. ASSUME PushError(t) \/ PushToDlq(t) \/ Trim(t) PROVE PostMoves(t)
  <2>1. \/ post[t].pc = "push" /\ post'[t].pc \in {"trim", "none"}
        \/ post[t].pc = "trim" /\ post'[t].pc = "none"
    <3>1. CASE PushError(t) \/ Trim(t)
      BY <1>0, <3>1 DEF PushError, Trim, Leave, NoPost
    <3>2. CASE PushToDlq(t)
      BY <1>0, <3>2 DEF PushToDlq, PostTypes
    <3> QED BY <1>7, <3>1, <3>2
  <2>2. UNCHANGED state
    BY <1>7 DEF PushError, PushToDlq, Trim
  <2> QED BY <2>1, <2>2 DEF PostMoves
<1> QED BY <1>1, <1>3, <1>4, <1>5, <1>6, <1>7

LEMMA StatePost ==
  ASSUME PlaceInv, \A u \in Ids : StateOf(u), phase # "draining", NEW t \in Ids,
         PostStep(t) \/ RecordError(t) \/ PushError(t) \/ HashExpires(t), NEW u \in Ids
  PROVE  StateOf(u)' /\ Follows(u)
<1>0. Base /\ StateOf(u) /\ Apart(u) /\ ~Double(u) /\ state[u] \in States
  BY StoreShape DEF PlaceInv, HoldInv, Apart
<1>1. ASSUME Record(t) \/ Trim(t) \/ RecordError(t) \/ PushError(t) \/ PushToDlq(t)
      PROVE  StateOf(u)' /\ Follows(u)
  <2>1. /\ UNCHANGED <<phase, scan, expiring, Queue, Popped, Fetched, Working>>
        /\ \A v \in Ids \ {t} : state'[v] = state[v] /\ post'[v] = post[v]
        /\ PostMoves(t)
    BY <1>0, <1>1, PostEffect
  <2>2. Recovered(u)' = Recovered(u)
    BY <2>1 DEF Recovered
  <2>3. CASE u # t
    BY <1>0, <2>1, <2>2, <2>3, StateFrame
  <2>4. CASE u = t
    <3>1. u \notin Queue \cup Popped \cup Fetched \cup Working
      BY <1>0, <2>1, <2>4 DEF PostMoves, Apart, Double
    <3>2. PostMoves(u)
      BY <2>1, <2>4
    <3>3. post'[u].pc = "record" => FALSE
      BY <3>2 DEF PostMoves
    <3>4. Follows(u)
      BY <1>0, <3>2 DEF StateOf, Follows, PostMoves, Terminal, States
    <3>5. /\ state'[u] # "REQUEUED"
          /\ post'[u].pc \in {"retry", "push", "trim"} => state'[u] \in Terminal
          /\ state'[u] \in {"ASSIGNED", "RUNNING"} => state[u] = state'[u]
      BY <1>0, <3>2 DEF StateOf, PostMoves, Terminal
    <3>6. StateOf(u)'
      BY <1>0, <2>1, <2>2, <3>1, <3>3, <3>5 DEF StateOf
    <3> QED BY <3>4, <3>6
  <2> QED BY <2>3, <2>4
<1>2. CASE Retry(t)
  <2>1. /\ UNCHANGED <<loopVars, worker, phase, scan, expiring>> /\ 0 \in Nat
        /\ \A v \in Ids : post'[v].pc \in {post[v].pc, "none"}
    BY <1>0, <1>2, StoreShape DEF Retry, Leave, NoPost
  <2>2. UNCHANGED <<Popped, Fetched>>
    BY <2>1, PlacesKept
  <2> QED BY <1>0, <1>2, <2>1, <2>2, RetryEnqueues, StateEnqueue
<1>3. CASE HashExpires(t)
  <2>1. /\ UNCHANGED <<zset, loopVars, worker, post, phase, scan>>
        /\ t \in expiring /\ expiring' = expiring \ {t}
        /\ state' = [state EXCEPT ![t] = "none"]
    BY <1>3 DEF HashExpires
  <2>2. UNCHANGED <<Queue, Popped, Fetched, Working>> /\ Recovered(u)' = Recovered(u)
    BY <2>1, PlacesKept DEF Recovered
  <2>3. CASE u = t
    <3>1. state'[u] = "none" /\ u \in expiring
      BY <1>0, <2>1, <2>3, StoreShape
    <3> QED BY <1>0, <2>1, <2>2, <3>1 DEF StateOf, Follows, Terminal, States
  <2>4. CASE u # t
    <3>1. state'[u] = state[u] /\ (u \in expiring => u \in expiring')
      BY <1>0, <2>1, <2>4, StoreShape
    <3> QED BY <1>0, <2>1, <2>2, <3>1, StateFrame
  <2> QED BY <2>3, <2>4
<1> QED BY <1>1, <1>2, <1>3 DEF PostStep

\* execute() returns; no drain is at work.
LEMMA StateWork ==
  ASSUME PlaceInv, \A u \in Ids : StateOf(u), phase # "draining", NEW w \in Workers,
         DrainMark(w) \/ \E r \in Outcomes : WorkerEnd(w, r), NEW u \in Ids
  PROVE  StateOf(u)' /\ Follows(u)
<1>0. Base /\ StateOf(u) /\ ~DrainMark(w)
  BY DEF PlaceInv, DrainMark
<1>1. PICK r \in Outcomes : WorkerEnd(w, r)
  BY <1>0
<1>2. PICK t \in Working :
        /\ post' = [post EXCEPT ![t] = [pc |-> "record", result |-> r]]
        /\ Working' \subseteq Working /\ t \notin Working'
  BY <1>0, <1>1, EndEffect DEF PlaceInv, HoldInv
<1>3. UNCHANGED <<zset, loop, state, phase, scan, expiring>> /\ t \in Ids
  BY <1>1 DEF WorkerEnd, Working
<1>4. UNCHANGED <<Queue, Popped, Fetched>> /\ Recovered(u)' = Recovered(u)
  BY <1>3, PlacesKept DEF Recovered
<1>5. CASE u = t
  <2>1. state'[u] = state[u] /\ state[u] \in {"RUNNING", "none"} /\ post'[u].pc = "record"
    BY <1>0, <1>2, <1>3, <1>5, StoreShape DEF StateOf
  <2> QED BY <1>0, <1>2, <1>3, <1>4, <1>5, <2>1 DEF StateOf, Follows
<1>6. CASE u # t
  <2>1. state'[u] = state[u] /\ post'[u].pc = post[u].pc
    BY <1>0, <1>2, <1>3, <1>6, StoreShape
  <2> QED BY <1>0, <1>2, <1>3, <1>4, <2>1, StateFrame
<1> QED BY <1>5, <1>6

\* The end of the process and the cleanup of the next one.
LEMMA StateRestart ==
  ASSUME PlaceInv, \A u \in Ids : StateOf(u), phase # "draining", Exit \/ RestartStep,
         NEW u \in Ids
  PROVE  StateOf(u)' /\ Follows(u)
<1>0. Base /\ StateOf(u) /\ state[u] \in States
  BY StoreShape DEF PlaceInv
<1>1. CASE Exit
  <2>1. /\ Popped' = {} /\ Fetched' = {} /\ Working' = {} /\ phase' = "down"
        /\ post'[u].pc = "none" /\ UNCHANGED <<zset, state, expiring>>
    BY <1>1, ExitEffect DEF NoPost
  <2>2. UNCHANGED Queue /\ ~Recovered(u)'
    BY <2>1, PlacesKept DEF Recovered
  <2> QED BY <1>0, <2>1, <2>2, StateFrame
<1>2. CASE Start \/ RecoverEnd \/ FlushEnd
  <2>1. UNCHANGED <<zset, loop, worker, post, state, expiring>>
    BY <1>2 DEF Start, RecoverEnd, FlushEnd
  <2>2. UNCHANGED <<Queue, Popped, Fetched, Working>>
    BY <2>1, PlacesKept
  <2>3. Recovered(u)' => Recovered(u) \/ state[u] = "none"
    BY <1>2 DEF Recovered, Start, RecoverEnd, FlushEnd
  <2> QED BY <1>0, <2>1, <2>2, <2>3, StateFrame
<1>3. ASSUME NEW t \in Ids, RecoverTask(t) \/ FlushTask(t) PROVE StateOf(u)' /\ Follows(u)
  <2>1. UNCHANGED <<loopVars, worker, post, phase>> /\ phase \in {"recover", "flush"}
    BY <1>3 DEF RecoverTask, FlushTask
  <2>2. Quiet /\ UNCHANGED <<Popped, Fetched, Working>>
    BY <2>1, PlacesKept DEF PlaceInv, HoldInv, Starting
  <2>3. Popped' = {} /\ Fetched' = {} /\ Working' = {} /\ post'[u].pc = "none"
    BY <1>0, <2>1, <2>2, LoopsIdle DEF Quiet
  <2>4. CASE RecoverTask(t)
    <3>1. \/ /\ Orphaned(t) /\ state' = [state EXCEPT ![t] = "QUEUED"]
             /\ Queue' = Queue \cup {t} /\ UNCHANGED expiring
          \/ ~Orphaned(t) /\ UNCHANGED <<Queue, state, expiring>>
          \/ UNCHANGED <<Queue, state>> /\ expiring' = expiring \cup {t}
      BY <1>0, <2>4, RecoverEffect, PlacesKept
    <3>2. phase = "recover" /\ scan' = scan \ {t}
      BY <1>0, <2>4, RecoverEffect
    <3>3. CASE u = t /\ Orphaned(t) /\ state' = [state EXCEPT ![t] = "QUEUED"]
      <4>1. state'[u] = "QUEUED" /\ state[u] \in {"QUEUED", "ASSIGNED", "RUNNING"}
        BY <1>0, <3>3, StoreShape DEF Orphaned
      <4> QED BY <2>3, <4>1 DEF StateOf, Follows
    <3>4. CASE u = t /\ UNCHANGED <<Queue, state>>
      <4>1. t \in expiring' \/ state[u] \notin {"ASSIGNED", "RUNNING"}
        BY <1>0, <3>1, <3>4, StoreShape DEF Orphaned
      <4>2. u \in expiring => u \in expiring'
        BY <3>1, <3>4
      <4> QED BY <1>0, <2>1, <2>2, <3>4, <4>1, <4>2, StateFrame
    <3>5. CASE u # t
      <4>1. /\ state'[u] = state[u] /\ (u \in expiring => u \in expiring')
            /\ u \in Queue' => u \in Queue
        BY <1>0, <3>1, <3>5, StoreShape
      <4>2. Recovered(u)' => Recovered(u)
        BY <2>1, <3>2, <3>5 DEF Recovered
      <4> QED BY <1>0, <2>1, <2>2, <4>1, <4>2, StateFrame
    <3> QED BY <3>1, <3>3, <3>4, <3>5
  <2>5. CASE FlushTask(t)
    <3>1. /\ phase = "flush" /\ state' = [state EXCEPT ![t] = "none"]
          /\ expiring' = expiring \ {t} /\ Queue' \subseteq Queue
          /\ state[t] \in {"QUEUED", "ASSIGNED", "RUNNING"}
      BY <1>0, <2>5, FlushEffect
    <3>2. CASE u = t
      <4>1. state'[u] = "none" /\ state[u] \in {"QUEUED", "ASSIGNED", "RUNNING"}
        BY <1>0, <3>1, <3>2, StoreShape
      <4>2. state[u] \in {"ASSIGNED", "RUNNING"} => u \in expiring
        BY <1>0, <3>1 DEF StateOf, Recovered
      <4> QED BY <2>3, <4>1, <4>2 DEF StateOf, Follows
    <3>3. CASE u # t
      <4>1. state'[u] = state[u] /\ (u \in expiring => u \in expiring') /\ Recovered(u)
        BY <1>0, <3>1, <3>3, StoreShape DEF Recovered
      <4> QED BY <1>0, <2>1, <2>2, <3>1, <4>1, StateFrame
    <3> QED BY <3>2, <3>3
  <2> QED BY <1>3, <2>4, <2>5
<1> QED BY <1>1, <1>2, <1>3 DEF RestartStep

\* StateInv is inductive, and under it every step follows the lifecycle.
LEMMA StateNext ==
  ASSUME PlaceInv, StateInv, [Next]_vars
  PROVE  StateInv' /\ (sigterms = 0 => \A t \in Ids : Follows(t))
<1>1. sigterms' = 0 => sigterms = 0 /\ ~Sigterm
  <2>1. sigterms \in Nat /\ (sigterms' = sigterms \/ sigterms' = sigterms + 1)
    BY CountSteps DEF Counts, Counted, PlaceInv, Base, TypeInv, CountType
  <2>2. Sigterm => sigterms' = sigterms + 1
    BY DEF Sigterm
  <2> QED BY ONLY <2>1, <2>2
<1>2. SUFFICES ASSUME sigterms = 0, phase # "draining", \A t \in Ids : StateOf(t)
               PROVE  (\A t \in Ids : Follows(t))
                      /\ (~Sigterm => phase' # "draining" /\ \A t \in Ids : StateOf(t)')
  BY <1>1 DEF StateInv
<1>3. Base /\ \A t \in Ids : state[t] \in States
  BY StoreShape DEF PlaceInv
<1>4. ASSUME UNCHANGED <<zset, loop, worker, post, state, phase, scan, expiring>>
             \/ (UNCHANGED <<zset, worker, post, state, phase, scan, expiring>>
                 /\ Dispatch(worker))
      PROVE  phase' # "draining" /\ \A t \in Ids : StateOf(t)' /\ Follows(t)
  <2>1. UNCHANGED <<Queue, Popped, Fetched, Working>>
    BY <1>3, <1>4, DispatchHands, PlacesKept
  <2>2. \A t \in Ids : Recovered(t)' = Recovered(t)
    BY <1>4 DEF Recovered
  <2> QED BY <1>2, <1>3, <1>4, <2>1, <2>2, StateFrame
<1>5. CASE (\E e, s, k : Aside(e, s, k)) \/ Pause \/ UNCHANGED vars
  <2>1. UNCHANGED <<zset, loop, worker, post, state, expiring, processVars>>
    BY <1>5, AsideEffect
  <2> QED BY <1>4, <2>1
<1>6. CASE Poll
  BY <1>4, <1>6 DEF Poll
<1>7. ASSUME NEW e \in Events, EnqueueEvent(e)
      PROVE  phase' # "draining" /\ \A t \in Ids : StateOf(t)' /\ Follows(t)
  <2>1. UNCHANGED <<worker, post, phase, scan, expiring>> /\ 0 \in Nat
    BY <1>7 DEF EnqueueEvent
  <2>2. /\ e \in AnyEvent /\ PriorityOf[e] \in Levels /\ Enqueue(e, PriorityOf[e], 0, 0)
        /\ UNCHANGED <<Popped, Fetched>>
    BY <1>3, <1>7, EventEnqueues
  <2> QED BY <1>2, <2>1, <2>2, StateEnqueue
<1>8. ASSUME NEW s \in Sweepers, SweepRetries(s)
      PROVE  phase' # "draining" /\ \A t \in Ids : StateOf(t)' /\ Follows(t)
  <2>1. UNCHANGED <<loop, worker, post, phase, scan, expiring>> /\ 0 \in Nat
    BY <1>8 DEF SweepRetries
  <2>2. UNCHANGED <<Popped, Fetched>>
    BY <2>1, PlacesKept
  <2>3. PICK e \in AnyEvent, p \in Levels, d \in Nat : Enqueue(e, p, d, 0)
    BY <1>3, <1>8, SweepEnqueues
  <2> QED BY <1>2, <2>1, <2>2, <2>3, StateEnqueue
<1>9. ASSUME NEW l \in Loops, LoopStep(l) \/ LoopError(l)
      PROVE  phase' # "draining" /\ \A t \in Ids : StateOf(t)' /\ Follows(t)
  <2>1. UNCHANGED phase
    BY <1>9 DEF LoopStep, LoopError, Peek, Promote, Pop, Fetch, Requeue, Assign
  <2> QED BY <1>2, <1>9, <2>1, StateLoop
<1>10. ASSUME NEW t \in Ids, PostStep(t) \/ RecordError(t) \/ PushError(t) \/ HashExpires(t)
       PROVE  phase' # "draining" /\ \A u \in Ids : StateOf(u)' /\ Follows(u)
  <2>1. UNCHANGED phase
    BY <1>10 DEF PostStep, Record, Retry, PushToDlq, Trim, RecordError, PushError, HashExpires
  <2> QED BY <1>2, <1>10, <2>1, StatePost
<1>11. ASSUME NEW w \in Workers, DrainMark(w) \/ \E r \in Outcomes : WorkerEnd(w, r)
       PROVE  phase' # "draining" /\ \A u \in Ids : StateOf(u)' /\ Follows(u)
  <2>1. UNCHANGED phase
    BY <1>11 DEF DrainMark, WorkerEnd
  <2> QED BY <1>2, <1>11, <2>1, StateWork
<1>12. CASE Exit \/ RestartStep
  <2>1. phase' # "draining"
    BY <1>2, <1>12
       DEF Exit, RestartStep, Start, RecoverEnd, FlushEnd, RecoverTask, FlushTask
  <2> QED BY <1>2, <1>12, <2>1, StateRestart
<1>13. CASE Sigterm
  <2>1. \A t \in Ids : state'[t] = state[t] /\ state[t] # "REQUEUED"
    BY <1>2, <1>13 DEF Sigterm, StateOf
  <2>2. \A t \in Ids : Follows(t)
    BY <1>3, <2>1 DEF Follows, States
  <2> QED BY <1>13, <2>2
<1>14. ~DrainAdd
  BY <1>2 DEF DrainAdd, PlaceInv, HoldInv
<1> QED BY <1>5, <1>6, <1>7, <1>8, <1>9, <1>10, <1>11, <1>12, <1>13, <1>14, StepKinds
        DEF Moves

\* As long as no event is handled while cleanup runs and no SIGTERM came, a task
\* that ended stays ended, and no state is skipped or taken back: no timeout,
\* retry, sweep, failed command, crash or recovery runs a finished task again.
THEOREM EndedIsFinal == NoEventsAtStartup /\ Spec => EndedStaysEnded
<1>1. Init => StateInv
  <2> SUFFICES ASSUME Init PROVE phase # "draining" /\ \A t \in Ids : StateOf(t)
    BY DEF StateInv
  <2>1. phase = "up" /\ \A t \in Ids : state[t] = "none" /\ post[t].pc = "none"
    BY DEF Init, NoPost
  <2> QED BY <2>1 DEF StateOf, Terminal, Recovered
<1>2. PlaceInv /\ StateInv /\ [Next]_vars
      => StateInv' /\ [sigterms = 0 => \A t \in Ids : Follows(t)]_vars
  BY StateNext
<1>3. NoEventsAtStartup => (Spec => []PlaceInv)
  BY PlaceInvariant
<1> QED BY <1>1, <1>2, <1>3, PTL DEF Spec, EndedStaysEnded

-----------------------------------------------------------------------------
(* No accepted event is lost, as long as nothing sweeps the dead-letter     *)
(* queue: a sweep writes back a snapshot and drops what was filed meanwhile. *)

NoSweeps == MaxSweeps = 0
SweepsIdle == \A s \in Sweepers : sweep[s] = IdleSweep

\* A task whose hash is gone was archived; a result COMPLETED was noted; a task
\* the drain took from its worker is queued again or about to be.
KeptOf(t) ==
  /\ task[t].event \in Events /\ (state[t] = "none" \/ t \in expiring)
     => task[t].event \in archived
  /\ post[t].pc = "record" /\ post[t].result = "COMPLETED" => task[t].event \in finished
  /\ t \in Working /\ state[t] = "REQUEUED" =>
       phase = "draining" /\ ~dispatching /\ (t \in Queue \/ closing = t)

\* A stopped process' task that the startup recovery has still to visit.
Unvisited(t) == /\ state[t] \in {"QUEUED", "ASSIGNED", "RUNNING"}
                /\ phase = "down" \/ (phase = "recover" /\ t \in scan)
Filing == {"record", "retry", "push"}
Alive(t) == \/ t \in Queue \cup Popped \cup Fetched \cup Working \/ closing = t
            \/ post[t].pc \in Filing \/ Unvisited(t)
Safe(e) == Settled(e) \/ \E t \in Ids : task[t].event = e /\ Alive(t)

Lossless == errors = 0 /\ stops = 0 => \A e \in Events : answer[e] = "accepted" => Safe(e)

KeptInv == SweepsIdle /\ (\A t \in Ids : KeptOf(t)) /\ Lossless

\* Live() in the words of this module.
LEMMA AliveIsLive ==
  ASSUME Base, NEW e, Safe(e) PROVE Settled(e) \/ Live(e)
<1>1. CASE \E t \in Ids : task[t].event = e /\ Alive(t)
  <2>1. PICK t \in Ids : task[t].event = e /\ Alive(t)
    BY <1>1
  <2>2. t \in Queue => Queued(t)
    BY DEF Queue, QueueIn, Queued
  <2>3. t \in Popped \cup Fetched => \E l \in Loops : loop[l].task = t
    BY DEF Popped, Fetched, HandsIn
  <2>4. t \in Working => \E w \in Workers : worker[w] = t
    BY DEF Working
  <2>5. Live(e)
    BY <2>1, <2>2, <2>3, <2>4 DEF Alive, Unvisited, Filing, Live
  <2> QED BY <2>5
<1> QED BY <1>1 DEF Safe

\* The list of a trim or a flush: what does not stay is archived.
LEMMA EventsSplit ==
  ASSUME NEW q \in Seq(Entries), NEW n \in Nat, n <= Len(q)
  PROVE  EventsOf(q) \subseteq EventsOf(SubSeq(q, 1, n)) \cup EventsOf(SubSeq(q, n + 1, Len(q)))
<1>1. Len(q) \in Nat /\ EventsOf(q) = {q[i].event : i \in 1..Len(q)}
  BY DEF EventsOf
<1>2. ASSUME NEW i \in 1..Len(q)
      PROVE  q[i].event \in EventsOf(SubSeq(q, 1, n)) \cup EventsOf(SubSeq(q, n + 1, Len(q)))
  <2>1. CASE i <= n
    <3>1. i \in DOMAIN SubSeq(q, 1, n) /\ SubSeq(q, 1, n)[i] = q[i]
      BY <1>1, <2>1
    <3> QED BY <3>1 DEF EventsOf
  <2>2. CASE i > n
    <3> DEFINE j == i - n
    <3>1. j \in DOMAIN SubSeq(q, n + 1, Len(q)) /\ SubSeq(q, n + 1, Len(q))[j] = q[i]
      BY <1>1, <2>2
    <3> HIDE DEF j
    <3> QED BY <3>1 DEF EventsOf
  <2> QED BY <1>1, <2>1, <2>2
<1> QED BY <1>1, <1>2

\* What was settled stays settled.
LEMMA SettledKept ==
  ASSUME NEW e, Settled(e), finished \subseteq finished', archived \subseteq archived',
         EventsOf(dlq) \subseteq EventsOf(dlq') \cup archived'
  PROVE  Settled(e)'
BY DEF Settled, InDlq

\* A step that leaves the task's record alone and takes it from nowhere.
LEMMA KeptFrame ==
  ASSUME NEW t \in Ids, KeptOf(t), task'[t] = task[t],
         state'[t] = state[t] \/ state'[t] \notin {"none", "REQUEUED"},
         post'[t] = post[t] \/ post'[t].pc # "record",
         t \in Working' => t \in Working, t \in expiring' => t \in expiring,
         finished \subseteq finished', archived \subseteq archived',
         state[t] = "REQUEUED" /\ phase = "draining" /\ ~dispatching
           => /\ phase' = "draining" /\ ~dispatching'
              /\ t \in Queue \/ closing = t => t \in Queue' \/ closing' = t
  PROVE  KeptOf(t)'
BY DEF KeptOf

LEMMA AliveFrame ==
  ASSUME NEW t \in Ids, NEW e, task[t].event = e, Alive(t), task'[t] = task[t],
         t \in Queue \/ closing = t => t \in Queue' \/ closing' = t,
         t \in Popped \cup Fetched => t \in Popped' \cup Fetched',
         t \in Working => t \in Working',
         post[t].pc \in Filing => post'[t].pc \in Filing,
         Unvisited(t) => Unvisited(t)'
  PROVE  Safe(e)'
<1>1. Alive(t)'
  BY DEF Alive
<1> QED BY <1>1 DEF Safe

\* enqueue(): a fresh task of the event, queued; the rest stays.
LEMMA KeptEnqueue ==
  ASSUME Base, FreshInv, \A t \in Ids : KeptOf(t),
         NEW e \in AnyEvent, NEW p \in Levels, NEW d \in Nat, NEW n \in Nat,
         Enqueue(e, p, d, n), UNCHANGED <<worker, phase, closing, expiring, finished, archived>>,
         phase = "draining" /\ ~dispatching => ~dispatching',
         \A t \in Ids : post'[t] = post[t] \/ post'[t].pc # "record"
  PROVE  /\ Safe(e)' /\ \A t \in Ids : KeptOf(t)'
         /\ \A t \in Ids : task[t].event \in Events =>
              /\ state'[t] = state[t] /\ task'[t] = task[t]
              /\ (t \in Queue \/ closing = t => t \in Queue' \/ closing' = t)
<1> DEFINE x == used + 1
<1>1. /\ x \in Ids /\ Queue' = Queue \cup {x} /\ x > used
      /\ state'[x] = "QUEUED" /\ task'[x].event = e
      /\ \A t \in Ids \ {x} : state'[t] = state[t] /\ task'[t] = task[t]
  <2>1. used \in Nat /\ state \in [Ids -> States] /\ task \in [Ids -> Tasks]
    BY StoreShape
  <2>2. /\ x \in Ids /\ Queue' = Queue \cup {x} /\ state' = [state EXCEPT ![x] = "QUEUED"]
        /\ task' = [task EXCEPT ![x] = [event |-> e, prio |-> p, dlqCount |-> d,
                                        tmoCount |-> n]]
    BY EnqueueEffect
  <2>3. x > used
    BY ONLY <2>1
  <2> HIDE DEF x
  <2> QED BY <2>1, <2>2, <2>3
<1> HIDE DEF x
<1>2. Nowhere(x)
  BY <1>1 DEF FreshInv
<1>3. UNCHANGED Working
  BY PlacesKept
<1>4. Safe(e)'
  BY <1>1 DEF Safe, Alive
<1>5. ASSUME NEW t \in Ids PROVE KeptOf(t)'
  <2>1. CASE t = x
    <3>1. t \notin expiring' /\ post'[t].pc # "record" /\ state'[t] = "QUEUED"
      BY <1>1, <1>2, <2>1 DEF Nowhere, NoPost
    <3> QED BY <3>1 DEF KeptOf
  <2>2. CASE t # x
    BY <1>1, <1>3, <2>2, KeptFrame
  <2> QED BY <2>1, <2>2
<1>6. task[x].event \notin Events
  BY <1>2, ConstantsAssumption DEF Nowhere, Unused
<1> QED BY <1>1, <1>4, <1>5, <1>6

\* What a step owes to the invariant.
Preserves ==
  /\ \A t \in Ids : KeptOf(t)'
  /\ errors' = 0 /\ stops' = 0 => \A e \in Events : Safe(e) => Safe(e)'

LEMMA SafeStep ==
  ASSUME \A e \in Events : Settled(e) => Settled(e)',
         \A t \in Ids, e \in Events : task[t].event = e /\ Alive(t) => Safe(e)'
  PROVE  \A e \in Events : Safe(e) => Safe(e)'
<1> SUFFICES ASSUME NEW e \in Events, Safe(e) PROVE Safe(e)'
  OBVIOUS
<1>1. Settled(e)' => Safe(e)'
  BY DEF Safe
<1>2. Settled(e) \/ \E t \in Ids : task[t].event = e /\ Alive(t)
  BY DEF Safe
<1> QED BY <1>1, <1>2

LEMMA SettledSame ==
  ASSUME UNCHANGED <<finished, archived, dlq>> PROVE \A e \in Events : Settled(e) => Settled(e)'
BY DEF Settled, InDlq

\* Before a failed command: nothing is owed but the tasks' records.
LEMMA NoError == ASSUME Base, errors' = errors + 1 \/ stops' = stops + 1
                 PROVE  ~(errors' = 0 /\ stops' = 0)
<1>1. errors \in Nat /\ stops \in Nat
  BY DEF Base, TypeInv, CountType
<1> QED BY ONLY <1>1, errors' = errors + 1 \/ stops' = stops + 1

\* The dispatch loop.
LEMMA KeptLoop ==
  ASSUME Base, FreshInv, \A t \in Ids : KeptOf(t), NEW l \in Loops, LoopStep(l) \/ LoopError(l)
  PROVE  Preserves
<1>0. /\ loop[l].pc # "idle" /\ dispatching
      /\ UNCHANGED <<post, phase, scan, closing, expiring, finished, archived, dlq>>
  <2>1. /\ loop[l].pc # "idle"
        /\ UNCHANGED <<post, phase, scan, closing, expiring, finished, archived, dlq>>
    BY DEF LoopStep, LoopError, Peek, Promote, Pop, Fetch, Requeue, Assign
  <2> QED BY <2>1, LoopBusy
<1>1. \A e \in Events : Settled(e) => Settled(e)'
  BY <1>0, SettledSame
<1>2. CASE LoopError(l)
  <2>1. UNCHANGED <<zset, state, task, worker>> /\ errors' = errors + 1
    BY <1>2 DEF LoopError
  <2>2. UNCHANGED <<Queue, Working>>
    BY <2>1, PlacesKept
  <2>3. \A t \in Ids : KeptOf(t)'
    BY <1>0, <2>1, <2>2, KeptFrame
  <2> QED BY <2>1, <2>3, NoError DEF Preserves
<1>3. CASE Peek(l) \/ Promote(l) \/ Pop(l)
  <2>1. UNCHANGED <<state, task, worker>>
    BY <1>3 DEF Peek, Promote, Pop
  <2>2. UNCHANGED Working
    BY <2>1, PlacesKept
  <2>3. \A t \in Ids : Unvisited(t) => Unvisited(t)'
    BY <1>0, <2>1 DEF Unvisited
  <2>4. \A t \in Ids : KeptOf(t)'
    BY <1>0, <2>1, <2>2, KeptFrame
  <2>5. /\ Popped = {} /\ Fetched = {}
        /\ UNCHANGED zset \/ \E x \in Queue : Popped' = {x} /\ Queue \ {x} \subseteq Queue'
    <3>1. CASE Peek(l)
      <4>1. loop[l].pc = "peek" /\ UNCHANGED zset
        BY <3>1 DEF Peek
      <4> QED BY <1>0, <4>1, LoopBusy
    <3>2. CASE Promote(l) \/ Pop(l)
      BY <3>2, TakeEffect
    <3> QED BY <1>3, <3>1, <3>2
  <2>6. ASSUME NEW t \in Ids, NEW e \in Events, task[t].event = e, Alive(t) PROVE Safe(e)'
    <3>1. CASE t \in Popped'
      BY <2>1, <2>6, <3>1 DEF Safe, Alive
    <3>2. CASE t \notin Popped'
      <4>1. t \in Queue => t \in Queue'
        BY <2>5, <3>2, PlacesKept
      <4> QED BY <1>0, <2>1, <2>2, <2>3, <2>5, <2>6, <4>1, AliveFrame
    <3> QED BY <3>1, <3>2
  <2> QED BY <1>1, <2>4, <2>6, SafeStep DEF Preserves
<1>4. CASE Fetch(l)
  <2>1. UNCHANGED <<zset, task, worker>>
    BY <1>4 DEF Fetch
  <2>2. PICK x \in Ids :
          /\ Popped = {x} /\ Fetched = {}
          /\ \/ state[x] # "none" /\ Fetched' = {x} /\ state' = [state EXCEPT ![x] = "ASSIGNED"]
             \/ state[x] = "none" /\ UNCHANGED state
    BY <1>4, FetchEffect
  <2>3. UNCHANGED <<Queue, Working>>
    BY <2>1, PlacesKept
  <2>4. \A t \in Ids : \/ state'[t] = state[t]
                       \/ t = x /\ state[x] # "none" /\ state'[t] = "ASSIGNED"
    BY <2>2, StoreShape
  <2>5. \A t \in Ids : KeptOf(t)'
    BY <1>0, <2>1, <2>3, <2>4, KeptFrame
  <2>6. ASSUME NEW t \in Ids, NEW e \in Events, task[t].event = e, Alive(t) PROVE Safe(e)'
    <3>1. CASE t = x /\ state[x] = "none"
      <4>1. e \in archived'
        BY <1>0, <2>6, <3>1 DEF KeptOf
      <4> QED BY <4>1 DEF Safe, Settled
    <3>2. CASE t = x /\ state[x] # "none"
      BY <2>1, <2>2, <2>6, <3>2 DEF Safe, Alive
    <3>3. CASE t # x
      <4>1. state'[t] = state[t] /\ t \notin Popped \cup Fetched
        BY <2>2, <2>4, <3>3
      <4>2. Unvisited(t) => Unvisited(t)'
        BY <1>0, <4>1 DEF Unvisited
      <4> QED BY <1>0, <2>1, <2>3, <2>6, <4>1, <4>2, AliveFrame
    <3> QED BY <3>1, <3>2, <3>3
  <2> QED BY <1>1, <2>5, <2>6, SafeStep DEF Preserves
<1>5. CASE Requeue(l)
  <2>1. PICK x \in Ids, g \in AnyEvent, p \in Levels :
          /\ Fetched = {x} /\ Popped = {} /\ task[x].event = g /\ Enqueue(g, p, 0, 0)
    BY <1>5, RequeueEffect
  <2>2. UNCHANGED worker /\ 0 \in Nat
    BY <1>5 DEF Requeue
  <2>3. /\ Safe(g)' /\ \A t \in Ids : KeptOf(t)'
        /\ \A t \in Ids : task[t].event \in Events =>
             /\ state'[t] = state[t] /\ task'[t] = task[t]
             /\ (t \in Queue \/ closing = t => t \in Queue' \/ closing' = t)
    BY <1>0, <2>1, <2>2, KeptEnqueue
  <2>4. ASSUME NEW t \in Ids, NEW e \in Events, task[t].event = e, Alive(t) PROVE Safe(e)'
    <3>1. CASE t = x
      BY <2>1, <2>3, <2>4, <3>1
    <3>2. CASE t # x
      <4>1. t \notin Popped \cup Fetched /\ UNCHANGED Working
        BY <2>1, <2>2, <3>2, PlacesKept
      <4>2. Unvisited(t) => Unvisited(t)'
        BY <1>0, <2>3, <2>4 DEF Unvisited
      <4> QED BY <1>0, <2>3, <2>4, <4>1, <4>2, AliveFrame
    <3> QED BY <3>1, <3>2
  <2> QED BY <1>1, <2>3, <2>4, SafeStep DEF Preserves
<1>6. CASE Assign(l)
  <2>1. UNCHANGED <<zset, task>>
    BY <1>6 DEF Assign
  <2>2. PICK x \in Ids : /\ Popped = {} /\ Fetched = {x} /\ Working' = Working \cup {x}
                         /\ state' = [state EXCEPT ![x] = IF @ = "none" THEN @ ELSE "RUNNING"]
    BY <1>6, AssignEffect
  <2>3. UNCHANGED Queue
    BY <2>1, PlacesKept
  <2>4. /\ \A t \in Ids \ {x} : state'[t] = state[t]
        /\ state'[x] = IF state[x] = "none" THEN "none" ELSE "RUNNING"
    BY <2>2, StoreShape
  <2>5. ASSUME NEW t \in Ids PROVE KeptOf(t)'
    <3>1. CASE t = x
      <4>1. state'[t] # "REQUEUED" /\ (state'[t] = "none" => state[t] = "none")
        BY <2>4, <3>1
      <4> QED BY <1>0, <2>1, <4>1 DEF KeptOf
    <3>2. CASE t # x
      <4>1. t \in Working' => t \in Working
        BY <2>2, <3>2
      <4> QED BY <1>0, <2>1, <2>3, <2>4, <3>2, <4>1, KeptFrame
    <3> QED BY <3>1, <3>2
  <2>6. ASSUME NEW t \in Ids, NEW e \in Events, task[t].event = e, Alive(t) PROVE Safe(e)'
    <3>1. CASE t = x
      BY <2>1, <2>2, <2>6, <3>1 DEF Safe, Alive
    <3>2. CASE t # x
      <4>1. t \notin Popped \cup Fetched /\ (t \in Working => t \in Working')
            /\ state'[t] = state[t]
        BY <2>2, <2>4, <3>2
      <4>2. Unvisited(t) => Unvisited(t)'
        BY <1>0, <4>1 DEF Unvisited
      <4> QED BY <1>0, <2>1, <2>3, <2>6, <4>1, <4>2, AliveFrame
    <3> QED BY <3>1, <3>2
  <2> QED BY <1>1, <2>5, <2>6, SafeStep DEF Preserves
<1> QED BY <1>2, <1>3, <1>4, <1>5, <1>6 DEF LoopStep

\* runWorker after execute().
LEMMA KeptPost ==
  ASSUME Base, FreshInv, \A u \in Ids : KeptOf(u), NEW t \in Ids,
         PostStep(t) \/ RecordError(t) \/ PushError(t) \/ HashExpires(t)
  PROVE  Preserves
<1>1. ASSUME Record(t) \/ Trim(t) \/ RecordError(t) \/ PushError(t) \/ PushToDlq(t)
      PROVE  Preserves
  <2>1. /\ UNCHANGED <<task, closing, phase, scan, expiring, Queue, Popped, Fetched, Working>>
        /\ \A u \in Ids \ {t} : state'[u] = state[u] /\ post'[u] = post[u]
        /\ PostMoves(t)
    BY <1>1, PostEffect
  <2>2. UNCHANGED finished /\ (Dispatch(worker) \/ UNCHANGED loopVars)
    BY <1>1 DEF Record, Trim, RecordError, PushError, PushToDlq
  <2>3. phase = "draining" /\ ~dispatching => ~dispatching'
    BY <2>2, DispatchHands DEF Running
  <2>4. /\ archived \subseteq archived' /\ EventsOf(dlq) \subseteq EventsOf(dlq') \cup archived'
        /\ PushToDlq(t) => task[t].event \in EventsOf(dlq')
    <3>1. CASE Record(t) \/ RecordError(t) \/ PushError(t)
      <4>1. UNCHANGED <<dlq, archived>> /\ ~PushToDlq(t)
        BY <3>1 DEF Record, RecordError, PushError, PushToDlq
      <4> QED BY <4>1
    <3>2. CASE PushToDlq(t)
      <4>1. UNCHANGED archived /\ dlq' = <<Entry(t)>> \o dlq /\ Entry(t).event = task[t].event
        BY <3>2 DEF PushToDlq, Entry
      <4>2. dlq \in Seq(Entries)
        BY DEF Base, TypeInv, DlqType
      <4>3. /\ 1 \in DOMAIN dlq' /\ dlq'[1] = Entry(t)
            /\ \A i \in DOMAIN dlq : i + 1 \in DOMAIN dlq' /\ dlq'[i + 1] = dlq[i]
        BY <4>1, <4>2
      <4> QED BY <4>1, <4>3 DEF EventsOf
    <3>3. CASE Trim(t)
      <4>1. /\ dlq \in Seq(Entries) /\ Len(dlq) \in Nat
        BY DEF Base, TypeInv, DlqType
      <4>2. PICK n \in Nat : n <= Len(dlq) /\ Kept(dlq) = SubSeq(dlq, 1, n)
        BY <4>1, Bounds DEF Kept
      <4>3. Len(Kept(dlq)) = n
        BY <4>1, <4>2
      <4>4. /\ dlq' = Kept(dlq) /\ ~PushToDlq(t)
            /\ archived' = archived \cup EventsOf(SubSeq(dlq, Len(Kept(dlq)) + 1, Len(dlq)))
        BY <3>3 DEF Trim, PushToDlq
      <4>5. EventsOf(dlq) \subseteq EventsOf(SubSeq(dlq, 1, n))
                                    \cup EventsOf(SubSeq(dlq, n + 1, Len(dlq)))
        BY <4>1, <4>2, EventsSplit
      <4> QED BY <4>2, <4>3, <4>4, <4>5
    <3> QED BY <1>1, <3>1, <3>2, <3>3
  <2>5. \A e \in Events : Settled(e) => Settled(e)'
    BY <2>2, <2>4, SettledKept
  <2>6. ASSUME NEW u \in Ids PROVE KeptOf(u)'
    <3>1. CASE u = t
      <4>1. /\ state'[t] = state[t] \/ state'[t] \notin {"none", "REQUEUED"}
            /\ post'[t].pc # "record"
        BY <2>1 DEF PostMoves, Terminal
      <4> QED BY <2>1, <2>2, <2>3, <2>4, <3>1, <4>1, KeptFrame
    <3>2. CASE u # t
      BY <2>1, <2>2, <2>3, <2>4, <3>2, KeptFrame
    <3> QED BY <3>1, <3>2
  <2>7. ASSUME NEW u \in Ids, NEW e \in Events, task[u].event = e, Alive(u),
               ~RecordError(t), ~PushError(t)
        PROVE  Safe(e)'
    <3>1. CASE u # t
      <4>1. Unvisited(u) => Unvisited(u)'
        BY <2>1, <3>1 DEF Unvisited
      <4> QED BY <2>1, <2>7, <3>1, <4>1, AliveFrame
    <3>2. CASE u = t /\ Record(t)
      <4>1. post[t].pc = "record" /\ (post'[t].pc \in {"retry", "push"}
                                      \/ post[t].result = "COMPLETED")
        BY <3>2, StoreShape DEF Record, PostTypes
      <4>2. CASE post'[t].pc \in {"retry", "push"}
        BY <2>1, <2>7, <3>2, <4>2 DEF Safe, Alive, Filing
      <4>3. CASE post[t].result = "COMPLETED"
        BY <2>2, <2>7, <3>2, <4>1, <4>3 DEF KeptOf, Safe, Settled
      <4> QED BY <4>1, <4>2, <4>3
    <3>3. CASE u = t /\ PushToDlq(t)
      BY <2>4, <2>7, <3>3 DEF Safe, Settled, InDlq
    <3>4. CASE u = t /\ Trim(t)
      <4>1. post[t].pc = "trim"
        BY <3>4 DEF Trim
      <4>2. state'[t] = state[t]
        BY <2>1, <4>1 DEF PostMoves
      <4>3. Unvisited(u) => Unvisited(u)'
        BY <2>1, <3>4, <4>2 DEF Unvisited
      <4> QED BY <2>1, <2>7, <3>4, <4>1, <4>3, AliveFrame DEF Filing
    <3> QED BY <1>1, <2>7, <3>1, <3>2, <3>3, <3>4
  <2>8. RecordError(t) \/ PushError(t) => ~(errors' = 0 /\ stops' = 0)
    <3>1. RecordError(t) \/ PushError(t) => errors' = errors + 1
      BY DEF RecordError, PushError
    <3> QED BY <3>1, NoError
  <2> QED BY <2>5, <2>6, <2>7, <2>8, SafeStep DEF Preserves
<1>2. CASE Retry(t)
  <2>1. PICK g \in AnyEvent, p \in Levels, n \in Nat : task[t].event = g /\ Enqueue(g, p, 0, n)
    BY <1>2, RetryEnqueues
  <2>2. /\ UNCHANGED <<loopVars, worker, phase, scan, closing, expiring, finished, archived, dlq>>
        /\ 0 \in Nat /\ \A u \in Ids : u # t => post'[u] = post[u]
        /\ post'[t].pc = "none"
    BY <1>2, StoreShape DEF Retry, Leave, NoPost
  <2>3. /\ Safe(g)' /\ \A u \in Ids : KeptOf(u)'
        /\ \A u \in Ids : task[u].event \in Events =>
             /\ state'[u] = state[u] /\ task'[u] = task[u]
             /\ (u \in Queue \/ closing = u => u \in Queue' \/ closing' = u)
    BY <2>1, <2>2, KeptEnqueue
  <2>4. UNCHANGED <<Popped, Fetched, Working>>
    BY <2>2, PlacesKept
  <2>5. ASSUME NEW u \in Ids, NEW e \in Events, task[u].event = e, Alive(u) PROVE Safe(e)'
    <3>1. CASE u = t
      BY <2>1, <2>3, <2>5, <3>1
    <3>2. CASE u # t
      <4>1. Unvisited(u) => Unvisited(u)'
        BY <2>2, <2>3, <2>5 DEF Unvisited
      <4> QED BY <2>2, <2>3, <2>4, <2>5, <3>2, <4>1, AliveFrame
    <3> QED BY <3>1, <3>2
  <2>6. \A e \in Events : Settled(e) => Settled(e)'
    BY <2>2, SettledSame
  <2> QED BY <2>3, <2>5, <2>6, SafeStep DEF Preserves
<1>3. CASE HashExpires(t)
  <2>1. /\ UNCHANGED <<zset, task, loopVars, worker, post, phase, scan, closing, finished,
                       archived, dlq>>
        /\ t \in expiring /\ expiring' = expiring \ {t}
        /\ state' = [state EXCEPT ![t] = "none"]
    BY <1>3 DEF HashExpires
  <2>2. UNCHANGED <<Queue, Popped, Fetched, Working>>
    BY <2>1, PlacesKept
  <2>3. state'[t] = "none" /\ \A u \in Ids \ {t} : state'[u] = state[u]
    BY <2>1, StoreShape
  <2>4. ASSUME NEW u \in Ids PROVE KeptOf(u)'
    <3>1. CASE u = t
      BY <2>1, <2>2, <2>3, <3>1 DEF KeptOf
    <3>2. CASE u # t
      BY <2>1, <2>2, <2>3, <3>2, KeptFrame
    <3> QED BY <3>1, <3>2
  <2>5. ASSUME NEW u \in Ids, NEW e \in Events, task[u].event = e, Alive(u) PROVE Safe(e)'
    <3>1. CASE u = t
      BY <2>1, <2>5, <3>1 DEF KeptOf, Safe, Settled
    <3>2. CASE u # t
      <4>1. Unvisited(u) => Unvisited(u)'
        BY <2>1, <2>3, <3>2 DEF Unvisited
      <4> QED BY <2>1, <2>2, <2>5, <3>2, <4>1, AliveFrame
    <3> QED BY <3>1, <3>2
  <2>6. \A e \in Events : Settled(e) => Settled(e)'
    BY <2>1, SettledSame
  <2> QED BY <2>4, <2>5, <2>6, SafeStep DEF Preserves
<1> QED BY <1>1, <1>2, <1>3 DEF PostStep

\* The workers.
LEMMA KeptWork ==
  ASSUME Base, \A u \in Ids : KeptOf(u), NEW w \in Workers,
         DrainMark(w) \/ \E r \in Outcomes : WorkerEnd(w, r)
  PROVE  Preserves
<1>1. CASE DrainMark(w)
  <2>1. PICK t \in Ids :
          /\ t \in Working /\ closing' = t /\ closing = NoTask /\ phase = "draining"
          /\ state' = [state EXCEPT ![t] = "REQUEUED"]
    <3>1. /\ worker[w] # NoTask /\ closing' = worker[w] /\ closing = NoTask
          /\ phase = "draining" /\ state[worker[w]] # "none"
          /\ state' = Written(worker[w], "REQUEUED")
      BY <1>1 DEF DrainMark
    <3>2. worker[w] \in Ids /\ worker[w] \in Working
      BY <3>1, StoreShape DEF Working, TaskOrNone
    <3> QED BY <3>1, <3>2 DEF Written
  <2>2. /\ UNCHANGED <<zset, task, loopVars, worker, post, phase, scan, expiring, finished,
                       archived, dlq>>
        /\ ~dispatching
    <3>1. \A l \in Loops : loop[l].pc = "idle"
      BY <1>1 DEF DrainMark
    <3>2. ~dispatching
      BY <3>1 DEF Base, LoopInv, MutexExact
    <3> QED BY <1>1, <3>2 DEF DrainMark
  <2>3. UNCHANGED <<Queue, Popped, Fetched, Working>>
    BY <2>2, PlacesKept
  <2>4. state'[t] = "REQUEUED" /\ \A u \in Ids \ {t} : state'[u] = state[u]
    BY <2>1, StoreShape
  <2>5. ASSUME NEW u \in Ids PROVE closing # u /\ KeptOf(u)'
    <3>1. closing # u
      BY <2>1, Bounds
    <3>2. CASE u = t
      <4>1. KeptOf(u) /\ phase' = "draining" /\ ~dispatching' /\ closing' = u
            /\ state'[u] = "REQUEUED"
        BY <2>1, <2>2, <2>4, <3>2
      <4> QED BY <2>2, <3>1, <4>1 DEF KeptOf
    <3>3. CASE u # t
      BY <2>2, <2>3, <2>4, <3>1, <3>3, KeptFrame
    <3> QED BY <3>1, <3>2, <3>3
  <2>6. ASSUME NEW u \in Ids, NEW e \in Events, task[u].event = e, Alive(u) PROVE Safe(e)'
    <3>1. Unvisited(u) => Unvisited(u)'
      BY <2>1 DEF Unvisited
    <3> QED BY <2>2, <2>3, <2>5, <2>6, <3>1, AliveFrame
  <2>7. \A e \in Events : Settled(e) => Settled(e)'
    BY <2>2, SettledSame
  <2> QED BY <2>5, <2>6, <2>7, SafeStep DEF Preserves
<1>2. ASSUME NEW r \in Outcomes, WorkerEnd(w, r) PROVE Preserves
  <2>1. PICK t \in Working :
          /\ worker[w] = t /\ post' = [post EXCEPT ![t] = [pc |-> "record", result |-> r]]
          /\ Working \ {t} \subseteq Working' /\ Working' \subseteq Working
    BY <1>2, EndEffect
  <2>2. /\ UNCHANGED <<zset, state, task, loopVars, phase, scan, closing, expiring, archived, dlq>>
        /\ finished \subseteq finished' /\ (r = "COMPLETED" => task[t].event \in finished')
        /\ t \in Ids
    BY <1>2, <2>1 DEF WorkerEnd, Working
  <2>3. UNCHANGED <<Queue, Popped, Fetched>>
    BY <2>2, PlacesKept
  <2>4. /\ post'[t].pc = "record" /\ post'[t].result = r
        /\ \A u \in Ids \ {t} : post'[u] = post[u]
    BY <2>1, <2>2, StoreShape
  <2>5. ASSUME NEW u \in Ids PROVE KeptOf(u)'
    <3>1. CASE u = t
      BY <2>1, <2>2, <2>3, <2>4, <3>1 DEF KeptOf
    <3>2. CASE u # t
      BY <2>1, <2>2, <2>3, <2>4, <3>2, KeptFrame
    <3> QED BY <3>1, <3>2
  <2>6. ASSUME NEW u \in Ids, NEW e \in Events, task[u].event = e, Alive(u) PROVE Safe(e)'
    <3>1. CASE u = t
      BY <2>2, <2>4, <2>6, <3>1 DEF Safe, Alive, Filing
    <3>2. CASE u # t
      <4>1. Unvisited(u) => Unvisited(u)'
        BY <2>2 DEF Unvisited
      <4> QED BY <2>1, <2>2, <2>3, <2>4, <2>6, <3>2, <4>1, AliveFrame
    <3> QED BY <3>1, <3>2
  <2>7. \A e \in Events : Settled(e) => Settled(e)'
    <3>1. EventsOf(dlq) \subseteq EventsOf(dlq') \cup archived'
      BY <2>2
    <3> QED BY <2>2, <3>1, SettledKept
  <2> QED BY <2>5, <2>6, <2>7, SafeStep DEF Preserves
<1> QED BY <1>1, <1>2

\* The drain, the end of the process and the cleanup of the next one.
LEMMA KeptDrain ==
  ASSUME Base, \A u \in Ids : KeptOf(u), Sigterm \/ DrainAdd \/ Exit
  PROVE  Preserves
<1>1. CASE Sigterm
  <2>1. /\ UNCHANGED <<zset, state, task, loopVars, worker, post, scan, closing, expiring,
                       finished, archived, dlq>>
        /\ phase = "up"
    BY <1>1 DEF Sigterm
  <2>2. UNCHANGED <<Queue, Popped, Fetched, Working>>
    BY <2>1, PlacesKept
  <2>3. \A u \in Ids : KeptOf(u)'
    BY <2>1, <2>2, KeptFrame
  <2>4. ASSUME NEW u \in Ids, NEW e \in Events, task[u].event = e, Alive(u) PROVE Safe(e)'
    <3>1. Unvisited(u) => Unvisited(u)'
      BY <2>1 DEF Unvisited
    <3> QED BY <2>1, <2>2, <2>4, <3>1, AliveFrame
  <2>5. \A e \in Events : Settled(e) => Settled(e)'
    BY <2>1, SettledSame
  <2> QED BY <2>3, <2>4, <2>5, SafeStep DEF Preserves
<1>2. CASE DrainAdd
  <2>1. /\ Queue' = Queue \cup {closing}
        /\ UNCHANGED <<loop, dispatching, worker, expiring, post, state, task, phase>>
    BY <1>2, DrainAddEffect
  <2>2. UNCHANGED <<scan, finished, archived, dlq>>
    BY <1>2 DEF DrainAdd
  <2>3. UNCHANGED <<Popped, Fetched, Working>>
    BY <2>1, PlacesKept
  <2>4. \A u \in Ids : KeptOf(u)'
    BY <2>1, <2>2, <2>3, KeptFrame
  <2>5. ASSUME NEW u \in Ids, NEW e \in Events, task[u].event = e, Alive(u) PROVE Safe(e)'
    <3>1. Unvisited(u) => Unvisited(u)'
      BY <2>1, <2>2 DEF Unvisited
    <3> QED BY <2>1, <2>2, <2>3, <2>5, <3>1, AliveFrame
  <2>6. \A e \in Events : Settled(e) => Settled(e)'
    BY <2>2, SettledSame
  <2> QED BY <2>4, <2>5, <2>6, SafeStep DEF Preserves
<1>3. CASE Exit
  <2>1. /\ Working' = {} /\ UNCHANGED <<zset, state, task, expiring>>
        /\ \A u \in Ids : post'[u].pc = "none"
    BY <1>3, ExitEffect DEF NoPost
  <2>2. UNCHANGED <<finished, archived, dlq>> /\ (~Drained => stops' = stops + 1)
    BY <1>3 DEF Exit
  <2>3. UNCHANGED Queue
    BY <2>1, PlacesKept
  <2>4. \A u \in Ids : KeptOf(u)'
    BY <2>1, <2>2 DEF KeptOf
  <2>5. ASSUME NEW u \in Ids, NEW e \in Events, task[u].event = e, Alive(u), Drained
        PROVE  Safe(e)'
    <3>1. /\ phase = "draining" /\ closing = NoTask /\ post[u].pc = "none"
          /\ \A l \in Loops : loop[l].pc = "idle"
          /\ u \in Working => state[u] \in {"REQUEUED", "none"}
      <4>1. u # NoTask
        BY Bounds
      <4> QED BY <2>5, <4>1 DEF Drained, Working
    <3>2. Popped = {} /\ Fetched = {} /\ closing # u /\ ~Unvisited(u)
      <4>1. Popped = {} /\ Fetched = {}
        BY <3>1, HandsEmpty DEF Popped, Fetched
      <4>2. closing # u
        BY <3>1, Bounds
      <4> QED BY <3>1, <4>1, <4>2 DEF Unvisited
    <3>3. CASE u \in Queue
      BY <2>1, <2>3, <2>5, <3>3 DEF Safe, Alive
    <3>4. CASE u \in Working /\ u \notin Queue
      BY <2>2, <2>5, <3>1, <3>2, <3>4 DEF KeptOf, Safe, Settled
    <3> QED BY <2>5, <3>1, <3>2, <3>3, <3>4 DEF Alive, Filing
  <2>6. \A e \in Events : Settled(e) => Settled(e)'
    BY <2>2, SettledSame
  <2>7. CASE Drained
    BY <2>4, <2>5, <2>6, <2>7, SafeStep DEF Preserves
  <2>8. CASE ~Drained
    BY <2>2, <2>4, <2>8, NoError DEF Preserves
  <2> QED BY <2>7, <2>8
<1> QED BY <1>1, <1>2, <1>3

LEMMA KeptRestart ==
  ASSUME Base, \A u \in Ids : KeptOf(u), RestartStep
  PROVE  Preserves
<1>1. CASE Start \/ RecoverEnd \/ FlushEnd
  <2>1. /\ UNCHANGED <<zset, state, task, loopVars, worker, post, closing, expiring, finished>>
        /\ phase # "draining"
    BY <1>1 DEF Start, RecoverEnd, FlushEnd
  <2>2. UNCHANGED <<Queue, Popped, Fetched, Working>>
    BY <2>1, PlacesKept
  <2>3. /\ archived \subseteq archived' /\ EventsOf(dlq) \subseteq EventsOf(dlq') \cup archived'
    <3>1. CASE Start \/ RecoverEnd
      <4>1. UNCHANGED <<dlq, archived>>
        BY <3>1 DEF Start, RecoverEnd
      <4> QED BY <4>1
    <3>2. CASE FlushEnd
      <4>1. PICK n \in 0..Len(dlq) :
              /\ dlq' = SubSeq(dlq, 1, n)
              /\ archived' = archived \cup EventsOf(SubSeq(dlq, n + 1, Len(dlq)))
        BY <3>2 DEF FlushEnd
      <4>2. dlq \in Seq(Entries) /\ Len(dlq) \in Nat
        BY DEF Base, TypeInv, DlqType
      <4>3. n \in Nat /\ n <= Len(dlq)
        BY <4>2
      <4>4. EventsOf(dlq) \subseteq EventsOf(SubSeq(dlq, 1, n))
                                    \cup EventsOf(SubSeq(dlq, n + 1, Len(dlq)))
        BY <4>2, <4>3, EventsSplit
      <4> QED BY <4>1, <4>4
    <3> QED BY <1>1, <3>1, <3>2
  <2>4. \A e \in Events : Settled(e) => Settled(e)'
    BY <2>1, <2>3, SettledKept
  <2>5. \A u \in Ids : KeptOf(u)'
    BY <2>1, <2>2, <2>3, KeptFrame
  <2>6. ASSUME NEW u \in Ids, NEW e \in Events, task[u].event = e, Alive(u) PROVE Safe(e)'
    <3>1. Unvisited(u) => Unvisited(u)'
      BY <1>1 DEF Unvisited, Start, RecoverEnd, FlushEnd
    <3> QED BY <2>1, <2>2, <2>6, <3>1, AliveFrame
  <2> QED BY <2>4, <2>5, <2>6, SafeStep DEF Preserves
<1>2. ASSUME NEW t \in Ids, RecoverTask(t) PROVE Preserves
  <2>1. /\ phase = "recover" /\ scan' = scan \ {t}
        /\ UNCHANGED <<task, phase, closing, loopVars, workVars, finished, dlq>>
        /\ \/ /\ Orphaned(t) /\ state' = [state EXCEPT ![t] = "QUEUED"]
              /\ Queue' = Queue \cup {t} /\ UNCHANGED <<expiring, archived>>
           \/ ~Orphaned(t) /\ UNCHANGED <<zset, state, expiring, archived>>
           \/ /\ UNCHANGED <<zset, state>> /\ expiring' = expiring \cup {t}
              /\ archived' = archived \cup {task[t].event}
    BY <1>2, RecoverEffect
  <2>2. UNCHANGED <<Popped, Fetched, Working>> /\ Queue \subseteq Queue'
    BY <2>1, PlacesKept
  <2>3. \A u \in Ids : state'[u] = state[u] \/ (u = t /\ state'[u] = "QUEUED" /\ u \in Queue')
    BY <2>1, StoreShape
  <2>4. ASSUME NEW u \in Ids PROVE KeptOf(u)'
    <3>1. CASE u = t
      <4>1. u \in expiring' => u \in expiring \/ task[u].event \in archived'
        BY <2>1, <3>1
      <4> QED BY <2>1, <2>2, <2>3, <4>1 DEF KeptOf
    <3>2. CASE u # t
      <4>1. u \in expiring' => u \in expiring
        BY <2>1, <3>2
      <4> QED BY <2>1, <2>2, <2>3, <3>2, <4>1, KeptFrame
    <3> QED BY <3>1, <3>2
  <2>5. ASSUME NEW u \in Ids, NEW e \in Events, task[u].event = e, Alive(u) PROVE Safe(e)'
    <3>1. CASE u = t /\ Unvisited(u)
      <4>1. u \in Queue' \/ e \in archived'
        <5>1. ~Orphaned(t) => t \in Queue
          BY <3>1 DEF Orphaned, Unvisited, Queued, Queue, QueueIn
        <5> QED BY <2>1, <2>2, <2>5, <3>1, <5>1
      <4> QED BY <2>1, <2>5, <4>1 DEF Safe, Settled, Alive
    <3>2. CASE ~(u = t /\ Unvisited(u))
      <4>1. Unvisited(u) => Unvisited(u)'
        BY <2>1, <2>3, <3>2 DEF Unvisited
      <4> QED BY <2>1, <2>2, <2>5, <4>1, AliveFrame
    <3> QED BY <3>1, <3>2
  <2>6. \A e \in Events : Settled(e) => Settled(e)'
    <3>1. archived \subseteq archived' /\ EventsOf(dlq) \subseteq EventsOf(dlq') \cup archived'
      BY <2>1
    <3> QED BY <2>1, <3>1, SettledKept
  <2> QED BY <2>4, <2>5, <2>6, SafeStep DEF Preserves
<1>3. ASSUME NEW t \in Ids, FlushTask(t) PROVE Preserves
  <2>1. /\ phase = "flush" /\ state' = [state EXCEPT ![t] = "none"]
        /\ expiring' = expiring \ {t} /\ Queue \ {t} \subseteq Queue'
        /\ archived' = archived \cup {task[t].event}
    BY <1>3, FlushEffect
  <2>2. UNCHANGED <<task, phase, scan, closing, loopVars, worker, post, finished, dlq>>
    BY <1>3 DEF FlushTask
  <2>3. UNCHANGED <<Popped, Fetched, Working>>
    BY <2>2, PlacesKept
  <2>4. state'[t] = "none" /\ \A u \in Ids \ {t} : state'[u] = state[u]
    BY <2>1, StoreShape
  <2>5. ASSUME NEW u \in Ids PROVE KeptOf(u)'
    <3>1. CASE u = t
      BY <2>1, <2>2, <2>3, <2>4, <3>1 DEF KeptOf
    <3>2. CASE u # t
      BY <2>1, <2>2, <2>3, <2>4, <3>2, KeptFrame
    <3> QED BY <3>1, <3>2
  <2>6. ASSUME NEW u \in Ids, NEW e \in Events, task[u].event = e, Alive(u) PROVE Safe(e)'
    <3>1. CASE u = t
      BY <2>1, <2>6, <3>1 DEF Safe, Settled
    <3>2. CASE u # t
      <4>1. ~Unvisited(u)
        BY <2>1 DEF Unvisited
      <4> QED BY <2>1, <2>2, <2>3, <2>6, <3>2, <4>1, AliveFrame
    <3> QED BY <3>1, <3>2
  <2>7. \A e \in Events : Settled(e) => Settled(e)'
    <3>1. archived \subseteq archived' /\ EventsOf(dlq) \subseteq EventsOf(dlq') \cup archived'
      BY <2>1, <2>2
    <3> QED BY <2>2, <3>1, SettledKept
  <2> QED BY <2>5, <2>6, <2>7, SafeStep DEF Preserves
<1> QED BY <1>1, <1>2, <1>3 DEF RestartStep

\* handleEvent accepts an event in the step that enqueues its task.
LEMMA Accepts ==
  ASSUME Base, [Next]_vars, NEW e \in Events, answer'[e] = "accepted", answer[e] # "accepted"
  PROVE  EnqueueEvent(e)
<1>0. answer \in [Events -> {"none", "accepted", "rejected", "duplicate", "error"}]
  BY DEF Base, TypeInv, HandlerType
<1>1. ASSUME NEW g \in Events, Arrive(g) \/ HandlerStep(g) \/ HandlerError(g)
      PROVE  EnqueueEvent(e)
  <2>1. EnqueueEvent(g) \/ UNCHANGED answer
        \/ \E a \in {"rejected", "duplicate", "error"} : answer' = [answer EXCEPT ![g] = a]
    BY <1>1 DEF Arrive, HandlerStep, HandlerError, FloodGuard, SetCorrelation, SetDedup,
                ReadDepth, Goto, Answer
  <2>2. EnqueueEvent(g) => answer' = [answer EXCEPT ![g] = "accepted"]
    BY DEF EnqueueEvent, Answer
  <2> QED BY <1>0, <2>1, <2>2
<1>2. CASE Poll \/ Pause \/ Sigterm \/ DrainAdd \/ Exit \/ RestartStep \/ UNCHANGED vars
  BY <1>2 DEF Poll, Pause, Sigterm, DrainAdd, Exit, RestartStep, Start, RecoverEnd, FlushEnd,
              RecoverTask, FlushTask, vars
<1>3. ASSUME NEW l \in Loops, LoopStep(l) \/ LoopError(l) PROVE UNCHANGED answer
  BY <1>3 DEF LoopStep, Peek, Promote, Pop, Fetch, Requeue, Assign, LoopError
<1>4. ASSUME NEW w \in Workers, DrainMark(w) \/ \E r \in Outcomes : WorkerEnd(w, r)
      PROVE  UNCHANGED answer
  BY <1>4 DEF DrainMark, WorkerEnd
<1>5. ASSUME NEW t \in Ids, PostStep(t) \/ RecordError(t) \/ PushError(t) \/ HashExpires(t)
      PROVE  UNCHANGED answer
  BY <1>5 DEF PostStep, Record, Retry, PushToDlq, Trim, RecordError, PushError, HashExpires
<1>6. CASE \E k \in Keys : CircuitAges(k)
  BY <1>6 DEF CircuitAges
<1>7. ASSUME NEW s \in Sweepers, SweepStep(s) \/ \E m \in SweepModes : SweepBegin(s, m)
      PROVE  UNCHANGED answer
  BY <1>7 DEF SweepStep, SweepGivesUp, SweepSkips, SweepRetries, SweepArchives, SweepEnd,
              SweepBegin
<1> QED BY <1>1, <1>2, <1>3, <1>4, <1>5, <1>6, <1>7 DEF Next

\* No sweep begins.
LEMMA SweepsNext ==
  ASSUME NoSweeps, Base, SweepsIdle, [Next]_vars
  PROVE  /\ SweepsIdle'
         /\ \A s \in Sweepers : ~SweepRetries(s) /\ ~SweepGivesUp(s) /\ ~SweepSkips(s)
                                /\ ~SweepArchives(s) /\ ~SweepEnd(s)
                                /\ \A m \in SweepModes : ~SweepBegin(s, m)
<1>1. ASSUME NEW s \in Sweepers
      PROVE  ~SweepStep(s) /\ \A m \in SweepModes : ~SweepBegin(s, m)
  <2>1. sweep[s].todo = <<>> /\ sweep[s].pc = "idle"
    BY DEF SweepsIdle, IdleSweep
  <2>2. ~(sweeps < MaxSweeps)
    BY DEF NoSweeps, Base, TypeInv, CountType
  <2> QED BY <2>1, <2>2 DEF SweepStep, SweepGivesUp, SweepSkips, SweepRetries, SweepArchives,
                            SweepEnd, SweepBegin
<1>2. ASSUME NEW e \in Events, Arrive(e) \/ HandlerStep(e) \/ HandlerError(e)
      PROVE  UNCHANGED sweep
  BY <1>2 DEF HandlerStep, Arrive, FloodGuard, SetCorrelation, SetDedup, ReadDepth,
              EnqueueEvent, HandlerError
<1>3. ASSUME Poll \/ Pause \/ Sigterm \/ DrainAdd \/ RestartStep \/ UNCHANGED vars
      PROVE  UNCHANGED sweep
  BY <1>3 DEF Poll, Pause, Sigterm, DrainAdd, RestartStep, Start, RecoverEnd, FlushEnd,
              RecoverTask, FlushTask, vars
<1>4. Exit => SweepsIdle'
  BY DEF Exit, SweepsIdle
<1>5. ASSUME NEW l \in Loops, LoopStep(l) \/ LoopError(l) PROVE UNCHANGED sweep
  BY <1>5 DEF LoopStep, Peek, Promote, Pop, Fetch, Requeue, Assign, LoopError
<1>6. ASSUME NEW w \in Workers, DrainMark(w) \/ \E r \in Outcomes : WorkerEnd(w, r)
      PROVE  UNCHANGED sweep
  BY <1>6 DEF DrainMark, WorkerEnd
<1>7. ASSUME NEW t \in Ids, PostStep(t) \/ RecordError(t) \/ PushError(t) \/ HashExpires(t)
      PROVE  UNCHANGED sweep
  BY <1>7 DEF PostStep, Record, Retry, PushToDlq, Trim, RecordError, PushError, HashExpires
<1>8. ASSUME NEW k \in Keys, CircuitAges(k) PROVE UNCHANGED sweep
  BY <1>8 DEF CircuitAges
<1>9. UNCHANGED sweep => SweepsIdle'
  BY DEF SweepsIdle
<1>10. SweepsIdle'
  BY <1>1, <1>2, <1>3, <1>4, <1>5, <1>6, <1>7, <1>8, <1>9 DEF Next
<1> QED BY <1>1, <1>10 DEF SweepStep

\* The steps that touch no task.
LEMMA KeptAside ==
  ASSUME Base, \A u \in Ids : KeptOf(u),
         UNCHANGED <<zset, worker, post, state, task, expiring, processVars, finished,
                     archived, dlq>>,
         UNCHANGED loopVars \/ (phase = "up" /\ Dispatch(worker))
  PROVE  Preserves
<1>1. UNCHANGED <<Queue, Popped, Fetched, Working>>
  BY DispatchHands, PlacesKept
<1>2. phase = "draining" /\ ~dispatching => ~dispatching'
  OBVIOUS
<1>3. \A u \in Ids : KeptOf(u)'
  BY <1>1, <1>2, KeptFrame
<1>4. ASSUME NEW u \in Ids, NEW e \in Events, task[u].event = e, Alive(u) PROVE Safe(e)'
  <2>1. Unvisited(u) => Unvisited(u)'
    BY DEF Unvisited
  <2> QED BY <1>1, <1>4, <2>1, AliveFrame
<1>5. \A e \in Events : Settled(e) => Settled(e)'
  BY SettledSame
<1> QED BY <1>3, <1>4, <1>5, SafeStep DEF Preserves

LEMMA KeptNext ==
  ASSUME NoSweeps, Base, FreshInv, KeptInv, [Next]_vars
  PROVE  KeptInv'
<1>0. /\ \A u \in Ids : KeptOf(u)
      /\ \A s \in Sweepers : ~SweepRetries(s) /\ ~SweepGivesUp(s) /\ ~SweepSkips(s)
                             /\ ~SweepArchives(s) /\ ~SweepEnd(s)
                             /\ \A m \in SweepModes : ~SweepBegin(s, m)
      /\ SweepsIdle'
  BY SweepsNext DEF KeptInv
<1>1. ASSUME NEW e \in Events, EnqueueEvent(e)
      PROVE  Preserves /\ Safe(e)'
  <2>1. /\ e \in AnyEvent /\ PriorityOf[e] \in Levels /\ Enqueue(e, PriorityOf[e], 0, 0)
        /\ UNCHANGED <<Popped, Fetched>>
    BY <1>1, EventEnqueues
  <2>2. /\ UNCHANGED <<worker, post, phase, scan, closing, expiring, finished, archived, dlq>>
        /\ Dispatch(worker) /\ 0 \in Nat
    BY <1>1 DEF EnqueueEvent
  <2>3. phase = "draining" /\ ~dispatching => ~dispatching'
    BY <2>2, DispatchHands DEF Running
  <2>4. /\ Safe(e)' /\ \A t \in Ids : KeptOf(t)'
        /\ \A t \in Ids : task[t].event \in Events =>
             /\ state'[t] = state[t] /\ task'[t] = task[t]
             /\ (t \in Queue \/ closing = t => t \in Queue' \/ closing' = t)
    BY <1>0, <2>1, <2>2, <2>3, KeptEnqueue
  <2>5. UNCHANGED Working
    BY <2>2, PlacesKept
  <2>6. ASSUME NEW u \in Ids, NEW g \in Events, task[u].event = g, Alive(u) PROVE Safe(g)'
    <3>1. Unvisited(u) => Unvisited(u)'
      BY <2>2, <2>4, <2>6 DEF Unvisited
    <3> QED BY <2>1, <2>2, <2>4, <2>5, <2>6, <3>1, AliveFrame
  <2>7. \A g \in Events : Settled(g) => Settled(g)'
    BY <2>2, SettledSame
  <2> QED BY <2>4, <2>6, <2>7, SafeStep DEF Preserves
<1>2. ASSUME Poll PROVE Preserves
  <2>1. /\ UNCHANGED <<zset, worker, post, state, task, expiring, processVars, finished,
                       archived, dlq>>
        /\ phase = "up" /\ Dispatch(worker)
    BY <1>2 DEF Poll
  <2> QED BY <1>0, <2>1, KeptAside
<1>3. ASSUME (\E e \in Events : Arrive(e) \/ FloodGuard(e) \/ SetCorrelation(e) \/ SetDedup(e)
                                \/ ReadDepth(e) \/ HandlerError(e))
             \/ (\E k \in Keys : CircuitAges(k)) \/ Pause \/ UNCHANGED vars
      PROVE  Preserves
  <2>1. UNCHANGED <<zset, worker, post, state, task, expiring, processVars, finished, archived,
                    dlq, loopVars>>
    BY <1>3 DEF Arrive, FloodGuard, SetCorrelation, SetDedup, ReadDepth, HandlerError,
                CircuitAges, Pause, vars
  <2> QED BY <1>0, <2>1, KeptAside
<1>4. Preserves
  BY <1>0, <1>1, <1>2, <1>3, KeptLoop, KeptPost, KeptWork, KeptDrain, KeptRestart
     DEF Next, HandlerStep, SweepStep
<1>5. Lossless'
  <2> SUFFICES ASSUME errors' = 0, stops' = 0, NEW e \in Events, answer'[e] = "accepted"
               PROVE  Safe(e)'
    BY DEF Lossless
  <2>1. errors = 0 /\ stops = 0
    <3>1. /\ errors \in Nat /\ (errors' = errors \/ errors' = errors + 1)
          /\ stops \in Nat /\ (stops' = stops \/ stops' = stops + 1)
      BY CountSteps DEF Counts, Counted, Base, TypeInv, CountType
    <3> QED BY ONLY <3>1, errors' = 0, stops' = 0
  <2>2. CASE answer[e] = "accepted"
    BY <1>4, <2>1, <2>2 DEF KeptInv, Lossless, Preserves
  <2>3. CASE answer[e] # "accepted"
    BY <1>1, <2>3, Accepts
  <2> QED BY <2>2, <2>3
<1> QED BY <1>0, <1>4, <1>5 DEF KeptInv, Preserves

\* As long as nothing sweeps the dead-letter queue, no Redis command fails and
\* the process does not crash, an accepted event is completed, archived, in the
\* dead-letter queue, or some task of it is queued, in hand, executing or about to
\* be retried or filed: also across the drain of a SIGTERM, the next start, its
\* recovery and its flush, and with events that arrive while these run.
THEOREM NothingLost == NoSweeps /\ Spec => []NoTaskLost
<1>1. Init => KeptInv
  <2> SUFFICES ASSUME Init PROVE KeptInv
    OBVIOUS
  <2>1. SweepsIdle
    BY DEF Init, SweepsIdle
  <2>2. Lossless
    BY DEF Init, Lossless
  <2>3. ASSUME NEW t \in Ids PROVE KeptOf(t)
    <3>1. task[t].event = NoEvent /\ post[t].pc = "none" /\ state[t] = "none"
      BY DEF Init, Unused, NoPost
    <3>2. NoEvent \notin Events
      BY ConstantsAssumption
    <3> QED BY <3>1, <3>2 DEF KeptOf
  <2> QED BY <2>1, <2>2, <2>3 DEF KeptInv
<1>2. NoSweeps /\ Base /\ FreshInv /\ KeptInv /\ [Next]_vars => KeptInv'
  BY KeptNext
<1>3. Base /\ KeptInv => NoTaskLost
  BY AliveIsLive DEF KeptInv, Lossless, NoTaskLost
<1>4. Spec => [](Base /\ FreshInv)
  BY FreshInvariant
<1>5. CASE NoSweeps
  <2>1. Base /\ FreshInv /\ KeptInv /\ [Next]_vars => KeptInv'
    BY <1>2, <1>5
  <2> QED BY <1>1, <1>3, <1>4, <2>1, PTL DEF Spec
<1> QED BY <1>5

-----------------------------------------------------------------------------
(* What a step leaves of the places, in one lemma for the steps that make a *)
(* task and one for those that make none.                                   *)

InHand == Queue \cup Popped \cup Fetched \cup Working
Undone == {"QUEUED", "ASSIGNED", "RUNNING"}

\* The step makes no task.
Makes == \/ \E e \in Events : EnqueueEvent(e)
         \/ \E l \in Loops : Requeue(l)
         \/ \E t \in Ids : Retry(t)
         \/ \E s \in Sweepers : SweepRetries(s)

\* No task gets into a place but from the place before.
Still(t) ==
  /\ t \in InHand' => t \in InHand \/ (phase = "recover" /\ state[t] \in Undone)
  /\ post'[t].pc \in Filing => post[t].pc \in Filing \/ t \in InHand
  /\ post'[t].pc = "record" => post[t].pc = "record" \/ t \in InHand
  /\ state'[t] \in Undone => state[t] \in Undone \/ t \in InHand

LEMMA StillSame ==
  ASSUME UNCHANGED post, InHand' \subseteq InHand,
         \A t \in Ids : state'[t] = state[t] \/ state'[t] \notin Undone \/ t \in InHand
  PROVE  \A t \in Ids : Still(t)
BY DEF Still

LEMMA StillPost ==
  ASSUME Base, NEW t \in Ids,
         Record(t) \/ PushToDlq(t) \/ Trim(t) \/ RecordError(t) \/ PushError(t) \/ HashExpires(t)
  PROVE  UNCHANGED task /\ \A u \in Ids : Still(u)
<1>0. UNCHANGED <<task, zset, worker>> /\ (UNCHANGED loop \/ Dispatch(worker))
  BY DEF Record, PushToDlq, Trim, RecordError, PushError, HashExpires
<1>1. UNCHANGED InHand
  BY <1>0, DispatchHands, PlacesKept DEF InHand
<1>2. /\ \A u \in Ids \ {t} : post'[u] = post[u] /\ state'[u] = state[u]
      /\ post'[t] = post[t] \/ post'[t].pc = "none" \/ post[t].pc \in Filing
      /\ post'[t] = post[t] \/ post'[t].pc # "record"
      /\ state'[t] = state[t] \/ state'[t] \notin Undone
  <2>1. CASE HashExpires(t)
    BY <2>1, StoreShape DEF HashExpires, Undone
  <2>2. CASE PushToDlq(t) \/ Trim(t) \/ PushError(t)
    BY <2>2, StoreShape DEF PushToDlq, Trim, PushError, Leave, NoPost, Filing, PostTypes
  <2>3. CASE RecordError(t)
    BY <2>3, StoreShape DEF RecordError, Leave, NoPost, Written, Undone
  <2>4. CASE Record(t)
    <3>1. post[t].pc = "record" /\ post[t] \in PostTypes
          /\ \A u \in Ids \ {t} : post'[u] = post[u] /\ state'[u] = state[u]
      BY <2>4, StoreShape DEF Record, Leave, Written
    <3>2. post'[t].pc \in {"none", "retry", "push"}
      BY <2>4, StoreShape DEF Record, Leave, NoPost, PostTypes
    <3>3. post[t].result \notin Undone
      BY <2>4, ConstantsAssumption DEF Record, Undone
    <3>4. state'[t] \in {"none", post[t].result}
      BY <2>4, StoreShape DEF Record, Written
    <3> QED BY <3>1, <3>2, <3>3, <3>4 DEF Filing, Undone
  <2> QED BY <2>1, <2>2, <2>3, <2>4
<1>3. ASSUME NEW u \in Ids PROVE Still(u)
  BY <1>1, <1>2 DEF Still, Filing
<1> QED BY <1>0, <1>3

LEMMA StillLoop ==
  ASSUME Base, NEW l \in Loops, LoopStep(l) \/ LoopError(l), ~Requeue(l)
  PROVE  UNCHANGED task /\ \A t \in Ids : Still(t)
<1>0. loop[l].pc # "idle" /\ UNCHANGED <<task, post>>
  BY DEF LoopStep, LoopError, Peek, Promote, Pop, Fetch, Assign
<1>1. CASE LoopError(l)
  <2>1. UNCHANGED <<zset, worker, state>> /\ Popped' = {} /\ Fetched' = {}
    BY <1>0, <1>1, BreakHands DEF LoopError
  <2>2. InHand' \subseteq InHand
    BY <2>1, PlacesKept DEF InHand
  <2> QED BY <1>0, <2>1, <2>2, StillSame
<1>2. CASE Peek(l)
  <2>1. loop[l].pc = "peek" /\ (At(l, "pop", 0) \/ At(l, "promote", 0))
        /\ UNCHANGED <<zset, worker, state>>
    BY <1>2 DEF Peek
  <2>2. Popped' = {} /\ Fetched' = {}
    BY <2>1, AtHands DEF HoldsTask
  <2>3. InHand' \subseteq InHand
    BY <2>1, <2>2, PlacesKept DEF InHand
  <2> QED BY <1>0, <2>1, <2>3, StillSame
<1>3. CASE Promote(l) \/ Pop(l)
  <2>1. Queue' \subseteq Queue /\ Popped' \subseteq Queue /\ Fetched' = {}
    BY <1>3, TakeEffect, PlacesKept
  <2>2. UNCHANGED <<worker, state>>
    BY <1>3 DEF Promote, Pop
  <2>3. InHand' \subseteq InHand
    BY <2>1, <2>2, PlacesKept DEF InHand
  <2> QED BY <1>0, <2>2, <2>3, StillSame
<1>4. CASE Fetch(l)
  <2>1. PICK t \in Popped : /\ Popped' = {} /\ Fetched' \subseteq {t}
                            /\ \A u \in Ids \ {t} : state'[u] = state[u]
    BY <1>4, FetchEffect, StoreShape
  <2>2. UNCHANGED <<zset, worker>>
    BY <1>4 DEF Fetch
  <2>3. InHand' \subseteq InHand /\ t \in InHand
    BY <2>1, <2>2, PlacesKept DEF InHand
  <2> QED BY <1>0, <2>1, <2>3, StillSame
<1>5. CASE Assign(l)
  <2>1. PICK t \in Fetched : /\ Popped' = {} /\ Fetched' = {} /\ Working' = Working \cup {t}
                             /\ \A u \in Ids \ {t} : state'[u] = state[u]
    BY <1>5, AssignEffect, StoreShape
  <2>2. UNCHANGED zset
    BY <1>5 DEF Assign
  <2>3. InHand' \subseteq InHand /\ t \in InHand
    BY <2>1, <2>2, PlacesKept DEF InHand
  <2> QED BY <1>0, <2>1, <2>3, StillSame
<1> QED BY <1>0, <1>1, <1>2, <1>3, <1>4, <1>5 DEF LoopStep

LEMMA StillNext ==
  ASSUME Base, HoldInv, phase # "draining", [Next]_vars, ~Makes
  PROVE  UNCHANGED task /\ \A t \in Ids : Still(t)
<1>1. CASE (\E e, s, k : Aside(e, s, k)) \/ Pause \/ UNCHANGED vars
  <2>1. UNCHANGED <<zset, loop, worker, post, state, task>>
    BY <1>1, AsideEffect
  <2>2. InHand' \subseteq InHand
    BY <2>1, PlacesKept DEF InHand
  <2> QED BY <2>1, <2>2, StillSame
<1>2. CASE Poll
  <2>1. UNCHANGED <<zset, worker, post, state, task>> /\ Dispatch(worker)
    BY <1>2 DEF Poll
  <2>2. InHand' \subseteq InHand
    BY <2>1, DispatchHands, PlacesKept DEF InHand
  <2> QED BY <2>1, <2>2, StillSame
<1>3. CASE Sigterm
  <2>1. UNCHANGED <<zset, loop, worker, post, state, task>>
    BY <1>3 DEF Sigterm
  <2>2. InHand' \subseteq InHand
    BY <2>1, PlacesKept DEF InHand
  <2> QED BY <2>1, <2>2, StillSame
<1>4. ~DrainAdd /\ \A w \in Workers : ~DrainMark(w)
  BY DEF DrainAdd, DrainMark, HoldInv
<1>5. CASE Exit
  <2>1. InHand' \subseteq InHand /\ UNCHANGED <<state, task>>
    BY <1>5, ExitEffect, PlacesKept DEF InHand
  <2>2. \A t \in Ids : post'[t].pc = "none"
    BY <1>5, ExitEffect DEF NoPost
  <2> QED BY <2>1, <2>2 DEF Still, Filing
<1>6. CASE RestartStep
  <2>1. CASE Start \/ RecoverEnd \/ FlushEnd
    <3>1. UNCHANGED <<zset, loop, worker, post, state, task>>
      BY <2>1 DEF Start, RecoverEnd, FlushEnd
    <3>2. InHand' \subseteq InHand
      BY <3>1, PlacesKept DEF InHand
    <3> QED BY <3>1, <3>2, StillSame
  <2>2. ASSUME NEW t \in Ids, RecoverTask(t) PROVE UNCHANGED task /\ \A u \in Ids : Still(u)
    <3>1. UNCHANGED <<loop, worker, post, task>> /\ phase = "recover"
      BY <2>2, RecoverEffect
    <3>2. CASE UNCHANGED <<zset, state>>
      <4>1. InHand' \subseteq InHand
        BY <3>1, <3>2, PlacesKept DEF InHand
      <4> QED BY <3>1, <3>2, <4>1, StillSame
    <3>3. CASE ~UNCHANGED <<zset, state>>
      <4>1. /\ state[t] \in Undone /\ Queue' = Queue \cup {t}
            /\ \A u \in Ids \ {t} : state'[u] = state[u]
        BY <2>2, <3>3, RecoverEffect, StoreShape DEF Orphaned, Undone
      <4>2. InHand' = InHand \cup {t}
        BY <3>1, <4>1, PlacesKept DEF InHand
      <4> QED BY <3>1, <4>1, <4>2 DEF Still
    <3> QED BY <3>2, <3>3
  <2>3. ASSUME NEW t \in Ids, FlushTask(t) PROVE UNCHANGED task /\ \A u \in Ids : Still(u)
    <3>1. UNCHANGED <<loop, worker, post, task>>
      BY <2>3 DEF FlushTask
    <3>2. /\ Queue' \subseteq Queue /\ \A u \in Ids \ {t} : state'[u] = state[u]
          /\ state'[t] \notin Undone
      BY <2>3, FlushEffect, StoreShape DEF Undone
    <3>3. InHand' \subseteq InHand
      BY <3>1, <3>2, PlacesKept DEF InHand
    <3> QED BY <3>1, <3>2, <3>3, StillSame
  <2> QED BY <1>6, <2>1, <2>2, <2>3 DEF RestartStep
<1>7. ASSUME NEW l \in Loops, LoopStep(l) \/ LoopError(l)
      PROVE  UNCHANGED task /\ \A t \in Ids : Still(t)
  BY <1>7, StillLoop DEF Makes
<1>8. ASSUME NEW w \in Workers, NEW r \in Outcomes, WorkerEnd(w, r)
      PROVE  UNCHANGED task /\ \A t \in Ids : Still(t)
  <2>1. PICK t \in Working : Working' \subseteq Working
                             /\ post' = [post EXCEPT ![t] = [pc |-> "record", result |-> r]]
    BY <1>8, EndEffect
  <2>2. UNCHANGED <<zset, loop, state, task>>
    BY <1>8 DEF WorkerEnd
  <2>3. InHand' \subseteq InHand /\ t \in InHand
    BY <2>1, <2>2, PlacesKept DEF InHand
  <2>4. \A u \in Ids \ {t} : post'[u] = post[u]
    BY <2>1, StoreShape
  <2> QED BY <2>2, <2>3, <2>4 DEF Still
<1>9. ASSUME NEW t \in Ids, PostStep(t) \/ RecordError(t) \/ PushError(t) \/ HashExpires(t)
      PROVE  UNCHANGED task /\ \A u \in Ids : Still(u)
  BY <1>9, StillPost DEF Makes, PostStep
<1> QED BY <1>1, <1>2, <1>3, <1>4, <1>5, <1>6, <1>7, <1>8, <1>9, StepKinds DEF Moves, Makes

\* enqueue(): one more task, queued.
LEMMA MadeTask ==
  ASSUME Base, FreshInv, NEW e \in AnyEvent, NEW p \in Levels, NEW d \in Nat, NEW n \in Nat,
         Enqueue(e, p, d, n), Popped' \subseteq Popped, Fetched' \subseteq Fetched,
         UNCHANGED worker
  PROVE  \E x \in Ids :
           /\ Nowhere(x) /\ task'[x].event = e /\ task'[x].dlqCount = d /\ task'[x].tmoCount = n
           /\ \A t \in Ids \ {x} : /\ task'[t] = task[t] /\ state'[t] = state[t]
                                   /\ t \in InHand' => t \in InHand
<1> DEFINE x == used + 1
<1>1. used \in Nat /\ state \in [Ids -> States] /\ task \in [Ids -> Tasks]
  BY StoreShape
<1>2. /\ x \in Ids /\ Queue' = Queue \cup {x} /\ state' = [state EXCEPT ![x] = "QUEUED"]
      /\ task' = [task EXCEPT ![x] = [event |-> e, prio |-> p, dlqCount |-> d,
                                      tmoCount |-> n]]
  BY EnqueueEffect
<1>3. x > used
  BY ONLY <1>1
<1> HIDE DEF x
<1>4. Nowhere(x)
  BY <1>2, <1>3 DEF FreshInv
<1>5. UNCHANGED Working
  BY PlacesKept
<1>6. \A t \in Ids \ {x} : t \in InHand' => t \in InHand
  BY <1>2, <1>5 DEF InHand
<1> QED BY <1>1, <1>2, <1>4, <1>6

-----------------------------------------------------------------------------
(* Who holds a dedup key.                                                  *)

\* No operator asks for drainDlq, which makes tasks without asking for the key.
NoDrains == "drain" \notin SweepModes

\* The task of a key that is not over, and the event that has just set the key.
Current(t) == t \in InHand \/ post[t].pc = "record" \/ state[t] \in Undone
OfKey(t, k) == Current(t) /\ KeyOf[task[t].event] = k
Passing(e, k) == handler[e] \in {"depth", "enqueue"} /\ KeyOf[e] = k

AnyKey == {KeyOf[e] : e \in AnyEvent}

\* One task or one event of the key at most, and the key is set as long as it is.
Claimed(k) ==
  /\ \A t, u \in Ids : OfKey(t, k) /\ OfKey(u, k) => t = u
  /\ \A e, f \in Events : Passing(e, k) /\ Passing(f, k) => e = f
  /\ \A t \in Ids, e \in Events : ~(OfKey(t, k) /\ Passing(e, k))
  /\ (\E t \in Ids : OfKey(t, k)) \/ (\E e \in Events : Passing(e, k)) => k \in dedup

NotPaused == ~paused /\ \A l \in Loops : loop[l].pc # "requeue"

KeyInv == sigterms = 0 /\ pauses = 0 =>
            phase # "draining" /\ NotPaused /\ \A k \in AnyKey : Retried(k) \/ Claimed(k)

LEMMA ClaimedFrame ==
  ASSUME NEW k, Claimed(k), \A t \in Ids : OfKey(t, k)' => OfKey(t, k),
         \A e \in Events : Passing(e, k)' => Passing(e, k), k \in dedup => k \in dedup'
  PROVE  Claimed(k)'
BY DEF Claimed

\* What handleEvent and the loops do to what the invariant speaks of.
LEMMA KeySteps ==
  ASSUME Base, [Next]_vars
  PROVE  /\ dedup \subseteq dedup' \/ \E t \in Ids : Record(t)
         /\ \A e \in Events : handler'[e] \in {"depth", "enqueue"} =>
              handler[e] \in {"depth", "enqueue"} \/ SetDedup(e)
         /\ phase' = "draining" => phase = "draining" \/ sigterms' = sigterms + 1
         /\ paused' => paused \/ pauses' = pauses + 1
         /\ \A l \in Loops : loop'[l].pc = "requeue" => loop[l].pc = "requeue" \/ paused
<1> DEFINE HandlerKept == \A e \in Events : handler'[e] \in {"depth", "enqueue"} =>
                            handler[e] \in {"depth", "enqueue"} \/ SetDedup(e)
           LoopsKept == \A l \in Loops : loop'[l].pc = "requeue" => loop[l].pc = "requeue" \/ paused
<1>0. /\ handler \in [Events -> {"new", "flood", "corr", "dedup", "depth", "enqueue", "done"}]
      /\ loop \in [Loops -> LoopTypes]
  BY DEF Base, TypeInv, HandlerType, LoopType
<1>1. ASSUME UNCHANGED handler PROVE HandlerKept
  BY <1>1
<1>2. ASSUME UNCHANGED loop PROVE LoopsKept
  BY <1>2
<1>3. ASSUME Dispatch(worker) PROVE LoopsKept
  BY <1>0, <1>3 DEF Dispatch, LoopWith
<1>4. ASSUME NEW e \in Events, Arrive(e) \/ HandlerStep(e) \/ HandlerError(e)
      PROVE  HandlerKept /\ dedup \subseteq dedup' /\ UNCHANGED <<phase, paused>> /\ LoopsKept
  <2>1. dedup \subseteq dedup' /\ UNCHANGED <<phase, paused>>
        /\ (UNCHANGED loop \/ Dispatch(worker))
    BY <1>4 DEF Arrive, HandlerStep, HandlerError, FloodGuard, SetCorrelation, SetDedup,
                ReadDepth, EnqueueEvent
  <2>2. \E w : handler' = [handler EXCEPT ![e] = w]
               /\ (w \in {"depth", "enqueue"} => SetDedup(e) \/ handler[e] \in {"depth", "enqueue"})
    BY <1>4 DEF Arrive, HandlerStep, HandlerError, FloodGuard, SetCorrelation,
                ReadDepth, EnqueueEvent, Goto, Answer, SetDedup
  <2>3. HandlerKept
    BY <1>0, <2>2
  <2> QED BY <1>2, <1>3, <2>1, <2>3
<1>5. ASSUME Poll PROVE UNCHANGED <<handler, dedup, phase, paused>> /\ LoopsKept
  BY <1>3, <1>5 DEF Poll
<1>6. ASSUME Pause
      PROVE  UNCHANGED <<handler, dedup, phase, loop>> /\ (paused' => paused \/ pauses' = pauses + 1)
  BY <1>6 DEF Pause
<1>7. ASSUME Sigterm PROVE UNCHANGED <<handler, dedup, paused, loop>> /\ sigterms' = sigterms + 1
  BY <1>7 DEF Sigterm
<1>8. ASSUME DrainAdd \/ UNCHANGED vars PROVE UNCHANGED <<handler, dedup, phase, paused, loop>>
  BY <1>8 DEF DrainAdd, vars
<1>9. ASSUME Exit
      PROVE  HandlerKept /\ UNCHANGED <<dedup, paused>> /\ phase' # "draining" /\ LoopsKept
  BY <1>0, <1>9 DEF Exit, IdleLoop
<1>10. ASSUME RestartStep
       PROVE  /\ UNCHANGED <<handler, dedup, paused, loop>>
              /\ (phase' = "draining" => phase = "draining")
  BY <1>10 DEF RestartStep, Start, RecoverEnd, FlushEnd, RecoverTask, FlushTask
<1>11. ASSUME NEW l \in Loops, LoopStep(l) \/ LoopError(l)
       PROVE  UNCHANGED <<handler, dedup, phase, paused>> /\ LoopsKept
  <2>1. UNCHANGED <<handler, dedup, phase, paused>>
    BY <1>11 DEF LoopStep, Peek, Promote, Pop, Fetch, Requeue, Assign, LoopError
  <2>2. \E r : loop' = [loop EXCEPT ![l] = r] /\ (r.pc = "requeue" => paused)
    BY <1>0, <1>11 DEF LoopStep, Peek, Promote, Pop, Fetch, Requeue, Assign, LoopError,
             At, Took, Break,
             IdleLoop, LoopWith, LoopTypes
  <2> QED BY <1>0, <2>1, <2>2
<1>12. ASSUME NEW w \in Workers, DrainMark(w) \/ \E r \in Outcomes : WorkerEnd(w, r)
       PROVE  UNCHANGED <<handler, dedup, phase, paused, loop>>
  BY <1>12 DEF DrainMark, WorkerEnd
<1>13. ASSUME NEW t \in Ids, PostStep(t) \/ RecordError(t) \/ PushError(t) \/ HashExpires(t)
       PROVE  /\ UNCHANGED <<handler, phase, paused>> /\ LoopsKept
              /\ dedup \subseteq dedup' \/ \E u \in Ids : Record(u)
  <2>1. /\ UNCHANGED <<handler, phase, paused>> /\ (UNCHANGED dedup \/ Record(t))
        /\ UNCHANGED loop \/ Dispatch(worker)
    BY <1>13 DEF PostStep, Record, Retry, PushToDlq, Trim, RecordError, PushError, HashExpires
  <2> QED BY <1>2, <1>3, <2>1
<1>14. ASSUME NEW k \in Keys, CircuitAges(k)
       PROVE  UNCHANGED <<handler, dedup, phase, paused, loop>>
  BY <1>14 DEF CircuitAges
<1>15. ASSUME NEW s \in Sweepers, SweepStep(s) \/ \E m \in SweepModes : SweepBegin(s, m)
       PROVE  UNCHANGED <<handler, dedup, phase, paused, loop>>
  BY <1>15 DEF SweepStep, SweepGivesUp, SweepSkips, SweepRetries,
                  SweepArchives, SweepEnd, SweepBegin
<1> HIDE DEF HandlerKept, LoopsKept
<1>16. /\ dedup \subseteq dedup' \/ \E t \in Ids : Record(t)
       /\ HandlerKept /\ LoopsKept
       /\ phase' = "draining" => phase = "draining" \/ sigterms' = sigterms + 1
       /\ paused' => paused \/ pauses' = pauses + 1
  BY <1>1, <1>2, <1>4, <1>5, <1>6, <1>7, <1>8, <1>9, <1>10, <1>11, <1>12, <1>13, <1>14, <1>15
  DEF Next
<1> QED BY <1>16 DEF HandlerKept, LoopsKept

\* A step that makes no task and ends none only lets places shrink.
LEMMA KeyFrame ==
  ASSUME NEW k, Claimed(k), UNCHANGED task, \A t \in Ids : Still(t),
         \A e \in Events : handler'[e] \in {"depth", "enqueue"} =>
                             handler[e] \in {"depth", "enqueue"},
         dedup \subseteq dedup'
  PROVE  Claimed(k)'
<1>1. \A t \in Ids : OfKey(t, k)' => OfKey(t, k)
  BY DEF OfKey, Current, Still
<1>2. \A e \in Events : Passing(e, k)' => Passing(e, k)
  BY DEF Passing
<1> QED BY <1>1, <1>2, ClaimedFrame

\* The SET NX of the key succeeds only while no task and no event has it.
LEMMA KeySet ==
  ASSUME Base, NEW k \in AnyKey, Claimed(k), NEW e \in Events, SetDedup(e)
  PROVE  Claimed(k)'
<1>0. UNCHANGED <<zset, task, state, loop, worker, post>> /\ dedup' = dedup \cup {KeyOf[e]}
  BY DEF SetDedup
<1>1. InHand' = InHand
  BY <1>0, PlacesKept DEF InHand
<1>2. \A t \in Ids : OfKey(t, k)' <=> OfKey(t, k)
  BY <1>0, <1>1 DEF OfKey, Current
<1>3. handler \in [Events -> {"new", "flood", "corr", "dedup", "depth", "enqueue", "done"}]
  BY DEF Base, TypeInv, HandlerType
<1>4. \E w : handler' = [handler EXCEPT ![e] = w]
             /\ (w \in {"depth", "enqueue"} => KeyOf[e] \notin dedup)
  BY DEF SetDedup, Answer, Goto, Duplicate
<1>5. \A f \in Events : Passing(f, k)' => Passing(f, k)
                                         \/ (f = e /\ k \notin dedup /\ KeyOf[e] = k)
  BY <1>3, <1>4 DEF Passing
<1>6. CASE k \in dedup
  BY <1>0, <1>2, <1>5, <1>6 DEF Claimed
<1>7. CASE k \notin dedup
  BY <1>0, <1>2, <1>5, <1>7 DEF Claimed
<1> QED BY <1>6, <1>7

\* The end of a task deletes its key: the task was the last to have it.
LEMMA KeyRecord ==
  ASSUME Base, HoldInv, phase # "draining", NEW k \in AnyKey, Claimed(k), NEW t \in Ids,
         Record(t)
  PROVE  Claimed(k)'
<1>0. UNCHANGED <<task, handler>> /\ dedup' = dedup \ {KeyOf[task[t].event]}
      /\ post[t].pc = "record"
  BY DEF Record
<1>1. \A u \in Ids : Still(u)
  BY StillPost
<1>2. \A u \in Ids : OfKey(u, k)' => OfKey(u, k)
  BY <1>0, <1>1 DEF OfKey, Current, Still
<1>3. \A e \in Events : Passing(e, k)' <=> Passing(e, k)
  BY <1>0 DEF Passing
<1>4. CASE KeyOf[task[t].event] # k
  BY <1>0, <1>2, <1>3, <1>4, ClaimedFrame
<1>5. CASE KeyOf[task[t].event] = k
  <2>1. OfKey(t, k)
    BY <1>0, <1>5 DEF OfKey, Current
  <2>2. t \notin InHand
    BY <1>0 DEF HoldInv, Apart, Double, InHand
  <2>3. post[t].result \notin Undone /\ post'[t].pc # "record" /\ state'[t] \notin Undone
        /\ UNCHANGED InHand
    <3>1. post[t].result \notin Undone
      BY ConstantsAssumption DEF Record, Undone
    <3>2. state'[t] \in {"none", post[t].result}
      BY StoreShape DEF Record, Written
    <3>3. post'[t].pc \in {"none", "retry", "push"}
      BY StoreShape DEF Record, Leave, NoPost, PostTypes
    <3>4. UNCHANGED <<Queue, Popped, Fetched, Working>>
      BY PostEffect
    <3> QED BY <3>1, <3>2, <3>3, <3>4 DEF InHand, Undone
  <2>4. ~OfKey(t, k)'
    BY <2>2, <2>3 DEF OfKey, Current
  <2>5. \A u \in Ids : ~OfKey(u, k)'
    BY <1>2, <2>1, <2>4 DEF Claimed
  <2>6. \A e \in Events : ~Passing(e, k)'
    BY <1>3, <2>1 DEF Claimed
  <2> QED BY <2>5, <2>6 DEF Claimed
<1> QED BY <1>4, <1>5

\* A task that is made is a retry, or of the event that holds the key.
LEMMA KeyMade ==
  ASSUME Base, FreshInv, NEW e \in AnyEvent, NEW p \in Levels, NEW d \in Nat, NEW n \in Nat,
         Enqueue(e, p, d, n), Popped' \subseteq Popped, Fetched' \subseteq Fetched,
         UNCHANGED <<worker, dedup>>, NEW k,
         \A t \in Ids : post'[t].pc \in {post[t].pc, "none"},
         \A f \in Events : Passing(f, k)' => Passing(f, k),
         d > 0 \/ n > 0 \/ (e \in Events /\ Passing(e, k)
                            /\ ~Passing(e, k)') \/ KeyOf[e] # k,
         Retried(k) \/ Claimed(k)
  PROVE  Retried(k)' \/ Claimed(k)'
<1>1. PICK x \in Ids :
        /\ Nowhere(x) /\ task'[x].event = e /\ task'[x].dlqCount = d /\ task'[x].tmoCount = n
        /\ \A t \in Ids \ {x} : /\ task'[t] = task[t] /\ state'[t] = state[t]
                                /\ t \in InHand' => t \in InHand
  BY MadeTask
<1>2. CASE Retried(k)
  <2>1. PICK t \in Ids : (task[t].dlqCount > 0 \/ task[t].tmoCount > 0)
                         /\ KeyOf[task[t].event] = k
    BY <1>2 DEF Retried
  <2>2. t # x
    BY <1>1, <2>1 DEF Nowhere, Unused
  <2> QED BY <1>1, <2>1, <2>2 DEF Retried
<1>3. CASE (d > 0 \/ n > 0) /\ KeyOf[e] = k
  BY <1>1, <1>3 DEF Retried
<1>4. ASSUME NEW t \in Ids \ {x}, OfKey(t, k)' PROVE OfKey(t, k)
  BY <1>1, <1>4 DEF OfKey, Current
<1>5. CASE KeyOf[e] # k /\ Claimed(k)
  <2>1. ~OfKey(x, k)'
    BY <1>1, <1>5 DEF OfKey
  <2> QED BY <1>4, <1>5, <2>1, ClaimedFrame
<1>6. CASE e \in Events /\ Passing(e, k) /\ ~Passing(e, k)' /\ Claimed(k)
  <2>1. k \in dedup' /\ \A t \in Ids \ {x} : ~OfKey(t, k)'
    BY <1>4, <1>6 DEF Claimed
  <2>2. \A f \in Events : ~Passing(f, k)'
    BY <1>6 DEF Claimed
  <2> QED BY <2>1, <2>2 DEF Claimed
<1> QED BY <1>2, <1>3, <1>5, <1>6

\* No sweep drains.
ModeInv == \A s \in Sweepers : sweep[s].mode = "retry"

LEMMA ModeNext ==
  (Init => ModeInv) /\ (NoDrains /\ Base /\ ModeInv /\ [Next]_vars => ModeInv')
<1>1. Init => ModeInv
  BY DEF Init, ModeInv, IdleSweep
<1>2. ASSUME NoDrains, Base, ModeInv, [Next]_vars PROVE ModeInv'
  <2>1. sweep \in [Sweepers -> SweepTypes]
    BY <1>2 DEF Base, TypeInv, DlqType
  <2>2. CASE UNCHANGED sweep
    BY <1>2, <2>2 DEF ModeInv
  <2>3. CASE Exit
    BY <2>3 DEF Exit, ModeInv, IdleSweep
  <2>4. ASSUME NEW s \in Sweepers, SweepStep(s) \/ \E m \in SweepModes : SweepBegin(s, m)
        PROVE  ModeInv'
    <3>1. CASE \E m \in SweepModes : SweepBegin(s, m)
      <4>1. PICK m \in SweepModes : SweepBegin(s, m)
        BY <3>1
      <4>2. m = "retry"
        BY <1>2, <4>1, ConstantsAssumption DEF NoDrains
      <4>3. sweep'[s].mode = m /\ \A r \in Sweepers \ {s} : sweep'[r] = sweep[r]
        BY <2>1, <4>1 DEF SweepBegin, IdleSweep
      <4> QED BY <1>2, <4>2, <4>3 DEF ModeInv
    <3>2. CASE SweepStep(s)
      <4>1. \E q : sweep' = [sweep EXCEPT ![s] = q] /\ q.mode = "retry"
        BY <1>2, <2>1, <3>2 DEF SweepStep, SweepGivesUp, SweepSkips, SweepRetries,
                SweepArchives, SweepEnd, SweepKeeps, SweepDrops, ModeInv, IdleSweep, SweepTypes
      <4> QED BY <1>2, <2>1, <4>1 DEF ModeInv
    <3> QED BY <2>4, <3>1, <3>2
  <2>5. UNCHANGED sweep \/ Exit
        \/ \E s \in Sweepers : SweepStep(s) \/ \E m \in SweepModes : SweepBegin(s, m)
    BY <1>2 DEF Next, Arrive, HandlerStep, HandlerError, FloodGuard, SetCorrelation, SetDedup,
                ReadDepth, EnqueueEvent, Poll, Pause, Sigterm, DrainAdd, RestartStep, Start, RecoverEnd,
                FlushEnd, RecoverTask, FlushTask, LoopStep, LoopError, Peek, Promote, Pop, Fetch,
                Requeue, Assign, DrainMark, WorkerEnd, PostStep, Record, Retry, PushToDlq, Trim,
                RecordError, PushError, HashExpires, CircuitAges, vars
  <2> QED BY <2>2, <2>3, <2>4, <2>5
<1> QED BY <1>1, <1>2

LEMMA KeyMakes ==
  ASSUME PlaceInv, ModeInv, NotPaused, Makes, NEW k \in AnyKey, Retried(k) \/ Claimed(k)
  PROVE  Retried(k)' \/ Claimed(k)'
<1>0. Base /\ FreshInv /\ handler \in [Events -> {"new", "flood", "corr", "dedup", "depth",
                                                  "enqueue", "done"}]
  BY DEF PlaceInv, Base, TypeInv, HandlerType
<1>1. ASSUME NEW e \in Events, EnqueueEvent(e) PROVE Retried(k)' \/ Claimed(k)'
  <2>1. e \in AnyEvent /\ PriorityOf[e] \in Levels /\ Enqueue(e, PriorityOf[e], 0, 0)
        /\ UNCHANGED <<Popped, Fetched>>
    BY <1>0, <1>1, EventEnqueues
  <2>2. UNCHANGED <<worker, dedup, post>> /\ handler[e] = "enqueue"
        /\ handler' = [handler EXCEPT ![e] = "done"]
    BY <1>1 DEF EnqueueEvent, Answer
  <2>3. \A f \in Events : Passing(f, k)' => Passing(f, k)
    BY <1>0, <2>2 DEF Passing
  <2>4. (Passing(e, k) /\ ~Passing(e, k)') \/ KeyOf[e] # k
    BY <1>0, <2>2 DEF Passing
  <2> QED BY <1>0, <2>1, <2>2, <2>3, <2>4, KeyMade
<1>2. ASSUME NEW t \in Ids, Retry(t) PROVE Retried(k)' \/ Claimed(k)'
  <2>1. /\ task[t].event \in AnyEvent /\ task[t].prio \in Levels /\ task[t].tmoCount + 1 \in Nat
        /\ Enqueue(task[t].event, task[t].prio, 0, task[t].tmoCount + 1)
    BY <1>0, <1>2, RetryEnqueues
  <2>2. UNCHANGED <<worker, dedup, loop, handler>> /\ post' = [post EXCEPT ![t] = NoPost]
    BY <1>2 DEF Retry, Leave
  <2>3. UNCHANGED <<Popped, Fetched>> /\ \A f \in Events : Passing(f, k)' => Passing(f, k)
    BY <2>2, PlacesKept DEF Passing
  <2>4. \A u \in Ids : post'[u].pc \in {post[u].pc, "none"}
    BY <1>0, <2>2, StoreShape DEF NoPost
  <2>5. task[t].tmoCount \in Nat
    BY <1>0, StoreShape DEF Tasks
  <2>6. task[t].tmoCount + 1 > 0
    BY ONLY <2>5
  <2> QED BY <1>0, <2>1, <2>2, <2>3, <2>4, <2>6, KeyMade
<1>3. ASSUME NEW s \in Sweepers, SweepRetries(s) PROVE Retried(k)' \/ Claimed(k)'
  <2>1. PICK e \in AnyEvent, p \in Levels, d \in Nat : Enqueue(e, p, d, 0) /\ d > 0
    <3> DEFINE x == Head(sweep[s].todo)
    <3>1. sweep[s].todo \in Seq(Entries) /\ sweep[s].todo # <<>>
      BY <1>0, <1>3 DEF Base, TypeInv, DlqType, SweepTypes, SweepRetries
    <3>2. x \in Entries
      BY <3>1
    <3>3. x.event \in AnyEvent /\ x.prio \in Levels /\ x.count \in Nat
      BY <3>2 DEF Entries
    <3>4. Enqueue(x.event, x.prio, x.count + 1, 0)
      BY <1>3 DEF SweepRetries, ModeInv
    <3> HIDE DEF x
    <3>5. x.count + 1 \in Nat /\ x.count + 1 > 0
      BY ONLY <3>3
    <3> QED BY <3>3, <3>4, <3>5
  <2>2. UNCHANGED <<worker, dedup, loop, handler, post>>
    BY <1>3 DEF SweepRetries
  <2>3. UNCHANGED <<Popped, Fetched>> /\ \A f \in Events : Passing(f, k)' => Passing(f, k)
    BY <2>2, PlacesKept DEF Passing
  <2> QED BY <1>0, <2>1, <2>2, <2>3, KeyMade
<1>4. \A l \in Loops : ~Requeue(l)
  BY DEF NotPaused, Requeue
<1> QED BY <1>1, <1>2, <1>3, <1>4 DEF Makes

LEMMA KeyNext ==
  ASSUME PlaceInv, ModeInv, KeyInv, [Next]_vars
  PROVE  KeyInv'
<1> SUFFICES ASSUME sigterms' = 0, pauses' = 0
             PROVE  /\ phase' # "draining" /\ NotPaused'
                    /\ \A k \in AnyKey : Retried(k)' \/ Claimed(k)'
  BY DEF KeyInv
<1>0. Base /\ FreshInv /\ HoldInv /\ sigterms \in Nat /\ pauses \in Nat
  BY DEF PlaceInv, Base, TypeInv, CountType
<1>1. sigterms' \in {sigterms, sigterms + 1} /\ pauses' \in {pauses, pauses + 1}
  BY CountSteps DEF Counts, Counted
<1>2. /\ sigterms = 0 /\ sigterms' # sigterms + 1 /\ pauses = 0 /\ pauses' # pauses + 1
  BY ONLY <1>0, <1>1, sigterms' = 0, pauses' = 0
<1>3. phase # "draining" /\ NotPaused /\ \A k \in AnyKey : Retried(k) \/ Claimed(k)
  BY <1>2 DEF KeyInv
<1>4. /\ dedup \subseteq dedup' \/ \E t \in Ids : Record(t)
      /\ \A e \in Events : handler'[e] \in {"depth", "enqueue"} =>
           handler[e] \in {"depth", "enqueue"} \/ SetDedup(e)
      /\ phase' # "draining" /\ NotPaused'
  BY <1>0, <1>2, <1>3, KeySteps DEF NotPaused
<1>5. ASSUME NEW k \in AnyKey PROVE Retried(k)' \/ Claimed(k)'
  <2>1. CASE Makes
    BY <1>3, <2>1, KeyMakes
  <2>2. CASE ~Makes
    <3>1. UNCHANGED task /\ \A t \in Ids : Still(t)
      BY <1>0, <1>3, <2>2, StillNext
    <3>2. CASE Retried(k)
      BY <3>1, <3>2 DEF Retried
    <3>3. CASE Claimed(k) /\ \E t \in Ids : Record(t)
      BY <1>0, <1>3, <3>3, KeyRecord
    <3>4. CASE Claimed(k) /\ \E e \in Events : SetDedup(e)
      BY <1>0, <3>4, KeySet
    <3>5. CASE Claimed(k) /\ (\A t \in Ids : ~Record(t)) /\ \A e \in Events : ~SetDedup(e)
      BY <1>4, <3>1, <3>5, KeyFrame
    <3> QED BY <1>3, <3>2, <3>3, <3>4, <3>5
  <2> QED BY <2>1, <2>2
<1> QED BY <1>4, <1>5

\* As long as no event is handled while cleanup runs, nobody drains the
\* dead-letter queue, and neither a SIGTERM nor a pause has come: the key that
\* handleEvent sets admits one first attempt at a time, across crashes, restarts
\* and failed Redis commands, until a retry of that key deletes it.
THEOREM KeyHolds ==
  NoEventsAtStartup /\ NoDrains /\ Spec => [](sigterms = 0 /\ pauses = 0 => OneTaskPerKey)
<1>1. ASSUME KeyInv, Base PROVE sigterms = 0 /\ pauses = 0 => OneTaskPerKey
  <2> SUFFICES ASSUME sigterms = 0, pauses = 0, NEW t \in Ids, NEW u \in Ids,
                      FirstAttempt(t), FirstAttempt(u),
                      KeyOf[task[t].event] = KeyOf[task[u].event]
               PROVE  t = u \/ Retried(KeyOf[task[t].event])
    BY DEF OneTaskPerKey
  <2> DEFINE k == KeyOf[task[t].event]
  <2>1. k \in AnyKey
    BY <1>1, StoreShape DEF Tasks, AnyKey
  <2>2. ASSUME NEW v \in Ids, FirstAttempt(v) PROVE v \in InHand
    <3>1. (\E l \in Loops : loop[l].task = v) => v \in Popped \cup Fetched
      BY <1>1, Bounds DEF Base, TypeInv, LoopType, HoldsTask, Popped, Fetched, HandsIn
    <3>2. (\E w \in Workers : worker[w] = v) => v \in Working
      BY DEF Working
    <3>3. Queued(v) => v \in Queue
      BY DEF Queued, Queue, QueueIn
    <3> QED BY <2>2, <3>1, <3>2, <3>3 DEF FirstAttempt, Active, InHand
  <2>3. OfKey(t, k) /\ OfKey(u, k)
    BY <2>2 DEF OfKey, Current
  <2>4. Retried(k) \/ Claimed(k)
    BY <1>1, <2>1 DEF KeyInv
  <2> QED BY <2>3, <2>4 DEF Claimed
<1>2. Init => KeyInv
  <2> SUFFICES ASSUME Init PROVE KeyInv
    OBVIOUS
  <2>1. Base /\ (phase # "draining") /\ NotPaused
    BY BaseNext DEF Init, NotPaused, IdleLoop
  <2>2. InHand = {}
    <3>0. ToSet(<<>>) = {}
      BY DEF ToSet
    <3>1. Queue = {} /\ Popped = {} /\ Fetched = {} /\ Working = {}
      BY <3>0, Bounds DEF Init, IdleLoop, Queue, QueueIn, Popped, Fetched, HandsIn, Working
    <3> QED BY <3>1 DEF InHand
  <2>3. ASSUME NEW k PROVE Claimed(k)
    <3>1. \A t \in Ids : ~OfKey(t, k)
      BY <2>2 DEF Init, OfKey, Current, NoPost, Undone
    <3>2. \A e \in Events : ~Passing(e, k)
      BY DEF Init, Passing
    <3> QED BY <3>1, <3>2 DEF Claimed
  <2> QED BY <2>1, <2>3 DEF KeyInv
<1>3. CASE NoEventsAtStartup /\ NoDrains
  <2>1. PlaceInv /\ ModeInv /\ KeyInv /\ [Next]_vars => PlaceInv' /\ ModeInv' /\ KeyInv'
    BY <1>3, PlaceNext, ModeNext, KeyNext DEF PlaceInv
  <2>2. Init => PlaceInv /\ ModeInv /\ KeyInv
    BY <1>2, PlaceInit, ModeNext
  <2>3. PlaceInv /\ KeyInv => (sigterms = 0 /\ pauses = 0 => OneTaskPerKey)
    BY <1>1 DEF PlaceInv
  <2> QED BY <2>1, <2>2, <2>3, PTL DEF Spec
<1> QED BY <1>3

-----------------------------------------------------------------------------
(* Who holds an event: its task until the dead-letter entry is written, then *)
(* the list or the snapshot of the sweep.                                    *)

\* The timer is the only one to sweep, or the operator is.
OneSweeper == \A r, s \in Sweepers : r = s

Pending(t) == t \in InHand \/ post[t].pc \in Filing
Waiting == {task[t].event : t \in {u \in Ids : Pending(u)}}

EvInj(q) == \A i, j \in DOMAIN q : q[i].event = q[j].event => i = j
Listed(r) == EventsOf(r.todo) \cup EventsOf(r.keep)
SnapOf(r) == /\ EvInj(r.todo) /\ EvInj(r.keep)
             /\ EventsOf(r.todo) \cap EventsOf(r.keep) = {}
InLists == EventsOf(dlq) \cup UNION {Listed(sweep[s]) : s \in Sweepers}

\* A sweep dropped an entry that the stored list still has.
Stale == \E s \in Sweepers : sweep[s].changed

\* An event has one pending task and no entry, or one entry at most; the stored
\* list may say otherwise only until the sweep replaces it.
EventInv ==
  /\ \A t, u \in Ids : Pending(t) /\ Pending(u) /\ task[t].event = task[u].event => t = u
  /\ \A e \in Events : handler[e] # "done" => e \notin Waiting \cup InLists
  /\ \A s \in Sweepers : SnapOf(sweep[s]) /\ Listed(sweep[s]) \cap Waiting = {}
  /\ ~Stale => EvInj(dlq) /\ EventsOf(dlq) \cap Waiting = {}

\* What the lists of the model do to the events and the counts of their entries.
CountsOf(q) == {<<q[i].event, q[i].count>> : i \in DOMAIN q}
CountsIn(r) == CountsOf(r.todo) \cup CountsOf(r.keep)

LEMMA ListTail ==
  ASSUME NEW q \in Seq(Entries), q # <<>>
  PROVE  /\ Tail(q) \in Seq(Entries) /\ Head(q) \in Entries
         /\ Head(q).event \in EventsOf(q) /\ <<Head(q).event, Head(q).count>> \in CountsOf(q)
         /\ EventsOf(Tail(q)) \subseteq EventsOf(q) /\ CountsOf(Tail(q)) \subseteq CountsOf(q)
         /\ EvInj(q) => EvInj(Tail(q)) /\ Head(q).event \notin EventsOf(Tail(q))
<1>1. /\ Tail(q) \in Seq(Entries) /\ Head(q) \in Entries /\ Head(q) = q[1]
      /\ 1 \in DOMAIN q
  OBVIOUS
<1>2. \A i \in DOMAIN Tail(q) :
        i \in Nat /\ i + 1 \in DOMAIN q /\ Tail(q)[i] = q[i + 1] /\ i + 1 # 1
  OBVIOUS
<1>3. EventsOf(Tail(q)) \subseteq EventsOf(q) /\ CountsOf(Tail(q)) \subseteq CountsOf(q)
  BY <1>2 DEF EventsOf, CountsOf
<1>4. ASSUME EvInj(q) PROVE EvInj(Tail(q)) /\ Head(q).event \notin EventsOf(Tail(q))
  <2>1. ASSUME NEW i \in DOMAIN Tail(q), NEW j \in DOMAIN Tail(q),
               Tail(q)[i].event = Tail(q)[j].event
        PROVE  i = j
    <3>1. i + 1 = j + 1 /\ i \in Nat /\ j \in Nat
      BY <1>2, <1>4, <2>1 DEF EvInj
    <3> QED BY ONLY <3>1
  <2>2. ASSUME NEW i \in DOMAIN Tail(q) PROVE Tail(q)[i].event # Head(q).event
    BY <1>1, <1>2, <1>4 DEF EvInj
  <2> QED BY <2>1, <2>2 DEF EvInj, EventsOf
<1> QED BY <1>1, <1>3, <1>4 DEF EventsOf, CountsOf

LEMMA ListAppend ==
  ASSUME NEW q \in Seq(Entries), NEW x \in Entries
  PROVE  /\ EventsOf(Append(q, x)) = EventsOf(q) \cup {x.event}
         /\ CountsOf(Append(q, x)) = CountsOf(q) \cup {<<x.event, x.count>>}
         /\ EvInj(q) /\ x.event \notin EventsOf(q) => EvInj(Append(q, x))
<1> DEFINE a == Append(q, x)
           n == Len(q) + 1
<1>1. /\ Len(q) \in Nat /\ DOMAIN q = 1..Len(q) /\ DOMAIN a = 1..n /\ a[n] = x
      /\ \A i \in DOMAIN q : a[i] = q[i]
  OBVIOUS
<1> HIDE DEF a
<1>2. \A m \in Nat : 1..(m + 1) = 1..m \cup {m + 1} /\ m + 1 \notin 1..m
  OBVIOUS
<1>3. DOMAIN a = DOMAIN q \cup {n} /\ n \notin DOMAIN q
  BY <1>1, <1>2
<1> HIDE DEF n
<1>4. /\ n \in DOMAIN a /\ a[n] = x
      /\ \A i \in DOMAIN q : i \in DOMAIN a /\ i # n /\ a[i] = q[i]
      /\ \A i \in DOMAIN a : i = n \/ (i \in DOMAIN q /\ a[i] = q[i])
  BY <1>1, <1>3
<1>5. EventsOf(a) = EventsOf(q) \cup {x.event}
  BY ONLY <1>4 DEF EventsOf
<1>6. CountsOf(a) = CountsOf(q) \cup {<<x.event, x.count>>}
  BY ONLY <1>4 DEF CountsOf
<1>7. EvInj(q) /\ x.event \notin EventsOf(q) => EvInj(a)
  BY ONLY <1>4 DEF EvInj, EventsOf
<1> QED BY <1>5, <1>6, <1>7 DEF a

LEMMA ListPush ==
  ASSUME NEW q \in Seq(Entries), NEW x \in Entries
  PROVE  /\ EventsOf(<<x>> \o q) = EventsOf(q) \cup {x.event}
         /\ CountsOf(<<x>> \o q) = CountsOf(q) \cup {<<x.event, x.count>>}
         /\ EvInj(q) /\ x.event \notin EventsOf(q) => EvInj(<<x>> \o q)
<1> DEFINE a == <<x>> \o q
<1>1. /\ DOMAIN q = 1..Len(q) /\ Len(q) \in Nat /\ DOMAIN a = 1..(Len(q) + 1) /\ a[1] = x
      /\ \A i \in DOMAIN q : a[i + 1] = q[i]
  OBVIOUS
<1> HIDE DEF a
<1>2. /\ 1 \in DOMAIN a /\ \A i \in DOMAIN q : i + 1 \in DOMAIN a
      /\ \A i \in DOMAIN a : i = 1 \/ (i - 1 \in DOMAIN q /\ i = (i - 1) + 1)
  <2>1. \A m \in Nat : /\ 1 \in 1..(m + 1) /\ \A i \in 1..m : i + 1 \in 1..(m + 1)
                       /\ \A i \in 1..(m + 1) : i = 1 \/ (i - 1 \in 1..m /\ i = (i - 1) + 1)
    OBVIOUS
  <2> QED BY <1>1, <2>1
<1>3. \A i \in DOMAIN a : i = 1 \/ \E j \in DOMAIN q : i = j + 1 /\ a[i] = q[j]
  BY <1>1, <1>2
<1>4. EventsOf(a) = EventsOf(q) \cup {x.event}
  BY <1>1, <1>2, <1>3 DEF EventsOf
<1>5. CountsOf(a) = CountsOf(q) \cup {<<x.event, x.count>>}
  BY <1>1, <1>2, <1>3 DEF CountsOf
<1>6. ASSUME EvInj(q), x.event \notin EventsOf(q) PROVE EvInj(a)
  BY <1>1, <1>3, <1>6 DEF EvInj, EventsOf
<1> QED BY <1>4, <1>5, <1>6 DEF a

LEMMA ListPrefix ==
  ASSUME NEW q \in Seq(Entries), NEW n \in Nat, n <= Len(q)
  PROVE  /\ EventsOf(SubSeq(q, 1, n)) \subseteq EventsOf(q)
         /\ CountsOf(SubSeq(q, 1, n)) \subseteq CountsOf(q)
         /\ EvInj(q) => EvInj(SubSeq(q, 1, n))
<1> DEFINE a == SubSeq(q, 1, n)
<1>1. \A i \in DOMAIN a : i \in DOMAIN q /\ a[i] = q[i]
  OBVIOUS
<1> HIDE DEF a
<1>2. EventsOf(a) \subseteq EventsOf(q) /\ CountsOf(a) \subseteq CountsOf(q)
      /\ (EvInj(q) => EvInj(a))
  BY <1>1 DEF EventsOf, CountsOf, EvInj
<1> QED BY <1>2 DEF a

LEMMA ListEmpty == EventsOf(<<>>) = {} /\ CountsOf(<<>>) = {} /\ EvInj(<<>>)
BY DEF EventsOf, CountsOf, EvInj

\* A sweep turns to the next entry: it keeps the one it looked at or not.
LEMMA SnapMoves ==
  ASSUME NEW q \in SweepTypes, q.todo # <<>>, NEW r, r.todo = Tail(q.todo),
         \/ r.keep = q.keep
         \/ \E y \in Entries : /\ y.event = Head(q.todo).event /\ y.count = Head(q.todo).count
                               /\ r.keep = Append(q.keep, y)
  PROVE  /\ Listed(r) \subseteq Listed(q) /\ Head(q.todo).event \in Listed(q)
         /\ CountsOf(r.todo) \cup CountsOf(r.keep) \subseteq CountsOf(q.todo) \cup CountsOf(q.keep)
         /\ SnapOf(q) => SnapOf(r) /\ (r.keep = q.keep => Head(q.todo).event \notin Listed(r))
<1>1. q.todo \in Seq(Entries) /\ q.keep \in Seq(Entries)
  BY DEF SweepTypes
<1>2. /\ Head(q.todo).event \in EventsOf(q.todo)
      /\ <<Head(q.todo).event, Head(q.todo).count>> \in CountsOf(q.todo)
      /\ EventsOf(r.todo) \subseteq EventsOf(q.todo) /\ CountsOf(r.todo) \subseteq CountsOf(q.todo)
      /\ EvInj(q.todo) => EvInj(r.todo) /\ Head(q.todo).event \notin EventsOf(r.todo)
  BY <1>1, ListTail
<1>3. CASE r.keep = q.keep
  BY <1>2, <1>3 DEF Listed, SnapOf
<1>4. CASE r.keep # q.keep
  <2>1. PICK y \in Entries : /\ y.event = Head(q.todo).event /\ y.count = Head(q.todo).count
                             /\ r.keep = Append(q.keep, y)
    BY <1>4
  <2>2. /\ EventsOf(r.keep) = EventsOf(q.keep) \cup {y.event}
        /\ CountsOf(r.keep) = CountsOf(q.keep) \cup {<<y.event, y.count>>}
        /\ EvInj(q.keep) /\ y.event \notin EventsOf(q.keep) => EvInj(r.keep)
    BY <1>1, <2>1, ListAppend
  <2>3. SnapOf(q) => SnapOf(r)
    BY <1>2, <2>1, <2>2 DEF SnapOf
  <2>4. Listed(r) \subseteq Listed(q) /\ Head(q.todo).event \in Listed(q)
    BY <1>2, <2>1, <2>2 DEF Listed
  <2>5. CountsOf(r.todo) \cup CountsOf(r.keep) \subseteq CountsOf(q.todo) \cup CountsOf(q.keep)
    BY <1>2, <2>1, <2>2
  <2> QED BY <1>4, <2>3, <2>4, <2>5
<1> QED BY <1>3, <1>4

\* The steps a process makes that is up and neither stops nor is told to.
Sweeps == \E s \in Sweepers : SweepStep(s) \/ \E m \in SweepModes : SweepBegin(s, m)
Files == \E t \in Ids : PushToDlq(t) \/ Trim(t)

LEMMA UpSteps ==
  ASSUME Base, HoldInv, phase = "up", [Next]_vars, stops' # stops + 1, sigterms' # sigterms + 1
  PROVE  /\ UNCHANGED phase
         /\ \A e \in Events : handler'[e] # "done" => handler[e] # "done"
         /\ UNCHANGED <<dlq, sweep>> \/ Sweeps \/ Files
         /\ UNCHANGED retries \/ \E s \in Sweepers : SweepRetries(s)
<1> DEFINE Goes == \A e \in Events : handler'[e] # "done" => handler[e] # "done"
           Good == /\ UNCHANGED phase /\ Goes
                   /\ UNCHANGED <<dlq, sweep>> \/ Sweeps \/ Files
                   /\ UNCHANGED retries \/ \E s \in Sweepers : SweepRetries(s)
<1>0. handler \in [Events -> {"new", "flood", "corr", "dedup", "depth", "enqueue", "done"}]
  BY DEF Base, TypeInv, HandlerType
<1>1. ASSUME NEW e \in Events, Arrive(e) \/ HandlerStep(e) \/ HandlerError(e)
      PROVE  Good
  <2>1. UNCHANGED <<phase, dlq, sweep, retries>>
    BY <1>1 DEF Arrive, HandlerStep, HandlerError, FloodGuard, SetCorrelation, SetDedup,
                ReadDepth, EnqueueEvent, Answer, Goto
  <2>2. handler[e] # "done" /\ \A f \in Events \ {e} : handler'[f] = handler[f]
    BY <1>0, <1>1 DEF Arrive, HandlerStep, HandlerError, FloodGuard, SetCorrelation,
                SetDedup, ReadDepth, EnqueueEvent, Goto, Answer
  <2> QED BY <2>1, <2>2
<1>2. ASSUME Poll \/ Pause \/ UNCHANGED vars PROVE Good
  BY <1>2 DEF Poll, Pause, vars
<1>3. ~Sigterm /\ ~DrainAdd /\ ~Exit /\ ~RestartStep /\ \A w \in Workers : ~DrainMark(w)
  BY DEF Sigterm, DrainAdd, DrainMark, Exit, Drained, RestartStep, Start, RecoverEnd, FlushEnd,
         RecoverTask, FlushTask, HoldInv
<1>4. ASSUME NEW l \in Loops, LoopStep(l) \/ LoopError(l) PROVE Good
  BY <1>4 DEF LoopStep, Peek, Promote, Pop, Fetch, Requeue, Assign, LoopError
<1>5. ASSUME NEW w \in Workers, NEW r \in Outcomes, WorkerEnd(w, r) PROVE Good
  BY <1>5 DEF WorkerEnd
<1>6. ASSUME NEW t \in Ids, PostStep(t) \/ RecordError(t) \/ PushError(t) \/ HashExpires(t)
      PROVE  Good
  <2>1. UNCHANGED <<phase, handler, retries>> /\ (UNCHANGED <<dlq, sweep>> \/ Files)
    BY <1>6 DEF PostStep, Record, Retry, PushToDlq, Trim, RecordError, PushError, HashExpires, Files
  <2> QED BY <2>1
<1>7. ASSUME NEW k \in Keys, CircuitAges(k) PROVE Good
  BY <1>7 DEF CircuitAges
<1>8. ASSUME NEW s \in Sweepers, SweepStep(s) \/ \E m \in SweepModes : SweepBegin(s, m)
      PROVE  Good
  <2>1. UNCHANGED <<phase, handler>> /\ (UNCHANGED retries \/ SweepRetries(s))
    BY <1>8 DEF SweepStep, SweepGivesUp, SweepSkips, SweepRetries, SweepArchives, SweepEnd,
                SweepBegin
  <2> QED BY <1>8, <2>1 DEF Sweeps
<1> HIDE DEF Good, Goes
<1>9. Good
  BY <1>1, <1>2, <1>3, <1>4, <1>5, <1>6, <1>7, <1>8 DEF Next
<1> QED BY <1>9 DEF Good, Goes

\* Nobody gets a task or an entry.
LEMMA EventFrame ==
  ASSUME EventInv, UNCHANGED <<task, dlq, sweep>>, \A t \in Ids : Pending(t)' => Pending(t),
         \A e \in Events : handler'[e] # "done" => handler[e] # "done"
  PROVE  EventInv'
<1>1. Waiting' \subseteq Waiting
  BY DEF Waiting
<1>2. UNCHANGED <<InLists, Stale>>
  BY DEF InLists, Stale
<1> QED BY <1>1, <1>2 DEF EventInv

\* A new task for an event that no other pending task and no entry has.
LEMMA EventMade ==
  ASSUME EventInv, UNCHANGED dlq, NEW x \in Ids, NEW e, task'[x].event = e,
         \A t \in Ids \ {x} : /\ task'[t] = task[t] /\ (Pending(t)' => Pending(t))
                              /\ Pending(t)' => task[t].event # e,
         e \in Events => handler'[e] = "done",
         \A f \in Events : handler'[f] # "done" => handler[f] # "done",
         \A s \in Sweepers : /\ SnapOf(sweep'[s]) /\ Listed(sweep'[s]) \subseteq Listed(sweep[s])
                             /\ e \notin Listed(sweep'[s]),
         Stale' \/ (~Stale /\ e \notin EventsOf(dlq))
  PROVE  EventInv'
<1>1. Waiting' \subseteq Waiting \cup {e}
  BY DEF Waiting
<1>2. InLists' \subseteq InLists
  BY DEF InLists
<1>3. \A t, u \in Ids : Pending(t)' /\ Pending(u)' /\ task'[t].event = task'[u].event => t = u
  BY DEF EventInv
<1>4. \A f \in Events : handler'[f] # "done" => f \notin Waiting' \cup InLists'
  BY <1>1, <1>2 DEF EventInv
<1>5. \A s \in Sweepers : SnapOf(sweep'[s]) /\ Listed(sweep'[s]) \cap Waiting' = {}
  BY <1>1 DEF EventInv
<1>6. ~Stale' => EvInj(dlq') /\ EventsOf(dlq') \cap Waiting' = {}
  BY <1>1 DEF EventInv
<1> QED BY <1>3, <1>4, <1>5, <1>6 DEF EventInv

\* A step that makes no task leaves fewer tasks pending.
LEMMA PendingKept ==
  ASSUME Base, HoldInv, phase = "up", [Next]_vars, ~Makes
  PROVE  UNCHANGED task /\ \A t \in Ids : Pending(t)' => Pending(t)
<1>1. UNCHANGED task /\ \A t \in Ids : Still(t)
  BY StillNext
<1> QED BY <1>1 DEF Still, Pending

\* A task is enqueued in place of one that is given up.
LEMMA EventReplaced ==
  ASSUME Base, FreshInv, EventInv, NEW t \in Ids, Pending(t), ~Pending(t)',
         NEW p \in Levels, NEW n \in Nat, Enqueue(task[t].event, p, 0, n),
         Popped' \subseteq Popped, Fetched' \subseteq Fetched,
         UNCHANGED <<worker, dlq, sweep, handler>>,
         \A u \in Ids : post'[u].pc \in {post[u].pc, "none"}
  PROVE  EventInv'
<1>0. task[t].event \in AnyEvent
  BY StoreShape DEF Tasks
<1>1. PICK x \in Ids :
        /\ Nowhere(x) /\ task'[x].event = task[t].event
        /\ \A u \in Ids \ {x} : task'[u] = task[u] /\ (u \in InHand' => u \in InHand)
  BY <1>0, MadeTask
<1>2. \A u \in Ids \ {x} : Pending(u)' => Pending(u) /\ u # t
  BY <1>1 DEF Pending, Filing
<1>3. \A u \in Ids \ {x} : Pending(u)' => task[u].event # task[t].event
  BY <1>2 DEF EventInv
<1>4. task[t].event \in Waiting
  BY DEF Waiting
<1>5. task[t].event \in Events => handler[task[t].event] = "done"
  BY <1>4 DEF EventInv
<1>6. \A s \in Sweepers : SnapOf(sweep[s]) /\ task[t].event \notin Listed(sweep[s])
  BY <1>4 DEF EventInv
<1>7. UNCHANGED Stale /\ (~Stale => task[t].event \notin EventsOf(dlq))
  BY <1>4 DEF EventInv, Stale
<1> QED BY <1>1, <1>2, <1>3, <1>5, <1>6, <1>7, EventMade

LEMMA EventMakes ==
  ASSUME OneSweeper, Base, FreshInv, HoldInv, EventInv, phase = "up", Makes
  PROVE  EventInv'
<1>0. handler \in [Events -> {"new", "flood", "corr", "dedup", "depth", "enqueue", "done"}]
      /\ sweep \in [Sweepers -> SweepTypes]
  BY DEF Base, TypeInv, HandlerType, DlqType
<1>1. ASSUME NEW e \in Events, EnqueueEvent(e) PROVE EventInv'
  <2>1. e \in AnyEvent /\ PriorityOf[e] \in Levels /\ Enqueue(e, PriorityOf[e], 0, 0)
        /\ UNCHANGED <<Popped, Fetched>>
    BY <1>1, EventEnqueues
  <2>2. UNCHANGED <<worker, post, dlq, sweep>> /\ handler[e] = "enqueue"
        /\ handler' = [handler EXCEPT ![e] = "done"]
    BY <1>1 DEF EnqueueEvent, Answer
  <2>3. PICK x \in Ids :
          /\ Nowhere(x) /\ task'[x].event = e
          /\ \A u \in Ids \ {x} : task'[u] = task[u] /\ (u \in InHand' => u \in InHand)
    BY <2>1, <2>2, MadeTask
  <2>4. \A u \in Ids \ {x} : Pending(u)' => Pending(u)
    BY <2>2, <2>3 DEF Pending
  <2>5. e \notin Waiting \cup InLists
    BY <2>2 DEF EventInv
  <2>6. \A u \in Ids \ {x} : Pending(u)' => task[u].event # e
    BY <2>4, <2>5 DEF Waiting
  <2>7. UNCHANGED Stale /\ e \notin EventsOf(dlq) /\ \A s \in Sweepers : e \notin Listed(sweep[s])
    BY <2>2, <2>5 DEF Stale, InLists
  <2>8. \A s \in Sweepers : SnapOf(sweep[s])
    BY DEF EventInv
  <2>9. handler'[e] = "done" /\ \A f \in Events : handler'[f] # "done" => handler[f] # "done"
    BY <1>0, <2>2
  <2> QED BY <2>2, <2>3, <2>4, <2>6, <2>7, <2>8, <2>9, EventMade
<1>2. ASSUME NEW t \in Ids, Retry(t) PROVE EventInv'
  <2>1. /\ task[t].prio \in Levels /\ task[t].tmoCount + 1 \in Nat
        /\ Enqueue(task[t].event, task[t].prio, 0, task[t].tmoCount + 1)
    BY <1>2, RetryEnqueues
  <2>2. /\ UNCHANGED <<worker, loop, handler, dlq, sweep>> /\ post[t].pc = "retry"
        /\ post' = [post EXCEPT ![t] = NoPost]
    BY <1>2 DEF Retry, Leave
  <2>3. UNCHANGED <<Popped, Fetched, Working>>
    BY <2>2, PlacesKept
  <2>4. \A u \in Ids : post'[u].pc \in {post[u].pc, "none"}
    BY <2>2, StoreShape DEF NoPost
  <2>5. post'[t].pc = "none"
    BY <2>2, StoreShape DEF NoPost
  <2>6. Pending(t) /\ t \notin InHand
    BY <2>2 DEF Pending, Filing, HoldInv, Apart, Double, InHand
  <2>7. t \notin Queue'
    <3>1. used + 1 # t /\ Queue' = Queue \cup {used + 1}
      <4>1. Queue' = Queue \cup {used + 1} /\ used + 1 \in Ids
        BY <2>1, EnqueueEffect, StoreShape DEF Tasks
      <4>2. used \in Nat
        BY StoreShape
      <4>3. used + 1 > used
        BY ONLY <4>2
      <4>4. Nowhere(used + 1)
        BY <4>1, <4>3 DEF FreshInv
      <4> QED BY <2>2, <4>1, <4>4 DEF Nowhere, NoPost
    <3> QED BY <2>6, <3>1 DEF InHand
  <2>8. ~Pending(t)'
    BY <2>3, <2>5, <2>6, <2>7 DEF Pending, Filing, InHand
  <2> QED BY <2>1, <2>2, <2>3, <2>4, <2>6, <2>8, EventReplaced
<1>3. ASSUME NEW l \in Loops, Requeue(l) PROVE EventInv'
  <2>1. PICK t \in Ids :
          /\ dispatching /\ Fetched = {t} /\ Popped = {} /\ Popped' = {} /\ Fetched' = {}
          /\ task[t].prio \in Levels /\ Enqueue(task[t].event, task[t].prio, 0, 0)
    BY <1>3, RequeueEffect
  <2>2. UNCHANGED <<worker, handler, dlq, sweep, post>>
    BY <1>3 DEF Requeue
  <2>3. Pending(t) /\ t \notin Queue \cup Working /\ post[t].pc = "none"
    BY <2>1 DEF Pending, HoldInv, Apart, InHand
  <2>4. t \notin Queue'
    <3>1. Queue' = Queue \cup {used + 1} /\ used + 1 \in Ids
      BY <2>1, EnqueueEffect, StoreShape DEF Tasks
    <3>2. used \in Nat
      BY StoreShape
    <3>3. used + 1 > used
      BY ONLY <3>2
    <3>4. Nowhere(used + 1)
      BY <3>1, <3>3 DEF FreshInv
    <3>5. used + 1 # t
      BY <2>1, <3>4 DEF Nowhere
    <3> QED BY <2>3, <3>1, <3>5
  <2>5. ~Pending(t)'
    BY <2>1, <2>2, <2>3, <2>4, PlacesKept DEF Pending, Filing, InHand
  <2> QED BY <2>1, <2>2, <2>3, <2>5, EventReplaced
<1>4. ASSUME NEW s \in Sweepers, SweepRetries(s) PROVE EventInv'
  <2> DEFINE q == sweep[s]
             e == Head(q.todo).event
  <2>1. /\ q \in SweepTypes /\ q.todo # <<>> /\ q.todo \in Seq(Entries)
        /\ UNCHANGED <<worker, loop, handler, dlq, post>>
        /\ sweep'[s].todo = Tail(q.todo) /\ sweep'[s].keep = q.keep /\ sweep'[s].changed
    BY <1>0, <1>4 DEF SweepRetries, SweepDrops, SweepTypes
  <2>2. e \in AnyEvent /\ \E p \in Levels, d \in Nat : Enqueue(e, p, d, 0)
    <3> DEFINE x == Head(q.todo)
    <3>1. x \in Entries
      BY <2>1
    <3>2. x.event \in AnyEvent /\ x.prio \in Levels /\ x.count \in Nat /\ x.count + 1 \in Nat
          /\ 3 \in Levels /\ 0 \in Nat
      BY <3>1 DEF Entries, Levels
    <3>3. \/ Enqueue(x.event, x.prio, x.count + 1, 0)
          \/ Enqueue(x.event, 3, 0, 0)
          \/ Enqueue(x.event, x.prio, 0, 0)
          \/ Enqueue(x.event, 3, x.count + 1, 0)
      BY <1>4 DEF SweepRetries
    <3> HIDE DEF x
    <3>4. \E p \in Levels, d \in Nat : Enqueue(x.event, p, d, 0)
      BY <3>2, <3>3
    <3> QED BY <3>2, <3>4 DEF x
  <2> HIDE DEF e
  <2>3. /\ Listed(sweep'[s]) \subseteq Listed(q) /\ e \in Listed(q)
        /\ SnapOf(sweep'[s]) /\ e \notin Listed(sweep'[s])
    <3>1. SnapOf(q)
      BY DEF EventInv
    <3>2. LET r == sweep'[s] IN
          /\ Listed(r) \subseteq Listed(q) /\ Head(q.todo).event \in Listed(q)
          /\ SnapOf(q) => SnapOf(r) /\ (r.keep = q.keep => Head(q.todo).event \notin Listed(r))
      BY <2>1, SnapMoves
    <3> QED BY <2>1, <3>1, <3>2 DEF e
  <2>4. \A r \in Sweepers : r = s
    BY DEF OneSweeper
  <2>5. Stale' /\ e \notin Waiting /\ (e \in Events => handler[e] = "done")
    BY <2>1, <2>3 DEF Stale, EventInv, InLists
  <2>6. PICK x \in Ids :
          /\ Nowhere(x) /\ task'[x].event = e
          /\ \A u \in Ids \ {x} : task'[u] = task[u] /\ (u \in InHand' => u \in InHand)
    BY <2>1, <2>2, PlacesKept, MadeTask
  <2>7. \A u \in Ids \ {x} : (Pending(u)' => Pending(u)) /\ (Pending(u)' => task[u].event # e)
    BY <2>1, <2>5, <2>6 DEF Pending, Waiting
  <2> QED BY <2>1, <2>3, <2>4, <2>5, <2>6, <2>7, EventMade
<1> QED BY <1>1, <1>2, <1>3, <1>4 DEF Makes

LEMMA EventFiles ==
  ASSUME Base, HoldInv, EventInv, phase = "up", NEW t \in Ids, PushToDlq(t) \/ Trim(t)
  PROVE  EventInv'
<1>0. /\ UNCHANGED <<task, sweep, handler>> /\ dlq \in Seq(Entries)
      /\ \A u \in Ids : Pending(u)' => Pending(u)
  <2>1. UNCHANGED <<task, sweep, handler>> /\ \A u \in Ids : Still(u)
    BY StillPost DEF PushToDlq, Trim
  <2> QED BY <2>1 DEF Base, TypeInv, DlqType, Still, Pending
<1>1. Waiting' \subseteq Waiting /\ UNCHANGED Stale
  BY <1>0 DEF Waiting, Stale
<1>2. \A s \in Sweepers : SnapOf(sweep'[s]) /\ Listed(sweep'[s]) \cap Waiting' = {}
  BY <1>0, <1>1 DEF EventInv
<1>3. \A u, v \in Ids : Pending(u)' /\ Pending(v)' /\ task'[u].event = task'[v].event => u = v
  BY <1>0 DEF EventInv
<1>4. CASE PushToDlq(t)
  <2>1. post[t].pc = "push" /\ dlq' = <<Entry(t)>> \o dlq /\ post' = [post EXCEPT ![t].pc = "trim"]
    BY <1>4 DEF PushToDlq
  <2>2. Pending(t) /\ task[t].event \in Waiting /\ Entry(t).event = task[t].event
    BY <2>1 DEF Pending, Filing, Waiting, Entry
  <2>3. Entry(t) \in Entries
    BY <2>1, StoreShape, Bounds DEF Entry, Entries, EntryCount, Tasks
  <2>4. /\ EventsOf(dlq') = EventsOf(dlq) \cup {task[t].event}
        /\ EvInj(dlq) /\ task[t].event \notin EventsOf(dlq) => EvInj(dlq')
    BY <1>0, <2>1, <2>2, <2>3, ListPush
  <2>5. t \notin InHand' /\ post'[t].pc = "trim"
    <3>1. t \notin InHand
      BY <2>1 DEF HoldInv, Apart, Double, InHand
    <3>2. UNCHANGED InHand
      BY <1>4, PlacesKept DEF PushToDlq, InHand
    <3> QED BY <2>1, <3>1, <3>2, StoreShape
  <2>6. ~Pending(t)'
    BY <2>5 DEF Pending, Filing
  <2>7. task[t].event \notin Waiting'
    BY <1>0, <2>2, <2>6 DEF Waiting, EventInv
  <2>8. ~Stale' => EvInj(dlq') /\ EventsOf(dlq') \cap Waiting' = {}
    BY <1>1, <2>2, <2>4, <2>7 DEF EventInv
  <2>9. InLists' \subseteq InLists \cup {task[t].event}
    BY <1>0, <2>4 DEF InLists
  <2>10. \A e \in Events : handler'[e] # "done" => e \notin Waiting' \cup InLists'
    BY <1>0, <1>1, <2>2, <2>9 DEF EventInv
  <2> QED BY <1>2, <1>3, <2>8, <2>10 DEF EventInv
<1>5. CASE Trim(t)
  <2>1. /\ EventsOf(dlq') \subseteq EventsOf(dlq) /\ (EvInj(dlq) => EvInj(dlq'))
    <3> DEFINE n == IF Len(dlq) < DlqMaxSize THEN Len(dlq) ELSE DlqMaxSize
    <3>1. n \in Nat /\ n <= Len(dlq)
      BY <1>0, Bounds
    <3>2. dlq' = SubSeq(dlq, 1, n)
      BY <1>5 DEF Trim, Kept
    <3> HIDE DEF n
    <3> QED BY <1>0, <3>1, <3>2, ListPrefix
  <2>2. InLists' \subseteq InLists
    BY <1>0, <2>1 DEF InLists
  <2>3. ~Stale' => EvInj(dlq') /\ EventsOf(dlq') \cap Waiting' = {}
    BY <1>1, <2>1 DEF EventInv
  <2>4. \A e \in Events : handler'[e] # "done" => e \notin Waiting' \cup InLists'
    BY <1>0, <1>1, <2>2 DEF EventInv
  <2> QED BY <1>2, <1>3, <2>3, <2>4 DEF EventInv
<1> QED BY <1>4, <1>5

\* A sweep looks at an entry and does not retry it.
LEMMA SweepLooks ==
  ASSUME Base, NEW s \in Sweepers, SweepGivesUp(s) \/ SweepSkips(s) \/ SweepArchives(s)
  PROVE  /\ dlq' = dlq /\ Listed(sweep'[s]) \subseteq Listed(sweep[s])
         /\ CountsIn(sweep'[s]) \subseteq CountsIn(sweep[s])
         /\ sweep[s].changed => sweep'[s].changed
         /\ SnapOf(sweep[s]) => SnapOf(sweep'[s])
<1> DEFINE q == sweep[s]
           r == sweep'[s]
<1>0. sweep \in [Sweepers -> SweepTypes]
  BY DEF Base, TypeInv, DlqType
<1>1. /\ dlq' = dlq /\ q.todo # <<>> /\ q \in SweepTypes /\ Head(q.todo) \in Entries
      /\ r.todo = Tail(q.todo) /\ (q.changed => r.changed)
      /\ \/ r.keep = q.keep
         \/ r.keep = Append(q.keep, Head(q.todo))
         \/ r.keep = Append(q.keep, [Head(q.todo) EXCEPT !.permanent = TRUE])
  <2>1. q \in SweepTypes /\ dlq' = dlq /\ q.todo # <<>>
    BY <1>0 DEF SweepGivesUp, SweepSkips, SweepArchives
  <2>2. q.todo \in Seq(Entries) /\ Head(q.todo) \in Entries /\ q.changed \in BOOLEAN
    BY <2>1, ListTail DEF SweepTypes
  <2>3. ASSUME NEW x, NEW c, SweepKeeps(s, x, c)
        PROVE  r.todo = Tail(q.todo) /\ r.keep = Append(q.keep, x)
               /\ r.changed = (q.changed \/ c)
    BY <1>0, <2>3 DEF SweepKeeps, SweepTypes
  <2>4. ASSUME SweepDrops(s)
        PROVE  r.todo = Tail(q.todo) /\ r.keep = q.keep /\ r.changed = TRUE
    BY <1>0, <2>4 DEF SweepDrops, SweepTypes
  <2>5. \/ SweepKeeps(s, Head(q.todo), FALSE) \/ SweepDrops(s)
        \/ SweepKeeps(s, [Head(q.todo) EXCEPT !.permanent = TRUE], ~Head(q.todo).permanent)
    BY DEF SweepGivesUp, SweepSkips, SweepArchives
  <2> HIDE DEF r, q
  <2>6. /\ r.todo = Tail(q.todo) /\ (q.changed => r.changed)
        /\ \/ r.keep = q.keep
           \/ r.keep = Append(q.keep, Head(q.todo))
           \/ r.keep = Append(q.keep, [Head(q.todo) EXCEPT !.permanent = TRUE])
    BY <2>3, <2>4, <2>5
  <2> QED BY <2>1, <2>2, <2>6
<1>2. \/ r.keep = q.keep
      \/ \E y \in Entries : /\ y.event = Head(q.todo).event /\ y.count = Head(q.todo).count
                            /\ r.keep = Append(q.keep, y)
  <2>1. /\ [Head(q.todo) EXCEPT !.permanent = TRUE] \in Entries
        /\ [Head(q.todo) EXCEPT !.permanent = TRUE].event = Head(q.todo).event
        /\ [Head(q.todo) EXCEPT !.permanent = TRUE].count = Head(q.todo).count
    BY <1>1 DEF Entries
  <2> QED BY <1>1, <2>1
<1> HIDE DEF q, r
<1>3. /\ Listed(r) \subseteq Listed(q) /\ (SnapOf(q) => SnapOf(r))
      /\ CountsOf(r.todo) \cup CountsOf(r.keep) \subseteq CountsOf(q.todo) \cup CountsOf(q.keep)
  BY <1>1, <1>2, SnapMoves
<1>4. CountsIn(r) \subseteq CountsIn(q)
  BY <1>3 DEF CountsIn
<1> QED BY <1>1, <1>3, <1>4 DEF q, r

\* A sweep takes its snapshot, looks at an entry or writes the list back.
LEMMA EventSweeps ==
  ASSUME OneSweeper, Base, EventInv, NEW s \in Sweepers, ~SweepRetries(s),
         SweepStep(s) \/ \E m \in SweepModes : SweepBegin(s, m)
  PROVE  EventInv'
<1>0. /\ UNCHANGED <<task, handler, zset, loop, worker, post>> /\ dlq \in Seq(Entries)
      /\ sweep \in [Sweepers -> SweepTypes]
      /\ \A r \in Sweepers : r = s
  BY DEF SweepStep, SweepGivesUp, SweepSkips, SweepArchives, SweepEnd, SweepBegin, Base, TypeInv,
         DlqType, OneSweeper
<1>1. UNCHANGED Waiting /\ \A t \in Ids : Pending(t)' <=> Pending(t)
  BY <1>0, PlacesKept DEF Waiting, Pending, InHand
<1>2. (Stale <=> sweep[s].changed) /\ (Stale' <=> sweep'[s].changed)
      /\ InLists = EventsOf(dlq) \cup Listed(sweep[s])
      /\ InLists' = EventsOf(dlq') \cup Listed(sweep'[s])
      /\ SnapOf(sweep[s]) /\ Listed(sweep[s]) \cap Waiting = {}
  BY <1>0 DEF Stale, InLists, EventInv
<1>3. ASSUME EventsOf(dlq') \cup Listed(sweep'[s]) \subseteq EventsOf(dlq) \cup Listed(sweep[s]),
             SnapOf(sweep'[s]), Listed(sweep'[s]) \cap Waiting = {},
             ~sweep'[s].changed => EvInj(dlq') /\ EventsOf(dlq') \cap Waiting = {}
      PROVE  EventInv'
  <2>1. \A e \in Events : handler'[e] # "done" => e \notin Waiting' \cup InLists'
    BY <1>0, <1>1, <1>2, <1>3 DEF EventInv
  <2>2. \A r \in Sweepers : SnapOf(sweep'[r]) /\ Listed(sweep'[r]) \cap Waiting' = {}
    BY <1>0, <1>1, <1>3
  <2>3. ~Stale' => EvInj(dlq') /\ EventsOf(dlq') \cap Waiting' = {}
    BY <1>1, <1>2, <1>3
  <2>4. \A t, u \in Ids : Pending(t)' /\ Pending(u)' /\ task'[t].event = task'[u].event => t = u
    BY <1>0, <1>1 DEF EventInv
  <2> QED BY <2>1, <2>2, <2>3, <2>4 DEF EventInv
<1>4. CASE \E m \in SweepModes : SweepBegin(s, m)
  <2>1. /\ dlq' = dlq /\ sweep'[s].todo = dlq /\ sweep'[s].keep = <<>> /\ ~sweep'[s].changed
        /\ sweep[s].pc = "idle"
    <3>1. PICK m \in SweepModes : SweepBegin(s, m)
      BY <1>4
    <3>2. /\ sweep'[s] = [IdleSweep EXCEPT !.pc = "entries", !.mode = m, !.todo = dlq]
          /\ dlq' = dlq /\ sweep[s].pc = "idle"
      BY <1>0, <3>1 DEF SweepBegin
    <3> QED BY <3>2 DEF IdleSweep
  <2>2. ~sweep[s].changed
    BY <1>0, <2>1 DEF Base, TypeInv, DlqType, IdleSweep
  <2>3. EvInj(dlq) /\ EventsOf(dlq) \cap Waiting = {}
    BY <1>2, <2>2 DEF EventInv
  <2> QED BY <1>3, <2>1, <2>3, ListEmpty DEF SnapOf, Listed
<1>5. CASE SweepEnd(s)
  <2>1. /\ dlq' = IF sweep[s].changed THEN sweep[s].keep ELSE dlq
        /\ sweep'[s].todo = <<>> /\ sweep'[s].keep = <<>> /\ ~sweep'[s].changed
    BY <1>0, <1>5 DEF SweepEnd, IdleSweep
  <2>2. EvInj(dlq') /\ EventsOf(dlq') \cap Waiting = {}
        /\ EventsOf(dlq') \subseteq EventsOf(dlq) \cup Listed(sweep[s])
    BY <1>2, <2>1 DEF EventInv, SnapOf, Listed
  <2> QED BY <1>3, <2>1, <2>2, ListEmpty DEF SnapOf, Listed
<1>6. CASE SweepGivesUp(s) \/ SweepSkips(s) \/ SweepArchives(s)
  <2>1. /\ dlq' = dlq /\ Listed(sweep'[s]) \subseteq Listed(sweep[s])
        /\ (sweep[s].changed => sweep'[s].changed) /\ SnapOf(sweep'[s])
    BY <1>2, <1>6, SweepLooks
  <2>2. ~sweep'[s].changed => EvInj(dlq) /\ EventsOf(dlq) \cap Waiting = {}
    BY <1>2, <2>1 DEF EventInv
  <2> QED BY <1>2, <1>3, <2>1, <2>2
<1> QED BY <1>4, <1>5, <1>6 DEF SweepStep

LEMMA EventNext ==
  ASSUME OneSweeper, Base, FreshInv, HoldInv, EventInv, phase = "up", [Next]_vars,
         stops' # stops + 1, sigterms' # sigterms + 1
  PROVE  EventInv'
<1>1. /\ \A e \in Events : handler'[e] # "done" => handler[e] # "done"
      /\ UNCHANGED <<dlq, sweep>> \/ Sweeps \/ Files
  BY UpSteps
<1>2. CASE Makes
  BY <1>2, EventMakes
<1>3. CASE Files
  BY <1>3, EventFiles DEF Files
<1>4. CASE Sweeps /\ ~Makes
  <2>1. \A s \in Sweepers : ~SweepRetries(s)
    BY <1>4 DEF Makes
  <2> QED BY <1>4, <2>1, EventSweeps DEF Sweeps
<1>5. CASE UNCHANGED <<dlq, sweep>> /\ ~Makes
  <2>1. UNCHANGED task /\ \A t \in Ids : Pending(t)' => Pending(t)
    BY <1>5, PendingKept
  <2> QED BY <1>1, <1>5, <2>1, EventFrame
<1> QED BY <1>1, <1>2, <1>3, <1>4, <1>5

\* The process neither stopped nor was told to.
Undisturbed == stops = 0 /\ sigterms = 0
UpInv == Undisturbed => phase = "up" /\ HoldInv /\ EventInv

LEMMA UpInit == Init => UpInv
<1> SUFFICES ASSUME Init PROVE UpInv
  OBVIOUS
<1>1. phase = "up" /\ HoldInv
  BY HoldInit DEF Init
<1>2. InHand = {}
  <2>1. ToSet(<<>>) = {}
    BY DEF ToSet
  <2>2. Queue = {} /\ Popped = {} /\ Fetched = {} /\ Working = {}
    BY <2>1, Bounds DEF Init, IdleLoop, Queue, QueueIn, Popped, Fetched, HandsIn, Working
  <2> QED BY <2>2 DEF InHand
<1>3. Waiting = {} /\ \A t \in Ids : ~Pending(t)
  BY <1>2 DEF Init, Waiting, Pending, Filing, NoPost
<1>4. InLists = {} /\ EvInj(dlq) /\ \A s \in Sweepers : SnapOf(sweep[s]) /\ Listed(sweep[s]) = {}
  BY ListEmpty DEF Init, IdleSweep, SnapOf, Listed, InLists
<1> QED BY <1>1, <1>3, <1>4 DEF UpInv, EventInv

\* What Undisturbed says of the step before.
LEMMA UpBefore ==
  ASSUME Base, [Next]_vars, Undisturbed'
  PROVE  Undisturbed /\ stops' # stops + 1 /\ sigterms' # sigterms + 1
<1>1. sigterms' \in {sigterms, sigterms + 1} /\ stops' \in {stops, stops + 1}
  BY CountSteps DEF Counts, Counted
<1>2. sigterms \in Nat /\ stops \in Nat
  BY DEF Base, TypeInv, CountType
<1>3. sigterms' = 0 /\ stops' = 0
  BY DEF Undisturbed
<1>4. sigterms = 0 /\ stops = 0 /\ stops' # stops + 1 /\ sigterms' # sigterms + 1
  BY ONLY <1>1, <1>2, <1>3
<1> QED BY <1>4 DEF Undisturbed

LEMMA UpNext ==
  ASSUME OneSweeper, Base, FreshInv, UpInv, [Next]_vars
  PROVE  UpInv'
<1> SUFFICES ASSUME Undisturbed' PROVE phase' = "up" /\ HoldInv' /\ EventInv'
  BY DEF UpInv
<1>1. /\ phase = "up" /\ HoldInv /\ EventInv
      /\ stops' # stops + 1 /\ sigterms' # sigterms + 1
  BY UpBefore DEF UpInv
<1>2. StartupInv
  BY <1>1 DEF StartupInv, Starting
<1> QED BY <1>1, <1>2, HoldNext, EventNext, UpSteps

LEMMA ActiveInHand ==
  ASSUME Base, NEW t \in Ids, Active(t) PROVE t \in InHand
<1>1. (\E l \in Loops : loop[l].task = t) => t \in Popped \cup Fetched
  BY Bounds DEF Base, TypeInv, LoopType, HoldsTask, Popped, Fetched, HandsIn
<1>2. (\E w \in Workers : worker[w] = t) => t \in Working
  BY DEF Working
<1>3. Queued(t) => t \in Queue
  BY DEF Queued, Queue, QueueIn
<1> QED BY <1>1, <1>2, <1>3 DEF Active, InHand

LEMMA UpInvariant == OneSweeper /\ Spec => [](Base /\ FreshInv /\ UpInv)
<1>1. CASE OneSweeper
  <2>1. Init => Base /\ FreshInv /\ UpInv
    BY BaseNext, FreshInit, UpInit
  <2>2. Base /\ FreshInv /\ UpInv /\ [Next]_vars => Base' /\ FreshInv' /\ UpInv'
    BY <1>1, BaseNext, FreshNext, UpNext
  <2> QED BY <2>1, <2>2, PTL DEF Spec
<1> QED BY <1>1

\* With one sweeper, and as long as the process neither stops nor is told to: an
\* event that is queued, in hand or executing has one task, whatever fails, is
\* paused, retried at once, filed, swept or drained.
THEOREM OneCopy == OneSweeper /\ Spec => [](Undisturbed => OneTaskPerEvent)
<1>1. ASSUME Base, UpInv PROVE Undisturbed => OneTaskPerEvent
  BY <1>1, ActiveInHand DEF UpInv, EventInv, OneTaskPerEvent, Pending
<1> QED BY <1>1, UpInvariant, PTL

-----------------------------------------------------------------------------
(* The retry counters.                                                      *)

\* The first task of the event, whose count is 0.
HasFirst(e) == \E t \in Ids : task[t].event = e /\ task[t].dlqCount = 0

\* The count of a task or an entry is the number of retries there were.
CountedIn(C) == \A c \in C : c[1] \in Events => c[2] = retries[c[1]] \/ CountDropped(c[1])

CapInv ==
  /\ \A e \in Events : handler[e] # "done" => retries[e] = 0
  /\ \A t \in Ids, e \in Events : task[t].event = e => HasFirst(e)
  /\ \A e \in Events : e \in InLists => HasFirst(e)
  /\ \A t \in Ids : Pending(t) => CountedIn({<<task[t].event, task[t].dlqCount>>})
  /\ \A s \in Sweepers : CountedIn(CountsIn(sweep[s]))
  /\ ~Stale => CountedIn(CountsOf(dlq))
  /\ RetryCap

LEMMA CountsEvents ==
  ASSUME NEW q, NEW c \in CountsOf(q) PROVE c[1] \in EventsOf(q)
BY DEF CountsOf, EventsOf

\* No task is made.
LEMMA CapFrame ==
  ASSUME CapInv, UNCHANGED <<task, retries>>, \A t \in Ids : Pending(t)' => Pending(t),
         \A e \in Events : handler'[e] # "done" => handler[e] # "done",
         \A e \in Events : e \in InLists' => HasFirst(e),
         \A s \in Sweepers : CountedIn(CountsIn(sweep'[s])),
         ~Stale' => CountedIn(CountsOf(dlq'))
  PROVE  CapInv'
<1>1. \A e : (CountDropped(e)' <=> CountDropped(e)) /\ (HasFirst(e)' <=> HasFirst(e))
  BY DEF CountDropped, HasFirst
<1>3. \A t \in Ids : Pending(t)' => CountedIn({<<task'[t].event, task'[t].dlqCount>>})
  BY DEF CapInv
<1>4. RetryCap'
  BY <1>1 DEF CapInv, RetryCap
<1>5. \A s \in Sweepers : CountedIn(CountsIn(sweep[s]))'
  BY <1>1 DEF CountedIn, CountsIn
<1>6. ~Stale' => CountedIn(CountsOf(dlq))'
  BY <1>1 DEF CountedIn
<1>7. \A t \in Ids : Pending(t)' => CountedIn({<<task[t].event, task[t].dlqCount>>})'
  BY <1>1, <1>3 DEF CountedIn
<1>8. /\ \A e \in Events : handler'[e] # "done" => retries'[e] = 0
      /\ \A t \in Ids, e \in Events : task'[t].event = e => HasFirst(e)'
      /\ \A e \in Events : e \in InLists' => HasFirst(e)'
  BY <1>1 DEF CapInv
<1> QED BY <1>4, <1>5, <1>6, <1>7, <1>8 DEF CapInv

\* A task that is made leaves the others, and is the second of its event whose
\* count is 0 if it is not the first.
LEMMA DroppedMade ==
  ASSUME NEW x \in Ids, Nowhere(x), \A t \in Ids \ {x} : task'[t] = task[t], NEW f \in Events
  PROVE  /\ CountDropped(f) => CountDropped(f)'
         /\ HasFirst(f) => HasFirst(f)'
         /\ HasFirst(f) /\ task'[x].event = f /\ task'[x].dlqCount = 0 => CountDropped(f)'
<1>1. task[x].event # f
  BY ConstantsAssumption DEF Nowhere, Unused
<1>2. ASSUME CountDropped(f) PROVE CountDropped(f)'
  <2>1. PICK t, u \in Ids : /\ task[t].event = f /\ task[u].event = f /\ t # u
                            /\ task[t].dlqCount = 0 /\ task[u].dlqCount = 0
    BY <1>2 DEF CountDropped
  <2>2. task'[t] = task[t] /\ task'[u] = task[u]
    BY <1>1, <2>1
  <2> QED BY <2>1, <2>2 DEF CountDropped
<1>3. ASSUME HasFirst(f)
      PROVE  HasFirst(f)' /\ (task'[x].event = f /\ task'[x].dlqCount = 0 => CountDropped(f)')
  <2>1. PICK t \in Ids : task[t].event = f /\ task[t].dlqCount = 0
    BY <1>3 DEF HasFirst
  <2>2. t # x /\ task'[t] = task[t]
    BY <1>1, <2>1
  <2> QED BY <2>1, <2>2 DEF HasFirst, CountDropped
<1> QED BY <1>2, <1>3

\* A task is made for e, with the count that was retried or a count that is
\* dropped; in the first case nothing else has e.
LEMMA CapMade ==
  ASSUME CapInv, UNCHANGED dlq, NEW x \in Ids, Nowhere(x), NEW e, task'[x].event = e,
         \A t \in Ids \ {x} : task'[t] = task[t] /\ (Pending(t)' => Pending(t)),
         \A f \in Events \ {e} : retries'[f] = retries[f],
         \A f \in Events : handler'[f] # "done" => handler[f] # "done" /\ f # e,
         \A s \in Sweepers : /\ Listed(sweep'[s]) \subseteq Listed(sweep[s])
                             /\ CountsIn(sweep'[s]) \subseteq CountsIn(sweep[s]),
         Stale => Stale',
         e \in Events => HasFirst(e)' /\ (retries'[e] <= DlqMaxRetries \/ CountDropped(e)'),
         e \in Events => \/ CountDropped(e)'
                         \/ /\ task'[x].dlqCount = retries'[e]
                            /\ \A t \in Ids \ {x} : Pending(t)' => task[t].event # e
                            /\ \A s \in Sweepers : e \notin Listed(sweep'[s])
                            /\ Stale' \/ e \notin EventsOf(dlq)
  PROVE  CapInv'
<1>1. \A f \in Events : (CountDropped(f) => CountDropped(f)') /\ (HasFirst(f) => HasFirst(f)')
  BY DroppedMade
<1>2. InLists' \subseteq InLists
  BY DEF InLists
<1>3. /\ \A f \in Events : handler'[f] # "done" => retries'[f] = 0
      /\ \A t \in Ids, f \in Events : task'[t].event = f => HasFirst(f)'
      /\ \A f \in Events : f \in InLists' => HasFirst(f)'
  BY <1>1, <1>2 DEF CapInv
<1>4. RetryCap'
  BY <1>1 DEF CapInv, RetryCap
<1>6. ASSUME NEW s \in Sweepers PROVE CountedIn(CountsIn(sweep[s]))'
  <2>1. CountedIn(CountsIn(sweep'[s]))
    BY DEF CapInv, CountedIn
  <2>2. \A c \in CountsIn(sweep'[s]) : c[1] \in Listed(sweep'[s])
    BY CountsEvents DEF CountsIn, Listed
  <2> QED BY <1>1, <2>1, <2>2 DEF CountedIn
<1>7. ASSUME ~Stale' PROVE CountedIn(CountsOf(dlq))'
  <2>1. CountedIn(CountsOf(dlq))
    BY <1>7 DEF CapInv
  <2>2. \A c \in CountsOf(dlq) : c[1] \in EventsOf(dlq)
    BY CountsEvents
  <2> QED BY <1>1, <1>7, <2>1, <2>2 DEF CountedIn
<1>8. ASSUME NEW t \in Ids, Pending(t)' PROVE CountedIn({<<task[t].event, task[t].dlqCount>>})'
  <2>1. CASE t = x
    BY <2>1 DEF CountedIn
  <2>2. CASE t # x
    <3>1. CountedIn({<<task[t].event, task[t].dlqCount>>}) /\ task'[t] = task[t]
      BY <1>8, <2>2 DEF CapInv
    <3> QED BY <1>1, <1>8, <2>2, <3>1 DEF CountedIn
  <2> QED BY <2>1, <2>2
<1> QED BY <1>3, <1>4, <1>6, <1>7, <1>8 DEF CapInv

\* A task in place of one that is given up drops the count.
LEMMA CapReplaced ==
  ASSUME Base, FreshInv, EventInv, CapInv, NEW t \in Ids, Pending(t),
         NEW p \in Levels, NEW n \in Nat, Enqueue(task[t].event, p, 0, n),
         Popped' \subseteq Popped, Fetched' \subseteq Fetched,
         UNCHANGED <<worker, dlq, sweep, handler, retries>>,
         \A u \in Ids : post'[u].pc \in {post[u].pc, "none"}
  PROVE  CapInv'
<1>0. task[t].event \in AnyEvent
  BY StoreShape DEF Tasks
<1>1. PICK x \in Ids :
        /\ Nowhere(x) /\ task'[x].event = task[t].event /\ task'[x].dlqCount = 0
        /\ \A u \in Ids \ {x} : task'[u] = task[u] /\ (u \in InHand' => u \in InHand)
  BY <1>0, MadeTask
<1>2. \A u \in Ids \ {x} : Pending(u)' => Pending(u)
  BY <1>1 DEF Pending, Filing
<1>3. task[t].event \in Waiting
  BY DEF Waiting
<1>4. \A f \in Events : handler'[f] # "done" => handler[f] # "done" /\ f # task[t].event
  BY <1>3 DEF EventInv
<1>5. task[t].event \in Events => HasFirst(task[t].event)
  BY DEF CapInv
<1>6. ASSUME NEW e \in Events, e = task[t].event PROVE HasFirst(e)' /\ CountDropped(e)'
  BY <1>1, <1>5, <1>6, DroppedMade
<1>7. UNCHANGED Stale
  BY DEF Stale
<1>8. PICK e : e = task[t].event
  OBVIOUS
<1>9. e \in Events => HasFirst(e)' /\ CountDropped(e)'
  BY <1>6, <1>8
<1>10. task'[x].event = e /\ \A f \in Events : handler'[f] # "done" => handler[f] # "done" /\ f # e
  BY <1>1, <1>4, <1>8
<1> QED BY <1>1, <1>2, <1>7, <1>9, <1>10, CapMade

LEMMA CapMakes ==
  ASSUME OneSweeper, Base, FreshInv, HoldInv, EventInv, CapInv, phase = "up", Makes
  PROVE  CapInv'
<1>0. handler \in [Events -> {"new", "flood", "corr", "dedup", "depth", "enqueue", "done"}]
      /\ sweep \in [Sweepers -> SweepTypes] /\ retries \in [Events -> Nat]
  BY DEF Base, TypeInv, HandlerType, DlqType, HistoryType
<1>1. ASSUME NEW e \in Events, EnqueueEvent(e) PROVE CapInv'
  <2>1. e \in AnyEvent /\ PriorityOf[e] \in Levels /\ Enqueue(e, PriorityOf[e], 0, 0)
        /\ UNCHANGED <<Popped, Fetched>>
    BY <1>1, EventEnqueues
  <2>2. UNCHANGED <<worker, post, dlq, sweep, retries>> /\ handler[e] = "enqueue"
        /\ handler' = [handler EXCEPT ![e] = "done"]
    BY <1>1 DEF EnqueueEvent, Answer
  <2>3. PICK x \in Ids :
          /\ Nowhere(x) /\ task'[x].event = e /\ task'[x].dlqCount = 0
          /\ \A u \in Ids \ {x} : task'[u] = task[u] /\ (u \in InHand' => u \in InHand)
    BY <2>1, <2>2, MadeTask
  <2>4. \A u \in Ids \ {x} : Pending(u)' => Pending(u)
    BY <2>2, <2>3 DEF Pending
  <2>5. e \notin Waiting \cup InLists /\ retries'[e] = 0 /\ retries'[e] <= DlqMaxRetries
    BY <2>2, Bounds DEF EventInv, CapInv
  <2>6. \A u \in Ids \ {x} : Pending(u)' => task[u].event # e
    BY <2>4, <2>5 DEF Waiting
  <2>7. UNCHANGED Stale /\ e \notin EventsOf(dlq) /\ \A s \in Sweepers : e \notin Listed(sweep[s])
    BY <2>2, <2>5 DEF Stale, InLists
  <2>8. \A f \in Events : handler'[f] # "done" => handler[f] # "done" /\ f # e
    BY <1>0, <2>2
  <2>9. HasFirst(e)'
    BY <2>3 DEF HasFirst
  <2> QED BY <2>2, <2>3, <2>4, <2>5, <2>6, <2>7, <2>8, <2>9, CapMade
<1>2. ASSUME NEW t \in Ids, Retry(t) PROVE CapInv'
  <2>1. /\ task[t].prio \in Levels /\ task[t].tmoCount + 1 \in Nat
        /\ Enqueue(task[t].event, task[t].prio, 0, task[t].tmoCount + 1)
    BY <1>2, RetryEnqueues
  <2>2. /\ UNCHANGED <<worker, loop, handler, dlq, sweep, retries>> /\ post[t].pc = "retry"
        /\ post' = [post EXCEPT ![t] = NoPost]
    BY <1>2 DEF Retry, Leave
  <2>3. UNCHANGED <<Popped, Fetched>> /\ Pending(t)
    BY <2>2, PlacesKept DEF Pending, Filing
  <2>4. \A u \in Ids : post'[u].pc \in {post[u].pc, "none"}
    BY <2>2, StoreShape DEF NoPost
  <2> QED BY <2>1, <2>2, <2>3, <2>4, CapReplaced
<1>3. ASSUME NEW l \in Loops, Requeue(l) PROVE CapInv'
  <2>1. PICK t \in Ids :
          /\ Fetched = {t} /\ Popped' = {} /\ Fetched' = {}
          /\ task[t].prio \in Levels /\ Enqueue(task[t].event, task[t].prio, 0, 0)
    BY <1>3, RequeueEffect
  <2>2. UNCHANGED <<worker, handler, dlq, sweep, post, retries>>
    BY <1>3 DEF Requeue
  <2>3. Pending(t)
    BY <2>1 DEF Pending, InHand
  <2> QED BY <2>1, <2>2, <2>3, CapReplaced
<1>4. ASSUME NEW s \in Sweepers, SweepRetries(s) PROVE CapInv'
  <2>0. PICK q : q = sweep[s]
    OBVIOUS
  <2>1. /\ q \in SweepTypes /\ q.todo # <<>> /\ Head(q.todo) \in Entries
        /\ UNCHANGED <<worker, loop, handler, dlq, post>>
        /\ sweep'[s].todo = Tail(q.todo) /\ sweep'[s].keep = q.keep /\ sweep'[s].changed
    <3>1. /\ q \in SweepTypes /\ q.todo # <<>> /\ UNCHANGED <<worker, loop, handler, dlq, post>>
          /\ sweep'[s].todo = Tail(q.todo) /\ sweep'[s].keep = q.keep /\ sweep'[s].changed
      BY <1>0, <1>4, <2>0 DEF SweepRetries, SweepDrops, SweepTypes
    <3>2. q.todo \in Seq(Entries)
      BY <3>1 DEF SweepTypes
    <3> QED BY <3>1, <3>2, ListTail
  <2>2. PICK e, c : e = Head(q.todo).event /\ c = Head(q.todo).count
    OBVIOUS
  <2>3. /\ e \in AnyEvent /\ c \in Nat
        /\ \/ /\ q.mode = "retry" /\ c < DlqMaxRetries
              /\ \E p \in Levels : Enqueue(e, p, c + 1, 0)
              /\ retries' = [retries EXCEPT ![e] = @ + 1]
           \/ /\ q.mode # "retry" /\ retries' = [retries EXCEPT ![e] = @]
              /\ \E p \in Levels : Enqueue(e, p, 0, 0)
    <3>1. Head(q.todo).prio \in Levels /\ 3 \in Levels /\ e \in AnyEvent /\ c \in Nat
      BY <2>1, <2>2 DEF Entries, Levels
    <3>2. CASE q.mode = "retry"
      <4>1. Enqueue(e, Head(q.todo).prio, c + 1, 0) /\ ~(c >= DlqMaxRetries)
            /\ retries' = [retries EXCEPT ![e] = @ + 1]
        BY <1>4, <2>0, <2>2, <3>2 DEF SweepRetries, Exhausted
      <4>2. c < DlqMaxRetries
        BY <3>1, <4>1, Bounds
      <4> QED BY <3>1, <3>2, <4>1, <4>2
    <3>3. CASE q.mode # "retry"
      <4>1. Enqueue(e, 3, 0, 0) /\ retries' = [retries EXCEPT ![e] = @]
        BY <1>4, <2>0, <2>2, <3>3 DEF SweepRetries
      <4> QED BY <3>1, <3>3, <4>1
    <3> QED BY <3>2, <3>3
  <2>4. /\ Listed(sweep'[s]) \subseteq Listed(q) /\ e \in Listed(q) /\ e \notin Listed(sweep'[s])
        /\ CountsIn(sweep'[s]) \subseteq CountsIn(q) /\ <<e, c>> \in CountsIn(q)
    <3>1. SnapOf(q)
      BY <2>0 DEF EventInv
    <3>2. PICK r : r = sweep'[s]
      OBVIOUS
    <3>3. /\ Listed(r) \subseteq Listed(q) /\ e \in Listed(q) /\ e \notin Listed(r)
          /\ CountsOf(r.todo) \cup CountsOf(r.keep) \subseteq CountsOf(q.todo) \cup CountsOf(q.keep)
      BY <2>1, <2>2, <3>1, <3>2, SnapMoves
    <3>4. <<e, c>> \in CountsOf(q.todo)
      <4>1. q.todo \in Seq(Entries)
        BY <2>1 DEF SweepTypes
      <4> QED BY <2>1, <2>2, <4>1, ListTail
    <3> QED BY <3>2, <3>3, <3>4 DEF CountsIn
  <2>5. \A r \in Sweepers : r = s
    BY DEF OneSweeper
  <2>6. Stale' /\ e \notin Waiting /\ (e \in Events => handler[e] = "done" /\ HasFirst(e))
    BY <2>0, <2>1, <2>4 DEF Stale, EventInv, InLists, CapInv
  <2>7. e \in Events => c = retries[e] \/ CountDropped(e)
    BY <2>0, <2>4 DEF CapInv, CountedIn
  <2>8. PICK p \in Levels, d \in Nat :
          /\ Enqueue(e, p, d, 0)
          /\ \/ /\ d = c + 1 /\ c < DlqMaxRetries /\ retries' = [retries EXCEPT ![e] = @ + 1]
             \/ d = 0 /\ retries' = [retries EXCEPT ![e] = @]
    <3>1. c + 1 \in Nat /\ 0 \in Nat
      BY <2>3
    <3> QED BY <2>3, <3>1
  <2>9. PICK x \in Ids :
          /\ Nowhere(x) /\ task'[x].event = e /\ task'[x].dlqCount = d
          /\ \A u \in Ids \ {x} : task'[u] = task[u] /\ (u \in InHand' => u \in InHand)
    BY <2>1, <2>3, <2>8, PlacesKept, MadeTask
  <2>10. \A u \in Ids \ {x} : (Pending(u)' => Pending(u)) /\ (Pending(u)' => task[u].event # e)
    BY <2>1, <2>6, <2>9 DEF Pending, Waiting
  <2>11. ASSUME e \in Events
         PROVE  /\ HasFirst(e)' /\ (retries'[e] <= DlqMaxRetries \/ CountDropped(e)')
                /\ d = retries'[e] \/ CountDropped(e)'
    <3>1. HasFirst(e)' /\ (CountDropped(e) => CountDropped(e)') /\ (d = 0 => CountDropped(e)')
      BY <2>6, <2>9, <2>11, DroppedMade
    <3>2. CASE d = c + 1 /\ c < DlqMaxRetries /\ retries' = [retries EXCEPT ![e] = @ + 1]
               /\ c = retries[e]
      <4>1. retries'[e] = c + 1
        BY <1>0, <2>11, <3>2
      <4>2. c \in Nat /\ DlqMaxRetries \in Nat /\ c < DlqMaxRetries
        BY <2>3, <3>2, Bounds
      <4>3. c + 1 <= DlqMaxRetries
        BY ONLY <4>2
      <4> QED BY <3>1, <3>2, <4>1, <4>3
    <3> QED BY <2>7, <2>8, <2>11, <3>1, <3>2
  <2>12. \A f \in Events \ {e} : retries'[f] = retries[f]
    BY <1>0, <2>8
  <2>13. \A r \in Sweepers : /\ Listed(sweep'[r]) \subseteq Listed(sweep[r])
                             /\ CountsIn(sweep'[r]) \subseteq CountsIn(sweep[r])
                             /\ e \notin Listed(sweep'[r])
    BY <2>0, <2>4, <2>5
  <2>14. \A f \in Events : handler'[f] # "done" => handler[f] # "done" /\ f # e
    BY <2>1, <2>6
  <2>15. e \in Events => HasFirst(e)' /\ (retries'[e] <= DlqMaxRetries \/ CountDropped(e)')
    BY <2>11
  <2>16. e \in Events => \/ CountDropped(e)'
                         \/ /\ task'[x].dlqCount = retries'[e]
                            /\ \A t \in Ids \ {x} : Pending(t)' => task[t].event # e
                            /\ \A r \in Sweepers : e \notin Listed(sweep'[r])
                            /\ Stale' \/ e \notin EventsOf(dlq)
    BY <2>6, <2>9, <2>10, <2>11, <2>13
  <2>17. /\ UNCHANGED dlq /\ Nowhere(x) /\ task'[x].event = e /\ (Stale => Stale')
         /\ \A t \in Ids \ {x} : task'[t] = task[t] /\ (Pending(t)' => Pending(t))
         /\ \A r \in Sweepers : /\ Listed(sweep'[r]) \subseteq Listed(sweep[r])
                                 /\ CountsIn(sweep'[r]) \subseteq CountsIn(sweep[r])
    BY <2>1, <2>6, <2>9, <2>10, <2>13
  <2> QED BY <2>12, <2>14, <2>15, <2>16, <2>17, CapMade
<1> QED BY <1>1, <1>2, <1>3, <1>4 DEF Makes

LEMMA CapFiles ==
  ASSUME Base, HoldInv, EventInv, CapInv, phase = "up", NEW t \in Ids, PushToDlq(t) \/ Trim(t)
  PROVE  CapInv'
<1>0. /\ UNCHANGED <<task, sweep, handler, retries>> /\ dlq \in Seq(Entries)
      /\ \A u \in Ids : Pending(u)' => Pending(u)
  <2>1. UNCHANGED <<task, sweep, handler, retries>> /\ \A u \in Ids : Still(u)
    BY StillPost DEF PushToDlq, Trim
  <2> QED BY <2>1 DEF Base, TypeInv, DlqType, Still, Pending
<1>1. UNCHANGED Stale /\ \A s \in Sweepers : CountedIn(CountsIn(sweep'[s]))
  BY <1>0 DEF Stale, CapInv
<1>2. CASE PushToDlq(t)
  <2>1. post[t].pc = "push" /\ dlq' = <<Entry(t)>> \o dlq
    BY <1>2 DEF PushToDlq
  <2>2. /\ Pending(t) /\ Entry(t).event = task[t].event /\ Entry(t).count = task[t].dlqCount
    BY <2>1 DEF Pending, Filing, Entry, EntryCount
  <2>3. Entry(t) \in Entries
    BY <2>1, StoreShape, Bounds DEF Entry, Entries, EntryCount, Tasks
  <2>4. /\ EventsOf(dlq') = EventsOf(dlq) \cup {task[t].event}
        /\ CountsOf(dlq') = CountsOf(dlq) \cup {<<task[t].event, task[t].dlqCount>>}
    BY <1>0, <2>1, <2>2, <2>3, ListPush
  <2>5. \A e \in Events : e \in InLists' => HasFirst(e)
    BY <1>0, <2>4 DEF InLists, CapInv
  <2>6. ~Stale' => CountedIn(CountsOf(dlq'))
    BY <1>1, <2>2, <2>4 DEF CapInv, CountedIn
  <2> QED BY <1>0, <1>1, <2>5, <2>6, CapFrame
<1>3. CASE Trim(t)
  <2>1. EventsOf(dlq') \subseteq EventsOf(dlq) /\ CountsOf(dlq') \subseteq CountsOf(dlq)
    <3> DEFINE n == IF Len(dlq) < DlqMaxSize THEN Len(dlq) ELSE DlqMaxSize
    <3>1. n \in Nat /\ n <= Len(dlq)
      BY <1>0, Bounds
    <3>2. dlq' = SubSeq(dlq, 1, n)
      BY <1>3 DEF Trim, Kept
    <3> HIDE DEF n
    <3> QED BY <1>0, <3>1, <3>2, ListPrefix
  <2>2. \A e \in Events : e \in InLists' => HasFirst(e)
    BY <1>0, <2>1 DEF InLists, CapInv
  <2>3. ~Stale' => CountedIn(CountsOf(dlq'))
    BY <1>1, <2>1 DEF CapInv, CountedIn
  <2> QED BY <1>0, <1>1, <2>2, <2>3, CapFrame
<1> QED BY <1>2, <1>3

LEMMA CapSweeps ==
  ASSUME OneSweeper, Base, EventInv, CapInv, NEW s \in Sweepers, ~SweepRetries(s),
         SweepStep(s) \/ \E m \in SweepModes : SweepBegin(s, m)
  PROVE  CapInv'
<1>0. /\ UNCHANGED <<task, handler, zset, loop, worker, post, retries>> /\ dlq \in Seq(Entries)
      /\ sweep \in [Sweepers -> SweepTypes]
      /\ \A r \in Sweepers : r = s
  BY DEF SweepStep, SweepGivesUp, SweepSkips, SweepArchives, SweepEnd, SweepBegin, Base, TypeInv,
         DlqType, OneSweeper
<1>1. \A t \in Ids : Pending(t)' <=> Pending(t)
  BY <1>0, PlacesKept DEF Pending, InHand
<1>2. /\ (Stale <=> sweep[s].changed) /\ (Stale' <=> sweep'[s].changed)
      /\ InLists = EventsOf(dlq) \cup Listed(sweep[s])
      /\ InLists' = EventsOf(dlq') \cup Listed(sweep'[s])
      /\ CountedIn(CountsIn(sweep[s]))
  BY <1>0 DEF Stale, InLists, CapInv
<1>3. ASSUME EventsOf(dlq') \cup Listed(sweep'[s]) \subseteq EventsOf(dlq) \cup Listed(sweep[s]),
             CountedIn(CountsIn(sweep'[s])), ~sweep'[s].changed => CountedIn(CountsOf(dlq'))
      PROVE  CapInv'
  <2>1. \A e \in Events : e \in InLists' => HasFirst(e)
    BY <1>2, <1>3 DEF CapInv
  <2>2. \A r \in Sweepers : CountedIn(CountsIn(sweep'[r]))
    BY <1>0, <1>3
  <2>3. ~Stale' => CountedIn(CountsOf(dlq'))
    BY <1>2, <1>3
  <2> QED BY <1>0, <1>1, <2>1, <2>2, <2>3, CapFrame
<1>4. CASE \E m \in SweepModes : SweepBegin(s, m)
  <2>1. /\ dlq' = dlq /\ sweep'[s].todo = dlq /\ sweep'[s].keep = <<>> /\ sweep[s].pc = "idle"
    <3>1. PICK m \in SweepModes : SweepBegin(s, m)
      BY <1>4
    <3>2. /\ sweep'[s] = [IdleSweep EXCEPT !.pc = "entries", !.mode = m, !.todo = dlq]
          /\ dlq' = dlq /\ sweep[s].pc = "idle"
      BY <1>0, <3>1 DEF SweepBegin
    <3> QED BY <3>2 DEF IdleSweep
  <2>2. ~sweep[s].changed
    BY <1>0, <2>1 DEF Base, TypeInv, DlqType, IdleSweep
  <2>3. CountedIn(CountsOf(dlq))
    BY <1>2, <2>2 DEF CapInv
  <2> QED BY <1>3, <2>1, <2>3, ListEmpty DEF CountsIn, Listed
<1>5. CASE SweepEnd(s)
  <2>1. /\ dlq' = IF sweep[s].changed THEN sweep[s].keep ELSE dlq
        /\ sweep'[s].todo = <<>> /\ sweep'[s].keep = <<>>
    BY <1>0, <1>5 DEF SweepEnd, IdleSweep
  <2>2. CountedIn(CountsOf(dlq')) /\ EventsOf(dlq') \subseteq EventsOf(dlq) \cup Listed(sweep[s])
    BY <1>2, <2>1 DEF CapInv, CountedIn, CountsIn, Listed
  <2>3. CountsIn(sweep'[s]) = {} /\ Listed(sweep'[s]) = {}
    BY <2>1, ListEmpty DEF CountsIn, Listed
  <2> QED BY <1>3, <2>2, <2>3 DEF CountedIn
<1>6. CASE SweepGivesUp(s) \/ SweepSkips(s) \/ SweepArchives(s)
  <2>1. /\ dlq' = dlq /\ Listed(sweep'[s]) \subseteq Listed(sweep[s])
        /\ CountsIn(sweep'[s]) \subseteq CountsIn(sweep[s])
        /\ (sweep[s].changed => sweep'[s].changed)
    BY <1>6, SweepLooks
  <2>2. CountedIn(CountsIn(sweep'[s]))
    BY <1>2, <2>1 DEF CountedIn
  <2>3. ~sweep'[s].changed => CountedIn(CountsOf(dlq'))
    BY <1>2, <2>1 DEF CapInv
  <2> QED BY <1>3, <2>1, <2>2, <2>3
<1> QED BY <1>4, <1>5, <1>6 DEF SweepStep

LEMMA CapNext ==
  ASSUME OneSweeper, Base, FreshInv, HoldInv, EventInv, CapInv, phase = "up", [Next]_vars,
         stops' # stops + 1, sigterms' # sigterms + 1
  PROVE  CapInv'
<1>1. /\ \A e \in Events : handler'[e] # "done" => handler[e] # "done"
      /\ UNCHANGED <<dlq, sweep>> \/ Sweeps \/ Files
      /\ UNCHANGED retries \/ \E s \in Sweepers : SweepRetries(s)
  BY UpSteps
<1>2. CASE Makes
  BY <1>2, CapMakes
<1>3. CASE Files
  BY <1>3, CapFiles DEF Files
<1>4. CASE Sweeps /\ ~Makes
  <2>1. \A s \in Sweepers : ~SweepRetries(s)
    BY <1>4 DEF Makes
  <2> QED BY <1>4, <2>1, CapSweeps DEF Sweeps
<1>5. CASE UNCHANGED <<dlq, sweep>> /\ ~Makes
  <2>1. UNCHANGED task /\ \A t \in Ids : Pending(t)' => Pending(t)
    BY <1>5, PendingKept
  <2>2. UNCHANGED retries
    BY <1>1, <1>5 DEF Makes
  <2>3. /\ \A e \in Events : e \in InLists' => HasFirst(e)
        /\ \A s \in Sweepers : CountedIn(CountsIn(sweep'[s]))
        /\ ~Stale' => CountedIn(CountsOf(dlq'))
    BY <1>5 DEF CapInv, InLists, Stale
  <2> QED BY <1>1, <2>1, <2>2, <2>3, CapFrame
<1> QED BY <1>1, <1>2, <1>3, <1>4, <1>5

\* With one sweeper, and as long as the process neither stops nor is told to: an
\* event is retried from the dead-letter queue at most dlqMaxRetries times, or a
\* retry at once, a pause or a drain made a second task of it whose count is 0.
THEOREM RetriesCapped == OneSweeper /\ Spec => [](Undisturbed => RetryCap)
<1> DEFINE Capped == Undisturbed => CapInv
<1>1. CASE OneSweeper
  <2>1. Init => Base /\ FreshInv /\ UpInv /\ Capped
    <3>1. ASSUME Init PROVE CapInv
      <4>1. phase = "up" /\ EventInv /\ \A t \in Ids : task[t].event \notin Events
        BY <3>1, UpInit, ConstantsAssumption DEF Init, UpInv, Undisturbed, Unused
      <4>2. ~Stale /\ CountsOf(dlq) = {} /\ \A s \in Sweepers : CountsIn(sweep[s]) = {}
        BY <3>1, ListEmpty DEF Init, Stale, CountsIn, IdleSweep
      <4>3. InLists = {}
        BY <3>1, ListEmpty DEF Init, InLists, Listed, IdleSweep
      <4>4. RetryCap /\ \A e \in Events : retries[e] = 0
        BY <3>1, Bounds DEF Init, RetryCap
      <4> QED BY <4>1, <4>2, <4>3, <4>4 DEF CapInv, CountedIn
    <3> QED BY <3>1, BaseNext, FreshInit, UpInit
  <2>2. Base /\ FreshInv /\ UpInv /\ Capped /\ [Next]_vars => Base' /\ FreshInv' /\ UpInv' /\ Capped'
    <3> SUFFICES ASSUME Base, FreshInv, UpInv, Capped, [Next]_vars
                 PROVE  Base' /\ FreshInv' /\ UpInv' /\ Capped'
      OBVIOUS
    <3>1. Base' /\ FreshInv' /\ UpInv'
      BY <1>1, BaseNext, FreshNext, UpNext
    <3>2. ASSUME Undisturbed' PROVE CapInv'
      <4>1. Undisturbed /\ stops' # stops + 1 /\ sigterms' # sigterms + 1
        BY <3>2, UpBefore
      <4>2. phase = "up" /\ HoldInv /\ EventInv /\ CapInv
        BY <4>1 DEF UpInv
      <4> QED BY <1>1, <4>1, <4>2, CapNext
    <3> QED BY <3>1, <3>2
  <2>3. Capped => (Undisturbed => RetryCap)
    BY DEF CapInv
  <2> QED BY <2>1, <2>2, <2>3, PTL DEF Spec
<1> QED BY <1>1
=============================================================================
