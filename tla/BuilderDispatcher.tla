-------------------------- MODULE BuilderDispatcher --------------------------
(***************************************************************************)
(* The Builder's dispatcher: handleEvent, the dispatch loop, runWorker, the *)
(* dead-letter queue and the restart of builder/dispatcher.ts, on the Redis *)
(* task queue of builder/task-queue.ts, with the workers of                 *)
(* builder/worker.ts and the cleanup of builder/deploy-state.ts.            *)
(*                                                                          *)
(* A step is one Redis command, pipeline or MULTI and the synchronous code  *)
(* after its reply.  Redis survives a stop; everything else is lost with    *)
(* the process.  Time is a choice: a P3 task may be old enough to be        *)
(* promoted, a DLQ entry may be due, stale or old.                          *)
(***************************************************************************)
EXTENDS Naturals, FiniteSets, SequencesExt

CONSTANTS Events,             \* calls of handleEvent
          PriorityOf,         \* priorityMap
          Correlations, CorrelationOf,
          Keys, KeyOf,        \* dedupKey
          Guarded,            \* the events of strategist:builder_directive
          Workers, Loops,     \* Loops: calls of dispatchNext that can overlap
          Sweepers, SweepModes, \* retryEligibleDlqEntries / drainDlq calls
          NoEvent, NoWorker,
          FloodLimit, Backpressure, MaxQueueDepth,
          CircuitThreshold,   \* PROJECT_CB_THRESHOLD
          DlqMaxRetries, DlqMaxSize,
          Outcomes,           \* results a worker may return
          EventsAtStartup,    \* handleEvent is called while cleanup runs
          MaxTasks, MaxFailures, MaxSweeps, MaxStops, MaxSigterms,
          MaxErrors, MaxPauses, MaxDiscards  \* bounds of the exploration

Levels == 0..3
Ids == 1..MaxTasks
NoTask == 0

ASSUME ConstantsAssumption ==
  /\ PriorityOf \in [Events -> Levels]
  /\ CorrelationOf \in [Events -> Correlations]
  /\ KeyOf \in [Events -> Keys]
  /\ Guarded \subseteq Events
  /\ SweepModes \subseteq {"retry", "drain"}
  /\ NoEvent \notin Events /\ NoWorker \notin Workers
  /\ {FloodLimit, Backpressure, MaxQueueDepth, CircuitThreshold,
      DlqMaxRetries, DlqMaxSize, MaxTasks, MaxFailures, MaxSweeps, MaxStops,
      MaxSigterms, MaxErrors, MaxPauses, MaxDiscards} \subseteq Nat
  /\ Outcomes \subseteq {"COMPLETED", "FAILED", "TIMEOUT"}
  /\ EventsAtStartup \in BOOLEAN

VARIABLES
  zset,        \* Redis: per level, the queued ids, lowest score first
  state,       \* Redis: per id, the state in its hash; "none": no hash
  task,        \* per id: the fields of the task that never change
  dlq,         \* Redis: the dead-letter list, newest first
  corr, dedup, \* Redis: the dedup:corr:* and dedup:* keys that are set
  expiring,    \* Redis: ids whose hash was given 60 s to live
  phase,       \* "down", "recover", "flush", "up", "draining"
  scan,        \* ids the cleanup has still to visit
  closing,     \* the task stopGracefully has marked and not yet re-added
  dispatching, \* the mutex of dispatchNext
  loop,        \* per call of dispatchNext: where it is
  worker,      \* per worker: the task it executes, or NoTask
  post,        \* per id: where runWorker is after execute(), and its result
  failures,    \* projectFailures, per dedup key (one project each)
  handler,     \* per event: where handleEvent is
  sweep,       \* per sweeper: where it is
  paused,      \* fleetGuard.isPaused()
  answer,      \* history: what handleEvent returned
  finished,    \* history: events a worker completed
  archived,    \* history: events purged, trimmed, discarded or archived
  retries,     \* history: DLQ retries enqueued, per event
  used, fails, sweeps, stops, sigterms, errors, pauses, discards

redisVars   == <<zset, state, task, dlq, corr, dedup, expiring>>
processVars == <<phase, scan, closing>>
loopVars    == <<dispatching, loop>>
workVars    == <<worker, post, failures>>
historyVars == <<answer, finished, archived, retries>>
boundVars   == <<fails, sweeps, stops, sigterms, errors, pauses, discards>>
vars == <<redisVars, processVars, loopVars, workVars, handler, sweep, paused,
          historyVars, used, boundVars>>

Unused == [event |-> NoEvent, prio |-> 0, dlqCount |-> 0, tmoCount |-> 0]
IdleLoop == [pc |-> "idle", worker |-> NoWorker, task |-> NoTask, level |-> 0,
             promoted |-> FALSE]   \* a call of dispatchNext
LoopWith(w) == [pc |-> "peek", worker |-> w, task |-> NoTask, level |-> 0,
                promoted |-> FALSE]
IdleSweep == [pc |-> "idle", mode |-> "retry", todo |-> <<>>, keep |-> <<>>,
              changed |-> FALSE]
AnyEvent == Events \cup {NoEvent}
NoPost == [pc |-> "none", result |-> "none"]

Running == phase \in {"recover", "flush", "up"}
Depth == Len(zset[0]) + Len(zset[1]) + Len(zset[2]) + Len(zset[3])
Queued(t) == \E p \in Levels : t \in ToSet(zset[p])
Written(t, new) == [state EXCEPT ![t] = IF @ = "none" THEN @ ELSE new]
\* ZREM; an id is in a set at most once.
Without(s, t) ==
  IF t \in ToSet(s) THEN RemoveAt(s, CHOOSE i \in 1..Len(s) : s[i] = t) ELSE s

Init ==
  /\ zset = [p \in Levels |-> <<>>] /\ task = [t \in Ids |-> Unused]
  /\ state = [t \in Ids |-> "none"]
  /\ dlq = <<>> /\ corr = {} /\ dedup = {} /\ expiring = {}
  /\ phase = "up" /\ scan = {} /\ closing = NoTask
  /\ dispatching = FALSE /\ loop = [l \in Loops |-> IdleLoop]
  /\ worker = [w \in Workers |-> NoTask] /\ post = [t \in Ids |-> NoPost]
  /\ failures = [k \in Keys |-> 0]
  /\ handler = [e \in Events |-> "new"] /\ sweep = [s \in Sweepers |-> IdleSweep]
  /\ paused = FALSE
  /\ answer = [e \in Events |-> "none"] /\ finished = {} /\ archived = {}
  /\ retries = [e \in Events |-> 0]
  /\ used = 0 /\ fails = 0 /\ sweeps = 0 /\ stops = 0 /\ sigterms = 0
  /\ errors = 0 /\ pauses = 0 /\ discards = 0

-----------------------------------------------------------------------------
(* TaskQueue.enqueue and the start of a dispatch loop.                     *)

\* Mutant: the hash is written, the id is not added to its sorted set.
EnqueueUnlisted(e, p, d, n) ==
  /\ used < MaxTasks /\ used' = used + 1
  /\ task' = [task EXCEPT ![used + 1] = [event |-> e, prio |-> p,
                                         dlqCount |-> d, tmoCount |-> n]]
  /\ state' = [state EXCEPT ![used + 1] = "QUEUED"]
  /\ UNCHANGED zset

\* One pipeline writes the hash of a fresh id and adds the id to its level.
Enqueue(e, p, d, n) ==
  /\ used < MaxTasks /\ used' = used + 1
  /\ task' = [task EXCEPT ![used + 1] = [event |-> e, prio |-> p,
                                         dlqCount |-> d, tmoCount |-> n]]
  /\ state' = [state EXCEPT ![used + 1] = "QUEUED"]
  /\ zset' = [zset EXCEPT ![p] = Append(@, used + 1)]

\* Mutant: dispatchNext does not look at the mutex.
MutexFreeAlways == TRUE
MutexFree == ~dispatching

Pickable(w, W) == W[w] = NoTask

\* dispatchNext() is called with workers W: it returns at once, or takes the
\* mutex, finds an idle worker and begins dequeue().
Dispatch(W) ==
  \/ /\ Running /\ MutexFree
     /\ \E l \in Loops, w \in Workers :
          /\ loop[l].pc = "idle" /\ Pickable(w, W)
          /\ loop' = [loop EXCEPT ![l] = LoopWith(w)]
     /\ dispatching' = TRUE
  \/ /\ ~Running \/ ~MutexFree \/ \A w \in Workers : ~Pickable(w, W)
     /\ UNCHANGED loopVars

Poll ==
  /\ phase = "up"
  /\ Dispatch(worker)
  /\ UNCHANGED <<redisVars, processVars, workVars, handler, sweep, paused,
                 historyVars, used, boundVars>>

-----------------------------------------------------------------------------
(* handleEvent.                                                            *)

Answer(e, a) ==
  /\ handler' = [handler EXCEPT ![e] = "done"]
  /\ answer' = [answer EXCEPT ![e] = a]

Goto(e, where) ==
  /\ handler' = [handler EXCEPT ![e] = where]
  /\ UNCHANGED answer

\* The call; the guards before the first await let the event through.
Arrive(e) ==
  /\ handler[e] = "new" /\ phase # "down"
  /\ phase \in {"up", "draining"} \/ EventsAtStartup
  /\ Goto(e, IF e \in Guarded THEN "flood" ELSE "corr")
  /\ UNCHANGED <<redisVars, processVars, loopVars, workVars, sweep, paused,
                 finished, archived, retries, used, boundVars>>

\* The flood guard on queue depth and busy workers.
FloodGuard(e) ==
  /\ handler[e] = "flood"
  /\ IF Depth + Cardinality({w \in Workers : worker[w] # NoTask}) >= FloodLimit
     THEN Answer(e, "rejected") ELSE Goto(e, "corr")
  /\ UNCHANGED <<redisVars, processVars, loopVars, workVars, sweep, paused,
                 finished, archived, retries, used, boundVars>>

\* SET NX of the correlation key.
SetCorrelation(e) ==
  /\ handler[e] = "corr"
  /\ IF CorrelationOf[e] \in corr THEN Answer(e, "duplicate")
                                  ELSE Goto(e, "dedup")
  /\ corr' = corr \cup {CorrelationOf[e]}
  /\ UNCHANGED <<zset, state, task, dlq, dedup, expiring, processVars, loopVars,
                 workVars, sweep, paused, finished, archived, retries, used,
                 boundVars>>

\* Mutant: the reply of the SET NX is not looked at.
DuplicateNever(e) == FALSE
Duplicate(e) == KeyOf[e] \in dedup

\* SET NX of the dedup key, then the project circuit breaker.
SetDedup(e) ==
  /\ handler[e] = "dedup"
  /\ CASE Duplicate(e) -> Answer(e, "duplicate")
       [] failures[KeyOf[e]] >= CircuitThreshold -> Answer(e, "rejected")
       [] OTHER -> Goto(e, "depth")
  /\ dedup' = dedup \cup {KeyOf[e]}
  /\ UNCHANGED <<zset, state, task, dlq, corr, expiring, processVars, loopVars,
                 workVars, sweep, paused, finished, archived, retries, used,
                 boundVars>>

\* checkBackpressure.
Rejects(p) == \/ Depth >= MaxQueueDepth /\ p > 0
              \/ Depth < MaxQueueDepth /\ Depth >= Backpressure /\ p >= 3

ReadDepth(e) ==
  /\ handler[e] = "depth"
  /\ IF Rejects(PriorityOf[e]) THEN Answer(e, "rejected") ELSE Goto(e, "enqueue")
  /\ UNCHANGED <<redisVars, processVars, loopVars, workVars, sweep, paused,
                 finished, archived, retries, used, boundVars>>

EnqueueEvent(e) ==
  /\ handler[e] = "enqueue"
  /\ Enqueue(e, PriorityOf[e], 0, 0)
  /\ Answer(e, "accepted")
  /\ Dispatch(worker)
  /\ UNCHANGED <<dlq, corr, dedup, expiring, processVars, workVars, sweep,
                 paused, finished, archived, retries, boundVars>>

\* A Redis command of handleEvent fails: the promise is rejected.
HandlerError(e) ==
  /\ handler[e] \notin {"new", "done"} /\ errors < MaxErrors
  /\ errors' = errors + 1
  /\ Answer(e, "error")
  /\ UNCHANGED <<redisVars, processVars, loopVars, workVars, sweep, paused,
                 finished, archived, retries, used, fails, sweeps, stops, sigterms,
                 pauses, discards>>

-----------------------------------------------------------------------------
(* The dispatch loop: dequeue(), the fleet check, updateTask, runWorker.    *)

\* Mutant: an early `break` without the finally block.
BreakHolding(l) ==
  /\ loop' = [loop EXCEPT ![l] = IdleLoop]
  /\ UNCHANGED dispatching

\* The loop leaves its `while` and releases the mutex.
Break(l) ==
  /\ loop' = [loop EXCEPT ![l] = IdleLoop]
  /\ dispatching' = FALSE

At(l, where, level) ==
  /\ loop' = [loop EXCEPT ![l].pc = where, ![l].level = level]
  /\ UNCHANGED dispatching

Took(l, t, promoted) ==
  /\ loop' = [loop EXCEPT ![l].pc = "fetch", ![l].task = t,
                          ![l].promoted = promoted]
  /\ UNCHANGED dispatching

\* Mutant: the head is read, not popped.
TakenRead(p) == zset
\* ZPOPMIN
Taken(p) == [zset EXCEPT ![p] = Tail(@)]

\* checkP3Promotion looks at the oldest P3 task: it may be old enough.
Peek(l) ==
  /\ loop[l].pc = "peek"
  /\ \/ At(l, "pop", 0)
     \/ zset[3] # <<>> /\ At(l, "promote", 0)
  /\ UNCHANGED <<redisVars, processVars, workVars, handler, sweep, paused,
                 historyVars, used, boundVars>>

\* ZPOPMIN of the P3 set.
Promote(l) ==
  /\ loop[l].pc = "promote"
  /\ \/ /\ zset[3] # <<>>
        /\ Took(l, Head(zset[3]), TRUE)
        /\ zset' = Taken(3)
     \/ /\ zset[3] = <<>>
        /\ At(l, "pop", 0)
        /\ UNCHANGED zset
  /\ UNCHANGED <<state, task, dlq, corr, dedup, expiring, processVars, workVars,
                 handler, sweep, paused, historyVars, used, boundVars>>

\* ZPOPMIN of one level after the other; an empty last level ends the loop.
Pop(l) ==
  LET p == loop[l].level IN
  /\ loop[l].pc = "pop"
  /\ \/ /\ zset[p] # <<>>
        /\ Took(l, Head(zset[p]), FALSE)
        /\ zset' = Taken(p)
     \/ /\ zset[p] = <<>> /\ p < 3
        /\ At(l, "pop", p + 1)
        /\ UNCHANGED zset
     \/ /\ zset[p] = <<>> /\ p = 3
        /\ Break(l)
        /\ UNCHANGED zset
  /\ UNCHANGED <<state, task, dlq, corr, dedup, expiring, processVars, workVars,
                 handler, sweep, paused, historyVars, used, boundVars>>

\* HGETALL and HSET ASSIGNED; a missing hash is skipped.  (A pause may
\* enqueue a task as long as MaxTasks leaves one for each event to come.)
Fetch(l) ==
  LET t == loop[l].task IN
  /\ loop[l].pc = "fetch"
  /\ paused => used + Cardinality({e \in Events : handler[e] # "done"}) < MaxTasks
  /\ \/ /\ state[t] # "none"
        /\ state' = Written(t, "ASSIGNED")
        /\ loop' = [loop EXCEPT ![l].pc = IF paused THEN "requeue" ELSE "assign"]
     \/ /\ state[t] = "none"
        /\ loop' = [loop EXCEPT ![l].pc = IF loop[l].promoted THEN "pop" ELSE "peek",
                                ![l].task = NoTask, ![l].level = 0]
        /\ UNCHANGED state
  /\ UNCHANGED <<zset, task, dlq, corr, dedup, expiring, processVars, dispatching,
                 workVars, handler, sweep, paused, historyVars, used, boundVars>>

\* Fleet paused: a new task is enqueued in place of the dequeued one, whose
\* hash stays ASSIGNED; the retry counters are not passed on.
Requeue(l) ==
  LET r == task[loop[l].task] IN
  /\ loop[l].pc = "requeue"
  /\ Enqueue(r.event, r.prio, 0, 0)
  /\ Break(l)
  /\ UNCHANGED <<dlq, corr, dedup, expiring, processVars, workVars, handler,
                 sweep, paused, historyVars, boundVars>>

GoesOn(W) == \E w \in Workers : W[w] = NoTask

\* HSET RUNNING, then execute() makes the worker busy, and the loop turns to
\* the next idle worker.
Assign(l) ==
  LET t == loop[l].task
      W == [worker EXCEPT ![loop[l].worker] = t] IN
  /\ loop[l].pc = "assign"
  /\ state' = Written(t, "RUNNING")
  /\ worker' = W
  /\ \/ /\ GoesOn(W)
        /\ \E w \in Workers :
             /\ W[w] = NoTask
             /\ loop' = [loop EXCEPT ![l] = LoopWith(w)]
        /\ UNCHANGED dispatching
     \/ ~GoesOn(W) /\ Break(l)
  /\ UNCHANGED <<zset, task, dlq, corr, dedup, expiring, processVars, post, failures,
                 handler, sweep, paused, historyVars, used, boundVars>>

\* A Redis command of the loop fails: the finally block releases the mutex,
\* the dequeued task stays out of its set.
LoopError(l) ==
  /\ loop[l].pc # "idle" /\ errors < MaxErrors
  /\ errors' = errors + 1
  /\ Break(l)
  /\ UNCHANGED <<redisVars, processVars, workVars, handler, sweep, paused,
                 historyVars, used, fails, sweeps, stops, sigterms,
                 pauses, discards>>

-----------------------------------------------------------------------------
(* runWorker.                                                              *)

\* execute() returns: the worker is idle before the result is recorded.
WorkerEnd(w, result) ==
  LET t == worker[w] IN
  /\ t # NoTask /\ result \in Outcomes
  /\ IF result = "COMPLETED" THEN UNCHANGED fails
     ELSE fails < MaxFailures /\ fails' = fails + 1
  /\ worker' = [worker EXCEPT ![w] = NoTask]
  /\ post' = [post EXCEPT ![t] = [pc |-> "record", result |-> result]]
  /\ finished' = IF result = "COMPLETED" THEN finished \cup {task[t].event}
                                         ELSE finished
  /\ UNCHANGED <<redisVars, processVars, loopVars, failures, handler, sweep,
                 paused, answer, archived, retries, used, sweeps, stops, sigterms, errors,
                 pauses, discards>>

RetriesAtOnce(t) == task[t].tmoCount < 1 /\ task[t].dlqCount < DlqMaxRetries

Leave(t) == post' = [post EXCEPT ![t] = NoPost]

\* updateTask(result) and DEL of the dedup key; then the retry of a timeout,
\* the dead-letter entry, or the next dispatch.
Record(t) ==
  LET result == post[t].result
      after(where) == post' = [post EXCEPT ![t].pc = where] IN
  /\ post[t].pc = "record"
  /\ state' = Written(t, result)
  /\ dedup' = dedup \ {KeyOf[task[t].event]}
  /\ \/ /\ result = "COMPLETED"
        /\ Leave(t) /\ Dispatch(worker)
     \/ /\ result = "TIMEOUT" /\ RetriesAtOnce(t)
        /\ after("retry") /\ UNCHANGED loopVars
     \/ /\ result = "FAILED" \/ (result = "TIMEOUT" /\ ~RetriesAtOnce(t))
        /\ after("push") /\ UNCHANGED loopVars
  /\ UNCHANGED <<zset, task, dlq, corr, expiring, processVars, worker, failures,
                 handler, sweep, paused, historyVars, used, boundVars>>

\* The immediate retry; runWorker returns without a dispatch.  The DLQ retry
\* count is not passed on.
Retry(t) ==
  /\ post[t].pc = "retry"
  /\ Enqueue(task[t].event, task[t].prio, 0, task[t].tmoCount + 1)
  /\ Leave(t)
  /\ UNCHANGED <<dlq, corr, dedup, expiring, processVars, loopVars, worker,
                 failures, handler, sweep, paused, historyVars, boundVars>>

\* Mutant: the entry starts over with retryCount 0.
EntryCountZero(t) == 0
EntryCount(t) == task[t].dlqCount

Entry(t) ==
  [event |-> task[t].event, prio |-> task[t].prio, count |-> EntryCount(t),
   permanent |-> EntryCount(t) >= DlqMaxRetries,
   timeout |-> post[t].result = "TIMEOUT"]

\* LPUSH of the dead-letter entry.
PushToDlq(t) ==
  /\ post[t].pc = "push"
  /\ dlq' = <<Entry(t)>> \o dlq
  /\ post' = [post EXCEPT ![t].pc = "trim"]
  /\ UNCHANGED <<zset, state, task, corr, dedup, expiring, processVars, loopVars,
                 worker, failures, handler, sweep, paused, historyVars, used,
                 boundVars>>

EventsOf(s) == {s[i].event : i \in DOMAIN s}
Kept(s) == SubSeq(s, 1, IF Len(s) < DlqMaxSize THEN Len(s) ELSE DlqMaxSize)

\* LTRIM, the project failure and the next dispatch.
Trim(t) ==
  /\ post[t].pc = "trim"
  /\ dlq' = Kept(dlq)
  /\ archived' = archived \cup EventsOf(SubSeq(dlq, Len(Kept(dlq)) + 1, Len(dlq)))
  /\ failures' = [failures EXCEPT ![KeyOf[task[t].event]] = @ + 1]
  /\ Leave(t) /\ Dispatch(worker)
  /\ UNCHANGED <<zset, state, task, corr, dedup, expiring, processVars, worker, handler,
                 sweep, paused, answer, finished, retries, used, boundVars>>

\* updateTask or the enqueue of the retry fails: the catch block writes FAILED,
\* unless that fails too, and dispatches.
RecordError(t) ==
  /\ post[t].pc \in {"record", "retry"} /\ errors < MaxErrors
  /\ errors' = errors + 1
  /\ state' = Written(t, "FAILED") \/ UNCHANGED state
  /\ Leave(t) /\ Dispatch(worker)
  /\ UNCHANGED <<zset, task, dlq, corr, dedup, expiring, processVars, worker,
                 failures, handler, sweep, paused, historyVars, used, fails,
                 sweeps, stops, sigterms,
                 pauses, discards>>

\* A failed LPUSH is logged; the entry is gone, the rest goes on.
PushError(t) ==
  /\ post[t].pc = "push" /\ errors < MaxErrors
  /\ errors' = errors + 1
  /\ failures' = [failures EXCEPT ![KeyOf[task[t].event]] = @ + 1]
  /\ Leave(t) /\ Dispatch(worker)
  /\ UNCHANGED <<redisVars, processVars, worker, handler, sweep, paused,
                 historyVars, used, fails, sweeps, stops, sigterms,
                 pauses, discards>>

\* Mutant: a failure that already left the window leaves it again.
CircuitAgesTwice(k) ==
  /\ failures' = [failures EXCEPT ![k] = @ - 1]
  /\ UNCHANGED <<redisVars, processVars, loopVars, worker, post, handler, sweep,
                 paused, historyVars, used, boundVars>>

\* Failures leave the two-hour window of the circuit breaker.
CircuitAges(k) ==
  /\ failures[k] > 0
  /\ failures' = [failures EXCEPT ![k] = @ - 1]
  /\ UNCHANGED <<redisVars, processVars, loopVars, worker, post, handler, sweep,
                 paused, historyVars, used, boundVars>>

-----------------------------------------------------------------------------
(* retryEligibleDlqEntries (the timer) and drainDlq (an operator's request). *)

\* LRANGE: the snapshot the sweep works on.
SweepBegin(s, mode) ==
  /\ sweep[s].pc = "idle" /\ phase = "up" /\ dlq # <<>>
  /\ mode \in SweepModes /\ sweeps < MaxSweeps
  /\ sweeps' = sweeps + 1
  /\ sweep' = [sweep EXCEPT ![s] = [IdleSweep EXCEPT !.pc = "entries",
                                      !.mode = mode, !.todo = dlq]]
  /\ UNCHANGED <<redisVars, processVars, loopVars, workVars, handler, paused,
                 historyVars, used, fails, stops, sigterms, errors, pauses, discards>>

SweepKeeps(s, entry, changed) ==
  sweep' = [sweep EXCEPT ![s].todo = Tail(@), ![s].keep = Append(@, entry),
                         ![s].changed = @ \/ changed]
\* Mutant: the retried entry is kept as well.
SweepDropsKeeping(s) ==
  sweep' = [sweep EXCEPT ![s].todo = Tail(@), ![s].keep = Append(@, Head(sweep[s].todo))]
SweepDrops(s) ==
  sweep' = [sweep EXCEPT ![s].todo = Tail(@), ![s].changed = TRUE]

Exhausted(x) == x.permanent \/ x.count >= DlqMaxRetries

\* An entry that is permanent, exhausted, not retryable or stale is kept as
\* permanent; a permanent one of more than a day is purged.
SweepGivesUp(s) ==
  LET x == Head(sweep[s].todo) IN
  /\ sweep[s].todo # <<>> /\ sweep[s].mode = "retry"
  /\ \/ SweepKeeps(s, [x EXCEPT !.permanent = TRUE], ~x.permanent) /\ UNCHANGED archived
     \/ x.permanent /\ SweepDrops(s) /\ archived' = archived \cup {x.event}
  /\ UNCHANGED <<redisVars, processVars, loopVars, workVars, handler, paused,
                 answer, finished, retries, used, boundVars>>

\* nextRetryAt is in the future, or drainDlq has no rule for the entry.
SweepSkips(s) ==
  LET x == Head(sweep[s].todo) IN
  /\ sweep[s].todo # <<>>
  /\ \/ sweep[s].mode = "retry" /\ ~Exhausted(x)
     \/ sweep[s].mode = "drain" /\ ~x.permanent
  /\ SweepKeeps(s, x, FALSE)
  /\ UNCHANGED <<redisVars, processVars, loopVars, workVars, handler, paused,
                 historyVars, used, boundVars>>

\* The entry is due: a new task is enqueued in its place; drainDlq enqueues at
\* P3 and without the retry count.
SweepRetries(s) ==
  LET x == Head(sweep[s].todo)
      retry == sweep[s].mode = "retry" IN
  /\ sweep[s].todo # <<>>
  /\ IF retry THEN ~Exhausted(x) ELSE ~x.permanent /\ x.count < DlqMaxRetries
  /\ Enqueue(x.event, IF retry THEN x.prio ELSE 3, IF retry THEN x.count + 1 ELSE 0, 0)
  /\ SweepDrops(s)
  /\ retries' = [retries EXCEPT ![x.event] = IF retry THEN @ + 1 ELSE @]
  /\ UNCHANGED <<dlq, corr, dedup, expiring, processVars, loopVars, workVars,
                 handler, paused, answer, finished, archived, boundVars>>

\* drainDlq archives old and permanent entries.
SweepArchives(s) ==
  /\ sweep[s].todo # <<>> /\ sweep[s].mode = "drain"
  /\ SweepDrops(s)
  /\ archived' = archived \cup {Head(sweep[s].todo).event}
  /\ UNCHANGED <<redisVars, processVars, loopVars, workVars, handler, paused,
                 answer, finished, retries, used, boundVars>>

\* DEL and RPUSH of what is kept.
SweepEnd(s) ==
  /\ sweep[s].pc = "entries" /\ sweep[s].todo = <<>>
  /\ dlq' = IF sweep[s].changed THEN sweep[s].keep ELSE dlq
  /\ sweep' = [sweep EXCEPT ![s] = IdleSweep]
  /\ UNCHANGED <<zset, state, task, corr, dedup, expiring, processVars, loopVars,
                 workVars, handler, paused, historyVars, used, boundVars>>

SweepStep(s) == \/ SweepGivesUp(s) \/ SweepSkips(s) \/ SweepRetries(s)
                \/ SweepArchives(s) \/ SweepEnd(s)

-----------------------------------------------------------------------------
(* Fleet pause; stop, crash and restart.                                   *)

Pause ==
  /\ pauses < MaxPauses \/ paused
  /\ paused' = ~paused
  /\ pauses' = IF paused THEN pauses ELSE pauses + 1
  /\ UNCHANGED <<redisVars, processVars, loopVars, workVars, handler, sweep,
                 historyVars, used, fails, sweeps, stops, sigterms, errors, discards>>

\* stopGracefully: running is cleared, then the busy workers have drainTimeoutMs.
Sigterm ==
  /\ phase = "up" /\ sigterms < MaxSigterms
  /\ sigterms' = sigterms + 1
  /\ phase' = "draining"
  /\ UNCHANGED <<redisVars, scan, closing, loopVars, workVars, handler, sweep,
                 paused, historyVars, used, fails, sweeps, stops, errors,
                 pauses, discards>>

\* The drain timeout is over: getTask and updateTask of a task still running.
\* By then no dispatch loop is left: one lasts a few Redis round trips.
DrainMark(w) ==
  /\ phase = "draining" /\ closing = NoTask
  /\ \A l \in Loops : loop[l].pc = "idle"
  /\ worker[w] # NoTask /\ state[worker[w]] \notin {"REQUEUED", "none"}
  /\ state' = Written(worker[w], "REQUEUED")
  /\ closing' = worker[w]
  /\ UNCHANGED <<zset, task, dlq, corr, dedup, expiring, phase, scan, loopVars,
                 workVars, handler, sweep, paused, historyVars, used, boundVars>>

\* Mutant: the marked task is not re-added.
DrainAddForgotten ==
  /\ closing # NoTask /\ closing' = NoTask
  /\ UNCHANGED <<redisVars, phase, scan, loopVars, workVars, handler, sweep,
                 paused, historyVars, used, boundVars>>

\* addToQueue: ZADD of the marked task.
DrainAdd ==
  /\ closing # NoTask
  /\ zset' = [zset EXCEPT ![task[closing].prio] = Append(@, closing)]
  /\ closing' = NoTask
  /\ UNCHANGED <<state, task, dlq, corr, dedup, expiring, phase, scan, loopVars,
                 workVars, handler, sweep, paused, historyVars, used, boundVars>>

\* The half second before the exit outlasts the Redis commands under way.
Drained ==
  /\ phase = "draining" /\ closing = NoTask
  /\ \A w \in Workers :
       worker[w] # NoTask => state[worker[w]] \in {"REQUEUED", "none"}
  /\ \A l \in Loops : loop[l].pc = "idle"
  /\ \A t \in Ids : post[t].pc = "none"

\* The process ends after the drain, or by a crash.
Exit ==
  /\ phase # "down"
  /\ IF Drained THEN UNCHANGED stops ELSE stops < MaxStops /\ stops' = stops + 1
  /\ phase' = "down" /\ scan' = {} /\ closing' = NoTask
  /\ dispatching' = FALSE /\ loop' = [l \in Loops |-> IdleLoop]
  /\ worker' = [w \in Workers |-> NoTask] /\ post' = [t \in Ids |-> NoPost]
  /\ failures' = [k \in Keys |-> 0]
  /\ handler' = [e \in Events |-> IF handler[e] = "new" THEN "new" ELSE "done"]
  /\ sweep' = [s \in Sweepers |-> IdleSweep]
  /\ UNCHANGED <<redisVars, paused, historyVars, used, fails, sweeps, sigterms,
                 errors, pauses, discards>>

\* start(): recoverOrphaned begins its SCAN.
Start ==
  /\ phase = "down"
  /\ phase' = "recover" /\ scan' = {t \in Ids : state[t] # "none"}
  /\ UNCHANGED <<redisVars, closing, loopVars, workVars, handler, sweep, paused,
                 historyVars, used, boundVars>>

\* Mutant: the filter on the terminal states is missing.
OrphanedEnded(t) == ~Queued(t)
Orphaned(t) == \/ state[t] \in {"ASSIGNED", "RUNNING"}
               \/ state[t] = "QUEUED" /\ ~Queued(t)

\* recoverOrphaned visits a hash: an orphaned task is reset and re-added; one
\* older than completedTtl has its hash expire instead.
RecoverTask(t) ==
  /\ phase = "recover" /\ t \in scan
  /\ scan' = scan \ {t}
  /\ \/ /\ Orphaned(t)
        /\ state' = Written(t, "QUEUED")
        /\ zset' = [zset EXCEPT ![task[t].prio] = Append(Without(@, t), t)]
        /\ UNCHANGED <<expiring, archived, discards>>
     \/ /\ ~Orphaned(t)
        /\ UNCHANGED <<state, zset, expiring, archived, discards>>
     \/ /\ state[t] \in {"QUEUED", "ASSIGNED", "RUNNING"} /\ discards < MaxDiscards
        /\ discards' = discards + 1 /\ expiring' = expiring \cup {t}
        /\ archived' = archived \cup {task[t].event}
        /\ UNCHANGED <<state, zset>>
  /\ UNCHANGED <<task, dlq, corr, dedup, phase, closing, loopVars, workVars,
                 handler, sweep, paused, answer, finished, retries, used, fails,
                 sweeps, stops, sigterms, errors, pauses>>

RecoverEnd ==
  /\ phase = "recover" /\ scan = {}
  /\ phase' = "flush"
  /\ UNCHANGED <<redisVars, scan, closing, loopVars, workVars, handler, sweep,
                 paused, historyVars, used, boundVars>>

\* The 60 seconds of a discarded hash are over.
HashExpires(t) ==
  /\ t \in expiring
  /\ state' = [state EXCEPT ![t] = "none"]
  /\ expiring' = expiring \ {t}
  /\ UNCHANGED <<zset, task, dlq, corr, dedup, processVars, loopVars, workVars,
                 handler, sweep, paused, historyVars, used, boundVars>>

\* flushStaleTaskState: a task of more than four hours that has not ended, among
\* them those recovery discarded and some it re-added, loses its hash and its
\* queue entry.
FlushTask(t) ==
  /\ phase = "flush" /\ state[t] \in {"QUEUED", "ASSIGNED", "RUNNING"}
  /\ IF t \in expiring THEN UNCHANGED discards
     ELSE discards < MaxDiscards /\ discards' = discards + 1
  /\ state' = [state EXCEPT ![t] = "none"]
  /\ zset' = [p \in Levels |-> Without(zset[p], t)]
  /\ expiring' = expiring \ {t}
  /\ archived' = archived \cup {task[t].event}
  /\ UNCHANGED <<task, dlq, corr, dedup, processVars, loopVars, workVars,
                 handler, sweep, paused, answer, finished, retries, used, fails,
                 sweeps, stops, sigterms, errors, pauses>>

\* The DLQ entries of more than four hours, the last of the list, go; then the
\* polling starts.
FlushEnd ==
  /\ phase = "flush"
  /\ \E n \in 0..Len(dlq) :
       /\ n = Len(dlq) \/ MaxDiscards > 0
       /\ dlq' = SubSeq(dlq, 1, n)
       /\ archived' = archived \cup EventsOf(SubSeq(dlq, n + 1, Len(dlq)))
  /\ phase' = "up"
  /\ UNCHANGED <<zset, state, task, corr, dedup, expiring, scan, closing,
                 loopVars, workVars, handler, sweep, paused, answer, finished,
                 retries, used, boundVars>>

-----------------------------------------------------------------------------
HandlerStep(e) == \/ FloodGuard(e) \/ SetCorrelation(e) \/ SetDedup(e)
                  \/ ReadDepth(e) \/ EnqueueEvent(e)
LoopStep(l) == \/ Peek(l) \/ Promote(l) \/ Pop(l) \/ Fetch(l) \/ Requeue(l)
               \/ Assign(l)
PostStep(t) == Record(t) \/ Retry(t) \/ PushToDlq(t) \/ Trim(t)
RestartStep == \/ Start \/ RecoverEnd \/ FlushEnd
               \/ \E t \in Ids : RecoverTask(t) \/ FlushTask(t)

Next ==
  \/ \E e \in Events : Arrive(e) \/ HandlerStep(e) \/ HandlerError(e)
  \/ Poll \/ Pause \/ Sigterm \/ DrainAdd \/ Exit \/ RestartStep
  \/ \E l \in Loops : LoopStep(l) \/ LoopError(l)
  \/ \E w \in Workers : \/ DrainMark(w)
                        \/ \E r \in Outcomes : WorkerEnd(w, r)
  \/ \E t \in Ids : PostStep(t) \/ RecordError(t) \/ PushError(t) \/ HashExpires(t)
  \/ \E k \in Keys : CircuitAges(k)
  \/ \E s \in Sweepers : \/ SweepStep(s)
                         \/ \E m \in SweepModes : SweepBegin(s, m)

Spec == Init /\ [][Next]_vars

\* Redis answers, every execution has a timeout, the poll timer keeps firing
\* and the orchestrator restarts a process that ended.
Fairness ==
  /\ \A e \in Events : WF_vars(HandlerStep(e))
  /\ WF_vars(Poll /\ dispatching') /\ WF_vars(RestartStep)
  /\ \A l \in Loops : WF_vars(LoopStep(l))
  /\ \A w \in Workers : WF_vars(\E r \in Outcomes : WorkerEnd(w, r))
  /\ \A t \in Ids : WF_vars(PostStep(t))

FairSpec == Spec /\ Fairness

-----------------------------------------------------------------------------
(* Properties.                                                             *)

\* Types of all the variables.
TaskOrNone == Ids \cup {NoTask}
Entries == [event : AnyEvent, prio : Levels, count : Nat, permanent : BOOLEAN,
            timeout : BOOLEAN]
TypeOK ==
  /\ zset \in [Levels -> Seq(Ids)]
  /\ state \in [Ids -> {"none", "QUEUED", "ASSIGNED", "RUNNING", "COMPLETED",
                        "FAILED", "TIMEOUT", "REQUEUED"}]
  /\ task \in [Ids -> [event : AnyEvent, prio : Levels,
                       dlqCount : Nat, tmoCount : Nat]]
  /\ dlq \in Seq(Entries)
  /\ corr \subseteq Correlations /\ dedup \subseteq Keys /\ expiring \subseteq Ids
  /\ phase \in {"down", "recover", "flush", "up", "draining"}
  /\ scan \subseteq Ids /\ closing \in TaskOrNone /\ dispatching \in BOOLEAN
  /\ loop \in [Loops -> [pc : {"idle", "peek", "promote", "pop", "fetch",
                               "requeue", "assign"},
                         worker : Workers \cup {NoWorker}, task : TaskOrNone,
                         level : Levels, promoted : BOOLEAN]]
  /\ worker \in [Workers -> TaskOrNone]
  /\ post \in [Ids -> [pc : {"none", "record", "retry", "push", "trim"},
                       result : Outcomes \cup {"none"}]]
  /\ failures \in [Keys -> Nat]
  /\ handler \in [Events -> {"new", "flood", "corr", "dedup", "depth",
                             "enqueue", "done"}]
  /\ sweep \in [Sweepers -> [pc : {"idle", "entries"}, mode : {"retry", "drain"},
                             todo : Seq(Entries), keep : Seq(Entries),
                             changed : BOOLEAN]]
  /\ paused \in BOOLEAN
  /\ answer \in [Events -> {"none", "accepted", "rejected", "duplicate", "error"}]
  /\ finished \subseteq AnyEvent /\ archived \subseteq AnyEvent
  /\ retries \in [Events -> Nat]
  /\ used \in 0..MaxTasks
  /\ {fails, sweeps, stops, sigterms, errors, pauses, discards} \subseteq Nat

\* "Mutex: only one dispatchNext at a time": whatever calls it, whatever fails
\* in it, one loop runs and the flag says so.
MutexExact ==
  /\ dispatching <=> \E l \in Loops : loop[l].pc # "idle"
  /\ \A l, m \in Loops : loop[l].pc # "idle" /\ loop[m].pc # "idle" => l = m

\* The worker a loop found idle is still idle when its task arrives, several
\* awaits later: execute() never throws "is not idle".
WorkerFree ==
  \A l \in Loops : loop[l].pc # "idle" => worker[loop[l].worker] = NoTask

\* How often an id is held: in the sorted sets, by a loop, by a worker.
Held(t) ==
  Cardinality({x \in Levels \X Ids :
                 x[2] \in DOMAIN zset[x[1]] /\ zset[x[1]][x[2]] = t})
  + Cardinality({l \in Loops : loop[l].task = t})
  + Cardinality({w \in Workers : worker[w] = t})

\* A task is queued once, or dequeued once, or executed once: cleanup and
\* polling never hand the same task to two workers.
HeldOnce == phase # "draining" => \A t \in Ids : Held(t) <= 1

\* The next state of a task, as the lifecycle of docs/DISPATCHER.md draws it,
\* with the reset of the startup recovery: as long as no SIGTERM re-queued a
\* running task, a task that ended stays ended.
Follows(t) ==
  CASE state[t] \in {"none", "QUEUED"} -> state'[t] \in {"none", "QUEUED", "ASSIGNED"}
    [] state[t] \in {"ASSIGNED", "RUNNING"} -> state'[t] # "none" \/ t \in expiring
    [] OTHER -> state'[t] \in {"COMPLETED", "FAILED", "TIMEOUT", "none"}
EndedStaysEnded == [][sigterms = 0 => \A t \in Ids : Follows(t)]_vars

\* Some copy of the event's work is queued, in hand, executing or about to be
\* retried or filed; or a start of the process will find it.
Live(e) ==
  \E t \in Ids :
    /\ task[t].event = e
    /\ \/ Queued(t) \/ closing = t
       \/ \E l \in Loops : loop[l].task = t
       \/ \E w \in Workers : worker[w] = t
       \/ post[t].pc \in {"record", "retry", "push"}
       \/ /\ state[t] \in {"QUEUED", "ASSIGNED", "RUNNING"}
          /\ phase = "down" \/ (phase = "recover" /\ t \in scan)
InDlq(e) == e \in EventsOf(dlq)
Settled(e) == e \in finished \cup archived \/ InDlq(e)

\* "mechanisms to prevent task loss": while no Redis command fails and the
\* process does not crash, also across the drain of a SIGTERM and the next
\* start, an accepted event is completed, being worked on, or in the
\* dead-letter queue.
NoTaskLost ==
  errors = 0 /\ stops = 0 =>
    \A e \in Events : answer[e] = "accepted" => Settled(e) \/ Live(e)

\* Every accepted event is executed or filed in the end: the immediate retry
\* that returns without dispatchNext, and a call of it that finds the mutex
\* taken, cost no wakeup.
AcceptedSettles == \A e \in Events : answer[e] = "accepted" ~> Settled(e)

\* Two first attempts at the same task, repository and number are never queued,
\* in hand or executing at once, as long as no task of that key was retried: the
\* end of a retry deletes the key whoever set it since.
Active(t) == \/ Queued(t) \/ \E l \in Loops : loop[l].task = t
             \/ \E w \in Workers : worker[w] = t
FirstAttempt(t) == Active(t) /\ task[t].dlqCount = 0 /\ task[t].tmoCount = 0
Retried(k) == \E t \in Ids : /\ task[t].dlqCount > 0 \/ task[t].tmoCount > 0
                             /\ KeyOf[task[t].event] = k
OneTaskPerKey ==
  \A t, u \in Ids :
    FirstAttempt(t) /\ FirstAttempt(u) /\ KeyOf[task[t].event] = KeyOf[task[u].event]
    => t = u \/ Retried(KeyOf[task[t].event])

\* "Exhausted: After maxRetries": an accepted event is retried from the
\* dead-letter queue at most dlqMaxRetries times, unless a retry at once, a
\* drain or a pause made a second task of it whose count starts at 0.
CountDropped(e) ==
  \E t, u \in Ids : /\ task[t].event = e /\ task[u].event = e /\ t # u
                    /\ task[t].dlqCount = 0 /\ task[u].dlqCount = 0
RetryCap == \A e \in Events : retries[e] <= DlqMaxRetries \/ CountDropped(e)

\* While sweeps of the dead-letter queue, immediate retries and filing
\* interleave, no event ever has two tasks queued, in hand or executing.
OneTaskPerEvent ==
  \A t, u \in Ids : Active(t) /\ Active(u) /\ task[t].event = task[u].event => t = u
=============================================================================
