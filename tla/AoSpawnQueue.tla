---------------------------- MODULE AoSpawnQueue ----------------------------
(***************************************************************************)
(* Spawn admission and draining of the AO bridge: the Redis-backed queue   *)
(* of ao/queue-store.mjs driven by the HTTP handlers and the drain loop of *)
(* ao/ao-bridge-server.mjs, for any number of bridge processes that share  *)
(* one Redis.                                                              *)
(*                                                                         *)
(* A step is what the code does between two awaits whose order matters:    *)
(* one Redis command (or Lua script, or MULTI) and the synchronous code    *)
(* that follows its reply.  Redis survives a bridge; everything else in a  *)
(* bridge is lost when its process ends.  A Redis failure inside the drain *)
(* loop or in completeSpawnJob rejects a promise nobody handles, which     *)
(* ends the process: it is the action Crash.                               *)
(*                                                                         *)
(* pending and running are written oldest first: LPUSH appends, a pop from *)
(* the RIGHT takes the head.                                               *)
(***************************************************************************)
EXTENDS Naturals, FiniteSets, SequencesExt

CONSTANTS Bridges,          \* bridge processes
          InitiallyUp,      \* those already serving; the others start later
          Calls,            \* HTTP requests to /spawn and /batch-spawn
          BatchCalls,       \* those to /batch-spawn
          Jobs,             \* job ids, one per requested spawn
          JobsOf,           \* JobsOf[c]: the jobs request c asks for
          Fingerprints,
          FingerprintOf,    \* buildQueueFingerprint
          NoJob, NoBridge,
          MaxConcurrent,    \* MAX_CONCURRENT
          MaxQueue,         \* MAX_QUEUE
          MaxStops,         \* bound: crashes and SIGTERMs explored
          MaxRedisErrors,   \* bound: failed Redis replies explored
          MaxExpiries       \* bound: dedup TTLs that run out

ASSUME ConstantsAssumption ==
  /\ InitiallyUp \subseteq Bridges
  /\ BatchCalls \subseteq Calls
  /\ JobsOf \in [Calls -> SUBSET Jobs]
  /\ \A c \in Calls : JobsOf[c] # {}
  /\ \A c, d \in Calls : c # d => JobsOf[c] \cap JobsOf[d] = {}
  /\ \A c \in Calls \ BatchCalls, j, k \in Jobs :
        j \in JobsOf[c] /\ k \in JobsOf[c] => j = k
  /\ FingerprintOf \in [Jobs -> Fingerprints]
  /\ NoJob \notin Jobs /\ NoBridge \notin Bridges
  /\ MaxConcurrent \in Nat \ {0}
  /\ MaxQueue \in Nat
  /\ MaxStops \in Nat /\ MaxRedisErrors \in Nat /\ MaxExpiries \in Nat

VARIABLES
  pending,     \* Redis list: queued job ids
  running,     \* Redis list: dequeued job ids
  jobs,        \* Redis hash: the ids that have a record
  dedup,       \* Redis keys: fingerprint -> reserving job id
  phase,       \* per bridge: "down", "up", "stopping" (SIGTERM received)
  recovering,  \* per bridge: recoverRunningJobs is still looping
  active,      \* per bridge: activeSpawns
  drain,       \* per bridge: where drainSpawnQueue is
  hand,        \* per bridge: the id the drain loop has dequeued
  executing,   \* per bridge and job: executeSpawnJob calls before `finally`
  completing,  \* per bridge and job: calls awaiting completeSpawnJob
  pc,          \* per request: where its handler is
  at,          \* per request: the bridge that handles it
  item,        \* per request: the job being enqueued
  left,        \* per request: the jobs still to enqueue
  answer,      \* history: what the caller was told of each job
  entered,     \* history: ids ever pushed on pending
  done,        \* history: ids some completeSpawnJob removed
  stops, errors, expiries

redisVars   == <<pending, running, jobs, dedup>>
drainVars   == <<active, drain, hand, executing, completing>>
handlerVars == <<pc, at, item, left>>
historyVars == <<answer, entered, done>>
faultVars   == <<stops, errors, expiries>>
vars == <<redisVars, phase, recovering, drainVars, handlerVars, historyVars,
          faultVars>>

\* Mutant: the LREM of complete is forgotten.
LRemForgotten(s, j) == s

\* LREM key 1 id.  Every id is on the lists at most once, so which occurrence
\* is removed does not matter.
LRem(s, j) ==
  IF j \in ToSet(s) THEN RemoveAt(s, CHOOSE i \in 1..Len(s) : s[i] = j) ELSE s

\* Mutants of the admission checks: the cap is not looked up, the queue takes
\* one job too many, the SET lacks NX.
DequeueAdmitsAlways == TRUE
EnqueueAdmitsOneMore == Len(pending) <= MaxQueue
ReservedNever(f) == FALSE

\* The admission checks inside the two scripts, and the SET NX.
DequeueAdmits == Len(running) < MaxConcurrent
EnqueueAdmits == Len(pending) < MaxQueue
Reserved(f) == dedup[f] # NoJob

\* Mutant: the decrement is done twice.
DecrementTwice(n) == n - 2

\* activeSpawns = Math.max(0, activeSpawns - 1)
Decrement(n) == IF n > 0 THEN n - 1 ELSE 0

\* Mutant: the loop condition forgets activeSpawns.
LoopsOnUncounted(b) == phase[b] = "up"

\* The loop condition, once the job in hand is counted.
LoopsOn(b) == phase[b] = "up" /\ active[b] + 1 < MaxConcurrent

NoOne == [j \in Jobs |-> 0]

\* A call of drainSpawnQueue at b returns unless the loop is idle; the loop
\* itself ends at once unless a slot is free.
Kicked(b) ==
  IF drain[b] = "idle" /\ phase[b] = "up" /\ active[b] < MaxConcurrent
  THEN "pop" ELSE drain[b]

Init ==
  /\ pending = <<>> /\ running = <<>> /\ jobs = {}
  /\ dedup = [f \in Fingerprints |-> NoJob]
  /\ phase = [b \in Bridges |-> IF b \in InitiallyUp THEN "up" ELSE "down"]
  /\ recovering = [b \in Bridges |-> FALSE]
  /\ active = [b \in Bridges |-> 0]
  /\ drain = [b \in Bridges |-> "idle"]
  /\ hand = [b \in Bridges |-> NoJob]
  /\ executing = [b \in Bridges |-> NoOne]
  /\ completing = [b \in Bridges |-> NoOne]
  /\ pc = [c \in Calls |-> "waiting"]
  /\ at = [c \in Calls |-> NoBridge]
  /\ item = [c \in Calls |-> NoJob]
  /\ left = JobsOf
  /\ answer = [j \in Jobs |-> "none"]
  /\ entered = {} /\ done = {}
  /\ stops = 0 /\ errors = 0 /\ expiries = 0

-----------------------------------------------------------------------------
(* The /spawn and /batch-spawn handlers.                                   *)

\* The handler turns to job j of its request.
TakeUp(c, j) ==
  /\ pc' = [pc EXCEPT ![c] = "reserve"]
  /\ item' = [item EXCEPT ![c] = j]
  /\ left' = [left EXCEPT ![c] = @ \ {j}]

\* What the handler does once queueSpawnJob has returned for its item: the
\* next item of a batch, the reply and the drain, or an early return.
Proceed(c, accepted) ==
  \/ \E j \in left[c] : TakeUp(c, j)
  \/ /\ left[c] = {}
     /\ pc' = [pc EXCEPT ![c] = IF accepted \/ c \in BatchCalls
                                THEN "reply" ELSE "closed"]
     /\ UNCHANGED <<item, left>>

\* The request is accepted by a bridge that is not shutting down.
Receive(c, b) ==
  /\ pc[c] = "waiting" /\ phase[b] = "up"
  /\ \E j \in left[c] : TakeUp(c, j)
  /\ at' = [at EXCEPT ![c] = b]
  /\ UNCHANGED <<redisVars, phase, recovering, drainVars, historyVars, faultVars>>

\* SET NX of the fingerprint: it reserves it, or the job is a duplicate.
Reserve(c) ==
  LET f == FingerprintOf[item[c]] IN
  /\ pc[c] = "reserve"
  /\ \/ /\ ~Reserved(f)
        /\ dedup' = [dedup EXCEPT ![f] = item[c]]
        /\ pc' = [pc EXCEPT ![c] = "push"]
        /\ UNCHANGED <<item, left, answer>>
     \/ /\ Reserved(f)
        /\ answer' = [answer EXCEPT ![item[c]] = "duplicate"]
        /\ Proceed(c, FALSE)
        /\ UNCHANGED dedup
  /\ UNCHANGED <<pending, running, jobs, phase, recovering, drainVars, at,
                 entered, done, faultVars>>

\* Mutants: the id is pushed without its record, or on the wrong side.
EnterWithoutRecord(j) ==
  /\ pending' = Append(pending, j)
  /\ entered' = entered \cup {j} /\ UNCHANGED jobs
EnterInFront(j) ==
  /\ pending' = <<j>> \o pending
  /\ jobs' = jobs \cup {j} /\ entered' = entered \cup {j}

\* HSET and LPUSH of the enqueue script.
Enter(j) ==
  /\ pending' = Append(pending, j)
  /\ jobs' = jobs \cup {j}
  /\ entered' = entered \cup {j}

\* ENQUEUE_ATOMIC_SCRIPT: admission check and push in one step.
Push(c) ==
  /\ pc[c] = "push"
  /\ \/ /\ EnqueueAdmits
        /\ Enter(item[c])
        /\ answer' = [answer EXCEPT ![item[c]] = "accepted"]
        /\ Proceed(c, TRUE)
     \/ /\ ~EnqueueAdmits
        /\ pc' = [pc EXCEPT ![c] = "undoFull"]
        /\ UNCHANGED <<pending, jobs, entered, answer, item, left>>
  /\ UNCHANGED <<running, dedup, phase, recovering, drainVars, at, done, faultVars>>

\* Queue full: the reservation is deleted before the caller hears of it.
UndoFull(c) ==
  /\ pc[c] = "undoFull"
  /\ dedup' = [dedup EXCEPT ![FingerprintOf[item[c]]] = NoJob]
  /\ answer' = [answer EXCEPT ![item[c]] = "full"]
  /\ Proceed(c, FALSE)
  /\ UNCHANGED <<pending, running, jobs, phase, recovering, drainVars, at,
                 entered, done, faultVars>>

\* The handler's catch: the item, and the rest of a batch, are given up
\* without a drain.
GiveUp(c) ==
  /\ pc' = [pc EXCEPT ![c] = "closed"]
  /\ answer' = [answer EXCEPT ![item[c]] = "error"]
  /\ UNCHANGED <<item, left>>

\* The SET NX is answered by an error, whether or not Redis applied it.
ReserveError(c) ==
  LET f == FingerprintOf[item[c]] IN
  /\ pc[c] = "reserve" /\ errors < MaxRedisErrors
  /\ errors' = errors + 1
  /\ \/ UNCHANGED dedup
     \/ ~Reserved(f) /\ dedup' = [dedup EXCEPT ![f] = item[c]]
  /\ GiveUp(c)
  /\ UNCHANGED <<pending, running, jobs, phase, recovering, drainVars, at,
                 entered, done, stops, expiries>>

\* The script is answered by an error, whether or not Redis applied it.
PushError(c) ==
  /\ pc[c] = "push" /\ errors < MaxRedisErrors
  /\ errors' = errors + 1
  /\ \/ EnqueueAdmits /\ Enter(item[c])
     \/ UNCHANGED <<pending, jobs, entered>>
  /\ pc' = [pc EXCEPT ![c] = "undoError"]
  /\ UNCHANGED <<running, dedup, phase, recovering, drainVars, at, item, left,
                 answer, done, stops, expiries>>

\* enqueue's catch deletes the reservation and rethrows.
UndoError(c) ==
  /\ pc[c] = "undoError"
  /\ \/ /\ dedup' = [dedup EXCEPT ![FingerprintOf[item[c]]] = NoJob]
        /\ UNCHANGED errors
     \/ /\ errors < MaxRedisErrors /\ errors' = errors + 1
        /\ UNCHANGED dedup
  /\ GiveUp(c)
  /\ UNCHANGED <<pending, running, jobs, phase, recovering, drainVars, at,
                 entered, done, stops, expiries>>

\* The response is written and the drain loop is called.
Reply(c) ==
  /\ pc[c] = "reply"
  /\ pc' = [pc EXCEPT ![c] = "closed"]
  /\ drain' = [drain EXCEPT ![at[c]] = Kicked(at[c])]
  /\ UNCHANGED <<redisVars, phase, recovering, active, hand, executing,
                 completing, at, item, left, historyVars, faultVars>>

-----------------------------------------------------------------------------
(* The drain loop.                                                         *)

\* DEQUEUE_ATOMIC_SCRIPT: the admission check of the global cap and the move
\* in one step; a nil reply ends the loop.
DrainPop(b) ==
  /\ drain[b] = "pop"
  /\ \/ /\ DequeueAdmits /\ pending # <<>>
        /\ running' = Append(running, Head(pending))
        /\ pending' = Tail(pending)
        /\ hand' = [hand EXCEPT ![b] = Head(pending)]
        /\ drain' = [drain EXCEPT ![b] = "fetch"]
     \/ /\ ~DequeueAdmits \/ pending = <<>>
        /\ drain' = [drain EXCEPT ![b] = "idle"]
        /\ UNCHANGED <<pending, running, hand>>
  /\ UNCHANGED <<jobs, dedup, phase, recovering, active, executing, completing,
                 handlerVars, historyVars, faultVars>>

\* HGET of the job record.
DrainFetch(b) ==
  /\ drain[b] = "fetch"
  /\ drain' = [drain EXCEPT ![b] = IF hand[b] \in jobs THEN "start" ELSE "drop"]
  /\ UNCHANGED <<redisVars, phase, recovering, active, hand, executing,
                 completing, handlerVars, historyVars, faultVars>>

\* No record: LREM takes the id off running and the loop ends.
DrainDrop(b) ==
  /\ drain[b] = "drop"
  /\ running' = LRem(running, hand[b])
  /\ hand' = [hand EXCEPT ![b] = NoJob]
  /\ drain' = [drain EXCEPT ![b] = "idle"]
  /\ UNCHANGED <<pending, jobs, dedup, phase, recovering, active, executing,
                 completing, handlerVars, historyVars, faultVars>>

\* After the metrics await: the job starts and the loop goes round.
DrainStart(b) ==
  /\ drain[b] = "start"
  /\ active' = [active EXCEPT ![b] = @ + 1]
  /\ executing' = [executing EXCEPT ![b][hand[b]] = @ + 1]
  /\ hand' = [hand EXCEPT ![b] = NoJob]
  /\ drain' = [drain EXCEPT ![b] = IF LoopsOn(b) THEN "pop" ELSE "idle"]
  /\ UNCHANGED <<redisVars, phase, recovering, completing, handlerVars,
                 historyVars, faultVars>>

\* executeSpawnJob reaches its `finally`, having succeeded or not.
ExecEnd(b, j) ==
  /\ executing[b][j] > 0
  /\ executing' = [executing EXCEPT ![b][j] = @ - 1]
  /\ completing' = [completing EXCEPT ![b][j] = @ + 1]
  /\ active' = [active EXCEPT ![b] = Decrement(@)]
  /\ UNCHANGED <<redisVars, phase, recovering, drain, hand, handlerVars,
                 historyVars, faultVars>>

\* complete's MULTI, then the drain loop is called.
Complete(b, j) ==
  /\ completing[b][j] > 0
  /\ completing' = [completing EXCEPT ![b][j] = @ - 1]
  /\ running' = LRem(running, j)
  /\ jobs' = jobs \ {j}
  /\ dedup' = [dedup EXCEPT ![FingerprintOf[j]] = NoJob]
  /\ done' = done \cup {j}
  /\ drain' = [drain EXCEPT ![b] = Kicked(b)]
  /\ UNCHANGED <<pending, phase, recovering, active, hand, executing,
                 handlerVars, answer, entered, faultVars>>

-----------------------------------------------------------------------------
(* Start, stop, crash; the passage of six hours.                           *)

Start(b) ==
  /\ phase[b] = "down"
  /\ phase' = [phase EXCEPT ![b] = "up"]
  /\ recovering' = [recovering EXCEPT ![b] = TRUE]
  /\ UNCHANGED <<redisVars, drainVars, handlerVars, historyVars, faultVars>>

\* One LMOVE of recoverRunningJobs; when running is empty, the drain.
Recover(b) ==
  /\ recovering[b]
  /\ \/ /\ running # <<>>
        /\ pending' = Append(pending, Head(running))
        /\ running' = Tail(running)
        /\ UNCHANGED <<recovering, drain>>
     \/ /\ running = <<>>
        /\ recovering' = [recovering EXCEPT ![b] = FALSE]
        /\ drain' = [drain EXCEPT ![b] = Kicked(b)]
        /\ UNCHANGED <<pending, running>>
  /\ UNCHANGED <<jobs, dedup, phase, active, hand, executing, completing,
                 handlerVars, historyVars, faultVars>>

\* An LMOVE fails: the error is logged, nothing is retried.
RecoverError(b) ==
  /\ recovering[b] /\ errors < MaxRedisErrors
  /\ errors' = errors + 1
  /\ recovering' = [recovering EXCEPT ![b] = FALSE]
  /\ UNCHANGED <<redisVars, phase, drainVars, handlerVars, historyVars, stops,
                 expiries>>

Sigterm(b) ==
  /\ phase[b] = "up" /\ stops < MaxStops
  /\ stops' = stops + 1
  /\ phase' = [phase EXCEPT ![b] = "stopping"]
  /\ UNCHANGED <<redisVars, recovering, drainVars, handlerVars, historyVars,
                 errors, expiries>>

\* The process ends: five seconds after SIGTERM, or by a crash.
Exit(b) ==
  /\ \/ phase[b] = "stopping" /\ UNCHANGED stops
     \/ phase[b] = "up" /\ stops < MaxStops /\ stops' = stops + 1
  /\ phase' = [phase EXCEPT ![b] = "down"]
  /\ recovering' = [recovering EXCEPT ![b] = FALSE]
  /\ active' = [active EXCEPT ![b] = 0]
  /\ drain' = [drain EXCEPT ![b] = "idle"]
  /\ hand' = [hand EXCEPT ![b] = NoJob]
  /\ executing' = [executing EXCEPT ![b] = NoOne]
  /\ completing' = [completing EXCEPT ![b] = NoOne]
  /\ pc' = [c \in Calls |-> IF at[c] = b THEN "closed" ELSE pc[c]]
  /\ UNCHANGED <<redisVars, at, item, left, historyVars, errors, expiries>>

\* The EX of a dedup key runs out.
DedupExpires(f) ==
  /\ dedup[f] # NoJob /\ expiries < MaxExpiries
  /\ expiries' = expiries + 1
  /\ dedup' = [dedup EXCEPT ![f] = NoJob]
  /\ UNCHANGED <<pending, running, jobs, phase, recovering, drainVars,
                 handlerVars, historyVars, stops, errors>>

HandlerStep(c) == \/ Reserve(c) \/ Push(c) \/ UndoFull(c) \/ UndoError(c)
                  \/ Reply(c)
HandlerError(c) == ReserveError(c) \/ PushError(c)
DrainStep(b) == DrainPop(b) \/ DrainFetch(b) \/ DrainDrop(b) \/ DrainStart(b)

Next ==
  \/ \E c \in Calls : \/ \E b \in Bridges : Receive(c, b)
                      \/ HandlerStep(c) \/ HandlerError(c)
  \/ \E b \in Bridges : \/ DrainStep(b)
                        \/ \E j \in Jobs : ExecEnd(b, j) \/ Complete(b, j)
                        \/ Start(b) \/ Recover(b) \/ RecoverError(b)
                        \/ Sigterm(b) \/ Exit(b)
  \/ \E f \in Fingerprints : DedupExpires(f)

Spec == Init /\ [][Next]_vars

\* Redis answers, executeSpawnJob has a timeout on every command it runs, and
\* the orchestrator restarts a task that ended.
Fairness ==
  /\ \A c \in Calls : WF_vars(HandlerStep(c))
  /\ \A b \in Bridges : /\ WF_vars(DrainStep(b))
                        /\ WF_vars(Start(b)) /\ WF_vars(Recover(b))
  /\ \A b \in Bridges, j \in Jobs : /\ WF_vars(ExecEnd(b, j))
                                    /\ WF_vars(Complete(b, j))

FairSpec == Spec /\ Fairness

-----------------------------------------------------------------------------
(* Properties.                                                             *)

\* Types of all the variables.
TypeOK ==
  /\ pending \in Seq(Jobs) /\ running \in Seq(Jobs) /\ jobs \subseteq Jobs
  /\ dedup \in [Fingerprints -> Jobs \cup {NoJob}]
  /\ phase \in [Bridges -> {"down", "up", "stopping"}]
  /\ recovering \in [Bridges -> BOOLEAN]
  /\ active \in [Bridges -> Nat]
  /\ drain \in [Bridges -> {"idle", "pop", "fetch", "drop", "start"}]
  /\ hand \in [Bridges -> Jobs \cup {NoJob}]
  /\ executing \in [Bridges -> [Jobs -> Nat]]
  /\ completing \in [Bridges -> [Jobs -> Nat]]
  /\ pc \in [Calls -> {"waiting", "reserve", "push", "undoFull", "undoError",
                       "reply", "closed"}]
  /\ at \in [Calls -> Bridges \cup {NoBridge}]
  /\ item \in [Calls -> Jobs \cup {NoJob}]
  /\ left \in [Calls -> SUBSET Jobs]
  /\ answer \in [Jobs -> {"none", "accepted", "duplicate", "full", "error"}]
  /\ entered \subseteq Jobs /\ done \subseteq Jobs
  /\ stops \in Nat /\ errors \in Nat /\ expiries \in Nat

\* The running list never outgrows the cap, whatever stops and fails: every
\* path that adds to it is the script's.
RunningCap == Len(running) <= MaxConcurrent

\* Even though recoverRunningJobs puts jobs back without an admission check,
\* crashes cannot pile up more than one cap of jobs above MAX_QUEUE.
BacklogBound == Len(pending) + Len(running) <= MaxQueue + MaxConcurrent

\* A bridge never has more than MAX_CONCURRENT jobs in hand or executing,
\* although the loop tests activeSpawns several awaits before it counts the
\* job, and requests and completions call the loop meanwhile.
ActiveBound ==
  \A b \in Bridges :
    active[b] + (IF hand[b] = NoJob THEN 0 ELSE 1) <= MaxConcurrent

\* An accepted job that no completion removed is still queued or running in
\* Redis, with its record: neither a crash nor a failed command loses it.
NoLostJob ==
  \A j \in Jobs : answer[j] = "accepted" /\ j \notin done =>
    j \in jobs /\ (j \in ToSet(pending) \/ j \in ToSet(running))

Executions == UNION {{<<b, j>>} \X (1..executing[b][j]) : b \in Bridges, j \in Jobs}

\* "a global concurrency cap across all bridge processes": all bridges
\* together never execute more than MAX_CONCURRENT jobs.
GlobalCap == Cardinality(Executions) <= MaxConcurrent

Entries(j) == Cardinality({i \in DOMAIN running : running[i] = j})
Claims(b, j) == (IF hand[b] = j THEN 1 ELSE 0) + executing[b][j] + completing[b][j]
Owners(j) == UNION {{b} \X (1..Claims(b, j)) : b \in Bridges}

\* Each entry of running belongs to exactly one drain loop or execution: a
\* slot is neither leaked nor shared by two executions of a job.
SlotsOwned == \A j \in Jobs : Entries(j) = Cardinality(Owners(j))

\* Two jobs with the same fingerprint are never outstanding together.
OneJobPerFingerprint ==
  \A j, k \in entered \ done : FingerprintOf[j] = FingerprintOf[k] => j = k

\* While no bridge stops or starts, all bridges together are one bounded FIFO
\* queue with MAX_CONCURRENT workers that serve and finish every job once, also
\* when two bridges hit the cap in turn: no wakeup of the drain loops is lost.
Pool == INSTANCE AoJobPool
          WITH queue <- pending, busy <- ToSet(running), finished <- done
RefinesPool == Pool!Spec
=============================================================================
