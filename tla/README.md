# YClaw in TLA+

YClaw runs departments of LLM agents: events and operators' requests become
tasks, tasks are executed by agents or delegated to coding sessions, and the
results come back as events. Its own logic is the machinery between those
steps: queues, locks, claims, caps, retries and recovery, on Redis and MongoDB,
in single-threaded Node processes whose handlers interleave at every `await`.
That machinery is what these modules model.

Paths below are relative to the repository; `core/` is `packages/core/src/`.

## 1. Inventory

| Component | State it keeps | Operations | Talks to |
|---|---|---|---|
| **AO spawn queue** `ao/queue-store.mjs`, drain loop of `ao/ao-bridge-server.mjs` | Redis lists pending and running, job records, fingerprint keys; per process `activeSpawns`, `drainLoopActive` | `/spawn`, `/batch-spawn`, drain, complete, recover at start, SIGTERM | called by AO delegation, starts AO sessions |
| **AO sessions** `ao/ao-bridge-server.mjs`, `ao/runtime-process.mjs` | session locks (Redis or memory), monitor state files, `activeHarvests`, repository lock directories, `ao:pr-ready:*` | monitor, fallback timer, harvest, orphan sweep, resume, worktree cleanup | git, GitHub, callbacks to the core |
| AO helpers `ao/review-gate.mjs`, log store, code graph, project store, tokens | files | sequential pipelines | git, GitHub |
| **Builder dispatcher** `core/builder/` | Redis sorted sets per priority, task hashes, dead-letter list, dedup keys; per process mutex, workers, circuits | `handleEvent`, `dispatchNext`, `runWorker`, dead-letter sweep and drain, `stopGracefully`, startup recovery and flush | event bus, agent executor |
| **Operator tasks** `core/operators/` (tasks, locks, cross-department) | MongoDB task and request records; Redis resource locks and counters; per process agent queues and abort controllers | submit, cancel, approve, reject, expire, forced release, execute | agent executor |
| Operators' identity `core/operators/` (store, permission engine, middleware, bootstrap) | operator, role and key records | authenticate, authorise, audit | guards every route |
| **AO delegation** `core/ao/`, `core/bootstrap/agents.ts`, `event-claims.ts` | per-repository circuit, directive queue, issue and directive claims | delegate, retry, callback | AO spawn queue, event bus |
| **Event bus and triggers** `core/triggers/`, `core/security/eventbus/` | replay keys, dispatch claims, batches with timers | publish, verify, dispatch, collect | everything |
| **Approvals** `core/approvals/` | approval records | request, decide, expire | event bus |
| Reconciler, CI repair, PR hygiene `core/services/`, `core/bootstrap/` | cycle and resource locks, cooldown keys | periodic cycles | GitHub, event bus |
| Agent executor `core/agent/` | one execution | LLM rounds, actions | LLM, actions |
| Costs `core/costs/` | spend counters | check, record | agent executor |
| Objectives, exploration, growth engine, mechanic | records | scheduled cycles | event bus |
| Codegen, deploy, review, safety gates | provisioned sandboxes, decision tables | external calls | GitHub, cloud |
| Config revisions, data, onboarding, knowledge, checkpoints | records | CRUD | MongoDB |
| Memory package `packages/memory/` | PostgreSQL facts, episodes | write gate, dedup, decay | agent executor |
| AgentHub `infra/agenthub/` (Go) | SQLite, bare git repositories | push, fetch, post | exploration |
| CLI, Mission Control, Terraform | none of the protocol | user interface, infrastructure | HTTP API |

How they meet: an event reaches the bus, is verified and claimed, and triggers
an agent, the builder dispatcher or a delegation. A delegation claims its issue
and asks the AO bridge for a spawn; the spawn waits in the spawn queue, becomes
a session, is monitored and harvested, and a callback publishes the outcome,
which frees the claim. Operators enter by `/v1/tasks` and share only the agent
executor with the rest.

What is hard, and what makes each component correct:

* **Spawn queue.** Several bridges, one Redis, crashes between any two
  commands. Correct when the global cap holds, no accepted job is lost, no
  fingerprint is worked on twice, no slot leaks and no drain wakeup is lost.
* **Sessions.** Monitor, fallback timer, deadline, sweeper and resume race to
  harvest the same worktree, and the cleanup of another spawn may remove it.
  Correct when no session is forgotten before it is reported, a live session is
  not taken for an orphan, `session.completed` is true of the work that was seen,
  and the worktree of a running session stays.
* **Builder.** A hand-made mutex over awaits, three kinds of retry, a dead-letter
  list rewritten from a snapshot, a recovery that must tell lost from finished.
  Correct when no task is lost, none is handed out twice, retries are capped and
  every accepted event ends executed or filed.
* **Operator tasks.** Locks are preempted, expire and are forced away while the
  execution goes on; approvals, rejections and expiry race; cancels race with
  results. Correct when agents are serial, resources exclusive, locks and slots
  are not leaked, and an approval is acted on once.
* **Delegation.** SET NX claims with a TTL, released by events that may belong
  to an older spawn; requests whose answer is lost; entries delivered again.
  Correct when a directive becomes one job, an issue has one directive at work,
  and every claim is given back.
* **Event bus, approvals, batches.** Correct when an event is dispatched once per
  agent and task, a request is decided once, a collected event is fired once.

`PROJECT.json` lists the hazards with their lines; each is either covered by a
property or says why none covers it.

## 2. Plan

Most important behaviour first.

1. `AoSpawnQueue` refining `AoJobPool`: done, with eight theorems.
2. `BuilderDispatcher`: done, with nine theorems.
3. `OperatorTasks`: done, with eight theorems.
4. `AoSession`, sessions from the spawn job to the harvest: done, with four
   theorems.
5. `AoDelegation`, directives and CI repairs from their arrival to the report:
   done, with four theorems. It sees the bridge through `POST /spawn` and its
   callbacks; what it assumes of the bridge (one job per fingerprint while it is
   queued, an end that is reported) is what `AoSpawnQueue` and `AoSession` show.
6. Left: the event bus (replay keys, dispatch claims, batches), the reconciler
   (cycle and resource locks) and the budgets (check, then spend). Approvals were
   looked at and left out: see section 7.

Further theorems: the spawn queue's guarantees after the first fault, and what
`AoDelegation` assumes of the bridge, stated of `AoSpawnQueue` and `AoSession`.

## 3. Modules

In all modules a step is one command to Redis or MongoDB (a script, MULTI or
pipeline counts as one) with the synchronous code after its reply. The stores
survive a stop of a process; the variables of a process do not. Queued data is
abstracted to identifiers. Time is a choice: what may expire may expire at any
moment.

### AoSpawnQueue, AoJobPool

Models `ao/queue-store.mjs` and the request handlers, drain loop and completion
in `ao/ao-bridge-server.mjs`, for any number of bridges on one Redis. Actions of
a request: `Reserve` (SET NX of the fingerprint), `Push` (the enqueue script),
`UndoFull`, `GiveUp`, `Reply`. Of the drain loop: `DrainPop` (the dequeue script),
`DrainFetch`, `DrainDrop`, `DrainStart`; of an execution: `ExecEnd`, `Complete`. A
bridge starts (`Start`, `Recover`), gets SIGTERM, exits or crashes; a failed
command is an action of its own, with the reply lost after the command or before
it. A Redis failure in the drain loop rejects a promise nobody handles, which
ends the process, and is modelled as that.

`AoJobPool` is the promise: one bounded FIFO queue with a fixed number of
workers. The mapping is pending to `queue`, the set of running ids to `busy`.

### BuilderDispatcher

Models `core/builder/` on its Redis queue. `handleEvent` is the chain `Arrive`,
`FloodGuard`, `SetCorrelation`, `SetDedup`, `ReadDepth`, `EnqueueEvent`;
`dispatchNext` is `Peek`, `Promote`, `Pop`, `Fetch`, `Requeue`, `Assign`, with several
overlapping calls; `runWorker` after its execution is `Record`, `Retry`, `PushToDlq`,
`Trim`; a sweep or drain of the dead letters takes its snapshot (`SweepBegin`),
visits it entry by entry and writes back what it kept (`SweepEnd`);
`stopGracefully` is `Sigterm`, `DrainMark`, `DrainAdd`, `Exit`; a start is `Start`,
`RecoverTask`, `FlushTask`. `RecoverTask` merges the three commands on one task,
and `Drained` takes the 500 ms of grace to outlast the commands under way. The
dispatcher is documented and tested but not constructed by `main.ts`, where AO
executes coding tasks; it is modelled as the component its documentation
describes.

### OperatorTasks

Models submission, locks, queues, execution, cancel and cross-department
decisions of `core/operators/`. A request is `Admit`, then either `CreatePending`
and `Ask`, or `Acquire`, `MarkPreempted` or `CreateBlocked`, and `Create` or `FanOut`
(one child per step). An execution is `Begin`, `Return`, `ReadStatus`, `WriteResult`,
`Release`, `Finish`; `ExecError` follows the try, catch and finally blocks. The
agent queue is sequential code: `Insert` is its stable sort, and `ProcessNext` is
part of the steps that call it. A decision reads (`Decide`), applies its
conditional update (`ApplyVerdict`) and acts on it (`FollowUp`); `ExpirePending` is
the ten-minute job. `Decrement` and `Floor` are the two commands of the counter.
An abort matters only if it arrives before `executor.execute` begins; later the
executor's own polling decides between completed and failed, which `Return`
chooses freely.

### AoSession

Models the session half of `ao/ao-bridge-server.mjs` with the session locks of
`ao/queue-store.mjs`, for the sessions of one issue. A spawn job
(`executeSpawnJob`) is `SkipMerged`, or the three steps of
`cleanupWorktreesForIssue`, `CollectActiveSessions`, `RemoveWorktrees` and
`DeleteBranches`, then `StartMonitor` once AO has printed a session id.
`monitorSpawnedSession` is `AcquireSessionLock`, then whichever comes first of
`FallbackTimer`, `PollTick` and `Deadline` (with `ResetWorktree` after the last),
and `ReleaseSessionLock`. A harvest is the path of `harvestCompletedSession`:
`RecoverPr` without a worktree; otherwise `ReadStatus`, then the dirty path
(`GitCommit`, `GitPush`, `EnsurePr`) or the clean one (`ResolvePr`); then
`PostOutcome` and `FinishHarvest`, or `HarvestError`. The sweeper is `StartSweep`,
which reads the state files, and `FinishSweep`, which gets the listing, counts,
writes back and triggers. `Crash`, `Restart` and `ResumeMonitors` are the end of
the process and `resumeSessionMonitors`. `Harvesting` is the guard of
`activeHarvests`.

AO and the agent are external: `AoSpawn`, `AoProgress`, `AoCleansUp`,
`AgentWorks`. A listing may omit a live session, but not the same one twice in a
row: two misses are all the code has to tell an orphan from a listing that is
not up to date.

### AoDelegation

Models `routeAoDirective` and the `github:ci_fail` worker of
`core/bootstrap/agents.ts` with their claims, the circuit breaker and the retry of
`core/ao/bridge.ts`, the reports of `core/ao/callback.ts` and the redelivery of
`core/services/event-stream.ts`, for one issue. A directive is `ReadHold`,
`ClaimDirective`, `ClaimIssue`, the request, then `Label`, or `ReleaseIssueClaim`
and `Degrade`; a repair is `ReadAttempts`, `CountAttempt`, the request. A request
is accepted, refused (and sent again once), rejected, or its answer is lost.
`HandleReport` is the handler of `ao:task_completed` and `ao:task_failed`.
Directives come by the stream (one at a time, redelivered by a restart) or by
pub/sub (all at once, never redelivered): `mode` is chosen in `Init`. There is
one core process: the consumer of the stream is named after the host "for
single-container deployments", and a container with another host name never
replays the pending entries of the old one.

## 4. Runs

| Run | Checks | Instance |
|---|---|---|
| `spawn_queue_steady` | `GlobalCap`, `SlotsOwned`, `OneJobPerFingerprint`, refinement of `AoJobPool` with its liveness | two bridges, four jobs in three requests, cap 2, queue 2 |
| `spawn_queue_faults` | `TypeOK`, `BacklogBound`, `ActiveBound`, `NoLostJob` | two bridges, three jobs, cap 1, queue 1, a stop, a failed command, an expired key |
| `spawn_queue_late_start` | `GlobalCap` fails | a second bridge starts while the first executes |
| `builder_work` | `TypeOK`, `OneTaskPerKey`, `NoTaskLost`, `AcceptedSettles` | three events of three levels, two with one key, two workers, two overlapping dispatch calls |
| `builder_retries` | `MutexExact`, `WorkerFree`, `RetryCap`, `OneTaskPerEvent` | two events, all outcomes, two sweeps or drains |
| `builder_restarts` | `HeldOnce`, `NoTaskLost`, `EndedStaysEnded` | one event, a crash, a SIGTERM, a failed command, a pause |
| `builder_lost_entry` | `NoTaskLost` fails | a sweep against a filing |
| `operator_races` | `TypeOK`, `SerialAgents`, `ResourceExclusive`, `LockNotLeaked`, `SlotsNotLeaked`, `ApprovedOnce`, `FinishedIsFinal` | seven tasks, four operators, two agents, one resource, two deciders, three inputs of any kind |
| `session_harvest` | `TypeOK`, `TrackedUntilReported`, `CompletedMeansPushed`, `SweepHarvestsOrphans`, `SessionsReported`, `GoneForgotten` | one session, a crash, two failed commands or listings |
| `session_worktrees` | `RunningWorktreeKept` fails | two sessions of the issue, no faults |
| `delegation_issue` | `TypeOK`, `OneJobPerDirective`, `IssueDelegatedOnce`, `ClaimNotLeaked`, `IssueReleased` | two directives, one failing commit, threshold 2, one repair, one lapse, one outage |
| `operator_approved_lock` | `ResourceExclusive` fails | a direct task and an approved one on one resource |

Why the bounds are enough. The conflicts of the spawn queue need two actors at
the cap: two bridges at cap 1 or 2 with one job more than fits, a repeated
fingerprint and a batch. Those of the builder need two overlapping dispatch
calls, two workers and one more task than workers; each task may fail once more
than it is retried. `builder_work` and `builder_retries` have no faults and
`builder_restarts` has one of each kind, because two of a kind multiply the
states without a new kind of state. `operator_races` spends three inputs
(submissions, cancels, lost locks, errors, stops) in every mix: preemption
followed by a third request, a fan-out with a cancel, an approval with a restart,
and so on. Symmetry is used only in runs without liveness, over identical
bridges, workers, calls, deciders and sessions, and over the two contributors that compete
for the resource with their tasks.

`session_harvest` has one session, whose five triggers, sweeps and resumptions
already meet in every order; the second failure is for a repetition that fails
as well. Two sessions with faults pass 25 million states; they meet in the
cleanup, which `session_worktrees` explores, and in `RecoverPr`, and the safety
invariants are proved for any number of them. A lapse in `delegation_issue` is a
lost answer, a claim that ran out or an early report; an outage is a restart, a
Redis error or a lost callback: one of each at any moment, with two directives of
which either may hold the claim when the other comes. The threshold is 2 in place
of 3, so that two failures open the circuit.

Deadlock is not checked: every instance ends when its requests are served.

Fairness is assumed in four runs. Every `WF` is of a step the process takes
by itself once enabled: Redis answers, executions have a timeout (the bridge's
commands, the worker's deadline), the poll timer fires, and the orchestrator
restarts a process that ended. Nothing is assumed of requests, failures, stops
or expiries. `WF_vars(Poll /\ dispatching')` states that the timer fires again
while nothing is dispatched and a task could be. In `AoSession` the event loop
runs timers, polls and the harvest's commands (each has a timeout), and the
container restarts the process; nothing is assumed of AO, so `SessionsReported`
also covers a session that never ends. `AoDelegation` assumes that queued jobs
start or fail, that sessions end, and that a report reaches the core or is lost:
the first is the drain of `AoSpawnQueue`, the second what `SessionsReported` shows
of the bridge.

## 5. Proofs

For every value of the constants allowed by `ConstantsAssumption`, and so
without the bounds of the runs:

* `AoSpawnQueueProofs`: `TypeCorrect`, `ListsBounded`, `ActiveBounded` and
  `NoJobLost`. None of the invariants is inductive alone. `IInv` adds to them
  what a handler's place says of its item (`HandlerInv`), that `activeSpawns`
  counts the executions the loop believes in and leaves room for the job in hand
  (`DrainInv`), and that whatever entered the queue and was not completed is still
  listed with its record (`EnteredInv`). The longest part is what LREM and the
  list scripts do to sequences.
* `AoPoolProofs`: `SteadyGlobalCap`, `SteadySlotsOwned`, `SteadyFingerprints` and
  `SteadyRefinement`, until the first fault: `Steady` says that no bridge has
  stopped or started late, no reply was lost and no key expired. The runs show
  that the first three fail after such a fault, so the hypothesis is in the
  properties' nature. `SteadyInv` says that the two lists share no id and repeat
  none, that each entry of the running list is claimed by one bridge, and that
  the fingerprint key of every outstanding job names that job. `GlobalCap`
  counts executions over bridges and jobs: they map one to one into the running
  list, whose length the dequeue script bounds. `SteadyRefinement` is the safety
  half of `RefinesPool`: every step up to the first fault is a step of `AoJobPool`
  or a stutter.
* `BuilderDispatcherProofs`: `DispatchExclusive`, `ChosenWorkerIdle` and `TypesHold`.
  `LoopInv` pairs the flag with the one loop that is not idle and that loop's
  worker with no task; the theorem needs that only `Assign` gives a worker a task,
  and that `Break` and the errors free the flag and the loop together. `TypeInv`
  adds to the types that a loop that fetches has a task and that a task in
  post-processing has a result, without which `Took` and `Record` could write
  something else.
* `BuilderQueueProofs`: `NeverTwice`, `EndedIsFinal`, `NothingLost`, `KeyHolds`,
  `OneCopy` and `RetriesCapped`. The first three follow a
  task through the five places it can be in: a sorted set, the hand of a loop
  before and after HGETALL, a worker, the post-processing of `runWorker`. `FreshInv`
  says that an id not yet given out is in none. `HoldInv` says that the places
  exclude each other, that a sorted set holds an id once, in the level of its
  priority, and which task a SIGTERM may have put in two places while the
  process drains. `StateInv` ties the state in the hash to the place and says of
  the recovery what it has not visited yet. `KeptInv` says of each accepted
  event that it is settled or has a task in a place that leads on, a start of
  the process included. `NeverTwice` and `EndedIsFinal` assume `NoEventsAtStartup`:
  an event handled while the cleanup runs is requeued by it, as section 6 says.
  `NothingLost` assumes `NoSweeps`, since a sweep does lose tasks
  (`builder_lost_entry`), and nothing about the startup.
  The other three follow what a task stands for. `Claimed` says of a dedup key that
  at most one task that is not over or one event between its SET NX and its
  enqueue has it, and that the key is set meanwhile; `Record`, which deletes the
  key, then ends the only one. `EventInv` says where an event is: in one pending
  task, or in one entry of the dead-letter list or of the sweep's snapshot; while
  the sweep has dropped an entry (`Stale`) the stored list is wrong, and the sweep
  will replace it. `CapInv` adds that the count of that task or entry is the number
  of retries so far. `KeyHolds` assumes, besides `NoEventsAtStartup`, that nobody
  drains (`NoDrains`) and that neither a SIGTERM nor a pause came; `OneCopy` and
  `RetriesCapped` assume that no two sweeps overlap (`OneSweeper`) and that the
  process has neither stopped nor been told to (`Undisturbed`). TLC finds
  `OneTaskPerKey` violated by a drain, by a pause followed by a restart, and by a
  SIGTERM; and the other two by two sweeps of one list, and by a crash between a
  sweep's retry and its write of the list. Nothing in the code keeps
  an operator's drain (`dispatcher.ts:1113`) from overlapping the timer's sweep.
* `OperatorTasksProofs`: `LockReleased` and `ApprovedAtMostOnce`. For the first,
  `LockInv` says of every lock's holder that its handler is open or its execution
  is before the end of `Release`; a task that loses its lock drops out of the
  claim, and the holder's own release matches because the comparison of operators
  is true of itself. For the second, `Approval` ties each request's status to the
  number of entries into a queue and to the one decider between its update and
  its `FollowUp`. Both theorems hold whatever is cancelled, preempted, expired or
  restarted.
* `OperatorQueueProofs`: `SerialQueues`, `PriorityOrder`, `FinalStatus`, `OneWorker`,
  `NoSlotLeaks` and `TypeCorrect`. `QueueInv` says that an agent's queue holds the
  queued tasks of the agent, each once and in order of priority, and that the
  agent runs the one task in flight; `Insert` keeps it because the queue is sorted
  when it is called. `EntryInv` adds that what may still enter a queue (by its
  handler, as a child of a fan-out, by an approval) has not entered it, so that
  none enters twice. `RecordInv` relates the status to the place of the execution,
  for every order in which a cancel, a preemption and an end write it. `CoverInv`
  says that a task between its acquisition and its release holds its lock, or an
  operator of that resource lost one; `OneWorker` assumes that no task that needs an
  approval names a resource, which is what `operator_approved_lock` shows to be
  needed. `SlotInv` counts the outstanding requests of an operator against its
  counter, with the SET 0 that may still come.
* `AoSessionProofs`: `TypeCorrect`, `NoSessionForgotten`, `OnlyOrphansSwept` and
  `CompletedIsTrue`. `TypeOK` says that a monitor waits for a harvest of its own,
  and needs that an idle harvest has no trigger. `TrackedInv` extends the promise
  to the monitors about to be resumed and to the sessions whose state a sweep has
  read. `OrphanInv` says what a miss count above 0 stands for, in the file or in
  the sweeper's copy of it: the session is gone, or the last listing left it out;
  a second miss then means gone. `CompletedMeansPushed` needs to know who else may
  touch the work: `OrderInv` says which triggers are possible in which state of
  the monitor, so that nothing resets the worktree under a harvest, and
  `PushedInv` what the work is at each step of a harvest, given what it saw.
* `AoDelegationProofs`: `TypeCorrect`, `DirectiveDelegatedOnce`,
  `OneDirectiveAtWork` and `ClaimGivenBack`. `AllPaid` counts: while its handler is
  under way a directive has its claim and has made no more jobs than there were
  lapses, and afterwards one more at most. `AllBacked` says that the queued
  jobs, sessions and reports of a directive do not outnumber its posted jobs and
  the lapses; `OwnerHolds` that without lapses and repairs any directive with
  such a trace, or with a request out, is the owner of the issue's claim, and
  there is one owner. `ClaimNotLeaked` is inductive with the types.

Only model-checked: all liveness (fairness is beyond the prover), and with it
`AcceptedSettles`, `SessionsReported`, `GoneForgotten`,
`IssueReleased` and the fairness of `RefinesPool`. Every invariant and every action
property of a passing run has a theorem. Beyond the hypotheses of the theorems
that have some, nothing is claimed: `NoTaskLost` with sweeps is refuted by a run.

## 6. Where the code and its documentation differ

Shown by runs:

* `recoverRunningJobs` requeues the jobs of bridges that are alive, against
  the comment on the global cap (`ao/queue-store.mjs:50`).
* The dead-letter sweep replaces the list by what it kept of a snapshot and
  deletes an entry pushed meanwhile (`core/builder/task-queue.ts:695` against
  `docs/DISPATCHER.md:432`).
* An approved cross-department task takes no lock and no slot, against the
  comment at `core/operators/conflict-routes.ts:257`.
* Step 3 of `cleanupWorktreesForIssue` removes the worktree of a running
  session when git refuses to delete the branch it has checked out
  (`ao/ao-bridge-server.mjs:2401`), against the comment at `:2279`. Nor is a session
  in the set it collects between AO's creating it and its state file.

Seen while modelling, and kept out of what the properties claim. Builder and
operators:

* The builder's immediate retry drops the dead-letter count
  (`dispatcher.ts:621`), a drain and a fleet pause too: with `dlqMaxRetries` of 2 or
  more the cap of `docs/DISPATCHER.md:449` does not hold. `RetryCap` excepts the
  events of which such a second task exists (`CountDropped`).
* The dedup key is deleted at every result (`dispatcher.ts:579`), also at the
  first timeout and by the end of a retry, whoever set it since; hence
  `OneTaskPerKey` is about first attempts of keys that were not `Retried`.
* `stopGracefully` re-queues a task whose worker may still finish
  (`dispatcher.ts:983`); hence the condition of `EndedStaysEnded`.
* A crash between recording a TIMEOUT and its retry loses the task
  (`dispatcher.ts:559`); hence the condition of `NoTaskLost`.
* Events accepted during the startup cleanup race with its recovery
  (`dispatcher.ts:131`); the instances set `EventsAtStartup` to FALSE.
* Promotion of a P3 task precedes P0 (`task-queue.ts:186`), and depth check and
  enqueue are apart (`dispatcher.ts:390`): neither is claimed.
* `RELEASE_SCRIPT` compares operators, not tasks (`task-locks.ts:79`): a task of
  the same operator can release its successor's lock. `ResourceExclusive` counts
  that as a loss of the operator (`LostLock`).
* A department task that names a resource takes its lock and nobody releases it
  before its TTL, since the children carry no key; its record stays `running`.
  `LockNotLeaked` is about tasks with one agent.
* A cancelled request that is approved later is executed.

Sessions (`ao/ao-bridge-server.mjs`):

* The fallback timer harvests a session that is still alive and reports it
  completed; its later work is nobody's. Without other configuration it always
  precedes the deadline, which is modelled all the same.
* The sweeper can write back a state that a harvest deleted: the session is
  harvested again, and `completed` and `failed` may both be reported. A failed
  harvest keeps its state and is reported at every repetition. After a sweeper's
  harvest the timer of a live monitor harvests once more, without state or lock.
* A worktree removed during the harvest counts as clean, and the clean path
  reports `completed` although its push failed: hence `saw` and `lost` in
  `CompletedMeansPushed`. `RecoverPr` accepts the pull request of any session of
  the issue.
* A failed listing at the restart makes every session look gone, and harvests
  them all. `postAoCallback` does not notice that nobody answered.

Delegation (`core/bootstrap/agents.ts`, `core/ao/bridge.ts`):

* A directive that comes while the hold is on, or while another has the issue, is
  dropped and acknowledged; a duplicate in stream mode throws and stays pending
  until the next boot; a directive that meets an open circuit keeps its claim. A
  pub/sub event that throws goes to a dead-letter stream nothing reads.
* The retry of a request does not look at the circuit again. `isCircuitOpen`
  resets a circuit whose window has passed without its callback, so that the
  message of recovery usually is not posted.
* The cap of repairs is a GET before an INCR: commits that fail together all pass
  it, against the comment at `core/bootstrap/ci-repair.ts:83`.
* The report of a repair, and an early one, deletes the claim that a directive
  holds, and a second directive can then run beside the first:
  `IssueDelegatedOnce` excludes both, and lost answers.
* The in-progress label may be added after the report has removed it.

## 7. Not modelled

The components without a module in `PROJECT.json`, each with its reason there.
Approvals (`core/approvals/`) are a small record store; `decide` finds a pending
request and then updates it by its id alone, so that two decisions of one request
can both be published, and `expirePending` publishes what it found, not what it
updated. Under these two races no promise about a request is left that a run
could show. What a repository lock, the review gate, git or GitHub do to each
other's data is outside these modules, as are the Go, UI and deployment parts.

Of the modelled ones: the spawn queue and the session locks without Redis; the
review gate, auto-merge, pull-request events and reuse of session ids; batch
spawns, health checks and alerts of the delegation; the builder's `stop()`,
`flushTasks`, in-memory fallback, alerts and guards that only let events
through; the operators' request rate, daily quota, event stream, audit and
permission engine (its verdict is an input). Payloads, log lines, HTTP wording and
metrics are left out everywhere.
