---------------------------- MODULE OperatorTasks ----------------------------
(***************************************************************************)
(* The operators' tasks: POST /v1/tasks and /cancel (task-routes.ts), the  *)
(* cross-department decisions and the forced release (conflict-routes.ts,  *)
(* cross-dept.ts), the resource locks (task-locks.ts), the per-agent queue *)
(* (task-queue.ts), the executor (task-executor.ts) and the concurrency    *)
(* counter (rate-limiter.ts).                                              *)
(*                                                                         *)
(* A step is one command to MongoDB or Redis and the synchronous code      *)
(* after its reply.  MongoDB and Redis survive a stop of the process; the  *)
(* queues, handlers and executions do not.  A failed command is one that   *)
(* was not applied.                                                        *)
(***************************************************************************)
EXTENDS Integers, FiniteSets, SequencesExt

CONSTANTS Tasks,        \* task ids
          Operators, Roots,
          OperatorOf,   \* operatorId of a task
          PriorityOf,   \* priorityClass of an operator
          Agents, AgentOf,
          Keys, KeyOf, NoKey,  \* resourceKey, if the record has one
          ChildrenOf,   \* the child tasks of a department task, in order
          Cross,        \* tasks that need a cross-department approval
          Deciders,     \* calls of approve or reject
          NoTask,
          MaxConcurrentTasks,
          MaxInputs     \* bound: requests, cancels, locks taken, errors, stops

Children == UNION {ToSet(ChildrenOf[t]) : t \in Tasks}
Fanned == {t \in Tasks : ChildrenOf[t] # <<>>}

ASSUME ConstantsAssumption ==
  /\ Roots \subseteq Operators
  /\ OperatorOf \in [Tasks -> Operators] /\ PriorityOf \in [Operators -> Nat]
  /\ AgentOf \in [Tasks -> Agents]
  /\ NoKey \notin Keys /\ KeyOf \in [Tasks -> Keys \cup {NoKey}]
  /\ ChildrenOf \in [Tasks -> Seq(Tasks)]
  /\ \A t \in Children : ChildrenOf[t] = <<>> /\ KeyOf[t] = NoKey
  \* Every child task gets an id of its own and the operator of its parent.
  /\ \A t \in Tasks : /\ IsInjective(ChildrenOf[t])
                       /\ \A c \in ToSet(ChildrenOf[t]) : OperatorOf[c] = OperatorOf[t]
  /\ \A t, u \in Tasks :
        t # u => ToSet(ChildrenOf[t]) \cap ToSet(ChildrenOf[u]) = {}
  /\ Cross \subseteq Tasks \ (Fanned \cup Children)
  /\ NoTask \notin Tasks
  /\ {MaxConcurrentTasks, MaxInputs} \subseteq Nat

VARIABLES
  status,      \* MongoDB: status in operator_tasks; "none": no record
  request,     \* MongoDB: status in cross_dept_requests
  lock,        \* Redis: the task that holds lock:<key>
  concurrent,  \* Redis: ratelimit:concurrent:<operator>
  overdue,     \* requests whose expiresAt has passed
  handler,     \* per request: where POST /v1/tasks is
  old,         \* per request: the task whose lock it preempted
  left,        \* per request: the child tasks still to create
  queue,       \* per agent: queues
  running,     \* per agent: running
  exec,        \* per task: where its execution is, and its result
  floors,      \* per operator: decrementConcurrent calls about to SET 0
  aborted,     \* tasks aborted before executor.execute began
  cancelling,  \* per task: the ids its cancel call has still to mark
  decision,    \* per decider: where it is
  taken,       \* history: tasks that lost a lock they held
  entries,     \* history: how often a task entered a queue
  requests, cancels, takes, errors, stops

storeVars   == <<status, request, lock, concurrent, overdue>>
handlerVars == <<handler, old, left>>
queueVars   == <<queue, running, exec, entries>>
boundVars   == <<requests, cancels, takes, errors, stops>>
vars == <<storeVars, handlerVars, queueVars, floors, aborted, cancelling,
          decision, taken, boundVars>>

NotRun == [pc |-> "none", result |-> "none", caught |-> FALSE]
Undecided == [pc |-> "idle", task |-> NoTask, verdict |-> "none"]
Priority(t) == PriorityOf[OperatorOf[t]]
Inputs == requests + cancels + takes + errors + stops
Open(r) == handler[r] \notin {"new", "closed"}

Init ==
  /\ status = [t \in Tasks |-> "none"] /\ request = [t \in Tasks |-> "none"]
  /\ lock = [k \in Keys |-> NoTask]
  /\ concurrent = [o \in Operators |-> 0] /\ overdue = {}
  /\ handler = [t \in Tasks |-> IF t \in Children THEN "closed" ELSE "new"]
  /\ old = [t \in Tasks |-> NoTask] /\ left = ChildrenOf
  /\ queue = [a \in Agents |-> <<>>] /\ running = [a \in Agents |-> NoTask]
  /\ exec = [t \in Tasks |-> NotRun] /\ floors = [o \in Operators |-> 0]
  /\ aborted = {} /\ cancelling = [t \in Tasks |-> <<>>]
  /\ decision = [d \in Deciders |-> Undecided]
  /\ taken = {} /\ entries = [t \in Tasks |-> 0]
  /\ requests = 0 /\ cancels = 0 /\ takes = 0 /\ errors = 0 /\ stops = 0

-----------------------------------------------------------------------------
(* AgentTaskQueue.                                                         *)

\* push, then a stable sort by descending priority: as queue q was sorted
\* before, t comes to stand behind the tasks of at least its priority.
Insert(q, t) ==
  InsertAt(q, Cardinality({i \in DOMAIN q : Priority(q[i]) >= Priority(t)}) + 1, t)

\* Mutant: enqueue looks at the queue instead of running.
IsIdleUnqueued(a) == queue[a] = <<>>
IsIdle(a) == running[a] = NoTask

\* processNext: the head of queue q of agent a, if any, is executed.
ProcessNext(a, q, states) ==
  IF q = <<>>
  THEN /\ queue' = [queue EXCEPT ![a] = q]
       /\ running' = [running EXCEPT ![a] = NoTask]
       /\ exec' = states
  ELSE /\ queue' = [queue EXCEPT ![a] = Tail(q)]
       /\ running' = [running EXCEPT ![a] = Head(q)]
       /\ exec' = [states EXCEPT ![Head(q)].pc = "begin"]

\* executeAgentTask: the task enters its agent's queue, which is served at
\* once when the agent executes nothing.
Enqueue(t) ==
  LET a == AgentOf[t]
      q == Insert(queue[a], t)
      states == [exec EXCEPT ![t].pc = "queued"] IN
  /\ entries' = [entries EXCEPT ![t] = @ + 1]
  /\ IF IsIdle(a)
     THEN ProcessNext(a, q, states)
     ELSE /\ queue' = [queue EXCEPT ![a] = q]
          /\ exec' = states /\ UNCHANGED running

-----------------------------------------------------------------------------
(* POST /v1/tasks.                                                         *)

Goto(r, where) == handler' = [handler EXCEPT ![r] = where]

\* The rate limit of the middleware, then the permission check.
Admit(r) ==
  LET o == OperatorOf[r] IN
  /\ handler[r] = "new" /\ Inputs < MaxInputs
  /\ requests' = requests + 1
  /\ Goto(r, CASE o \notin Roots /\ concurrent[o] >= MaxConcurrentTasks -> "closed"
               [] r \in Cross -> "pending"
               [] r \notin Cross /\ KeyOf[r] # NoKey -> "lock"
               [] OTHER -> "create")
  /\ UNCHANGED <<storeVars, old, left, queueVars, floors, aborted, cancelling,
                 decision, taken, cancels, takes, errors, stops>>

\* The record with status pending_approval.
CreatePending(r) ==
  /\ handler[r] = "pending"
  /\ status' = [status EXCEPT ![r] = "pending_approval"]
  /\ Goto(r, "ask")
  /\ UNCHANGED <<request, lock, concurrent, overdue, old, left, queueVars, floors,
                 aborted, cancelling, decision, taken, boundVars>>

\* crossDeptStore.create
Ask(r) ==
  /\ handler[r] = "ask"
  /\ request' = [request EXCEPT ![r] = "pending"]
  /\ Goto(r, "closed")
  /\ UNCHANGED <<status, lock, concurrent, overdue, old, left, queueVars, floors,
                 aborted, cancelling, decision, taken, boundVars>>

Outranks(r, holder) == Priority(r) > Priority(holder)

\* ACQUIRE_SCRIPT: acquired, preempted or blocked.
Acquire(r) ==
  LET k == KeyOf[r] IN
  /\ handler[r] = "lock"
  /\ \/ /\ lock[k] = NoTask
        /\ lock' = [lock EXCEPT ![k] = r]
        /\ Goto(r, "create")
        /\ UNCHANGED <<old, taken>>
     \/ /\ lock[k] # NoTask /\ Outranks(r, lock[k])
        /\ lock' = [lock EXCEPT ![k] = r]
        /\ old' = [old EXCEPT ![r] = lock[k]]
        /\ taken' = taken \cup {lock[k]}
        /\ Goto(r, "mark")
     \/ /\ lock[k] # NoTask /\ ~Outranks(r, lock[k])
        /\ Goto(r, "block")
        /\ UNCHANGED <<lock, old, taken>>
  /\ UNCHANGED <<status, request, concurrent, overdue, left, queueVars, floors,
                 aborted, cancelling, decision, boundVars>>

\* updateOne changes nothing while the record does not exist.
Updated(t, s) == [status EXCEPT ![t] = IF @ = "none" THEN @ ELSE s]

MarkPreempted(r) ==
  /\ handler[r] = "mark"
  /\ status' = Updated(old[r], "preempted")
  /\ Goto(r, "create")
  /\ UNCHANGED <<request, lock, concurrent, overdue, old, left, queueVars, floors,
                 aborted, cancelling, decision, taken, boundVars>>

CreateBlocked(r) ==
  /\ handler[r] = "block"
  /\ status' = [status EXCEPT ![r] = "blocked"]
  /\ Goto(r, "closed")
  /\ UNCHANGED <<request, lock, concurrent, overdue, old, left, queueVars, floors,
                 aborted, cancelling, decision, taken, boundVars>>

\* incrementConcurrent is sent before the first record is written.
Counted(r) == [concurrent EXCEPT ![OperatorOf[r]] =
                 IF left[r] = ChildrenOf[r] THEN @ + 1 ELSE @]

\* One agent: the record, then executeAgentTask.
Create(r) ==
  /\ handler[r] = "create" /\ r \notin Fanned
  /\ status' = [status EXCEPT ![r] = "queued"]
  /\ concurrent' = Counted(r)
  /\ Enqueue(r)
  /\ Goto(r, "closed")
  /\ UNCHANGED <<request, lock, overdue, old, left, floors, aborted, cancelling,
                 decision, taken, boundVars>>

\* A department: one child after the other, then the parent's record.
FanOut(r) ==
  /\ handler[r] = "create" /\ r \in Fanned
  /\ \/ /\ left[r] # <<>>
        /\ status' = [status EXCEPT ![Head(left[r])] = "queued"]
        /\ concurrent' = Counted(r)
        /\ Enqueue(Head(left[r]))
        /\ left' = [left EXCEPT ![r] = Tail(@)]
        /\ UNCHANGED handler
     \/ /\ left[r] = <<>>
        /\ status' = [status EXCEPT ![r] = "running"]
        /\ Goto(r, "closed")
        /\ UNCHANGED <<concurrent, queueVars, left>>
  /\ UNCHANGED <<request, lock, overdue, old, floors, aborted, cancelling,
                 decision, taken, boundVars>>

\* A command of the handler fails: the reply is 500, what was done stays.
SubmitError(r) ==
  /\ Open(r) /\ Inputs < MaxInputs
  /\ errors' = errors + 1
  /\ concurrent' = IF handler[r] = "create" THEN Counted(r) ELSE concurrent
  /\ Goto(r, "closed")
  /\ UNCHANGED <<status, request, lock, overdue, old, left, queueVars, floors,
                 aborted, cancelling, decision, taken, requests, cancels, takes, stops>>

-----------------------------------------------------------------------------
(* The execution of one task: the function that executeAgentTask queues.   *)

Step(t, where) ==
  /\ exec' = [exec EXCEPT ![t].pc = where]
  /\ UNCHANGED <<queue, running, entries>>

\* updateStatus(running), then executor.execute, which looks at the signal.
Begin(t) ==
  /\ exec[t].pc = "begin"
  /\ status' = Updated(t, "running")
  /\ Step(t, IF t \in aborted THEN "stop" ELSE "work")
  /\ UNCHANGED <<request, lock, concurrent, overdue, handlerVars, floors, aborted,
                 cancelling, decision, taken, boundVars>>

\* Mutant: the record's status is taken as it is.
ReturnAsIs(t) ==
  /\ exec[t].pc \in {"work", "stop"}
  /\ \E r \in {"completed", "failed", "timeout"} :
       exec' = [exec EXCEPT ![t] = [pc |-> "read", result |-> r, caught |-> FALSE]]
  /\ UNCHANGED <<storeVars, handlerVars, queue, running, entries, floors, aborted,
                 cancelling, decision, taken, boundVars>>

\* executor.execute returns: it never throws.
Return(t) ==
  /\ exec[t].pc \in {"work", "stop"}
  /\ \E r \in {"completed", "failed"} :
       /\ exec[t].pc = "stop" => r = "failed"
       /\ exec' = [exec EXCEPT ![t] = [pc |-> "read", result |-> r, caught |-> FALSE]]
  /\ UNCHANGED <<storeVars, handlerVars, queue, running, entries, floors, aborted,
                 cancelling, decision, taken, boundVars>>

\* Mutant: an aborted execution leaves the status to the cancel call.
KeepsStatusAborted(t) == status[t] \in {"cancelled", "preempted"} \/ t \in aborted
KeepsStatus(t) == status[t] \in {"cancelled", "preempted"}

\* getByTaskId: a cancelled or preempted task keeps its status.
ReadStatus(t) ==
  /\ exec[t].pc = "read"
  /\ Step(t, IF KeepsStatus(t) THEN "release" ELSE "write")
  /\ UNCHANGED <<storeVars, handlerVars, floors, aborted, cancelling, decision,
                 taken, boundVars>>

WriteResult(t) ==
  /\ exec[t].pc = "write"
  /\ status' = Updated(t, exec[t].result)
  /\ Step(t, "release")
  /\ UNCHANGED <<request, lock, concurrent, overdue, handlerVars, floors, aborted,
                 cancelling, decision, taken, boundVars>>

\* A command fails: in the try block the catch block reads and writes again,
\* in the catch block the finally block is next.
ExecError(t) ==
  /\ exec[t].pc \in {"begin", "read", "write"} /\ Inputs < MaxInputs
  /\ errors' = errors + 1
  /\ exec' = [exec EXCEPT ![t] =
                IF @.caught THEN [@ EXCEPT !.pc = "release"]
                ELSE [pc |-> "read", result |-> "failed", caught |-> TRUE]]
  /\ UNCHANGED <<storeVars, handlerVars, queue, running, entries, floors, aborted,
                 cancelling, decision, taken, requests, cancels, takes, stops>>

\* Mutants: whoever holds the lock; only when the result was written.
MayReleaseAny(t, holder) == holder # NoTask
MayReleaseWritten(t, holder) ==
  holder # NoTask /\ OperatorOf[holder] = OperatorOf[t] /\ ~KeepsStatus(t)
MayRelease(t, holder) == holder # NoTask /\ OperatorOf[holder] = OperatorOf[t]

\* RELEASE_SCRIPT, in the finally block; its error is swallowed.
Release(t) ==
  LET k == KeyOf[t] IN
  /\ exec[t].pc = "release"
  /\ \/ /\ lock' = IF k # NoKey /\ MayRelease(t, lock[k])
                   THEN [lock EXCEPT ![k] = NoTask] ELSE lock
        /\ UNCHANGED errors
     \/ /\ k # NoKey /\ Inputs < MaxInputs
        /\ errors' = errors + 1 /\ UNCHANGED lock
  /\ Step(t, "finish")
  /\ UNCHANGED <<status, request, concurrent, overdue, handlerVars, floors,
                 aborted, cancelling, decision, taken, requests, cancels, takes, stops>>

\* Mutant: no decrement.
DecrementNever(o) == UNCHANGED <<concurrent, floors>>

\* decrementConcurrent: a DECR, and a SET 0 to follow when it went below 0.
Decrement(o) ==
  /\ concurrent' = [concurrent EXCEPT ![o] = @ - 1]
  /\ floors' = [floors EXCEPT ![o] = IF concurrent[o] <= 0 THEN @ + 1 ELSE @]

\* The end of the finally block (the reads for the event and the message change
\* nothing), then processNext.
Finish(t) ==
  /\ exec[t].pc = "finish"
  /\ Decrement(OperatorOf[t])
  /\ ProcessNext(AgentOf[t], queue[AgentOf[t]], [exec EXCEPT ![t].pc = "done"])
  /\ UNCHANGED <<status, request, lock, overdue, handlerVars, entries, aborted,
                 cancelling, decision, taken, boundVars>>

Floor(o) ==
  /\ floors[o] > 0
  /\ floors' = [floors EXCEPT ![o] = @ - 1]
  /\ concurrent' = [concurrent EXCEPT ![o] = 0]
  /\ UNCHANGED <<status, request, lock, overdue, handlerVars, queueVars, aborted,
                 cancelling, decision, taken, boundVars>>

-----------------------------------------------------------------------------
(* POST /v1/tasks/:id/cancel.                                              *)

\* controller.abort(): only tasks submitted directly have a controller.
Abort(ts) ==
  aborted' = aborted \cup {t \in ts \ Cross : exec[t].pc \in {"queued", "begin"}}

\* The status is read and the first controller aborted.
Cancel(t) ==
  LET ids == Append(ChildrenOf[t], t) IN
  /\ cancelling[t] = <<>> /\ Inputs < MaxInputs
  /\ status[t] \notin {"none", "completed", "failed", "cancelled"}
  /\ cancels' = cancels + 1
  /\ cancelling' = [cancelling EXCEPT ![t] = ids]
  /\ Abort({Head(ids)})
  /\ UNCHANGED <<storeVars, handlerVars, queueVars, floors, decision, taken,
                 requests, takes, errors, stops>>

\* taskStore.cancel of one id, then the abort of the next.
CancelOne(t) ==
  LET ids == cancelling[t] IN
  /\ ids # <<>>
  /\ status' = Updated(Head(ids), "cancelled")
  /\ cancelling' = [cancelling EXCEPT ![t] = Tail(ids)]
  /\ Abort(IF Len(ids) > 1 THEN {ids[2]} ELSE {})
  /\ UNCHANGED <<request, lock, concurrent, overdue, handlerVars, queueVars, floors,
                 decision, taken, boundVars>>

-----------------------------------------------------------------------------
(* Cross-department decisions and their expiry.                            *)

\* The handler's own checks on the request it has read.
Decide(d, t) ==
  /\ decision[d].pc = "idle"
  /\ request[t] = "pending" /\ t \notin overdue
  /\ \E v \in {"approved", "rejected"} :
       decision' = [decision EXCEPT ![d] = [pc |-> "apply", task |-> t, verdict |-> v]]
  /\ UNCHANGED <<storeVars, handlerVars, queueVars, floors, aborted, cancelling,
                 taken, boundVars>>

\* Mutant: updateOne without the status in its filter.
StillPendingAlways(t) == TRUE
StillPending(t) == request[t] = "pending"

\* The conditional updateOne; a lost race answers 409.
ApplyVerdict(d) ==
  LET t == decision[d].task IN
  /\ decision[d].pc = "apply"
  /\ request' = [request EXCEPT ![t] = IF StillPending(t) THEN decision[d].verdict ELSE @]
  /\ decision' = [decision EXCEPT ![d].pc = IF StillPending(t) THEN "follow" ELSE "done"]
  /\ UNCHANGED <<status, lock, concurrent, overdue, handlerVars, queueVars, floors,
                 aborted, cancelling, taken, boundVars>>

\* The task's record, then executeAgentTask: no lock is acquired and nothing
\* is counted.
FollowUp(d) ==
  LET t == decision[d].task IN
  /\ decision[d].pc = "follow"
  /\ \/ /\ decision[d].verdict = "approved"
        /\ status' = Updated(t, "queued")
        /\ Enqueue(t)
     \/ /\ decision[d].verdict = "rejected"
        /\ status' = Updated(t, "cancelled")
        /\ UNCHANGED queueVars
  /\ decision' = [decision EXCEPT ![d].pc = "done"]
  /\ UNCHANGED <<request, lock, concurrent, overdue, handlerVars, floors, aborted,
                 cancelling, taken, boundVars>>

\* A command of the handler fails: the reply is 500.
DecideError(d) ==
  /\ decision[d].pc \in {"apply", "follow"} /\ Inputs < MaxInputs
  /\ errors' = errors + 1
  /\ decision' = [decision EXCEPT ![d].pc = "done"]
  /\ UNCHANGED <<storeVars, handlerVars, queueVars, floors, aborted, cancelling,
                 taken, requests, cancels, takes, stops>>

\* Twenty-four hours pass.
RunOut(t) ==
  /\ request[t] = "pending" /\ t \notin overdue
  /\ overdue' = overdue \cup {t}
  /\ UNCHANGED <<status, request, lock, concurrent, handlerVars, queueVars, floors,
                 aborted, cancelling, decision, taken, boundVars>>

ExpirePending ==
  /\ \E t \in overdue : request[t] = "pending"
  /\ request' = [t \in Tasks |-> IF t \in overdue /\ request[t] = "pending"
                                 THEN "expired" ELSE request[t]]
  /\ UNCHANGED <<status, lock, concurrent, overdue, handlerVars, queueVars, floors,
                 aborted, cancelling, decision, taken, boundVars>>

-----------------------------------------------------------------------------
(* Locks that go, and the process that stops.                              *)

\* The lock's hour is over, or root forces its release.
TakeLock(k) ==
  /\ lock[k] # NoTask /\ Inputs < MaxInputs
  /\ takes' = takes + 1
  /\ taken' = taken \cup {lock[k]}
  /\ lock' = [lock EXCEPT ![k] = NoTask]
  /\ UNCHANGED <<status, request, concurrent, overdue, handlerVars, queueVars,
                 floors, aborted, cancelling, decision, requests, cancels,
                 errors, stops>>

\* The process ends and starts again; no queue or record is restored.
Restart ==
  /\ Inputs < MaxInputs /\ stops' = stops + 1
  /\ handler' = [r \in Tasks |-> IF Open(r) THEN "closed" ELSE handler[r]]
  /\ queue' = [a \in Agents |-> <<>>] /\ running' = [a \in Agents |-> NoTask]
  /\ exec' = [t \in Tasks |-> IF exec[t].pc \in {"none", "done"} THEN exec[t]
                              ELSE [exec[t] EXCEPT !.pc = "lost"]]
  /\ floors' = [o \in Operators |-> 0] /\ aborted' = {}
  /\ cancelling' = [t \in Tasks |-> <<>>]
  /\ decision' = [d \in Deciders |-> IF decision[d].pc = "idle" THEN decision[d]
                                     ELSE [decision[d] EXCEPT !.pc = "done"]]
  /\ UNCHANGED <<storeVars, old, left, entries, taken, requests, cancels,
                 takes, errors>>

SubmitStep(r) == \/ CreatePending(r) \/ Ask(r) \/ Acquire(r) \/ MarkPreempted(r)
                 \/ CreateBlocked(r) \/ Create(r) \/ FanOut(r)
ExecStep(t) == \/ Begin(t) \/ Return(t) \/ ReadStatus(t) \/ WriteResult(t)
               \/ Release(t) \/ Finish(t)

Next ==
  \/ \E t \in Tasks : \/ Admit(t) \/ SubmitStep(t) \/ SubmitError(t)
                      \/ ExecStep(t) \/ ExecError(t)
                      \/ Cancel(t) \/ CancelOne(t) \/ RunOut(t)
  \/ \E o \in Operators : Floor(o)
  \/ \E d \in Deciders : \/ \E t \in Tasks : Decide(d, t)
                         \/ ApplyVerdict(d) \/ FollowUp(d) \/ DecideError(d)
  \/ \E k \in Keys : TakeLock(k)
  \/ ExpirePending \/ Restart

Spec == Init /\ [][Next]_vars

-----------------------------------------------------------------------------
(* Properties.                                                             *)

\* Types of all the variables.
TaskOrNone == Tasks \cup {NoTask}
TypeOK ==
  /\ status \in [Tasks -> {"none", "queued", "running", "completed", "failed",
                           "cancelled", "pending_approval", "blocked", "preempted"}]
  /\ request \in [Tasks -> {"none", "pending", "approved", "rejected", "expired"}]
  /\ lock \in [Keys -> TaskOrNone] /\ concurrent \in [Operators -> Int]
  /\ overdue \subseteq Tasks
  /\ handler \in [Tasks -> {"new", "pending", "ask", "lock", "mark", "block",
                            "create", "closed"}]
  /\ old \in [Tasks -> TaskOrNone] /\ left \in [Tasks -> Seq(Tasks)]
  /\ queue \in [Agents -> Seq(Tasks)] /\ running \in [Agents -> TaskOrNone]
  /\ exec \in [Tasks -> [pc : {"none", "queued", "begin", "work", "stop", "read",
                               "write", "release", "finish", "done", "lost"},
                         result : {"none", "completed", "failed"},
                         caught : BOOLEAN]]
  /\ floors \in [Operators -> Nat] /\ aborted \subseteq Tasks
  /\ cancelling \in [Tasks -> Seq(Tasks)]
  /\ decision \in [Deciders -> [pc : {"idle", "apply", "follow", "done"},
                                task : TaskOrNone,
                                verdict : {"none", "approved", "rejected"}]]
  /\ taken \subseteq Tasks /\ entries \in [Tasks -> Nat]
  /\ {requests, cancels, takes, errors, stops} \subseteq Nat

InFlight(t) == exec[t].pc \in {"begin", "work", "stop", "read", "write", "release",
                               "finish"}

\* "one at a time per agent": whatever enters the queues and however executions
\* end, no agent ever executes two tasks, running names the one it executes, and
\* no task waits for an agent that executes nothing.
SerialAgents ==
  /\ \A t, u \in Tasks :
       InFlight(t) /\ InFlight(u) /\ AgentOf[t] = AgentOf[u] => t = u
  /\ \A a \in Agents, t \in Tasks :
       running[a] = t <=> InFlight(t) /\ AgentOf[t] = a
  /\ \A a \in Agents : queue[a] # <<>> => ~IsIdle(a)

\* Two tasks never work on one resource unless one of their operators lost its
\* lock, by preemption, expiry or force.  (RELEASE_SCRIPT compares operators:
\* a task that lost its lock may release that of its operator's next task.)
Working(t) == exec[t].pc \in {"work", "stop"}
LostLock(t) == \E v \in taken : OperatorOf[v] = OperatorOf[t] /\ KeyOf[v] = KeyOf[t]
ResourceExclusive ==
  \A t, u \in Tasks :
    Working(t) /\ Working(u) /\ KeyOf[t] = KeyOf[u] /\ KeyOf[t] # NoKey /\ t # u
    => LostLock(t) \/ LostLock(u)

\* While no command fails and the process runs, the lock of a task with one
\* agent never outlives its execution, whoever preempts, cancels or expires.
LockNotLeaked ==
  errors = 0 /\ stops = 0 =>
    \A k \in Keys : lock[k] \in Tasks \ Fanned =>
      Open(lock[k]) \/ exec[lock[k]].pc = "queued"
      \/ (InFlight(lock[k]) /\ exec[lock[k]].pc # "finish")

\* Under the same conditions an operator's counter never exceeds the requests
\* whose work goes on: it has no TTL, so a leaked slot would never come back.
Outstanding(r) ==
  IF r \in Fanned
  THEN \E i \in DOMAIN ChildrenOf[r] : exec[ChildrenOf[r][i]].pc \notin {"none", "done"}
  ELSE exec[r].pc \notin {"none", "done"}
SlotsNotLeaked ==
  errors = 0 /\ stops = 0 =>
    \A o \in Operators :
      concurrent[o] <= Cardinality({r \in Tasks \ Children :
                                      OperatorOf[r] = o /\ Outstanding(r)})

\* Whatever approvals, rejections and the expiry race, a cross-department task
\* is executed at most once, and only if its request was approved.
ApprovedOnce ==
  \A t \in Cross : entries[t] <= 1 /\ (entries[t] = 1 => request[t] = "approved")

\* A task whose execution is over has a final status for good, whatever cancel,
\* preemption or approval writes late, unless the database failed.
FinishedIsFinal ==
  errors = 0 =>
    \A t \in Tasks : exec[t].pc \in {"release", "finish", "done"} =>
      status[t] \in {"completed", "failed", "cancelled", "preempted"}
=============================================================================
