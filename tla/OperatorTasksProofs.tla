------------------------- MODULE OperatorTasksProofs -------------------------
(***************************************************************************)
(* What holds of OperatorTasks for every number of operators, agents,      *)
(* tasks, resources and deciders, and without any bound on requests,       *)
(* cancels, lost locks and decisions: a lock does not outlive the          *)
(* execution it was taken for, and an approval is acted on once.           *)
(***************************************************************************)
EXTENDS OperatorTasks, TLAPS

Places == {"none", "queued", "begin", "work", "stop", "read", "write", "release",
           "finish", "done", "lost"}
ExecTypes == [pc : Places,
              result : {"none", "completed", "failed"},
              caught : BOOLEAN]

DecisionTypes == [pc : {"idle", "apply", "follow", "done"},
                  task : Tasks \cup {NoTask},
                  verdict : {"none", "approved", "rejected"}]

\* The part of the types the arguments below need.
Shape ==
  /\ exec \in [Tasks -> ExecTypes]
  /\ handler \in [Tasks -> {"new", "pending", "ask", "lock", "mark", "block",
                            "create", "closed"}]
  /\ lock \in [Keys -> Tasks \cup {NoTask}]
  /\ left \in [Tasks -> Seq(Tasks)]
  /\ decision \in [Deciders -> DecisionTypes]
  /\ \A d \in Deciders : decision[d].pc # "idle" => decision[d].task \in Tasks
  /\ errors \in Nat /\ stops \in Nat

\* One execution moves, the others stay.
LEMMA MoveEffect ==
  ASSUME NEW t \in Tasks, exec \in [Tasks -> ExecTypes], NEW w \in Places,
         exec' = [exec EXCEPT ![t].pc = w]
  PROVE  /\ exec' \in [Tasks -> ExecTypes] /\ exec'[t].pc = w
         /\ \A u \in Tasks \ {t} : exec'[u] = exec[u]
BY DEF ExecTypes

-----------------------------------------------------------------------------
(* The queue, as far as the state of the executions is concerned.          *)

\* processNext can only begin a task, of those the caller describes.
LEMMA ProcessNextEffect ==
  ASSUME NEW a \in Agents, NEW q, NEW states \in [Tasks -> ExecTypes],
         ProcessNext(a, q, states)
  PROVE  /\ exec' \in [Tasks -> ExecTypes]
         /\ \A u \in Tasks : exec'[u].pc \in {states[u].pc, "begin"}
<1>1. CASE q = <<>>
  BY <1>1 DEF ProcessNext
<1>2. CASE q # <<>>
  <2>1. exec' = [states EXCEPT ![Head(q)].pc = "begin"]
    BY <1>2 DEF ProcessNext
  <2> QED
    BY <2>1 DEF ExecTypes, Places
<1> QED
  BY <1>1, <1>2

\* A task that enters a queue is queued or begins; no other task but one that
\* begins changes.
LEMMA EnqueueEffect ==
  ASSUME NEW t \in Tasks, exec \in [Tasks -> ExecTypes], Enqueue(t)
  PROVE  /\ exec' \in [Tasks -> ExecTypes]
         /\ exec'[t].pc \in {"queued", "begin"}
         /\ \A u \in Tasks \ {t} : exec'[u].pc \in {exec[u].pc, "begin"}
         /\ entries' = [entries EXCEPT ![t] = @ + 1]
<1> DEFINE states == [exec EXCEPT ![t].pc = "queued"]
           q == Insert(queue[AgentOf[t]], t)
<1>1. /\ states \in [Tasks -> ExecTypes] /\ states[t].pc = "queued"
      /\ \A u \in Tasks \ {t} : states[u].pc = exec[u].pc
  BY DEF ExecTypes, Places
<1>2. AgentOf[t] \in Agents
  BY ConstantsAssumption
<1>3. entries' = [entries EXCEPT ![t] = @ + 1]
  BY DEF Enqueue
<1>4. CASE IsIdle(AgentOf[t])
  <2>1. ProcessNext(AgentOf[t], q, states)
    BY <1>4 DEF Enqueue
  <2>2. /\ exec' \in [Tasks -> ExecTypes]
        /\ \A u \in Tasks : exec'[u].pc \in {states[u].pc, "begin"}
    BY <1>1, <1>2, <2>1, ProcessNextEffect
  <2> QED
    BY <1>1, <1>3, <2>2
<1>5. CASE ~IsIdle(AgentOf[t])
  <2>1. exec' = states
    BY <1>5 DEF Enqueue
  <2> QED
    BY <1>1, <1>3, <2>1
<1> QED
  BY <1>4, <1>5

\* Head and Tail of a sequence of tasks.
LEMMA SeqParts ==
  ASSUME NEW S, NEW s \in Seq(S), s # <<>>
  PROVE  /\ Head(s) \in S /\ Tail(s) \in Seq(S)
         /\ Head(s) \in ToSet(s)
         /\ ToSet(Tail(s)) \subseteq ToSet(s)
<1>1. /\ Len(s) \in Nat \ {0} /\ DOMAIN s = 1..Len(s)
      /\ Head(s) = s[1] /\ Tail(s) \in Seq(S)
      /\ DOMAIN Tail(s) = 1..(Len(s) - 1)
      /\ \A i \in 1..(Len(s) - 1) : Tail(s)[i] = s[i + 1]
  OBVIOUS
<1> QED
  BY <1>1 DEF ToSet

-----------------------------------------------------------------------------
(* Shape is an invariant.                                                  *)

LEMMA ShapeInit == Init => Shape
BY ConstantsAssumption DEF Init, Shape, ExecTypes, DecisionTypes, Places, NotRun, Undecided

\* Every action of the handlers keeps Shape.
LEMMA ShapeHandlers ==
  ASSUME Shape, NEW t \in Tasks,
         \/ Admit(t) \/ SubmitStep(t) \/ SubmitError(t)
  PROVE  Shape'
<1>1. CASE Admit(t)
  BY <1>1 DEF Admit, Goto, Shape, storeVars, queueVars
<1>2. CASE CreatePending(t) \/ Ask(t) \/ CreateBlocked(t) \/ MarkPreempted(t)
  BY <1>2 DEF CreatePending, Ask, CreateBlocked, MarkPreempted, Goto, Shape,
              queueVars, boundVars
<1>3. CASE Acquire(t)
  <2>1. handler' \in [Tasks -> {"new", "pending", "ask", "lock", "mark", "block",
                                "create", "closed"}]
    BY <1>3 DEF Acquire, Goto, Shape
  <2>2. lock' \in [Keys -> Tasks \cup {NoTask}]
    <3>1. lock' \in {lock, [lock EXCEPT ![KeyOf[t]] = t]}
      BY <1>3 DEF Acquire
    <3> QED
      BY <3>1 DEF Shape
  <2>3. UNCHANGED <<exec, left, decision, errors, stops>>
    BY <1>3 DEF Acquire, queueVars, boundVars
  <2> QED
    BY <2>1, <2>2, <2>3 DEF Shape
<1>4. CASE Create(t)
  <2>1. exec' \in [Tasks -> ExecTypes]
    BY <1>4, EnqueueEffect DEF Create, Shape
  <2> QED
    BY <1>4, <2>1 DEF Create, Goto, Shape, boundVars
<1>5. CASE FanOut(t)
  <2>1. CASE left[t] # <<>>
    <3>1. Head(left[t]) \in Tasks /\ Tail(left[t]) \in Seq(Tasks)
      BY <2>1, SeqParts DEF Shape
    <3>2. exec' \in [Tasks -> ExecTypes]
      BY <1>5, <2>1, <3>1, EnqueueEffect DEF FanOut, Shape
    <3>3. left' = [left EXCEPT ![t] = Tail(@)] /\ UNCHANGED <<handler, lock, decision, errors, stops>>
      BY <1>5, <2>1 DEF FanOut, boundVars
    <3> QED
      BY <3>1, <3>2, <3>3 DEF Shape
  <2>2. CASE left[t] = <<>>
    BY <1>5, <2>2 DEF FanOut, Goto, Shape, queueVars, boundVars
  <2> QED
    BY <2>1, <2>2
<1>6. CASE SubmitError(t)
  BY <1>6 DEF SubmitError, Goto, Shape, queueVars
<1> QED
  BY <1>1, <1>2, <1>3, <1>4, <1>5, <1>6 DEF SubmitStep

\* Every action of an execution, a cancel call or time keeps Shape.
LEMMA ShapeExec ==
  ASSUME Shape, NEW t \in Tasks,
         \/ ExecStep(t) \/ ExecError(t) \/ Cancel(t) \/ CancelOne(t) \/ RunOut(t)
  PROVE  Shape'
<1> USE DEF Shape
<1>1. CASE Begin(t) \/ ReadStatus(t) \/ WriteResult(t)
  <2>1. PICK w \in Places : exec' = [exec EXCEPT ![t].pc = w]
    BY <1>1 DEF Begin, ReadStatus, WriteResult, Step, Places
  <2>2. exec' \in [Tasks -> ExecTypes]
    BY <2>1, MoveEffect
  <2> QED
    BY <1>1, <2>2 DEF Begin, ReadStatus, WriteResult, handlerVars, boundVars, storeVars
<1>2. CASE Return(t)
  <2>1. PICK r \in {"completed", "failed"} :
          exec' = [exec EXCEPT ![t] = [pc |-> "read", result |-> r, caught |-> FALSE]]
    BY <1>2 DEF Return
  <2>2. [pc |-> "read", result |-> r, caught |-> FALSE] \in ExecTypes
    BY DEF ExecTypes, Places
  <2>3. exec' \in [Tasks -> ExecTypes]
    BY <2>1, <2>2
  <2> QED
    BY <1>2, <2>3 DEF Return, storeVars, handlerVars, boundVars
<1>3. CASE Release(t)
  <2>1. lock' \in [Keys -> Tasks \cup {NoTask}] /\ errors' \in Nat
    <3>1. lock' \in {lock, [lock EXCEPT ![KeyOf[t]] = NoTask]}
      BY <1>3 DEF Release
    <3>2. errors' \in {errors, errors + 1}
      BY <1>3 DEF Release
    <3>3. lock' \in [Keys -> Tasks \cup {NoTask}]
      BY <3>1
    <3> QED
      BY <3>2, <3>3
  <2>2. exec' \in [Tasks -> ExecTypes]
    BY <1>3, MoveEffect DEF Release, Step, Places
  <2> QED
    BY <1>3, <2>1, <2>2 DEF Release, handlerVars
<1>4. CASE Finish(t)
  <2>1. [exec EXCEPT ![t].pc = "done"] \in [Tasks -> ExecTypes]
    BY DEF ExecTypes, Places
  <2>2. AgentOf[t] \in Agents
    BY ConstantsAssumption
  <2>3. exec' \in [Tasks -> ExecTypes]
    BY <1>4, <2>1, <2>2, ProcessNextEffect DEF Finish
  <2> QED
    BY <1>4, <2>3 DEF Finish, handlerVars, boundVars
<1>5. CASE ExecError(t)
  <2>1. exec' \in [Tasks -> ExecTypes]
    <3>1. CASE exec[t].caught
      <4>1. exec' = [exec EXCEPT ![t].pc = "release"]
        BY <1>5, <3>1 DEF ExecError
      <4> QED
        BY <4>1, MoveEffect DEF Places
    <3>2. CASE ~exec[t].caught
      <4>1. exec' = [exec EXCEPT ![t] = [pc |-> "read", result |-> "failed",
                                         caught |-> TRUE]]
        BY <1>5, <3>2 DEF ExecError
      <4> QED
        BY <4>1 DEF ExecTypes, Places
    <3> QED
      BY <3>1, <3>2
  <2> QED
    BY <1>5, <2>1 DEF ExecError, storeVars, handlerVars
<1>6. CASE Cancel(t) \/ CancelOne(t) \/ RunOut(t)
  BY <1>6 DEF Cancel, CancelOne, RunOut, storeVars, handlerVars, queueVars, boundVars
<1> QED
  BY <1>1, <1>2, <1>3, <1>4, <1>5, <1>6 DEF ExecStep

\* So do the decisions.
LEMMA ShapeDecisions ==
  ASSUME Shape, NEW d \in Deciders,
         \/ \E t \in Tasks : Decide(d, t)
         \/ ApplyVerdict(d) \/ FollowUp(d) \/ DecideError(d)
  PROVE  Shape'
<1> USE DEF Shape
<1>1. CASE \E t \in Tasks : Decide(d, t)
  <2>1. PICK t \in Tasks, v \in {"approved", "rejected"} :
          decision' = [decision EXCEPT ![d] = [pc |-> "apply", task |-> t, verdict |-> v]]
    BY <1>1 DEF Decide
  <2>2. [pc |-> "apply", task |-> t, verdict |-> v] \in DecisionTypes
    BY DEF DecisionTypes
  <2>3. /\ decision' \in [Deciders -> DecisionTypes]
        /\ \A e \in Deciders : decision'[e].pc # "idle" => decision'[e].task \in Tasks
    BY <2>1, <2>2
  <2>4. UNCHANGED <<exec, handler, lock, left, errors, stops>>
    BY <1>1 DEF Decide, storeVars, handlerVars, queueVars, boundVars
  <2> QED
    BY <2>3, <2>4
<1>2. CASE ApplyVerdict(d)
  BY <1>2 DEF DecisionTypes, ApplyVerdict, handlerVars, queueVars, boundVars
<1>3. CASE FollowUp(d)
  <2>1. decision[d].task \in Tasks
    BY <1>3 DEF FollowUp
  <2>2. exec' \in [Tasks -> ExecTypes]
    BY <1>3, <2>1, EnqueueEffect DEF FollowUp, queueVars
  <2> QED
    BY <1>3, <2>2 DEF DecisionTypes, FollowUp, handlerVars, boundVars
<1>4. CASE DecideError(d)
  <2>1. decision' = [decision EXCEPT ![d].pc = "done"] /\ decision[d].pc # "idle"
    BY <1>4 DEF DecideError
  <2>2. errors' = errors + 1
    BY <1>4 DEF DecideError
  <2>3. /\ decision' \in [Deciders -> DecisionTypes]
        /\ \A e \in Deciders : decision'[e].pc # "idle" => decision'[e].task \in Tasks
    BY <2>1 DEF DecisionTypes
  <2>4. errors' \in Nat
    BY <2>2
  <2> QED
    BY <1>4, <2>3, <2>4 DEF DecideError, storeVars, handlerVars, queueVars
<1> QED
  BY <1>1, <1>2, <1>3, <1>4

\* And the locks that go, the expiry and the restart.
LEMMA ShapeOthers ==
  ASSUME Shape,
         \/ \E o \in Operators : Floor(o)
         \/ \E k \in Keys : TakeLock(k)
         \/ ExpirePending \/ Restart \/ UNCHANGED vars
  PROVE  Shape'
<1> USE DEF Shape
<1>1. CASE \E o \in Operators : Floor(o)
  BY <1>1 DEF Floor, handlerVars, queueVars, boundVars
<1>2. CASE \E k \in Keys : TakeLock(k)
  BY <1>2 DEF TakeLock, handlerVars, queueVars
<1>3. CASE ExpirePending \/ UNCHANGED vars
  BY <1>3 DEF ExpirePending, vars, storeVars, handlerVars, queueVars, boundVars
<1>4. CASE Restart
  <2>1. exec' \in [Tasks -> ExecTypes]
    <3>1. \A r \in ExecTypes : [r EXCEPT !.pc = "lost"] \in ExecTypes
      BY DEF ExecTypes, Places
    <3>2. exec' = [t \in Tasks |-> IF exec[t].pc \in {"none", "done"} THEN exec[t]
                                   ELSE [exec[t] EXCEPT !.pc = "lost"]]
      BY <1>4 DEF Restart
    <3>3. exec \in [Tasks -> ExecTypes]
      OBVIOUS
    <3> HIDE DEF Shape
    <3> QED
      BY <3>1, <3>2, <3>3
  <2>2. /\ decision' \in [Deciders -> DecisionTypes]
        /\ \A d \in Deciders : decision'[d].pc # "idle" => decision'[d].task \in Tasks
    <3>1. \A d \in Deciders :
            /\ decision'[d] \in {decision[d], [decision[d] EXCEPT !.pc = "done"]}
            /\ decision[d].pc = "idle" => decision'[d] = decision[d]
      BY <1>4 DEF Restart
    <3>2. \A r \in DecisionTypes : /\ [r EXCEPT !.pc = "done"] \in DecisionTypes
                                   /\ [r EXCEPT !.pc = "done"].task = r.task
      BY DEF DecisionTypes
    <3>3. \A d \in Deciders : decision'[d].task = decision[d].task
      BY <3>1, <3>2
    <3>4. decision' = [d \in Deciders |-> decision'[d]]
      BY <1>4 DEF Restart
    <3>5. /\ decision \in [Deciders -> DecisionTypes]
          /\ \A d \in Deciders : decision[d].pc # "idle" => decision[d].task \in Tasks
      OBVIOUS
    <3> HIDE DEF Shape
    <3>6. \A d \in Deciders : decision'[d] \in DecisionTypes
      BY <3>1, <3>2, <3>5
    <3>7. \A d \in Deciders : decision'[d].pc # "idle" => decision'[d].task \in Tasks
      BY <3>1, <3>3, <3>5
    <3> QED
      BY <3>4, <3>6, <3>7
  <2>3. handler' \in [Tasks -> {"new", "pending", "ask", "lock", "mark", "block",
                                "create", "closed"}] /\ stops' \in Nat
    BY <1>4 DEF Restart, Open
  <2> QED
    BY <1>4, <2>1, <2>2, <2>3 DEF Restart, storeVars
<1> QED
  BY <1>1, <1>2, <1>3, <1>4

LEMMA ShapeNext == Shape /\ [Next]_vars => Shape'
BY ShapeHandlers, ShapeExec, ShapeDecisions, ShapeOthers DEF Next

-----------------------------------------------------------------------------
(* Locks.                                                                  *)

\* A lock is held by a task that names it and whose handler got it.  The task
\* is on its way to its release, as long as nothing failed.
LockHolder(k, t) ==
  /\ KeyOf[t] = k /\ handler[t] \in {"mark", "create", "closed"}
  /\ errors = 0 /\ stops = 0 /\ t \notin Fanned =>
       Open(t) \/ exec[t].pc = "queued"
       \/ (InFlight(t) /\ exec[t].pc # "finish")

LockInv == \A k \in Keys, t \in Tasks : lock[k] = t => LockHolder(k, t)

LEMMA LockInit == Init => LockInv
BY ConstantsAssumption DEF Init, LockInv

\* Which places of the execution are before the release, inclusively.
Holds(p) == p \in {"queued", "begin", "work", "stop", "read", "write", "release"}

LEMMA HoldsDef ==
  \A t \in Tasks : Holds(exec[t].pc) <=> exec[t].pc = "queued"
                                       \/ (InFlight(t) /\ exec[t].pc # "finish")
BY DEF Holds, InFlight

\* A step keeps a holder that stays one when the handler's and the execution's
\* progress are of these kinds.
LEMMA HolderStays ==
  ASSUME NEW k, NEW t \in Tasks, LockHolder(k, t),
         handler'[t] \in {handler[t], "create", "closed"},
         errors' = 0 /\ stops' = 0 => errors = 0 /\ stops = 0,
         errors' = 0 /\ stops' = 0 /\ t \notin Fanned =>
           /\ Open(t) => handler'[t] # "closed" \/ Holds(exec'[t].pc)
           /\ Holds(exec[t].pc) => Holds(exec'[t].pc)
  PROVE  LockHolder(k, t)'
BY DEF LockHolder, Holds, InFlight, Open

\* After a failed command or a stop nothing is claimed but the holder's handler.
LEMMA HolderFails ==
  ASSUME NEW k, NEW t \in Tasks, LockHolder(k, t),
         handler'[t] \in {handler[t], "closed"}, errors' # 0 \/ stops' # 0
  PROVE  LockHolder(k, t)'
BY DEF LockHolder

LEMMA LockHandlers ==
  ASSUME Shape, LockInv, NEW r \in Tasks,
         Admit(r) \/ SubmitStep(r) \/ SubmitError(r)
  PROVE  LockInv'
<1> SUFFICES ASSUME NEW k \in Keys, NEW t \in Tasks, lock'[k] = t
             PROVE  LockHolder(k, t)'
  BY DEF LockInv
<1> USE DEF Shape
<1>1. CASE Admit(r) \/ CreatePending(r) \/ Ask(r) \/ CreateBlocked(r)
  <2>1. lock[k] = t /\ UNCHANGED <<exec, errors, stops>>
    BY <1>1 DEF Admit, CreatePending, Ask, CreateBlocked, storeVars, queueVars, boundVars
  <2>2. LockHolder(k, t)
    BY <2>1 DEF LockInv
  <2>3. handler[r] \in {"new", "pending", "ask", "block"} /\ t # r
    BY <1>1, <2>2 DEF Admit, CreatePending, Ask, CreateBlocked, LockHolder
  <2>4. handler'[t] = handler[t]
    BY <1>1, <2>3 DEF Admit, CreatePending, Ask, CreateBlocked, Goto
  <2> QED
    BY <2>1, <2>2, <2>4, HolderStays DEF Open
<1>2. CASE Acquire(r)
  <2>1. UNCHANGED <<exec, errors, stops>> /\ handler[r] = "lock"
    BY <1>2 DEF Acquire, queueVars, boundVars
  <2>2. CASE lock[k] = t
    <3>1. LockHolder(k, t)
      BY <2>2 DEF LockInv
    <3>2. t # r
      BY <2>1, <3>1 DEF LockHolder
    <3>3. handler'[t] = handler[t]
      BY <1>2, <3>2 DEF Acquire, Goto
    <3> QED
      BY <2>1, <3>1, <3>3, HolderStays DEF Open
  <2>3. CASE lock[k] # t
    <3>1. lock' = [lock EXCEPT ![KeyOf[r]] = r] /\ handler'[r] \in {"create", "mark"}
      BY <1>2, <2>3 DEF Acquire, Goto
    <3>2. k = KeyOf[r] /\ t = r
      BY <2>3, <3>1
    <3> QED
      BY <3>1, <3>2 DEF LockHolder, Open
  <2> QED
    BY <2>2, <2>3
<1>3. CASE MarkPreempted(r)
  <2>1. lock[k] = t /\ UNCHANGED <<exec, errors, stops>>
        /\ handler' = [handler EXCEPT ![r] = "create"]
    BY <1>3 DEF MarkPreempted, Goto, queueVars, boundVars
  <2>2. LockHolder(k, t)
    BY <2>1 DEF LockInv
  <2> QED
    BY <2>1, <2>2, HolderStays DEF Open
<1>4. CASE Create(r)
  <2>1. lock[k] = t /\ UNCHANGED <<errors, stops>> /\ Enqueue(r)
        /\ handler' = [handler EXCEPT ![r] = "closed"]
    BY <1>4 DEF Create, Goto, boundVars
  <2>2. LockHolder(k, t)
    BY <2>1 DEF LockInv
  <2>3. /\ exec'[r].pc \in {"queued", "begin"}
        /\ \A u \in Tasks \ {r} : exec'[u].pc \in {exec[u].pc, "begin"}
    BY <2>1, EnqueueEffect
  <2> QED
    BY <2>1, <2>2, <2>3, HolderStays DEF Open, Holds
<1>5. CASE FanOut(r)
  <2>1. lock[k] = t /\ UNCHANGED <<errors, stops>> /\ r \in Fanned
    BY <1>5 DEF FanOut, boundVars
  <2>a. handler'[t] \in {handler[t], "closed"} /\ (t # r => handler'[t] = handler[t])
    BY <1>5 DEF FanOut, Goto
  <2>2. LockHolder(k, t)
    BY <2>1 DEF LockInv
  <2>3. \A u \in Tasks : Holds(exec[u].pc) => Holds(exec'[u].pc)
    <3>1. CASE left[r] # <<>>
      <4>1. Head(left[r]) \in Tasks /\ Enqueue(Head(left[r]))
        BY <1>5, <3>1, SeqParts DEF FanOut
      <4>2. /\ exec'[Head(left[r])].pc \in {"queued", "begin"}
            /\ \A u \in Tasks \ {Head(left[r])} : exec'[u].pc \in {exec[u].pc, "begin"}
        BY <4>1, EnqueueEffect
      <4> QED
        BY <4>2 DEF Holds
    <3>2. CASE left[r] = <<>>
      BY <1>5, <3>2 DEF FanOut, queueVars
    <3> QED
      BY <3>1, <3>2
  <2>4. handler'[t] \in {handler[t], "create", "closed"}
        /\ (t \notin Fanned => (Open(t) => handler'[t] # "closed"))
    BY <2>1, <2>a DEF Open
  <2> QED
    BY <2>1, <2>2, <2>3, <2>4, HolderStays
<1>6. CASE SubmitError(r)
  <2>1. lock[k] = t /\ errors' = errors + 1 /\ handler'[t] \in {handler[t], "closed"}
    BY <1>6 DEF SubmitError, Goto
  <2>2. LockHolder(k, t)
    BY <2>1 DEF LockInv
  <2>3. errors' # 0
    BY <2>1
  <2> QED
    BY <2>1, <2>2, <2>3, HolderFails
<1> QED
  BY <1>1, <1>2, <1>3, <1>4, <1>5, <1>6 DEF SubmitStep

LEMMA LockExec ==
  ASSUME Shape, LockInv, NEW e \in Tasks,
         \/ ExecStep(e) \/ ExecError(e) \/ Cancel(e) \/ CancelOne(e) \/ RunOut(e)
  PROVE  LockInv'
<1> SUFFICES ASSUME NEW k \in Keys, NEW t \in Tasks, lock'[k] = t
             PROVE  LockHolder(k, t)'
  BY DEF LockInv
<1> USE DEF Shape
<1>1. CASE Begin(e) \/ ReadStatus(e) \/ WriteResult(e)
  <2>1. lock[k] = t /\ UNCHANGED <<handler, errors, stops>>
    BY <1>1 DEF Begin, ReadStatus, WriteResult, handlerVars, boundVars, storeVars
  <2>2. PICK w \in Places : exec' = [exec EXCEPT ![e].pc = w] /\ Holds(w)
    BY <1>1 DEF Begin, ReadStatus, WriteResult, Step, Places, Holds
  <2>3. LockHolder(k, t)
    BY <2>1 DEF LockInv
  <2>4. exec'[t] = exec[t] \/ Holds(exec'[t].pc)
    BY <2>2, MoveEffect
  <2> QED
    BY <2>1, <2>3, <2>4, HolderStays DEF Open
<1>2. CASE Return(e)
  <2>1. lock[k] = t /\ UNCHANGED <<handler, errors, stops>>
    BY <1>2 DEF Return, handlerVars, boundVars, storeVars
  <2>2. LockHolder(k, t)
    BY <2>1 DEF LockInv
  <2>3. exec'[t] = exec[t] \/ exec'[t].pc = "read"
    BY <1>2 DEF Return
  <2> QED
    BY <2>1, <2>2, <2>3, HolderStays DEF Holds, Open
<1>3. CASE Release(e)
  <2>1. lock[k] = t /\ UNCHANGED <<handler, stops>>
    BY <1>3, ConstantsAssumption DEF Release, handlerVars
  <2>a. errors' \in {errors, errors + 1}
    BY <1>3 DEF Release
  <2>b. errors' = 0 => errors = 0
    BY <2>a
  <2>2. LockHolder(k, t)
    BY <2>1 DEF LockInv
  <2>3. exec' = [exec EXCEPT ![e].pc = "finish"]
    BY <1>3 DEF Release, Step
  <2>4. CASE t # e
    <3>1. exec'[t] = exec[t]
      BY <2>3, <2>4, MoveEffect DEF Places
    <3> QED
      BY <2>1, <2>b, <2>2, <3>1, HolderStays DEF Open
  <2>5. CASE t = e
    <3>1. KeyOf[t] = k /\ KeyOf[t] # NoKey
      BY <2>2, ConstantsAssumption DEF LockHolder
    <3>2. MayRelease(e, lock[k])
      BY <2>1, <2>5, ConstantsAssumption DEF MayRelease
    <3>3. lock'[k] = NoTask \/ errors' = errors + 1
      BY <1>3, <2>5, <3>1, <3>2 DEF Release
    <3>4. errors' # 0
      BY <3>3, ConstantsAssumption
    <3> QED
      BY <2>1, <2>2, <3>4, HolderFails
  <2> QED
    BY <2>4, <2>5
<1>4. CASE Finish(e)
  <2>1. lock[k] = t /\ UNCHANGED <<handler, errors, stops>> /\ exec[e].pc = "finish"
    BY <1>4 DEF Finish, handlerVars, boundVars
  <2>2. LockHolder(k, t)
    BY <2>1 DEF LockInv
  <2>3. [exec EXCEPT ![e].pc = "done"] \in [Tasks -> ExecTypes]
        /\ \A u \in Tasks \ {e} : [exec EXCEPT ![e].pc = "done"][u] = exec[u]
    BY DEF ExecTypes, Places
  <2>4. AgentOf[e] \in Agents
    BY ConstantsAssumption
  <2> DEFINE states == [exec EXCEPT ![e].pc = "done"]
  <2>a. ProcessNext(AgentOf[e], queue[AgentOf[e]], states)
    BY <1>4 DEF Finish
  <2>b. \A u \in Tasks : exec'[u].pc \in {states[u].pc, "begin"}
    BY <2>3, <2>4, <2>a, ProcessNextEffect
  <2>5. \A u \in Tasks \ {e} : exec'[u].pc \in {exec[u].pc, "begin"}
    BY <2>3, <2>b
  <2>6. Holds(exec[t].pc) => Holds(exec'[t].pc)
    BY <2>1, <2>5 DEF Holds
  <2> QED
    BY <2>1, <2>2, <2>6, HolderStays DEF Open
<1>5. CASE ExecError(e)
  <2>1. lock[k] = t /\ UNCHANGED handler /\ errors' = errors + 1
    BY <1>5 DEF ExecError, storeVars, handlerVars
  <2>2. LockHolder(k, t)
    BY <2>1 DEF LockInv
  <2>3. errors' # 0
    BY <2>1
  <2> QED
    BY <2>1, <2>2, <2>3, HolderFails
<1>6. CASE Cancel(e) \/ CancelOne(e) \/ RunOut(e)
  <2>1. lock[k] = t /\ UNCHANGED <<handler, exec, errors, stops>>
    BY <1>6 DEF Cancel, CancelOne, RunOut, storeVars, handlerVars, queueVars, boundVars
  <2>2. LockHolder(k, t)
    BY <2>1 DEF LockInv
  <2> QED
    BY <2>1, <2>2, HolderStays DEF Open
<1> QED
  BY <1>1, <1>2, <1>3, <1>4, <1>5, <1>6 DEF ExecStep

LEMMA LockOthers ==
  ASSUME Shape, LockInv,
         \/ \E o \in Operators : Floor(o)
         \/ \E d \in Deciders : \/ \E x \in Tasks : Decide(d, x)
                                \/ ApplyVerdict(d) \/ FollowUp(d) \/ DecideError(d)
         \/ \E j \in Keys : TakeLock(j)
         \/ ExpirePending \/ Restart \/ UNCHANGED vars
  PROVE  LockInv'
<1> SUFFICES ASSUME NEW k \in Keys, NEW t \in Tasks, lock'[k] = t
             PROVE  LockHolder(k, t)'
  BY DEF LockInv
<1> USE DEF Shape
<1>1. CASE \/ \E o \in Operators : Floor(o)
           \/ \E d \in Deciders : (\E x \in Tasks : Decide(d, x)) \/ ApplyVerdict(d)
           \/ ExpirePending \/ UNCHANGED vars
  <2>1. lock[k] = t /\ UNCHANGED <<handler, exec, errors, stops>>
    BY <1>1 DEF Floor, Decide, ApplyVerdict, ExpirePending, vars, storeVars,
                handlerVars, queueVars, boundVars
  <2>2. LockHolder(k, t)
    BY <2>1 DEF LockInv
  <2> QED
    BY <2>1, <2>2, HolderStays DEF Open
<1>2. CASE \E d \in Deciders : FollowUp(d)
  <2>1. PICK d \in Deciders : FollowUp(d)
    BY <1>2
  <2>2. lock[k] = t /\ UNCHANGED <<handler, errors, stops>> /\ decision[d].task \in Tasks
    BY <2>1 DEF FollowUp, handlerVars, boundVars
  <2>3. LockHolder(k, t)
    BY <2>2 DEF LockInv
  <2>4. Holds(exec[t].pc) => Holds(exec'[t].pc)
    <3>1. CASE Enqueue(decision[d].task)
      <4>1. /\ exec'[decision[d].task].pc \in {"queued", "begin"}
            /\ \A u \in Tasks \ {decision[d].task} : exec'[u].pc \in {exec[u].pc, "begin"}
        BY <2>2, <3>1, EnqueueEffect
      <4> QED
        BY <4>1 DEF Holds
    <3>2. CASE UNCHANGED queueVars
      BY <3>2 DEF queueVars
    <3> QED
      BY <2>1, <3>1, <3>2 DEF FollowUp
  <2> QED
    BY <2>2, <2>3, <2>4, HolderStays DEF Open
<1>3. CASE \E d \in Deciders : DecideError(d)
  <2>1. lock[k] = t /\ UNCHANGED handler /\ errors' = errors + 1
    BY <1>3 DEF DecideError, storeVars, handlerVars
  <2>2. LockHolder(k, t)
    BY <2>1 DEF LockInv
  <2>3. errors' # 0
    BY <2>1
  <2> QED
    BY <2>1, <2>2, <2>3, HolderFails
<1>4. CASE \E j \in Keys : TakeLock(j)
  <2>1. lock[k] = t /\ UNCHANGED <<handler, exec, errors, stops>>
    BY <1>4, ConstantsAssumption DEF TakeLock, handlerVars, queueVars
  <2>2. LockHolder(k, t)
    BY <2>1 DEF LockInv
  <2> QED
    BY <2>1, <2>2, HolderStays DEF Open
<1>5. CASE Restart
  <2>1. lock[k] = t /\ stops' = stops + 1 /\ handler'[t] \in {handler[t], "closed"}
    BY <1>5 DEF Restart, storeVars
  <2>2. LockHolder(k, t)
    BY <2>1 DEF LockInv
  <2>3. stops' # 0
    BY <2>1
  <2> QED
    BY <2>1, <2>2, <2>3, HolderFails
<1> QED
  BY <1>1, <1>2, <1>3, <1>4, <1>5

\* While no command fails and the process runs, the lock of a task with one
\* agent is released by the time its execution ends (task-executor.ts:79-83),
\* whatever is preempted, expires, is cancelled or is forced meanwhile.
THEOREM LockReleased == Spec => []LockNotLeaked
<1>1. Init => Shape /\ LockInv
  BY ShapeInit, LockInit
<1>2. Shape /\ LockInv /\ [Next]_vars => Shape' /\ LockInv'
  BY ShapeNext, LockHandlers, LockExec, LockOthers DEF Next
<1>3. Shape /\ LockInv => LockNotLeaked
  BY DEF LockInv, LockHolder, LockNotLeaked, Shape
<1> QED
  BY <1>1, <1>2, <1>3, PTL DEF Spec

-----------------------------------------------------------------------------
(* Approvals.                                                              *)

\* Decider d has approved t and is about to hand it to the executor.
Approving(d, t) ==
  decision[d].pc = "follow" /\ decision[d].verdict = "approved" /\ decision[d].task = t

\* The request leaves none once, and pending once: the one decider that made it
\* approved is the only one to enqueue the task.
Approval(t) ==
  /\ handler[t] \in {"new", "pending", "ask", "closed"}
  /\ handler[t] # "closed" => request[t] = "none"
  /\ entries[t] \in {0, 1}
  /\ entries[t] = 1 => request[t] = "approved"
  /\ \A d \in Deciders : Approving(d, t) => request[t] = "approved" /\ entries[t] = 0
  /\ \A d, e \in Deciders : Approving(d, t) /\ Approving(e, t) => d = e

\* A fan-out enqueues child tasks only, and no child task awaits an approval.
ApprovalInv ==
  /\ Shape
  /\ entries \in [Tasks -> Nat] /\ DOMAIN request = Tasks
  /\ \A r \in Tasks : ToSet(left[r]) \subseteq Children
  /\ \A t \in Cross : Approval(t)

LEMMA ChildrenNotCross == Children \cap Cross = {} /\ Children \subseteq Tasks
                          /\ \A r \in Tasks : ToSet(ChildrenOf[r]) \subseteq Children
<1>1. \A r \in Tasks : ChildrenOf[r] \in Seq(Tasks)
  BY ConstantsAssumption
<1>2. \A r \in Tasks : ToSet(ChildrenOf[r]) \subseteq Tasks
  BY <1>1 DEF ToSet
<1> QED
  BY <1>2, ConstantsAssumption DEF Children

\* What does not touch a task's request, entries and approvals keeps Approval.
LEMMA ApprovalStays ==
  ASSUME NEW t \in Cross, Approval(t),
         handler'[t] \in {handler[t], "closed"} \/ handler[t] # "closed",
         handler'[t] \in {"new", "pending", "ask", "closed"},
         request'[t] = request[t], entries'[t] = entries[t],
         \A d \in Deciders : Approving(d, t)' => Approving(d, t)
  PROVE  Approval(t)'
BY DEF Approval

LEMMA ApprovalInit == Init => ApprovalInv
<1> SUFFICES ASSUME Init PROVE ApprovalInv
  OBVIOUS
<1>1. Shape
  BY ShapeInit
<1>2. entries \in [Tasks -> Nat] /\ DOMAIN request = Tasks
  BY DEF Init
<1>3. \A r \in Tasks : ToSet(left[r]) \subseteq Children
  BY ChildrenNotCross DEF Init
<1>4. \A t \in Cross : Approval(t)
  <2> TAKE t \in Cross
  <2>1. t \in Tasks
    BY ConstantsAssumption
  <2>2. handler[t] \in {"new", "closed"} /\ request[t] = "none" /\ entries[t] = 0
    BY <2>1 DEF Init
  <2>3. \A d \in Deciders : decision[d].pc = "idle"
    BY DEF Init, Undecided
  <2> QED
    BY <2>2, <2>3 DEF Approval, Approving
<1> QED
  BY <1>1, <1>2, <1>3, <1>4 DEF ApprovalInv

\* Requests: none enqueues a task that awaits an approval.
LEMMA ApprovalHandlers ==
  ASSUME ApprovalInv, NEW r \in Tasks,
         Admit(r) \/ SubmitStep(r) \/ SubmitError(r)
  PROVE  ApprovalInv'
<1>0. Shape /\ Shape'
  BY ShapeHandlers DEF ApprovalInv
<1>a. \A t \in Cross : t \in Tasks /\ Approval(t)
  BY ConstantsAssumption DEF ApprovalInv
<1>b. UNCHANGED decision
  BY DEF Admit, SubmitStep, SubmitError, CreatePending, Ask, Acquire, MarkPreempted,
         CreateBlocked, Create, FanOut
<1>c. \A t \in Cross, d \in Deciders : Approving(d, t)' => Approving(d, t)
  BY <1>b DEF Approving
<1>1. CASE Admit(r)
  <2>1. UNCHANGED <<request, entries, left>>
    BY <1>1 DEF Admit, storeVars, queueVars
  <2>2. \A t \in Cross : Approval(t)'
    <3> TAKE t \in Cross
    <3>1. handler'[t] = IF t = r THEN handler'[r] ELSE handler[t]
      BY <1>0, <1>1, <1>a DEF Admit, Goto, Shape
    <3>2. t = r => handler[t] = "new" /\ handler'[t] \in {"closed", "pending"}
      BY <1>0, <1>1, <1>a DEF Admit, Goto, Shape
    <3>3. handler[t] \in {"new", "pending", "ask", "closed"}
      BY <1>a DEF Approval
    <3> QED
      BY <1>a, <1>c, <2>1, <3>1, <3>2, <3>3, ApprovalStays
  <2> QED
    BY <1>0, <2>1, <2>2 DEF ApprovalInv
<1>2. CASE CreatePending(r) \/ Acquire(r) \/ MarkPreempted(r) \/ CreateBlocked(r)
           \/ SubmitError(r)
  <2>1. UNCHANGED <<request, entries, left>>
    BY <1>2 DEF CreatePending, Acquire, MarkPreempted, CreateBlocked, SubmitError, queueVars
  <2>2. \A t \in Cross : Approval(t)'
    <3> TAKE t \in Cross
    <3>1. handler[t] \in {"new", "pending", "ask", "closed"}
      BY <1>a DEF Approval
    <3>2. t = r => \/ handler[t] = "pending" /\ handler'[t] = "ask"
                   \/ handler'[t] = "closed"
      BY <1>0, <1>2, <1>a, <3>1 DEF CreatePending, Acquire, MarkPreempted,
         CreateBlocked, SubmitError, Goto, Shape
    <3>3. t # r => handler'[t] = handler[t]
      BY <1>0, <1>2, <1>a DEF CreatePending, Acquire, MarkPreempted, CreateBlocked,
         SubmitError, Goto, Shape
    <3> QED
      BY <1>a, <1>c, <2>1, <3>1, <3>2, <3>3, ApprovalStays
  <2> QED
    BY <1>0, <2>1, <2>2 DEF ApprovalInv
<1>3. CASE Ask(r)
  <2>1. UNCHANGED <<entries, left>> /\ request' = [request EXCEPT ![r] = "pending"]
        /\ handler[r] = "ask" /\ handler' = [handler EXCEPT ![r] = "closed"]
    BY <1>3 DEF Ask, queueVars, Goto
  <2>2. \A t \in Cross : Approval(t)'
    <3> TAKE t \in Cross
    <3>1. CASE t = r
      <4>1. request[t] = "none"
        BY <1>a, <2>1, <3>1 DEF Approval
      <4>2. entries'[t] = 0 /\ \A d \in Deciders : ~Approving(d, t)'
        BY <1>a, <1>c, <2>1, <4>1 DEF Approval
      <4>3. handler'[t] = "closed"
        BY <1>0, <1>a, <2>1, <3>1 DEF Shape
      <4> QED
        BY <4>2, <4>3 DEF Approval
    <3>2. CASE t # r
      <4>1. handler'[t] = handler[t] /\ request'[t] = request[t]
        BY <2>1, <3>2
      <4>2. handler[t] \in {"new", "pending", "ask", "closed"}
        BY <1>a DEF Approval
      <4> QED
        BY <1>a, <1>c, <2>1, <4>1, <4>2, ApprovalStays
    <3> QED
      BY <3>1, <3>2
  <2> QED
    BY <1>0, <2>1, <2>2 DEF ApprovalInv
<1>4. CASE Create(r) \/ FanOut(r)
  <2>1. /\ UNCHANGED request /\ handler[r] = "create"
        /\ \A t \in Tasks \ {r} : handler'[t] = handler[t]
    BY <1>0, <1>4 DEF Create, FanOut, Goto, Shape, queueVars
  <2>2. r \notin Cross
    BY <1>a, <2>1 DEF Approval
  <2>3. /\ \E n \in Tasks : n \notin Cross /\ entries' \in {entries, [entries EXCEPT ![n] = @ + 1]}
        /\ \A q \in Tasks : ToSet(left'[q]) \subseteq Children
    <3>1. CASE Create(r)
      <4>1. Enqueue(r) /\ UNCHANGED left
        BY <3>1 DEF Create
      <4>2. entries' = [entries EXCEPT ![r] = @ + 1]
        BY <1>0, <4>1, EnqueueEffect DEF Shape
      <4> QED
        BY <2>2, <4>1, <4>2 DEF ApprovalInv
    <3>2. CASE FanOut(r) /\ left[r] # <<>>
      <4>1. left[r] \in Seq(Tasks)
        BY <1>0 DEF Shape
      <4>2. Head(left[r]) \in Tasks /\ Head(left[r]) \in ToSet(left[r])
            /\ ToSet(Tail(left[r])) \subseteq ToSet(left[r])
        BY <3>2, <4>1, SeqParts
      <4>3. Head(left[r]) \in Children
        BY <4>2 DEF ApprovalInv
      <4>4. Enqueue(Head(left[r])) /\ left' = [left EXCEPT ![r] = Tail(@)]
        BY <3>2 DEF FanOut
      <4>5. entries' = [entries EXCEPT ![Head(left[r])] = @ + 1]
        BY <1>0, <4>2, <4>4, EnqueueEffect DEF Shape
      <4>6. \A q \in Tasks : left'[q] \in {left[q]} \/ (q = r /\ left'[q] = Tail(left[r]))
        BY <1>0, <4>4 DEF Shape
      <4>7. \A q \in Tasks : ToSet(left'[q]) \subseteq Children
        BY <4>2, <4>6 DEF ApprovalInv
      <4> QED
        BY <4>2, <4>3, <4>5, <4>7, ChildrenNotCross
    <3>3. CASE FanOut(r) /\ left[r] = <<>>
      <4>1. UNCHANGED <<entries, left>>
        BY <3>3 DEF FanOut, queueVars
      <4> QED
        BY <2>2, <4>1 DEF ApprovalInv
    <3> QED
      BY <1>4, <3>1, <3>2, <3>3
  <2>4. \A t \in Cross : Approval(t)'
    <3> TAKE t \in Cross
    <3>1. t # r /\ handler'[t] = handler[t]
      BY <1>a, <2>1, <2>2
    <3>2. entries'[t] = entries[t]
      BY <1>a, <2>3 DEF ApprovalInv
    <3>3. handler[t] \in {"new", "pending", "ask", "closed"}
      BY <1>a DEF Approval
    <3> QED
      BY <1>a, <1>c, <2>1, <3>1, <3>2, <3>3, ApprovalStays
  <2>5. entries' \in [Tasks -> Nat]
    BY <2>3 DEF ApprovalInv
  <2> QED
    BY <1>0, <2>1, <2>3, <2>4, <2>5 DEF ApprovalInv
<1> QED
  BY <1>1, <1>2, <1>3, <1>4 DEF SubmitStep

\* Everything but the requests' handlers and the decisions: only a restart moves
\* handlers, only the expiry changes requests, and it leaves approved ones alone.
LEMMA ApprovalOthers ==
  ASSUME ApprovalInv, Shape',
         \/ \E t \in Tasks : \/ ExecStep(t) \/ ExecError(t)
                             \/ Cancel(t) \/ CancelOne(t) \/ RunOut(t)
         \/ \E o \in Operators : Floor(o)
         \/ \E k \in Keys : TakeLock(k)
         \/ ExpirePending \/ Restart \/ UNCHANGED vars
  PROVE  ApprovalInv'
<1>a. \A t \in Cross : t \in Tasks /\ Approval(t)
  BY ConstantsAssumption DEF ApprovalInv
<1>1. UNCHANGED <<left, entries>>
  BY DEF ExecStep, Begin, Return, ReadStatus, WriteResult, Release, Finish, Step,
         ExecError, Cancel, CancelOne, RunOut, Floor, TakeLock, ExpirePending, Restart,
         vars, handlerVars, queueVars
<1>2. \A t \in Tasks : handler'[t] \in {handler[t], "closed"}
  <2>1. CASE Restart
    BY <2>1 DEF Restart
  <2>2. CASE ~Restart
    BY <2>2 DEF ExecStep, Begin, Return, ReadStatus, WriteResult, Release, Finish,
         ExecError, Cancel, CancelOne, RunOut, Floor, TakeLock, ExpirePending,
         vars, handlerVars
  <2> QED
    BY <2>1, <2>2
<1>3. \A d \in Deciders, t \in Cross : Approving(d, t)' => Approving(d, t)
  <2>1. CASE Restart
    <3>1. \A d \in Deciders : decision'[d].pc # "follow"
      BY <2>1 DEF Restart, ApprovalInv, Shape, DecisionTypes
    <3> QED
      BY <3>1 DEF Approving
  <2>2. CASE ~Restart
    <3>1. UNCHANGED decision
      BY <2>2 DEF ExecStep, Begin, Return, ReadStatus, WriteResult, Release, Finish,
           ExecError, Cancel, CancelOne, RunOut, Floor, TakeLock, ExpirePending, vars
    <3> QED
      BY <3>1 DEF Approving
  <2> QED
    BY <2>1, <2>2
<1>4. \/ UNCHANGED request
      \/ request' = [t \in Tasks |-> IF t \in overdue /\ request[t] = "pending"
                                     THEN "expired" ELSE request[t]]
  BY DEF ExecStep, Begin, Return, ReadStatus, WriteResult, Release, Finish,
         ExecError, Cancel, CancelOne, RunOut, Floor, TakeLock, ExpirePending, Restart,
         vars, storeVars
<1>5. DOMAIN request' = Tasks
  BY <1>4 DEF ApprovalInv
<1>6. \A t \in Cross : Approval(t)'
  <2> TAKE t \in Cross
  <2>1. handler'[t] \in {handler[t], "closed"} /\ entries'[t] = entries[t]
    BY <1>1, <1>2, <1>a
  <2>2. handler'[t] \in {"new", "pending", "ask", "closed"}
    BY <2>1, <1>a DEF Approval
  <2>3. CASE request'[t] = request[t]
    BY <1>a, <1>3, <2>1, <2>2, <2>3, ApprovalStays
  <2>4. CASE request'[t] # request[t]
    <3>1. request[t] = "pending"
      BY <1>4, <1>a, <2>4
    <3>2. handler[t] = "closed" /\ entries[t] = 0 /\ \A d \in Deciders : ~Approving(d, t)
      BY <1>a, <3>1 DEF Approval
    <3> QED
      BY <1>3, <2>1, <3>2 DEF Approval
  <2> QED
    BY <2>3, <2>4
<1>7. \A r \in Tasks : ToSet(left'[r]) \subseteq Children
  BY <1>1 DEF ApprovalInv
<1>8. entries' \in [Tasks -> Nat]
  BY <1>1 DEF ApprovalInv
<1> QED
  BY <1>5, <1>6, <1>7, <1>8 DEF ApprovalInv

\* The decisions: ApplyVerdict makes at most one decider an approving one, and
\* FollowUp of that one is the only step that enqueues the task.
LEMMA ApprovalDecisions ==
  ASSUME ApprovalInv, NEW d \in Deciders,
         \/ \E t \in Tasks : Decide(d, t)
         \/ ApplyVerdict(d) \/ FollowUp(d) \/ DecideError(d)
  PROVE  ApprovalInv'
<1>0. Shape /\ Shape'
  BY ShapeDecisions DEF ApprovalInv
<1>a. \A t \in Cross : t \in Tasks /\ Approval(t)
  BY ConstantsAssumption DEF ApprovalInv
<1>b. UNCHANGED <<left, handler>>
  BY DEF Decide, ApplyVerdict, FollowUp, DecideError, handlerVars
<1>c. \A r \in Tasks : ToSet(left'[r]) \subseteq Children
  BY <1>b DEF ApprovalInv
<1>d. \A e \in Deciders \ {d} : decision'[e] = decision[e]
  BY <1>0 DEF Decide, ApplyVerdict, FollowUp, DecideError, Shape
<1>e. \A t : handler'[t] = handler[t]
  BY <1>b
<1>f. \A e \in Deciders \ {d}, t \in Cross : Approving(e, t)' <=> Approving(e, t)
  BY <1>d DEF Approving
<1>1. CASE (\E t \in Tasks : Decide(d, t)) \/ DecideError(d)
  <2>1. UNCHANGED <<request, entries>> /\ decision'[d].pc # "follow"
    <3>1. UNCHANGED <<request, entries>>
      BY <1>1 DEF Decide, DecideError, storeVars, queueVars
    <3>2. CASE DecideError(d)
      BY <1>0, <3>1, <3>2 DEF DecideError, Shape, DecisionTypes
    <3>3. CASE \E t \in Tasks : Decide(d, t)
      <4>1. PICK t \in Tasks, w \in {"approved", "rejected"} :
              decision' = [decision EXCEPT ![d] = [pc |-> "apply", task |-> t, verdict |-> w]]
        BY <3>3 DEF Decide
      <4> QED
        BY <1>0, <3>1, <4>1 DEF Shape
    <3> QED
      BY <1>1, <3>2, <3>3
  <2>2. \A t \in Cross, e \in Deciders : Approving(e, t)' => Approving(e, t)
    BY <1>f, <2>1 DEF Approving
  <2>3. \A t \in Cross : Approval(t)'
    BY <1>a, <1>e, <2>1, <2>2 DEF Approval
  <2> QED
    BY <1>0, <1>c, <2>1, <2>3 DEF ApprovalInv
<1>2. CASE ApplyVerdict(d)
  <2> DEFINE v == decision[d].task
  <2>1. UNCHANGED entries /\ decision[d].pc = "apply" /\ v \in Tasks
    BY <1>0, <1>2 DEF ApplyVerdict, queueVars, Shape
  <2>2. CASE ~StillPending(v)
    <3>1. /\ DOMAIN request' = Tasks /\ \A t \in Tasks : request'[t] = request[t]
          /\ decision'[d].pc = "done"
      <4>1. request' = [request EXCEPT ![v] = @] /\ decision' = [decision EXCEPT ![d].pc = "done"]
        BY <1>2, <2>2 DEF ApplyVerdict
      <4> QED
        BY <1>0, <4>1 DEF ApprovalInv, Shape, DecisionTypes
    <3>2. \A t \in Cross, e \in Deciders : Approving(e, t)' => Approving(e, t)
      BY <1>f, <3>1 DEF Approving
    <3>3. \A t \in Cross : Approval(t)'
      BY <1>a, <1>e, <2>1, <3>1, <3>2 DEF Approval
    <3> QED
      BY <1>0, <1>c, <2>1, <3>1, <3>3 DEF ApprovalInv
  <2>3. CASE StillPending(v)
    <3>1. /\ request' = [request EXCEPT ![v] = decision[d].verdict]
          /\ decision' = [decision EXCEPT ![d].pc = "follow"]
      BY <1>2, <2>3 DEF ApplyVerdict
    <3>2. /\ decision'[d].pc = "follow" /\ decision'[d].task = v
          /\ decision'[d].verdict = decision[d].verdict
      BY <1>0, <3>1 DEF Shape, DecisionTypes
    <3>3. request[v] = "pending" /\ request'[v] = decision[d].verdict
          /\ \A t \in Tasks \ {v} : request'[t] = request[t]
      BY <2>1, <2>3, <3>1 DEF StillPending, ApprovalInv
    <3>4. \A t \in Cross : Approval(t)'
      <4> TAKE t \in Cross
      <4>1. CASE t = v
        <5>1. handler[t] = "closed" /\ entries[t] = 0
              /\ \A e \in Deciders : ~Approving(e, t)
          BY <1>a, <3>3, <4>1 DEF Approval
        <5>2. \A e \in Deciders : Approving(e, t)' => e = d
          BY <1>f, <5>1
        <5>3. Approving(d, t)' => request'[t] = "approved"
          BY <3>2, <3>3, <4>1 DEF Approving
        <5>4. entries'[t] = 0 /\ handler'[t] = "closed"
          BY <1>e, <2>1, <5>1
        <5> QED
          BY <5>2, <5>3, <5>4 DEF Approval
      <4>2. CASE t # v
        <5>1. ~Approving(d, t)'
          BY <3>2, <4>2 DEF Approving
        <5>2. \A e \in Deciders : Approving(e, t)' => Approving(e, t)
          BY <1>f, <5>1
        <5> QED
          BY <1>a, <1>e, <2>1, <3>3, <4>2, <5>2 DEF Approval
      <4> QED
        BY <4>1, <4>2
    <3>5. DOMAIN request' = Tasks
      BY <3>1 DEF ApprovalInv
    <3> QED
      BY <1>0, <1>c, <2>1, <3>4, <3>5 DEF ApprovalInv
  <2> QED
    BY <2>2, <2>3
<1>3. CASE FollowUp(d)
  <2> DEFINE v == decision[d].task
  <2>1. UNCHANGED request /\ decision[d].pc = "follow" /\ v \in Tasks
        /\ decision'[d].pc = "done"
    BY <1>0, <1>3 DEF FollowUp, Shape
  <2>2. \A t \in Cross : ~Approving(d, t)'
    BY <2>1 DEF Approving
  <2>3. CASE decision[d].verdict # "approved"
    <3>1. UNCHANGED entries
      BY <1>3, <2>3 DEF FollowUp, queueVars
    <3>2. \A t \in Cross : Approval(t)'
      BY <1>a, <1>e, <1>f, <2>1, <2>2, <3>1 DEF Approval
    <3> QED
      BY <1>0, <1>c, <2>1, <3>1, <3>2 DEF ApprovalInv
  <2>4. CASE decision[d].verdict = "approved"
    <3>1. Enqueue(v)
      BY <1>3, <2>4 DEF FollowUp
    <3>2. entries' = [entries EXCEPT ![v] = @ + 1]
      BY <1>0, <2>1, <3>1, EnqueueEffect DEF Shape
    <3>3. \A t \in Cross : Approval(t)'
      <4> TAKE t \in Cross
      <4>1. CASE t = v
        <5>1. Approving(d, t)
          BY <2>1, <2>4, <4>1 DEF Approving
        <5>2. request[t] = "approved" /\ entries[t] = 0
              /\ \A e \in Deciders \ {d} : ~Approving(e, t)
          BY <1>a, <5>1 DEF Approval
        <5>3. entries'[t] = 1
          BY <2>1, <3>2, <4>1, <5>2 DEF ApprovalInv
        <5>4. \A e \in Deciders : ~Approving(e, t)'
          BY <1>f, <2>2, <5>2
        <5>5. handler'[t] = "closed" /\ request'[t] = "approved"
          BY <1>a, <1>e, <2>1, <5>2 DEF Approval
        <5> QED
          BY <5>3, <5>4, <5>5 DEF Approval
      <4>2. CASE t # v
        <5>1. entries'[t] = entries[t]
          BY <1>a, <3>2, <4>2 DEF ApprovalInv
        <5>2. \A e \in Deciders : Approving(e, t)' => Approving(e, t)
          BY <1>f, <2>2
        <5> QED
          BY <1>a, <1>e, <2>1, <5>1, <5>2 DEF Approval
      <4> QED
        BY <4>1, <4>2
    <3>4. entries' \in [Tasks -> Nat]
      BY <2>1, <3>2 DEF ApprovalInv
    <3> QED
      BY <1>0, <1>c, <2>1, <3>3, <3>4 DEF ApprovalInv
  <2> QED
    BY <2>3, <2>4
<1> QED
  BY <1>1, <1>2, <1>3

\* However many approvals, rejections and expiries race, and whatever stops or
\* fails between them, a cross-department task enters a queue at most once, and
\* only under an approved request (cross-dept.ts:118-134, conflict-routes.ts:222).
THEOREM ApprovedAtMostOnce == Spec => []ApprovedOnce
<1>1. Init => ApprovalInv
  BY ApprovalInit
<1>2. ApprovalInv /\ [Next]_vars => ApprovalInv'
  <2> SUFFICES ASSUME ApprovalInv, [Next]_vars PROVE ApprovalInv'
    OBVIOUS
  <2>1. Shape'
    BY ShapeNext DEF ApprovalInv
  <2> QED
    BY <2>1, ApprovalHandlers, ApprovalOthers, ApprovalDecisions DEF Next
<1>3. ApprovalInv => ApprovedOnce
  BY DEF ApprovalInv, Approval, ApprovedOnce
<1> QED
  BY <1>1, <1>2, <1>3, PTL DEF Spec
=============================================================================
