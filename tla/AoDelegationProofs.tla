------------------------- MODULE AoDelegationProofs -------------------------
(***************************************************************************)
(* What holds of AoDelegation for every number of directives, commits and  *)
(* repairs and without any bound on restarts, errors, lost answers and     *)
(* lapsed claims: every job of a directive beyond its first one is paid    *)
(* for by a lapse, and without lapses the claim of the issue belongs to    *)
(* the one directive that is at work.                                      *)
(***************************************************************************)
EXTENDS AoDelegation, TLAPS

CircuitTypes ==
  [failures : 0 .. Threshold, until : {"zero", "ahead", "past"}]

CircuitOK(c) ==
  c \in CircuitTypes /\ (c.failures = Threshold <=> c.until # "zero")

\* The operations of the circuit breaker keep it well-formed.
LEMMA CircuitOperations ==
  ASSUME NEW c, CircuitOK(c)
  PROVE  CircuitOK(Closed) /\ CircuitOK(Checked(c)) /\ CircuitOK(Failed(c))
<1>1. CircuitOK(Closed)
  BY ConstantsAssumption DEF CircuitOK, CircuitTypes, Closed
<1>2. CircuitOK(Checked(c))
  BY <1>1 DEF Checked
<1>3. CircuitOK(Failed(c))
  BY ConstantsAssumption DEF CircuitOK, CircuitTypes, Failed
<1> QED
  BY <1>1, <1>2, <1>3

\* A handler that moves to a step keeps the type of step.
LEMMA GotoType ==
  ASSUME step \in [Handlers -> Steps], NEW h \in Handlers, NEW s \in Steps,
         Goto(h, s)
  PROVE  /\ step' \in [Handlers -> Steps] /\ step'[h] = s
         /\ \A g \in Handlers \ {h} : step'[g] = step[g]
BY DEF Goto

\* Requests that reach the bridge: each queues at most one job.
LEMMA EnqueueEffect ==
  ASSUME NEW S \in SUBSET Handlers, Enqueue(S),
         queued \subseteq Handlers, posted \in [Handlers -> Nat]
  PROVE  /\ queued' \subseteq Handlers /\ posted' \in [Handlers -> Nat]
         /\ \A h \in Handlers \ S :
              posted'[h] = posted[h] /\ (h \in queued' <=> h \in queued)
         /\ \A h \in S :
              /\ h \in queued'
              /\ posted'[h] = IF h \in queued THEN posted[h] ELSE posted[h] + 1
BY DEF Enqueue

-----------------------------------------------------------------------------
(* Types                                                                    *)

\* The conjuncts of TypeOK that an action leaves alone, or that follow from the
\* lemmas above, are settled together; only the counters and the circuit need
\* a step of their own.
LEMMA TypeInit == Init => TypeOK
<1> SUFFICES ASSUME Init PROVE TypeOK
  OBVIOUS
<1>1. CircuitOK(circuit)
  BY ConstantsAssumption DEF Init, CircuitOK, CircuitTypes, Closed
<1>2. attempts \in Nat /\ lapses \in 0 .. MaxLapses /\ outages \in 0 .. MaxOutages
  BY ConstantsAssumption DEF Init
<1> QED
  BY <1>1, <1>2 DEF Init, TypeOK, CircuitOK, CircuitTypes, Steps, Handlers

\* The handlers of directives.
LEMMA TypeDirective ==
  ASSUME TypeOK, NEW d \in Directives,
         Directive(d) \/ RedisError(d) \/ DirectiveClaimLapses(d)
  PROVE  TypeOK'
<1> USE ConstantsAssumption DEF Fails, Lapse, bounds, redis, bridge
<1>0. d \in Handlers /\ CircuitOK(circuit)
  BY DEF TypeOK, CircuitOK, CircuitTypes, Handlers
<1>1. CASE ReadHold(d)
  <2>1. step' \in [Handlers -> Steps]
    BY <1>0, <1>1, GotoType DEF TypeOK, ReadHold, Steps, InProgress
  <2> QED
    BY <1>1, <2>1 DEF TypeOK, ReadHold
<1>2. CASE ClaimDirective(d)
  <2>1. step' \in [Handlers -> Steps]
    BY <1>0, <1>2, GotoType
       DEF TypeOK, ClaimDirective, Steps, InProgress, Thrown
  <2>2. CircuitOK(circuit')
    BY <1>0, <1>2, CircuitOperations DEF ClaimDirective
  <2> QED
    BY <1>2, <2>1, <2>2 DEF TypeOK, ClaimDirective, CircuitOK, CircuitTypes
<1>3. CASE ClaimIssue(d)
  <2>1. step' \in [Handlers -> Steps]
    BY <1>0, <1>3, GotoType DEF TypeOK, ClaimIssue, Steps, InProgress
  <2>2. CircuitOK(circuit')
    BY <1>0, <1>3, CircuitOperations DEF ClaimIssue
  <2> QED
    BY <1>3, <2>1, <2>2 DEF TypeOK, ClaimIssue, CircuitOK, CircuitTypes
<1>4. CASE ReleaseIssueClaim(d)
  <2>1. step' \in [Handlers -> Steps]
    BY <1>0, <1>4, GotoType DEF TypeOK, ReleaseIssueClaim, Steps, InProgress
  <2> QED
    BY <1>4, <2>1 DEF TypeOK, ReleaseIssueClaim
<1>5. CASE RedisError(d)
  <2>1. step' \in [Handlers -> Steps]
    BY <1>0, <1>5, GotoType DEF TypeOK, RedisError, Steps, Thrown
  <2> QED
    BY <1>5, <2>1 DEF TypeOK, RedisError
<1>6. CASE DirectiveClaimLapses(d)
  BY <1>6 DEF TypeOK, DirectiveClaimLapses
<1> QED
  BY <1>1, <1>2, <1>3, <1>4, <1>5, <1>6 DEF Directive

\* The handlers of failing commits.
LEMMA TypeRepair ==
  ASSUME TypeOK, NEW r \in Repairs, Repair(r)
  PROVE  TypeOK'
<1> USE ConstantsAssumption DEF Fails, bounds, redis, bridge
<1>0. r \in Handlers /\ CircuitOK(circuit)
  BY DEF TypeOK, CircuitOK, CircuitTypes, Handlers
<1>1. CASE ReadAttempts(r)
  <2>1. step' \in [Handlers -> Steps]
    BY <1>0, <1>1, GotoType DEF TypeOK, ReadAttempts, Steps, InProgress
  <2> QED
    BY <1>1, <2>1 DEF TypeOK, ReadAttempts
<1>2. CASE CountAttempt(r)
  <2>1. step' \in [Handlers -> Steps]
    BY <1>0, <1>2, GotoType DEF TypeOK, CountAttempt, Steps, InProgress
  <2>2. CircuitOK(circuit')
    BY <1>0, <1>2, CircuitOperations DEF CountAttempt
  <2> QED
    BY <1>2, <2>1, <2>2 DEF TypeOK, CountAttempt, CircuitOK, CircuitTypes
<1> QED
  BY <1>1, <1>2 DEF Repair

\* A request without an answer, refused or not.
LEMMA NoAnswerEffect ==
  ASSUME TypeOK, NEW h \in Handlers, NoAnswer(h)
  PROVE  step' \in [Handlers -> Steps] /\ CircuitOK(circuit')
<1>0. CircuitOK(circuit)
  BY DEF TypeOK, CircuitOK, CircuitTypes
<1>1. step' \in [Handlers -> Steps]
  BY GotoType DEF TypeOK, NoAnswer, SpawnFails, Steps, InProgress
<1>2. CircuitOK(circuit')
  BY <1>0, CircuitOperations DEF NoAnswer
<1> QED
  BY <1>1, <1>2

\* The requests of a handler.
LEMMA TypeRequest ==
  ASSUME TypeOK, NEW h \in Handlers,
         Spawn(h) \/ PostUnanswered(h) \/ Label(h) \/ Degrade(h)
  PROVE  TypeOK'
<1> USE ConstantsAssumption DEF Lapse, bounds, redis, bridge
<1>0. CircuitOK(circuit)
  BY DEF TypeOK, CircuitOK, CircuitTypes
<1>1. CASE PostAccepted(h)
  <2>1. step' \in [Handlers -> Steps]
    BY <1>1, GotoType DEF TypeOK, PostAccepted, Steps, InProgress
  <2>2. CircuitOK(circuit')
    BY <1>0, <1>1, CircuitOperations DEF PostAccepted
  <2>3. queued' \subseteq Handlers /\ posted' \in [Handlers -> Nat]
    BY <1>1, EnqueueEffect DEF PostAccepted, TypeOK
  <2> QED
    BY <1>1, <2>1, <2>2, <2>3 DEF TypeOK, PostAccepted, CircuitOK, CircuitTypes
<1>2. CASE PostRefused(h)
  <2>1. step' \in [Handlers -> Steps] /\ CircuitOK(circuit')
    BY <1>2, NoAnswerEffect DEF PostRefused
  <2> QED
    BY <1>2, <2>1 DEF TypeOK, PostRefused, CircuitOK, CircuitTypes
<1>3. CASE PostRejected(h)
  <2>1. step' \in [Handlers -> Steps]
    BY <1>3, GotoType DEF TypeOK, PostRejected, SpawnFails, Steps, InProgress
  <2> QED
    BY <1>3, <2>1 DEF TypeOK, PostRejected
<1>4. CASE PostUnanswered(h)
  <2>1. step' \in [Handlers -> Steps] /\ CircuitOK(circuit')
    BY <1>4, NoAnswerEffect DEF PostUnanswered
  <2>2. queued' \subseteq Handlers /\ posted' \in [Handlers -> Nat]
    BY <1>4, EnqueueEffect DEF PostUnanswered, TypeOK
  <2> QED
    BY <1>4, <2>1, <2>2 DEF TypeOK, PostUnanswered, CircuitOK, CircuitTypes
<1>5. CASE Label(h)
  <2>1. step' \in [Handlers -> Steps]
    BY <1>5, GotoType DEF TypeOK, Label, Steps
  <2> QED
    BY <1>5, <2>1 DEF TypeOK, Label
<1>6. CASE Degrade(h)
  <2>1. step' \in [Handlers -> Steps]
    BY <1>6, GotoType DEF TypeOK, Degrade, Steps
  <2> QED
    BY <1>6, <2>1 DEF TypeOK, Degrade
<1> QED
  BY <1>1, <1>2, <1>3, <1>4, <1>5, <1>6 DEF Spawn

\* Jobs, sessions and their reports.
LEMMA TypeJob ==
  ASSUME TypeOK, NEW h \in Handlers,
         \/ StartSession(h) \/ EndJob(h) \/ EndSession(h) \/ EarlyReport(h)
         \/ HandleReport(h)
  PROVE  TypeOK'
<1> USE ConstantsAssumption DEF Lapse, Fails, bounds, redis, bridge
<1>1. CASE StartSession(h)
  <2>1. sessions' \in [Handlers -> Nat]
    BY <1>1 DEF TypeOK, StartSession
  <2> QED
    BY <1>1, <2>1 DEF TypeOK, StartSession
<1>2. CASE EndJob(h)
  BY <1>2 DEF TypeOK, EndJob, Report
<1>3. CASE EndSession(h)
  <2>1. sessions' \in [Handlers -> Nat]
    BY <1>3 DEF TypeOK, EndSession
  <2> QED
    BY <1>3, <2>1 DEF TypeOK, EndSession, Report
<1>4. CASE EarlyReport(h)
  BY <1>4 DEF TypeOK, EarlyReport
<1>5. CASE HandleReport(h)
  <2>1. CircuitOK(circuit')
    BY <1>5, CircuitOperations
       DEF TypeOK, HandleReport, CircuitOK, CircuitTypes
  <2> QED
    BY <1>5, <2>1 DEF TypeOK, HandleReport, CircuitOK, CircuitTypes
<1> QED
  BY <1>1, <1>2, <1>3, <1>4, <1>5

\* What a restart does to one handler.
LEMMA RestartEffect ==
  ASSUME TypeOK, Restart
  PROVE  /\ step' \in [Handlers -> Steps]
         /\ \A h \in Handlers :
              step'[h] \in {"new", "ended"} \/ step'[h] = step[h]
         /\ \A h \in Handlers : step'[h] \notin InProgress \cup {"pending"}
BY DEF Restart, TypeOK, Steps, InProgress

LEMMA TypeRestart ==
  ASSUME TypeOK, Restart
  PROVE  TypeOK'
<1>1. PICK S \in SUBSET {h \in Handlers : Posting(h)} : Enqueue(S)
  BY DEF Restart
<1>2. queued' \subseteq Handlers /\ posted' \in [Handlers -> Nat]
  BY <1>1, EnqueueEffect DEF TypeOK
<1>3. CircuitOK(circuit')
  BY CircuitOperations DEF TypeOK, Restart, CircuitOK, CircuitTypes
<1> QED
  BY <1>2, <1>3, RestartEffect, ConstantsAssumption
     DEF TypeOK, Restart, Fails, CircuitOK, CircuitTypes, bounds, redis, bridge

LEMMA TypeStep == TypeOK /\ [Next]_vars => TypeOK'
<1> SUFFICES ASSUME TypeOK, [Next]_vars PROVE TypeOK'
  OBVIOUS
<1>1. CASE UNCHANGED vars
  BY <1>1 DEF vars, redis, bridge, bounds, TypeOK
<1>2. ASSUME NEW d \in Directives,
             Directive(d) \/ RedisError(d) \/ DirectiveClaimLapses(d)
      PROVE  TypeOK'
  BY <1>2, TypeDirective
<1>3. ASSUME NEW r \in Repairs, Repair(r) PROVE TypeOK'
  BY <1>3, TypeRepair
<1>4. ASSUME NEW h \in Handlers,
             Spawn(h) \/ PostUnanswered(h) \/ Label(h) \/ Degrade(h)
      PROVE  TypeOK'
  BY <1>4, TypeRequest
<1>5. ASSUME NEW h \in Handlers,
             \/ StartSession(h) \/ EndJob(h) \/ EndSession(h) \/ EarlyReport(h)
             \/ HandleReport(h)
      PROVE  TypeOK'
  BY <1>5, TypeJob
<1>6. CASE WindowPasses
  BY <1>6 DEF WindowPasses, TypeOK, redis, bridge, bounds
<1>7. CASE HoldLapses
  BY <1>7 DEF HoldLapses, TypeOK, bridge, bounds
<1>8. CASE IssueClaimLapses
  BY <1>8, ConstantsAssumption DEF IssueClaimLapses, Lapse, TypeOK, bridge
<1>9. CASE Restart
  BY <1>9, TypeRestart
<1> QED
  BY <1>1, <1>2, <1>3, <1>4, <1>5, <1>6, <1>7, <1>8, <1>9 DEF Next

\* The variables keep their types: the breaker's count and its window agree
\* after every mixture of successes, failures and restarts.
THEOREM TypeCorrect == Spec => []TypeOK
BY TypeInit, TypeStep, PTL DEF Spec

-----------------------------------------------------------------------------
(* One job for a directive                                                  *)

\* On the way from the claim of the directive to the end of its requests.
Underway(d) == step[d] \in {"issue", "post1", "post2", "free"}

\* A handler that is underway has the directive's claim, and every job of the
\* directive so far is paid for by a lapse; without the claim, too, another
\* handler may get it.
Paid(d) ==
  /\ d \in claims \/ posted[d] <= lapses
  /\ Underway(d) => d \in claims /\ posted[d] <= lapses
  /\ posted[d] <= 1 + lapses

AllPaid == \A d \in Directives : Paid(d)

\* An action that moves a handler, but no job, claim or lapse.
LEMMA PaidByMove ==
  ASSUME TypeOK, AllPaid, UNCHANGED <<claims, posted>>,
         lapses' \in {lapses, lapses + 1},
         \A d \in Directives : Underway(d)' => Underway(d)
  PROVE  AllPaid'
BY DEF AllPaid, Paid, TypeOK, Handlers, Underway

\* A request that may reach the bridge.
LEMMA PaidByRequest ==
  ASSUME TypeOK, AllPaid, NEW h \in Handlers,
         Spawn(h) \/ PostUnanswered(h) \/ Label(h) \/ Degrade(h)
  PROVE  AllPaid'
<1> USE DEF redis, bridge, bounds
<1>1. CASE PostAccepted(h)
  <2>1. /\ posted' \in [Handlers -> Nat] /\ posted'[h] <= posted[h] + 1
        /\ \A g \in Handlers \ {h} : posted'[g] = posted[g]
    BY <1>1, EnqueueEffect DEF PostAccepted, TypeOK
  <2>2. step'[h] = "label" /\ \A g \in Handlers \ {h} : step'[g] = step[g]
    BY <1>1, GotoType DEF PostAccepted, TypeOK, Steps, InProgress
  <2> QED
    BY <1>1, <2>1, <2>2
       DEF AllPaid, Paid, Underway, PostAccepted, Posting, TypeOK, Handlers
<1>2. CASE PostUnanswered(h)
  <2>1. /\ posted' \in [Handlers -> Nat] /\ posted'[h] <= posted[h] + 1
        /\ \A g \in Handlers \ {h} : posted'[g] = posted[g]
    BY <1>2, EnqueueEffect DEF PostUnanswered, TypeOK
  <2>2. \A g \in Handlers \ {h} : step'[g] = step[g]
    BY <1>2, GotoType
       DEF PostUnanswered, NoAnswer, SpawnFails, TypeOK, Steps, InProgress
  <2>3. h \in Directives => Underway(h)
    BY <1>2 DEF PostUnanswered, NoAnswer, Underway
  <2> QED
    BY <1>2, <2>1, <2>2, <2>3
       DEF AllPaid, Paid, Underway, PostUnanswered, Lapse, TypeOK, Handlers
<1>3. CASE PostRefused(h)
  BY <1>3, PaidByMove
     DEF PostRefused, NoAnswer, SpawnFails, Goto, Underway, TypeOK, Handlers
<1>4. CASE PostRejected(h)
  BY <1>4, PaidByMove
     DEF PostRejected, Posting, SpawnFails, Goto, Underway, TypeOK, Handlers
<1>5. CASE Label(h)
  BY <1>5, PaidByMove DEF Label, Goto, Underway, TypeOK, Handlers
<1>6. CASE Degrade(h)
  BY <1>6, PaidByMove DEF Degrade, Goto, Underway, TypeOK, Handlers
<1> QED
  BY <1>1, <1>2, <1>3, <1>4, <1>5, <1>6 DEF Spawn

\* The handlers of directives.
LEMMA PaidByDirective ==
  ASSUME TypeOK, AllPaid, NEW d \in Directives,
         Directive(d) \/ RedisError(d) \/ DirectiveClaimLapses(d)
  PROVE  AllPaid'
<1> USE DEF redis, bridge, bounds, Goto, Underway, Handlers
<1>1. CASE ReadHold(d)
  BY <1>1, PaidByMove DEF ReadHold, TypeOK
<1>2. CASE ClaimDirective(d)
  BY <1>2 DEF ClaimDirective, Thrown, AllPaid, Paid, TypeOK
<1>3. CASE ClaimIssue(d)
  BY <1>3, PaidByMove DEF ClaimIssue, TypeOK
<1>4. CASE ReleaseIssueClaim(d)
  BY <1>4, PaidByMove DEF ReleaseIssueClaim, TypeOK
<1>5. CASE RedisError(d)
  BY <1>5 DEF RedisError, Thrown, AllPaid, Paid, TypeOK
<1>6. CASE DirectiveClaimLapses(d)
  BY <1>6 DEF DirectiveClaimLapses, Lapse, InProgress, AllPaid, Paid, TypeOK
<1> QED
  BY <1>1, <1>2, <1>3, <1>4, <1>5, <1>6 DEF Directive

\* A restart sends out what is underway and has no handler underway after it.
LEMMA PaidByRestart ==
  ASSUME TypeOK, AllPaid, Restart
  PROVE  AllPaid'
<1>1. PICK S \in SUBSET {h \in Handlers : Posting(h)} : Enqueue(S)
  BY DEF Restart
<1>2. /\ posted' \in [Handlers -> Nat]
      /\ \A h \in Handlers : posted'[h] <= posted[h] + 1
      /\ \A h \in Handlers : posted'[h] = posted[h] \/ Posting(h)
  BY <1>1, EnqueueEffect DEF TypeOK
<1>3. \A d \in Directives : ~Underway(d)'
  BY RestartEffect DEF Underway, InProgress, Handlers
<1> QED
  BY <1>2, <1>3
     DEF Restart, AllPaid, Paid, Underway, Posting, TypeOK, Handlers, redis

LEMMA PaidStep == TypeOK /\ AllPaid /\ [Next]_vars => AllPaid'
<1> SUFFICES ASSUME TypeOK, AllPaid, [Next]_vars PROVE AllPaid'
  OBVIOUS
<1> USE DEF redis, bridge, bounds
<1>1. CASE UNCHANGED vars
  BY <1>1 DEF vars, AllPaid, Paid, Underway
<1>2. ASSUME NEW d \in Directives,
             Directive(d) \/ RedisError(d) \/ DirectiveClaimLapses(d)
      PROVE  AllPaid'
  BY <1>2, PaidByDirective
<1>3. ASSUME NEW r \in Repairs, Repair(r) PROVE AllPaid'
  <2>1. r \in Handlers /\ r \notin Directives
    BY ConstantsAssumption DEF Handlers
  <2> QED
    BY <1>3, <2>1, PaidByMove
       DEF Repair, ReadAttempts, CountAttempt, Goto, Underway, TypeOK, Handlers
<1>4. ASSUME NEW h \in Handlers,
             Spawn(h) \/ PostUnanswered(h) \/ Label(h) \/ Degrade(h)
      PROVE  AllPaid'
  BY <1>4, PaidByRequest
<1>5. ASSUME NEW h \in Handlers,
             \/ StartSession(h) \/ EndJob(h) \/ EndSession(h) \/ EarlyReport(h)
             \/ HandleReport(h)
      PROVE  AllPaid'
  BY <1>5, PaidByMove
     DEF StartSession, EndJob, EndSession, EarlyReport, HandleReport, Lapse,
         Underway
<1>6. CASE WindowPasses \/ HoldLapses \/ IssueClaimLapses
  BY <1>6, PaidByMove
     DEF WindowPasses, HoldLapses, IssueClaimLapses, Lapse, Underway
<1>7. CASE Restart
  BY <1>7, PaidByRestart
<1> QED
  BY <1>1, <1>2, <1>3, <1>4, <1>5, <1>6, <1>7 DEF Next

LEMMA PaidInit == Init => AllPaid
BY DEF Init, AllPaid, Paid, Underway, Handlers

LEMMA PaidAlways == Spec => []AllPaid
BY PaidInit, TypeInit, TypeStep, PaidStep, PTL DEF Spec

\* A directive becomes one job, and one more for each answer that was lost or
\* claim that ran out, however often its entry is delivered again.
THEOREM DirectiveDelegatedOnce == Spec => []OneJobPerDirective
<1>1. AllPaid => OneJobPerDirective
  BY DEF AllPaid, Paid, OneJobPerDirective
<1> QED
  BY <1>1, PaidAlways, PTL

-----------------------------------------------------------------------------
(* One directive of the issue at work                                       *)

\* Where the jobs of a handler are: queued, in a session, in a report.
Traces(h) == (IF h \in queued THEN 1 ELSE 0) + sessions[h]
               + (IF h \in reports THEN 1 ELSE 0)

\* Every trace is of a job that was made, or of a report that came early.
AllBacked == \A h \in Handlers : Traces(h) <= posted[h] + lapses

Quiet == lapses = 0 /\ \A r \in Repairs : posted[r] = 0

Sending(d) == step[d] \in {"post1", "post2", "free"}

\* While nothing has lapsed, a directive that has left a trace, or is about to,
\* owns the claim of the issue.
OwnerHolds ==
  Quiet => \A d \in Directives : Traces(d) > 0 \/ Sending(d) => issueClaim = d

\* What every step does to the counts.
LEMMA CountsGrow ==
  ASSUME TypeOK, [Next]_vars
  PROVE  /\ lapses' \in {lapses, lapses + 1}
         /\ \A h \in Handlers : posted'[h] >= posted[h]
<1> USE DEF redis, bridge, bounds, TypeOK
<1>1. CASE UNCHANGED vars
  BY <1>1 DEF vars
<1>2. ASSUME NEW d \in Directives,
             Directive(d) \/ RedisError(d) \/ DirectiveClaimLapses(d)
      PROVE  lapses' \in {lapses, lapses + 1} /\ UNCHANGED posted
  BY <1>2 DEF Directive, ReadHold, ClaimDirective, ClaimIssue,
              ReleaseIssueClaim, RedisError, DirectiveClaimLapses, Lapse
<1>3. ASSUME NEW r \in Repairs, Repair(r)
      PROVE  lapses' \in {lapses, lapses + 1} /\ UNCHANGED posted
  BY <1>3 DEF Repair, ReadAttempts, CountAttempt
<1>4. ASSUME NEW S \in SUBSET Handlers, Enqueue(S)
      PROVE  \A h \in Handlers : posted'[h] >= posted[h]
  BY <1>4, EnqueueEffect
<1>5. ASSUME NEW h \in Handlers, PostAccepted(h) \/ PostUnanswered(h)
      PROVE  /\ lapses' \in {lapses, lapses + 1}
             /\ \A g \in Handlers : posted'[g] >= posted[g]
  BY <1>4, <1>5 DEF PostAccepted, PostUnanswered, Lapse
<1>6. ASSUME NEW h \in Handlers,
             \/ PostRefused(h) \/ PostRejected(h) \/ Label(h) \/ Degrade(h)
             \/ StartSession(h) \/ EndJob(h) \/ EndSession(h) \/ EarlyReport(h)
             \/ HandleReport(h)
      PROVE  lapses' \in {lapses, lapses + 1} /\ UNCHANGED posted
  BY <1>6 DEF PostRefused, PostRejected, Label, Degrade, StartSession, EndJob,
              EndSession, EarlyReport, HandleReport, Lapse
<1>7. CASE WindowPasses \/ HoldLapses \/ IssueClaimLapses
  BY <1>7 DEF WindowPasses, HoldLapses, IssueClaimLapses, Lapse
<1>8. CASE Restart
  BY <1>4, <1>8 DEF Restart
<1> QED
  BY <1>1, <1>2, <1>3, <1>5, <1>6, <1>7, <1>8 DEF Next, Spawn

LEMMA QuietBefore ==
  ASSUME TypeOK, [Next]_vars, Quiet'
  PROVE  Quiet /\ lapses' = 0
<1>1. lapses = 0
  BY CountsGrow DEF Quiet, TypeOK
<1>2. \A r \in Repairs : posted[r] = 0
  BY TypeStep, CountsGrow DEF Quiet, TypeOK, Handlers
<1> QED
  BY <1>1, <1>2 DEF Quiet

\* Requests that reach the bridge are backed by the jobs they make.
LEMMA BackedByRequest ==
  ASSUME TypeOK, NEW S \in SUBSET Handlers, Enqueue(S),
         UNCHANGED sessions, reports' \subseteq reports
  PROVE  \A h \in Handlers :
           /\ Traces(h)' <= Traces(h) + (posted'[h] - posted[h])
           /\ h \notin S => Traces(h)' <= Traces(h)
BY EnqueueEffect DEF Traces, TypeOK

LEMMA BackedStep == TypeOK /\ AllBacked /\ [Next]_vars => AllBacked'
<1> SUFFICES ASSUME TypeOK, AllBacked, [Next]_vars PROVE AllBacked'
  OBVIOUS
<1>0. TypeOK'
  BY TypeStep
<1> USE DEF redis, bridge, bounds, TypeOK, AllBacked, Traces
<1>1. ASSUME UNCHANGED bridge, UNCHANGED reports PROVE AllBacked'
  BY <1>1, CountsGrow
<1>2. ASSUME NEW d \in Directives,
             Directive(d) \/ RedisError(d) \/ DirectiveClaimLapses(d)
      PROVE  AllBacked'
  BY <1>1, <1>2 DEF Directive, ReadHold, ClaimDirective, ClaimIssue,
                    ReleaseIssueClaim, RedisError, DirectiveClaimLapses
<1>3. ASSUME NEW r \in Repairs, Repair(r) PROVE AllBacked'
  BY <1>1, <1>3 DEF Repair, ReadAttempts, CountAttempt
<1>4. ASSUME NEW S \in SUBSET Handlers, Enqueue(S), UNCHANGED sessions,
             reports' \subseteq reports
      PROVE  AllBacked'
  BY <1>0, <1>4, BackedByRequest, CountsGrow
<1>5. ASSUME NEW h \in Handlers, PostAccepted(h) \/ PostUnanswered(h)
      PROVE  AllBacked'
  BY <1>4, <1>5 DEF PostAccepted, PostUnanswered
<1>6. ASSUME NEW h \in Handlers,
             PostRefused(h) \/ PostRejected(h) \/ Label(h) \/ Degrade(h)
      PROVE  AllBacked'
  BY <1>1, <1>6 DEF PostRefused, PostRejected, Label, Degrade
<1>7. ASSUME NEW h \in Handlers, StartSession(h) PROVE AllBacked'
  BY <1>7 DEF StartSession
<1>8. ASSUME NEW h \in Handlers, EndJob(h) PROVE AllBacked'
  BY <1>8 DEF EndJob, Report
<1>9. ASSUME NEW h \in Handlers, EndSession(h) PROVE AllBacked'
  BY <1>9 DEF EndSession, Report
<1>10. ASSUME NEW h \in Handlers, EarlyReport(h) PROVE AllBacked'
  BY <1>10 DEF EarlyReport, Lapse
<1>11. ASSUME NEW h \in Handlers, HandleReport(h) PROVE AllBacked'
  BY <1>11 DEF HandleReport
<1>12. CASE UNCHANGED vars \/ WindowPasses \/ HoldLapses \/ IssueClaimLapses
  BY <1>1, <1>12 DEF WindowPasses, HoldLapses, IssueClaimLapses, vars
<1>13. CASE Restart
  BY <1>4, <1>13 DEF Restart
<1> QED
  BY <1>2, <1>3, <1>5, <1>6, <1>7, <1>8, <1>9, <1>10, <1>11, <1>12, <1>13
     DEF Next, Spawn

LEMMA BackedInit == Init => AllBacked
BY DEF Init, AllBacked, Traces, Handlers

\* An action that makes no trace, sends nothing and leaves the claim.
LEMMA OwnerByMove ==
  ASSUME OwnerHolds, Quiet' => Quiet, UNCHANGED issueClaim,
         \A d \in Directives :
           /\ Traces(d)' > 0 => Traces(d) > 0 \/ Sending(d)
           /\ Sending(d)' => Sending(d)
  PROVE  OwnerHolds'
BY DEF OwnerHolds

\* The handlers of directives: the owner of the claim is the only one that can
\* give it back, and it has not left a trace then.
LEMMA OwnerByDirective ==
  ASSUME TypeOK, OwnerHolds, AllPaid, AllBacked,
         Quiet' => Quiet /\ lapses' = 0,
         NEW d \in Directives,
         Directive(d) \/ RedisError(d) \/ DirectiveClaimLapses(d)
  PROVE  OwnerHolds'
<1> USE DEF redis, bridge, bounds, Goto, Sending, Handlers
<1>0. ASSUME NEW e \in Directives, UNCHANGED <<bridge, reports>>
      PROVE  Traces(e)' = Traces(e)
  BY <1>0 DEF Traces
<1>1. CASE ReadHold(d)
  BY <1>0, <1>1, OwnerByMove DEF ReadHold, TypeOK
<1>2. CASE ClaimDirective(d)
  BY <1>0, <1>2, OwnerByMove DEF ClaimDirective, Thrown, TypeOK
<1>3. CASE ClaimIssue(d)
  BY <1>0, <1>3, ConstantsAssumption
     DEF ClaimIssue, MayClaim, OwnerHolds, TypeOK
<1>4. CASE ReleaseIssueClaim(d)
  <2>1. /\ issueClaim = d \/ ~Quiet
        /\ step'[d] = "degrade"
        /\ \A e \in Directives \ {d} : step'[e] = step[e]
    BY <1>4 DEF ReleaseIssueClaim, OwnerHolds, TypeOK
  <2>2. UNCHANGED <<bridge, reports>> /\ issueClaim' \in {"free", issueClaim}
    BY <1>4 DEF ReleaseIssueClaim
  <2>3. Quiet => ~(Traces(d) > 0)
    BY <1>4 DEF ReleaseIssueClaim, AllPaid, Paid, Underway, AllBacked, Traces,
                Quiet, TypeOK
  <2> QED
    BY <1>0, <2>1, <2>2, <2>3 DEF OwnerHolds
<1>5. CASE RedisError(d)
  <2>1. /\ step'[d] \in {"pending", "ended"}
        /\ \A e \in Directives \ {d} : step'[e] = step[e]
    BY <1>5 DEF RedisError, Thrown, TypeOK
  <2>2. UNCHANGED <<bridge, reports>>
    BY <1>5 DEF RedisError
  <2>3. UNCHANGED issueClaim \/ issueClaim = "free"
    BY <1>5 DEF RedisError, MayClaim
  <2> QED
    BY <1>0, <2>1, <2>2, <2>3, ConstantsAssumption DEF OwnerHolds
<1>6. CASE DirectiveClaimLapses(d)
  BY <1>6, ConstantsAssumption DEF DirectiveClaimLapses, Lapse, OwnerHolds, TypeOK
<1> QED
  BY <1>1, <1>2, <1>3, <1>4, <1>5, <1>6 DEF Directive

\* Requests leave traces of handlers that were sending.
LEMMA OwnerByRequest ==
  ASSUME TypeOK, OwnerHolds, Quiet' => Quiet /\ lapses' = 0,
         NEW h \in Handlers,
         Spawn(h) \/ PostUnanswered(h) \/ Label(h) \/ Degrade(h)
  PROVE  OwnerHolds'
<1> USE DEF redis, bridge, bounds, Goto, Sending, Handlers
<1>0. ASSUME UNCHANGED <<bridge, reports>>
      PROVE  \A e \in Directives : Traces(e)' = Traces(e)
  BY <1>0 DEF Traces
<1>1. CASE PostAccepted(h)
  <2>1. \A e \in Directives : e # h => Traces(e)' <= Traces(e)
    BY <1>1, BackedByRequest DEF PostAccepted, TypeOK
  <2>2. \A e \in Directives : Traces(e) \in Nat /\ Traces(e)' \in Nat
    BY <1>1, EnqueueEffect DEF PostAccepted, Traces, TypeOK
  <2> QED
    BY <1>1, <2>1, <2>2, OwnerByMove DEF PostAccepted, Posting, TypeOK
<1>2. CASE PostUnanswered(h)
  BY <1>2 DEF PostUnanswered, Lapse, Quiet, TypeOK, OwnerHolds
<1>3. CASE PostRefused(h)
  BY <1>0, <1>3, OwnerByMove DEF PostRefused, NoAnswer, SpawnFails, TypeOK
<1>4. CASE PostRejected(h)
  BY <1>0, <1>4, OwnerByMove DEF PostRejected, Posting, SpawnFails, TypeOK
<1>5. CASE Label(h)
  BY <1>0, <1>5, OwnerByMove DEF Label, TypeOK
<1>6. CASE Degrade(h)
  BY <1>0, <1>6, OwnerByMove DEF Degrade, TypeOK
<1> QED
  BY <1>1, <1>2, <1>3, <1>4, <1>5, <1>6 DEF Spawn

\* A report that is handled is the last trace of its job: the claim it deletes
\* was its own, and no other directive has left a trace.
LEMMA OwnerByReport ==
  ASSUME TypeOK, OwnerHolds, AllPaid, AllBacked, Quiet' => Quiet,
         NEW h \in Handlers, HandleReport(h)
  PROVE  OwnerHolds'
<1> SUFFICES ASSUME Quiet PROVE OwnerHolds'
  BY DEF OwnerHolds
<1> USE DEF redis, bridge, bounds, TypeOK
<1>1. h \in reports /\ sessions[h] \in Nat /\ posted[h] \in Nat /\ lapses = 0
  BY DEF HandleReport, Quiet
<1>2. Traces(h) >= 1 /\ Traces(h) <= posted[h]
  BY <1>1 DEF Traces, AllBacked
<1>3. h \in Directives
  BY <1>1, <1>2 DEF Traces, Quiet, Handlers
<1>4. posted[h] = 1 /\ ~Sending(h)
  BY <1>1, <1>2, <1>3
     DEF AllPaid, Paid, Underway, Sending, Traces
<1>5. issueClaim = h
  BY <1>2, <1>3 DEF OwnerHolds, Traces
<1>6. ~(Traces(h)' > 0) /\ ~Sending(h)'
  BY <1>1, <1>2, <1>4 DEF HandleReport, Traces, Sending
<1>7. \A e \in Directives : e # h => ~(Traces(e)' > 0) /\ ~Sending(e)'
  BY <1>3, <1>5 DEF HandleReport, Traces, Sending, OwnerHolds
<1> QED
  BY <1>6, <1>7 DEF OwnerHolds

LEMMA OwnerByRestart ==
  ASSUME TypeOK, OwnerHolds, Quiet' => Quiet, Restart
  PROVE  OwnerHolds'
<1>1. PICK S \in SUBSET {h \in Handlers : Posting(h)} : Enqueue(S)
  BY DEF Restart
<1>2. \A d \in Directives : d \notin S => Traces(d)' <= Traces(d)
  BY <1>1, BackedByRequest DEF Restart, bridge, Handlers
<1>3. \A d \in Directives : Traces(d) \in Nat /\ Traces(d)' \in Nat
  BY <1>1, EnqueueEffect DEF Restart, Traces, TypeOK, Handlers
<1>4. \A d \in Directives : ~Sending(d)'
  BY RestartEffect DEF Sending, InProgress, Handlers
<1>5. \A d \in Directives : d \in S => Sending(d)
  BY DEF Posting, Sending
<1> QED
  BY <1>2, <1>3, <1>4, <1>5, OwnerByMove DEF Restart, redis

LEMMA OwnerStep ==
  TypeOK /\ AllPaid /\ AllBacked /\ OwnerHolds /\ [Next]_vars => OwnerHolds'
<1> SUFFICES ASSUME TypeOK, AllPaid, AllBacked, OwnerHolds, [Next]_vars
             PROVE  OwnerHolds'
  OBVIOUS
<1>0. Quiet' => Quiet /\ lapses' = 0
  BY QuietBefore
<1> USE DEF redis, bridge, bounds
<1>1. ASSUME NEW d \in Directives,
             Directive(d) \/ RedisError(d) \/ DirectiveClaimLapses(d)
      PROVE  OwnerHolds'
  BY <1>0, <1>1, OwnerByDirective
<1>2. ASSUME UNCHANGED <<issueClaim, bridge, reports>>,
             \A d \in Directives : Sending(d)' => Sending(d)
      PROVE  OwnerHolds'
  BY <1>0, <1>2, OwnerByMove DEF Traces
<1>3. ASSUME NEW r \in Repairs, Repair(r) PROVE OwnerHolds'
  <2>1. r \in Handlers /\ r \notin Directives
    BY ConstantsAssumption DEF Handlers
  <2> QED
    BY <1>2, <1>3, <2>1
       DEF Repair, ReadAttempts, CountAttempt, Goto, Sending, TypeOK, Handlers
<1>4. ASSUME NEW h \in Handlers,
             Spawn(h) \/ PostUnanswered(h) \/ Label(h) \/ Degrade(h)
      PROVE  OwnerHolds'
  BY <1>0, <1>4, OwnerByRequest
<1>5. ASSUME NEW h \in Handlers, StartSession(h) \/ EndJob(h) \/ EndSession(h)
      PROVE  OwnerHolds'
  <2>1. \A d \in Directives : Traces(d)' > 0 => Traces(d) > 0
    BY <1>5 DEF StartSession, EndJob, EndSession, Report, Traces, TypeOK, Handlers
  <2>2. UNCHANGED <<issueClaim, step>>
    BY <1>5 DEF StartSession, EndJob, EndSession
  <2> QED
    BY <1>0, <2>1, <2>2, OwnerByMove DEF Sending
<1>6. ASSUME NEW h \in Handlers, EarlyReport(h) PROVE OwnerHolds'
  <2>1. lapses' = lapses + 1 /\ lapses \in Nat
    BY <1>6 DEF EarlyReport, Lapse, TypeOK
  <2> QED
    BY <1>0, <2>1 DEF OwnerHolds, Quiet
<1>7. ASSUME NEW h \in Handlers, HandleReport(h) PROVE OwnerHolds'
  BY <1>0, <1>7, OwnerByReport
<1>8. CASE UNCHANGED vars \/ WindowPasses \/ HoldLapses
  <2>1. UNCHANGED <<step, issueClaim, bridge, reports>>
    BY <1>8 DEF vars, WindowPasses, HoldLapses
  <2> QED
    BY <1>2, <2>1 DEF Sending
<1>9. CASE IssueClaimLapses
  <2>1. lapses' = lapses + 1 /\ lapses \in Nat
    BY <1>9 DEF IssueClaimLapses, Lapse, TypeOK
  <2> QED
    BY <1>0, <2>1 DEF OwnerHolds, Quiet
<1>10. CASE Restart
  BY <1>0, <1>10, OwnerByRestart
<1> QED
  BY <1>1, <1>3, <1>4, <1>5, <1>6, <1>7, <1>8, <1>9, <1>10 DEF Next

LEMMA OwnerInit == Init => OwnerHolds
BY DEF Init, OwnerHolds, Traces, Sending, Handlers

\* At most one directive of the issue is queued or in a session, for any number
\* of directives, restarts and Redis errors, as long as no answer was lost, no
\* claim ran out, no report was early and no repair was made for the issue.
THEOREM OneDirectiveAtWork == Spec => []IssueDelegatedOnce
<1>1. TypeOK /\ OwnerHolds => IssueDelegatedOnce
  <2> SUFFICES ASSUME TypeOK, OwnerHolds, Quiet,
                      NEW d \in Directives, Unfinished(d)
               PROVE  issueClaim = d
    BY DEF IssueDelegatedOnce, Quiet
  <2>1. Traces(d) > 0
    BY DEF Traces, Unfinished, TypeOK, Handlers
  <2> QED
    BY <2>1 DEF OwnerHolds
<1> QED
  BY <1>1, TypeInit, PaidInit, BackedInit, OwnerInit, TypeStep, PaidStep,
     BackedStep, OwnerStep, PTL DEF Spec

-----------------------------------------------------------------------------
(* The claim is given back                                                  *)

\* Nothing has gone wrong, or the claim's owner is on the way or to be reported.
LEMMA LeakByMove ==
  ASSUME ClaimNotLeaked, outages \in Nat, outages' \in {outages, outages + 1},
         \A d \in Directives :
           issueClaim' = d /\ outages' = 0
             => /\ issueClaim = d
                /\ \/ Sending(d) \/ Unfinished(d) \/ d \in reports
                   => Sending(d)' \/ Unfinished(d)' \/ d \in reports'
  PROVE  ClaimNotLeaked'
BY DEF ClaimNotLeaked, Sending

LEMMA LeakStep == TypeOK /\ ClaimNotLeaked /\ [Next]_vars => ClaimNotLeaked'
<1> SUFFICES ASSUME TypeOK, ClaimNotLeaked, [Next]_vars PROVE ClaimNotLeaked'
  OBVIOUS
<1> USE DEF redis, bridge, bounds, TypeOK, Fails, Goto, Handlers
<1>1. ASSUME NEW d \in Directives,
             ReadHold(d) \/ ClaimDirective(d) \/ DirectiveClaimLapses(d)
      PROVE  ClaimNotLeaked'
  BY <1>1 DEF ReadHold, ClaimDirective, DirectiveClaimLapses, ClaimNotLeaked,
              Unfinished
<1>2. ASSUME NEW d \in Directives, ClaimIssue(d) PROVE ClaimNotLeaked'
  BY <1>2, ConstantsAssumption
     DEF ClaimIssue, MayClaim, ClaimNotLeaked, Unfinished
<1>3. ASSUME NEW d \in Directives, ReleaseIssueClaim(d) \/ RedisError(d)
      PROVE  ClaimNotLeaked'
  BY <1>3, ConstantsAssumption
     DEF ReleaseIssueClaim, RedisError, ClaimNotLeaked, Unfinished
<1>4. ASSUME NEW r \in Repairs, Repair(r) PROVE ClaimNotLeaked'
  BY <1>4, ConstantsAssumption
     DEF Repair, ReadAttempts, CountAttempt, ClaimNotLeaked, Unfinished
<1>5. ASSUME NEW h \in Handlers, PostAccepted(h) PROVE ClaimNotLeaked'
  BY <1>5 DEF PostAccepted, Enqueue, ClaimNotLeaked, Unfinished
<1>6. ASSUME NEW h \in Handlers,
             PostRefused(h) \/ PostRejected(h) \/ Label(h) \/ Degrade(h)
      PROVE  ClaimNotLeaked'
  BY <1>6 DEF PostRefused, PostRejected, Label, Degrade, NoAnswer, SpawnFails,
              ClaimNotLeaked, Unfinished
<1>7. ASSUME NEW h \in Handlers, PostUnanswered(h) PROVE ClaimNotLeaked'
  BY <1>7 DEF PostUnanswered, NoAnswer, SpawnFails, Enqueue, Lapse,
              ClaimNotLeaked, Unfinished
<1>8. ASSUME NEW h \in Handlers,
             StartSession(h) \/ EndJob(h) \/ EndSession(h) \/ EarlyReport(h)
      PROVE  ClaimNotLeaked'
  BY <1>8 DEF StartSession, EndJob, EndSession, EarlyReport, Report,
              ClaimNotLeaked, Unfinished
<1>9. ASSUME NEW h \in Handlers, HandleReport(h) PROVE ClaimNotLeaked'
  BY <1>9, ConstantsAssumption DEF HandleReport, ClaimNotLeaked, Unfinished
<1>10. CASE UNCHANGED vars \/ WindowPasses \/ HoldLapses
  BY <1>10 DEF vars, WindowPasses, HoldLapses, ClaimNotLeaked, Unfinished
<1>11. CASE IssueClaimLapses
  BY <1>11, ConstantsAssumption DEF IssueClaimLapses, ClaimNotLeaked
<1>12. CASE Restart
  BY <1>12 DEF Restart, ClaimNotLeaked
<1> QED
  BY <1>1, <1>2, <1>3, <1>4, <1>5, <1>6, <1>7, <1>8, <1>9, <1>10, <1>11, <1>12
     DEF Next, Directive, Spawn

\* Without a core restart, a Redis error or a lost report, the claim of the
\* issue is never left with a directive whose spawn has failed and whose jobs
\* have all been reported, whatever answers were lost.
THEOREM ClaimGivenBack == Spec => []ClaimNotLeaked
<1>1. Init => ClaimNotLeaked
  BY ConstantsAssumption DEF Init, ClaimNotLeaked
<1> QED
  BY <1>1, TypeInit, TypeStep, LeakStep, PTL DEF Spec
=============================================================================
