---------------------------- MODULE AoDelegation ----------------------------
(***************************************************************************)
(* How the core delegates the work on one issue to the AO bridge:          *)
(* bootstrap/agents.ts (routeAoDirective and the github:ci_fail worker),   *)
(* bootstrap/event-claims.ts, bootstrap/ci-repair.ts, ao/bridge.ts,        *)
(* ao/callback.ts and the redelivery of services/event-stream.ts.          *)
(*                                                                         *)
(* A handler runs for every build directive of the Architect that names    *)
(* the issue and for every failing commit of the issue's pull request.  A  *)
(* step is what a handler does between two awaits.  The claims are keys in *)
(* Redis and outlive the process; the circuit breaker does not.  The       *)
(* bridge is seen through POST /spawn: it queues a job, at most one per    *)
(* fingerprint (the request), starts its session later and reports the     *)
(* end; AoSpawnQueue and AoSession are its inside.                         *)
(***************************************************************************)
EXTENDS Naturals, FiniteSets

CONSTANTS Directives,  \* architect:build_directive events of one issue
          Repairs,     \* failing commits of its pull request (github:ci_fail)
          Threshold,   \* CIRCUIT_THRESHOLD
          MaxRepairs,  \* MAX_CI_REPAIR_ATTEMPTS
          MaxLapses,   \* bound: lost replies, lapsed claims, early reports
          MaxOutages   \* bound: core restarts, Redis errors, lost reports

ASSUME ConstantsAssumption ==
  /\ Directives \cap Repairs = {}
  /\ Threshold \in Nat \ {0} /\ MaxRepairs \in Nat
  /\ MaxLapses \in Nat /\ MaxOutages \in Nat
  /\ "free" \notin Directives

Handlers == Directives \cup Repairs

VARIABLES
  mode,       \* how directives arrive: "stream" or "pubsub"
  step,       \* per handler: see Steps
  claims,     \* the directives whose claim key exists
  issueClaim, \* the issue claim: "free" or, the code does not know, its owner
  hold,       \* the degraded hold of the repository
  attempts,   \* repairs counted for the pull request, earlier ones included
  circuit,    \* AoBridge: consecutive failures, and when openUntil is
  queued,     \* AO: handlers with a queued job, which holds its fingerprint
  sessions,   \* AO: running sessions per handler
  posted,     \* jobs AO has made of a handler's requests
  reports,    \* handlers of whose jobs a report is being handled
  lapses, outages

redis == <<claims, issueClaim, hold, attempts>>
bridge == <<queued, sessions, posted>>
bounds == <<lapses, outages>>
vars == <<mode, step, redis, circuit, bridge, reports, bounds>>

\* post1, post2: the first request is out, and its retry; free: the spawn has
\* failed; pending: the handler threw, the stream entry was not acknowledged.
InProgress == {"claim", "issue", "incr", "post1", "post2", "label",
               "free", "degrade"}
Steps == InProgress \cup {"new", "pending", "ended"}

Closed == [failures |-> 0, until |-> "zero"]

Init ==
  /\ mode \in {"stream", "pubsub"}
  /\ step = [h \in Handlers |-> "new"]
  /\ claims = {} /\ issueClaim = "free" /\ hold = FALSE
  /\ attempts \in 0 .. MaxRepairs
  /\ circuit = Closed
  /\ queued = {} /\ reports = {}
  /\ sessions = [h \in Handlers |-> 0] /\ posted = [h \in Handlers |-> 0]
  /\ lapses = 0 /\ outages = 0

Lapse == lapses < MaxLapses /\ lapses' = lapses + 1
Fails == outages < MaxOutages /\ outages' = outages + 1

Goto(h, next) == step' = [step EXCEPT ![h] = next]

\* A handler that throws: the stream entry stays pending, the pub/sub event
\* goes to a dead-letter stream that nothing reads.
Thrown(h) == IF mode = "stream" THEN "pending" ELSE "ended"

-----------------------------------------------------------------------------
(* The circuit breaker of the repository                                    *)

IsOpen(c) == c.failures = Threshold /\ c.until = "ahead"

\* Mutant: the window is forgotten, the failures are not.
CheckedHalf(c) == IF c.until = "past" THEN [c EXCEPT !.until = "zero"] ELSE c

\* isCircuitOpen resets a circuit whose window has passed.
Checked(c) == IF c.until = "past" THEN Closed ELSE c

\* recordFailure; failures above the threshold need not be told apart.
Failed(c) ==
  LET n == IF c.failures < Threshold THEN c.failures + 1 ELSE Threshold
  IN  [failures |-> n, until |-> IF n = Threshold THEN "ahead" ELSE c.until]

WindowPasses ==
  /\ circuit.until = "ahead"
  /\ circuit' = [circuit EXCEPT !.until = "past"]
  /\ UNCHANGED <<mode, step, redis, bridge, reports, bounds>>

-----------------------------------------------------------------------------
(* routeAoDirective                                                         *)

\* One read loop handles the entries of the stream one after the other; bus
\* messages are handled as they come.  With the hold on, the directive is
\* dropped; a hold that cannot be read is taken to be off.
ReadHold(d) ==
  /\ step[d] = "new"
  /\ mode = "stream" => \A e \in Directives : step[e] \notin InProgress
  /\ \/ ~hold /\ Goto(d, "claim") /\ UNCHANGED outages
     \/ hold /\ Goto(d, "ended") /\ UNCHANGED outages
     \/ hold /\ Fails /\ Goto(d, "claim")
  /\ UNCHANGED <<mode, redis, circuit, bridge, reports, lapses>>

\* Mutant: an entry that the stream delivers again is handled again.
ClaimDirectiveAgain(d) ==
  /\ step[d] = "claim"
  /\ claims' = claims \cup {d}
  /\ circuit' = Checked(circuit)
  /\ Goto(d, IF IsOpen(circuit) THEN "degrade" ELSE "issue")
  /\ UNCHANGED <<mode, issueClaim, hold, attempts, bridge, reports, bounds>>

\* The claim of the directive itself; the circuit is looked at next.
ClaimDirective(d) ==
  /\ step[d] = "claim"
  /\ \/ /\ d \notin claims
        /\ claims' = claims \cup {d}
        /\ circuit' = Checked(circuit)
        /\ Goto(d, IF IsOpen(circuit) THEN "degrade" ELSE "issue")
     \/ d \in claims /\ Goto(d, Thrown(d)) /\ UNCHANGED <<claims, circuit>>
  /\ UNCHANGED <<mode, issueClaim, hold, attempts, bridge, reports, bounds>>

\* Mutant: entries that come one by one need no claim.
MayClaimTwice == issueClaim = "free" \/ mode = "stream"
MayClaim == issueClaim = "free"

\* The claim of the issue; AoBridge.spawn looks at the circuit once more and
\* sends its request.
ClaimIssue(d) ==
  /\ step[d] = "issue"
  /\ \/ /\ MayClaim
        /\ issueClaim' = d
        /\ circuit' = Checked(circuit)
        /\ Goto(d, IF IsOpen(circuit) THEN "free" ELSE "post1")
     \/ /\ ~MayClaim
        /\ Goto(d, "ended") /\ UNCHANGED <<issueClaim, circuit>>
  /\ UNCHANGED <<mode, claims, hold, attempts, bridge, reports, bounds>>

\* Mutant: a spawn that failed leaves the claim to run out.
ReleaseIssueClaimNever(d) ==
  /\ step[d] = "free"
  /\ Goto(d, "degrade")
  /\ UNCHANGED <<mode, redis, circuit, bridge, reports, bounds>>

\* The spawn has failed: the issue claim is deleted, whoever has it.
ReleaseIssueClaim(d) ==
  /\ step[d] = "free"
  /\ Goto(d, "degrade")
  /\ \/ issueClaim' = "free" /\ UNCHANGED outages
     \/ Fails /\ UNCHANGED issueClaim
  /\ UNCHANGED <<mode, claims, hold, attempts, circuit, bridge, reports,
                 lapses>>

\* An error of Redis while a claim is set, which may have been set all the
\* same, or while the failure is announced.
RedisError(d) ==
  /\ Fails
  /\ \/ /\ step[d] = "claim"
        /\ claims' \in {claims, claims \cup {d}} /\ UNCHANGED issueClaim
     \/ /\ step[d] = "issue"
        /\ issueClaim' \in {issueClaim, IF MayClaim THEN d ELSE issueClaim}
        /\ UNCHANGED claims
     \/ step[d] = "degrade" /\ UNCHANGED <<claims, issueClaim>>
  /\ Goto(d, Thrown(d))
  /\ UNCHANGED <<mode, hold, attempts, circuit, bridge, reports, lapses>>

Directive(d) == \/ ReadHold(d) \/ ClaimDirective(d) \/ ClaimIssue(d)
                \/ ReleaseIssueClaim(d)

-----------------------------------------------------------------------------
(* The github:ci_fail worker.  Repairs are the commits, one handler each: a *)
(* second event of a commit finds its claim and ends.                       *)

\* The claim of the commit and the list of pull requests, then
\* handleCiRepairCapGate reads the counter; an error there reads as zero.
ReadAttempts(r) ==
  /\ step[r] = "new"
  /\ \/ Goto(r, "ended") /\ UNCHANGED outages
     \/ attempts < MaxRepairs /\ Goto(r, "incr") /\ UNCHANGED outages
     \/ attempts >= MaxRepairs /\ Fails /\ Goto(r, "incr")
  /\ UNCHANGED <<mode, redis, circuit, bridge, reports, lapses>>

\* INCR; the circuit is looked at, and the request is sent.
CountAttempt(r) ==
  /\ step[r] = "incr"
  /\ \/ attempts' = attempts + 1 /\ UNCHANGED outages
     \/ Fails /\ UNCHANGED attempts
  /\ circuit' = Checked(circuit)
  /\ Goto(r, IF IsOpen(circuit) THEN "degrade" ELSE "post1")
  /\ UNCHANGED <<mode, claims, issueClaim, hold, bridge, reports, lapses>>

Repair(r) == ReadAttempts(r) \/ CountAttempt(r)

-----------------------------------------------------------------------------
(* AoBridge.spawn: a request and, after a refusal or without an answer, one *)
(* retry, sent without looking at the circuit again                         *)

Posting(h) == step[h] \in {"post1", "post2"}

\* The bridge makes a job of the request unless its fingerprint is queued.
Enqueue(S) ==
  /\ queued' = queued \cup S
  /\ posted' = [h \in Handlers |->
                  IF h \in S \ queued THEN posted[h] + 1 ELSE posted[h]]

SpawnFails(h) == Goto(h, IF h \in Directives THEN "free" ELSE "degrade")

PostAccepted(h) ==
  /\ Posting(h)
  /\ Enqueue({h})
  /\ circuit' = Closed
  /\ Goto(h, "label")
  /\ UNCHANGED <<mode, redis, sessions, reports, bounds>>

NoAnswer(h) ==
  \/ step[h] = "post1" /\ Goto(h, "post2") /\ UNCHANGED circuit
  \/ step[h] = "post2" /\ SpawnFails(h) /\ circuit' = Failed(circuit)

PostRefused(h) ==
  /\ NoAnswer(h)
  /\ UNCHANGED <<mode, redis, bridge, reports, bounds>>

PostUnanswered(h) ==
  /\ NoAnswer(h) /\ Enqueue({h}) /\ Lapse
  /\ UNCHANGED <<mode, redis, sessions, reports, outages>>

\* 4xx, a full queue included: no retry, and nothing for the circuit.
PostRejected(h) ==
  /\ Posting(h)
  /\ SpawnFails(h)
  /\ UNCHANGED <<mode, redis, circuit, bridge, reports, bounds>>

\* The in-progress label is added, the handler returns.
Label(h) ==
  /\ step[h] = "label"
  /\ Goto(h, "ended")
  /\ UNCHANGED <<mode, redis, circuit, bridge, reports, bounds>>

\* markAoDegraded, whose errors are swallowed, and emitAoSpawnFailure.
Degrade(h) ==
  /\ step[h] = "degrade"
  /\ hold' \in {TRUE, hold}
  /\ Goto(h, "ended")
  /\ UNCHANGED <<mode, claims, issueClaim, attempts, circuit, bridge, reports,
                 bounds>>

Spawn(h) == PostAccepted(h) \/ PostRefused(h) \/ PostRejected(h)

-----------------------------------------------------------------------------
(* Jobs and sessions of the bridge, and their reports                       *)

StartSession(h) ==
  /\ h \in queued
  /\ queued' = queued \ {h}
  /\ sessions' = [sessions EXCEPT ![h] = @ + 1]
  /\ UNCHANGED <<mode, step, redis, circuit, posted, reports, bounds>>

\* The callback reaches the core, or does not.
Report(h) == \/ reports' = reports \cup {h} /\ UNCHANGED outages
             \/ Fails /\ UNCHANGED reports

\* Mutant: a job that starts no session reports nothing.
EndJobSilent(h) ==
  /\ h \in queued
  /\ queued' = queued \ {h}
  /\ UNCHANGED <<mode, step, redis, circuit, sessions, posted, reports, bounds>>

\* The job fails, or skips an issue whose work is merged.
EndJob(h) ==
  /\ h \in queued
  /\ queued' = queued \ {h}
  /\ Report(h)
  /\ UNCHANGED <<mode, step, redis, circuit, sessions, posted, lapses>>

EndSession(h) ==
  /\ sessions[h] > 0
  /\ sessions' = [sessions EXCEPT ![h] = @ - 1]
  /\ Report(h)
  /\ UNCHANGED <<mode, step, redis, circuit, queued, posted, lapses>>

\* ci.failed, or session.completed of the fallback timer: it goes on.
EarlyReport(h) ==
  /\ sessions[h] > 0 /\ Lapse
  /\ reports' = reports \cup {h}
  /\ UNCHANGED <<mode, step, redis, circuit, bridge, outages>>

\* ao:task_completed, ao:task_failed: the claim of the issue that the report
\* names is deleted; only a failure looks at the circuit.
HandleReport(h) ==
  /\ h \in reports
  /\ reports' = reports \ {h}
  /\ \/ issueClaim' = "free" /\ UNCHANGED outages
     \/ Fails /\ UNCHANGED issueClaim
  /\ circuit' \in {circuit, Checked(circuit)}
  /\ UNCHANGED <<mode, step, claims, hold, attempts, bridge, lapses>>

-----------------------------------------------------------------------------
(* Keys that run out, and a restart of the core                             *)

HoldLapses ==
  /\ hold /\ hold' = FALSE
  /\ UNCHANGED <<mode, step, claims, issueClaim, attempts, circuit, bridge,
                 reports, bounds>>

DirectiveClaimLapses(d) ==
  /\ d \in claims /\ step[d] \notin InProgress /\ Lapse
  /\ claims' = claims \ {d}
  /\ UNCHANGED <<mode, step, issueClaim, hold, attempts, circuit, bridge,
                 reports, outages>>

IssueClaimLapses ==
  /\ issueClaim # "free" /\ Lapse
  /\ issueClaim' = "free"
  /\ UNCHANGED <<mode, step, claims, hold, attempts, circuit, bridge, reports,
                 outages>>

\* Requests that are out may still reach the bridge.  A stream entry that was
\* not acknowledged is delivered again.
Restart ==
  /\ Fails
  /\ \E S \in SUBSET {h \in Handlers : Posting(h)} : Enqueue(S)
  /\ step' = [h \in Handlers |->
       CASE step[h] \notin InProgress \cup {"pending"} -> step[h]
         [] mode = "stream" /\ h \in Directives -> "new"
         [] OTHER -> "ended"]
  /\ circuit' = Closed /\ reports' = {}
  /\ UNCHANGED <<mode, redis, sessions, lapses>>

Next ==
  \/ \E d \in Directives :
       Directive(d) \/ RedisError(d) \/ DirectiveClaimLapses(d)
  \/ \E r \in Repairs : Repair(r)
  \/ \E h \in Handlers :
       \/ Spawn(h) \/ PostUnanswered(h) \/ Label(h) \/ Degrade(h)
       \/ StartSession(h) \/ EndJob(h) \/ EndSession(h) \/ EarlyReport(h)
       \/ HandleReport(h)
  \/ WindowPasses \/ HoldLapses \/ IssueClaimLapses \/ Restart

\* Handlers go on, requests time out, and the bridge ends and reports every
\* session sooner or later (AoSession: SessionsReported).
Fairness ==
  /\ \A d \in Directives : WF_vars(Directive(d))
  /\ \A h \in Handlers :
       /\ WF_vars(Spawn(h)) /\ WF_vars(Label(h)) /\ WF_vars(Degrade(h))
       /\ WF_vars(StartSession(h) \/ EndJob(h)) /\ WF_vars(EndSession(h))
       /\ WF_vars(HandleReport(h))

Spec == Init /\ [][Next]_vars /\ Fairness

-----------------------------------------------------------------------------
\* The variables have their types, and the circuit counts below its threshold
\* or has a window, never both.
TypeOK ==
  /\ mode \in {"stream", "pubsub"}
  /\ step \in [Handlers -> Steps]
  /\ claims \subseteq Directives /\ issueClaim \in Directives \cup {"free"}
  /\ hold \in BOOLEAN /\ attempts \in Nat
  /\ circuit \in [failures : 0 .. Threshold, until : {"zero", "ahead", "past"}]
  /\ circuit.failures = Threshold <=> circuit.until # "zero"
  /\ queued \subseteq Handlers /\ reports \subseteq Handlers
  /\ sessions \in [Handlers -> Nat] /\ posted \in [Handlers -> Nat]
  /\ lapses \in 0 .. MaxLapses /\ outages \in 0 .. MaxOutages

Unfinished(h) == h \in queued \/ sessions[h] > 0

\* A directive becomes one job, also when a restart delivers it again after its
\* request was sent: every job more takes an answer that was lost, or a claim
\* that ran out.
OneJobPerDirective == \A d \in Directives : posted[d] <= 1 + lapses

\* At most one directive of the issue is being worked on, whatever restarts,
\* refusals, lost reports and errors of Redis: as long as no answer was lost,
\* no report was early and no repair for the issue reported.
IssueDelegatedOnce ==
  lapses = 0 /\ (\A r \in Repairs : posted[r] = 0)
    => \A d, e \in Directives : Unfinished(d) /\ Unfinished(e) => d = e

\* No claim of the issue stays behind: its owner's handler is on the way, or a
\* job of the owner is to be reported.
ClaimNotLeaked ==
  \A d \in Directives :
    issueClaim = d /\ outages = 0
      => \/ step[d] \in {"post1", "post2", "free"}
         \/ Unfinished(d) \/ d \in reports

\* The issue is freed for the next directive without waiting for its claim to
\* run out.
IssueReleased ==
  \A d \in Directives :
    issueClaim = d ~> issueClaim # d \/ outages > 0 \/ lapses > 0
=============================================================================
