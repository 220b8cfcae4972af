------------------------------ MODULE AoSession ------------------------------
(***************************************************************************)
(* Coding sessions of the AO bridge, from the spawn job that starts one to *)
(* the harvest that commits, pushes and reports its work:                  *)
(* ao/ao-bridge-server.mjs with the session locks of ao/queue-store.mjs.   *)
(*                                                                         *)
(* Several parts of one process work on a session without a common lock:   *)
(* its monitor (a poll loop, a fallback timer and a deadline), the sweeper *)
(* of orphaned sessions, the resumption after a restart, and the cleanup   *)
(* that another spawn for the same issue runs first.  A step is what the   *)
(* code does between two awaits whose order matters.  The session itself   *)
(* (an AO process with a git worktree) is not the bridge's to control.     *)
(*                                                                         *)
(* Every session belongs to one issue, so every cleanup is about all of    *)
(* them.  The monitor-state files and the worktrees are on disk, the locks *)
(* in Redis: all three outlive the process.                                *)
(***************************************************************************)
EXTENDS Naturals, FiniteSets

CONSTANTS Sessions,       \* spawn jobs of one issue, each with its session id
          MaxConcurrent,  \* MAX_CONCURRENT
          MaxCrashes,     \* bound: ends of the bridge process explored
          MaxFailures     \* bound: failed commands and listings explored

ASSUME ConstantsAssumption ==
  /\ MaxConcurrent \in Nat \ {0}
  /\ MaxCrashes \in Nat /\ MaxFailures \in Nat

VARIABLES
  life,      \* AO's process: "none", "starting" (not listed yet), "running",
             \* "exited" (outcome written, still listed), "gone"
  work,      \* "none", "edited", "committed", "pushed", "pr"
  worktrees, \* the sessions whose worktree exists
  locks,     \* the sessions locked in Redis
  missCount, \* monitor-state file: Untracked, or its _orphanMissCount
  reports,   \* the terminal callbacks posted for a job or its session
  bridge,    \* "down", "resuming" (resumeSessionMonitors awaits the list), "up"
  job,       \* executeSpawnJob: "new", "removing", "deleting", "spawning",
             \* "done"
  shield,    \* per job: activeSessionIds of cleanupWorktreesForIssue
  monitor,   \* monitorSpawnedSession: "none", "locking", "polling",
             \* "harvesting", "overdue" (past its deadline), "resetting",
             \* "ending"
  harvest,   \* runTrackedHarvest: where it is
  resuming,  \* resumeSessionMonitors: the sessions read from disk
  sweep,     \* sweepOrphanedSessionHarvests: the states it has read
  omitted,   \* the live sessions that the sweeper's last listing left out
  crashes, failures

ao == <<life, work, worktrees, omitted>>
store == <<locks, missCount, reports>>
process == <<bridge, job, shield, monitor, harvest, resuming, sweep>>
bounds == <<crashes, failures>>
vars == <<ao, store, process, bounds>>

\* Not a miss count: the session has no state file.
Untracked == 3
\* The sweeper is not running.
NotSweeping == [on |-> FALSE, seen |-> [s \in Sessions |-> Untracked]]
\* saw: the work that `git status` showed; lost: a tolerated push failed.
Idle == [at |-> "idle", by |-> "none", saw |-> "none", lost |-> FALSE]

Steps == {"recover", "status", "commit", "push", "ensurePr", "resolve",
          "completed", "failed", "posted", "error"}
Triggers == {"timer", "poll", "deadline", "sweeper", "resume"}

Tracked == {s \in Sessions : missCount[s] # Untracked}
Listed == {s \in Sessions : life[s] \in {"running", "exited"}}
Unpushed == {"edited", "committed"}

Init ==
  /\ life = [s \in Sessions |-> "none"]
  /\ work = [s \in Sessions |-> "none"]
  /\ worktrees = {} /\ locks = {}
  /\ missCount = [s \in Sessions |-> Untracked]
  /\ reports = [s \in Sessions |-> {}]
  /\ bridge = "up"
  /\ job = [s \in Sessions |-> "new"]
  /\ shield = [s \in Sessions |-> {}]
  /\ monitor = [s \in Sessions |-> "none"]
  /\ harvest = [s \in Sessions |-> Idle]
  /\ resuming = {}
  /\ sweep = NotSweeping /\ omitted = {}
  /\ crashes = 0 /\ failures = 0

\* A command, a listing or a request that fails, within the bound.
Fails == failures < MaxFailures /\ failures' = failures + 1

-----------------------------------------------------------------------------
(* Harvests.  activeHarvests holds the sessions whose harvest is not idle;  *)
(* a second trigger returns at once.  The worktree is looked for in the     *)
(* step that starts the harvest.                                            *)

\* runTrackedHarvest on the sessions of S; with[s]: who triggers it.
Harvesting(S, by) ==
  [s \in Sessions |->
     IF s \in S /\ harvest[s].at = "idle"
     THEN [Idle EXCEPT !.at = IF s \in worktrees THEN "status" ELSE "recover",
                       !.by = by]
     ELSE harvest[s]]

Goto(s, step) == harvest' = [harvest EXCEPT ![s].at = step]

\* A harvest that returns or throws lets the monitor that awaits it go on.
Return(s) ==
  /\ harvest' = [harvest EXCEPT ![s] = Idle]
  /\ monitor' = [monitor EXCEPT ![s] =
       CASE harvest[s].by = "poll" /\ @ = "harvesting" -> "ending"
         [] harvest[s].by = "deadline" /\ @ = "overdue" -> "resetting"
         [] OTHER -> @]

\* recoverPrFromRemote: a branch that names the issue has a pull request,
\* which may be that of another session of the issue.
RecoverPr(s) ==
  /\ harvest[s].at = "recover"
  /\ \/ /\ \E t \in Sessions : work[t] = "pr"
        /\ Goto(s, "completed") /\ UNCHANGED failures
     \/ /\ \A t \in Sessions : work[t] # "pr"
        /\ Goto(s, "failed") /\ UNCHANGED failures
     \/ Fails /\ Goto(s, "failed")
  /\ UNCHANGED <<ao, store, bridge, job, shield, monitor, resuming, sweep,
                 crashes>>

\* Mutant: the state file is deleted when the harvest begins.
ReadStatusUntracked(s) ==
  /\ harvest[s].at = "status" /\ s \in worktrees
  /\ harvest' = [harvest EXCEPT ![s].saw = work[s],
                   ![s].at = IF work[s] = "edited" THEN "commit" ELSE "resolve"]
  /\ missCount' = [missCount EXCEPT ![s] = Untracked]
  /\ UNCHANGED <<ao, locks, reports, bridge, job, shield, monitor, resuming,
                 sweep, bounds>>

\* `git status`: a failure, as in a worktree removed meanwhile, counts as clean.
ReadStatus(s) ==
  /\ harvest[s].at = "status"
  /\ \/ /\ s \in worktrees
        /\ harvest' = [harvest EXCEPT ![s].saw = work[s],
                         ![s].at = IF work[s] = "edited" THEN "commit"
                                                         ELSE "resolve"]
        /\ UNCHANGED failures
     \/ s \notin worktrees /\ Goto(s, "resolve") /\ UNCHANGED failures
     \/ Fails /\ Goto(s, "resolve")
  /\ UNCHANGED <<ao, store, bridge, job, shield, monitor, resuming, sweep,
                 crashes>>

\* One command of the dirty path in the worktree; its failure is thrown.
DirtyStep(s, from, to, done) ==
  /\ harvest[s].at = from
  /\ \/ /\ s \in worktrees
        /\ work' = [work EXCEPT ![s] = done[@]]
        /\ Goto(s, to) /\ UNCHANGED failures
     \/ s \notin worktrees /\ Goto(s, "error") /\ UNCHANGED <<work, failures>>
     \/ Fails /\ Goto(s, "error") /\ UNCHANGED work
  /\ UNCHANGED <<life, worktrees, omitted, store, bridge, job, shield, monitor,
                 resuming, sweep, crashes>>

Committed(w) == IF w = "edited" THEN "committed" ELSE w
\* Mutant: the branch is named, not pushed.
PushedLater(w) == w
Pushed(w) == IF w = "committed" THEN "pushed" ELSE w
WithPr(w) == IF w = "pushed" THEN "pr" ELSE w

WorkStates == {"none", "edited", "committed", "pushed", "pr"}
GitCommit(s) ==
  DirtyStep(s, "commit", "push", [w \in WorkStates |-> Committed(w)])
GitPush(s) ==
  DirtyStep(s, "push", "ensurePr", [w \in WorkStates |-> Pushed(w)])
EnsurePr(s) ==
  DirtyStep(s, "ensurePr", "completed", [w \in WorkStates |-> WithPr(w)])

\* The clean path tolerates a failed push and a failed pull request, and ends
\* in session.failed when the session hit its turn limit or when a refused pull
\* request cannot be blocked.
ResolvePr(s) ==
  /\ harvest[s].at = "resolve"
  /\ \E outcome \in {"completed", "failed"} :
       \/ /\ s \in worktrees
          /\ work' = [work EXCEPT ![s] = WithPr(Pushed(@))]
          /\ Goto(s, outcome) /\ UNCHANGED failures
       \/ s \in worktrees /\ Fails /\ Goto(s, outcome)
          /\ work' = [work EXCEPT ![s] = Pushed(@)]
       \/ /\ IF s \in worktrees THEN Fails ELSE UNCHANGED failures
          /\ harvest' = [harvest EXCEPT ![s].at = outcome, ![s].lost = TRUE]
          /\ UNCHANGED work
  /\ UNCHANGED <<life, worktrees, omitted, store, bridge, job, shield, monitor,
                 resuming, sweep, crashes>>

\* postAoCallback: it never throws, and nobody learns that no URL answered.
PostOutcome(s) ==
  /\ harvest[s].at \in {"completed", "failed"}
  /\ reports' = [reports EXCEPT ![s] = @ \cup {harvest[s].at}]
  /\ Goto(s, "posted")
  /\ UNCHANGED <<ao, locks, missCount, bridge, job, shield, monitor, resuming,
                 sweep, bounds>>

\* The harvest has returned: deleteSessionMonitorState.
FinishHarvest(s) ==
  /\ harvest[s].at = "posted"
  /\ missCount' = [missCount EXCEPT ![s] = Untracked]
  /\ Return(s)
  /\ UNCHANGED <<ao, locks, reports, bridge, job, shield, resuming, sweep,
                 bounds>>

\* The harvest has thrown: the state file stays, for the sweeper.
HarvestError(s) ==
  /\ harvest[s].at = "error"
  /\ reports' = [reports EXCEPT ![s] = @ \cup {"failed"}]
  /\ Return(s)
  /\ UNCHANGED <<ao, locks, missCount, bridge, job, shield, resuming, sweep,
                 bounds>>

Harvest(s) == \/ RecoverPr(s) \/ ReadStatus(s)
              \/ GitCommit(s) \/ GitPush(s) \/ EnsurePr(s) \/ ResolvePr(s)
              \/ PostOutcome(s) \/ FinishHarvest(s) \/ HarvestError(s)

-----------------------------------------------------------------------------
(* executeSpawnJob and cleanupWorktreesForIssue                             *)

SpawnStep(s, from, to) == job[s] = from /\ job' = [job EXCEPT ![s] = to]

\* listActiveSessionLocks and the monitor-state files, read once.
CollectActiveSessions(s) ==
  /\ bridge # "down"
  /\ Cardinality({t \in Sessions : job[t] \notin {"new", "done"}}) < MaxConcurrent
  /\ SpawnStep(s, "new", "removing")
  /\ \/ shield' = [shield EXCEPT ![s] = locks \cup Tracked] /\ UNCHANGED failures
     \/ Fails /\ shield' = [shield EXCEPT ![s] = Tracked]
  /\ UNCHANGED <<ao, store, bridge, monitor, harvest, resuming, sweep, crashes>>

\* The issue has a merged pull request already: no session.
SkipMerged(s) ==
  /\ bridge # "down"
  /\ SpawnStep(s, "new", "done")
  /\ reports' = [reports EXCEPT ![s] = {"completed"}]
  /\ UNCHANGED <<ao, locks, missCount, bridge, shield, monitor, harvest,
                 resuming, sweep, bounds>>

\* Step 2 of the cleanup spares the worktrees of the sessions collected.
RemoveWorktrees(s) ==
  /\ SpawnStep(s, "removing", "deleting")
  /\ worktrees' = worktrees \cap shield[s]
  /\ UNCHANGED <<life, work, omitted, store, bridge, shield, monitor, harvest,
                 resuming, sweep, bounds>>

\* Step 3: `git branch -D` refuses a branch that a worktree has checked out;
\* the worktree is then removed, whoever it belongs to.
DeleteBranches(s) ==
  /\ SpawnStep(s, "deleting", "spawning")
  /\ worktrees' = {}
  /\ shield' = [shield EXCEPT ![s] = {}]
  /\ UNCHANGED <<life, work, omitted, store, bridge, monitor, harvest, resuming,
                 sweep, bounds>>

\* runAoUntilSessionId has read the session id.
StartMonitor(s) ==
  /\ life[s] # "none"
  /\ SpawnStep(s, "spawning", "done")
  /\ missCount' = [missCount EXCEPT ![s] = 0]
  /\ monitor' = [monitor EXCEPT ![s] = "locking"]
  /\ UNCHANGED <<ao, locks, reports, bridge, shield, harvest, resuming, sweep,
                 bounds>>

\* A cleanup or spawn error, or no session id in time.
SpawnError(s) ==
  /\ job[s] \notin {"new", "done"} /\ Fails
  /\ job' = [job EXCEPT ![s] = "done"]
  /\ shield' = [shield EXCEPT ![s] = {}]
  /\ reports' = [reports EXCEPT ![s] = {"failed"}]
  /\ UNCHANGED <<ao, locks, missCount, bridge, monitor, harvest, resuming, sweep,
                 crashes>>

SpawnJob(s) == \/ CollectActiveSessions(s) \/ RemoveWorktrees(s)
               \/ DeleteBranches(s) \/ StartMonitor(s)

-----------------------------------------------------------------------------
(* monitorSpawnedSession                                                    *)

\* The lock is taken if it is free; a lock already held changes nothing.
AcquireSessionLock(s) ==
  /\ monitor[s] = "locking"
  /\ locks' = locks \cup {s}
  /\ monitor' = [monitor EXCEPT ![s] = "polling"]
  /\ UNCHANGED <<ao, missCount, reports, bridge, job, shield, harvest, resuming,
                 sweep, bounds>>

\* Mutant: the monitor waits for whatever harvest is running.
TriggerWaits(s, by, wait, next) ==
  /\ monitor[s] = "polling"
  /\ harvest' = Harvesting({s}, by)
  /\ monitor' = [monitor EXCEPT ![s] = wait]
  /\ UNCHANGED <<ao, store, bridge, job, shield, resuming, sweep, bounds>>

\* triggerHarvest: the monitor goes to `next` when it does not wait for a
\* harvest of its own, and to `wait` when it does.
Trigger(s, by, wait, next) ==
  /\ monitor[s] = "polling"
  /\ harvest' = Harvesting({s}, by)
  /\ monitor' = [monitor EXCEPT ![s] = IF harvest[s].at = "idle" THEN wait
                                                                 ELSE next]
  /\ UNCHANGED <<ao, store, bridge, job, shield, resuming, sweep, bounds>>

\* The fallback timer does not await its harvest: the poll loop sees
\* `finished` and ends.
FallbackTimer(s) == Trigger(s, "timer", "ending", "ending")

\* The session is not listed, or has written its outcome.  The initial delay
\* lets it register before the first poll.
PollTick(s) ==
  life[s] \in {"exited", "gone"} /\ Trigger(s, "poll", "harvesting", "ending")

\* Past SESSION_POLL_TIMEOUT_MS, if that is configured below the fallback.
Deadline(s) == Trigger(s, "deadline", "overdue", "resetting")

\* cleanupSessionWorktree: reset --hard, clean.
ResetWorktree(s) ==
  /\ monitor[s] = "resetting"
  /\ work' = [work EXCEPT ![s] =
                IF s \in worktrees /\ @ = "edited" THEN "none" ELSE @]
  /\ monitor' = [monitor EXCEPT ![s] = "ending"]
  /\ UNCHANGED <<life, worktrees, omitted, store, bridge, job, shield, harvest,
                 resuming, sweep, bounds>>

ReleaseSessionLock(s) ==
  /\ monitor[s] = "ending"
  /\ locks' = locks \ {s}
  /\ monitor' = [monitor EXCEPT ![s] = "none"]
  /\ UNCHANGED <<ao, missCount, reports, bridge, job, shield, harvest, resuming,
                 sweep, bounds>>

\* A lock that no monitor renews any more runs out.
LockExpires(s) ==
  /\ s \in locks /\ monitor[s] \in {"none", "locking"}
  /\ locks' = locks \ {s}
  /\ UNCHANGED <<ao, missCount, reports, process, bounds>>

Monitor(s) == \/ AcquireSessionLock(s) \/ FallbackTimer(s) \/ PollTick(s)
              \/ Deadline(s) \/ ResetWorktree(s) \/ ReleaseSessionLock(s)

-----------------------------------------------------------------------------
(* sweepOrphanedSessionHarvests.  The interval is longer than a listing may *)
(* take: one sweep at a time, none before the resumption has its list.      *)

StartSweep ==
  /\ bridge = "up" /\ ~sweep.on /\ Tracked # {}
  /\ sweep' = [on |-> TRUE, seen |-> missCount]
  /\ UNCHANGED <<ao, store, bridge, job, shield, monitor, harvest, resuming,
                 bounds>>

\* Mutants: the count is not kept; the first miss is enough.
MissedOnce(s) == 1
MissedAtOnce(s) == 2
Missed(s) == IF sweep.seen[s] < 2 THEN sweep.seen[s] + 1 ELSE 2

\* The states read at the start are counted and written back, also those whose
\* files a harvest has deleted since.  A listing may leave out a live session
\* (one that AO is still registering, say), but no two in a row do.
FinishSweep ==
  LET known == {s \in Sessions : sweep.seen[s] # Untracked}
  IN
  /\ sweep.on
  /\ sweep' = NotSweeping
  /\ \/ \E shown \in SUBSET (known \cap Listed) :
          LET missed == known \ shown IN
          /\ omitted' = {s \in missed : life[s] # "gone"}
          /\ omitted' \cap omitted = {}
          /\ missCount' = [s \in Sessions |->
               CASE s \in missed -> Missed(s)
                 [] s \in shown /\ sweep.seen[s] # 0 -> 0
                 [] OTHER -> missCount[s]]
          /\ harvest' = Harvesting({s \in missed : Missed(s) = 2}, "sweeper")
          /\ UNCHANGED failures
     \/ Fails /\ UNCHANGED <<omitted, missCount, harvest>>
  /\ UNCHANGED <<life, work, worktrees, locks, reports, bridge, job, shield,
                 monitor, resuming, crashes>>

-----------------------------------------------------------------------------
(* The end of the process, and its restart                                  *)

Crash ==
  /\ bridge # "down" /\ crashes < MaxCrashes
  /\ crashes' = crashes + 1
  /\ bridge' = "down"
  /\ job' = [s \in Sessions |-> IF job[s] = "new" THEN "new" ELSE "done"]
  /\ shield' = [s \in Sessions |-> {}]
  /\ monitor' = [s \in Sessions |-> "none"]
  /\ harvest' = [s \in Sessions |-> Idle]
  /\ resuming' = {} /\ sweep' = NotSweeping
  /\ UNCHANGED <<ao, store, failures>>

Restart ==
  /\ bridge = "down"
  /\ bridge' = "resuming" /\ resuming' = Tracked
  /\ UNCHANGED <<ao, store, job, shield, monitor, harvest, sweep, bounds>>

\* Mutant: a session that is still listed is left to itself.
ResumeOnlyGone ==
  /\ bridge = "resuming"
  /\ bridge' = "up" /\ resuming' = {}
  /\ harvest' = Harvesting(resuming \ Listed, "resume")
  /\ UNCHANGED <<ao, store, job, shield, monitor, sweep, bounds>>

\* A session that is not listed is harvested, any other monitored again; a
\* failed listing lists nothing.
ResumeMonitors ==
  /\ bridge = "resuming"
  /\ bridge' = "up" /\ resuming' = {}
  /\ \E live \in {Listed, {}} :
       /\ harvest' = Harvesting(resuming \ live, "resume")
       /\ monitor' = [s \in Sessions |->
                        IF s \in resuming \cap live THEN "locking" ELSE monitor[s]]
       /\ IF live = Listed THEN UNCHANGED failures ELSE Fails
  /\ UNCHANGED <<ao, store, job, shield, sweep, crashes>>

-----------------------------------------------------------------------------
(* AO and the coding agent                                                  *)

AoSpawn(s) ==
  /\ job[s] = "spawning" /\ life[s] = "none"
  /\ life' = [life EXCEPT ![s] = "starting"]
  /\ worktrees' = worktrees \cup {s}
  /\ UNCHANGED <<work, omitted, store, process, bounds>>

AoProgress(s) ==
  /\ \/ life[s] = "starting" /\ life' = [life EXCEPT ![s] = "running"]
     \/ life[s] = "running" /\ life' = [life EXCEPT ![s] = "exited"]
     \/ life[s] \in {"starting", "running", "exited"}
        /\ life' = [life EXCEPT ![s] = "gone"]
  /\ UNCHANGED <<work, worktrees, omitted, store, process, bounds>>

\* AO may clean up after a session before the bridge harvests it.
AoCleansUp(s) ==
  /\ life[s] = "gone" /\ s \in worktrees
  /\ worktrees' = worktrees \ {s}
  /\ UNCHANGED <<life, work, omitted, store, process, bounds>>

AgentWorks(s) ==
  /\ life[s] \in {"starting", "running"} /\ s \in worktrees
  /\ \/ work[s] = "none" /\ work' = [work EXCEPT ![s] = "edited"]
     \/ work[s] = "edited" /\ work' = [work EXCEPT ![s] = "committed"]
     \/ work[s] = "committed" /\ work' = [work EXCEPT ![s] = "pushed"]
     \/ work[s] = "pushed" /\ work' = [work EXCEPT ![s] = "pr"]
  /\ UNCHANGED <<life, worktrees, omitted, store, process, bounds>>

Next ==
  \/ \E s \in Sessions : \/ SpawnJob(s) \/ SkipMerged(s) \/ SpawnError(s)
                         \/ Monitor(s) \/ Harvest(s) \/ LockExpires(s)
                         \/ AoSpawn(s) \/ AoProgress(s) \/ AoCleansUp(s)
                         \/ AgentWorks(s)
  \/ StartSweep \/ FinishSweep
  \/ Crash \/ Restart \/ ResumeMonitors

\* The event loop runs what is due, timers included; the container restarts
\* the process.  Nothing is assumed of AO's sessions.
Fairness ==
  /\ \A s \in Sessions : /\ WF_vars(SpawnJob(s)) /\ WF_vars(Monitor(s))
                         /\ WF_vars(Harvest(s))
  /\ WF_vars(StartSweep) /\ WF_vars(FinishSweep)
  /\ WF_vars(Restart) /\ WF_vars(ResumeMonitors)

Spec == Init /\ [][Next]_vars /\ Fairness

-----------------------------------------------------------------------------
\* The variables have their types, and a monitor that waits for a harvest waits
\* for one that it has started itself.
TypeOK ==
  /\ life \in [Sessions -> {"none", "starting", "running", "exited", "gone"}]
  /\ work \in [Sessions -> WorkStates]
  /\ worktrees \subseteq Sessions /\ locks \subseteq Sessions
  /\ missCount \in [Sessions -> 0 .. Untracked]
  /\ reports \in [Sessions -> SUBSET {"completed", "failed"}]
  /\ bridge \in {"down", "resuming", "up"}
  /\ job \in [Sessions -> {"new", "removing", "deleting", "spawning", "done"}]
  /\ shield \in [Sessions -> SUBSET Sessions]
  /\ monitor \in [Sessions -> {"none", "locking", "polling", "harvesting",
                               "overdue", "resetting", "ending"}]
  /\ harvest \in [Sessions -> [at : Steps \cup {"idle"},
                               by : Triggers \cup {"none"},
                               saw : WorkStates, lost : BOOLEAN]]
  /\ \A s \in Sessions :
       /\ monitor[s] = "harvesting" => harvest[s].by = "poll"
       /\ monitor[s] = "overdue" => harvest[s].by = "deadline"
  /\ resuming \subseteq Sessions
  /\ sweep \in [on : BOOLEAN, seen : [Sessions -> 0 .. Untracked]]
  /\ omitted \subseteq Sessions
  /\ crashes \in 0 .. MaxCrashes /\ failures \in 0 .. MaxFailures

\* A session whose monitor was started keeps its state file, through crashes
\* and failed harvests, until an outcome of it was posted: the file is what a
\* restart and the sweeper find it by, and it shields the worktree during the
\* harvest of the fallback timer, while the monitor releases the lock.
TrackedUntilReported ==
  \A s \in Sessions :
    monitor[s] # "none" \/ harvest[s].at # "idle"
      => s \in Tracked \/ reports[s] # {}

\* session.completed tells the truth about the work a harvest saw in the
\* worktree, whatever an earlier harvest left half done: it is pushed, unless
\* the clean path tolerated a failed push or the worktree was removed.
CompletedMeansPushed ==
  \A s \in Sessions :
    harvest[s].at = "completed" /\ harvest[s].saw \in Unpushed
      => work[s] \notin Unpushed \/ harvest[s].lost

\* The sweeper harvests no live session, though a listing may leave one out:
\* two misses in a row are needed, counted over restarts, over sweeps that
\* failed and over the sweeps in which the session was seen.
SweepHarvestsOrphans ==
  \A s \in Sessions : harvest[s].by = "sweeper" => life[s] = "gone"

\* The worktree of a running session that is monitored, locked and tracked is
\* not removed (cleanupWorktreesForIssue: "These sessions are actively running
\* - their worktrees must NOT be removed.").
RunningWorktreeKept ==
  \A s \in Sessions :
    life[s] = "running" /\ monitor[s] = "polling" /\ s \in locks \cap Tracked
      => s \in worktrees

\* Every session whose monitor was started is reported, whether it ends or
\* not and whatever becomes of the process.
SessionsReported ==
  \A s \in Sessions : monitor[s] # "none" ~> reports[s] # {}

\* A session that is gone does not stay tracked: whatever fails or ends its
\* harvest, the sweeper or a resumption harvests again until one returns.  (A
\* sweep that read the file before may then write it back once more.)
GoneForgotten ==
  \A s \in Sessions : life[s] = "gone" /\ s \in Tracked ~> s \notin Tracked
=============================================================================
