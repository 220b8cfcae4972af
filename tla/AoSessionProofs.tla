--------------------------- MODULE AoSessionProofs ---------------------------
(***************************************************************************)
(* What holds of AoSession for every number of sessions of the issue, every *)
(* MAX_CONCURRENT, and without any bound on crashes and failed commands:   *)
(* a monitored session is tracked until it is reported, only orphans are   *)
(* swept, and session.completed tells the truth about the work it saw.     *)
(***************************************************************************)
EXTENDS AoSession, TLAPS

Lives == {"none", "starting", "running", "exited", "gone"}
JobSteps == {"new", "removing", "deleting", "spawning", "done"}
MonitorSteps == {"none", "locking", "polling", "harvesting", "overdue",
                 "resetting", "ending"}
HarvestTypes == [at : Steps \cup {"idle"}, by : Triggers \cup {"none"},
                 saw : WorkStates, lost : BOOLEAN]

-----------------------------------------------------------------------------
(* What the operators on harvests and monitors do                           *)

LEMMA IdleType == Idle \in HarvestTypes
BY DEF Idle, HarvestTypes, Steps, Triggers, WorkStates

\* A harvest that moves with what it saw, or with the loss of its push.
LEMMA HarvestRecord ==
  ASSUME NEW h \in HarvestTypes, NEW at \in Steps, NEW w \in WorkStates
  PROVE  /\ [h EXCEPT !.saw = w, !.at = at] \in HarvestTypes
         /\ [h EXCEPT !.saw = w, !.at = at].at = at
         /\ [h EXCEPT !.saw = w, !.at = at].by = h.by
         /\ [h EXCEPT !.at = at, !.lost = TRUE] \in HarvestTypes
         /\ [h EXCEPT !.at = at, !.lost = TRUE].at = at
         /\ [h EXCEPT !.at = at, !.lost = TRUE].by = h.by
         /\ at # "idle"
BY DEF HarvestTypes, Steps

\* A harvest that moves keeps its trigger and what it saw.
LEMMA GotoEffect ==
  ASSUME harvest \in [Sessions -> HarvestTypes], NEW s \in Sessions,
         NEW at \in Steps, Goto(s, at)
  PROVE  /\ harvest' \in [Sessions -> HarvestTypes]
         /\ harvest'[s].at = at /\ at # "idle"
         /\ harvest'[s].by = harvest[s].by /\ harvest'[s].saw = harvest[s].saw
         /\ harvest'[s].lost = harvest[s].lost
         /\ \A t \in Sessions \ {s} : harvest'[t] = harvest[t]
BY DEF Goto, HarvestTypes, Steps

\* A harvest starts only where none is running, and knows nothing yet.
LEMMA HarvestingEffect ==
  ASSUME harvest \in [Sessions -> HarvestTypes], NEW S, NEW by \in Triggers,
         harvest' = Harvesting(S, by)
  PROVE  /\ harvest' \in [Sessions -> HarvestTypes]
         /\ \A t \in Sessions :
              /\ t \in S /\ harvest[t].at = "idle" =>
                   /\ harvest'[t].at \in {"status", "recover"}
                   /\ harvest'[t].by = by /\ harvest'[t].saw = "none"
              /\ t \notin S \/ harvest[t].at # "idle" =>
                   harvest'[t] = harvest[t]
<1>1. \A t \in Sessions :
        harvest'[t] = IF t \in S /\ harvest[t].at = "idle"
                      THEN [Idle EXCEPT !.at = IF t \in worktrees
                                               THEN "status" ELSE "recover",
                                        !.by = by]
                      ELSE harvest[t]
  BY DEF Harvesting
<1>2. harvest' = [t \in Sessions |-> harvest'[t]]
  BY DEF Harvesting
<1>3. ASSUME NEW at \in Steps
      PROVE  /\ [Idle EXCEPT !.at = at, !.by = by] \in HarvestTypes
             /\ [Idle EXCEPT !.at = at, !.by = by].at = at
             /\ [Idle EXCEPT !.at = at, !.by = by].by = by
             /\ [Idle EXCEPT !.at = at, !.by = by].saw = "none"
  BY DEF Idle, HarvestTypes, WorkStates
<1>4. "status" \in Steps /\ "recover" \in Steps
  BY DEF Steps
<1>5. ASSUME NEW t \in Sessions
      PROVE  /\ harvest'[t] \in HarvestTypes
             /\ t \in S /\ harvest[t].at = "idle" =>
                  /\ harvest'[t].at \in {"status", "recover"}
                  /\ harvest'[t].by = by /\ harvest'[t].saw = "none"
             /\ t \notin S \/ harvest[t].at # "idle" =>
                  harvest'[t] = harvest[t]
  <2>1. PICK at \in {"status", "recover"} :
          harvest'[t] = IF t \in S /\ harvest[t].at = "idle"
                        THEN [Idle EXCEPT !.at = at, !.by = by]
                        ELSE harvest[t]
    BY <1>1
  <2> QED
    BY <2>1, <1>3, <1>4
<1>6. harvest' \in [Sessions -> HarvestTypes]
  BY <1>2, <1>5
<1> QED
  BY <1>5, <1>6

LEMMA HarvestingStarts ==
  ASSUME harvest \in [Sessions -> HarvestTypes], NEW S, NEW by \in Triggers,
         harvest' = Harvesting(S, by), NEW t \in Sessions,
         t \in S, harvest[t].at = "idle"
  PROVE  harvest'[t].by = by
BY HarvestingEffect

LEMMA HarvestingKeeps ==
  ASSUME harvest \in [Sessions -> HarvestTypes], NEW S, NEW by \in Triggers,
         harvest' = Harvesting(S, by), NEW t \in Sessions,
         harvest[t].at # "idle"
  PROVE  harvest'[t] = harvest[t]
BY HarvestingEffect

LEMMA HarvestingPostsNothing ==
  ASSUME harvest \in [Sessions -> HarvestTypes], NEW S, NEW by \in Triggers,
         harvest' = Harvesting(S, by), NEW t \in Sessions
  PROVE  /\ harvest'[t].at = "posted" => harvest[t].at = "posted"
         /\ t \notin S => harvest'[t] = harvest[t]
<1>1. CASE t \in S /\ harvest[t].at = "idle"
  <2>1. harvest'[t].at \in {"status", "recover"}
    BY <1>1, HarvestingEffect
  <2> QED
    BY <1>1, <2>1
<1>2. CASE t \notin S \/ harvest[t].at # "idle"
  <2>1. harvest'[t] = harvest[t]
    BY <1>2, HarvestingEffect
  <2> QED
    BY <2>1
<1> QED
  BY <1>1, <1>2

\* A harvest that is over lets the monitor that waits for it go on.
LEMMA ReturnEffect ==
  ASSUME harvest \in [Sessions -> HarvestTypes],
         monitor \in [Sessions -> MonitorSteps], NEW s \in Sessions, Return(s)
  PROVE  /\ harvest' \in [Sessions -> HarvestTypes] /\ harvest'[s] = Idle
         /\ monitor' \in [Sessions -> MonitorSteps]
         /\ monitor'[s] =
              CASE harvest[s].by = "poll" /\ monitor[s] = "harvesting"
                     -> "ending"
                [] harvest[s].by = "deadline" /\ monitor[s] = "overdue"
                     -> "resetting"
                [] OTHER -> monitor[s]
         /\ \A t \in Sessions \ {s} :
              harvest'[t] = harvest[t] /\ monitor'[t] = monitor[t]
<1>1. /\ harvest' \in [Sessions -> HarvestTypes] /\ harvest'[s] = Idle
      /\ \A t \in Sessions \ {s} : harvest'[t] = harvest[t]
  BY IdleType DEF Return
<1>2. /\ monitor' = [monitor EXCEPT ![s] =
           CASE harvest[s].by = "poll" /\ monitor[s] = "harvesting" -> "ending"
             [] harvest[s].by = "deadline" /\ monitor[s] = "overdue"
                  -> "resetting"
             [] OTHER -> monitor[s]]
  BY DEF Return
<1> QED
  BY <1>1, <1>2 DEF MonitorSteps

-----------------------------------------------------------------------------
(* Types.  A harvest that nobody runs has no trigger: that is what makes a  *)
(* monitor wait for its own harvest only.                                   *)

IdleHasNoTrigger ==
  \A s \in Sessions : harvest[s].at = "idle" => harvest[s].by = "none"

TypeInv == TypeOK /\ IdleHasNoTrigger

LEMMA TypeInit == Init => TypeInv
<1> SUFFICES ASSUME Init PROVE TypeInv
  OBVIOUS
<1>1. harvest \in [Sessions -> HarvestTypes] /\ IdleHasNoTrigger
  BY IdleType DEF Init, IdleHasNoTrigger, Idle
<1>2. sweep \in [on : BOOLEAN, seen : [Sessions -> 0 .. Untracked]]
  BY DEF Init, NotSweeping, Untracked
<1>3. missCount \in [Sessions -> 0 .. Untracked]
  BY DEF Init, Untracked
<1>4. crashes \in 0 .. MaxCrashes /\ failures \in 0 .. MaxFailures
  BY ConstantsAssumption DEF Init
<1> QED
  BY <1>1, <1>2, <1>3, <1>4 DEF Init, TypeInv, TypeOK, HarvestTypes, WorkStates

\* A step of the harvest that leaves the monitors, the sweep and AO's process
\* alone.
LEMMA TypeByHarvest ==
  ASSUME TypeInv,
         UNCHANGED <<life, worktrees, omitted, locks, missCount, bridge, job,
                     shield, monitor, resuming, sweep, crashes>>,
         work' \in [Sessions -> WorkStates],
         reports' \in [Sessions -> SUBSET {"completed", "failed"}],
         failures' \in 0 .. MaxFailures,
         harvest' \in [Sessions -> HarvestTypes],
         \A t \in Sessions :
           \/ harvest'[t] = harvest[t]
           \/ harvest'[t].at # "idle" /\ harvest'[t].by = harvest[t].by
  PROVE  TypeInv'
<1>1. IdleHasNoTrigger'
  BY DEF TypeInv, IdleHasNoTrigger
<1>2. \A t \in Sessions : harvest'[t].by = harvest[t].by
  OBVIOUS
<1>3. TypeOK'
  BY <1>2 DEF TypeInv, TypeOK, HarvestTypes
<1> QED
  BY <1>1, <1>3 DEF TypeInv

\* Work that a command in the worktree has done.
LEMMA WorkType ==
  ASSUME NEW w \in WorkStates
  PROVE  /\ Committed(w) \in WorkStates /\ Pushed(w) \in WorkStates
         /\ WithPr(w) \in WorkStates /\ WithPr(Pushed(w)) \in WorkStates
BY DEF WorkStates, Committed, Pushed, WithPr

LEMMA FailsType ==
  ASSUME failures \in 0 .. MaxFailures, Fails
  PROVE  failures' \in 0 .. MaxFailures
BY ConstantsAssumption DEF Fails

\* The commands of the dirty path, by what they do to the work.
LEMMA TypeByDirtyStep ==
  ASSUME TypeInv, NEW s \in Sessions, NEW from \in Steps, NEW to \in Steps,
         NEW done \in [WorkStates -> WorkStates], DirtyStep(s, from, to, done)
  PROVE  TypeInv'
<1> USE DEF TypeInv, TypeOK
<1>1. "error" \in Steps /\ harvest \in [Sessions -> HarvestTypes]
  BY DEF Steps, HarvestTypes
<1>2. PICK at \in Steps : Goto(s, at)
  BY <1>1 DEF DirtyStep
<1>3. /\ harvest' \in [Sessions -> HarvestTypes]
      /\ \A t \in Sessions :
           \/ harvest'[t] = harvest[t]
           \/ harvest'[t].at # "idle" /\ harvest'[t].by = harvest[t].by
  BY <1>1, <1>2, GotoEffect
<1>4. work' \in [Sessions -> WorkStates]
  BY DEF DirtyStep
<1>5. failures' \in 0 .. MaxFailures
  BY FailsType DEF DirtyStep
<1> QED
  BY <1>3, <1>4, <1>5, TypeByHarvest DEF DirtyStep, store

LEMMA TypeByHarvestStep ==
  ASSUME TypeInv, NEW s \in Sessions, Harvest(s)
  PROVE  TypeInv'
<1> USE DEF TypeInv, TypeOK
<1>0. harvest \in [Sessions -> HarvestTypes] /\ monitor \in [Sessions -> MonitorSteps]
  BY DEF HarvestTypes, MonitorSteps
<1>1. ASSUME NEW at \in Steps, Goto(s, at)
      PROVE  /\ harvest' \in [Sessions -> HarvestTypes]
             /\ \A t \in Sessions :
                  \/ harvest'[t] = harvest[t]
                  \/ harvest'[t].at # "idle" /\ harvest'[t].by = harvest[t].by
  BY <1>0, <1>1, GotoEffect
<1>2. CASE RecoverPr(s)
  <2>1. PICK at \in Steps : Goto(s, at)
    BY <1>2 DEF RecoverPr, Steps
  <2>2. failures' \in 0 .. MaxFailures
    BY <1>2, FailsType DEF RecoverPr
  <2> QED
    BY <1>1, <1>2, <2>1, <2>2, TypeByHarvest DEF RecoverPr, ao, store
<1>3. CASE ReadStatus(s)
  <2>1. failures' \in 0 .. MaxFailures
    BY <1>3, FailsType DEF ReadStatus
  <2>2. \/ \E at \in Steps : Goto(s, at)
        \/ \E at \in Steps :
             harvest' = [harvest EXCEPT ![s].saw = work[s], ![s].at = at]
    <3>1. "commit" \in Steps /\ "resolve" \in Steps
      BY DEF Steps
    <3> QED
      BY <1>3, <3>1 DEF ReadStatus
  <2>3. ASSUME NEW at \in Steps,
               harvest' = [harvest EXCEPT ![s].saw = work[s], ![s].at = at]
        PROVE  /\ harvest' \in [Sessions -> HarvestTypes]
               /\ harvest'[s].at = at /\ at # "idle"
               /\ harvest'[s].by = harvest[s].by
               /\ \A t \in Sessions \ {s} : harvest'[t] = harvest[t]
    <3> HIDE DEF TypeInv, TypeOK
    <3> DEFINE h == [harvest[s] EXCEPT !.saw = work[s], !.at = at]
    <3>1. harvest[s] \in HarvestTypes /\ work[s] \in WorkStates
      BY <1>0 DEF TypeInv, TypeOK
    <3>2. h \in HarvestTypes /\ h.at = at /\ h.by = harvest[s].by /\ at # "idle"
      BY <3>1, HarvestRecord
    <3>3. harvest' = [harvest EXCEPT ![s] = h]
      BY <2>3
    <3> HIDE DEF h
    <3> QED
      BY <1>0, <3>2, <3>3
  <2>4. /\ harvest' \in [Sessions -> HarvestTypes]
        /\ \A t \in Sessions :
             \/ harvest'[t] = harvest[t]
             \/ harvest'[t].at # "idle" /\ harvest'[t].by = harvest[t].by
    <3>1. CASE \E at \in Steps : Goto(s, at)
      BY <1>1, <3>1
    <3>2. ASSUME NEW at \in Steps,
                 harvest' = [harvest EXCEPT ![s].saw = work[s], ![s].at = at]
          PROVE  <2>4!1 /\ <2>4!2
      BY <2>3, <3>2
    <3> QED
      BY <2>2, <3>1, <3>2
  <2> QED
    BY <1>3, <2>1, <2>4, TypeByHarvest DEF ReadStatus, ao, store
<1>4. CASE GitCommit(s) \/ GitPush(s) \/ EnsurePr(s)
  <2>1. /\ [w \in WorkStates |-> Committed(w)] \in [WorkStates -> WorkStates]
        /\ [w \in WorkStates |-> Pushed(w)] \in [WorkStates -> WorkStates]
        /\ [w \in WorkStates |-> WithPr(w)] \in [WorkStates -> WorkStates]
    BY WorkType
  <2>2. {"commit", "push", "ensurePr", "completed"} \subseteq Steps
    BY DEF Steps
  <2> QED
    BY <1>4, <2>1, <2>2, TypeByDirtyStep DEF GitCommit, GitPush, EnsurePr
<1>5. CASE ResolvePr(s)
  <2>1. PICK outcome \in {"completed", "failed"} :
          /\ \/ Goto(s, outcome)
             \/ harvest' = [harvest EXCEPT ![s].at = outcome, ![s].lost = TRUE]
          /\ \/ work' = work \/ work' = [work EXCEPT ![s] = Pushed(@)]
             \/ work' = [work EXCEPT ![s] = WithPr(Pushed(@))]
    BY <1>5 DEF ResolvePr
  <2>2. outcome \in Steps
    BY DEF Steps
  <2>3. work' \in [Sessions -> WorkStates]
    BY <2>1, WorkType
  <2>4. failures' \in 0 .. MaxFailures
    BY <1>5, FailsType DEF ResolvePr
  <2>5. CASE Goto(s, outcome)
    BY <1>1, <1>5, <2>2, <2>3, <2>4, <2>5, TypeByHarvest DEF ResolvePr, store
  <2>6. CASE harvest' = [harvest EXCEPT ![s].at = outcome, ![s].lost = TRUE]
    <3>1. /\ harvest' \in [Sessions -> HarvestTypes]
          /\ harvest'[s].at # "idle" /\ harvest'[s].by = harvest[s].by
          /\ \A t \in Sessions \ {s} : harvest'[t] = harvest[t]
      <4> HIDE DEF TypeInv, TypeOK
      <4> DEFINE h == [harvest[s] EXCEPT !.at = outcome, !.lost = TRUE]
      <4>1. /\ h \in HarvestTypes /\ h.at = outcome /\ h.by = harvest[s].by
            /\ outcome # "idle"
        <5>1. harvest[s] \in HarvestTypes /\ "none" \in WorkStates
          BY <1>0 DEF WorkStates
        <5> QED
          BY <2>2, <5>1, HarvestRecord
      <4>2. harvest' = [harvest EXCEPT ![s] = h]
        BY <2>6
      <4> HIDE DEF h
      <4> QED
        BY <1>0, <4>1, <4>2
    <3> QED
      BY <1>5, <2>3, <2>4, <3>1, TypeByHarvest DEF ResolvePr, store
  <2> QED
    BY <2>1, <2>5, <2>6
<1>6. CASE PostOutcome(s)
  <2>1. reports' \in [Sessions -> SUBSET {"completed", "failed"}]
    BY <1>6 DEF PostOutcome
  <2>2. "posted" \in Steps
    BY DEF Steps
  <2> QED
    BY <1>1, <1>6, <2>1, <2>2, TypeByHarvest DEF PostOutcome, ao, bounds
<1>7. CASE FinishHarvest(s) \/ HarvestError(s)
  <2>1. Return(s)
    BY <1>7 DEF FinishHarvest, HarvestError
  <2>2. /\ harvest' \in [Sessions -> HarvestTypes]
        /\ monitor' \in [Sessions -> MonitorSteps]
    BY <1>0, <2>1, ReturnEffect
  <2>3. /\ \A t \in Sessions :
             /\ monitor'[t] = "harvesting" => harvest'[t].by = "poll"
             /\ monitor'[t] = "overdue" => harvest'[t].by = "deadline"
        /\ IdleHasNoTrigger'
    <3>1. /\ harvest'[s].at = "idle" /\ harvest'[s].by = "none"
          /\ monitor'[s] # "harvesting" /\ monitor'[s] # "overdue"
      BY <1>0, <2>1, ReturnEffect DEF Idle
    <3>2. \A t \in Sessions \ {s} :
            harvest'[t] = harvest[t] /\ monitor'[t] = monitor[t]
      BY <1>0, <2>1, ReturnEffect
    <3>3. ASSUME NEW t \in Sessions
          PROVE  /\ monitor'[t] = "harvesting" => harvest'[t].by = "poll"
                 /\ monitor'[t] = "overdue" => harvest'[t].by = "deadline"
                 /\ harvest'[t].at = "idle" => harvest'[t].by = "none"
      <4>1. CASE t = s
        BY <3>1, <4>1
      <4>2. CASE t # s
        BY <3>2, <4>2 DEF IdleHasNoTrigger
      <4> QED
        BY <4>1, <4>2
    <3> QED
      BY <3>3 DEF IdleHasNoTrigger
  <2>4. missCount' \in [Sessions -> 0 .. Untracked]
    BY <1>7 DEF FinishHarvest, HarvestError, Untracked
  <2>5. reports' \in [Sessions -> SUBSET {"completed", "failed"}]
    BY <1>7 DEF FinishHarvest, HarvestError
  <2>6. UNCHANGED <<ao, locks, bridge, job, shield, resuming, sweep, bounds>>
    BY <1>7 DEF FinishHarvest, HarvestError
  <2> QED
    BY <2>2, <2>3, <2>4, <2>5, <2>6 DEF ao, bounds, HarvestTypes, MonitorSteps
<1> QED
  BY <1>2, <1>3, <1>4, <1>5, <1>6, <1>7 DEF Harvest

\* Spawn jobs.
LEMMA TypeByJob ==
  ASSUME TypeInv, NEW s \in Sessions,
         SpawnJob(s) \/ SkipMerged(s) \/ SpawnError(s)
  PROVE  TypeInv'
<1> USE DEF TypeInv, TypeOK, IdleHasNoTrigger, ao, store, bounds, SpawnStep
<1>1. CASE CollectActiveSessions(s)
  <2>1. failures' \in 0 .. MaxFailures
    BY <1>1, FailsType DEF CollectActiveSessions
  <2>2. shield' \in [Sessions -> SUBSET Sessions]
    BY <1>1 DEF CollectActiveSessions, Tracked
  <2> QED
    BY <1>1, <2>1, <2>2 DEF CollectActiveSessions
<1>2. CASE SkipMerged(s)
  BY <1>2 DEF SkipMerged
<1>3. CASE RemoveWorktrees(s)
  BY <1>3 DEF RemoveWorktrees
<1>4. CASE DeleteBranches(s)
  BY <1>4 DEF DeleteBranches
<1>5. CASE StartMonitor(s)
  <2>1. missCount' \in [Sessions -> 0 .. Untracked]
    BY <1>5 DEF StartMonitor, Untracked
  <2> QED
    BY <1>5, <2>1 DEF StartMonitor
<1>6. CASE SpawnError(s)
  <2>1. failures' \in 0 .. MaxFailures
    BY <1>6, FailsType DEF SpawnError
  <2> QED
    BY <1>6, <2>1 DEF SpawnError
<1> QED
  BY <1>1, <1>2, <1>3, <1>4, <1>5, <1>6 DEF SpawnJob

\* Monitors: whoever waits has started the harvest that runs.
LEMMA TypeByTrigger ==
  ASSUME TypeInv, NEW s \in Sessions, NEW by \in Triggers,
         NEW wait \in MonitorSteps, NEW next \in {"ending", "resetting"},
         wait = "harvesting" => by = "poll", wait = "overdue" => by = "deadline",
         Trigger(s, by, wait, next)
  PROVE  TypeInv'
<1> USE DEF TypeInv, TypeOK, IdleHasNoTrigger
<1>0. /\ harvest \in [Sessions -> HarvestTypes]
      /\ harvest' = Harvesting({s}, by)
  BY DEF HarvestTypes, Trigger
<1>1. harvest' \in [Sessions -> HarvestTypes]
  BY <1>0, HarvestingEffect
<1>2. /\ \A t \in Sessions \ {s} : harvest'[t] = harvest[t]
      /\ harvest[s].at = "idle" =>
           harvest'[s].by = by /\ harvest'[s].at \in {"status", "recover"}
      /\ harvest[s].at # "idle" => harvest'[s] = harvest[s]
  <2> HIDE DEF TypeInv, TypeOK, IdleHasNoTrigger
  <2> QED
    BY <1>0, HarvestingEffect
<1>3. /\ monitor' \in [Sessions -> MonitorSteps]
      /\ monitor'[s] = IF harvest[s].at = "idle" THEN wait ELSE next
      /\ \A t \in Sessions \ {s} : monitor'[t] = monitor[t]
  BY DEF Trigger, MonitorSteps
<1>4. IdleHasNoTrigger'
  BY <1>2
<1>5. ASSUME NEW t \in Sessions
      PROVE  /\ monitor'[t] = "harvesting" => harvest'[t].by = "poll"
             /\ monitor'[t] = "overdue" => harvest'[t].by = "deadline"
  BY <1>2, <1>3
<1> QED
  BY <1>1, <1>3, <1>4, <1>5
     DEF Trigger, ao, store, bounds, HarvestTypes, MonitorSteps

LEMMA TypeByMonitor ==
  ASSUME TypeInv, NEW s \in Sessions, Monitor(s) \/ LockExpires(s)
  PROVE  TypeInv'
<1>1. CASE FallbackTimer(s) \/ PollTick(s) \/ Deadline(s)
  BY <1>1, TypeByTrigger
     DEF FallbackTimer, PollTick, Deadline, Triggers, MonitorSteps
<1> USE DEF TypeInv, TypeOK, IdleHasNoTrigger, ao, store, process, bounds
<1>2. CASE AcquireSessionLock(s)
  BY <1>2 DEF AcquireSessionLock
<1>3. CASE ResetWorktree(s)
  <2>1. work' \in [Sessions -> WorkStates]
    BY <1>3 DEF ResetWorktree, WorkStates
  <2> QED
    BY <1>3, <2>1 DEF ResetWorktree
<1>4. CASE ReleaseSessionLock(s)
  BY <1>4 DEF ReleaseSessionLock
<1>5. CASE LockExpires(s)
  BY <1>5 DEF LockExpires
<1> QED
  BY <1>1, <1>2, <1>3, <1>4, <1>5 DEF Monitor

\* AO and the coding agent.
LEMMA TypeByAo ==
  ASSUME TypeInv, NEW s \in Sessions,
         AoSpawn(s) \/ AoProgress(s) \/ AoCleansUp(s) \/ AgentWorks(s)
  PROVE  TypeInv'
<1> USE DEF TypeInv, TypeOK, IdleHasNoTrigger, store, process, bounds
<1>1. CASE AoSpawn(s)
  BY <1>1 DEF AoSpawn
<1>2. CASE AoProgress(s)
  BY <1>2 DEF AoProgress
<1>3. CASE AoCleansUp(s)
  BY <1>3 DEF AoCleansUp
<1>4. CASE AgentWorks(s)
  <2>1. work' \in [Sessions -> WorkStates]
    <3>1. PICK w \in WorkStates : work' = [work EXCEPT ![s] = w]
      BY <1>4 DEF AgentWorks, WorkStates
    <3> QED
      BY <3>1
  <2> QED
    BY <1>4, <2>1 DEF AgentWorks
<1> QED
  BY <1>1, <1>2, <1>3, <1>4

\* A harvest that someone else triggers makes no monitor wait.
LEMMA HarvestingKeepsWaits ==
  ASSUME TypeInv, NEW S, NEW by \in Triggers, harvest' = Harvesting(S, by)
  PROVE  /\ harvest' \in [Sessions -> HarvestTypes] /\ IdleHasNoTrigger'
         /\ \A s \in Sessions :
              /\ monitor[s] = "harvesting" => harvest'[s].by = "poll"
              /\ monitor[s] = "overdue" => harvest'[s].by = "deadline"
<1>1. harvest \in [Sessions -> HarvestTypes]
  BY DEF TypeInv, TypeOK, HarvestTypes
<1>2. harvest' \in [Sessions -> HarvestTypes]
  BY <1>1, HarvestingEffect
<1>3. ASSUME NEW s \in Sessions
      PROVE  /\ harvest'[s].at = "idle" => harvest'[s].by = "none"
             /\ monitor[s] = "harvesting" => harvest'[s].by = "poll"
             /\ monitor[s] = "overdue" => harvest'[s].by = "deadline"
  <2>1. /\ harvest[s].at = "idle" => harvest[s].by = "none"
        /\ monitor[s] = "harvesting" => harvest[s].by = "poll"
        /\ monitor[s] = "overdue" => harvest[s].by = "deadline"
    BY DEF TypeInv, TypeOK, IdleHasNoTrigger
  <2>2. CASE s \in S /\ harvest[s].at = "idle"
    <3>1. harvest'[s].at \in {"status", "recover"}
      BY <1>1, <2>2, HarvestingEffect
    <3> QED
      BY <2>1, <2>2, <3>1
  <2>3. CASE ~(s \in S /\ harvest[s].at = "idle")
    <3>1. harvest'[s] = harvest[s]
      BY <1>1, <2>3, HarvestingEffect
    <3> QED
      BY <2>1, <2>3, <3>1
  <2> QED
    BY <2>2, <2>3
<1> QED
  BY <1>2, <1>3 DEF IdleHasNoTrigger

LEMMA TypeBySweep ==
  ASSUME TypeInv, StartSweep \/ FinishSweep
  PROVE  TypeInv'
<1> USE DEF TypeInv, TypeOK, ao, store, bounds
<1>1. CASE StartSweep
  BY <1>1 DEF StartSweep, IdleHasNoTrigger
<1>2. CASE FinishSweep
  <2>1. sweep' \in [on : BOOLEAN, seen : [Sessions -> 0 .. Untracked]]
    BY <1>2 DEF FinishSweep, NotSweeping, Untracked
  <2>2. \A s \in Sessions : Missed(s) \in 0 .. Untracked
    BY DEF Missed, Untracked
  <2>3. missCount' \in [Sessions -> 0 .. Untracked]
    <3> DEFINE known == {s \in Sessions : sweep.seen[s] # Untracked}
    <3>1. 0 \in 0 .. Untracked
      BY DEF Untracked
    <3>2. CASE UNCHANGED missCount
      BY <3>2
    <3>3. ASSUME NEW shown \in SUBSET (known \cap Listed),
                 missCount' = [s \in Sessions |->
                   CASE s \in known \ shown -> Missed(s)
                     [] s \in shown /\ sweep.seen[s] # 0 -> 0
                     [] OTHER -> missCount[s]]
          PROVE  <2>3
      BY <2>2, <3>1, <3>3
    <3> QED
      BY <1>2, <3>2, <3>3 DEF FinishSweep
  <2>4. omitted' \subseteq Sessions
    BY <1>2 DEF FinishSweep
  <2>5. failures' \in 0 .. MaxFailures
    BY <1>2, FailsType DEF FinishSweep
  <2>6. \/ UNCHANGED harvest \/ \E S : harvest' = Harvesting(S, "sweeper")
    BY <1>2 DEF FinishSweep
  <2>7. /\ harvest' \in [Sessions -> HarvestTypes] /\ IdleHasNoTrigger'
        /\ \A s \in Sessions :
             /\ monitor[s] = "harvesting" => harvest'[s].by = "poll"
             /\ monitor[s] = "overdue" => harvest'[s].by = "deadline"
    <3>1. CASE UNCHANGED harvest
      BY <3>1 DEF IdleHasNoTrigger, HarvestTypes
    <3>2. CASE \E S : harvest' = Harvesting(S, "sweeper")
      BY <3>2, HarvestingKeepsWaits DEF Triggers
    <3> QED
      BY <2>6, <3>1, <3>2
  <2> QED
    BY <1>2, <2>1, <2>3, <2>4, <2>5, <2>7 DEF FinishSweep, HarvestTypes
<1> QED
  BY <1>1, <1>2

LEMMA TypeByProcess ==
  ASSUME TypeInv, Crash \/ Restart \/ ResumeMonitors
  PROVE  TypeInv'
<1> USE DEF TypeInv, TypeOK, ao, store, bounds
<1>1. CASE Crash
  <2>1. crashes' \in 0 .. MaxCrashes
    BY <1>1, ConstantsAssumption DEF Crash
  <2>2. harvest' \in [Sessions -> HarvestTypes] /\ IdleHasNoTrigger'
    BY <1>1, IdleType DEF Crash, IdleHasNoTrigger, Idle
  <2>3. sweep' \in [on : BOOLEAN, seen : [Sessions -> 0 .. Untracked]]
    BY <1>1 DEF Crash, NotSweeping, Untracked
  <2> QED
    BY <1>1, <2>1, <2>2, <2>3 DEF Crash, HarvestTypes
<1>2. CASE Restart
  BY <1>2 DEF Restart, Tracked, IdleHasNoTrigger
<1>3. CASE ResumeMonitors
  <2>1. PICK live \in {Listed, {}} :
          /\ harvest' = Harvesting(resuming \ live, "resume")
          /\ monitor' = [s \in Sessions |->
               IF s \in resuming \cap live THEN "locking" ELSE monitor[s]]
          /\ IF live = Listed THEN UNCHANGED failures ELSE Fails
    BY <1>3 DEF ResumeMonitors
  <2>2. failures' \in 0 .. MaxFailures
    BY <2>1, FailsType
  <2>3. /\ harvest' \in [Sessions -> HarvestTypes] /\ IdleHasNoTrigger'
        /\ \A s \in Sessions :
             /\ monitor[s] = "harvesting" => harvest'[s].by = "poll"
             /\ monitor[s] = "overdue" => harvest'[s].by = "deadline"
    BY <2>1, HarvestingKeepsWaits DEF Triggers
  <2>4. /\ monitor' \in [Sessions -> MonitorSteps]
        /\ \A s \in Sessions : monitor'[s] \in {"locking", monitor[s]}
    BY <2>1 DEF MonitorSteps
  <2> QED
    BY <1>3, <2>2, <2>3, <2>4 DEF ResumeMonitors, HarvestTypes, MonitorSteps
<1> QED
  BY <1>1, <1>2, <1>3

LEMMA TypeStep == TypeInv /\ [Next]_vars => TypeInv'
<1> SUFFICES ASSUME TypeInv, [Next]_vars PROVE TypeInv'
  OBVIOUS
<1>1. CASE UNCHANGED vars
  BY <1>1 DEF vars, ao, store, process, bounds, TypeInv, TypeOK,
              IdleHasNoTrigger
<1> QED
  BY <1>1, TypeByJob, TypeByMonitor, TypeByHarvestStep, TypeByAo, TypeBySweep,
     TypeByProcess DEF Next

\* The variables keep their types, and a monitor that waits for a harvest waits
\* for its own: no trigger, sweep or resumption that comes in between makes it
\* wait for somebody else's, after which nothing would let it go on.
THEOREM TypeCorrect == Spec => []TypeOK
<1>1. TypeInv => TypeOK
  BY DEF TypeInv
<1> QED
  BY <1>1, TypeInit, TypeStep, PTL DEF Spec

-----------------------------------------------------------------------------
(* No session is forgotten                                                  *)

\* Somebody works on the session, or is about to after a restart.
Engaged(s) == monitor[s] # "none" \/ harvest[s].at # "idle" \/ s \in resuming

Found(s) == s \in Tracked \/ reports[s] # {}

\* Whoever works on a session leaves it to be found; the state file goes only
\* once the outcome is posted.
TrackedInv ==
  \A s \in Sessions :
    /\ Engaged(s) => Found(s)
    /\ harvest[s].at = "posted" => reports[s] # {}

\* A step that forgets nothing and engages nobody who cannot be found.
LEMMA TrackedByStep ==
  ASSUME TrackedInv,
         \A s \in Sessions :
           /\ Found(s) => Found(s)'
           /\ Engaged(s)' => Engaged(s) \/ Found(s)'
           /\ harvest'[s].at = "posted" =>
                harvest[s].at = "posted" \/ reports'[s] # {}
           /\ reports[s] # {} => reports'[s] # {}
  PROVE  TrackedInv'
BY DEF TrackedInv

LEMMA TrackedInit == Init => TrackedInv
BY DEF Init, TrackedInv, Engaged, Idle

\* A harvest that moves from one place to another.
LEMMA TrackedByGoto ==
  ASSUME TypeInv, TrackedInv, NEW s \in Sessions,
         harvest[s].at # "idle", harvest' \in [Sessions -> HarvestTypes],
         \A t \in Sessions \ {s} : harvest'[t] = harvest[t],
         harvest'[s].at # "posted",
         UNCHANGED <<missCount, reports, monitor, resuming>>
  PROVE  TrackedInv'
BY DEF TrackedInv, Engaged, Found, Tracked

LEMMA TrackedByHarvestStep ==
  ASSUME TypeInv, TrackedInv, NEW s \in Sessions, Harvest(s)
  PROVE  TrackedInv'
<1>0. harvest \in [Sessions -> HarvestTypes] /\ monitor \in [Sessions -> MonitorSteps]
  BY DEF TypeInv, TypeOK, HarvestTypes, MonitorSteps
<1>a. harvest' \in [Sessions -> HarvestTypes]
  BY TypeByHarvestStep DEF TypeInv, TypeOK, HarvestTypes
<1>1. ASSUME NEW at \in Steps \ {"posted"}, Goto(s, at), harvest[s].at # "idle",
             UNCHANGED <<missCount, reports, monitor, resuming>>
      PROVE  TrackedInv'
  <2>1. harvest'[s].at # "posted" /\ \A t \in Sessions \ {s} : harvest'[t] = harvest[t]
    BY <1>0, <1>1, GotoEffect
  <2> QED
    BY <1>1, <1>a, <2>1, TrackedByGoto
<1>2. CASE RecoverPr(s)
  BY <1>1, <1>2 DEF RecoverPr, store, Steps
<1>3. CASE ReadStatus(s)
  <2>1. \A t \in Sessions \ {s} : harvest'[t] = harvest[t]
    BY <1>0, <1>3 DEF ReadStatus, Goto
  <2>2. harvest'[s].at # "posted"
    BY <1>0, <1>3 DEF ReadStatus, Goto, HarvestTypes
  <2> QED
    BY <1>3, <1>a, <2>1, <2>2, TrackedByGoto DEF ReadStatus, store
<1>4. CASE GitCommit(s) \/ GitPush(s) \/ EnsurePr(s)
  BY <1>1, <1>4 DEF GitCommit, GitPush, EnsurePr, DirtyStep, store, Steps
<1>5. CASE ResolvePr(s)
  <2>1. \A t \in Sessions \ {s} : harvest'[t] = harvest[t]
    BY <1>0, <1>5 DEF ResolvePr, Goto
  <2>2. harvest'[s].at # "posted"
    BY <1>0, <1>5 DEF ResolvePr, Goto, HarvestTypes
  <2> QED
    BY <1>5, <1>a, <2>1, <2>2, TrackedByGoto DEF ResolvePr, store
<1>6. CASE PostOutcome(s)
  <2>1. reports'[s] # {} /\ \A t \in Sessions \ {s} : reports'[t] = reports[t]
    BY <1>6 DEF PostOutcome, TypeInv, TypeOK
  <2>2. \A t \in Sessions \ {s} : harvest'[t] = harvest[t]
    BY <1>6 DEF PostOutcome, Goto, TypeInv, TypeOK
  <2>3. UNCHANGED <<missCount, monitor, resuming>>
    BY <1>6 DEF PostOutcome
  <2> QED
    <3>1. ASSUME NEW t \in Sessions
          PROVE  /\ Found(t) => Found(t)'
                 /\ Engaged(t)' => Engaged(t) \/ Found(t)'
                 /\ harvest'[t].at = "posted" =>
                      harvest[t].at = "posted" \/ reports'[t] # {}
                 /\ reports[t] # {} => reports'[t] # {}
      <4>1. CASE t = s
        BY <2>1, <4>1 DEF Found
      <4>2. CASE t # s
        BY <2>1, <2>2, <2>3, <4>2 DEF Engaged, Found, Tracked
      <4> QED
        BY <4>1, <4>2
    <3> QED
      BY <3>1, TrackedByStep
<1>7. CASE FinishHarvest(s) \/ HarvestError(s)
  <2>1. reports'[s] # {} /\ \A t \in Sessions \ {s} : reports'[t] = reports[t]
    <3>1. CASE FinishHarvest(s)
      BY <3>1 DEF FinishHarvest, TrackedInv
    <3>2. CASE HarvestError(s)
      <4>1. "failed" \in reports'[s]
        BY <3>2 DEF HarvestError, TypeInv, TypeOK
      <4> QED
        BY <3>2, <4>1 DEF HarvestError, TypeInv, TypeOK
    <3> QED
      BY <1>7, <3>1, <3>2
  <2>2. \A t \in Sessions \ {s} : missCount'[t] = missCount[t]
    BY <1>7 DEF FinishHarvest, HarvestError, TypeInv, TypeOK
  <2>3. Return(s) /\ UNCHANGED resuming
    BY <1>7 DEF FinishHarvest, HarvestError
  <2>4. \A t \in Sessions \ {s} :
          harvest'[t] = harvest[t] /\ monitor'[t] = monitor[t]
    BY <1>0, <2>3, ReturnEffect
  <2> QED
    BY <2>1, <2>2, <2>3, <2>4, TrackedByStep DEF Engaged, Found, Tracked
<1> QED
  BY <1>2, <1>3, <1>4, <1>5, <1>6, <1>7 DEF Harvest

LEMMA TrackedByJob ==
  ASSUME TypeInv, TrackedInv, NEW s \in Sessions,
         SpawnJob(s) \/ SkipMerged(s) \/ SpawnError(s)
  PROVE  TrackedInv'
<1> USE DEF Engaged, Found, Tracked, TypeInv, TypeOK, ao, store
<1>1. CASE CollectActiveSessions(s) \/ RemoveWorktrees(s) \/ DeleteBranches(s)
  <2>1. UNCHANGED <<missCount, reports, monitor, harvest, resuming>>
    BY <1>1 DEF CollectActiveSessions, RemoveWorktrees, DeleteBranches
  <2> QED
    BY <2>1, TrackedByStep
<1>2. CASE SkipMerged(s) \/ SpawnError(s)
  <2>1. reports'[s] # {} /\ \A t \in Sessions \ {s} : reports'[t] = reports[t]
    <3>1. "completed" \in reports'[s] \/ "failed" \in reports'[s]
      BY <1>2 DEF SkipMerged, SpawnError
    <3>2. \A t \in Sessions \ {s} : reports'[t] = reports[t]
      BY <1>2 DEF SkipMerged, SpawnError
    <3> QED
      BY <3>1, <3>2
  <2>2. UNCHANGED <<missCount, monitor, harvest, resuming>>
    BY <1>2 DEF SkipMerged, SpawnError
  <2> QED
    BY <2>1, <2>2, TrackedByStep
<1>3. CASE StartMonitor(s)
  <2>1. /\ missCount'[s] = 0 /\ \A t \in Sessions \ {s} :
             missCount'[t] = missCount[t] /\ monitor'[t] = monitor[t]
    BY <1>3 DEF StartMonitor
  <2>2. UNCHANGED <<reports, harvest, resuming>>
    BY <1>3 DEF StartMonitor
  <2> QED
    BY <2>1, <2>2, TrackedByStep DEF Untracked
<1> QED
  BY <1>1, <1>2, <1>3 DEF SpawnJob

LEMMA TrackedByMonitor ==
  ASSUME TypeInv, TrackedInv, NEW s \in Sessions, Monitor(s) \/ LockExpires(s)
  PROVE  TrackedInv'
<1> USE DEF Engaged, Found, Tracked
<1>1. CASE FallbackTimer(s) \/ PollTick(s) \/ Deadline(s)
  <2>1. PICK by \in Triggers : harvest' = Harvesting({s}, by)
    BY <1>1 DEF FallbackTimer, PollTick, Deadline, Trigger, Triggers
  <2>2. harvest \in [Sessions -> HarvestTypes]
    BY DEF TypeInv, TypeOK, HarvestTypes
  <2>3. ASSUME NEW t \in Sessions
        PROVE  /\ harvest'[t].at = "posted" => harvest[t].at = "posted"
               /\ t \notin {s} => harvest'[t] = harvest[t]
    BY <2>1, <2>2, HarvestingPostsNothing
  <2>4. /\ monitor[s] # "none" /\ UNCHANGED <<missCount, reports, resuming>>
        /\ \A t \in Sessions \ {s} : monitor'[t] = monitor[t]
    BY <1>1 DEF FallbackTimer, PollTick, Deadline, Trigger, TypeInv, TypeOK, store
  <2> QED
    BY <2>3, <2>4, TrackedByStep
<1>2. CASE AcquireSessionLock(s) \/ ResetWorktree(s) \/ ReleaseSessionLock(s)
  <2>1. /\ monitor[s] # "none" /\ UNCHANGED <<missCount, reports, resuming, harvest>>
        /\ \A t \in Sessions \ {s} : monitor'[t] = monitor[t]
    BY <1>2 DEF AcquireSessionLock, ResetWorktree, ReleaseSessionLock, store,
                TypeInv, TypeOK
  <2> QED
    BY <2>1, TrackedByStep
<1>3. CASE LockExpires(s)
  BY <1>3, TrackedByStep DEF LockExpires, process
<1> QED
  BY <1>1, <1>2, <1>3 DEF Monitor

\* The sweeper writes back what it has read: no file is lost, and what it
\* harvests has one.
LEMMA TrackedBySweep ==
  ASSUME TypeInv, TrackedInv, StartSweep \/ FinishSweep
  PROVE  TrackedInv'
<1> USE DEF Engaged, Found, Tracked
<1>1. CASE StartSweep
  BY <1>1, TrackedByStep DEF StartSweep, store
<1>2. CASE FinishSweep /\ UNCHANGED <<missCount, harvest>>
  BY <1>2, TrackedByStep DEF FinishSweep
<1>3. CASE FinishSweep /\ ~UNCHANGED <<missCount, harvest>>
  <2> DEFINE known == {s \in Sessions : sweep.seen[s] # Untracked}
  <2>1. PICK shown \in SUBSET (known \cap Listed) :
          /\ missCount' = [s \in Sessions |->
               CASE s \in known \ shown -> Missed(s)
                 [] s \in shown /\ sweep.seen[s] # 0 -> 0
                 [] OTHER -> missCount[s]]
          /\ harvest' = Harvesting(
                          {s \in known \ shown : Missed(s) = 2}, "sweeper")
    BY <1>3 DEF FinishSweep
  <2>2. \A s \in known : Missed(s) \in {1, 2}
    BY DEF Missed, TypeInv, TypeOK, Untracked
  <2>3. \A s \in Sessions : /\ missCount'[s] = Untracked => missCount[s] = Untracked
                            /\ s \in known \ shown => missCount'[s] # Untracked
    BY <2>1, <2>2 DEF Untracked
  <2>4. harvest \in [Sessions -> HarvestTypes] /\ "sweeper" \in Triggers
    BY DEF TypeInv, TypeOK, HarvestTypes, Triggers
  <2>5. \A s \in Sessions : /\ harvest'[s].at = "posted" => harvest[s].at = "posted"
                            /\ s \notin known \ shown => harvest'[s] = harvest[s]
    BY <2>1, <2>4, HarvestingEffect
  <2>6. UNCHANGED <<reports, monitor, resuming>>
    BY <1>3 DEF FinishSweep
  <2> HIDE DEF known
  <2> QED
    BY <2>3, <2>5, <2>6, TrackedByStep
<1> QED
  BY <1>1, <1>2, <1>3

LEMMA TrackedByProcess ==
  ASSUME TypeInv, TrackedInv, Crash \/ Restart \/ ResumeMonitors
  PROVE  TrackedInv'
<1> USE DEF Engaged, Found, Tracked, store
<1>1. CASE Crash
  BY <1>1, TrackedByStep DEF Crash, Idle
<1>2. CASE Restart
  BY <1>2, TrackedByStep DEF Restart
<1>3. CASE ResumeMonitors
  <2>1. PICK live \in {Listed, {}} :
          /\ harvest' = Harvesting(resuming \ live, "resume")
          /\ monitor' = [s \in Sessions |->
               IF s \in resuming \cap live THEN "locking" ELSE monitor[s]]
    BY <1>3 DEF ResumeMonitors
  <2>2. harvest \in [Sessions -> HarvestTypes] /\ "resume" \in Triggers
    BY DEF TypeInv, TypeOK, HarvestTypes, Triggers
  <2>3. ASSUME NEW s \in Sessions
        PROVE  /\ harvest'[s].at = "posted" => harvest[s].at = "posted"
               /\ s \notin resuming \ live => harvest'[s] = harvest[s]
               /\ s \notin resuming => monitor'[s] = monitor[s]
    BY <2>1, <2>2, HarvestingPostsNothing
  <2>4. UNCHANGED <<missCount, reports>> /\ resuming' = {}
    BY <1>3 DEF ResumeMonitors
  <2> QED
    BY <2>3, <2>4, TrackedByStep
<1> QED
  BY <1>1, <1>2, <1>3

LEMMA TrackedStep == TypeInv /\ TrackedInv /\ [Next]_vars => TrackedInv'
<1> SUFFICES ASSUME TypeInv, TrackedInv, [Next]_vars PROVE TrackedInv'
  OBVIOUS
<1>1. CASE UNCHANGED vars
  BY <1>1, TrackedByStep DEF vars, store, process, Engaged, Found, Tracked
<1>2. ASSUME NEW s \in Sessions,
             AoSpawn(s) \/ AoProgress(s) \/ AoCleansUp(s) \/ AgentWorks(s)
      PROVE  TrackedInv'
  BY <1>2, TrackedByStep
     DEF AoSpawn, AoProgress, AoCleansUp, AgentWorks, store, process,
         Engaged, Found, Tracked
<1> QED
  BY <1>1, <1>2, TrackedByJob, TrackedByMonitor, TrackedByHarvestStep,
     TrackedBySweep, TrackedByProcess DEF Next

\* A monitored or harvested session is tracked until it is reported, through
\* every crash, failed harvest and sweep.
THEOREM NoSessionForgotten == Spec => []TrackedUntilReported
<1>1. TrackedInv => TrackedUntilReported
  BY DEF TrackedInv, TrackedUntilReported, Engaged, Found
<1> QED
  BY <1>1, TypeInit, TypeStep, TrackedInit, TrackedStep, PTL DEF Spec

-----------------------------------------------------------------------------
(* The sweeper harvests orphans only                                        *)

\* A session with a miss is gone, or the last listing left it out.
MissExplained(s, n) == n \in {1, 2} => life[s] = "gone" \/ s \in omitted

\* While a sweep waits for its listing, the counts on disk are those it has
\* read, or belong to a state that was deleted or just created.
OrphanInv ==
  \A s \in Sessions :
    /\ MissExplained(s, missCount[s])
    /\ sweep.on => /\ MissExplained(s, sweep.seen[s])
                   /\ missCount[s] \in {sweep.seen[s], 0, Untracked}
    /\ harvest[s].by = "sweeper" => life[s] = "gone"

LEMMA OrphanInit == Init => OrphanInv
BY DEF Init, OrphanInv, MissExplained, Untracked, NotSweeping, Idle

\* A step that counts no miss and starts no sweep.
LEMMA OrphanByStep ==
  ASSUME OrphanInv, UNCHANGED omitted, sweep' \in {sweep, NotSweeping},
         \A s \in Sessions :
           /\ life[s] = "gone" => life'[s] = "gone"
           /\ missCount'[s] \in {missCount[s], 0, Untracked}
           /\ harvest'[s].by = "sweeper" => harvest[s].by = "sweeper"
  PROVE  OrphanInv'
BY DEF OrphanInv, MissExplained, Untracked, NotSweeping

LEMMA OrphanByHarvestStep ==
  ASSUME TypeInv, OrphanInv, NEW s \in Sessions, Harvest(s)
  PROVE  OrphanInv'
<1>1. UNCHANGED <<life, omitted, sweep>>
  BY DEF Harvest, RecoverPr, ReadStatus, GitCommit, GitPush, EnsurePr, DirtyStep,
         ResolvePr, PostOutcome, FinishHarvest, HarvestError, ao
<1>2. \A t \in Sessions : missCount'[t] \in {missCount[t], 0, Untracked}
  BY DEF Harvest, RecoverPr, ReadStatus, GitCommit, GitPush, EnsurePr, DirtyStep,
         ResolvePr, PostOutcome, FinishHarvest, HarvestError, store, TypeInv,
         TypeOK
<1>3. \A t \in Sessions : harvest'[t].by \in {harvest[t].by, "none"}
  <2>0. harvest \in [Sessions -> HarvestTypes] /\ monitor \in [Sessions -> MonitorSteps]
    BY DEF TypeInv, TypeOK, HarvestTypes, MonitorSteps
  <2>1. CASE FinishHarvest(s) \/ HarvestError(s)
    <3>1. Return(s)
      BY <2>1 DEF FinishHarvest, HarvestError
    <3>2. /\ harvest'[s].by = "none"
          /\ \A t \in Sessions \ {s} : harvest'[t] = harvest[t]
      BY <2>0, <3>1, ReturnEffect DEF Idle
    <3> QED
      BY <3>2
  <2>2. CASE RecoverPr(s) \/ GitCommit(s) \/ GitPush(s) \/ EnsurePr(s)
             \/ PostOutcome(s)
    <3>1. \E at \in Steps : Goto(s, at)
      BY <2>2 DEF RecoverPr, GitCommit, GitPush, EnsurePr, DirtyStep, PostOutcome,
                  Steps
    <3> QED
      BY <2>0, <3>1, GotoEffect
  <2>3. CASE ReadStatus(s) \/ ResolvePr(s)
    BY <2>0, <2>3 DEF ReadStatus, ResolvePr, Goto, HarvestTypes
  <2> QED
    BY <2>1, <2>2, <2>3 DEF Harvest
<1> QED
  BY <1>1, <1>2, <1>3, OrphanByStep

\* What StartSweep reads is explained as it stands.
LEMMA OrphanByStartSweep ==
  ASSUME TypeInv, OrphanInv, StartSweep
  PROVE  OrphanInv'
BY DEF StartSweep, OrphanInv, MissExplained, ao, store, TypeInv, TypeOK

\* The second miss of a live session would be its second omission in a row.
LEMMA OrphanByFinishSweep ==
  ASSUME TypeInv, OrphanInv, FinishSweep
  PROVE  OrphanInv'
<1>1. CASE UNCHANGED <<omitted, missCount, harvest>>
  BY <1>1, OrphanByStep DEF FinishSweep
<1>2. CASE ~UNCHANGED <<omitted, missCount, harvest>>
  <2> DEFINE known == {s \in Sessions : sweep.seen[s] # Untracked}
  <2>1. PICK shown \in SUBSET (known \cap Listed) :
          /\ omitted' = {s \in known \ shown : life[s] # "gone"}
          /\ omitted' \cap omitted = {}
          /\ missCount' = [s \in Sessions |->
               CASE s \in known \ shown -> Missed(s)
                 [] s \in shown /\ sweep.seen[s] # 0 -> 0
                 [] OTHER -> missCount[s]]
          /\ harvest' = Harvesting(
                          {s \in known \ shown : Missed(s) = 2}, "sweeper")
    BY <1>2 DEF FinishSweep
  <2>2. sweep.on /\ UNCHANGED life /\ sweep' = NotSweeping
    BY DEF FinishSweep
  <2>3. ASSUME NEW s \in Sessions
        PROVE  MissExplained(s, missCount[s])'
    <3>1. CASE s \in known \ shown
      BY <2>1, <2>2, <3>1 DEF MissExplained
    <3>2. CASE s \in shown
      <4>1. missCount'[s] \in {0, Untracked}
        BY <2>1, <2>2, <3>2 DEF OrphanInv
      <4> QED
        BY <4>1 DEF MissExplained, Untracked
    <3>3. CASE s \notin known
      <4>1. missCount'[s] \in {0, Untracked}
        BY <2>1, <2>2, <3>3 DEF OrphanInv
      <4> QED
        BY <4>1 DEF MissExplained, Untracked
    <3> QED
      BY <3>1, <3>2, <3>3
  <2>4. ASSUME NEW s \in Sessions, s \in known \ shown, Missed(s) = 2
        PROVE  life[s] = "gone"
    <3>1. sweep.seen[s] \in {1, 2}
      BY <2>4 DEF Missed, TypeInv, TypeOK, Untracked
    <3>2. life[s] = "gone" \/ s \in omitted
      BY <2>2, <3>1 DEF OrphanInv, MissExplained
    <3> QED
      BY <2>1, <2>4, <3>2
  <2>5. ASSUME NEW s \in Sessions, harvest'[s].by = "sweeper"
        PROVE  life'[s] = "gone"
    <3>1. harvest \in [Sessions -> HarvestTypes] /\ "sweeper" \in Triggers
      BY DEF TypeInv, TypeOK, HarvestTypes, Triggers
    <3>2. CASE s \in {t \in known \ shown : Missed(t) = 2}
      BY <2>2, <2>4, <3>2
    <3>3. CASE s \notin {t \in known \ shown : Missed(t) = 2}
      <4>1. harvest'[s] = harvest[s]
        BY <2>1, <3>1, <3>3, HarvestingPostsNothing
      <4> QED
        BY <2>2, <2>5, <4>1 DEF OrphanInv
    <3> QED
      BY <3>2, <3>3
  <2> QED
    BY <2>2, <2>3, <2>5 DEF OrphanInv, NotSweeping
<1> QED
  BY <1>1, <1>2

\* A harvest that the sweeper has not started.
LEMMA HarvestingElsewhere ==
  ASSUME TypeInv, NEW S, NEW by \in Triggers \ {"sweeper"},
         harvest' = Harvesting(S, by), NEW s \in Sessions,
         harvest'[s].by = "sweeper"
  PROVE  harvest[s].by = "sweeper"
<1>1. harvest \in [Sessions -> HarvestTypes]
  BY DEF TypeInv, TypeOK, HarvestTypes
<1>2. CASE s \in S /\ harvest[s].at = "idle"
  BY <1>1, <1>2, HarvestingEffect
<1>3. CASE s \notin S \/ harvest[s].at # "idle"
  BY <1>1, <1>3, HarvestingEffect
<1> QED
  BY <1>2, <1>3

LEMMA OrphanStep == TypeInv /\ OrphanInv /\ [Next]_vars => OrphanInv'
<1> SUFFICES ASSUME TypeInv, OrphanInv, [Next]_vars PROVE OrphanInv'
  OBVIOUS
<1> USE DEF ao, store, process
<1>1. CASE UNCHANGED vars
  BY <1>1, OrphanByStep DEF vars
<1>2. ASSUME NEW s \in Sessions,
             \/ CollectActiveSessions(s) \/ RemoveWorktrees(s)
             \/ DeleteBranches(s) \/ SkipMerged(s) \/ SpawnError(s)
             \/ AcquireSessionLock(s) \/ ResetWorktree(s)
             \/ ReleaseSessionLock(s) \/ LockExpires(s) \/ AoCleansUp(s)
             \/ AgentWorks(s)
      PROVE  OrphanInv'
  <2>1. UNCHANGED <<life, omitted, sweep, missCount, harvest>>
    BY <1>2 DEF CollectActiveSessions, RemoveWorktrees, DeleteBranches, SkipMerged,
         SpawnError, AcquireSessionLock, ResetWorktree, ReleaseSessionLock,
         LockExpires, AoCleansUp, AgentWorks
  <2> QED
    BY <2>1, OrphanByStep
<1>3. ASSUME NEW s \in Sessions, StartMonitor(s) PROVE OrphanInv'
  BY <1>3, OrphanByStep DEF StartMonitor, TypeInv, TypeOK
<1>4. ASSUME NEW s \in Sessions, FallbackTimer(s) \/ PollTick(s) \/ Deadline(s)
      PROVE  OrphanInv'
  <2>1. PICK by \in Triggers \ {"sweeper"} : harvest' = Harvesting({s}, by)
    BY <1>4 DEF FallbackTimer, PollTick, Deadline, Trigger, Triggers
  <2>2. UNCHANGED <<life, omitted, sweep, missCount>>
    BY <1>4 DEF FallbackTimer, PollTick, Deadline, Trigger
  <2> QED
    BY <2>1, <2>2, HarvestingElsewhere, OrphanByStep
<1>5. ASSUME NEW s \in Sessions, AoSpawn(s) \/ AoProgress(s) PROVE OrphanInv'
  <2>1. \A t \in Sessions : life[t] = "gone" => life'[t] = "gone"
    BY <1>5 DEF AoSpawn, AoProgress, TypeInv, TypeOK
  <2>2. UNCHANGED <<omitted, sweep, missCount, harvest>>
    BY <1>5 DEF AoSpawn, AoProgress
  <2> QED
    BY <2>1, <2>2, OrphanByStep
<1>6. CASE Crash
  BY <1>6, OrphanByStep DEF Crash, Idle
<1>7. CASE Restart
  BY <1>7, OrphanByStep DEF Restart
<1>8. CASE ResumeMonitors
  <2>1. \E S : harvest' = Harvesting(S, "resume")
    BY <1>8 DEF ResumeMonitors
  <2>2. UNCHANGED <<life, omitted, sweep, missCount>>
    BY <1>8 DEF ResumeMonitors
  <2> QED
    BY <2>1, <2>2, HarvestingElsewhere, OrphanByStep DEF Triggers
<1> QED
  BY <1>1, <1>2, <1>3, <1>4, <1>5, <1>6, <1>7, <1>8, OrphanByHarvestStep,
     OrphanByStartSweep, OrphanByFinishSweep DEF Next, SpawnJob, Monitor

\* No live session is harvested by the sweeper: as long as no two listings in a
\* row leave a session out, its second miss means that it is gone, over
\* restarts, failed sweeps and states that a sweep has written back.
THEOREM OnlyOrphansSwept == Spec => []SweepHarvestsOrphans
<1>1. OrphanInv => SweepHarvestsOrphans
  BY DEF OrphanInv, SweepHarvestsOrphans
<1> QED
  BY <1>1, TypeInit, TypeStep, OrphanInit, OrphanStep, PTL DEF Spec

-----------------------------------------------------------------------------
(* Who triggers a harvest, and what its monitor does meanwhile              *)

\* Where the monitor of a session may be during a harvest that `by` triggered.
MonitorDuring(by) ==
  CASE by = "timer"    -> {"ending", "none"}
    [] by = "poll"     -> {"harvesting"}
    [] by = "deadline" -> {"overdue"}
    [] by = "resume"   -> {"none"}
    [] OTHER           -> MonitorSteps

\* A job is done before anything happens to its session, and a session that
\* will be resumed is left alone until then.
OrderInv ==
  /\ bridge # "resuming" => resuming = {}
  /\ sweep.on => bridge = "up"
  /\ \A s \in Sessions :
       /\ Engaged(s) \/ s \in Tracked => job[s] = "done"
       /\ sweep.on /\ sweep.seen[s] # Untracked => job[s] = "done"
       /\ s \in resuming => monitor[s] = "none" /\ harvest[s].at = "idle"
       /\ monitor[s] \in MonitorDuring(harvest[s].by)
       /\ harvest[s].by = "resume" => bridge = "up"
       /\ harvest[s].by = "none" => harvest[s].at = "idle"
       /\ bridge = "down" => /\ monitor[s] = "none" /\ harvest[s].at = "idle"
                             /\ job[s] \in {"new", "done"}

LEMMA OrderInit == Init => OrderInv
BY DEF Init, OrderInv, Engaged, Tracked, MonitorDuring, MonitorSteps, Idle,
       NotSweeping

\* A step that starts no harvest and no monitor.
LEMMA OrderByStep ==
  ASSUME OrderInv, UNCHANGED <<bridge, resuming, sweep>>,
         \A s \in Sessions :
           /\ job[s] = "done" => job'[s] = "done"
           /\ bridge = "down" => job'[s] \in {"new", "done"}
           /\ missCount'[s] \in {missCount[s], Untracked}
           /\ monitor[s] = "none" => monitor'[s] = "none"
           /\ harvest[s].at = "idle" => harvest'[s].at = "idle"
           /\ harvest'[s].by \in {harvest[s].by, "none"}
           /\ harvest'[s].by = "none" =>
                harvest'[s].at = "idle" \/ harvest[s].by = "none"
           /\ monitor'[s] \in MonitorDuring(harvest'[s].by)
  PROVE  OrderInv'
BY DEF OrderInv, Engaged, Tracked

LEMMA OrderByHarvestStep ==
  ASSUME TypeInv, OrderInv, NEW s \in Sessions, Harvest(s)
  PROVE  OrderInv'
<1>0. harvest \in [Sessions -> HarvestTypes] /\ monitor \in [Sessions -> MonitorSteps]
  BY DEF TypeInv, TypeOK, HarvestTypes, MonitorSteps
<1>1. UNCHANGED <<bridge, resuming, sweep, job>>
  BY DEF Harvest, RecoverPr, ReadStatus, GitCommit, GitPush, EnsurePr, DirtyStep,
         ResolvePr, PostOutcome, FinishHarvest, HarvestError
<1>2. \A t \in Sessions : missCount'[t] \in {missCount[t], Untracked}
  BY DEF Harvest, RecoverPr, ReadStatus, GitCommit, GitPush, EnsurePr, DirtyStep,
         ResolvePr, PostOutcome, FinishHarvest, HarvestError, store, TypeInv,
         TypeOK
<1>3. harvest[s].at # "idle"
  BY DEF Harvest, RecoverPr, ReadStatus, GitCommit, GitPush, EnsurePr, DirtyStep,
         ResolvePr, PostOutcome, FinishHarvest, HarvestError
<1>4. CASE FinishHarvest(s) \/ HarvestError(s)
  <2>1. Return(s)
    BY <1>4 DEF FinishHarvest, HarvestError
  <2>2. /\ harvest'[s].by = "none" /\ harvest'[s].at = "idle"
        /\ monitor'[s] \in MonitorSteps
        /\ \A t \in Sessions \ {s} :
             harvest'[t] = harvest[t] /\ monitor'[t] = monitor[t]
    BY <1>0, <2>1, ReturnEffect DEF Idle
  <2>3. monitor[s] = "none" => monitor'[s] = "none"
    BY <1>0, <2>1, ReturnEffect
  <2>4. monitor'[s] \in MonitorDuring(harvest'[s].by)
    BY <2>2 DEF MonitorDuring
  <2>5. \A t \in Sessions \ {s} : monitor'[t] \in MonitorDuring(harvest'[t].by)
    BY <2>2 DEF OrderInv
  <2> QED
    BY <1>1, <1>2, <2>2, <2>3, <2>4, <2>5, OrderByStep DEF OrderInv
<1>5. CASE ~(FinishHarvest(s) \/ HarvestError(s))
  <2>1. UNCHANGED monitor
    BY <1>5 DEF Harvest, RecoverPr, ReadStatus, GitCommit, GitPush, EnsurePr,
                DirtyStep, ResolvePr, PostOutcome
  <2>2. harvest'[s].by = harvest[s].by /\ \A t \in Sessions \ {s} : harvest'[t] = harvest[t]
    <3>1. CASE RecoverPr(s) \/ GitCommit(s) \/ GitPush(s) \/ EnsurePr(s)
               \/ PostOutcome(s)
      <4>1. \E at \in Steps : Goto(s, at)
        BY <3>1 DEF RecoverPr, GitCommit, GitPush, EnsurePr, DirtyStep,
                    PostOutcome, Steps
      <4> QED
        BY <1>0, <4>1, GotoEffect
    <3>2. CASE ReadStatus(s) \/ ResolvePr(s)
      BY <1>0, <3>2 DEF ReadStatus, ResolvePr, Goto, HarvestTypes
    <3> QED
      BY <1>5, <3>1, <3>2 DEF Harvest
  <2>3. \A t \in Sessions : monitor'[t] \in MonitorDuring(harvest'[t].by)
    BY <2>1, <2>2 DEF OrderInv
  <2>4. harvest[s].by # "none"
    BY <1>3 DEF OrderInv
  <2> QED
    BY <1>1, <1>2, <1>3, <2>1, <2>2, <2>3, <2>4, OrderByStep DEF OrderInv
<1> QED
  BY <1>4, <1>5

LEMMA OrderByJob ==
  ASSUME TypeInv, OrderInv, NEW s \in Sessions,
         SpawnJob(s) \/ SkipMerged(s) \/ SpawnError(s)
  PROVE  OrderInv'
<1> USE DEF store, SpawnStep
<1>1. CASE ~StartMonitor(s)
  <2>1. UNCHANGED <<bridge, resuming, sweep, missCount, monitor, harvest>>
    BY <1>1 DEF SpawnJob, CollectActiveSessions, RemoveWorktrees, DeleteBranches,
                SkipMerged, SpawnError
  <2>2. \A t \in Sessions : /\ job[t] = "done" => job'[t] = "done"
                            /\ bridge = "down" => job'[t] \in {"new", "done"}
    BY <1>1 DEF SpawnJob, CollectActiveSessions, RemoveWorktrees, DeleteBranches,
                SkipMerged, SpawnError, OrderInv, TypeInv, TypeOK
  <2> QED
    BY <2>1, <2>2, OrderByStep DEF OrderInv
<1>2. CASE StartMonitor(s)
  <2>1. /\ job[s] = "spawning" /\ job'[s] = "done" /\ monitor'[s] = "locking"
        /\ \A t \in Sessions \ {s} : /\ job'[t] = job[t]
                                     /\ monitor'[t] = monitor[t]
                                     /\ missCount'[t] = missCount[t]
    BY <1>2 DEF StartMonitor, TypeInv, TypeOK
  <2>2. UNCHANGED <<bridge, resuming, sweep, harvest>>
    BY <1>2 DEF StartMonitor
  <2>3. /\ harvest[s].at = "idle" /\ s \notin resuming /\ bridge # "down"
        /\ harvest[s].by = "none"
    BY <2>1 DEF OrderInv, Engaged, TypeInv, IdleHasNoTrigger
  <2>4. "locking" \in MonitorDuring("none")
    BY DEF MonitorDuring, MonitorSteps
  <2> QED
    BY <2>1, <2>2, <2>3, <2>4 DEF OrderInv, Engaged, Tracked
<1> QED
  BY <1>1, <1>2

\* The monitor and the harvest of one session move, after its job.
LEMMA OrderByOne ==
  ASSUME OrderInv, NEW s \in Sessions, job[s] = "done",
         s \notin resuming, bridge # "down",
         UNCHANGED <<bridge, resuming, sweep, missCount, job>>,
         \A t \in Sessions \ {s} : monitor'[t] = monitor[t] /\ harvest'[t] = harvest[t],
         monitor'[s] \in MonitorDuring(harvest'[s].by),
         harvest'[s].by = "resume" => bridge = "up",
         harvest'[s].by = "none" => harvest'[s].at = "idle"
  PROVE  OrderInv'
<1>1. \A t \in Sessions : /\ Engaged(t)' => Engaged(t) \/ t = s
                          /\ t \in Tracked' <=> t \in Tracked
  BY DEF Engaged, Tracked
<1>2. ASSUME NEW t \in Sessions \ {s}
      PROVE  /\ t \in resuming => monitor'[t] = "none" /\ harvest'[t].at = "idle"
             /\ monitor'[t] \in MonitorDuring(harvest'[t].by)
             /\ harvest'[t].by = "resume" => bridge = "up"
             /\ harvest'[t].by = "none" => harvest'[t].at = "idle"
  BY DEF OrderInv
<1> QED
  BY <1>1, <1>2 DEF OrderInv

LEMMA OrderByTrigger ==
  ASSUME TypeInv, OrderInv, NEW s \in Sessions,
         NEW by \in {"timer", "poll", "deadline"},
         NEW wait \in MonitorDuring(by), NEW next \in {"ending", "resetting"},
         Trigger(s, by, wait, next)
  PROVE  OrderInv'
<1>0. harvest \in [Sessions -> HarvestTypes] /\ by \in Triggers
  BY DEF TypeInv, TypeOK, HarvestTypes, Triggers
<1>1. /\ monitor[s] = "polling"
      /\ UNCHANGED <<bridge, resuming, sweep, missCount, job>>
      /\ monitor'[s] = IF harvest[s].at = "idle" THEN wait ELSE next
      /\ harvest' = Harvesting({s}, by)
      /\ \A t \in Sessions \ {s} : monitor'[t] = monitor[t]
  BY DEF Trigger, store, TypeInv, TypeOK
<1>2. s \notin resuming /\ job[s] = "done" /\ bridge # "down"
  BY <1>1 DEF OrderInv, Engaged
<1>3. \A t \in Sessions : t \notin {s} => harvest'[t] = harvest[t]
  BY <1>0, <1>1, HarvestingPostsNothing
<1>4. CASE harvest[s].at = "idle"
  <2>1. harvest'[s].by = by
    BY <1>0, <1>1, <1>4, HarvestingStarts
  <2> QED
    BY <1>1, <1>2, <1>3, <1>4, <2>1, OrderByOne
<1>5. CASE harvest[s].at # "idle"
  <2>1. harvest'[s] = harvest[s]
    BY <1>0, <1>1, <1>5, HarvestingKeeps
  <2>2. next \in MonitorDuring(harvest[s].by)
    <3>1. "polling" \in MonitorDuring(harvest[s].by)
      BY <1>1 DEF OrderInv
    <3>2. harvest[s].by \notin {"timer", "poll", "deadline", "resume"}
      BY <3>1 DEF MonitorDuring
    <3> QED
      BY <3>2 DEF MonitorDuring, MonitorSteps
  <2> QED
    <3>1. /\ harvest[s].by = "resume" => bridge = "up"
          /\ harvest[s].by = "none" => harvest[s].at = "idle"
      BY DEF OrderInv
    <3>2. monitor'[s] \in MonitorDuring(harvest'[s].by)
      BY <1>1, <1>5, <2>1, <2>2
    <3> QED
      BY <1>1, <1>2, <1>3, <2>1, <3>1, <3>2, OrderByOne
<1> QED
  BY <1>4, <1>5

LEMMA OrderByMonitor ==
  ASSUME TypeInv, OrderInv, NEW s \in Sessions, Monitor(s) \/ LockExpires(s)
  PROVE  OrderInv'
<1>0. monitor \in [Sessions -> MonitorSteps]
  BY DEF TypeInv, TypeOK, MonitorSteps
<1>1. CASE FallbackTimer(s) \/ PollTick(s) \/ Deadline(s)
  BY <1>1, OrderByTrigger DEF FallbackTimer, PollTick, Deadline, MonitorDuring
<1>2. CASE AcquireSessionLock(s) \/ ResetWorktree(s) \/ ReleaseSessionLock(s)
  <2>1. /\ UNCHANGED <<bridge, resuming, sweep, missCount, job, harvest>>
        /\ \A t \in Sessions \ {s} : monitor'[t] = monitor[t]
        /\ \/ monitor[s] = "locking" /\ monitor'[s] = "polling"
           \/ monitor[s] = "resetting" /\ monitor'[s] = "ending"
           \/ monitor[s] = "ending" /\ monitor'[s] = "none"
    BY <1>0, <1>2 DEF AcquireSessionLock, ResetWorktree, ReleaseSessionLock,
                      store
  <2>2. monitor'[s] \in MonitorDuring(harvest[s].by)
    BY <2>1 DEF OrderInv, MonitorDuring, MonitorSteps
  <2> QED
    BY <2>1, <2>2, OrderByStep DEF OrderInv
<1>3. CASE LockExpires(s)
  BY <1>3, OrderByStep DEF LockExpires, process, OrderInv
<1> QED
  BY <1>1, <1>2, <1>3 DEF Monitor

\* A sweep knows only sessions whose job is done.
LEMMA OrderBySweep ==
  ASSUME TypeInv, OrderInv, StartSweep \/ FinishSweep
  PROVE  OrderInv'
<1>0. harvest \in [Sessions -> HarvestTypes] /\ monitor \in [Sessions -> MonitorSteps]
  BY DEF TypeInv, TypeOK, HarvestTypes, MonitorSteps
<1>1. CASE StartSweep
  <2>1. /\ UNCHANGED <<bridge, resuming, missCount, monitor, harvest, job>>
        /\ bridge = "up" /\ sweep'.seen = missCount
    BY <1>1 DEF StartSweep, store
  <2> QED
    BY <2>1 DEF OrderInv, Engaged, Tracked
<1>2. CASE FinishSweep
  <2> DEFINE known == {s \in Sessions : sweep.seen[s] # Untracked}
  <2>1. /\ sweep.on /\ sweep' = NotSweeping
        /\ UNCHANGED <<bridge, resuming, monitor, job>>
    BY <1>2 DEF FinishSweep
  <2>2. bridge = "up" /\ resuming = {}
    BY <2>1 DEF OrderInv
  <2>3. ASSUME NEW s \in Sessions
        PROVE  /\ \/ harvest'[s] = harvest[s]
                  \/ s \in known /\ harvest'[s].by = "sweeper"
               /\ s \in Tracked' => s \in Tracked \cup known
    <3>1. CASE UNCHANGED <<missCount, harvest>>
      BY <3>1 DEF Tracked
    <3>2. CASE ~UNCHANGED <<missCount, harvest>>
      <4>1. PICK shown \in SUBSET (known \cap Listed) :
              /\ missCount' = [t \in Sessions |->
                   CASE t \in known \ shown -> Missed(t)
                     [] t \in shown /\ sweep.seen[t] # 0 -> 0
                     [] OTHER -> missCount[t]]
              /\ harvest' = Harvesting(
                              {t \in known \ shown : Missed(t) = 2}, "sweeper")
        BY <1>2, <3>2 DEF FinishSweep
      <4>2. "sweeper" \in Triggers
        BY DEF Triggers
      <4>3. \/ harvest'[s] = harvest[s]
            \/ s \in known /\ harvest'[s].by = "sweeper"
        BY <1>0, <4>1, <4>2, HarvestingEffect
      <4>4. s \in Tracked' => s \in Tracked \cup known
        BY <4>1 DEF Tracked
      <4> QED
        BY <4>3, <4>4
    <3> QED
      BY <3>1, <3>2
  <2>4. \A s \in known : job[s] = "done"
    BY <2>1 DEF OrderInv
  <2>5. \A s \in Sessions : monitor[s] \in MonitorDuring("sweeper")
    BY <1>0 DEF MonitorDuring
  <2> HIDE DEF known
  <2> QED
    BY <2>1, <2>2, <2>3, <2>4, <2>5 DEF OrderInv, Engaged, NotSweeping
<1> QED
  BY <1>1, <1>2

LEMMA OrderByProcess ==
  ASSUME TypeInv, OrderInv, Crash \/ Restart \/ ResumeMonitors
  PROVE  OrderInv'
<1>0. harvest \in [Sessions -> HarvestTypes] /\ monitor \in [Sessions -> MonitorSteps]
  BY DEF TypeInv, TypeOK, HarvestTypes, MonitorSteps
<1>1. CASE Crash
  <2>1. /\ resuming' = {} /\ sweep'.on = FALSE /\ bridge' = "down"
        /\ UNCHANGED missCount
        /\ \A s \in Sessions :
             /\ job'[s] = IF job[s] = "new" THEN "new" ELSE "done"
             /\ monitor'[s] = "none" /\ harvest'[s].at = "idle"
             /\ harvest'[s].by = "none"
    BY <1>1 DEF Crash, NotSweeping, Idle, store
  <2>2. "none" \in MonitorDuring("none")
    BY DEF MonitorDuring, MonitorSteps
  <2> QED
    BY <2>1, <2>2 DEF OrderInv, Engaged, Tracked
<1>2. CASE Restart
  BY <1>2 DEF Restart, OrderInv, Engaged, Tracked, store
<1>3. CASE ResumeMonitors
  <2>1. PICK live \in {Listed, {}} :
          /\ harvest' = Harvesting(resuming \ live, "resume")
          /\ monitor' = [s \in Sessions |->
               IF s \in resuming \cap live THEN "locking" ELSE monitor[s]]
    BY <1>3 DEF ResumeMonitors
  <2>2. /\ bridge = "resuming" /\ bridge' = "up" /\ resuming' = {}
        /\ UNCHANGED <<missCount, job, sweep>>
    BY <1>3 DEF ResumeMonitors, store
  <2>3. ASSUME NEW s \in Sessions, s \notin resuming
        PROVE  harvest'[s] = harvest[s] /\ monitor'[s] = monitor[s]
    BY <1>0, <2>1, <2>3, HarvestingPostsNothing DEF Triggers
  <2>4. ASSUME NEW s \in resuming \cap live
        PROVE  harvest'[s] = harvest[s] /\ monitor'[s] = "locking"
    <3>1. s \in Sessions /\ s \notin resuming \ live /\ "resume" \in Triggers
      BY DEF TypeInv, TypeOK, Triggers
    <3>2. harvest'[s] = harvest[s]
      BY <1>0, <2>1, <3>1, HarvestingPostsNothing
    <3> QED
      BY <2>1, <3>1, <3>2
  <2>5. ASSUME NEW s \in resuming \ live
        PROVE  harvest'[s].by = "resume" /\ monitor'[s] = "none"
    <3>1. s \in Sessions /\ monitor[s] = "none" /\ harvest[s].at = "idle"
      BY DEF OrderInv, TypeInv, TypeOK
    <3>2. harvest'[s].by = "resume"
      <4> DEFINE left == resuming \ live
      <4>1. "resume" \in Triggers
        BY DEF Triggers
      <4>2. s \in left /\ harvest' = Harvesting(left, "resume")
        BY <2>1
      <4> HIDE DEF left
      <4> QED
        BY <1>0, <3>1, <4>1, <4>2, HarvestingStarts
    <3> QED
      BY <2>1, <3>1, <3>2
  <2>6. \A s \in resuming :
          job[s] = "done" /\ harvest[s].at = "idle" /\ harvest[s].by = "none"
    BY DEF OrderInv, Engaged, TypeInv, TypeOK, IdleHasNoTrigger
  <2>7. "locking" \in MonitorDuring("none") /\ "none" \in MonitorDuring("resume")
    BY DEF MonitorDuring, MonitorSteps
  <2>8. ASSUME NEW s \in Sessions
        PROVE  /\ Engaged(s)' \/ s \in Tracked' => job'[s] = "done"
               /\ monitor'[s] \in MonitorDuring(harvest'[s].by)
               /\ harvest'[s].by = "none" => harvest'[s].at = "idle"
    <3>1. CASE s \notin resuming
      BY <2>2, <2>3, <3>1 DEF OrderInv, Engaged, Tracked
    <3>2. CASE s \in resuming \cap live
      BY <2>2, <2>4, <2>6, <2>7, <3>2
    <3>3. CASE s \in resuming \ live
      BY <2>2, <2>5, <2>6, <2>7, <3>3
    <3> QED
      BY <3>1, <3>2, <3>3
  <2>9. ~sweep.on
    BY <2>2 DEF OrderInv
  <2> QED
    BY <2>2, <2>8, <2>9 DEF OrderInv
<1> QED
  BY <1>1, <1>2, <1>3

LEMMA OrderStep == TypeInv /\ OrderInv /\ [Next]_vars => OrderInv'
<1> SUFFICES ASSUME TypeInv, OrderInv, [Next]_vars PROVE OrderInv'
  OBVIOUS
<1>1. CASE UNCHANGED vars
  BY <1>1, OrderByStep DEF vars, store, process, OrderInv
<1>2. ASSUME NEW s \in Sessions,
             AoSpawn(s) \/ AoProgress(s) \/ AoCleansUp(s) \/ AgentWorks(s)
      PROVE  OrderInv'
  <2>1. UNCHANGED <<bridge, resuming, sweep, job, missCount, monitor, harvest>>
    BY <1>2 DEF AoSpawn, AoProgress, AoCleansUp, AgentWorks, store, process
  <2> QED
    BY <2>1, OrderByStep DEF OrderInv
<1> QED
  BY <1>1, <1>2, OrderByJob, OrderByMonitor, OrderByHarvestStep, OrderBySweep,
     OrderByProcess DEF Next

-----------------------------------------------------------------------------
(* session.completed tells the truth                                        *)

\* What a harvest, by the place it is at, knows of the work it saw.
Truthful(h, w, l) ==
  /\ h.saw \in Unpushed /\ l # "gone" => w # "none"
  /\ h.at = "push" => w # "edited"
  /\ h.at = "resolve" /\ h.saw \in Unpushed => w # "edited"
  /\ h.at = "ensurePr" => w \notin Unpushed
  /\ h.at = "completed" /\ h.saw \in Unpushed => w \notin Unpushed \/ h.lost
  /\ h.at \in {"commit", "push", "ensurePr"} => h.saw = "edited"
  /\ h.at \in {"idle", "status", "recover"} => h.saw = "none"

PushedInv == \A s \in Sessions : Truthful(harvest[s], work[s], life[s])

LEMMA PushedInit == Init => PushedInv
BY DEF Init, PushedInv, Truthful, Idle, Unpushed

LEMMA FreshIsTruthful ==
  ASSUME NEW h, h.saw = "none", h.at \in {"idle", "status", "recover"},
         NEW w, NEW l
  PROVE  Truthful(h, w, l)
BY DEF Truthful, Unpushed

\* A step that does nothing to the work, and to harvests at most starts or ends
\* some.
LEMMA PushedByStep ==
  ASSUME PushedInv, UNCHANGED work,
         \A s \in Sessions :
           /\ life[s] = "gone" => life'[s] = "gone"
           /\ \/ harvest'[s] = harvest[s]
              \/ harvest'[s].saw = "none"
                   /\ harvest'[s].at \in {"idle", "status", "recover"}
  PROVE  PushedInv'
<1> SUFFICES ASSUME NEW s \in Sessions
             PROVE  Truthful(harvest[s], work[s], life[s])'
  BY DEF PushedInv
<1>1. CASE harvest'[s] = harvest[s]
  BY <1>1 DEF PushedInv, Truthful
<1>2. CASE harvest'[s].saw = "none"
             /\ harvest'[s].at \in {"idle", "status", "recover"}
  BY <1>2, FreshIsTruthful
<1> QED
  BY <1>1, <1>2

\* One session's harvest or work moves.
LEMMA PushedByOne ==
  ASSUME PushedInv, NEW s \in Sessions, UNCHANGED life,
         \A t \in Sessions \ {s} : harvest'[t] = harvest[t] /\ work'[t] = work[t],
         Truthful(harvest'[s], work'[s], life[s])
  PROVE  PushedInv'
BY DEF PushedInv

LEMMA PushedByHarvestStep ==
  ASSUME TypeInv, PushedInv, NEW s \in Sessions, Harvest(s)
  PROVE  PushedInv'
<1>0. /\ harvest \in [Sessions -> HarvestTypes]
      /\ monitor \in [Sessions -> MonitorSteps]
      /\ work \in [Sessions -> WorkStates] /\ work[s] \in WorkStates
  BY DEF TypeInv, TypeOK, HarvestTypes, MonitorSteps
<1>a. Truthful(harvest[s], work[s], life[s])
  BY DEF PushedInv
<1>b. UNCHANGED life
  BY DEF Harvest, RecoverPr, ReadStatus, GitCommit, GitPush, EnsurePr, DirtyStep,
         ResolvePr, PostOutcome, FinishHarvest, HarvestError, ao
<1>1. ASSUME NEW at \in Steps, Goto(s, at)
      PROVE  /\ harvest'[s].at = at /\ harvest'[s].saw = harvest[s].saw
             /\ harvest'[s].lost = harvest[s].lost
             /\ \A t \in Sessions \ {s} : harvest'[t] = harvest[t]
  BY <1>0, <1>1, GotoEffect
<1>2. CASE RecoverPr(s)
  <2>1. harvest[s].at = "recover" /\ UNCHANGED work
    BY <1>2 DEF RecoverPr, ao
  <2>2. PICK at \in {"completed", "failed"} : Goto(s, at)
    BY <1>2 DEF RecoverPr
  <2>3. at \in Steps
    BY DEF Steps
  <2> QED
    BY <1>a, <1>b, <1>1, <2>1, <2>2, <2>3, PushedByOne DEF Truthful, Unpushed
<1>3. CASE ReadStatus(s)
  <2>1. harvest[s].at = "status" /\ UNCHANGED work
    BY <1>3 DEF ReadStatus, ao
  <2>2. CASE Goto(s, "resolve")
    <3>1. "resolve" \in Steps
      BY DEF Steps
    <3> QED
      BY <1>a, <1>b, <1>1, <2>1, <2>2, <3>1, PushedByOne DEF Truthful, Unpushed
  <2>3. CASE harvest' = [harvest EXCEPT ![s].saw = work[s],
                           ![s].at = IF work[s] = "edited" THEN "commit"
                                                           ELSE "resolve"]
    <3>1. /\ harvest'[s].saw = work[s]
          /\ harvest'[s].at = IF work[s] = "edited" THEN "commit" ELSE "resolve"
          /\ \A t \in Sessions \ {s} : harvest'[t] = harvest[t]
      BY <1>0, <2>3 DEF HarvestTypes
    <3> QED
      BY <1>b, <2>1, <3>1, PushedByOne DEF Truthful, Unpushed
  <2> QED
    BY <1>3, <2>2, <2>3 DEF ReadStatus
<1>4. CASE GitCommit(s)
  <2>1. /\ harvest[s].at = "commit"
        /\ \/ Goto(s, "push") /\ work' = [work EXCEPT ![s] = Committed(@)]
           \/ Goto(s, "error") /\ UNCHANGED work
    BY <1>0, <1>4 DEF GitCommit, DirtyStep
  <2>2. "push" \in Steps /\ "error" \in Steps
    BY DEF Steps
  <2>3. /\ Committed(work[s]) # "edited"
        /\ work[s] # "none" => Committed(work[s]) # "none"
    BY DEF Committed
  <2> QED
    BY <1>0, <1>a, <1>b, <1>1, <2>1, <2>2, <2>3, PushedByOne
       DEF Truthful, Unpushed
<1>5. CASE GitPush(s)
  <2>1. /\ harvest[s].at = "push"
        /\ \/ Goto(s, "ensurePr") /\ work' = [work EXCEPT ![s] = Pushed(@)]
           \/ Goto(s, "error") /\ UNCHANGED work
    BY <1>0, <1>5 DEF GitPush, DirtyStep
  <2>2. "ensurePr" \in Steps /\ "error" \in Steps
    BY DEF Steps
  <2>3. /\ work[s] # "edited" => Pushed(work[s]) \notin Unpushed
        /\ work[s] # "none" => Pushed(work[s]) # "none"
    BY DEF Pushed, Unpushed
  <2> QED
    BY <1>0, <1>a, <1>b, <1>1, <2>1, <2>2, <2>3, PushedByOne DEF Truthful
<1>6. CASE EnsurePr(s)
  <2>1. /\ harvest[s].at = "ensurePr"
        /\ \/ Goto(s, "completed") /\ work' = [work EXCEPT ![s] = WithPr(@)]
           \/ Goto(s, "error") /\ UNCHANGED work
    BY <1>0, <1>6 DEF EnsurePr, DirtyStep
  <2>2. "completed" \in Steps /\ "error" \in Steps
    BY DEF Steps
  <2>3. /\ work[s] \notin Unpushed => WithPr(work[s]) \notin Unpushed
        /\ work[s] # "none" => WithPr(work[s]) # "none"
    BY DEF WithPr, Unpushed
  <2> QED
    BY <1>0, <1>a, <1>b, <1>1, <2>1, <2>2, <2>3, PushedByOne DEF Truthful
<1>7. CASE ResolvePr(s)
  <2>1. PICK outcome \in {"completed", "failed"} :
          \/ Goto(s, outcome) /\ work' = [work EXCEPT ![s] = WithPr(Pushed(@))]
          \/ Goto(s, outcome) /\ work' = [work EXCEPT ![s] = Pushed(@)]
          \/ /\ harvest' = [harvest EXCEPT ![s].at = outcome, ![s].lost = TRUE]
             /\ UNCHANGED work
    BY <1>7 DEF ResolvePr
  <2>2. harvest[s].at = "resolve" /\ outcome \in Steps
    BY <1>7 DEF ResolvePr, Steps
  <2>3. \A w \in {Pushed(work[s]), WithPr(Pushed(work[s]))} :
          /\ work[s] # "edited" => w \notin Unpushed
          /\ work[s] # "none" => w # "none"
    BY DEF Pushed, WithPr, Unpushed
  <2>4. ASSUME NEW w \in {Pushed(work[s]), WithPr(Pushed(work[s]))},
               Goto(s, outcome), work' = [work EXCEPT ![s] = w]
        PROVE  PushedInv'
    BY <1>0, <1>a, <1>b, <1>1, <2>2, <2>3, <2>4, PushedByOne DEF Truthful
  <2>5. CASE /\ harvest' = [harvest EXCEPT ![s].at = outcome, ![s].lost = TRUE]
             /\ UNCHANGED work
    <3>1. /\ harvest'[s].at = outcome /\ harvest'[s].lost = TRUE
          /\ harvest'[s].saw = harvest[s].saw
          /\ \A t \in Sessions \ {s} : harvest'[t] = harvest[t]
      BY <1>0, <2>5 DEF HarvestTypes
    <3> QED
      BY <1>a, <1>b, <2>5, <3>1, PushedByOne DEF Truthful
  <2> QED
    BY <2>1, <2>4, <2>5
<1>8. CASE PostOutcome(s)
  <2>1. "posted" \in Steps /\ Goto(s, "posted") /\ UNCHANGED work
    BY <1>8 DEF PostOutcome, Steps, ao
  <2> QED
    BY <1>a, <1>b, <1>1, <2>1, PushedByOne DEF Truthful
<1>9. CASE FinishHarvest(s) \/ HarvestError(s)
  <2>1. Return(s) /\ UNCHANGED work
    BY <1>9 DEF FinishHarvest, HarvestError, ao
  <2>2. /\ harvest'[s].saw = "none" /\ harvest'[s].at = "idle"
        /\ \A t \in Sessions \ {s} : harvest'[t] = harvest[t]
    BY <1>0, <2>1, ReturnEffect DEF Idle
  <2> QED
    BY <1>b, <2>1, <2>2, PushedByStep
<1> QED
  BY <1>2, <1>3, <1>4, <1>5, <1>6, <1>7, <1>8, <1>9 DEF Harvest

\* A harvest that starts has seen nothing.
LEMMA PushedByHarvesting ==
  ASSUME TypeInv, PushedInv, UNCHANGED <<work, life>>,
         NEW S, NEW by \in Triggers, harvest' = Harvesting(S, by)
  PROVE  PushedInv'
<1>1. harvest \in [Sessions -> HarvestTypes]
  BY DEF TypeInv, TypeOK, HarvestTypes
<1>2. ASSUME NEW s \in Sessions
      PROVE  \/ harvest'[s] = harvest[s]
             \/ harvest'[s].saw = "none"
                  /\ harvest'[s].at \in {"idle", "status", "recover"}
  BY <1>1, HarvestingEffect
<1> QED
  BY <1>2, PushedByStep

\* The monitor cleans a worktree that no harvest but the sweeper's is at.
LEMMA PushedByReset ==
  ASSUME TypeInv, OrderInv, OrphanInv, PushedInv, NEW s \in Sessions,
         ResetWorktree(s)
  PROVE  PushedInv'
<1>1. /\ monitor[s] = "resetting" /\ UNCHANGED <<life, harvest>>
      /\ \A t \in Sessions \ {s} : work'[t] = work[t]
      /\ work'[s] = work[s] \/ work'[s] = "none"
  BY DEF ResetWorktree, TypeInv, TypeOK
<1>2. harvest[s].by \in {"none", "sweeper"}
  BY <1>1 DEF OrderInv, MonitorDuring, TypeInv, TypeOK, Triggers
<1>3. Truthful(harvest[s], work[s], life[s])
  BY DEF PushedInv
<1>4. Truthful(harvest'[s], work'[s], life[s])
  <2>1. CASE work'[s] = work[s]
    BY <1>1, <1>3, <2>1
  <2>2. CASE work'[s] = "none"
    <3>1. CASE harvest[s].by = "none"
      <4>1. harvest[s].at = "idle" /\ harvest[s].saw = "none"
        BY <1>3, <3>1 DEF OrderInv, Truthful
      <4> QED
        BY <1>1, <4>1, FreshIsTruthful
    <3>2. CASE harvest[s].by = "sweeper"
      <4>1. life[s] = "gone"
        BY <3>2 DEF OrphanInv
      <4> QED
        BY <1>1, <1>3, <2>2, <4>1 DEF Truthful, Unpushed
    <3> QED
      BY <1>2, <3>1, <3>2
  <2> QED
    BY <1>1, <2>1, <2>2
<1> QED
  BY <1>1, <1>4, PushedByOne

\* The agent only goes forward, and does not begin after it was seen at work.
LEMMA PushedByAgent ==
  ASSUME TypeInv, PushedInv, NEW s \in Sessions, AgentWorks(s)
  PROVE  PushedInv'
<1>1. /\ life[s] # "gone" /\ UNCHANGED <<life, harvest>>
      /\ \A t \in Sessions \ {s} : work'[t] = work[t]
      /\ \/ work[s] = "none" /\ work'[s] = "edited"
         \/ work[s] = "edited" /\ work'[s] = "committed"
         \/ work[s] = "committed" /\ work'[s] = "pushed"
         \/ work[s] = "pushed" /\ work'[s] = "pr"
  BY DEF AgentWorks, store, process, TypeInv, TypeOK
<1>2. Truthful(harvest'[s], work'[s], life[s])
  BY <1>1 DEF PushedInv, Truthful, Unpushed
<1> QED
  BY <1>1, <1>2, PushedByOne

LEMMA PushedStep ==
  TypeInv /\ OrderInv /\ OrphanInv /\ PushedInv /\ [Next]_vars => PushedInv'
<1> SUFFICES ASSUME TypeInv, OrderInv, OrphanInv, PushedInv, [Next]_vars
             PROVE  PushedInv'
  OBVIOUS
<1> USE DEF ao, store, process
<1>1. CASE UNCHANGED vars
  BY <1>1, PushedByStep DEF vars
<1>2. ASSUME NEW s \in Sessions,
             \/ SpawnJob(s) \/ SkipMerged(s) \/ SpawnError(s)
             \/ AcquireSessionLock(s) \/ ReleaseSessionLock(s)
             \/ LockExpires(s) \/ AoCleansUp(s)
      PROVE  PushedInv'
  <2>1. UNCHANGED <<life, work, harvest>>
    BY <1>2 DEF SpawnJob, CollectActiveSessions, RemoveWorktrees, DeleteBranches,
                StartMonitor, SkipMerged, SpawnError, AcquireSessionLock,
                ReleaseSessionLock, LockExpires, AoCleansUp
  <2> QED
    BY <2>1, PushedByStep
<1>3. ASSUME NEW s \in Sessions, FallbackTimer(s) \/ PollTick(s) \/ Deadline(s)
      PROVE  PushedInv'
  <2>1. PICK by \in Triggers : harvest' = Harvesting({s}, by)
    BY <1>3 DEF FallbackTimer, PollTick, Deadline, Trigger, Triggers
  <2>2. UNCHANGED <<work, life>>
    BY <1>3 DEF FallbackTimer, PollTick, Deadline, Trigger
  <2> QED
    BY <2>1, <2>2, PushedByHarvesting
<1>4. ASSUME NEW s \in Sessions, AoSpawn(s) \/ AoProgress(s) PROVE PushedInv'
  <2>1. \A t \in Sessions : life[t] = "gone" => life'[t] = "gone"
    BY <1>4 DEF AoSpawn, AoProgress, TypeInv, TypeOK
  <2>2. UNCHANGED <<work, harvest>>
    BY <1>4 DEF AoSpawn, AoProgress
  <2> QED
    BY <2>1, <2>2, PushedByStep
<1>5. CASE StartSweep \/ Restart
  BY <1>5, PushedByStep DEF StartSweep, Restart
<1>6. CASE FinishSweep
  <2>1. UNCHANGED harvest \/ \E S : harvest' = Harvesting(S, "sweeper")
    BY <1>6 DEF FinishSweep
  <2>2. UNCHANGED <<work, life>>
    BY <1>6 DEF FinishSweep
  <2> QED
    BY <2>1, <2>2, PushedByHarvesting, PushedByStep DEF Triggers
<1>7. CASE Crash
  BY <1>7, PushedByStep DEF Crash, Idle
<1>8. CASE ResumeMonitors
  <2>1. \E S : harvest' = Harvesting(S, "resume")
    BY <1>8 DEF ResumeMonitors
  <2>2. UNCHANGED <<work, life>>
    BY <1>8 DEF ResumeMonitors
  <2> QED
    BY <2>1, <2>2, PushedByHarvesting DEF Triggers
<1> QED
  BY <1>1, <1>2, <1>3, <1>4, <1>5, <1>6, <1>7, <1>8, PushedByHarvestStep,
     PushedByReset, PushedByAgent DEF Next, Monitor

\* Work that a harvest saw in the worktree is pushed when the harvest reports
\* session.completed, unless the clean path tolerated a failed push, for any
\* number of sessions, crashes, failures and interleaved triggers.
THEOREM CompletedIsTrue == Spec => []CompletedMeansPushed
<1>1. PushedInv => CompletedMeansPushed
  BY DEF PushedInv, Truthful, CompletedMeansPushed
<1> QED
  BY <1>1, TypeInit, TypeStep, OrderInit, OrderStep, OrphanInit, OrphanStep,
     PushedInit, PushedStep, PTL DEF Spec
=============================================================================
