------------------------------ MODULE AoJobPool ------------------------------
(***************************************************************************)
(* What the AO spawn queue promises while no bridge stops or starts: one   *)
(* bounded FIFO queue served by MaxConcurrent workers, however many bridge *)
(* processes there are.  A job is submitted, served and finished once.     *)
(***************************************************************************)
EXTENDS Naturals, FiniteSets, Sequences

CONSTANTS Jobs, MaxConcurrent, MaxQueue

VARIABLES queue, busy, finished

poolVars == <<queue, busy, finished>>

Queued == {queue[i] : i \in DOMAIN queue}

Init == queue = <<>> /\ busy = {} /\ finished = {}

Submit(j) ==
  /\ j \notin Queued \cup busy \cup finished
  /\ Len(queue) < MaxQueue
  /\ queue' = Append(queue, j)
  /\ UNCHANGED <<busy, finished>>

Serve ==
  /\ queue # <<>> /\ Cardinality(busy) < MaxConcurrent
  /\ busy' = busy \cup {Head(queue)}
  /\ queue' = Tail(queue)
  /\ UNCHANGED finished

Finish(j) ==
  /\ j \in busy
  /\ busy' = busy \ {j}
  /\ finished' = finished \cup {j}
  /\ UNCHANGED queue

Next == Serve \/ \E j \in Jobs : Submit(j) \/ Finish(j)

Spec == /\ Init /\ [][Next]_poolVars
        /\ WF_poolVars(Serve) /\ \A j \in Jobs : WF_poolVars(Finish(j))
=============================================================================
