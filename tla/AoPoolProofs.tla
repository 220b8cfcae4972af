----------------------------- MODULE AoPoolProofs -----------------------------
(***************************************************************************)
(* Proofs about AoSpawnQueue up to the first fault: as long as no bridge   *)
(* has stopped or started late, no Redis reply has failed and no dedup key *)
(* has expired, any number of bridges together keep the global cap, own    *)
(* every slot once, deduplicate, and implement AoJobPool.                  *)
(***************************************************************************)
EXTENDS AoSpawnQueueProofs, FiniteSetTheorems

NoRepeats(s) == \A m, n \in 1..Len(s) : s[m] = s[n] => m = n

-----------------------------------------------------------------------------
(* Lists without repetitions.                                              *)

\* A push of an id that is not on the list keeps the ids distinct.
LEMMA AppendNoRepeats ==
  ASSUME NEW S, NEW s \in Seq(S), NEW j \in S, NoRepeats(s), j \notin ToSet(s)
  PROVE  NoRepeats(Append(s, j))
<1> DEFINE r == Append(s, j)
<1>1. /\ Len(r) = Len(s) + 1 /\ Len(s) \in Nat
      /\ \A n \in 1..Len(s) : r[n] = s[n] /\ r[n] # j
      /\ r[Len(s) + 1] = j
  BY ToSetLemma
<1> HIDE DEF r
<1> SUFFICES ASSUME NEW m \in 1..Len(s) + 1, NEW n \in 1..Len(s) + 1, r[m] = r[n]
             PROVE  m = n
  BY <1>1 DEF NoRepeats, r
<1>2. CASE m \in 1..Len(s) /\ n \in 1..Len(s)
  BY <1>1, <1>2 DEF NoRepeats
<1>3. CASE m = Len(s) + 1 \/ n = Len(s) + 1
  BY <1>1, <1>3
<1> QED BY <1>1, <1>2, <1>3

\* A pop keeps the ids distinct; the popped id is not on the rest.
LEMMA TailNoRepeats ==
  ASSUME NEW S, NEW s \in Seq(S), s # <<>>, NoRepeats(s)
  PROVE  /\ NoRepeats(Tail(s)) /\ Head(s) \notin ToSet(Tail(s))
         /\ ToSet(Tail(s)) = ToSet(s) \ {Head(s)}
<1> DEFINE r == Tail(s)
<1>1. /\ r \in Seq(S) /\ Len(r) = Len(s) - 1 /\ Len(s) \in Nat \ {0}
      /\ Head(s) = s[1] /\ \A n \in 1..Len(s) - 1 : r[n] = s[n + 1]
  OBVIOUS
<1>2. ToSet(s) = {Head(s)} \cup ToSet(r)
  BY TailLemma
<1> HIDE DEF r
<1>3. NoRepeats(r)
  <2> SUFFICES ASSUME NEW m \in 1..Len(s) - 1, NEW n \in 1..Len(s) - 1, r[m] = r[n]
               PROVE  m = n
    BY <1>1 DEF NoRepeats
  <2>1. s[m + 1] = s[n + 1] /\ m + 1 \in 1..Len(s) /\ n + 1 \in 1..Len(s)
    BY <1>1
  <2>2. m + 1 = n + 1
    BY <2>1 DEF NoRepeats
  <2> QED BY <2>2
<1>4. ASSUME Head(s) \in ToSet(r) PROVE FALSE
  <2>1. PICK n \in 1..Len(r) : r[n] = Head(s)
    BY <1>1, <1>4, ToSetLemma
  <2>2. s[n + 1] = s[1] /\ n + 1 \in 1..Len(s) /\ 1 \in 1..Len(s)
    BY <1>1, <2>1
  <2>3. n + 1 = 1
    BY <2>2 DEF NoRepeats
  <2> QED BY <2>1, <2>3
<1> QED BY <1>2, <1>3, <1>4 DEF r

\* LREM of an id that is on the list once takes it off.
LEMMA LRemNoRepeats ==
  ASSUME NEW S, NEW s \in Seq(S), NEW j, NoRepeats(s)
  PROVE  NoRepeats(LRem(s, j)) /\ ToSet(LRem(s, j)) = ToSet(s) \ {j}
<1>1. CASE j \notin ToSet(s)
  BY <1>1 DEF LRem
<1>2. CASE j \in ToSet(s)
  <2> DEFINE r == LRem(s, j)
  <2>1. PICK i \in 1..Len(s) :
          /\ s[i] = j
          /\ r \in Seq(S) /\ Len(r) = Len(s) - 1
          /\ \A n \in 1..Len(s) - 1 : r[n] = IF n < i THEN s[n] ELSE s[n + 1]
    BY <1>2, LRemShape
  <2>2. ToSet(r) \subseteq ToSet(s) /\ \A k \in ToSet(s) : k # j => k \in ToSet(r)
    BY LRemLemma
  <2> HIDE DEF r
  \* The place of an entry of r in s.
  <2> DEFINE from(n) == IF n < i THEN n ELSE n + 1
  <2>3. \A n \in 1..Len(r) : /\ from(n) \in 1..Len(s) /\ from(n) # i
                             /\ r[n] = s[from(n)]
    BY <2>1
  <2>4. \A m, n \in 1..Len(r) : from(m) = from(n) => m = n
    BY <2>1
  <2> HIDE DEF from
  <2>5. NoRepeats(r)
    BY <2>3, <2>4 DEF NoRepeats
  <2>6. j \notin ToSet(r)
    <3> SUFFICES ASSUME NEW n \in 1..Len(r), r[n] = j PROVE FALSE
      BY <2>1, ToSetLemma
    <3> QED BY <2>1, <2>3 DEF NoRepeats
  <2> QED BY <2>2, <2>5, <2>6 DEF r
<1> QED BY <1>1, <1>2

-----------------------------------------------------------------------------
(* Cardinalities.                                                          *)

\* There are at most as many ids as entries.
LEMMA ToSetCardinality ==
  ASSUME NEW S, NEW s \in Seq(S)
  PROVE  /\ IsFiniteSet(ToSet(s)) /\ Cardinality(ToSet(s)) \in Nat
         /\ Cardinality(ToSet(s)) <= Len(s)
<1> DEFINE f == [n \in 1..Len(s) |-> s[n]]
<1>1. f \in Surjection(1..Len(s), ToSet(s))
  <2>1. f \in [1..Len(s) -> ToSet(s)]
    BY ToSetLemma
  <2>2. \A x \in ToSet(s) : \E n \in 1..Len(s) : f[n] = x
    BY ToSetLemma
  <2> QED BY <2>1, <2>2 DEF Surjection
<1>2. IsFiniteSet(1..Len(s)) /\ Cardinality(1..Len(s)) = Len(s)
  <2>1. Len(s) \in Nat /\ 1 \in Int /\ Len(s) \in Int
    OBVIOUS
  <2>2. /\ IsFiniteSet(1..Len(s))
        /\ Cardinality(1..Len(s)) = IF 1 > Len(s) THEN 0 ELSE Len(s) - 1 + 1
    BY <2>1, FS_Interval
  <2>3. (IF 1 > Len(s) THEN 0 ELSE Len(s) - 1 + 1) = Len(s)
    BY <2>1
  <2> QED BY <2>2, <2>3
<1>3. /\ IsFiniteSet(ToSet(s))
      /\ Cardinality(ToSet(s)) <= Cardinality(1..Len(s))
  BY <1>1, <1>2, FS_Surjection
<1> QED BY <1>2, <1>3, FS_CardinalityType

-----------------------------------------------------------------------------
(* The invariant of the steady system.                                     *)

\* Nothing has failed so far: no bridge stopped, none started late, no Redis
\* reply failed, no key expired.
Steady ==
  /\ stops = 0 /\ errors = 0 /\ expiries = 0
  /\ \A b \in Bridges : phase[b] = IF b \in InitiallyUp THEN "up" ELSE "down"

\* Until a bridge stops, those that served at the beginning serve.
Upright ==
  stops = 0 => \A b \in Bridges : /\ phase[b] # "stopping"
                                  /\ b \in InitiallyUp => phase[b] = "up"

\* No recovery, no id without a record, no failed push.
Calm ==
  /\ \A b \in Bridges : ~recovering[b] /\ drain[b] # "drop"
  /\ \A c \in Calls : pc[c] # "undoError"

\* An id is on one list, once, until it is done.
ListsExclusive ==
  /\ NoRepeats(pending) /\ NoRepeats(running)
  /\ ToSet(pending) \cap ToSet(running) = {}
  /\ done \subseteq entered
  /\ done \cap (ToSet(pending) \cup ToSet(running) \cup jobs) = {}

\* The ids on running are those that one bridge has in hand, executes or
\* completes, once.
OwnedOnce ==
  \A j \in Jobs :
    /\ \A b \in Bridges : Claims(b, j) <= 1
    /\ \A b, d \in Bridges : Claims(b, j) > 0 /\ Claims(d, j) > 0 => b = d
    /\ j \in ToSet(running) <=> \E b \in Bridges : Claims(b, j) > 0

\* An outstanding job, and one about to be pushed, holds its fingerprint.
Reservations ==
  /\ \A j \in entered \ done : dedup[FingerprintOf[j]] = j
  /\ \A c \in Calls : pc[c] \in {"push", "undoFull"} =>
                        dedup[FingerprintOf[item[c]]] = item[c]

SteadyInv == Calm /\ ListsExclusive /\ OwnedOnce /\ Reservations

\* The inductive invariant: what holds before the first fault.
PoolInv == IInv /\ Upright /\ (Steady => SteadyInv)

\* The steps that can be taken before the first fault.
SteadyNext ==
  \/ \E c \in Calls : \/ \E b \in Bridges : Receive(c, b)
                      \/ Reserve(c) \/ Push(c) \/ UndoFull(c) \/ Reply(c)
  \/ \E b \in Bridges : \/ DrainPop(b) \/ DrainFetch(b) \/ DrainStart(b)
                        \/ \E j \in Jobs : ExecEnd(b, j) \/ Complete(b, j)
  \/ UNCHANGED vars

LEMMA ClaimsType ==
  ASSUME TypeOK, NEW b \in Bridges, NEW j \in Jobs
  PROVE  /\ Claims(b, j) \in Nat
         /\ executing[b][j] \in Nat /\ completing[b][j] \in Nat
         /\ executing[b][j] <= Claims(b, j) /\ completing[b][j] <= Claims(b, j)
         /\ hand[b] = j => Claims(b, j) >= 1
<1>1. executing[b][j] \in Nat /\ completing[b][j] \in Nat
  BY DEF TypeOK
<1> QED BY <1>1 DEF Claims

LEMMA NextUpright == IInv /\ Upright /\ [Next]_vars => Upright'
<1> SUFFICES ASSUME IInv, Upright, [Next]_vars PROVE Upright'
  OBVIOUS
<1>1. ASSUME UNCHANGED <<phase, stops>> PROVE Upright'
  BY <1>1 DEF Upright
<1>2. ASSUME NEW b \in Bridges, Start(b) PROVE Upright'
  BY <1>2 DEF Upright, Start, faultVars, IInv, TypeOK
<1>3. ASSUME NEW b \in Bridges, Sigterm(b) PROVE Upright'
  BY <1>3 DEF Upright, Sigterm, IInv, TypeOK
<1>4. ASSUME NEW b \in Bridges, Exit(b) PROVE Upright'
  BY <1>4 DEF Upright, Exit, IInv, TypeOK
<1>5. ASSUME NEW c \in Calls, NEW b \in Bridges, Receive(c, b) PROVE Upright'
  BY <1>1, <1>5 DEF Receive, faultVars
<1>6. ASSUME NEW c \in Calls, HandlerStep(c) \/ HandlerError(c) PROVE Upright'
  BY <1>1, <1>6 DEF HandlerStep, HandlerError, Reserve, Push, UndoFull,
                    UndoError, Reply, ReserveError, PushError, faultVars
<1>7. ASSUME NEW b \in Bridges,
             DrainStep(b) \/ Recover(b) \/ RecoverError(b) \/ \E j \in Jobs : ExecEnd(b, j) \/ Complete(b, j)
      PROVE  Upright'
  BY <1>1, <1>7 DEF DrainStep, DrainPop, DrainFetch, DrainDrop, DrainStart,
                    Recover, RecoverError, ExecEnd, Complete, faultVars
<1>8. ASSUME NEW f \in Fingerprints, DedupExpires(f) PROVE Upright'
  BY <1>1, <1>8 DEF DedupExpires
<1>9. CASE UNCHANGED vars
  BY <1>1, <1>9 DEF vars, faultVars
<1> QED BY <1>2, <1>3, <1>4, <1>5, <1>6, <1>7, <1>8, <1>9 DEF Next

\* Before the first fault there was none, and only the steps of the handlers
\* and of the drain loops have been taken.
LEMMA SteadyStep ==
  ASSUME PoolInv, [Next]_vars, Steady'
  PROVE  Steady /\ SteadyInv /\ SteadyNext
<1>0. /\ stops \in Nat /\ errors \in Nat /\ expiries \in Nat
      /\ phase \in [Bridges -> {"down", "up", "stopping"}]
  BY DEF PoolInv, IInv, TypeOK
<1>1. ASSUME NEW b \in Bridges, Start(b) PROVE FALSE
  BY <1>0, <1>1 DEF PoolInv, Upright, Steady, Start, faultVars
<1>2. ASSUME NEW b \in Bridges, Sigterm(b) \/ RecoverError(b) PROVE FALSE
  BY <1>0, <1>2 DEF Steady, Sigterm, RecoverError
<1>3. ASSUME NEW b \in Bridges, Exit(b) PROVE FALSE
  BY <1>0, <1>3 DEF PoolInv, Upright, Steady, Exit
<1>4. ASSUME NEW c \in Calls, HandlerError(c) PROVE FALSE
  BY <1>0, <1>4 DEF Steady, HandlerError, ReserveError, PushError
<1>5. ASSUME NEW f \in Fingerprints, DedupExpires(f) PROVE FALSE
  BY <1>0, <1>5 DEF Steady, DedupExpires
<1>6. ASSUME UNCHANGED <<phase, faultVars>> PROVE Steady /\ SteadyInv
  BY <1>6 DEF Steady, faultVars, PoolInv
<1>7. ASSUME NEW c \in Calls, NEW b \in Bridges, Receive(c, b)
      PROVE  Steady /\ SteadyInv /\ SteadyNext
  BY <1>6, <1>7 DEF Receive, SteadyNext
<1>8. ASSUME NEW c \in Calls, HandlerStep(c)
      PROVE  Steady /\ SteadyInv /\ SteadyNext
  <2>1. CASE UndoError(c)
    <3>1. UNCHANGED <<phase, stops, expiries>> /\ errors' >= errors
      BY <1>0, <2>1 DEF UndoError
    <3>2. Steady
      BY <1>0, <3>1 DEF Steady
    <3> QED BY <2>1, <3>2 DEF PoolInv, SteadyInv, Calm, UndoError
  <2>2. CASE ~UndoError(c)
    <3>1. UNCHANGED <<phase, faultVars>>
      BY <1>8, <2>2 DEF HandlerStep, Reserve, Push, UndoFull, Reply
    <3> QED BY <1>6, <1>8, <2>2, <3>1 DEF HandlerStep, SteadyNext
  <2> QED BY <2>1, <2>2
<1>9. ASSUME NEW b \in Bridges, DrainStep(b)
      PROVE  Steady /\ SteadyInv /\ SteadyNext
  <2>1. Steady /\ SteadyInv
    BY <1>6, <1>9 DEF DrainStep, DrainPop, DrainFetch, DrainDrop, DrainStart
  <2>2. ~DrainDrop(b)
    BY <2>1 DEF SteadyInv, Calm, DrainDrop
  <2> QED BY <1>9, <2>1, <2>2 DEF DrainStep, SteadyNext
<1>10. ASSUME NEW b \in Bridges, NEW j \in Jobs, ExecEnd(b, j) \/ Complete(b, j)
       PROVE  Steady /\ SteadyInv /\ SteadyNext
  BY <1>6, <1>10 DEF ExecEnd, Complete, SteadyNext
<1>11. ASSUME NEW b \in Bridges, Recover(b) PROVE FALSE
  <2>1. SteadyInv
    BY <1>6, <1>11 DEF Recover
  <2> QED BY <1>11, <2>1 DEF SteadyInv, Calm, Recover
<1>12. CASE UNCHANGED vars
  BY <1>6, <1>12 DEF vars, SteadyNext
<1> QED
  BY <1>1, <1>2, <1>3, <1>4, <1>5, <1>7, <1>8, <1>9, <1>10, <1>11, <1>12 DEF Next

-----------------------------------------------------------------------------
(* Each part of the invariant is kept by the steady steps.                 *)

\* After its item a request reserves the next, replies or is closed; the
\* other requests are where they were.
LEMMA ProceedPc ==
  ASSUME TypeOK, NEW c \in Calls, NEW ok \in BOOLEAN, Proceed(c, ok)
  PROVE  /\ pc'[c] \in {"reserve", "reply", "closed"}
         /\ \A d \in Calls \ {c} : pc'[d] = pc[d] /\ item'[d] = item[d]
<1>1. CASE \E j \in left[c] : TakeUp(c, j)
  BY <1>1 DEF TypeOK, TakeUp
<1>2. CASE /\ pc' = [pc EXCEPT ![c] = IF ok \/ c \in BatchCalls
                                      THEN "reply" ELSE "closed"]
           /\ UNCHANGED <<item, left>>
  BY <1>2 DEF TypeOK
<1> QED BY <1>1, <1>2 DEF Proceed

\* The id a drain loop has in hand has its record.
LEMMA HandHasRecord ==
  ASSUME IInv, SteadyInv, NEW b \in Bridges, hand[b] # NoJob
  PROVE  hand[b] \in jobs
<1>1. hand[b] \in Jobs
  BY DEF IInv, TypeOK
<1>2. Claims(b, hand[b]) > 0
  BY <1>1, ClaimsType DEF IInv
<1>3. hand[b] \in ToSet(running)
  BY <1>1, <1>2 DEF SteadyInv, OwnedOnce
<1>4. hand[b] \in entered \ done
  BY <1>3 DEF IInv, EnteredInv, SteadyInv, ListsExclusive
<1> QED BY <1>4 DEF IInv, EnteredInv

LEMMA NextCalm == IInv /\ SteadyInv /\ SteadyNext => Calm'
<1> SUFFICES ASSUME IInv, SteadyInv, SteadyNext PROVE Calm'
  OBVIOUS
<1>1. ASSUME UNCHANGED <<recovering, drain, pc>> PROVE Calm'
  BY <1>1 DEF SteadyInv, Calm
\* A step of a handler.
<1>2. ASSUME NEW c \in Calls, UNCHANGED <<recovering, drain>>,
             \A d \in Calls \ {c} : pc'[d] = pc[d], pc'[c] # "undoError"
      PROVE  Calm'
  BY <1>2 DEF SteadyInv, Calm
\* A step of a drain loop.
<1>3. ASSUME NEW b \in Bridges, UNCHANGED <<recovering, pc>>,
             \/ drain' = drain
             \/ \E at1 \in {"idle", "pop", "fetch", "start", Kicked(b)} :
                   drain' = [drain EXCEPT ![b] = at1]
      PROVE  Calm'
  <2>1. drain'[b] # "drop"
    BY <1>3 DEF IInv, TypeOK, SteadyInv, Calm, Kicked
  <2>2. \A d \in Bridges \ {b} : drain'[d] = drain[d]
    BY <1>3 DEF IInv, TypeOK
  <2> QED BY <1>3, <2>1, <2>2 DEF SteadyInv, Calm
<1>4. ASSUME NEW c \in Calls, NEW b \in Bridges, Receive(c, b) PROVE Calm'
  <2>1. pc'[c] = "reserve" /\ \A d \in Calls \ {c} : pc'[d] = pc[d]
    BY <1>4 DEF Receive, TakeUp, IInv, TypeOK
  <2> QED BY <1>2, <1>4, <2>1 DEF Receive, drainVars
<1>5. ASSUME NEW c \in Calls, Reserve(c) PROVE Calm'
  <2>1. /\ pc'[c] \in {"push", "reserve", "reply", "closed"}
        /\ \A d \in Calls \ {c} : pc'[d] = pc[d]
    BY <1>5, ProceedPc DEF Reserve, IInv, TypeOK
  <2> QED BY <1>2, <1>5, <2>1 DEF Reserve, drainVars
<1>6. ASSUME NEW c \in Calls, Push(c) PROVE Calm'
  <2>1. /\ pc'[c] \in {"undoFull", "reserve", "reply", "closed"}
        /\ \A d \in Calls \ {c} : pc'[d] = pc[d]
    BY <1>6, ProceedPc DEF Push, IInv, TypeOK
  <2> QED BY <1>2, <1>6, <2>1 DEF Push, drainVars
<1>7. ASSUME NEW c \in Calls, UndoFull(c) PROVE Calm'
  <2>1. /\ pc'[c] \in {"reserve", "reply", "closed"}
        /\ \A d \in Calls \ {c} : pc'[d] = pc[d]
    BY <1>7, ProceedPc DEF UndoFull, IInv
  <2> QED BY <1>2, <1>7, <2>1 DEF UndoFull, drainVars
<1>8. ASSUME NEW c \in Calls, Reply(c) PROVE Calm'
  <2>1. at[c] \in Bridges
    BY <1>8 DEF IInv, HandlerInv, HandlerInvAt, Reply
  <2>2. \A b \in Bridges : drain'[b] # "drop"
    BY <1>8, <2>1 DEF Reply, Kicked, IInv, TypeOK, SteadyInv, Calm
  <2>3. \A d \in Calls : pc'[d] # "undoError"
    BY <1>8 DEF Reply, IInv, TypeOK, SteadyInv, Calm
  <2> QED BY <1>8, <2>2, <2>3 DEF Reply, SteadyInv, Calm
<1>9. ASSUME NEW b \in Bridges, DrainPop(b) PROVE Calm'
  BY <1>3, <1>9 DEF DrainPop, handlerVars
<1>10. ASSUME NEW b \in Bridges, DrainFetch(b) PROVE Calm'
  <2>1. hand[b] \in jobs
    BY <1>10, HandHasRecord DEF DrainFetch, IInv, DrainInv
  <2> QED BY <1>3, <1>10, <2>1 DEF DrainFetch, handlerVars
<1>11. ASSUME NEW b \in Bridges, DrainStart(b) PROVE Calm'
  BY <1>3, <1>11 DEF DrainStart, handlerVars
<1>12. ASSUME NEW b \in Bridges, NEW j \in Jobs, ExecEnd(b, j) \/ Complete(b, j)
       PROVE  Calm'
  BY <1>3, <1>12 DEF ExecEnd, Complete, handlerVars
<1>13. CASE UNCHANGED vars
  BY <1>1, <1>13 DEF vars, drainVars, handlerVars
<1> QED BY <1>4, <1>5, <1>6, <1>7, <1>8, <1>9, <1>10, <1>11, <1>12, <1>13
        DEF SteadyNext

\* The job a bridge completes is on running, and nobody else's.
LEMMA CompletedIsRunning ==
  ASSUME IInv, SteadyInv, NEW b \in Bridges, NEW j \in Jobs, completing[b][j] > 0
  PROVE  /\ j \in ToSet(running) /\ j \in entered \ done
         /\ Claims(b, j) = 1 /\ completing[b][j] = 1
<1>1. /\ Claims(b, j) \in Nat /\ completing[b][j] \in Nat
      /\ completing[b][j] <= Claims(b, j)
  BY ClaimsType DEF IInv
<1>2. Claims(b, j) <= 1
  BY DEF SteadyInv, OwnedOnce
<1>3. Claims(b, j) = 1 /\ completing[b][j] = 1
  BY <1>1, <1>2
<1>4. j \in ToSet(running)
  BY <1>3 DEF SteadyInv, OwnedOnce
<1>5. j \in entered \ done
  BY <1>4 DEF IInv, EnteredInv, SteadyInv, ListsExclusive
<1> QED BY <1>3, <1>4, <1>5

LEMMA NextLists == IInv /\ SteadyInv /\ SteadyNext => ListsExclusive'
<1> SUFFICES ASSUME IInv, SteadyInv, SteadyNext PROVE ListsExclusive'
  OBVIOUS
<1>0. pending \in Seq(Jobs) /\ running \in Seq(Jobs)
  BY DEF IInv, TypeOK
<1>1. ASSUME UNCHANGED <<pending, running, jobs, entered, done>>
      PROVE  ListsExclusive'
  BY <1>1 DEF SteadyInv, ListsExclusive
<1>2. ASSUME NEW c \in Calls, Push(c) PROVE ListsExclusive'
  <2>1. item[c] \in Jobs \ entered
    BY <1>2, ConstantsAssumption DEF IInv, HandlerInv, HandlerInvAt, Push
  <2>2. CASE Enter(item[c])
    <3>1. item[c] \notin ToSet(pending) \cup ToSet(running) \cup done
      BY <2>1 DEF IInv, EnteredInv, SteadyInv, ListsExclusive
    <3>2. NoRepeats(pending') /\ ToSet(pending') = ToSet(pending) \cup {item[c]}
      BY <1>0, <2>1, <2>2, <3>1, AppendNoRepeats, AppendLemma
         DEF Enter, SteadyInv, ListsExclusive
    <3>3. /\ UNCHANGED <<running, done>> /\ entered' = entered \cup {item[c]}
          /\ jobs' = jobs \cup {item[c]}
      BY <1>2, <2>2 DEF Push, Enter
    <3> QED BY <3>1, <3>2, <3>3 DEF SteadyInv, ListsExclusive
  <2>3. CASE UNCHANGED <<pending, jobs, entered>>
    BY <1>1, <1>2, <2>3 DEF Push
  <2> QED BY <1>2, <2>2, <2>3 DEF Push
<1>3. ASSUME NEW b \in Bridges, DrainPop(b) PROVE ListsExclusive'
  <2>1. CASE /\ pending # <<>> /\ running' = Append(running, Head(pending))
             /\ pending' = Tail(pending)
    <3>1. /\ Head(pending) \in Jobs /\ Head(pending) \in ToSet(pending)
          /\ NoRepeats(pending') /\ ToSet(pending') = ToSet(pending) \ {Head(pending)}
      BY <1>0, <2>1, TailLemma, TailNoRepeats DEF SteadyInv, ListsExclusive
    <3>2. Head(pending) \notin ToSet(running)
      BY <3>1 DEF SteadyInv, ListsExclusive
    <3>3. NoRepeats(running') /\ ToSet(running') = ToSet(running) \cup {Head(pending)}
      BY <1>0, <2>1, <3>1, <3>2, AppendNoRepeats, AppendLemma
         DEF SteadyInv, ListsExclusive
    <3>4. UNCHANGED <<jobs, entered, done>>
      BY <1>3 DEF DrainPop, historyVars
    <3> QED BY <3>1, <3>2, <3>3, <3>4 DEF SteadyInv, ListsExclusive
  <2>2. CASE UNCHANGED <<pending, running>>
    BY <1>1, <1>3, <2>2 DEF DrainPop, historyVars
  <2> QED BY <1>3, <2>1, <2>2 DEF DrainPop
<1>4. ASSUME NEW b \in Bridges, NEW j \in Jobs, Complete(b, j) PROVE ListsExclusive'
  <2>1. j \in ToSet(running) /\ j \in entered
    BY <1>4, CompletedIsRunning DEF Complete
  <2>2. NoRepeats(running') /\ ToSet(running') = ToSet(running) \ {j}
    BY <1>0, <1>4, LRemNoRepeats DEF Complete, SteadyInv, ListsExclusive
  <2>3. /\ UNCHANGED <<pending, entered>>
        /\ jobs' = jobs \ {j} /\ done' = done \cup {j}
    BY <1>4 DEF Complete
  <2> QED BY <2>1, <2>2, <2>3 DEF SteadyInv, ListsExclusive
<1>5. ASSUME NEW c \in Calls,
             (\E b \in Bridges : Receive(c, b)) \/ Reserve(c) \/ UndoFull(c) \/ Reply(c)
      PROVE  ListsExclusive'
  BY <1>1, <1>5 DEF Receive, Reserve, UndoFull, Reply, redisVars, historyVars
<1>6. ASSUME NEW b \in Bridges,
             DrainFetch(b) \/ DrainStart(b) \/ \E j \in Jobs : ExecEnd(b, j)
      PROVE  ListsExclusive'
  BY <1>1, <1>6 DEF DrainFetch, DrainStart, ExecEnd, redisVars, historyVars
<1>7. CASE UNCHANGED vars
  BY <1>1, <1>7 DEF vars, redisVars, historyVars
<1> QED BY <1>2, <1>3, <1>4, <1>5, <1>6, <1>7 DEF SteadyNext

LEMMA NextOwned == IInv /\ SteadyInv /\ SteadyNext => OwnedOnce'
<1> SUFFICES ASSUME IInv, SteadyInv, SteadyNext PROVE OwnedOnce'
  OBVIOUS
<1> USE ConstantsAssumption
<1>0. /\ pending \in Seq(Jobs) /\ running \in Seq(Jobs)
      /\ hand \in [Bridges -> Jobs \cup {NoJob}]
      /\ executing \in [Bridges -> [Jobs -> Nat]]
      /\ completing \in [Bridges -> [Jobs -> Nat]]
  BY DEF IInv, TypeOK
\* The step moves no claim from one bridge to another and leaves running.
<1>1. ASSUME ToSet(running') = ToSet(running),
             \A b \in Bridges, j \in Jobs : Claims(b, j)' = Claims(b, j)
      PROVE  OwnedOnce'
  BY <1>1 DEF SteadyInv, OwnedOnce
<1>2. ASSUME UNCHANGED <<running, hand, executing, completing>>
      PROVE  OwnedOnce'
  <2>1. \A b \in Bridges, j \in Jobs : Claims(b, j)' = Claims(b, j)
    BY <1>2 DEF Claims
  <2> QED BY <1>1, <1>2, <2>1
\* The popped id gets its first claim.
<1>3. ASSUME NEW b \in Bridges, DrainPop(b) PROVE OwnedOnce'
  <2>1. CASE /\ pending # <<>> /\ running' = Append(running, Head(pending))
             /\ hand' = [hand EXCEPT ![b] = Head(pending)]
    <3>0. Head(pending) \in Jobs /\ Head(pending) \in ToSet(pending)
      BY <1>0, <2>1, TailLemma
    <3>1. PICK h \in Jobs : h = Head(pending) /\ h \in ToSet(pending)
      BY <3>0
    <3>2. h \notin ToSet(running)
      BY <3>1 DEF SteadyInv, ListsExclusive
    <3>3. ToSet(running') = ToSet(running) \cup {h}
      BY <1>0, <2>1, <3>1, AppendLemma
    <3>4. hand[b] = NoJob
      BY <1>3 DEF IInv, DrainInv, DrainPop
    <3>5. ASSUME NEW d \in Bridges, NEW j \in Jobs, d # b \/ j # h
          PROVE  Claims(d, j)' = Claims(d, j)
      <4>1. hand'[d] = j <=> hand[d] = j
        BY <1>0, <2>1, <3>1, <3>4, <3>5
      <4> QED BY <1>3, <4>1 DEF Claims, DrainPop
    <3>6. \A d \in Bridges : Claims(d, h) = 0
      <4>1. \A d \in Bridges : Claims(d, h) \in Nat /\ ~(Claims(d, h) > 0)
        BY <3>1, <3>2, ClaimsType DEF SteadyInv, OwnedOnce, IInv
      <4> QED BY <4>1
    <3>7. Claims(b, h)' = 1
      <4>1. /\ executing[b][h] \in Nat /\ completing[b][h] \in Nat
            /\ executing[b][h] = 0 /\ completing[b][h] = 0
        BY <3>1, <3>6, ClaimsType DEF IInv
      <4>2. hand'[b] = h
        BY <1>0, <2>1, <3>1
      <4> QED BY <1>3, <4>1, <4>2 DEF Claims, DrainPop
    <3>8. \A d \in Bridges \ {b} : Claims(d, h)' = 0
      BY <3>1, <3>5, <3>6
    <3>9. \A j \in Jobs \ {h} :
            /\ \A d \in Bridges : Claims(d, j)' = Claims(d, j)
            /\ j \in ToSet(running') <=> j \in ToSet(running)
      BY <3>3, <3>5
    <3> QED BY <3>3, <3>7, <3>8, <3>9 DEF SteadyInv, OwnedOnce
  <2>2. CASE UNCHANGED <<running, hand>>
    BY <1>2, <1>3, <2>2 DEF DrainPop
  <2> QED BY <1>3, <2>1, <2>2 DEF DrainPop
\* The id in hand becomes an execution.
<1>4. ASSUME NEW b \in Bridges, DrainStart(b) PROVE OwnedOnce'
  <2>1. hand[b] \in Jobs
    BY <1>0, <1>4 DEF IInv, DrainInv, DrainStart
  <2>2. ASSUME NEW d \in Bridges, NEW j \in Jobs PROVE Claims(d, j)' = Claims(d, j)
    <3>1. CASE d = b /\ j = hand[b]
      <4>1. /\ hand'[d] = NoJob /\ executing'[d][j] = executing[d][j] + 1
            /\ completing' = completing
        BY <1>0, <1>4, <3>1 DEF DrainStart
      <4>2. executing[d][j] \in Nat /\ completing[d][j] \in Nat /\ j # NoJob
        BY <1>0
      <4> QED BY <3>1, <4>1, <4>2 DEF Claims
    <3>2. CASE d # b \/ j # hand[b]
      <4>1. /\ hand'[d] = j <=> hand[d] = j
            /\ executing'[d][j] = executing[d][j]
            /\ completing' = completing
        BY <1>0, <1>4, <2>1, <3>2 DEF DrainStart
      <4> QED BY <4>1 DEF Claims
    <3> QED BY <3>1, <3>2
  <2> QED BY <1>1, <1>4, <2>2 DEF DrainStart, redisVars
\* An execution becomes a completion.
<1>5. ASSUME NEW b \in Bridges, NEW k \in Jobs, ExecEnd(b, k) PROVE OwnedOnce'
  <2>1. ASSUME NEW d \in Bridges, NEW j \in Jobs PROVE Claims(d, j)' = Claims(d, j)
    <3>0. executing[d][j] \in Nat /\ completing[d][j] \in Nat /\ hand' = hand
      BY <1>0, <1>5 DEF ExecEnd
    <3>1. CASE d = b /\ j = k
      <4>1. /\ executing'[d][j] = executing[d][j] - 1
            /\ completing'[d][j] = completing[d][j] + 1
            /\ executing[d][j] > 0
        BY <1>0, <1>5, <3>1 DEF ExecEnd
      <4> QED BY <3>0, <4>1 DEF Claims
    <3>2. CASE d # b \/ j # k
      <4>1. /\ executing'[d][j] = executing[d][j]
            /\ completing'[d][j] = completing[d][j]
        BY <1>0, <1>5, <3>2 DEF ExecEnd
      <4> QED BY <3>0, <4>1 DEF Claims
    <3> QED BY <3>1, <3>2
  <2> QED BY <1>1, <1>5, <2>1 DEF ExecEnd, redisVars
\* The completed id loses its only claim.
<1>6. ASSUME NEW b \in Bridges, NEW k \in Jobs, Complete(b, k) PROVE OwnedOnce'
  <2>1. /\ completing[b][k] = 1 /\ Claims(b, k) = 1
    BY <1>6, CompletedIsRunning DEF Complete
  <2>2. ToSet(running') = ToSet(running) \ {k}
    BY <1>0, <1>6, LRemNoRepeats DEF Complete, SteadyInv, ListsExclusive
  <2>3. /\ UNCHANGED <<hand, executing>>
        /\ completing' = [completing EXCEPT ![b][k] = @ - 1]
    BY <1>6 DEF Complete
  <2>4. ASSUME NEW d \in Bridges, NEW j \in Jobs, d # b \/ j # k
        PROVE  Claims(d, j)' = Claims(d, j)
    <3>1. completing'[d][j] = completing[d][j]
      BY <1>0, <2>3, <2>4
    <3> QED BY <2>3, <3>1 DEF Claims
  <2>5. Claims(b, k)' = 0
    <3>1. completing'[b][k] = 0
      BY <1>0, <2>1, <2>3
    <3>2. executing[b][k] \in Nat
      BY <1>0
    <3> QED BY <2>1, <2>3, <3>1, <3>2 DEF Claims
  <2>6. \A d \in Bridges \ {b} : ~(Claims(d, k)' > 0)
    BY <2>1, <2>4 DEF SteadyInv, OwnedOnce
  <2>7. \A j \in Jobs \ {k} :
          /\ \A d \in Bridges : Claims(d, j)' = Claims(d, j)
          /\ j \in ToSet(running') <=> j \in ToSet(running)
    BY <2>2, <2>4
  <2>8. \A d \in Bridges \ {b} : Claims(d, k)' <= 1
    BY <2>4 DEF SteadyInv, OwnedOnce
  <2> QED BY <2>2, <2>5, <2>6, <2>7, <2>8 DEF SteadyInv, OwnedOnce
<1>7. ASSUME NEW c \in Calls,
             \/ \E b \in Bridges : Receive(c, b)
             \/ Reserve(c) \/ Push(c) \/ UndoFull(c) \/ Reply(c)
      PROVE  OwnedOnce'
  BY <1>2, <1>7 DEF Receive, Reserve, Push, UndoFull, Reply, redisVars, drainVars
<1>8. ASSUME NEW b \in Bridges, DrainFetch(b) PROVE OwnedOnce'
  BY <1>2, <1>8 DEF DrainFetch, redisVars
<1>9. CASE UNCHANGED vars
  BY <1>2, <1>9 DEF vars, redisVars, drainVars
<1> QED BY <1>3, <1>4, <1>5, <1>6, <1>7, <1>8, <1>9 DEF SteadyNext

LEMMA NextReservations == IInv /\ SteadyInv /\ SteadyNext => Reservations'
<1> SUFFICES ASSUME IInv, SteadyInv, SteadyNext PROVE Reservations'
  OBVIOUS
<1> USE ConstantsAssumption
<1>0. /\ dedup \in [Fingerprints -> Jobs \cup {NoJob}]
      /\ entered \subseteq Jobs /\ done \subseteq Jobs
  BY DEF IInv, TypeOK
<1> DEFINE reserving == {"push", "undoFull"}
           Holds(j) == dedup[FingerprintOf[j]] = j
\* What a request reserves for is a job of its own, not pushed yet.
<1>1. ASSUME NEW c \in Calls, pc[c] \in {"reserve", "push", "undoFull"}
      PROVE  /\ item[c] \in Jobs \ entered
             /\ \A d \in Calls \ {c} :
                  pc[d] \in reserving => item[d] # item[c] /\ item[d] \in Jobs
  BY <1>1 DEF IInv, HandlerInv, HandlerInvAt
\* A step after which no more is outstanding or reserved for.
<1>2. ASSUME dedup' = dedup, entered' \ done' \subseteq entered \ done,
             \A d \in Calls : pc'[d] \in reserving =>
               pc[d] \in reserving /\ item'[d] = item[d]
      PROVE  Reservations'
  BY <1>2 DEF SteadyInv, Reservations
<1>3. ASSUME NEW c \in Calls, NEW b \in Bridges, Receive(c, b) PROVE Reservations'
  <2>1. pc'[c] = "reserve" /\ \A d \in Calls \ {c} : pc'[d] = pc[d] /\ item'[d] = item[d]
    BY <1>3 DEF Receive, TakeUp, IInv, TypeOK
  <2> QED BY <1>2, <1>3, <2>1 DEF Receive, redisVars, historyVars
<1>4. ASSUME NEW c \in Calls, Reserve(c) PROVE Reservations'
  <2> DEFINE f == FingerprintOf[item[c]]
  <2>1. CASE /\ dedup[f] = NoJob /\ dedup' = [dedup EXCEPT ![f] = item[c]]
             /\ pc' = [pc EXCEPT ![c] = "push"] /\ item' = item
    <3>1. item[c] \in Jobs /\ f \in Fingerprints
      BY <1>1, <1>4 DEF Reserve
    <3>2. \A j \in Jobs : Holds(j) => dedup'[FingerprintOf[j]] = j
      BY <1>0, <2>1, <3>1
    <3>3. dedup'[f] = item[c]
      BY <1>0, <2>1, <3>1
    <3>4. \A d \in Calls \ {c} : pc'[d] = pc[d]
      BY <2>1 DEF IInv, TypeOK
    <3>5. \A d \in Calls \ {c} : pc[d] \in reserving => item[d] \in Jobs /\ Holds(item[d])
      BY <1>1, <1>4 DEF Reserve, SteadyInv, Reservations
    <3>6. UNCHANGED <<entered, done>>
      BY <1>4 DEF Reserve
    <3>7. \A j \in entered \ done : j \in Jobs /\ Holds(j)
      BY <1>0 DEF SteadyInv, Reservations
    <3> QED BY <2>1, <3>2, <3>3, <3>4, <3>5, <3>6, <3>7 DEF Reservations
  <2>2. CASE Proceed(c, FALSE) /\ dedup' = dedup
    <3>1. /\ pc'[c] \notin reserving
          /\ \A d \in Calls \ {c} : pc'[d] = pc[d] /\ item'[d] = item[d]
      BY <2>2, ProceedPc DEF IInv
    <3> QED BY <1>2, <1>4, <2>2, <3>1 DEF Reserve
  <2> QED BY <1>4, <2>1, <2>2 DEF Reserve, Reserved
<1>5. ASSUME NEW c \in Calls, Push(c) PROVE Reservations'
  <2>1. CASE Enter(item[c]) /\ Proceed(c, TRUE)
    <3>1. /\ pc'[c] \notin reserving
          /\ \A d \in Calls \ {c} : pc'[d] = pc[d] /\ item'[d] = item[d]
      BY <2>1, ProceedPc DEF IInv
    <3>2. /\ entered' = entered \cup {item[c]} /\ UNCHANGED <<dedup, done>>
      BY <1>5, <2>1 DEF Push, Enter
    <3>3. Holds(item[c])
      BY <1>5 DEF Push, SteadyInv, Reservations
    <3> QED BY <3>1, <3>2, <3>3 DEF SteadyInv, Reservations
  <2>2. CASE pc' = [pc EXCEPT ![c] = "undoFull"] /\ UNCHANGED <<entered, item>>
    <3>1. /\ \A d \in Calls \ {c} : pc'[d] = pc[d]
          /\ pc[c] = "push"
      BY <1>5, <2>2 DEF Push, IInv, TypeOK
    <3> QED BY <1>2, <1>5, <2>2, <3>1 DEF Push
  <2> QED BY <1>5, <2>1, <2>2 DEF Push
<1>6. ASSUME NEW j \in Jobs, dedup' = [dedup EXCEPT ![FingerprintOf[j]] = NoJob],
             Holds(j), j \notin entered' \ done',
             entered' \ done' \subseteq entered \ done,
             \A d \in Calls : pc'[d] \in reserving =>
               pc[d] \in reserving /\ item'[d] = item[d] /\ item[d] # j
      PROVE  Reservations'
  <2>1. \A k : Holds(k) /\ k # j /\ FingerprintOf[k] \in Fingerprints =>
               dedup'[FingerprintOf[k]] = k
    BY <1>0, <1>6
  <2>2. \A k \in entered' \ done' : Holds(k) /\ k # j /\ k \in Jobs
    BY <1>0, <1>6 DEF SteadyInv, Reservations
  <2>3. ASSUME NEW d \in Calls, pc'[d] \in reserving
        PROVE  Holds(item[d]) /\ item[d] # j /\ item[d] \in Jobs /\ item'[d] = item[d]
    BY <1>1, <1>6, <2>3 DEF SteadyInv, Reservations
  <2> QED BY <2>1, <2>2, <2>3 DEF Reservations
<1>7. ASSUME NEW c \in Calls, UndoFull(c) PROVE Reservations'
  <2>1. /\ item[c] \in Jobs \ entered /\ Holds(item[c])
        /\ \A d \in Calls \ {c} : pc[d] \in reserving => item[d] # item[c]
    BY <1>1, <1>7 DEF UndoFull, SteadyInv, Reservations
  <2>2. /\ pc'[c] \notin reserving
        /\ \A d \in Calls \ {c} : pc'[d] = pc[d] /\ item'[d] = item[d]
    BY <1>7, ProceedPc DEF UndoFull, IInv
  <2>3. /\ dedup' = [dedup EXCEPT ![FingerprintOf[item[c]]] = NoJob]
        /\ UNCHANGED <<entered, done>>
    BY <1>7 DEF UndoFull
  <2> QED BY <1>6, <2>1, <2>2, <2>3
<1>8. ASSUME NEW b \in Bridges, NEW j \in Jobs, Complete(b, j) PROVE Reservations'
  <2>1. j \in entered \ done
    BY <1>8, CompletedIsRunning DEF Complete
  <2>2. Holds(j)
    BY <2>1 DEF SteadyInv, Reservations
  <2>3. \A d \in Calls : pc[d] \in reserving => item[d] # j
    BY <1>1, <2>1
  <2>4. /\ dedup' = [dedup EXCEPT ![FingerprintOf[j]] = NoJob]
        /\ entered' = entered /\ done' = done \cup {j} /\ UNCHANGED handlerVars
    BY <1>8 DEF Complete
  <2> QED BY <1>6, <2>1, <2>2, <2>3, <2>4 DEF handlerVars
<1>9. ASSUME NEW c \in Calls, Reply(c) PROVE Reservations'
  <2>1. pc'[c] = "closed" /\ \A d \in Calls \ {c} : pc'[d] = pc[d]
    BY <1>9 DEF Reply, IInv, TypeOK
  <2> QED BY <1>2, <1>9, <2>1 DEF Reply, redisVars, historyVars
<1>10. ASSUME NEW b \in Bridges,
              DrainPop(b) \/ DrainFetch(b) \/ DrainStart(b) \/ \E j \in Jobs : ExecEnd(b, j)
       PROVE  Reservations'
  BY <1>2, <1>10
     DEF DrainPop, DrainFetch, DrainStart, ExecEnd, redisVars, handlerVars, historyVars
<1>11. CASE UNCHANGED vars
  BY <1>2, <1>11 DEF vars, redisVars, handlerVars, historyVars
<1> QED BY <1>3, <1>4, <1>5, <1>7, <1>8, <1>9, <1>10, <1>11 DEF SteadyNext

-----------------------------------------------------------------------------
(* The invariant holds, and what follows from it.                          *)

LEMMA InitPool == Init => PoolInv
<1> SUFFICES ASSUME Init PROVE PoolInv
  OBVIOUS
<1>1. Upright
  BY DEF Init, Upright
<1>2. Calm
  BY DEF Init, Calm
<1>3. ListsExclusive
  BY DEF Init, ListsExclusive, NoRepeats, ToSet
<1>4. OwnedOnce
  <2>1. ToSet(running) = {}
    BY DEF Init, ToSet
  <2>2. \A b \in Bridges, j \in Jobs : Claims(b, j) = 0
    BY ConstantsAssumption DEF Init, Claims, NoOne
  <2> QED BY <2>1, <2>2 DEF OwnedOnce
<1>5. Reservations
  BY DEF Init, Reservations
<1> QED BY InitInv, <1>1, <1>2, <1>3, <1>4, <1>5 DEF PoolInv, SteadyInv

LEMMA NextPool == PoolInv /\ IInv' /\ [Next]_vars => PoolInv'
<1> SUFFICES ASSUME PoolInv, IInv', [Next]_vars PROVE PoolInv'
  OBVIOUS
<1>1. Upright'
  BY NextUpright DEF PoolInv
<1>2. ASSUME Steady' PROVE SteadyInv'
  <2>1. IInv /\ SteadyInv /\ SteadyNext
    BY <1>2, SteadyStep DEF PoolInv
  <2> QED BY <2>1, NextCalm, NextLists, NextOwned, NextReservations DEF SteadyInv
<1> QED BY <1>1, <1>2 DEF PoolInv

\* The invariant of the steady system holds until the first fault.
THEOREM SteadyInductive == Spec => []PoolInv
<1>1. PoolInv /\ IInv' /\ [Next]_vars => PoolInv'
  BY NextPool
<1> QED BY InitPool, <1>1, InductiveInvariant, PTL DEF Spec

\* Executions are claims on distinct entries of running: all bridges together
\* execute at most MAX_CONCURRENT jobs.
LEMMA SteadyCap == IInv /\ SteadyInv => GlobalCap
<1> SUFFICES ASSUME IInv, SteadyInv PROVE GlobalCap
  OBVIOUS
<1> DEFINE E == Executions
           R == ToSet(running)
           job == [e \in E |-> e[1][2]]
<1>1. ASSUME NEW e \in E
      PROVE  /\ e[1][1] \in Bridges /\ e[1][2] \in R
             /\ Claims(e[1][1], e[1][2]) > 0
             /\ e = <<<<e[1][1], e[1][2]>>, 1>>
  <2>1. PICK b \in Bridges, j \in Jobs : e \in {<<b, j>>} \X (1..executing[b][j])
    BY DEF Executions
  <2>2. PICK n \in 1..executing[b][j] : e = <<<<b, j>>, n>>
    BY <2>1
  <2>3. /\ executing[b][j] \in Nat /\ Claims(b, j) \in Nat
        /\ executing[b][j] <= Claims(b, j)
    BY ClaimsType DEF IInv
  <2>4. Claims(b, j) <= 1
    BY DEF SteadyInv, OwnedOnce
  <2>5. n = 1 /\ Claims(b, j) > 0
    BY <2>3, <2>4
  <2>6. j \in R
    BY <2>5 DEF SteadyInv, OwnedOnce
  <2> QED BY <2>2, <2>5, <2>6
<1>2. \A e, f \in E : e[1][2] = f[1][2] => e = f
  <2> SUFFICES ASSUME NEW e \in E, NEW f \in E, e[1][2] = f[1][2] PROVE e = f
    OBVIOUS
  <2>1. e[1][2] \in Jobs
    <3>1. \A k \in R : k \in Jobs
      BY DEF IInv, EnteredInv, TypeOK
    <3> QED BY <1>1, <3>1
  <2>2. e[1][1] = f[1][1]
    BY <1>1, <2>1 DEF SteadyInv, OwnedOnce
  <2> QED BY <1>1, <2>2
<1> HIDE DEF E
<1>3. job \in Injection(E, R)
  BY <1>1, <1>2 DEF Injection, IsInjective
<1>4. running \in Seq(Jobs) /\ Len(running) <= MaxConcurrent
  BY DEF IInv, TypeOK, RunningCap
<1>5. IsFiniteSet(R) /\ Cardinality(R) \in Nat /\ Cardinality(R) <= Len(running)
  BY <1>4, ToSetCardinality
<1>6. IsFiniteSet(E) /\ Cardinality(E) <= Cardinality(R)
  BY <1>3, <1>5, FS_Injection
<1>7. Cardinality(E) \in Nat
  BY <1>6, FS_CardinalityType
<1>8. MaxConcurrent \in Nat /\ Len(running) \in Nat
  BY <1>4, ConstantsAssumption
<1> QED BY <1>4, <1>5, <1>6, <1>7, <1>8 DEF GlobalCap, E

\* An entry of running is its only one, and has its one owner.
LEMMA SteadySlots == IInv /\ SteadyInv => SlotsOwned
<1> SUFFICES ASSUME IInv, SteadyInv, NEW j \in Jobs
             PROVE  Entries(j) = Cardinality(Owners(j))
  BY DEF SlotsOwned
<1> DEFINE at1 == {i \in DOMAIN running : running[i] = j}
<1>0. running \in Seq(Jobs)
  BY DEF IInv, TypeOK
<1>1. CASE j \in ToSet(running)
  <2>1. PICK i \in 1..Len(running) : running[i] = j
    BY <1>0, <1>1, ToSetLemma
  <2>2. at1 = {i}
    BY <1>0, <2>1 DEF SteadyInv, ListsExclusive, NoRepeats
  <2>3. PICK b \in Bridges : Claims(b, j) > 0
    BY <1>1 DEF SteadyInv, OwnedOnce
  <2>4. Claims(b, j) = 1
    <3>1. Claims(b, j) \in Nat /\ Claims(b, j) <= 1
      BY ClaimsType DEF IInv, SteadyInv, OwnedOnce
    <3> QED BY <2>3, <3>1
  <2>5. ASSUME NEW d \in Bridges, d # b PROVE 1..Claims(d, j) = {}
    <3>1. Claims(d, j) \in Nat /\ ~(Claims(d, j) > 0)
      BY <2>3, <2>5, ClaimsType DEF IInv, SteadyInv, OwnedOnce
    <3> QED BY <3>1
  <2>6. Owners(j) = {<<b, 1>>}
    <3>1. {b} \X (1..Claims(b, j)) = {<<b, 1>>}
      BY <2>4
    <3>2. \A d \in Bridges \ {b} : {d} \X (1..Claims(d, j)) = {}
      BY <2>5
    <3> QED BY <3>1, <3>2 DEF Owners
  <2> QED BY <2>2, <2>6, FS_Singleton DEF Entries
<1>2. CASE j \notin ToSet(running)
  <2>1. at1 = {}
    BY <1>0, <1>2, ToSetLemma
  <2>2. ASSUME NEW d \in Bridges PROVE 1..Claims(d, j) = {}
    <3>1. Claims(d, j) \in Nat /\ ~(Claims(d, j) > 0)
      BY <1>2, ClaimsType DEF IInv, SteadyInv, OwnedOnce
    <3> QED BY <3>1
  <2>3. Owners(j) = {}
    BY <2>2 DEF Owners
  <2> QED BY <2>1, <2>3, FS_EmptySet DEF Entries
<1> QED BY <1>1, <1>2

\* Until the first fault all bridges together execute at most MAX_CONCURRENT
\* jobs: "a global concurrency cap across all bridge processes"
\* (queue-store.mjs), however many bridges share the queue.
THEOREM SteadyGlobalCap == Spec => [](Steady => GlobalCap)
<1>1. PoolInv => (Steady => GlobalCap)
  BY SteadyCap DEF PoolInv
<1> QED BY SteadyInductive, <1>1, PTL

\* Until the first fault every entry of running has exactly one owner: no slot
\* is leaked, and no job is executed by two bridges.
THEOREM SteadySlotsOwned == Spec => [](Steady => SlotsOwned)
<1>1. PoolInv => (Steady => SlotsOwned)
  BY SteadySlots DEF PoolInv
<1> QED BY SteadyInductive, <1>1, PTL

\* Until the first fault no two outstanding jobs have the same fingerprint,
\* although SET NX, push and undo are separate Redis commands.
THEOREM SteadyFingerprints == Spec => [](Steady => OneJobPerFingerprint)
<1>1. IInv /\ SteadyInv => OneJobPerFingerprint
  BY DEF SteadyInv, Reservations, OneJobPerFingerprint
<1>2. PoolInv => (Steady => OneJobPerFingerprint)
  BY <1>1 DEF PoolInv
<1> QED BY SteadyInductive, <1>2, PTL

\* AoJobPool counts with the same FiniteSets.
LEMMA PoolCardinality == \A S : Pool!Cardinality(S) = Cardinality(S)
BY Zenon DEF Pool!Cardinality, Cardinality

\* A steady step is a step of the pool or leaves the pool as it is.
LEMMA PoolStep ==
  IInv /\ SteadyInv /\ SteadyNext => [Pool!Next]_(Pool!poolVars)
<1> SUFFICES ASSUME IInv, SteadyInv, SteadyNext
             PROVE  Pool!Next \/ UNCHANGED Pool!poolVars
  OBVIOUS
<1> USE ConstantsAssumption
<1>0. pending \in Seq(Jobs) /\ running \in Seq(Jobs)
  BY DEF IInv, TypeOK
<1>1. ASSUME UNCHANGED <<pending, running, done>>
      PROVE  UNCHANGED Pool!poolVars
  BY <1>1 DEF Pool!poolVars
<1>2. ASSUME NEW c \in Calls, Push(c) PROVE Pool!Next \/ UNCHANGED Pool!poolVars
  <2>1. CASE EnqueueAdmits /\ Enter(item[c])
    <3>1. item[c] \in Jobs \ entered
      BY <1>2 DEF IInv, HandlerInv, HandlerInvAt, Push
    <3>2. Pool!Queued = ToSet(pending)
      BY DEF Pool!Queued, ToSet
    <3>3. item[c] \notin Pool!Queued \cup ToSet(running) \cup done
      BY <3>1, <3>2 DEF IInv, EnteredInv, SteadyInv, ListsExclusive
    <3>4. Pool!Submit(item[c])
      BY <1>2, <2>1, <3>3 DEF Pool!Submit, Push, Enter, EnqueueAdmits
    <3> QED BY <3>1, <3>4 DEF Pool!Next
  <2>2. CASE UNCHANGED pending
    BY <1>1, <1>2, <2>2 DEF Push
  <2> QED BY <1>2, <2>1, <2>2 DEF Push
<1>3. ASSUME NEW b \in Bridges, DrainPop(b)
      PROVE  Pool!Next \/ UNCHANGED Pool!poolVars
  <2>1. CASE /\ DequeueAdmits /\ pending # <<>>
             /\ running' = Append(running, Head(pending))
             /\ pending' = Tail(pending)
    <3>1. Head(pending) \in Jobs
      BY <1>0, <2>1, TailLemma
    <3>2. ToSet(running') = ToSet(running) \cup {Head(pending)}
      BY <1>0, <2>1, <3>1, AppendLemma
    <3>3. Cardinality(ToSet(running)) < MaxConcurrent
      <4>1. /\ Cardinality(ToSet(running)) \in Nat
            /\ Cardinality(ToSet(running)) <= Len(running)
        BY <1>0, ToSetCardinality
      <4>2. Len(running) < MaxConcurrent /\ Len(running) \in Nat
        BY <1>0, <2>1 DEF DequeueAdmits
      <4> QED BY <4>1, <4>2
    <3>4. UNCHANGED done
      BY <1>3 DEF DrainPop, historyVars
    <3>5. Pool!Serve
      BY <2>1, <3>2, <3>3, <3>4, PoolCardinality DEF Pool!Serve
    <3> QED BY <3>5 DEF Pool!Next
  <2>2. CASE UNCHANGED <<pending, running>>
    BY <1>1, <1>3, <2>2 DEF DrainPop, historyVars
  <2> QED BY <1>3, <2>1, <2>2 DEF DrainPop
<1>4. ASSUME NEW b \in Bridges, NEW j \in Jobs, Complete(b, j) PROVE Pool!Next
  <2>1. j \in ToSet(running)
    BY <1>4, CompletedIsRunning DEF Complete
  <2>2. ToSet(running') = ToSet(running) \ {j}
    BY <1>0, <1>4, LRemNoRepeats DEF Complete, SteadyInv, ListsExclusive
  <2>3. Pool!Finish(j)
    BY <1>4, <2>1, <2>2 DEF Pool!Finish, Complete
  <2> QED BY <2>3 DEF Pool!Next
<1>5. ASSUME NEW c \in Calls,
             (\E b \in Bridges : Receive(c, b)) \/ Reserve(c) \/ UndoFull(c) \/ Reply(c)
      PROVE  UNCHANGED Pool!poolVars
  BY <1>1, <1>5 DEF Receive, Reserve, UndoFull, Reply, redisVars, historyVars
<1>6. ASSUME NEW b \in Bridges,
             DrainFetch(b) \/ DrainStart(b) \/ \E j \in Jobs : ExecEnd(b, j)
      PROVE  UNCHANGED Pool!poolVars
  BY <1>1, <1>6 DEF DrainFetch, DrainStart, ExecEnd, redisVars, historyVars
<1>7. CASE UNCHANGED vars
  BY <1>1, <1>7 DEF vars, redisVars, historyVars
<1> QED BY <1>2, <1>3, <1>4, <1>5, <1>6, <1>7 DEF SteadyNext

\* Until the first fault the bridges, the scripts and the drain loops take the
\* steps of one bounded FIFO queue with MAX_CONCURRENT workers (the safety
\* half of RefinesPool, for any number of bridges).
THEOREM SteadyRefinement ==
  Spec => Pool!Init /\ [][Steady' => Pool!Next]_(Pool!poolVars)
<1>1. Init => Pool!Init
  BY DEF Init, Pool!Init, ToSet
<1>2. PoolInv /\ [Next]_vars => [Steady' => Pool!Next]_(Pool!poolVars)
  <2> SUFFICES ASSUME PoolInv, [Next]_vars, Steady'
               PROVE  [Pool!Next]_(Pool!poolVars)
    OBVIOUS
  <2>1. IInv /\ SteadyInv /\ SteadyNext
    BY SteadyStep DEF PoolInv
  <2> QED BY <2>1, PoolStep
<1> QED BY SteadyInductive, <1>1, <1>2, PTL DEF Spec
=============================================================================
