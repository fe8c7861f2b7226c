------------------------ MODULE ExplorerTurnsProofs ------------------------
(***************************************************************************)
(* What the turns promise: the Explorer phase (ExplorerTurns), for every   *)
(* pool of lineages, workers and attempts, every set of limits and every   *)
(* number of stops and cycles; and, at the end, the main sort that follows *)
(* it in a turn (MainSort).                                                *)
(*                                                                         *)
(* The steps are first reduced to what they do: to lineages and attempts   *)
(* (LineageEffects), to the pool (PoolEffects), to the phase and the main  *)
(* thread (ControlEffects), and to the records (RecordEffects).  The       *)
(* invariant is then preserved effect by effect.                           *)
(***************************************************************************)
EXTENDS ExplorerTurns, MainSort, SequenceTheorems, WellFoundedInduction, TLAPS

(***************************************************************************)
(* Types.                                                                  *)
(***************************************************************************)

(* Each event that reaches an Explorer call keeps its record well typed.   *)
LEMMA ReducerTypes ==
    ASSUME NEW k \in CallRecords
    PROVE  /\ Launch(k) \in CallRecords
           /\ \A n \in Nat : ReceiveResult(k, n) \in CallRecords
           /\ CommitResult(k) \in CallRecords
           /\ RecordTransportFailure(k) \in CallRecords
           /\ Cancel(k) \in CallRecords
           /\ ReconcileAfterStop(k) \in CallRecords
<1>0. /\ k.attempt + 1 \in Nat
      /\ k.retries + 1 \in Nat
      /\ k.epoch + 1 \in Nat \ {0}
      /\ k.fenced \cup {k.epoch} \in SUBSET Nat
  BY DEF CallRecords
<1>1. Launch(k) \in CallRecords
  BY <1>0 DEF Launch, CallRecords, CallStates
<1>2. \A n \in Nat : ReceiveResult(k, n) \in CallRecords
  BY DEF ReceiveResult, CallRecords, CallStates
<1>3. CommitResult(k) \in CallRecords /\ Cancel(k) \in CallRecords
  BY DEF CommitResult, Cancel, CallRecords, CallStates
<1>4. RecordTransportFailure(k) \in CallRecords
  BY <1>0 DEF RecordTransportFailure, AfterRetry, CallRecords, CallStates
<1>5. ReconcileAfterStop(k) \in CallRecords
  BY <1>0 DEF ReconcileAfterStop, CallRecords, CallStates
<1>6. QED
  BY <1>1, <1>2, <1>3, <1>4, <1>5

(* Attempts are pairs, so none of them is the absent candidate.            *)
LEMMA AttemptIds ==
    /\ \A a \in Attempts : a[1] \in Lineages /\ a[2] \in 1 .. AttemptLimit
    /\ \A a, b \in Attempts : a[1] = b[1] /\ a[2] = b[2] => a = b
    /\ \A l \in Lineages, n \in 1 .. AttemptLimit :
          <<l, n>> \in Attempts /\ <<l, n>>[1] = l /\ <<l, n>>[2] = n
    /\ NoCandidate \notin Attempts
<1>1. /\ \A a \in Attempts : a[1] \in Lineages /\ a[2] \in 1 .. AttemptLimit
      /\ \A a, b \in Attempts : a[1] = b[1] /\ a[2] = b[2] => a = b
      /\ \A l \in Lineages, n \in 1 .. AttemptLimit :
            <<l, n>> \in Attempts /\ <<l, n>>[1] = l /\ <<l, n>>[2] = n
  BY DEF Attempts
<1>2. NoCandidate \notin Attempts
  BY DEF Attempts, NoCandidate
<1>3. QED
  BY <1>1, <1>2

(* What a planned attempt, a free one and an unused one look like.         *)
LEMMA FreshTypes ==
    /\ \A a \in Attempts : Planned(a) \in AttemptRecords
    /\ Unplanned \in AttemptRecords
    /\ NotAdmitted \in LineageRecords
    /\ Idle \in RunnerRecords
<1>1. \A a \in Attempts : Planned(a) \in AttemptRecords
  BY AttemptIds, ConstantsAssumption
     DEF Planned, PrepareCall, AttemptRecords, CallRecords, CallStates, NoLaunch
<1>2. Unplanned \in AttemptRecords
  BY DEF Unplanned, Absent, AttemptRecords, CallRecords, CallStates, NoLaunch
<1>3. NotAdmitted \in LineageRecords
  BY ConstantsAssumption DEF NotAdmitted, LineageRecords
<1>4. Idle \in RunnerRecords
  BY DEF Idle, RunnerRecords, NoLaunch
<1>5. QED
  BY <1>1, <1>2, <1>3, <1>4

(***************************************************************************)
(* What a step does to lineages and attempts.                              *)
(***************************************************************************)
Endings == {"progress", "failed", "timed_out"}

Admits(l) ==
    /\ lineages[l].status = "none"
    /\ ctl.phase = "explorer_admission"
    /\ lineages' = [lineages EXCEPT ![l].status = "ready"]
    /\ UNCHANGED <<attempts, claimed>>

Starts(l) ==
    LET n == lineages[l].started + 1 IN
    /\ lineages[l].status \in {"ready", "continuation_pending"}
    /\ n <= AttemptLimit
    /\ ctl.phase \in ExplorerPhases
    /\ lineages' = [lineages EXCEPT ![l].status = "running", ![l].started = n]
    /\ attempts' = [attempts EXCEPT ![<<l, n>>] = Planned(<<l, n>>)]
    /\ claimed' = claimed

Ends(a) ==
    /\ loop = "wave"
    /\ Ended(attempts[a]) \/ Current(a)
    /\ \E outcome \in Endings, record \in CallRecords : EndAttempt(a, outcome, record)
    /\ claimed' = claimed

Claims(a) ==
    /\ loop = "wave"
    /\ Current(a) /\ claimed = NoCandidate
    /\ claimed' = a
    /\ AcceptRootCandidate(a)
    /\ lineages' = StopAll(a)
    /\ attempts' = StopAttempts(a)

(* The calls of some attempts move, and those that are not over stay so.   *)
CallsMove ==
    /\ UNCHANGED <<lineages, claimed>>
    /\ \E calls \in [Attempts -> CallRecords] :
          /\ attempts' = [b \in Attempts |-> [attempts[b] EXCEPT !.call = calls[b]]]
          /\ \A b \in Attempts :
                Call(b).status \in Cancellable => calls[b].status \in Cancellable

Resets ==
    /\ ctl'.phase = "explorer_admission"
    /\ lineages' = [l \in Lineages |-> NotAdmitted]
    /\ attempts' = [a \in Attempts |-> Unplanned]
    /\ claimed' = NoCandidate

Untouched == UNCHANGED <<lineages, attempts, claimed>>

LineageEffect ==
    \/ \E l \in Lineages : Admits(l) \/ Starts(l)
    \/ \E a \in Attempts : Ends(a) \/ Claims(a)
    \/ CallsMove \/ Resets \/ Untouched

(* One call moves, and the others stay: a special case of CallsMove.       *)
LEMMA OneCallMoves ==
    ASSUME TypeOK, NEW a \in Attempts, NEW k \in CallRecords,
           attempts' = [attempts EXCEPT ![a].call = k],
           Call(a).status \in Cancellable => k.status \in Cancellable,
           UNCHANGED <<lineages, claimed>>
    PROVE  CallsMove
<1> DEFINE calls == [b \in Attempts |-> IF b = a THEN k ELSE Call(b)]
<1>1. calls \in [Attempts -> CallRecords]
  BY DEF TypeOK, AttemptRecords, Call
<1>2. attempts' = [b \in Attempts |-> [attempts[b] EXCEPT !.call = calls[b]]]
  BY DEF TypeOK, AttemptRecords, Call
<1>3. \A b \in Attempts :
         Call(b).status \in Cancellable => calls[b].status \in Cancellable
  OBVIOUS
<1>4. QED
  BY <1>1, <1>2, <1>3 DEF CallsMove

(* The transactions that may end an attempt end it or leave it alone.      *)
LEMMA FailureEnds ==
    ASSUME TypeOK, NEW a \in Attempts, MayFail(a), FailAttempt(a),
           loop = "wave", claimed' = claimed
    PROVE  Ends(a) \/ Untouched
<1>1. Cancel(Call(a)) \in CallRecords
  BY ReducerTypes DEF TypeOK, AttemptRecords, Call
<1>2. QED
  BY <1>1 DEF MayFail, FailAttempt, Ends, Untouched, Endings

LEMMA CommitEnds ==
    ASSUME TypeOK, NEW a \in Attempts, NEW outcome \in {"progress", "timed_out"},
           CommitAttempt(a, outcome)
    PROVE  Ends(a) \/ Untouched
<1>1. CommitResult(Call(a)) \in CallRecords
  BY ReducerTypes DEF TypeOK, AttemptRecords, Call
<1>2. QED
  BY <1>1 DEF CommitAttempt, Collectable, Abort, MayEnd, Ends, Untouched, Endings

(* What a worker thread does to its call.                                  *)
LEMMA WorkerEffects ==
    ASSUME TypeOK, NEW a \in Attempts, WorkerStep(a)
    PROVE  CallsMove \/ Untouched
<1>0. /\ Call(a) \in CallRecords
      /\ runners[a] \in RunnerRecords
      /\ runners[a].launch \in Nat
  BY DEF TypeOK, AttemptRecords, RunnerRecords, Call
<1>1. CASE RunnerBegin(a)
  <2>1. CASE CanLaunch(Call(a))
    <3>1. attempts' = [attempts EXCEPT ![a].call = Launch(Call(a))]
      BY <1>1, <2>1 DEF RunnerBegin, Call
    <3>2. Launch(Call(a)) \in CallRecords /\ Launch(Call(a)).status \in Cancellable
      BY <1>0, ReducerTypes DEF Launch, Cancellable, CallRecords
    <3>3. QED
      BY <1>1, <3>1, <3>2, OneCallMoves DEF RunnerBegin
  <2>2. CASE ~CanLaunch(Call(a))
    BY <1>1, <2>2 DEF RunnerBegin, Untouched
  <2>3. QED
    BY <2>1, <2>2
<1>2. CASE AgentReplies(a)
  <2> DEFINE k == ReceiveResult(Call(a), runners[a].launch)
  <2>1. attempts' = [attempts EXCEPT ![a].call = k]
    BY <1>2 DEF AgentReplies, Call
  <2>2. k \in CallRecords
    BY <1>0, ReducerTypes
  <2>3. Call(a).status \in Cancellable => k.status \in Cancellable
    BY <1>0 DEF ReceiveResult, Cancellable, CallRecords
  <2>4. QED
    BY <1>2, <2>1, <2>2, <2>3, OneCallMoves DEF AgentReplies
<1>3. CASE AgentFails(a)
  BY <1>3 DEF AgentFails, Untouched
<1>4. CASE RecordFailure(a)
  <2> DEFINE k == RecordTransportFailure(Call(a))
  <2>1. attempts' = [attempts EXCEPT ![a].call = k]
    BY <1>4 DEF RecordFailure, Call
  <2>2. k \in CallRecords
    BY <1>0, ReducerTypes
  <2>3. k.status \in Cancellable
    BY <1>0 DEF RecordTransportFailure, AfterRetry, Cancellable, CallRecords
  <2>4. QED
    BY <1>4, <2>1, <2>2, <2>3, OneCallMoves DEF RecordFailure
<1>5. QED
  BY <1>1, <1>2, <1>3, <1>4 DEF WorkerStep

(* So does recovery, for all calls at once.                                *)
LEMMA RecoveryEffects ==
    ASSUME TypeOK, Restart
    PROVE  CallsMove
<1> DEFINE calls == [b \in Attempts |-> ReconcileAfterStop(Call(b))]
<1>0. \A b \in Attempts : Call(b) \in CallRecords
  BY DEF TypeOK, AttemptRecords, Call
<1>1. calls \in [Attempts -> CallRecords]
  BY <1>0, ReducerTypes
<1>2. attempts' = [b \in Attempts |-> [attempts[b] EXCEPT !.call = calls[b]]]
  BY DEF Restart, Recover, Call
<1>3. \A b \in Attempts :
         Call(b).status \in Cancellable => calls[b].status \in Cancellable
  BY <1>0 DEF ReconcileAfterStop, LostByStop, Cancellable, CallRecords
<1>4. UNCHANGED <<lineages, claimed>>
  BY DEF Restart
<1>5. QED
  BY <1>1, <1>2, <1>3, <1>4 DEF CallsMove

LEMMA LineageEffects ==
    ASSUME TypeOK, [Next]_vars
    PROVE  LineageEffect
<1>1. CASE Tick \/ QueueLimits \/ BeginWave \/ WaveEnds \/ AbortEnds
           \/ CheckTurn \/ PrepareSortTask \/ BeginSort
  BY <1>1 DEF Tick, QueueLimits, BeginWave, WaveEnds, AbortEnds, CheckTurn,
              PrepareSortTask, BeginSort, LineageEffect, Untouched
<1>2. ASSUME NEW l \in Lineages, AdmitLineage(l) PROVE LineageEffect
  BY <1>2 DEF AdmitLineage, AdmissionOpen, Admits, LineageEffect
<1>3. ASSUME NEW l \in Lineages, StartAttempt(l) PROVE LineageEffect
  BY <1>3 DEF StartAttempt, Startable, Starts, LineageEffect
<1>4. ASSUME NEW a \in Attempts, Resume(a) PROVE LineageEffect
  BY <1>4 DEF Resume, LineageEffect, Untouched
<1>5. ASSUME NEW a \in Attempts, Expire(a) PROVE LineageEffect
  <2>1. Cancel(Call(a)) \in CallRecords
    BY ReducerTypes DEF TypeOK, AttemptRecords, Call
  <2>2. QED
    BY <1>5, <2>1 DEF Expire, Ends, Endings, LineageEffect
<1>6. ASSUME NEW a \in Attempts, PlanFailure(a) PROVE LineageEffect
  <2>1. MayFail(a)
    BY <1>6 DEF PlanFailure, Resumable, MayFail, Containable, Current, Ended
  <2>2. QED
    BY <1>6, <2>1, FailureEnds DEF PlanFailure, Capacity, LineageEffect
<1>7. ASSUME NEW a \in Attempts, DropCancelled(a) PROVE LineageEffect
  BY <1>7 DEF DropCancelled, LineageEffect, Untouched
<1>8. ASSUME NEW a \in Attempts, CollectFailure(a) PROVE LineageEffect
  BY <1>8, FailureEnds
     DEF CollectFailure, Collectable, Abort, LineageEffect, Untouched
<1>9. ASSUME NEW a \in Attempts, NEW outcome \in {"progress", "timed_out"},
             CommitAttempt(a, outcome)
      PROVE  LineageEffect
  BY <1>9, CommitEnds DEF LineageEffect
<1>10. ASSUME NEW a \in Attempts, CommitCandidate(a) PROVE LineageEffect
  BY <1>10 DEF CommitCandidate, Collectable, Claimable, Abort, Claims,
               LineageEffect, Untouched
<1>11. ASSUME NEW a \in Attempts, WorkerStep(a) PROVE LineageEffect
  BY <1>11, WorkerEffects DEF LineageEffect
<1>12. ASSUME NEW a \in Attempts, Write(a) PROVE LineageEffect
  BY <1>12 DEF Write, LineageEffect, Untouched
<1>13. CASE CloseSort \/ OpenRun \/ HostAttempt \/ HostTailEnds
  BY <1>13 DEF CloseSort, OpenRun, HostAttempt, HostTailEnds, LineageEffect,
               Untouched
<1>14. CASE FinishHostDrain
  BY <1>14 DEF FinishHostDrain, LineageEffect, Resets
<1>15. CASE Stop
  BY <1>15 DEF Stop, LineageEffect, Untouched
<1>16. CASE Restart
  BY <1>16, RecoveryEffects DEF LineageEffect
<1>17. CASE UNCHANGED vars
  BY <1>17 DEF vars, LineageEffect, Untouched
<1>18. QED
  BY <1>1, <1>2, <1>3, <1>4, <1>5, <1>6, <1>7, <1>8, <1>9, <1>10, <1>11,
     <1>12, <1>13, <1>14, <1>15, <1>16, <1>17
     DEF Next, MainStep, HostStep, Collect

(***************************************************************************)
(* What a step does to the pool: no worker is added but one, for a lineage *)
(* without any, and by the wave.                                           *)
(***************************************************************************)
Joins(a) ==
    /\ loop = "wave" /\ loop' = "wave"
    /\ \A b \in InFlight : b[1] # a[1]
    /\ InFlight' = InFlight \cup {a}

PoolEffect ==
    \/ InFlight' \subseteq InFlight
    \/ \E a \in Attempts : Joins(a)

(* A thread that moves on is still the thread it was.                      *)
LEMMA ThreadMoves ==
    ASSUME TypeOK, NEW a \in Attempts, NEW r \in RunnerRecords,
           runners' = [runners EXCEPT ![a] = r],
           r.pc = "idle" \/ a \in InFlight
    PROVE  InFlight' \subseteq InFlight /\ runners' \in [Attempts -> RunnerRecords]
  BY DEF TypeOK, InFlight

LEMMA ThreadStarts ==
    ASSUME TypeOK, NEW a \in Attempts, a[1] \notin Blocked,
           loop = "wave", loop' = loop,
           runners' = [runners EXCEPT ![a].pc = "start"]
    PROVE  Joins(a) /\ runners' \in [Attempts -> RunnerRecords]
<1>1. /\ [runners[a] EXCEPT !.pc = "start"] \in RunnerRecords
      /\ [runners[a] EXCEPT !.pc = "start"].pc = "start"
  BY DEF TypeOK, RunnerRecords
<1>2. runners' \in [Attempts -> RunnerRecords]
  BY <1>1 DEF TypeOK
<1>3. InFlight' = InFlight \cup {a}
  BY <1>1 DEF TypeOK, InFlight
<1>4. \A b \in InFlight : b[1] # a[1]
  BY DEF Blocked
<1>5. QED
  BY <1>2, <1>3, <1>4 DEF Joins

LEMMA PoolEffects ==
    ASSUME TypeOK, [Next]_vars
    PROVE  PoolEffect /\ runners' \in [Attempts -> RunnerRecords]
<1> DEFINE Goal == PoolEffect /\ runners' \in [Attempts -> RunnerRecords]
<1>0. \A a \in Attempts : runners[a] \in RunnerRecords /\ Call(a) \in CallRecords
  BY DEF TypeOK, AttemptRecords, Call
<1>1. ASSUME UNCHANGED runners PROVE Goal
  BY <1>1 DEF TypeOK, PoolEffect, InFlight
<1>2. ASSUME runners' = [a \in Attempts |-> Idle] PROVE Goal
  BY <1>2, FreshTypes DEF PoolEffect, InFlight, Idle
<1>3. ASSUME NEW a \in Attempts, runners' = [runners EXCEPT ![a] = Idle]
      PROVE  Goal
  BY <1>3, FreshTypes, ThreadMoves DEF PoolEffect, Idle
<1>4. ASSUME NEW l \in Lineages, StartAttempt(l) PROVE Goal
  <2> DEFINE a == <<l, lineages[l].started + 1>>
  <2>1. a \in Attempts /\ a[1] = l
    BY <1>4, AttemptIds DEF StartAttempt, TypeOK, LineageRecords
  <2>2. Joins(a) /\ runners' \in [Attempts -> RunnerRecords]
    BY <1>4, <2>1, ThreadStarts DEF StartAttempt, Capacity, Startable
  <2>3. QED
    BY <2>1, <2>2 DEF PoolEffect
<1>5. ASSUME NEW a \in Attempts, Resume(a) PROVE Goal
  BY <1>5, ThreadStarts DEF Resume, Resumable, Capacity, PoolEffect
<1>6. ASSUME NEW a \in Attempts, RunnerBegin(a) PROVE Goal
  <2>1. a \in InFlight
    BY <1>6 DEF RunnerBegin, InFlight
  <2>2. PICK r \in RunnerRecords : runners' = [runners EXCEPT ![a] = r]
    <3>1. CASE CanLaunch(Call(a))
      BY <1>0, <1>6, <3>1 DEF RunnerBegin, RunnerRecords, CallRecords
    <3>2. CASE ~CanLaunch(Call(a))
      <4> DEFINE place == IF Call(a).status = "completed" THEN "done" ELSE "raised"
      <4>1. runners' = [runners EXCEPT ![a] = [runners[a] EXCEPT !.pc = place]]
        BY <1>6, <3>2 DEF RunnerBegin, TypeOK
      <4>2. [runners[a] EXCEPT !.pc = place] \in RunnerRecords
        BY <1>0 DEF RunnerRecords
      <4>3. QED
        BY <4>1, <4>2
    <3>3. QED
      BY <3>1, <3>2
  <2>3. QED
    BY <2>1, <2>2, ThreadMoves DEF PoolEffect
<1>7. ASSUME NEW a \in Attempts, AgentReplies(a) \/ AgentFails(a) \/ RecordFailure(a)
      PROVE  Goal
  <2>1. a \in InFlight
    BY <1>7 DEF AgentReplies, AgentFails, RecordFailure, InFlight
  <2>2. PICK place \in {"done", "raised", "failing", "start"} :
           runners' = [runners EXCEPT ![a].pc = place]
    BY <1>7 DEF AgentReplies, AgentFails, RecordFailure
  <2>3. [runners[a] EXCEPT !.pc = place] \in RunnerRecords
    BY <1>0 DEF RunnerRecords
  <2>4. runners' = [runners EXCEPT ![a] = [runners[a] EXCEPT !.pc = place]]
    BY <2>2 DEF TypeOK
  <2>5. QED
    BY <2>1, <2>3, <2>4, ThreadMoves DEF PoolEffect
<1>8. ASSUME NEW a \in Attempts, Collect(a) PROVE Goal
  <2>1. runners' = [runners EXCEPT ![a] = Idle]
    BY <1>8 DEF Collect, DropCancelled, CollectFailure, CommitAttempt, CommitCandidate
  <2>2. QED
    BY <1>3, <2>1
<1>9. CASE \/ Tick \/ QueueLimits \/ BeginWave \/ WaveEnds
           \/ CheckTurn \/ PrepareSortTask \/ BeginSort
           \/ CloseSort \/ OpenRun \/ HostAttempt \/ HostTailEnds
           \/ FinishHostDrain \/ Restart \/ UNCHANGED vars
  <2>1. UNCHANGED runners
    BY <1>9 DEF Tick, QueueLimits, BeginWave, WaveEnds, CheckTurn, PrepareSortTask,
                BeginSort, CloseSort, OpenRun, HostAttempt, HostTailEnds,
                FinishHostDrain, Restart, vars
  <2>2. QED
    BY <1>1, <2>1
<1>10. CASE AbortEnds \/ Stop
  BY <1>2, <1>10 DEF AbortEnds, Stop
<1>11. ASSUME NEW l \in Lineages, AdmitLineage(l) PROVE Goal
  BY <1>1, <1>11 DEF AdmitLineage
<1>12. ASSUME NEW a \in Attempts, PlanFailure(a) \/ Expire(a) \/ Write(a)
       PROVE  Goal
  BY <1>1, <1>12 DEF PlanFailure, Expire, Write
<1>13. QED
  BY <1>4, <1>5, <1>6, <1>7, <1>8, <1>9, <1>10, <1>11, <1>12
     DEF Next, MainStep, HostStep, WorkerStep

(***************************************************************************)
(* What a step does to the phase.                                          *)
(***************************************************************************)
(* A tick leaves Explorer to the handoff, and a candidate closes it.       *)
Ticks ==
    /\ ctl'.phase \in ExplorerPhases <=> ctl.phase \in ExplorerPhases
    /\ ctl.candidate # NoCandidate /\ ctl.phase # "explorer_admission"
          => ctl'.phase # "explorer_admission"
    /\ ctl'.candidate = ctl.candidate
    /\ ctl'.cycle = ctl.cycle /\ ctl'.sort = ctl.sort

ControlEffect ==
    \/ Ticks
    \/ BeginSort \/ OpenRun \/ FinishHostDrain
    \/ \E a \in Attempts :
          /\ claimed = NoCandidate /\ claimed' = a
          /\ loop = "wave" /\ loop' = "wave"
          /\ ctl.phase \in ExplorerPhases
          /\ AcceptRootCandidate(a)

Budgets == [limits : Limits, pending : Limits \cup {NotPending}]

LEMMA DueTypes ==
    ASSUME TypeOK, NEW b \in Due(budget)
    PROVE  b \in Budgets
<1>1. NotPending \notin Limits
  BY ConstantsAssumption DEF NotPending, Limits
<1>2. CASE b = budget
  BY <1>2 DEF TypeOK, Budgets
<1>3. CASE b # budget
  <2>1. /\ b = [limits |-> budget.pending, pending |-> NotPending]
        /\ budget.pending # NotPending
    BY <1>3 DEF Due
  <2>2. QED
    BY <2>1 DEF TypeOK, Budgets
<1>4. QED
  BY <1>2, <1>3

LEMMA TickEffects ==
    ASSUME TypeOK, NEW used, Ticked(used)
    PROVE  Ticks /\ ctl' \in Controls /\ budget' \in Budgets
<1>1. PICK b \in Due(budget) : budget' = b /\ ctl' = TickPhase(ctl, b.limits, used)
  BY DEF Ticked
<1>2. budget' \in Budgets
  BY <1>1, DueTypes
<1> DEFINE stage == ctl'.phase
<1>3. /\ ctl' = [ctl EXCEPT !.phase = stage]
      /\ \/ stage = ctl.phase
         \/ ctl.phase = "explorer_admission" /\ stage = "explorer_drain"
         \/ /\ ctl.phase = "explorer_drain" /\ stage = "explorer_admission"
            /\ ctl.candidate = NoCandidate
         \/ ctl.phase = "franta_run" /\ stage = "franta_drain"
         \/ ctl.phase = "franta_drain" /\ stage = "franta_run"
  BY <1>1 DEF TickPhase, TypeOK, Controls
<1>4. ctl' \in Controls
  BY <1>3 DEF TypeOK, Controls, Phases, ExplorerPhases
<1>5. Ticks
  BY <1>3 DEF Ticks, TypeOK, Controls, ExplorerPhases
<1>6. QED
  BY <1>2, <1>4, <1>5

LEMMA ControlEffects ==
    ASSUME TypeOK, [Next]_vars
    PROVE  ControlEffect /\ ctl' \in Controls /\ budget' \in Budgets
<1> DEFINE Goal == ControlEffect /\ ctl' \in Controls /\ budget' \in Budgets
<1>1. ASSUME UNCHANGED <<ctl, budget>> PROVE Goal
  BY <1>1 DEF TypeOK, ControlEffect, Ticks, Budgets
<1>2. ASSUME NEW used, Ticked(used) PROVE Goal
  BY <1>2, TickEffects DEF ControlEffect
<1>3. CASE \/ Tick \/ BeginWave \/ WaveEnds \/ CheckTurn
           \/ \E l \in Lineages : AdmitLineage(l) \/ StartAttempt(l)
  BY <1>2, <1>3 DEF Tick, BeginWave, WaveEnds, CheckTurn, AdmitLineage, StartAttempt
<1>4. CASE QueueLimits
  BY <1>4 DEF QueueLimits, ControlEffect, Ticks, TypeOK, Budgets
<1>5. CASE BeginSort
  BY <1>5 DEF BeginSort, ControlEffect, TypeOK, Controls, Phases, Budgets
<1>6. CASE OpenRun
  BY <1>6 DEF OpenRun, ControlEffect, TypeOK, Controls, Phases, Budgets
<1>7. CASE FinishHostDrain
  <2>1. budget' \in Budgets
    BY <1>7, DueTypes DEF FinishHostDrain
  <2>2. ctl' \in Controls
    BY <1>7 DEF FinishHostDrain, TypeOK, Controls, Phases, ExplorerPhases, NoSort
  <2>3. QED
    BY <1>7, <2>1, <2>2 DEF ControlEffect
<1>8. ASSUME NEW a \in Attempts, CommitCandidate(a) PROVE Goal
  <2>1. CASE CanCommit(Call(a)) /\ Claimable(a)
    <3>1. ctl' \in Controls
      BY <1>8, <2>1, ZenonT(40) DEF CommitCandidate, AcceptRootCandidate, TypeOK, Controls,
                        Phases, ExplorerPhases
    <3>2. QED
      BY <1>8, <2>1, <3>1 DEF CommitCandidate, Collectable, Claimable,
                              ControlEffect, TypeOK, Budgets
  <2>2. CASE ~(CanCommit(Call(a)) /\ Claimable(a))
    BY <1>1, <1>8, <2>2 DEF CommitCandidate, Abort
  <2>3. QED
    BY <2>1, <2>2
<1>9. ASSUME NEW a \in Attempts,
             \/ Resume(a) \/ PlanFailure(a) \/ DropCancelled(a) \/ CollectFailure(a)
             \/ \E outcome \in {"progress", "timed_out"} : CommitAttempt(a, outcome)
             \/ Expire(a) \/ Write(a) \/ WorkerStep(a)
      PROVE  Goal
  <2>1. UNCHANGED <<ctl, budget>>
    BY <1>9 DEF Resume, PlanFailure, DropCancelled, CollectFailure, CommitAttempt,
                Abort, Expire, Write, WorkerStep, RunnerBegin, AgentReplies,
                AgentFails, RecordFailure
  <2>2. QED
    BY <1>1, <2>1
<1>10. CASE \/ AbortEnds \/ PrepareSortTask \/ CloseSort \/ HostAttempt
            \/ HostTailEnds \/ Stop \/ Restart \/ UNCHANGED vars
  <2>1. UNCHANGED <<ctl, budget>>
    BY <1>10 DEF AbortEnds, PrepareSortTask, CloseSort, HostAttempt, HostTailEnds,
                 Stop, Restart, vars
  <2>2. QED
    BY <1>1, <2>1
<1>11. QED
  BY <1>3, <1>4, <1>5, <1>6, <1>7, <1>8, <1>9, <1>10
     DEF Next, MainStep, HostStep, Collect

(***************************************************************************)
(* What a step does to the main thread and to the records.                 *)
(***************************************************************************)
ExplorerPlaces == {"wave", "turn", "handoff", "prepared", "aborting"}

LoopEffect ==
    /\ loop' \in Places
    /\ loop' \in ExplorerPlaces =>
          \/ ctl'.phase \in ExplorerPhases
          \/ loop \in ExplorerPlaces /\ Ticks
    /\ loop' \notin {"wave", "aborting"} /\ loop \in {"wave", "aborting"} =>
          InFlight' = {}
    /\ loop' = "prepared" => loop = "prepared" \/ PrepareSortTask
    /\ loop' # "down" => loop # "down" \/ Restart

LEMMA LoopEffects ==
    ASSUME TypeOK, [Next]_vars
    PROVE  LoopEffect
<1>0. loop \in Places /\ (ctl' = ctl => Ticks)
  BY DEF TypeOK, Ticks
<1>1. ASSUME loop' = loop, Ticks PROVE LoopEffect
  BY <1>0, <1>1 DEF LoopEffect
<1>2. CASE \/ Tick \/ \E l \in Lineages : AdmitLineage(l) \/ StartAttempt(l)
  BY <1>1, <1>2, TickEffects DEF Tick, AdmitLineage, StartAttempt
<1>3. CASE BeginWave
  BY <1>3, TickEffects DEF BeginWave, Ticks, LoopEffect, Places, ExplorerPlaces
<1>4. CASE WaveEnds
  <2>1. InFlight' = {}
    BY <1>4 DEF WaveEnds, InFlight
  <2>2. QED
    BY <1>4, <2>1, TickEffects DEF WaveEnds, LoopEffect, Places, ExplorerPlaces
<1>5. CASE CheckTurn
  BY <1>5, TickEffects DEF CheckTurn, LoopEffect, Places, ExplorerPlaces
<1>6. CASE PrepareSortTask
  BY <1>6 DEF PrepareSortTask, LoopEffect, Places, ExplorerPhases
<1>7. CASE BeginSort
  BY <1>7 DEF BeginSort, LoopEffect, Places, ExplorerPlaces
<1>8. CASE OpenRun \/ FinishHostDrain
  BY <1>8 DEF OpenRun, FinishHostDrain, LoopEffect, Places, ExplorerPlaces
<1>9. ASSUME NEW a \in Attempts,
             \/ Resume(a) \/ PlanFailure(a) \/ DropCancelled(a)
             \/ Expire(a) \/ Write(a) \/ WorkerStep(a)
      PROVE  LoopEffect
  <2>1. loop' = loop /\ ctl' = ctl
    BY <1>9 DEF Resume, PlanFailure, DropCancelled, Expire, Write, WorkerStep,
                RunnerBegin, AgentReplies, AgentFails, RecordFailure
  <2>2. QED
    BY <1>0, <1>1, <2>1
<1>10. ASSUME NEW a \in Attempts,
              \/ CollectFailure(a) \/ CommitCandidate(a)
              \/ \E outcome \in {"progress", "timed_out"} : CommitAttempt(a, outcome)
       PROVE  LoopEffect
  <2>1. /\ loop = "wave" /\ loop' \in {"wave", "aborting"}
        /\ ctl' = ctl \/ ctl'.phase \in ExplorerPhases
    BY <1>10 DEF CollectFailure, CommitCandidate, CommitAttempt, Collectable, Abort,
                 AcceptRootCandidate, ExplorerPhases, TypeOK, Controls
  <2>2. QED
    BY <1>0, <2>1 DEF LoopEffect, Places, ExplorerPlaces
<1>11. CASE QueueLimits \/ CloseSort \/ HostAttempt \/ HostTailEnds \/ UNCHANGED vars
  BY <1>0, <1>1, <1>11 DEF QueueLimits, CloseSort, HostAttempt, HostTailEnds, vars
<1>12. CASE AbortEnds \/ Stop
  <2>1. InFlight' = {} /\ loop' = "down"
    BY <1>12 DEF AbortEnds, Stop, InFlight, Idle
  <2>2. QED
    BY <2>1 DEF LoopEffect, Places, ExplorerPlaces
<1>13. CASE Restart
  BY <1>13 DEF Restart, LoopEffect, Places, ExplorerPlaces
<1>14. QED
  BY <1>2, <1>3, <1>4, <1>5, <1>6, <1>7, <1>8, <1>9, <1>10, <1>11, <1>12, <1>13
     DEF Next, MainStep, HostStep, Collect

(* Only a worker that is in flight writes; only a stop cuts a write off.   *)
Writes(new) ==
    /\ receipts' = receipts \cup new
    /\ UNCHANGED sortTasks
    /\ \/ visible' = visible \cup new /\ loop' = loop
       \/ visible' = visible /\ loop' = "down"

RecordEffect ==
    \/ \E new \in SUBSET InFlight : Writes(new)
    \/ Restart \/ PrepareSortTask \/ BeginSort \/ CloseSort \/ FinishHostDrain
    \/ UNCHANGED <<receipts, visible, sortTasks>>

LEMMA RecordEffects ==
    ASSUME TypeOK, [Next]_vars
    PROVE  RecordEffect
<1>1. ASSUME NEW a \in Attempts, Write(a) PROVE RecordEffect
  <2>1. {a} \in SUBSET InFlight
    BY <1>1 DEF Write, MayWrite, InFlight
  <2>2. QED
    BY <1>1, <2>1 DEF Write, Writes, RecordEffect
<1>2. CASE Stop
  <2>1. PICK cut \in {{}} \cup {{a} : a \in {b \in Attempts : MayWrite(b)}} :
           receipts' = receipts \cup cut
    BY <1>2 DEF Stop
  <2>2. cut \in SUBSET InFlight
    BY <2>1 DEF MayWrite, InFlight
  <2>3. QED
    BY <1>2, <2>1, <2>2 DEF Stop, Writes, RecordEffect
<1>3. CASE Restart \/ PrepareSortTask \/ BeginSort \/ CloseSort \/ FinishHostDrain
  BY <1>3 DEF RecordEffect
<1>4. ASSUME NEW a \in Attempts,
             \/ Resume(a) \/ PlanFailure(a) \/ Collect(a) \/ Expire(a) \/ WorkerStep(a)
      PROVE  RecordEffect
  BY <1>4 DEF Resume, PlanFailure, Collect, DropCancelled, CollectFailure,
              CommitAttempt, CommitCandidate, Expire, WorkerStep, RunnerBegin,
              AgentReplies, AgentFails, RecordFailure, RecordEffect
<1>5. CASE \/ Tick \/ QueueLimits \/ BeginWave \/ WaveEnds \/ AbortEnds \/ CheckTurn
           \/ OpenRun \/ HostAttempt \/ HostTailEnds \/ UNCHANGED vars
           \/ \E l \in Lineages : AdmitLineage(l) \/ StartAttempt(l)
  BY <1>5 DEF Tick, QueueLimits, BeginWave, WaveEnds, AbortEnds, CheckTurn, OpenRun,
              HostAttempt, HostTailEnds, vars, AdmitLineage, StartAttempt, RecordEffect
<1>6. QED
  BY <1>1, <1>2, <1>3, <1>4, <1>5 DEF Next, MainStep, HostStep

(***************************************************************************)
(* TypeOK.                                                                 *)
(***************************************************************************)
LEMMA EndTypes ==
    ASSUME TypeOK, NEW a \in Attempts, NEW outcome \in Endings,
           NEW record \in CallRecords, EndAttempt(a, outcome, record)
    PROVE  /\ lineages' \in [Lineages -> LineageRecords]
           /\ attempts' \in [Attempts -> AttemptRecords]
<1>1. a[1] \in Lineages
  BY AttemptIds
<1>2. \A stop \in BOOLEAN : AfterAttempt(lineages[a[1]], stop) \in LineageRecords
  BY <1>1 DEF TypeOK, AfterAttempt, LineageRecords, LineageStates,
              TerminalLineageStates
<1> DEFINE stop == lineages[a[1]].forced \/ outcome = "stopped"
           status == IF Ended(attempts[a]) THEN attempts[a].status
                     ELSE IF stop THEN "stopped" ELSE "ended"
<1>3. /\ attempts' = [attempts EXCEPT ![a] =
              [status |-> status, outcome |-> outcome, call |-> record]]
      /\ \/ lineages' = lineages
         \/ lineages' = [lineages EXCEPT ![a[1]] = AfterAttempt(lineages[a[1]], stop)]
  BY DEF EndAttempt
<1>4. [status |-> status, outcome |-> outcome, call |-> record] \in AttemptRecords
  BY DEF TypeOK, AttemptRecords, Endings
<1>5. stop \in BOOLEAN
  BY <1>1 DEF TypeOK, LineageRecords
<1>6. QED
  BY <1>2, <1>3, <1>4, <1>5, ZenonT(40) DEF TypeOK

LEMMA StopTypes ==
    ASSUME TypeOK, NEW a \in Attempts
    PROVE  /\ StopAll(a) \in [Lineages -> LineageRecords]
           /\ StopAttempts(a) \in [Attempts -> AttemptRecords]
<1>1. \A l \in Lineages : StopAll(a)[l] \in LineageRecords
  BY DEF StopAll, TypeOK, LineageRecords, LineageStates, TerminalLineageStates
<1>2. ASSUME NEW b \in Attempts PROVE StopAttempts(a)[b] \in AttemptRecords
  <2>1. /\ attempts[b] \in AttemptRecords
        /\ CommitResult(Call(b)) \in CallRecords /\ Cancel(Call(b)) \in CallRecords
    BY ReducerTypes DEF TypeOK, AttemptRecords, Call
  <2>2. QED
    BY <2>1 DEF StopAttempts, AttemptRecords
<1>3. QED
  BY <1>1, <1>2 DEF StopAll, StopAttempts

LEMMA LineageTypes ==
    ASSUME TypeOK, LineageEffect
    PROVE  /\ lineages' \in [Lineages -> LineageRecords]
           /\ attempts' \in [Attempts -> AttemptRecords]
           /\ claimed' \in Attempts \cup {NoCandidate}
<1> DEFINE Goal == /\ lineages' \in [Lineages -> LineageRecords]
                   /\ attempts' \in [Attempts -> AttemptRecords]
                   /\ claimed' \in Attempts \cup {NoCandidate}
<1>1. ASSUME NEW l \in Lineages, Admits(l) PROVE Goal
  <2>1. [lineages[l] EXCEPT !.status = "ready"] \in LineageRecords
    BY DEF TypeOK, LineageRecords, LineageStates
  <2>2. QED
    BY <1>1, <2>1 DEF Admits, TypeOK
<1>2. ASSUME NEW l \in Lineages, Starts(l) PROVE Goal
  <2> DEFINE n == lineages[l].started + 1
  <2>1. n \in 1 .. AttemptLimit /\ n \in 0 .. AttemptLimit
    BY <1>2, ConstantsAssumption DEF Starts, TypeOK, LineageRecords
  <2>2. [lineages[l] EXCEPT !.status = "running", !.started = n] \in LineageRecords
    <3> HIDE DEF n
    <3>1. lineages[l] \in LineageRecords /\ "running" \in LineageStates
      BY DEF TypeOK, LineageStates
    <3>2. QED
      BY <2>1, <3>1 DEF LineageRecords
  <2>3. Planned(<<l, n>>) \in AttemptRecords
    BY <2>1, FreshTypes, AttemptIds
  <2>4. lineages' \in [Lineages -> LineageRecords]
    BY <1>2, <2>2 DEF Starts, TypeOK
  <2>5. attempts' \in [Attempts -> AttemptRecords]
    BY <1>2, <2>3 DEF Starts, TypeOK
  <2>6. QED
    BY <1>2, <2>4, <2>5 DEF Starts, TypeOK
<1>3. ASSUME NEW a \in Attempts, Ends(a) PROVE Goal
  BY <1>3, EndTypes DEF Ends, TypeOK
<1>4. ASSUME NEW a \in Attempts, Claims(a) PROVE Goal
  BY <1>4, StopTypes DEF Claims
<1>5. CASE CallsMove
  <2>1. PICK calls \in [Attempts -> CallRecords] :
           attempts' = [b \in Attempts |-> [attempts[b] EXCEPT !.call = calls[b]]]
    BY <1>5 DEF CallsMove
  <2>2. \A b \in Attempts : [attempts[b] EXCEPT !.call = calls[b]] \in AttemptRecords
    BY DEF TypeOK, AttemptRecords
  <2>3. QED
    BY <1>5, <2>1, <2>2 DEF CallsMove, TypeOK
<1>6. CASE Resets \/ Untouched
  BY <1>6, FreshTypes DEF Resets, Untouched, TypeOK
<1>7. QED
  BY <1>1, <1>2, <1>3, <1>4, <1>5, <1>6 DEF LineageEffect

SortTasks == [cycle : Nat \ {0}, records : SUBSET Attempts,
              state : {"launching", "running", "closed"}]

LEMMA RecordTypes ==
    ASSUME TypeOK, RecordEffect
    PROVE  /\ receipts' \in SUBSET Attempts /\ visible' \in SUBSET Attempts
           /\ sortTasks' \subseteq SortTasks
<1>0. /\ InFlight \subseteq Attempts
      /\ sortTasks \subseteq SortTasks
      /\ \A t \in SortTasks : \A s \in {"launching", "running", "closed"} :
            [t EXCEPT !.state = s] \in SortTasks
  BY DEF InFlight, TypeOK, SortTasks
<1>1. ASSUME NEW new \in SUBSET InFlight, Writes(new)
      PROVE  /\ receipts' \in SUBSET Attempts /\ visible' \in SUBSET Attempts
             /\ sortTasks' \subseteq SortTasks
  BY <1>0, <1>1 DEF Writes, TypeOK
<1>2. CASE Restart
  BY <1>0, <1>2 DEF Restart, Recover, TypeOK
<1>3. CASE PrepareSortTask
  <2>1. [cycle |-> ctl.cycle, records |-> visible, state |-> "launching"] \in SortTasks
    BY DEF TypeOK, Controls, SortTasks
  <2>2. QED
    BY <1>0, <1>3, <2>1 DEF PrepareSortTask, TypeOK
<1>4. CASE BeginSort
  BY <1>0, <1>4, ZenonT(40) DEF BeginSort, TypeOK
<1>5. CASE CloseSort
  <2>1. sortTasks' \subseteq SortTasks
    BY <1>0, <1>5 DEF CloseSort
  <2>2. QED
    BY <1>5, <2>1 DEF CloseSort, TypeOK
<1>6. CASE FinishHostDrain \/ UNCHANGED <<receipts, visible, sortTasks>>
  BY <1>0, <1>6 DEF FinishHostDrain, TypeOK
<1>7. QED
  BY <1>1, <1>2, <1>3, <1>4, <1>5, <1>6 DEF RecordEffect

LEMMA CounterTypes ==
    ASSUME TypeOK, [Next]_vars
    PROVE  /\ host' \in [used : Nat, running : BOOLEAN]
           /\ edits' \in Nat /\ restarts' \in Nat
<1>0. host \in [used : Nat, running : BOOLEAN] /\ edits \in Nat /\ restarts \in Nat
  BY DEF TypeOK
<1>1. CASE HostAttempt \/ HostTailEnds \/ FinishHostDrain
  <2>1. /\ \/ host' = [used |-> host.used + 1, running |-> TRUE]
           \/ host' = [host EXCEPT !.running = FALSE]
           \/ host' = [used |-> 0, running |-> FALSE]
        /\ edits' = edits /\ restarts' = restarts
    BY <1>1 DEF HostAttempt, HostTailEnds, FinishHostDrain
  <2>2. host.used + 1 \in Nat
    BY <1>0
  <2>3. /\ [host EXCEPT !.running = FALSE] \in [used : Nat, running : BOOLEAN]
        /\ [used |-> host.used + 1, running |-> TRUE] \in [used : Nat, running : BOOLEAN]
        /\ [used |-> 0, running |-> FALSE] \in [used : Nat, running : BOOLEAN]
    BY <1>0, <2>2
  <2>4. QED
    BY <1>0, <2>1, <2>3
<1>2. CASE QueueLimits \/ Stop
  BY <1>2 DEF QueueLimits, Stop, TypeOK
<1>3. ASSUME NEW a \in Attempts,
             \/ Resume(a) \/ PlanFailure(a) \/ Collect(a) \/ Expire(a)
             \/ Write(a) \/ WorkerStep(a)
      PROVE  UNCHANGED <<host, edits, restarts>>
  BY <1>3 DEF Resume, PlanFailure, Collect, DropCancelled, CollectFailure,
              CommitAttempt, CommitCandidate, Expire, Write, WorkerStep,
              RunnerBegin, AgentReplies, AgentFails, RecordFailure
<1>4. CASE \/ Tick \/ BeginWave \/ WaveEnds \/ AbortEnds \/ CheckTurn
           \/ PrepareSortTask \/ BeginSort \/ CloseSort \/ OpenRun \/ Restart
           \/ UNCHANGED vars
           \/ \E l \in Lineages : AdmitLineage(l) \/ StartAttempt(l)
  BY <1>4 DEF Tick, BeginWave, WaveEnds, AbortEnds, CheckTurn, PrepareSortTask,
              BeginSort, CloseSort, OpenRun, Restart, vars, AdmitLineage,
              StartAttempt, TypeOK
<1>5. QED
  BY <1>1, <1>2, <1>3, <1>4 DEF Next, MainStep, HostStep, TypeOK

LEMMA InitTypes == Init => TypeOK
<1> SUFFICES ASSUME Init PROVE TypeOK
  OBVIOUS
<1>1. ctl \in Controls
  BY DEF Init, Controls, Phases, ExplorerPhases, NoSort
<1>2. FirstLimits \in Limits
  BY ConstantsAssumption DEF FirstLimits, Limits
<1>3. /\ lineages \in [Lineages -> LineageRecords]
      /\ attempts \in [Attempts -> AttemptRecords]
      /\ runners \in [Attempts -> RunnerRecords]
  BY FreshTypes DEF Init
<1>4. QED
  BY <1>1, <1>2, <1>3 DEF Init, TypeOK, Places

LEMMA NextTypes == TypeOK /\ [Next]_vars => TypeOK'
<1> SUFFICES ASSUME TypeOK, [Next]_vars PROVE TypeOK'
  OBVIOUS
<1>1. ctl' \in Controls /\ budget' \in Budgets
  BY ControlEffects
<1>2. /\ lineages' \in [Lineages -> LineageRecords]
      /\ attempts' \in [Attempts -> AttemptRecords]
      /\ claimed' \in Attempts \cup {NoCandidate}
  BY LineageEffects, LineageTypes
<1>3. runners' \in [Attempts -> RunnerRecords] /\ loop' \in Places
  BY PoolEffects, LoopEffects DEF LoopEffect
<1>4. /\ receipts' \in SUBSET Attempts /\ visible' \in SUBSET Attempts
      /\ sortTasks' \subseteq SortTasks
  BY RecordEffects, RecordTypes
<1>5. QED
  BY <1>1, <1>2, <1>3, <1>4, CounterTypes DEF TypeOK, Budgets, SortTasks

(* Every table of the alternation and every thread keeps its type.         *)
THEOREM TurnTypes == Spec => []TypeOK
  BY InitTypes, NextTypes, PTL DEF Spec

(***************************************************************************)
(* One worker per lineage.                                                 *)
(***************************************************************************)
LEMMA NextOneWorker ==
    ASSUME TypeOK, [Next]_vars, OneWorkerPerLineage
    PROVE  OneWorkerPerLineage'
<1>1. CASE InFlight' \subseteq InFlight
  BY <1>1 DEF OneWorkerPerLineage
<1>2. ASSUME NEW a \in Attempts, Joins(a) PROVE OneWorkerPerLineage'
  BY <1>2 DEF OneWorkerPerLineage, Joins
<1>3. QED
  BY <1>1, <1>2, PoolEffects DEF PoolEffect

(* OneWorkerPerLineage: the attempts of a lineage, which resume one agent  *)
(* session, never have two workers at once, however many expire.           *)
THEOREM OneWorker == Spec => []OneWorkerPerLineage
<1>1. Init => OneWorkerPerLineage
  BY DEF Init, OneWorkerPerLineage, InFlight, Idle
<1>2. TypeOK /\ OneWorkerPerLineage /\ [Next]_vars => OneWorkerPerLineage'
  BY NextOneWorker
<1>3. QED
  BY <1>1, <1>2, TurnTypes, PTL DEF Spec

(***************************************************************************)
(* The allowance of attempts.                                              *)
(***************************************************************************)
(* A lineage is told to stop by a candidate only.                          *)
Forced == \A l \in Lineages : lineages[l].forced => claimed # NoCandidate

LEMMA NextAllowance ==
    ASSUME TypeOK, [Next]_vars, Forced, FullAllowance
    PROVE  Forced' /\ FullAllowance'
<1>1. ASSUME NEW l \in Lineages, Admits(l) PROVE Forced' /\ FullAllowance'
  BY <1>1 DEF Admits, Forced, FullAllowance, TypeOK, LineageRecords
<1>2. ASSUME NEW l \in Lineages, Starts(l) PROVE Forced' /\ FullAllowance'
  BY <1>2 DEF Starts, Forced, FullAllowance, TypeOK, LineageRecords
<1>3. ASSUME NEW a \in Attempts, Ends(a) PROVE Forced' /\ FullAllowance'
  <2>1. PICK outcome \in Endings, record \in CallRecords : EndAttempt(a, outcome, record)
    BY <1>3 DEF Ends
  <2> DEFINE x == lineages[a[1]]
  <2>2. /\ a[1] \in Lineages /\ x \in LineageRecords
        /\ outcome # "stopped" /\ claimed' = claimed
    BY <1>3, AttemptIds DEF Ends, Endings, TypeOK
  <2>3. \/ lineages' = lineages
        \/ lineages' = [lineages EXCEPT ![a[1]] = AfterAttempt(x, x.forced)]
    BY <2>1, <2>2 DEF EndAttempt, LineageRecords
  <2>4. /\ AfterAttempt(x, x.forced).forced = x.forced
        /\ AfterAttempt(x, x.forced).started = x.started
        /\ AfterAttempt(x, x.forced).status = "closed" => x.started = AttemptLimit
        /\ AfterAttempt(x, x.forced).status = "stopped" => x.forced
    BY <2>2, ConstantsAssumption DEF AfterAttempt, LineageRecords
  <2>5. QED
    BY <2>2, <2>3, <2>4 DEF Forced, FullAllowance, TypeOK
<1>4. ASSUME NEW a \in Attempts, Claims(a) PROVE Forced' /\ FullAllowance'
  <2>1. claimed' # NoCandidate /\ lineages' = StopAll(a)
    BY <1>4, AttemptIds DEF Claims
  <2>2. \A l \in Lineages :
           /\ StopAll(a)[l].started = lineages[l].started
           /\ StopAll(a)[l].status = "closed" => lineages[l].status = "closed"
    BY DEF StopAll, TypeOK, LineageRecords
  <2>3. QED
    BY <2>1, <2>2 DEF Forced, FullAllowance
<1>5. CASE CallsMove \/ Untouched
  BY <1>5 DEF CallsMove, Untouched, Forced, FullAllowance
<1>6. CASE Resets
  BY <1>6 DEF Resets, NotAdmitted, Forced, FullAllowance
<1>7. QED
  BY <1>1, <1>2, <1>3, <1>4, <1>5, <1>6, LineageEffects DEF LineageEffect

(* FullAllowance: no expiry, failure, drain or stop takes an attempt from  *)
(* an admitted lineage; only a root candidate does.                        *)
THEOREM AllowanceKept == Spec => []FullAllowance
<1>1. Init => Forced /\ FullAllowance
  BY DEF Init, NotAdmitted, Forced, FullAllowance
<1>2. TypeOK /\ Forced /\ FullAllowance /\ [Next]_vars => Forced' /\ FullAllowance'
  BY NextAllowance
<1>3. QED
  BY <1>1, <1>2, TurnTypes, PTL DEF Spec

(***************************************************************************)
(* The root candidate.                                                     *)
(***************************************************************************)
(* An attempt that is not over has a call that a candidate can cancel, and *)
(* the current attempt of a lineage keeps the lineage open.                *)
AttemptsOpen ==
    \A a \in Attempts :
        /\ attempts[a].status \in {"running", "stop_requested"} =>
               Call(a).status \in Cancellable
        /\ Current(a) => lineages[a[1]].status \in {"running", "stop_requested"}

LEMMA NextAttemptsOpen ==
    ASSUME TypeOK, [Next]_vars, AttemptsOpen
    PROVE  AttemptsOpen'
<1> USE DEF Call
<1>1. ASSUME NEW l \in Lineages, Admits(l) PROVE AttemptsOpen'
  BY <1>1 DEF Admits, AttemptsOpen, Current, TypeOK, LineageRecords
<1>2. ASSUME NEW l \in Lineages, Starts(l) PROVE AttemptsOpen'
  <2> DEFINE n == lineages[l].started + 1
             new == <<l, n>>
  <2>1. n \in 1 .. AttemptLimit /\ n # lineages[l].started
    BY <1>2, ConstantsAssumption DEF Starts, TypeOK, LineageRecords
  <2>2. new \in Attempts /\ new[1] = l /\ new[2] = n
    BY <2>1, AttemptIds
  <2>3. /\ Planned(new).status = "running"
        /\ Planned(new).call.status \in Cancellable
    BY DEF Planned, PrepareCall, Cancellable
  <2>4. /\ attempts' = [attempts EXCEPT ![new] = Planned(new)]
        /\ lineages' = [lineages EXCEPT ![l].status = "running", ![l].started = n]
    BY <1>2 DEF Starts
  <2>5. /\ lineages'[l].status = "running" /\ lineages'[l].started = n
        /\ \A m \in Lineages : m # l => lineages'[m] = lineages[m]
        /\ attempts'[new] = Planned(new)
        /\ \A b \in Attempts : b # new => attempts'[b] = attempts[b]
    BY <2>2, <2>4 DEF TypeOK, LineageRecords
  <2> HIDE DEF n, new
  <2>6. ASSUME NEW b \in Attempts
        PROVE  /\ attempts'[b].status \in {"running", "stop_requested"} =>
                      attempts'[b].call.status \in Cancellable
               /\ Current(b)' => lineages'[b[1]].status \in {"running", "stop_requested"}
    <3>1. CASE b = new
      BY <2>2, <2>3, <2>5, <3>1
    <3>2. CASE b # new
      BY <2>2, <2>5, <3>2, AttemptIds DEF AttemptsOpen, Current
    <3>3. QED
      BY <3>1, <3>2
  <2>7. QED
    BY <2>6 DEF AttemptsOpen
<1>3. ASSUME NEW a \in Attempts, Ends(a) PROVE AttemptsOpen'
  <2>1. PICK outcome \in Endings, record \in CallRecords : EndAttempt(a, outcome, record)
    BY <1>3 DEF Ends
  <2>2. /\ \A b \in Attempts : b # a => attempts'[b] = attempts[b]
        /\ attempts'[a].status \in {"ended", "stopped"}
        /\ lineages'[a[1]].started = lineages[a[1]].started
        /\ \A l \in Lineages : l # a[1] => lineages'[l] = lineages[l]
        /\ Ended(attempts[a]) => lineages' = lineages
    BY <2>1, AttemptIds DEF EndAttempt, Ended, AfterAttempt, TypeOK, LineageRecords
  <2>3. ASSUME NEW b \in Attempts, Current(b)'
        PROVE  lineages'[b[1]].status \in {"running", "stop_requested"}
    <3>1. b # a /\ attempts'[b] = attempts[b]
      BY <2>2, <2>3 DEF Current
    <3>2. Current(b)
      BY <2>2, <2>3, <3>1, AttemptIds DEF Current
    <3>3. CASE b[1] = a[1]
      <4>1. ~Current(a)
        BY <3>1, <3>2, <3>3, AttemptIds DEF Current
      <4>2. lineages' = lineages
        BY <1>3, <2>2, <4>1 DEF Ends
      <4>3. QED
        BY <3>2, <4>2 DEF AttemptsOpen
    <3>4. CASE b[1] # a[1]
      BY <2>2, <3>2, <3>4, AttemptIds DEF AttemptsOpen
    <3>5. QED
      BY <3>3, <3>4
  <2>4. QED
    BY <2>2, <2>3 DEF AttemptsOpen
<1>4. ASSUME NEW a \in Attempts, Claims(a) PROVE AttemptsOpen'
  <2>1. lineages' = StopAll(a) /\ attempts' = StopAttempts(a)
    BY <1>4 DEF Claims
  <2>2. \A b \in Attempts :
           attempts'[b].status \in {"running", "stop_requested"} =>
              /\ b # a /\ b \notin Cancelled(a)
              /\ attempts'[b].call = attempts[b].call
              /\ attempts[b].status \in {"running", "stop_requested"}
    BY <2>1 DEF StopAttempts, Current, TypeOK, AttemptRecords
  <2>3. \A l \in Lineages : lineages'[l].started = lineages[l].started
    BY <2>1 DEF StopAll, TypeOK, LineageRecords
  <2>4. \A b \in Attempts : ~Current(b)'
    BY <2>2, <2>3, AttemptIds DEF Current, Cancelled, AttemptsOpen
  <2>5. QED
    BY <2>2, <2>4 DEF AttemptsOpen
<1>5. CASE CallsMove
  BY <1>5 DEF CallsMove, AttemptsOpen, Current, TypeOK, AttemptRecords
<1>6. CASE Untouched
  BY <1>6 DEF Untouched, AttemptsOpen, Current
<1>7. CASE Resets
  BY <1>7 DEF Resets, Unplanned, AttemptsOpen, Current
<1>8. QED
  BY <1>1, <1>2, <1>3, <1>4, <1>5, <1>6, <1>7, LineageEffects DEF LineageEffect

LEMMA NextCandidate ==
    ASSUME TypeOK, [Next]_vars, AttemptsOpen, CandidateStops
    PROVE  CandidateStops'
<1>1. SUFFICES ASSUME claimed' # NoCandidate PROVE CandidateStops'
  BY DEF CandidateStops
<1>2. ASSUME NEW a \in Attempts, Claims(a) PROVE CandidateStops'
  <2>1. ctl'.candidate = a /\ ctl'.phase = "explorer_drain" /\ claimed' = a
    BY <1>2 DEF Claims, AcceptRootCandidate, TypeOK, Controls
  <2>2. \A b \in Attempts : Current(b) => b \in Cancelled(a) \cup {a}
    BY DEF AttemptsOpen, Cancelled, Current
  <2>3. \A l \in Lineages :
           StopAll(a)[l].status \in TerminalLineageStates \cup {"none"}
    BY <2>2 DEF StopAll, Reserved, TypeOK, LineageRecords, TerminalLineageStates
  <2>4. Drained'
    BY <1>2, <2>3 DEF Claims, Drained
  <2>5. QED
    BY <2>1, <2>4 DEF CandidateStops
<1>3. ASSUME claimed' = claimed PROVE CandidateStops'
  <2>1. ctl.candidate = claimed /\ ctl.phase # "explorer_admission" /\ Drained
    BY <1>1, <1>3 DEF CandidateStops
  <2>2. /\ ctl'.candidate = claimed
        /\ ctl'.phase # "explorer_admission"
    <3>1. CASE Ticks
      BY <1>1, <1>3, <2>1, <3>1 DEF Ticks
    <3>2. CASE BeginSort \/ OpenRun
      <4>1. ctl \in Controls
        BY DEF TypeOK
      <4>2. QED
        BY <2>1, <3>2, <4>1 DEF BeginSort, OpenRun, Controls
    <3>3. CASE FinishHostDrain
      BY <1>1, <3>3 DEF FinishHostDrain
    <3>4. QED
      BY <1>1, <1>3, <3>1, <3>2, <3>3, ControlEffects DEF ControlEffect
  <2>3. \A l \in Lineages : ~Admits(l) /\ ~Starts(l)
    BY <2>1 DEF Drained, Admits, Starts, TerminalLineageStates
  <2>4. ASSUME NEW a \in Attempts, Ends(a) PROVE lineages' = lineages
    <3>1. ~Current(a)
      BY <2>1, AttemptIds DEF AttemptsOpen, Drained, TerminalLineageStates
    <3>2. QED
      BY <2>4, <3>1 DEF Ends, EndAttempt
  <2>5. \A a \in Attempts : ~Claims(a)
    BY <1>1, <1>3 DEF Claims
  <2>6. lineages' = lineages
    BY <1>1, <2>3, <2>4, <2>5, LineageEffects
       DEF LineageEffect, CallsMove, Resets, Untouched
  <2>7. QED
    BY <1>3, <2>1, <2>2, <2>6 DEF CandidateStops, Drained
<1>4. QED
  BY <1>1, <1>2, <1>3, LineageEffects
     DEF LineageEffect, Admits, Starts, Ends, CallsMove, Resets, Untouched

(* CandidateStops: a claimed root candidate is that of the phase, and      *)
(* leaves no lineage that could run on, whatever was running.              *)
THEOREM CandidatesStop == Spec => []CandidateStops
<1>1. Init => AttemptsOpen /\ CandidateStops
  BY DEF Init, Unplanned, AttemptsOpen, Current, CandidateStops
<1>2. TypeOK /\ AttemptsOpen /\ CandidateStops /\ [Next]_vars
         => AttemptsOpen' /\ CandidateStops'
  BY NextAttemptsOpen, NextCandidate
<1>3. QED
  BY <1>1, <1>2, TurnTypes, PTL DEF Spec
(***************************************************************************)
(* The end of a turn.                                                      *)
(***************************************************************************)
(* The main thread is in the half of a turn its place belongs to, and no   *)
(* worker outlives the wave that awaits it.                                *)
LoopOK ==
    /\ loop \in ExplorerPlaces => ctl.phase \in ExplorerPhases
    /\ loop \notin {"wave", "aborting"} => InFlight = {}

LEMMA NextLoopOK ==
    ASSUME TypeOK, [Next]_vars, LoopOK
    PROVE  LoopOK'
<1>1. loop' \in ExplorerPlaces => ctl'.phase \in ExplorerPhases
  BY LoopEffects DEF LoopOK, LoopEffect, Ticks
<1>2. ASSUME loop' \notin {"wave", "aborting"} PROVE InFlight' = {}
  <2>1. CASE loop \in {"wave", "aborting"}
    BY <1>2, <2>1, LoopEffects DEF LoopEffect
  <2>2. CASE loop \notin {"wave", "aborting"}
    BY <2>2, PoolEffects DEF LoopOK, PoolEffect, Joins
  <2>3. QED
    BY <2>1, <2>2
<1>3. QED
  BY <1>1, <1>2 DEF LoopOK

(* Outside the Explorer half there is nobody left who could join, end or   *)
(* claim.                                                                  *)
LEMMA NextDrained ==
    ASSUME TypeOK, [Next]_vars, LoopOK, DrainedBeforeSort
    PROVE  DrainedBeforeSort'
<1>1. SUFFICES ASSUME ctl'.phase \notin ExplorerPhases
               PROVE  Drained' /\ InFlight' = {}
  BY DEF DrainedBeforeSort
<1>2. CASE BeginSort
  <2>1. Drained /\ InFlight = {}
    BY <1>2 DEF BeginSort, LoopOK
  <2>2. QED
    BY <1>2, <2>1 DEF BeginSort, Drained, InFlight
<1>3. CASE ~BeginSort
  <2>1. ctl.phase \notin ExplorerPhases
    <3>1. ~FinishHostDrain
      BY <1>1 DEF FinishHostDrain, ExplorerPhases
    <3>2. \A a \in Attempts :
             AcceptRootCandidate(a) => ctl'.phase \in ExplorerPhases
      BY DEF AcceptRootCandidate, ExplorerPhases, TypeOK, Controls
    <3>3. QED
      BY <1>1, <1>3, <3>1, <3>2, ControlEffects
         DEF ControlEffect, Ticks, OpenRun, ExplorerPhases
  <2>2. Drained /\ InFlight = {} /\ loop # "wave"
    BY <2>1 DEF DrainedBeforeSort, LoopOK, ExplorerPlaces
  <2>3. InFlight' = {}
    BY <2>2, PoolEffects DEF PoolEffect, Joins
  <2>4. lineages' = lineages
    BY <1>1, <2>1, <2>2, LineageEffects
       DEF LineageEffect, Admits, Starts, Ends, Claims, CallsMove, Resets,
           Untouched, ExplorerPhases
  <2>5. QED
    BY <2>2, <2>3, <2>4 DEF Drained
<1>4. QED
  BY <1>2, <1>3

LEMMA InitDrained == Init => LoopOK /\ DrainedBeforeSort
  BY DEF Init, LoopOK, DrainedBeforeSort, InFlight, Idle, ExplorerPlaces,
         ExplorerPhases

(* DrainedBeforeSort: Franta's half of a cycle begins after the last       *)
(* lineage has ended and the last worker has returned, also a worker whose *)
(* attempt expired, and whatever was stopped and recovered in between.     *)
THEOREM SortAfterDrain == Spec => []DrainedBeforeSort
<1>1. TypeOK /\ LoopOK /\ DrainedBeforeSort /\ [Next]_vars
         => LoopOK' /\ DrainedBeforeSort'
  BY NextLoopOK, NextDrained
<1>2. QED
  BY <1>1, InitDrained, TurnTypes, PTL DEF Spec

(***************************************************************************)
(* The records of a turn.                                                  *)
(***************************************************************************)
(* While the process is up the repository shows what the log holds; and    *)
(* the sort task is there before the phase of the sort begins.             *)
RecordsOK ==
    /\ loop # "down" => visible = receipts
    /\ loop = "prepared" => \E t \in sortTasks : IsOwner(t)

LEMMA NextRecordsOK ==
    ASSUME TypeOK, [Next]_vars, LoopOK, RecordsOK
    PROVE  RecordsOK'
<1>1. ASSUME loop' # "down" PROVE visible' = receipts'
  <2>1. CASE Restart
    BY <2>1 DEF Restart, Recover
  <2>2. CASE ~Restart
    <3>1. loop # "down"
      BY <1>1, <2>2, LoopEffects DEF LoopEffect
    <3>2. visible = receipts
      BY <3>1 DEF RecordsOK
    <3>3. QED
      BY <1>1, <2>2, <3>2, RecordEffects
         DEF RecordEffect, Writes, PrepareSortTask, BeginSort, CloseSort,
             FinishHostDrain
  <2>3. QED
    BY <2>1, <2>2
<1>2. ASSUME loop' = "prepared" PROVE (\E t \in sortTasks : IsOwner(t))'
  <2>1. CASE PrepareSortTask
    <3> DEFINE new == [cycle |-> ctl.cycle, records |-> visible, state |-> "launching"]
    <3>1. /\ sortTasks' = IF \E t \in sortTasks : IsOwner(t) THEN sortTasks
                          ELSE sortTasks \cup {new}
          /\ ctl' = ctl /\ visible' = visible
      BY <2>1 DEF PrepareSortTask
    <3>2. IsOwner(new)
      BY DEF IsOwner
    <3>3. \E t \in sortTasks' : IsOwner(t)
      BY <3>1, <3>2
    <3>4. QED
      BY <3>1, <3>3 DEF IsOwner
  <2>2. CASE ~PrepareSortTask
    <3>1. loop = "prepared"
      BY <1>2, <2>2, LoopEffects DEF LoopEffect
    <3>2. ctl'.cycle = ctl.cycle
      BY <1>2, <3>1, ControlEffects
         DEF ControlEffect, Ticks, BeginSort, OpenRun, FinishHostDrain
    <3>3. InFlight = {}
      BY <3>1 DEF LoopOK
    <3>4. UNCHANGED <<visible, sortTasks>>
      BY <1>2, <2>2, <3>1, <3>3, RecordEffects
         DEF RecordEffect, Writes, Restart, BeginSort, CloseSort, FinishHostDrain
    <3>5. QED
      BY <3>1, <3>2, <3>4 DEF RecordsOK, IsOwner
  <2>3. QED
    BY <2>1, <2>2
<1>3. QED
  BY <1>1, <1>2 DEF RecordsOK

(* A task keeps its turn and its records whatever state it is moved to.    *)
LEMMA TasksKept ==
    ASSUME TypeOK, NEW t \in sortTasks, BeginSort \/ CloseSort
    PROVE  \E u \in sortTasks' : u.cycle = t.cycle /\ u.records = t.records
<1>1. /\ t \in SortTasks
      /\ \A s \in {"running", "closed"} :
            /\ [t EXCEPT !.state = s].cycle = t.cycle
            /\ [t EXCEPT !.state = s].records = t.records
  BY DEF TypeOK, SortTasks
<1>2. CASE BeginSort
  <2> DEFINE u == IF IsOwner(t) THEN [t EXCEPT !.state = "running"] ELSE t
  <2>1. u \in sortTasks'
    BY <1>2 DEF BeginSort
  <2>2. u.cycle = t.cycle /\ u.records = t.records
    BY <1>1
  <2>3. QED
    BY <2>1, <2>2
<1>3. CASE CloseSort
  <2> DEFINE u == IF IsOwner(t) THEN [t EXCEPT !.state = "closed"] ELSE t
  <2>1. u \in sortTasks'
    BY <1>3 DEF CloseSort
  <2>2. u.cycle = t.cycle /\ u.records = t.records
    BY <1>1
  <2>3. QED
    BY <2>1, <2>2
<1>4. QED
  BY <1>2, <1>3

LEMMA NextSort ==
    ASSUME TypeOK, [Next]_vars, LoopOK, RecordsOK, DrainedBeforeSort,
           SortSeesEverything
    PROVE  SortSeesEverything'
<1>1. SUFFICES ASSUME ctl'.phase \notin ExplorerPhases
               PROVE  /\ ctl'.sort.records = receipts'
                      /\ \E t \in sortTasks' :
                            t.cycle = ctl'.cycle /\ t.records = receipts'
  BY DEF SortSeesEverything
<1>2. CASE BeginSort
  <2>1. PICK t \in sortTasks : IsOwner(t)
    BY <1>2 DEF BeginSort, RecordsOK
  <2>2. /\ visible = receipts /\ receipts' = receipts
        /\ ctl'.sort.records = visible /\ ctl'.cycle = ctl.cycle
    BY <1>2 DEF BeginSort, RecordsOK, TypeOK, Controls
  <2>3. QED
    BY <1>2, <2>1, <2>2, TasksKept DEF IsOwner
<1>3. CASE ~BeginSort
  <2>1. ~FinishHostDrain
    BY <1>1 DEF FinishHostDrain, ExplorerPhases
  <2>2. /\ ctl.phase \notin ExplorerPhases
        /\ ctl'.cycle = ctl.cycle /\ ctl'.sort.records = ctl.sort.records
    <3>1. \A a \in Attempts :
             AcceptRootCandidate(a) => ctl'.phase \in ExplorerPhases
      BY DEF AcceptRootCandidate, ExplorerPhases, TypeOK, Controls
    <3>2. CASE Ticks
      BY <1>1, <3>2 DEF Ticks
    <3>3. CASE OpenRun
      BY <3>3 DEF OpenRun, TypeOK, Controls, ExplorerPhases
    <3>4. QED
      BY <1>1, <1>3, <2>1, <3>1, <3>2, <3>3, ControlEffects DEF ControlEffect
  <2>3. PICK t \in sortTasks : t.cycle = ctl.cycle /\ t.records = receipts
    BY <2>2 DEF SortSeesEverything
  <2>4. InFlight = {} /\ ctl.sort.records = receipts
    BY <2>2 DEF SortSeesEverything, DrainedBeforeSort
  <2>5. receipts' = receipts
    BY <2>1, <2>4, RecordEffects
       DEF RecordEffect, Writes, Restart, PrepareSortTask, BeginSort, CloseSort
  <2>6. \E u \in sortTasks' : u.cycle = t.cycle /\ u.records = t.records
    <3>1. CASE CloseSort
      BY <3>1, TasksKept
    <3>2. CASE ~CloseSort
      <4>1. sortTasks \subseteq sortTasks'
        BY <1>3, <2>1, <3>2, RecordEffects
           DEF RecordEffect, Writes, Restart, PrepareSortTask
      <4>2. QED
        BY <4>1
    <3>3. QED
      BY <3>1, <3>2
  <2>7. QED
    BY <2>2, <2>3, <2>4, <2>5, <2>6
<1>4. QED
  BY <1>2, <1>3

LEMMA InitSort == Init => RecordsOK /\ SortSeesEverything
  BY DEF Init, RecordsOK, SortSeesEverything, ExplorerPhases

(* SortSeesEverything: the sort of a turn is given every record that the   *)
(* workers of the turn put into the log, also one whose write a stop cut   *)
(* off, and no record joins the turn later.                                *)
THEOREM SortIsComplete == Spec => []SortSeesEverything
<1>1. TypeOK /\ LoopOK /\ DrainedBeforeSort /\ RecordsOK /\ SortSeesEverything
         /\ [Next]_vars
         => LoopOK' /\ DrainedBeforeSort' /\ RecordsOK' /\ SortSeesEverything'
  BY NextLoopOK, NextDrained, NextRecordsOK, NextSort
<1>2. QED
  BY <1>1, InitDrained, InitSort, TurnTypes, PTL DEF Spec

(* The sort works on a drained turn, and on all of it.                     *)
THEOREM WholeTurnSorted == Spec => []SortIsWhole
<1>1. DrainedBeforeSort /\ SortSeesEverything => SortIsWhole
  BY DEF SortIsWhole
<1>2. QED
  BY <1>1, SortAfterDrain, SortIsComplete, PTL

(***************************************************************************)
(***************************************************************************)
(* The main sort of a turn: what MainSort promises for every set of items, *)
(* of files and callbacks, and every number of stops and retries.          *)
(*                                                                         *)
(* The ledger alone is not inductive.  It needs where the main thread is   *)
(* (CallPlace), what the batch it reads holds (BatchSound), and what the   *)
(* task and the barrier know of the operations (TaskFollows,               *)
(* PlanningFollows).                                                       *)
(***************************************************************************)
(***************************************************************************)

(* The states of a call whose reply was accepted.                          *)
Answered == {"completed", "committed"}

(* Where the main thread is fits the state of the call.                    *)
CallPlace ==
    /\ Len(progress) <= MaxFiles
    /\ \A i \in DOMAIN progress : progress[i].sequence <= i
    /\ pc = "agent" => call.status = "running"
    /\ pc \in {"check", "export"} => call.status \in {"running", "completed"}
    /\ pc = "ingest" => call.status \in Answered
    /\ due # {} => pc = "export"
    /\ call.status \in Answered => call.result = call.attempt

(* The batch in hand: authentic, with one final file, and on its way to    *)
(* the ledger.                                                             *)
BatchSound ==
    pc \in {"export", "ingest"} =>
        \A i \in batch :
            /\ OfThisLaunch(i)
            /\ progress[i].final => i = claim.final
            /\ \A x \in progress[i].items :
                   <<i, x>> \in due \/ (declared[x] = i /\ ledger[x] # "none")

(* The task follows the reply: what is ingested belongs to an accepted     *)
(* one, and the closed task leaves no operation open.                      *)
TaskFollows ==
    /\ ingested # {} => call.status \in Answered
    /\ task # "running" => call.status = "committed" /\ claim.final \in ingested
    /\ task = "closed" => pc # "ingest" /\ Downstream

(* Behind the barrier nothing is open, and planning began once.            *)
PlanningFollows ==
    /\ planning \in {0, 1}
    /\ planning > 0 \/ pc \in {"plan", "open", "planned"} =>
           task = "closed" /\ Unresolved = {}
    /\ pc \in {"open", "planned"} => planning = 1
    /\ phase = "franta_run" <=> pc = "planned"

(* The inductive invariant: the ledger, and what the main thread has in    *)
(* hand.                                                                   *)
SortInv ==
    /\ LedgerInv /\ CallPlace /\ BatchSound /\ TaskFollows /\ PlanningFollows

(* A progress file, as SortTypes has it.                                   *)
ProgressFile ==
    [launch : Nat, sequence : Nat, final : BOOLEAN, sound : BOOLEAN,
     items : SUBSET Items, state : {"calling", "staged", "receipted"}]

(* The record of the call, as SortTypes has it.                            *)
SortCall ==
    [kind : {"main-sort"}, owner : {NoFile}, status : CallStates, epoch : Nat,
     fenced : SUBSET Nat, attempt : Nat, retries : Nat, limit : Nat, result : Nat]

(***************************************************************************)
(* What steps do to the call and to the files.                             *)
(***************************************************************************)
(* Each event that reaches the call of the sort keeps its record.          *)
LEMMA SortReducer ==
    ASSUME NEW k \in SortCall
    PROVE  /\ Launch(k) \in SortCall
           /\ ReceiveResult(k, k.attempt) \in SortCall
           /\ CommitResult(k) \in SortCall
           /\ RecordTransportFailure(k) \in SortCall
           /\ AuthorizeRetry(k) \in SortCall
           /\ ReconcileAfterStop(k) \in SortCall
<1>0. /\ k.attempt + 1 \in Nat /\ k.retries + 1 \in Nat /\ k.epoch + 1 \in Nat
      /\ k.fenced \cup {k.epoch} \in SUBSET Nat
  BY DEF SortCall
<1>1. Launch(k) \in SortCall
  BY <1>0 DEF Launch, SortCall, CallStates
<1>2. ReceiveResult(k, k.attempt) \in SortCall
  BY DEF ReceiveResult, SortCall, CallStates
<1>3. CommitResult(k) \in SortCall
  BY DEF CommitResult, SortCall, CallStates
<1>4. RecordTransportFailure(k) \in SortCall
  BY <1>0 DEF RecordTransportFailure, AfterRetry, SortCall, CallStates
<1>5. AuthorizeRetry(k) \in SortCall
  BY DEF AuthorizeRetry, SortCall, CallStates
<1>6. ReconcileAfterStop(k) \in SortCall
  BY <1>0 DEF ReconcileAfterStop, SortCall, CallStates
<1>7. QED
  BY <1>1, <1>2, <1>3, <1>4, <1>5, <1>6

(* The largest number of a set of naturals with a bound.                   *)
LEMMA LargestExists ==
    ASSUME NEW n \in Nat, NEW S \in SUBSET (0 .. n), S # {}
    PROVE  \E x \in S : \A y \in S : y <= x
<1> DEFINE T == {n - x : x \in S}
           Less == {ss \in Nat \X Nat : ss[1] < ss[2]}
<1>0. ASSUME NEW x \in S
      PROVE  x \in Nat /\ x <= n /\ n - x \in Nat /\ n - x \in T
  OBVIOUS
<1>1. IsWellFoundedOn(Less, Nat)
  BY NatLessThanWellFounded DEF OpToRel
<1>2. T \subseteq Nat /\ T # {}
  BY <1>0
<1>3. PICK t \in T : \A y \in T : ~(<<y, t>> \in Less)
  <2> HIDE DEF T, Less
  <2>1. QED
    BY <1>1, <1>2, WFMin
<1>4. PICK x \in S : t = n - x
  OBVIOUS
<1>5. ASSUME NEW y \in S PROVE y <= x
  <2>1. n - y \in T /\ n - y \in Nat /\ n - x \in Nat
    BY <1>0
  <2>2. ~(n - y < n - x)
    BY <1>3, <1>4, <2>1
  <2>3. x \in Nat /\ y \in Nat /\ x <= n /\ y <= n
    BY <1>0
  <2>4. QED
    BY <2>2, <2>3
<1>6. QED
  BY <1>5

(* The number of a new file: at most its place among the files.            *)
LEMMA NextSequenceBounded ==
    ASSUME SortTypes, CallPlace
    PROVE  NextSequence \in Nat /\ NextSequence <= Len(progress) + 1
<1> DEFINE S == {progress[i].sequence : i \in Directory}
<1>1. progress \in Seq(ProgressFile)
  BY DEF SortTypes, ProgressFile
<1>2. Len(progress) \in Nat /\ DOMAIN progress = 1 .. Len(progress)
  BY <1>1
<1>3. S \in SUBSET (0 .. Len(progress))
  <2> SUFFICES ASSUME NEW i \in Directory
               PROVE  progress[i].sequence \in 0 .. Len(progress)
    OBVIOUS
  <2>1. i \in DOMAIN progress /\ progress[i] \in ProgressFile /\ progress[i].sequence <= i
    BY <1>1, <1>2 DEF Directory, CallPlace
  <2>2. QED
    BY <1>2, <2>1 DEF ProgressFile
<1>4. CASE Directory = {}
  BY <1>2, <1>4 DEF NextSequence
<1>5. CASE Directory # {}
  <2> DEFINE top == CHOOSE n \in S : \A i \in Directory : progress[i].sequence <= n
  <2>1. S # {}
    BY <1>5
  <2>2. \E x \in S : \A y \in S : y <= x
    <3> HIDE DEF S
    <3>1. QED
      BY <1>2, <1>3, <2>1, LargestExists
  <2>3. \E x \in S : \A i \in Directory : progress[i].sequence <= x
    BY <2>2
  <2>4. top \in S
    <3> HIDE DEF S
    <3>1. QED
      BY <2>3
  <2>5. top \in 0 .. Len(progress)
    <3> HIDE DEF S, top
    <3>1. QED
      BY <1>3, <2>4
  <2>6. NextSequence = 1 + top
    BY <1>5 DEF NextSequence
  <2>7. QED
    <3> HIDE DEF top
    <3>1. QED
      BY <1>2, <2>5, <2>6
<1>6. QED
  BY <1>4, <1>5

(* Files are only added, and only their state changes.                     *)
FilesGrow ==
    /\ progress' \in Seq(ProgressFile) /\ Len(progress') <= MaxFiles
    /\ \A i \in DOMAIN progress' : progress'[i].sequence <= i
    /\ DOMAIN progress \subseteq DOMAIN progress'
    /\ \A i \in DOMAIN progress :
          /\ progress'[i].launch = progress[i].launch
          /\ progress'[i].sequence = progress[i].sequence
          /\ progress'[i].final = progress[i].final
          /\ progress'[i].items = progress[i].items
          /\ progress[i].state = "receipted" => progress'[i].state = "receipted"

(* A callback that begins adds its file at the end.                        *)
LEMMA NewFile ==
    ASSUME SortTypes, CallPlace, NEW f \in BOOLEAN, NEW s \in BOOLEAN,
           NEW items \in SUBSET Items, RecordProgress(f, s, items)
    PROVE  FilesGrow /\ Len(progress) + 1 \in DOMAIN progress'
<1> DEFINE r == [launch |-> call.attempt, sequence |-> NextSequence, final |-> f,
                 sound |-> s, items |-> items, state |-> "calling"]
<1>1. progress \in Seq(ProgressFile) /\ call.attempt \in Nat
  BY DEF SortTypes, ProgressFile
<1>2. r \in ProgressFile /\ r.sequence = NextSequence
  BY <1>1, NextSequenceBounded DEF ProgressFile
<1>3. progress' = Append(progress, r) /\ Len(progress) < MaxFiles
  BY DEF RecordProgress
<1> HIDE DEF r
<1>4. /\ progress' \in Seq(ProgressFile) /\ Len(progress') = Len(progress) + 1
      /\ Len(progress) \in Nat /\ DOMAIN progress = 1 .. Len(progress)
      /\ DOMAIN progress' = 1 .. Len(progress) + 1
      /\ \A i \in DOMAIN progress : progress'[i] = progress[i]
      /\ progress'[Len(progress) + 1] = r
  BY <1>1, <1>2, <1>3
<1>5. \A i \in DOMAIN progress' : progress'[i].sequence <= i
  BY <1>2, <1>4, NextSequenceBounded DEF CallPlace
<1>6. QED
  BY <1>3, <1>4, <1>5, SortConstants DEF FilesGrow

(* A callback that stages its file or appends its receipt changes no more. *)
LEMMA FileMoves ==
    ASSUME SortTypes, CallPlace, NEW i \in DOMAIN progress,
           NEW s \in {"staged", "receipted"}, progress[i].state # "receipted",
           progress' = [progress EXCEPT ![i].state = s]
    PROVE  FilesGrow /\ DOMAIN progress' = DOMAIN progress
<1>1. progress \in Seq(ProgressFile)
  BY DEF SortTypes, ProgressFile
<1>2. /\ progress' \in Seq(ProgressFile) /\ Len(progress') = Len(progress)
      /\ DOMAIN progress' = DOMAIN progress
  <2>1. [progress[i] EXCEPT !.state = s] \in ProgressFile
    <3>1. progress[i] \in ProgressFile
      BY <1>1
    <3>2. QED
      BY <3>1 DEF ProgressFile
  <2>2. progress' = [progress EXCEPT ![i] = [progress[i] EXCEPT !.state = s]]
    OBVIOUS
  <2>3. QED
    BY <1>1, <2>1, <2>2, ExceptSeq
<1>3. \A j \in DOMAIN progress : j # i => progress'[j] = progress[j]
  OBVIOUS
<1>4. progress'[i] = [progress[i] EXCEPT !.state = s] /\ progress[i] \in ProgressFile
  BY <1>1
<1>5. /\ progress'[i].launch = progress[i].launch
      /\ progress'[i].sequence = progress[i].sequence
      /\ progress'[i].final = progress[i].final
      /\ progress'[i].items = progress[i].items
  BY <1>4 DEF ProgressFile
<1>6. QED
  BY <1>2, <1>3, <1>5 DEF FilesGrow, CallPlace

(* Most steps leave the files alone.                                       *)
LEMMA FilesKept ==
    ASSUME SortTypes, CallPlace, UNCHANGED progress
    PROVE  FilesGrow
BY DEF FilesGrow, SortTypes, ProgressFile, CallPlace

(* No step takes a file back, or renumbers one.                            *)
LEMMA FilesOnlyGrow ==
    ASSUME SortTypes, CallPlace, SortNext
    PROVE  FilesGrow
<1>1. CASE \E f, s \in BOOLEAN, items \in SUBSET Items : RecordProgress(f, s, items)
  BY <1>1, NewFile
<1>2. CASE \E i \in flying : StageFile(i)
  <2>1. PICK i \in flying : StageFile(i)
    BY <1>2
  <2>2. /\ i \in DOMAIN progress /\ progress[i].state # "receipted"
        /\ progress' = [progress EXCEPT ![i].state = "staged"]
    BY <2>1 DEF StageFile, SortTypes
  <2>3. QED
    BY <2>2, FileMoves
<1>3. CASE \E i \in flying : AppendReceipt(i)
  <2>1. PICK i \in flying : AppendReceipt(i)
    BY <1>3
  <2>2. /\ i \in DOMAIN progress /\ progress[i].state # "receipted"
        /\ progress' = [progress EXCEPT ![i].state = "receipted"]
    BY <2>1 DEF AppendReceipt, SortTypes
  <2>3. QED
    BY <2>2, FileMoves
<1>4. CASE MainThread
  <2>1. UNCHANGED progress
    BY <1>4 DEF MainThread, LaunchSort, Check, CheckFails, AcceptReply, DeclareItem,
       DeclareConflicts, StartIngest, EndIngest, IngestFile, IngestRaises, ResumeBarrier,
       CloseTask, Settle, Decide, Mirror, Review, PreparePlanning, OpenFrantaRun, Start,
       Recovered, Refuse, FailLaunch, agentVars
  <2>2. QED
    BY <2>1, FilesKept
<1>5. CASE \/ StopSort \/ OperatorStep \/ SorterFails
           \/ \E i \in Finals : SorterReplies(i)
  <2>1. UNCHANGED progress
    BY <1>5 DEF StopSort, OperatorStep, SorterFails, SorterReplies, FailLaunch,
       AuthorizeCall, DecideOperation, agentVars
  <2>2. QED
    BY <2>1, FilesKept
<1>6. QED
  BY <1>1, <1>2, <1>3, <1>4, <1>5 DEF SortNext, AgentStep

(* A failed launch ends the way the failure was recorded.                  *)
FailedLaunch ==
    /\ call.status = "running" /\ call' = RecordTransportFailure(call)
    /\ claim' = NoClaim /\ pc' \in {"barrier", "down"} /\ batch' = {} /\ due' = {}
    /\ flying' \in {flying, {}} /\ (pc' = "down" => flying' = {})
    /\ UNCHANGED <<progress, ledgerVars, taskVars, planVars, bounds>>

(* An error that is no failed launch ends the process.                     *)
Broken ==
    /\ pc' = "down" /\ flying' = {} /\ batch' = {} /\ due' = {}
    /\ UNCHANGED <<call, claim, progress, ledgerVars, taskVars, planVars, bounds>>

(* The ways a check, a conflict or an ingestion fails.                     *)
LEMMA Failures ==
    ASSUME SortTypes, CallPlace
    PROVE  /\ SorterFails => FailedLaunch
           /\ CheckFails => FailedLaunch \/ (pc = "check" /\ Broken)
           /\ \A i, x : DeclareConflicts(i, x) =>
                            FailedLaunch \/ (pc = "export" /\ Broken)
           /\ \A i : IngestRaises(i) => pc = "ingest" /\ Broken
<1>1. call.status = "running" /\ FailLaunch => FailedLaunch
  BY DEF FailLaunch, FailedLaunch, LeaveProcess, SortTypes
<1>2. pc \in {"check", "export"} /\ Refuse => FailedLaunch \/ Broken
  BY <1>1 DEF Refuse, Broken, LeaveProcess, CallPlace
<1>3. QED
  BY <1>1, <1>2 DEF SorterFails, CheckFails, DeclareConflicts, IngestRaises, Broken,
     LeaveProcess, CallPlace

(* Every step is one of these.                                             *)
LEMMA SortSteps ==
    ASSUME SortTypes, CallPlace, SortNext
    PROVE  \/ FailedLaunch
           \/ Broken /\ pc \in {"check", "export", "ingest"}
           \/ LaunchSort \/ Check \/ AcceptReply \/ StartIngest \/ EndIngest
           \/ ResumeBarrier \/ CloseTask \/ Settle \/ Decide
           \/ PreparePlanning \/ OpenFrantaRun \/ Start \/ Recovered \/ StopSort
           \/ AuthorizeCall
           \/ \E i \in batch, x \in Items : DeclareItem(i, x)
           \/ \E i \in batch : IngestFile(i)
           \/ \E x \in Items : Mirror(x)
           \/ \E x \in Items, s \in Resolved : Review(x, s)
           \/ \E x \in Items, s \in {"received", "abandoned"} : DecideOperation(x, s)
           \/ \E f, s \in BOOLEAN, items \in SUBSET Items : RecordProgress(f, s, items)
           \/ \E i \in flying : StageFile(i)
           \/ \E i \in flying : AppendReceipt(i)
           \/ \E i \in Finals : SorterReplies(i)
BY Failures DEF SortNext, MainThread, AgentStep, OperatorStep

(* The types of all variables but the call and the files.                  *)
RestTypes ==
    /\ pc \in {"barrier", "agent", "check", "export", "ingest", "settle",
               "mirror", "plan", "open", "planned", "down", "recover"}
    /\ claim \in [final : Nat, items : SUBSET (Nat \X Items)]
    /\ {flying, batch, ingested} \subseteq SUBSET (DOMAIN progress)
    /\ pc \in {"down", "recover"} => flying = {}
    /\ due \subseteq batch \X Items
    /\ declared \in [Items -> 0 .. Earlier]
    /\ ledger \in [Items -> {"none", "received"} \cup Resolved]
    /\ ops \in [Items -> {"absent", "received"} \cup Resolved]
    /\ task \in {"running", "ended", "closed"}
    /\ planning \in Nat /\ phase \in {"franta_sort", "franta_run"}
    /\ {stops, operator} \subseteq Nat

(* The types, taken apart.                                                 *)
LEMMA TypesSplit ==
    SortTypes <=> call \in SortCall /\ progress \in Seq(ProgressFile) /\ RestTypes
BY DEF SortTypes, SortCall, ProgressFile, RestTypes

(* What a file promotes is an item of the sort.                            *)
LEMMA ItemsOfFiles ==
    ASSUME SortTypes, NEW files \in SUBSET DOMAIN progress
    PROVE  /\ ItemsOf(files) \subseteq files \X Items
           /\ files \X Items \subseteq Nat \X Items
           /\ \A i \in files : \A x \in progress[i].items : <<i, x>> \in ItemsOf(files)
<1>1. \A i \in DOMAIN progress : i \in Nat /\ progress[i].items \subseteq Items
  <2>1. progress \in Seq(ProgressFile)
    BY TypesSplit
  <2>2. \A i \in DOMAIN progress : i \in Nat /\ progress[i] \in ProgressFile
    BY <2>1
  <2>3. QED
    BY <2>2 DEF ProgressFile
<1>2. \A i \in files : {i} \X progress[i].items \subseteq files \X Items
  BY <1>1
<1>3. ItemsOf(files) \subseteq files \X Items
  BY <1>2 DEF ItemsOf
<1>4. files \X Items \subseteq Nat \X Items
  BY <1>1
<1>5. ASSUME NEW i \in files, NEW x \in progress[i].items
      PROVE  <<i, x>> \in ItemsOf(files)
  <2>1. <<i, x>> \in {i} \X progress[i].items
    OBVIOUS
  <2>2. QED
    BY <2>1 DEF ItemsOf
<1>6. QED
  BY <1>3, <1>4, <1>5

(* No step breaks the record of the call.                                  *)
LEMMA CallTypes ==
    ASSUME SortTypes, CallPlace, SortNext
    PROVE  call' \in SortCall
<1>1. call \in SortCall
  BY TypesSplit
<1>2. \/ call' = call \/ call' = Launch(call) \/ call' = ReceiveResult(call, call.attempt)
      \/ call' = CommitResult(call) \/ call' = RecordTransportFailure(call)
      \/ call' = AuthorizeRetry(call) \/ call' = ReconcileAfterStop(call)
  BY SortSteps DEF FailedLaunch, Broken, LaunchSort, Check, AcceptReply, StartIngest,
     EndIngest, ResumeBarrier, CloseTask, Settle, Decide, PreparePlanning,
     OpenFrantaRun, Start, Recovered, StopSort, AuthorizeCall, DeclareItem, IngestFile,
     Mirror, Review, DecideOperation, RecordProgress, StageFile, AppendReceipt,
     SorterReplies
<1>3. QED
  BY <1>1, <1>2, SortReducer

(* No step breaks the type of a variable.                                  *)
LEMMA SortTypesKept ==
    ASSUME SortTypes, CallPlace, SortNext
    PROVE  SortTypes'
<1>1. /\ call' \in SortCall /\ FilesGrow
      /\ RestTypes /\ progress \in Seq(ProgressFile) /\ Len(progress) <= MaxFiles
  BY CallTypes, FilesOnlyGrow, TypesSplit DEF CallPlace
<1>2. SUFFICES RestTypes'
  BY <1>1, <1>2, TypesSplit DEF FilesGrow, SortTypes, SortCall, ProgressFile, RestTypes
<1>3. DOMAIN progress \subseteq DOMAIN progress' /\ DOMAIN progress \subseteq 1 .. MaxFiles
  BY <1>1, SortConstants DEF FilesGrow
<1>4. \A i \in DOMAIN progress : i \in 0 .. Earlier
  BY <1>3, SortConstants DEF Earlier
<1>5. CASE FailedLaunch \/ Broken
  BY <1>1, <1>3, <1>5 DEF FailedLaunch, Broken, RestTypes, NoClaim, NoFile, ledgerVars,
     taskVars, planVars, bounds
<1>6. CASE LaunchSort \/ AcceptReply \/ StartIngest \/ EndIngest \/ Settle \/ Recovered
  BY <1>1, <1>3, <1>6 DEF LaunchSort, AcceptReply, StartIngest, EndIngest, Settle,
     Recovered, RestTypes, NoClaim, NoFile, ledgerVars, taskVars, planVars, bounds,
     agentVars, CallPlace
<1>7. CASE Check
  <2>1. /\ Directory \subseteq DOMAIN progress
        /\ ItemsOf(Directory) \subseteq Directory \X Items
    BY ItemsOfFiles DEF Directory
  <2>2. QED
    BY <1>1, <1>7, <2>1 DEF Check, ToDeclare, RestTypes, ledgerVars, taskVars, planVars,
       bounds, agentVars
<1>8. CASE ResumeBarrier \/ CloseTask \/ Decide \/ OpenFrantaRun \/ Start
  BY <1>1, <1>8 DEF ResumeBarrier, CloseTask, Decide, OpenFrantaRun, Start, LeaveProcess,
     RestTypes, ledgerVars, taskVars, planVars, bounds, agentVars
<1>9. CASE PreparePlanning \/ StopSort \/ AuthorizeCall
  BY <1>1, <1>9 DEF PreparePlanning, StopSort, AuthorizeCall, OperatorActs, LeaveProcess,
     RestTypes, ledgerVars, taskVars, planVars, bounds, agentVars, NoClaim, NoFile
<1>10. CASE \E i \in batch, x \in Items : DeclareItem(i, x)
  <2>1. PICK i \in batch, x \in Items : DeclareItem(i, x)
    BY <1>10
  <2>2. i \in 0 .. Earlier
    BY <1>1, <1>4 DEF RestTypes
  <2>3. declared' \in [Items -> 0 .. Earlier]
    BY <1>1, <2>1, <2>2 DEF DeclareItem, RestTypes
  <2>4. ledger' \in [Items -> {"none", "received"} \cup Resolved]
    BY <1>1, <2>1 DEF DeclareItem, RestTypes
  <2>5. QED
    BY <1>1, <2>1, <2>3, <2>4 DEF DeclareItem, RestTypes, taskVars, planVars, bounds,
       agentVars
<1>11. CASE \E i \in batch : IngestFile(i)
  <2>1. PICK i \in batch : IngestFile(i)
    BY <1>11
  <2>2. ingested' \subseteq DOMAIN progress
    BY <1>1, <2>1 DEF IngestFile, RestTypes
  <2>3. ops' \in [Items -> {"absent", "received"} \cup Resolved]
    BY <1>1, <2>1 DEF IngestFile, RestTypes
  <2>4. task' \in {"running", "ended", "closed"}
    BY <1>1, <2>1 DEF IngestFile, RestTypes
  <2>5. QED
    BY <1>1, <2>1, <2>2, <2>3, <2>4 DEF IngestFile, RestTypes, ledgerVars, planVars,
       bounds, agentVars
<1>12. CASE \/ \E x \in Items : Mirror(x)
            \/ \E x \in Items, s \in Resolved : Review(x, s)
            \/ \E x \in Items, s \in {"received", "abandoned"} : DecideOperation(x, s)
  <2>1. \/ UNCHANGED ops
        \/ \E x \in Items, s \in {"received"} \cup Resolved : ops' = [ops EXCEPT ![x] = s]
    BY <1>12 DEF Mirror, Review, DecideOperation, Resolved, FinalStates, taskVars
  <2>2. ops' \in [Items -> {"absent", "received"} \cup Resolved]
    BY <1>1, <2>1 DEF RestTypes
  <2>3. \/ UNCHANGED ledger
        \/ \E x \in Items : x \in Mirrored /\ ledger' = [ledger EXCEPT ![x] = ops[x]]
    BY <1>12 DEF Mirror, Review, DecideOperation, Resolution, ledgerVars
  <2>4. ledger' \in [Items -> {"none", "received"} \cup Resolved]
    BY <1>1, <2>3 DEF RestTypes, Mirrored
  <2>5. /\ UNCHANGED <<pc, call, agentVars, batch, due, declared, ingested, task, planVars,
                       stops>>
        /\ operator' \in {operator, operator + 1}
    BY <1>12 DEF Mirror, Review, DecideOperation, OperatorActs, taskVars, ledgerVars, bounds
  <2>6. QED
    BY <1>1, <2>2, <2>4, <2>5 DEF RestTypes, agentVars, planVars
<1>13. CASE \E f, s \in BOOLEAN, items \in SUBSET Items : RecordProgress(f, s, items)
  <2>1. PICK f, s \in BOOLEAN, items \in SUBSET Items : RecordProgress(f, s, items)
    BY <1>13
  <2>2. Len(progress) + 1 \in DOMAIN progress'
    BY <2>1, NewFile
  <2>3. flying' \subseteq DOMAIN progress'
    BY <1>1, <1>3, <2>1, <2>2 DEF RecordProgress, RestTypes
  <2>4. QED
    BY <1>1, <1>3, <2>1, <2>3 DEF RecordProgress, RestTypes, ledgerVars, taskVars, planVars,
       bounds
<1>14. CASE (\E i \in flying : StageFile(i)) \/ (\E i \in flying : AppendReceipt(i))
  <2>1. flying' \subseteq flying
        /\ UNCHANGED <<pc, call, claim, batch, due, ledgerVars, taskVars, planVars, bounds>>
    BY <1>14 DEF StageFile, AppendReceipt
  <2>2. QED
    BY <1>1, <1>3, <2>1 DEF RestTypes, ledgerVars, taskVars, planVars, bounds
<1>15. CASE \E i \in Finals : SorterReplies(i)
  <2>1. PICK i \in Finals : SorterReplies(i)
    BY <1>15
  <2>2. /\ Directory \subseteq DOMAIN progress
        /\ ItemsOf(Directory) \subseteq Nat \X Items
    BY ItemsOfFiles DEF Directory
  <2>3. i \in Nat
    BY <1>3, <2>2 DEF Finals
  <2>4. claim' \in [final : Nat, items : SUBSET (Nat \X Items)]
    BY <2>1, <2>2, <2>3 DEF SorterReplies
  <2>5. QED
    BY <1>1, <2>1, <2>4 DEF SorterReplies, RestTypes, ledgerVars, taskVars, planVars, bounds
<1>16. QED
  BY <1>5, <1>6, <1>7, <1>8, <1>9, <1>10, <1>11, <1>12, <1>13, <1>14, <1>15, SortSteps

(***************************************************************************)
(* The invariant.                                                          *)
(***************************************************************************)
(* An accepted reply stays: its launch, what it promotes, and its commit.  *)
LEMMA AnswerStands ==
    ASSUME SortTypes, CallPlace, SortNext, call.status \in Answered
    PROVE  /\ call'.status \in Answered /\ call'.result = call.result
           /\ call'.attempt = call.attempt /\ claim' = claim
           /\ call.status = "committed" => call'.status = "committed"
           /\ call.status = "completed" /\ call'.status = "committed" => pc = "ingest"
<1>1. call \in SortCall
  BY TypesSplit
<1>2. \/ call' = call
      \/ pc = "ingest" /\ call' = CommitResult(call)
      \/ call' = ReconcileAfterStop(call)
  BY SortSteps DEF FailedLaunch, Broken, LaunchSort, Check, AcceptReply, StartIngest,
     EndIngest, ResumeBarrier, CloseTask, Settle, Decide, PreparePlanning,
     OpenFrantaRun, Start, Recovered, StopSort, AuthorizeCall, DeclareItem, IngestFile,
     Mirror, Review, DecideOperation, RecordProgress, StageFile, AppendReceipt,
     SorterReplies, CanLaunch, CanAuthorize, Answered
<1>3. claim' = claim
  BY SortSteps DEF FailedLaunch, Broken, LaunchSort, Check, AcceptReply, StartIngest,
     EndIngest, ResumeBarrier, CloseTask, Settle, Decide, PreparePlanning,
     OpenFrantaRun, Start, Recovered, StopSort, AuthorizeCall, DeclareItem, IngestFile,
     Mirror, Review, DecideOperation, RecordProgress, StageFile, AppendReceipt,
     SorterReplies, CanLaunch, CanAuthorize, Answered, CallPlace, agentVars
<1>4. QED
  BY <1>1, <1>2, <1>3 DEF SortCall, CommitResult, ReconcileAfterStop, LostByStop, Answered

(* The main thread moves with the call.                                    *)
LEMMA CallPlaceKept ==
    ASSUME SortTypes, CallPlace, SortNext
    PROVE  CallPlace'
<1>1. call \in SortCall /\ FilesGrow
  BY TypesSplit, FilesOnlyGrow
<1>2. CASE call.status \in Answered
  <2>1. /\ call'.status \in Answered /\ call'.result = call.result
        /\ call'.attempt = call.attempt
        /\ call.status = "completed" /\ call'.status = "committed" => pc = "ingest"
    BY <1>2, AnswerStands
  <2>2. /\ pc' # "agent"
        /\ pc' \in {"check", "export"} => call.status = "completed" /\ pc # "ingest"
        /\ due' # {} => pc' = "export"
    BY <1>2, SortSteps DEF FailedLaunch, Broken, LaunchSort, Check, AcceptReply, StartIngest,
       EndIngest, ResumeBarrier, CloseTask, Settle, Decide, PreparePlanning,
       OpenFrantaRun, Start, Recovered, StopSort, AuthorizeCall, DeclareItem, IngestFile,
       Mirror, Review, DecideOperation, RecordProgress, StageFile, AppendReceipt,
       SorterReplies, CanLaunch, CanAuthorize, Answered, CallPlace, OperatorActs, LeaveProcess
  <2>3. QED
    BY <1>1, <1>2, <2>1, <2>2 DEF CallPlace, FilesGrow, Answered
<1>3. CASE FailedLaunch
  <2>1. call'.status \in {"retry_pending", "needs_attention"}
    BY <1>1, <1>3 DEF FailedLaunch, RecordTransportFailure, AfterRetry, SortCall
  <2>2. QED
    BY <1>1, <1>3, <2>1 DEF FailedLaunch, CallPlace, FilesGrow, Answered
<1>4. CASE LaunchSort \/ AcceptReply \/ Start \/ AuthorizeCall
  <2>1. /\ LaunchSort => call'.status = "running"
        /\ AcceptReply => call'.status = "completed" /\ call'.result = call'.attempt
        /\ Start => call'.status \notin {"running"}
                    /\ (call'.status \in Answered => call' = call)
        /\ AuthorizeCall => call'.status = "retry_pending"
    BY <1>1 DEF LaunchSort, Launch, AcceptReply, ReceiveResult, Start, ReconcileAfterStop,
       LostByStop, AuthorizeCall, AuthorizeRetry, SortCall, Answered
  <2>2. QED
    BY <1>1, <1>4, <2>1 DEF LaunchSort, AcceptReply, Start, AuthorizeCall, OperatorActs,
       CallPlace, FilesGrow, Answered, agentVars
<1>5. CASE call.status \notin Answered /\ ~FailedLaunch /\ ~LaunchSort /\ ~AcceptReply
           /\ ~Start /\ ~AuthorizeCall
  <2>1. /\ call' = call
        /\ pc' = "agent" => pc = "agent"
        /\ pc' \in {"check", "export"} => pc \in {"agent", "check", "export"}
        /\ pc' # "ingest"
        /\ due' # {} => pc' = "export"
    BY <1>5, SortSteps DEF Broken, Check, StartIngest,
       EndIngest, ResumeBarrier, CloseTask, Settle, Decide, PreparePlanning,
       OpenFrantaRun, Recovered, StopSort, DeclareItem, IngestFile,
       Mirror, Review, DecideOperation, RecordProgress, StageFile, AppendReceipt,
       SorterReplies, CanLaunch, Answered, CallPlace, OperatorActs, LeaveProcess
  <2>2. QED
    BY <1>1, <1>5, <2>1 DEF CallPlace, FilesGrow, Answered
<1>6. QED
  BY <1>2, <1>3, <1>4, <1>5

(* What a step does to a batch that was read.                              *)
LEMMA BatchSoundKept ==
    ASSUME SortTypes, CallPlace, BatchSound, SortNext
    PROVE  BatchSound'
<1>1. FilesGrow /\ call \in SortCall /\ batch \subseteq DOMAIN progress
  BY FilesOnlyGrow, TypesSplit DEF SortTypes
<1>2. CASE Check
  <2>1. /\ pc' = "export" /\ batch' = Directory /\ due' = ItemsOf(Directory)
        /\ UNCHANGED <<call, claim, progress>> /\ Authentic /\ Finals = {claim.final}
        /\ Directory \subseteq DOMAIN progress
    BY <1>2 DEF Check, ToDeclare, agentVars, Submitted, Directory
  <2>2. \A i \in Directory : \A x \in progress[i].items : <<i, x>> \in ItemsOf(Directory)
    BY <2>1, ItemsOfFiles
  <2>3. \A i \in Directory : progress[i].final => i = claim.final
    BY <2>1 DEF Finals
  <2>4. QED
    BY <2>1, <2>2, <2>3 DEF BatchSound, Authentic, OfThisLaunch
<1>3. CASE \E i \in batch, x \in Items : DeclareItem(i, x)
  <2>1. PICK i \in batch, x \in Items : DeclareItem(i, x)
    BY <1>3
  <2>2. /\ pc = "export" /\ declared[x] \in {NoFile, i} /\ i # NoFile
        /\ declared' = [declared EXCEPT ![x] = i]
        /\ ledger' = [ledger EXCEPT ![x] = IF @ = "none" THEN "received" ELSE @]
        /\ due' = due \ {<<i, x>>}
        /\ UNCHANGED <<pc, call, claim, progress, batch>>
    BY <1>1, <2>1 DEF DeclareItem, agentVars, NoFile, SortTypes
  <2>3. ASSUME NEW j \in batch, NEW y \in progress[j].items
        PROVE  <<j, y>> \in due' \/ (declared'[y] = j /\ ledger'[y] # "none")
    <3>0. /\ j \in Nat /\ j # NoFile /\ y \in Items
          /\ declared \in [Items -> 0 .. Earlier]
          /\ ledger \in [Items -> {"none", "received"} \cup Resolved]
      <4>1. progress \in Seq(ProgressFile) /\ j \in DOMAIN progress
        BY <1>1, TypesSplit
      <4>2. progress[j] \in ProgressFile /\ j \in Nat /\ j # 0
        BY <4>1
      <4>3. QED
        BY <4>2 DEF ProgressFile, NoFile, SortTypes
    <3>1. CASE y = x
      <4>1. ledger'[y] # "none" /\ declared'[y] = i
        BY <2>2, <3>0, <3>1
      <4>2. CASE j = i
        BY <4>1, <4>2
      <4>3. CASE j # i
        <5>1. <<j, y>> \in due \/ (declared[y] = j /\ ledger[y] # "none")
          BY <2>2 DEF BatchSound
        <5>2. declared[y] # j
          BY <2>2, <3>0, <3>1, <4>3
        <5>3. QED
          BY <2>2, <4>3, <5>1, <5>2
      <4>4. QED
        BY <4>2, <4>3
    <3>2. CASE y # x
      <4>1. declared'[y] = declared[y] /\ ledger'[y] = ledger[y]
        BY <2>2, <3>0, <3>2
      <4>2. <<j, y>> \in due => <<j, y>> \in due'
        BY <2>2, <3>2
      <4>3. QED
        BY <2>2, <4>1, <4>2 DEF BatchSound
    <3>3. QED
      BY <3>1, <3>2
  <2>4. \A j \in batch : OfThisLaunch(j)' /\ (progress'[j].final => j = claim'.final)
    BY <2>2 DEF BatchSound, OfThisLaunch
  <2>5. QED
    BY <2>2, <2>3, <2>4 DEF BatchSound
<1>4. CASE pc' \notin {"export", "ingest"}
  BY <1>4 DEF BatchSound
<1>5. CASE ~Check /\ ~(\E i \in batch, x \in Items : DeclareItem(i, x))
           /\ pc' \in {"export", "ingest"}
  <2>1. /\ pc \in {"export", "ingest"} /\ UNCHANGED <<claim, batch, declared, ledger>>
        /\ call'.attempt = call.attempt
        /\ due' = due
    BY <1>1, <1>5, SortSteps DEF FailedLaunch, Broken, LaunchSort, AcceptReply, StartIngest,
       EndIngest, ResumeBarrier, CloseTask, Settle, Decide, PreparePlanning,
       OpenFrantaRun, Start, Recovered, StopSort, AuthorizeCall, IngestFile,
       Mirror, Review, DecideOperation, RecordProgress, StageFile, AppendReceipt,
       SorterReplies, agentVars, ledgerVars, LeaveProcess, CommitResult, SortCall, OperatorActs
  <2>2. QED
    BY <1>1, <2>1 DEF BatchSound, FilesGrow, OfThisLaunch
<1>6. QED
  BY <1>2, <1>3, <1>4, <1>5

(* The operations of the sort: only an ingested file brings one, and it    *)
(* never takes one back.                                                   *)
LEMMA OpsMove ==
    ASSUME SortTypes, CallPlace, SortNext, ~(\E i \in batch : IngestFile(i)), NEW x \in Items
    PROVE  /\ ingested' = ingested
           /\ ops'[x] = "absent" <=> ops[x] = "absent"
           /\ ops[x] \in FinalStates => ops'[x] = ops[x]
<1>1. ops \in [Items -> {"absent", "received"} \cup Resolved]
  BY DEF SortTypes
<1>2. \/ UNCHANGED <<ops, ingested>>
      \/ \E y \in Items : /\ ops[y] \in {"received", "needs_attention"}
                          /\ \E s \in {"received"} \cup Resolved : ops' = [ops EXCEPT ![y] = s]
                          /\ ingested' = ingested
  BY SortSteps DEF FailedLaunch, Broken, LaunchSort, Check, AcceptReply, StartIngest,
     EndIngest, ResumeBarrier, CloseTask, Settle, Decide, PreparePlanning,
     OpenFrantaRun, Start, Recovered, StopSort, AuthorizeCall, DeclareItem,
     Mirror, Review, DecideOperation, RecordProgress, StageFile, AppendReceipt,
     SorterReplies, taskVars, Resolved, FinalStates
<1>3. QED
  BY <1>1, <1>2 DEF FinalStates, Resolved

(* The task ends on an ingested reply and closes on decided operations.    *)
LEMMA TaskFollowsKept ==
    ASSUME SortTypes, CallPlace, BatchSound, TaskFollows, SortNext
    PROVE  TaskFollows'
<1>1. /\ call \in SortCall /\ task \in {"running", "ended", "closed"}
      /\ ops \in [Items -> {"absent", "received"} \cup Resolved]
  BY TypesSplit DEF SortTypes
<1>2. CASE \E i \in batch : IngestFile(i)
  <2>1. PICK i \in batch : IngestFile(i)
    BY <1>2
  <2>2. /\ pc = "ingest" /\ pc' = "ingest" /\ ingested' = ingested \cup {i} /\ claim' = claim
        /\ \/ progress[i].final /\ task' = "ended" /\ call' = CommitResult(call)
           \/ task' = task /\ call' = call
        /\ progress[i].final => i = claim.final
    BY <2>1 DEF IngestFile, agentVars, BatchSound
  <2>3. call.status \in Answered /\ task # "closed"
    BY <2>2 DEF CallPlace, TaskFollows
  <2>4. QED
    BY <1>1, <2>2, <2>3 DEF TaskFollows, CommitResult, SortCall, Answered
<1>3. CASE CloseTask
  BY <1>3 DEF CloseTask, TaskFollows, Downstream, Mine, agentVars
<1>4. CASE ~CloseTask /\ ~(\E i \in batch : IngestFile(i))
  <2>1. task' = task /\ (pc' = "ingest" => pc \in {"ingest", "export"})
    BY <1>4, SortSteps DEF FailedLaunch, Broken, LaunchSort, Check, AcceptReply, StartIngest,
       EndIngest, ResumeBarrier, Settle, Decide, PreparePlanning,
       OpenFrantaRun, Start, Recovered, StopSort, AuthorizeCall, DeclareItem,
       Mirror, Review, DecideOperation, RecordProgress, StageFile, AppendReceipt,
       SorterReplies, taskVars, LeaveProcess, OperatorActs
  <2>2. ingested' = ingested
    <3>1. CASE Items = {}
      BY <1>4, <3>1, SortSteps DEF FailedLaunch, Broken, LaunchSort, Check, AcceptReply,
         StartIngest, EndIngest, ResumeBarrier, Settle, Decide, PreparePlanning,
         OpenFrantaRun, Start, Recovered, StopSort, AuthorizeCall, RecordProgress, StageFile,
         AppendReceipt, SorterReplies, taskVars
    <3>2. QED
      BY <1>4, <3>1, OpsMove
  <2>3. ASSUME Downstream PROVE Downstream'
    <3>1. ASSUME NEW x \in Items \ Taken, ops'[x] # "absent"
          PROVE  ops'[x] \in FinalStates
      <4>1. ops[x] # "absent"
        BY <1>4, <3>1, OpsMove
      <4>2. ops[x] \in FinalStates
        BY <2>3, <4>1 DEF Downstream, Mine
      <4>3. QED
        BY <1>4, <4>2, OpsMove
    <3>2. QED
      BY <3>1 DEF Downstream, Mine
  <2>4. task = "closed" => pc # "export"
    BY DEF TaskFollows, CallPlace
  <2>5. CASE call.status \in Answered
    BY <2>1, <2>2, <2>3, <2>4, <2>5, AnswerStands DEF TaskFollows
  <2>6. CASE call.status \notin Answered
    <3>1. task = "running" /\ ingested = {}
      BY <2>6 DEF TaskFollows, Answered
    <3>2. QED
      BY <2>1, <2>2, <3>1 DEF TaskFollows
  <2>7. QED
    BY <2>5, <2>6
<1>5. QED
  BY <1>2, <1>3, <1>4

(* The barrier opens on a closed task and an empty ledger, and neither     *)
(* moves behind it.                                                        *)
LEMMA PlanningFollowsKept ==
    ASSUME SortTypes, CallPlace, TaskFollows, PlanningFollows, SortNext
    PROVE  PlanningFollows'
<1>1. /\ task \in {"running", "ended", "closed"} /\ phase \in {"franta_sort", "franta_run"}
      /\ ledger \in [Items -> {"none", "received"} \cup Resolved]
  BY DEF SortTypes
<1>2. task = "closed" => task' = "closed" /\ pc \notin {"export", "ingest"}
  <2>1. task = "closed" => pc \notin {"export", "ingest"}
    BY DEF TaskFollows, CallPlace
  <2>2. QED
    BY <2>1, SortSteps DEF FailedLaunch, Broken, LaunchSort, Check, AcceptReply, StartIngest,
       EndIngest, ResumeBarrier, Settle, Decide, PreparePlanning, CloseTask, IngestFile,
       OpenFrantaRun, Start, Recovered, StopSort, AuthorizeCall, DeclareItem,
       Mirror, Review, DecideOperation, RecordProgress, StageFile, AppendReceipt,
       SorterReplies, taskVars
<1>3. task = "closed" /\ Unresolved = {} => Unresolved' = {}
  <2>1. pc # "export" => \/ ledger' = ledger
                         \/ \E x \in Items : x \in Mirrored /\ ledger' = [ledger EXCEPT ![x] = ops[x]]
    BY SortSteps DEF FailedLaunch, Broken, LaunchSort, Check, AcceptReply, StartIngest,
       EndIngest, ResumeBarrier, Settle, Decide, PreparePlanning, CloseTask, IngestFile,
       OpenFrantaRun, Start, Recovered, StopSort, AuthorizeCall, DeclareItem,
       Mirror, Review, DecideOperation, RecordProgress, StageFile, AppendReceipt,
       SorterReplies, ledgerVars, Resolution
  <2>2. QED
    BY <1>2, <2>1 DEF Unresolved, Mirrored
<1>4. CASE Decide
  BY <1>2, <1>3, <1>4 DEF Decide, BarrierOpens, LeaveProcess, PlanningFollows, planVars
<1>5. CASE PreparePlanning \/ OpenFrantaRun
  BY <1>2, <1>3, <1>5 DEF PreparePlanning, OpenFrantaRun, Existing, PlanningFollows
<1>6. CASE ~Decide /\ ~PreparePlanning /\ ~OpenFrantaRun
  <2> DEFINE Calm == /\ UNCHANGED <<planning, phase>>
                     /\ pc' \in {"plan", "open", "planned"} => pc' = pc
                     /\ pc = "planned" => pc' = pc
  <2>1. Calm
    <3>1. /\ FailedLaunch => Calm
          /\ Broken /\ pc \in {"check", "export", "ingest"} => Calm
      BY DEF FailedLaunch, Broken, TaskFollows, PlanningFollows, CallPlace, planVars
    <3>2. /\ LaunchSort => Calm
          /\ Check \/ AcceptReply \/ StartIngest \/ EndIngest => Calm
          /\ ResumeBarrier \/ CloseTask \/ Settle => Calm
      BY DEF LaunchSort, Check, AcceptReply, StartIngest, EndIngest,
         ResumeBarrier, CloseTask, Settle, LeaveProcess, planVars
    <3>3. Start \/ Recovered \/ StopSort \/ AuthorizeCall => Calm
      BY DEF Start, Recovered, StopSort, LeaveProcess, AuthorizeCall,
         OperatorActs, planVars
    <3>4. /\ (\E i \in batch, x \in Items : DeclareItem(i, x)) => Calm
          /\ (\E i \in batch : IngestFile(i)) => Calm
          /\ (\E x \in Items : Mirror(x)) => Calm
          /\ (\E x \in Items, s \in Resolved : Review(x, s)) => Calm
          /\ (\E x \in Items, s \in {"received", "abandoned"} : DecideOperation(x, s))
                => Calm
      BY DEF DeclareItem, IngestFile, Mirror, Review, DecideOperation, planVars
    <3>5. /\ (\E f, s \in BOOLEAN, items \in SUBSET Items : RecordProgress(f, s, items))
                => Calm
          /\ (\E i \in flying : StageFile(i)) => Calm
          /\ (\E i \in flying : AppendReceipt(i)) => Calm
          /\ (\E i \in Finals : SorterReplies(i)) => Calm
      BY DEF RecordProgress, StageFile, AppendReceipt, SorterReplies, planVars
    <3>6. QED
      <4> HIDE DEF Calm
      <4>1. QED
        BY <1>6, <3>1, <3>2, <3>3, <3>4, <3>5, SortSteps
  <2>2. QED
    BY <1>2, <1>3, <2>1 DEF PlanningFollows
<1>7. QED
  BY <1>4, <1>5, <1>6

(* What was ingested keeps its receipt, and its launch is the accepted     *)
(* one.                                                                    *)
LEMMA AuthenticKept ==
    ASSUME SortTypes, CallPlace, BatchSound, TaskFollows, OnlyAuthenticIngested, SortNext
    PROVE  OnlyAuthenticIngested'
<1>1. FilesGrow /\ ingested \subseteq DOMAIN progress /\ batch \subseteq DOMAIN progress
  BY FilesOnlyGrow DEF SortTypes
<1>2. CASE \E i \in batch : IngestFile(i)
  <2>1. PICK i \in batch : IngestFile(i)
    BY <1>2
  <2>2. pc = "ingest" /\ call.status \in Answered /\ ingested' = ingested \cup {i}
    BY <2>1 DEF IngestFile, CallPlace
  <2>3. progress[i].state = "receipted" /\ progress[i].launch = call.result
    BY <2>2 DEF BatchSound, OfThisLaunch, CallPlace
  <2>4. call'.result = call.result
    BY <2>2, AnswerStands
  <2>5. QED
    BY <1>1, <2>2, <2>3, <2>4 DEF OnlyAuthenticIngested, FilesGrow
<1>3. CASE ~(\E i \in batch : IngestFile(i))
  <2>1. ingested' = ingested
    BY <1>3, SortSteps DEF FailedLaunch, Broken, LaunchSort, Check, AcceptReply,
       StartIngest, EndIngest, ResumeBarrier, Settle, CloseTask, Decide, PreparePlanning,
       OpenFrantaRun, Start, Recovered, StopSort, AuthorizeCall, DeclareItem,
       Mirror, Review, DecideOperation, RecordProgress, StageFile,
       AppendReceipt, SorterReplies, taskVars
  <2>2. CASE ingested = {}
    BY <2>1, <2>2 DEF OnlyAuthenticIngested
  <2>3. CASE ingested # {}
    <3>1. call'.result = call.result
      BY <2>3, AnswerStands DEF TaskFollows
    <3>2. QED
      BY <1>1, <2>1, <3>1 DEF OnlyAuthenticIngested, FilesGrow
  <2>4. QED
    BY <2>2, <2>3
<1>4. QED
  BY <1>2, <1>3

(* What a step does to the row of an item in the ledger.                   *)
LEMMA LedgerMoves ==
    ASSUME SortTypes, CallPlace, SortNext, NEW x \in Items
    PROVE  /\ ledger[x] # "none" => ledger'[x] # "none"
           /\ declared[x] # NoFile => declared'[x] = declared[x]
           /\ ledger'[x] \in FinalStates =>
                 \/ ledger'[x] = ledger[x]
                 \/ ledger'[x] = ops[x] /\ ops'[x] = ops[x]
           /\ ledger[x] \in FinalStates => ledger'[x] = ledger[x]
<1>1. /\ ledger \in [Items -> {"none", "received"} \cup Resolved]
      /\ declared \in [Items -> 0 .. Earlier]
  BY DEF SortTypes
<1>2. CASE \E i \in batch, y \in Items : DeclareItem(i, y)
  <2>1. PICK i \in batch, y \in Items : DeclareItem(i, y)
    BY <1>2
  <2>2. /\ declared[y] \in {NoFile, i}
        /\ declared' = [declared EXCEPT ![y] = i]
        /\ ledger' = [ledger EXCEPT ![y] = IF @ = "none" THEN "received" ELSE @]
    BY <2>1 DEF DeclareItem
  <2>3. QED
    BY <1>1, <2>2 DEF FinalStates
<1>3. CASE \E y \in Items : Mirror(y)
  <2>1. PICK y \in Items : Mirror(y)
    BY <1>3
  <2>2. /\ ledger[y] = "received" /\ ops[y] \in Resolved /\ UNCHANGED <<declared, ops>>
        /\ ledger' = [ledger EXCEPT ![y] = ops[y]]
    BY <2>1 DEF Mirror, Mirrored, Unresolved, Resolution, taskVars
  <2>3. QED
    BY <1>1, <2>2 DEF FinalStates, Resolved
<1>4. CASE ~(\E i \in batch, y \in Items : DeclareItem(i, y)) /\ ~(\E y \in Items : Mirror(y))
  <2>1. UNCHANGED <<declared, ledger>>
    BY <1>4, SortSteps DEF FailedLaunch, Broken, LaunchSort, Check, AcceptReply, StartIngest,
       EndIngest, ResumeBarrier, Settle, Decide, PreparePlanning, CloseTask, IngestFile,
       OpenFrantaRun, Start, Recovered, StopSort, AuthorizeCall,
       Review, DecideOperation, RecordProgress, StageFile, AppendReceipt,
       SorterReplies, ledgerVars
  <2>2. QED
    BY <2>1
<1>5. QED
  BY <1>2, <1>3, <1>4

(* An operation of the sort keeps the file that declared it.               *)
LEMMA ProvenanceKept ==
    ASSUME SortTypes, CallPlace, BatchSound, ProvenanceFirst, SortNext
    PROVE  ProvenanceFirst'
<1>1. FilesGrow /\ ingested \subseteq DOMAIN progress /\ batch \subseteq DOMAIN progress
  BY FilesOnlyGrow DEF SortTypes
<1>2. \A i \in DOMAIN progress : i # NoFile
  BY TypesSplit DEF NoFile
<1>3. SUFFICES ASSUME NEW x \in Items \ Taken, ops'[x] # "absent"
               PROVE  /\ ledger'[x] # "none" /\ declared'[x] \in ingested'
                      /\ x \in progress'[declared'[x]].items
  BY DEF ProvenanceFirst, Mine
<1>4. CASE ops[x] # "absent"
  <2>1. /\ ledger[x] # "none" /\ declared[x] \in ingested
        /\ x \in progress[declared[x]].items
    BY <1>4 DEF ProvenanceFirst, Mine
  <2>2. ingested \subseteq ingested'
    <3>1. CASE \E i \in batch : IngestFile(i)
      BY <3>1 DEF IngestFile
    <3>2. QED
      BY <3>1, OpsMove
  <2>3. ledger'[x] # "none" /\ declared'[x] = declared[x]
    BY <1>1, <1>2, <2>1, LedgerMoves
  <2>4. QED
    BY <1>1, <2>1, <2>2, <2>3 DEF FilesGrow
<1>5. CASE ops[x] = "absent"
  <2>1. PICK i \in batch : IngestFile(i)
    BY <1>3, <1>5, OpsMove
  <2>2. x \in progress[i].items /\ ingested' = ingested \cup {i} /\ pc = "ingest"
        /\ UNCHANGED <<declared, ledger, progress, due>>
    BY <1>3, <1>5, <2>1 DEF IngestFile, agentVars, ledgerVars
  <2>3. declared[x] = i /\ ledger[x] # "none"
    BY <2>2 DEF BatchSound, CallPlace
  <2>4. QED
    BY <2>2, <2>3
<1>6. QED
  BY <1>4, <1>5

(* A row that is resolved says what the operation says.                    *)
LEMMA TruthKept ==
    ASSUME SortTypes, CallPlace, LedgerTellsTruth, SortNext
    PROVE  LedgerTellsTruth'
<1> SUFFICES ASSUME NEW x \in Items, ledger'[x] \in FinalStates
             PROVE  ops'[x] = ledger'[x]
  BY DEF LedgerTellsTruth
<1>1. CASE ledger'[x] = ops[x] /\ ops'[x] = ops[x]
  BY <1>1
<1>2. CASE ledger'[x] = ledger[x]
  <2>1. ops[x] = ledger[x] /\ ops[x] \in FinalStates
    BY <1>2 DEF LedgerTellsTruth
  <2>2. CASE \E i \in batch : IngestFile(i)
    BY <1>2, <2>1, <2>2 DEF IngestFile, FinalStates
  <2>3. QED
    BY <1>2, <2>1, <2>2, OpsMove
<1>3. QED
  BY <1>1, <1>2, LedgerMoves

(* The invariant holds at the start of the sort.                           *)
LEMMA SortInvInit == SortInit => SortInv
<1> SUFFICES ASSUME SortInit PROVE SortInv
  OBVIOUS
<1>1. SortTypes
  BY SortConstants DEF SortInit, SortTypes, PrepareCall, NoClaim, NoFile, NoLaunch, Earlier,
     CallStates, Resolved, FinalStates
<1>2. CallPlace
  BY SortConstants DEF SortInit, CallPlace, PrepareCall, Answered
<1>3. BatchSound /\ TaskFollows
  BY DEF SortInit, BatchSound, TaskFollows
<1>4. PlanningFollows
  BY DEF SortInit, PlanningFollows
<1>5. OnlyAuthenticIngested /\ ProvenanceFirst
  BY DEF SortInit, OnlyAuthenticIngested, ProvenanceFirst, Mine
<1>6. LedgerTellsTruth
  BY DEF SortInit, LedgerTellsTruth, FinalStates
<1>7. QED
  BY <1>1, <1>2, <1>3, <1>4, <1>5, <1>6 DEF SortInv, LedgerInv

(* Every step keeps the invariant.                                         *)
LEMMA SortInvNext == SortInv /\ [SortNext]_sortVars => SortInv'
<1>1. CASE SortInv /\ SortNext
  BY <1>1, SortTypesKept, CallPlaceKept, BatchSoundKept, TaskFollowsKept,
     PlanningFollowsKept, AuthenticKept, ProvenanceKept, TruthKept DEF SortInv, LedgerInv
<1>2. CASE SortInv /\ UNCHANGED sortVars
  <2>1. SortTypes' /\ OnlyAuthenticIngested' /\ ProvenanceFirst' /\ LedgerTellsTruth'
    BY <1>2 DEF SortInv, LedgerInv, SortTypes, OnlyAuthenticIngested, ProvenanceFirst, Mine,
       LedgerTellsTruth, sortVars, agentVars, ledgerVars, taskVars, planVars, bounds
  <2>2. CallPlace' /\ BatchSound' /\ TaskFollows' /\ PlanningFollows'
    BY <1>2 DEF SortInv, CallPlace, BatchSound, OfThisLaunch, TaskFollows, Downstream, Mine,
       PlanningFollows, Unresolved, sortVars, agentVars, ledgerVars, taskVars, planVars, bounds
  <2>3. QED
    BY <2>1, <2>2 DEF SortInv, LedgerInv
<1>3. QED
  BY <1>1, <1>2

(* The invariant holds throughout.                                         *)
LEMMA SortInvHolds == SortSpec => []SortInv
  BY SortInvInit, SortInvNext, PTL DEF SortSpec

(* At every point where the process can stop, the ledger tells the truth   *)
(* of the operations it declared, and each of them names the authentic     *)
(* file it came with (runtime.py, _stage_main_sort_promotions and          *)
(* _reconcile_explorer_promotions).                                        *)
THEOREM LedgerAlwaysTrue == SortSpec => []LedgerInv
<1>1. SortInv => LedgerInv
  BY DEF SortInv
<1>2. QED
  BY <1>1, SortInvHolds, PTL

(* However often the run stops in between, planning begins once, on a      *)
(* reply that is ingested whole, and with every operation of the sort      *)
(* decided (runtime.py, _run_franta_sort_barrier).                         *)
THEOREM PlanningFollowsSort == SortSpec => []PlanningSeesSort
<1>1. SortInv => PlanningSeesSort
  BY DEF SortInv, PlanningSeesSort, PlanningFollows, TaskFollows, Downstream, Unresolved
<1>2. QED
  BY <1>1, SortInvHolds, PTL

(* The Franta run opens behind a sort that is over, with nothing left to   *)
(* resolve (runtime.py, _resume_main_after_sort).                          *)
THEOREM RunOpensAfterSort ==
    SortSpec => [](phase = "franta_run" =>
                       planning = 1 /\ task = "closed" /\ Unresolved = {})
<1>1. SortInv => (phase = "franta_run" =>
                      planning = 1 /\ task = "closed" /\ Unresolved = {})
  BY DEF SortInv, PlanningFollows
<1>2. QED
  BY <1>1, SortInvHolds, PTL

(* A resolution in the ledger is final, and so is the operation behind it. *)
ResolutionKept ==
    [][\A x \in Items : ledger[x] \in FinalStates =>
           ledger'[x] = ledger[x] /\ ops'[x] = ops[x]]_sortVars

(* No step takes a resolution back, neither the row of the ledger nor the  *)
(* operation it mirrors (runtime.py, _reconcile_explorer_promotions).      *)
THEOREM ResolutionsStand == SortSpec => ResolutionKept
<1>1. SortInv /\ [SortNext]_sortVars =>
          [\A x \in Items : ledger[x] \in FinalStates =>
               ledger'[x] = ledger[x] /\ ops'[x] = ops[x]]_sortVars
  <2> SUFFICES ASSUME SortInv, SortNext, NEW x \in Items, ledger[x] \in FinalStates
               PROVE  ledger'[x] = ledger[x] /\ ops'[x] = ops[x]
    OBVIOUS
  <2>1. SortTypes /\ CallPlace /\ LedgerTellsTruth /\ LedgerTellsTruth'
    BY SortInvNext DEF SortInv, LedgerInv
  <2>2. ledger'[x] = ledger[x]
    BY <2>1, LedgerMoves
  <2>3. QED
    BY <2>1, <2>2 DEF LedgerTellsTruth
<1>2. QED
  BY <1>1, SortInvHolds, PTL DEF SortSpec, ResolutionKept
=============================================================================
