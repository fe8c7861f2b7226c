--------------------------- MODULE ExplorerTurns ---------------------------
(***************************************************************************)
(* The Explorer half of the alternation: lineages of planned attempts run  *)
(* by a pool of workers, the draining of a turn, and the handoff of what   *)
(* the workers recorded to the sort task of Franta.                        *)
(*                                                                         *)
(*   src/explorer_system/control.py      the reducer of lineages           *)
(*   src/explorer_system/alternation.py  the reducer of phases             *)
(*   src/explorer_system/program.py      the loop that plans and collects  *)
(*   src/franta/scheduler.py             the transactions around both      *)
(*                                                                         *)
(* Phases are closed by attempt budgets, as the alternation runs them;     *)
(* the deadlines they replaced are left out.  Time appears as the freedom  *)
(* of an attempt to expire and of a queued limit to become due.            *)
(*                                                                         *)
(* Two threads besides the workers act: the main one, whose place in the   *)
(* code is `loop', and the poller of operator settings, which may tick     *)
(* whenever nobody holds the lock of the handoff.                          *)
(***************************************************************************)
EXTENDS LogicalCall, FiniteSets

CONSTANTS
    Lineages,       \* lineage ids, fresh in every cycle
    AttemptLimit,   \* planned attempts of a lineage (three in the code)
    MaxWorkers,     \* explorer.max_workers, at most the slots of the project
    RetryLimit,     \* retry_policy.worker
    ExplorerLimits, \* the explorer limits an operator may ask for
    FrantaLimits,   \* and the franta limits that go with them
    FirstExplorerLimit, FirstFrantaLimit,   \* those a project starts with
    MaxEdits,       \* bound: operator edits of the limits
    MaxRestarts,    \* bound: full stops
    MaxCycles,      \* bound: turns
    MaxHost         \* bound: Franta attempts of a cycle

ASSUME ConstantsAssumption ==
    /\ AttemptLimit \in Nat \ {0}
    /\ MaxWorkers \in Nat \ {0}
    /\ RetryLimit \in Nat
    /\ ExplorerLimits \subseteq Nat \ {0} /\ FrantaLimits \subseteq Nat \ {0}
    /\ FirstExplorerLimit \in ExplorerLimits
    /\ FirstFrantaLimit \in FrantaLimits
    /\ {MaxEdits, MaxRestarts, MaxHost} \subseteq Nat
    /\ MaxCycles \in Nat \ {0}

VARIABLES
    ctl,        \* phase_control: phase, cycle, root candidate, sort barrier
    budget,     \* phase_control.attempt_budget: limits and pending edit
    lineages,   \* explorer_control.lineages: status, attempts started, forced
    attempts,   \* their attempts, each with the record of its call
    claimed,    \* explorer_control.root_candidate
    runners,    \* the process-local thread of an attempt
    receipts,   \* attempts whose record has a receipt in the private log
    visible,    \* attempts whose record the repository shows
    sortTasks,  \* the sort tasks, by the turn and the records they sort
    host,       \* Franta's attempts of the cycle, and whether its tail runs
    loop,       \* where the main thread is
    edits, restarts

vars == <<ctl, budget, lineages, attempts, claimed, runners, receipts,
          visible, sortTasks, host, loop, edits, restarts>>

Attempts == Lineages \X (1 .. AttemptLimit)

NoCandidate == <<>>
NoSort == [records |-> {}, status |-> "none"]
Limits == [explorer : ExplorerLimits, franta : FrantaLimits]
FirstLimits == [explorer |-> FirstExplorerLimit, franta |-> FirstFrantaLimit]
NotPending == [explorer |-> 0, franta |-> 0]

ExplorerPhases == {"explorer_admission", "explorer_drain"}
Phases == ExplorerPhases \cup {"franta_sort", "franta_run", "franta_drain"}

TerminalLineageStates == {"stopped", "closed"}
LineageStates == {"ready", "running", "stop_requested",
                  "continuation_pending"} \cup TerminalLineageStates

Places == {"down", "run", "wave", "turn", "handoff", "prepared", "aborting"}

NotAdmitted == [status |-> "none", started |-> 0, forced |-> FALSE]
Planned(a) == [status |-> "running", outcome |-> "none",
               call |-> PrepareCall("explorer", a[1], RetryLimit)]
Unplanned == [status |-> "none", outcome |-> "none", call |-> Absent("none")]
Idle == [pc |-> "idle", lease |-> 0, launch |-> NoLaunch]

(***************************************************************************)
(* Lineages and attempts.                                                  *)
(***************************************************************************)
Call(a) == attempts[a].call
InFlight == {a \in Attempts : runners[a].pc # "idle"}
Blocked == {a[1] : a \in InFlight}

Ended(t) == t.status \in {"ended", "stopped"}

(* The attempt whose call is the current_call_id of its lineage.           *)
Current(a) ==
    /\ a[2] = lineages[a[1]].started
    /\ attempts[a].status \in {"running", "stop_requested"}

Drained == \A l \in Lineages : lineages[l].status \in TerminalLineageStates \cup {"none"}
Reserved == {l \in Lineages : lineages[l].status \notin TerminalLineageStates \cup {"none"}}

AttemptsUsed == Cardinality({a \in Attempts : attempts[a].status # "none"})

(* acknowledge_attempt_end: when it raises nothing, and what it returns.   *)
MayEnd(a, outcome) ==
    IF Ended(attempts[a]) THEN attempts[a].outcome = outcome ELSE Current(a)

(* Mutant of AfterAttempt: one attempt more is expected. *)
AfterAttemptAndOneMore(x, stop) ==
    [x EXCEPT !.status = IF stop THEN "stopped"
                         ELSE IF x.started <= AttemptLimit
                              THEN "continuation_pending" ELSE "closed"]

AfterAttempt(x, stop) ==
    [x EXCEPT !.status = IF stop THEN "stopped"
                         ELSE IF x.started < AttemptLimit
                              THEN "continuation_pending" ELSE "closed"]

EndAttempt(a, outcome, call) ==
    LET stop == lineages[a[1]].forced \/ outcome = "stopped"
        stays == Ended(attempts[a])
    IN  /\ attempts' = [attempts EXCEPT ![a] =
               [status |-> IF stays THEN @.status
                           ELSE IF stop THEN "stopped" ELSE "ended",
                outcome |-> outcome, call |-> call]]
        /\ lineages' = IF stays THEN lineages
                       ELSE [lineages EXCEPT ![a[1]] = AfterAttempt(@, stop)]

(***************************************************************************)
(* Phases.  A drain reason is "root_candidate" exactly when a candidate is *)
(* recorded, so it is not kept apart.                                      *)
(***************************************************************************)
(* What the limits are once the pending edit, when due, is applied.        *)
Due(b) ==
    {b} \cup IF b.pending = NotPending THEN {}
             ELSE {[limits |-> b.pending, pending |-> NotPending]}

(* Mutant of TickPhase: a raised limit reopens whatever closed admission. *)
TickPhaseReopening(c, limits, used) ==
    [c EXCEPT !.phase =
        CASE c.phase = "explorer_admission" /\ used >= limits.explorer -> "explorer_drain"
          [] c.phase = "explorer_drain" /\ used < limits.explorer -> "explorer_admission"
          [] c.phase = "franta_run" /\ host.used >= limits.franta -> "franta_drain"
          [] c.phase = "franta_drain" /\ host.used < limits.franta -> "franta_run"
          [] OTHER -> c.phase]

TickPhase(c, limits, used) ==
    [c EXCEPT !.phase =
        CASE c.phase = "explorer_admission" /\ used >= limits.explorer -> "explorer_drain"
          [] c.phase = "explorer_drain" /\ used < limits.explorer
             /\ c.candidate = NoCandidate -> "explorer_admission"
          [] c.phase = "franta_run" /\ host.used >= limits.franta -> "franta_drain"
          [] c.phase = "franta_drain" /\ host.used < limits.franta -> "franta_run"
          [] OTHER -> c.phase]

(* _tick_alternation_locked with the count of attempts: an edit may have   *)
(* become due.                                                             *)
Ticked(used) ==
    \E b \in Due(budget) : budget' = b /\ ctl' = TickPhase(ctl, b.limits, used)

(* The lock of the handoff is free, and the process is up.                 *)
LockFree == loop \notin {"down", "handoff", "prepared"}

(***************************************************************************)
(* Initial state: the first turn.                                          *)
(***************************************************************************)
Init ==
    /\ ctl = [phase |-> "explorer_admission", cycle |-> 1,
              candidate |-> NoCandidate, sort |-> NoSort]
    /\ budget = [limits |-> FirstLimits, pending |-> NotPending]
    /\ lineages = [l \in Lineages |-> NotAdmitted]
    /\ attempts = [a \in Attempts |-> Unplanned]
    /\ claimed = NoCandidate
    /\ runners = [a \in Attempts |-> Idle]
    /\ receipts = {} /\ visible = {}
    /\ sortTasks = {}
    /\ host = [used |-> 0, running |-> FALSE]
    /\ loop = "run"
    /\ edits = 0 /\ restarts = 0

(***************************************************************************)
(* The poller of operator settings, and the operator.                      *)
(***************************************************************************)
Tick ==
    /\ LockFree
    /\ Ticked(AttemptsUsed)
    /\ UNCHANGED <<lineages, attempts, claimed, runners, receipts, visible,
                   sortTasks, host, loop, edits, restarts>>

(* The latest edit replaces a pending one and restarts its delay.          *)
QueueLimits ==
    /\ LockFree
    /\ edits < MaxEdits
    /\ \E limits \in Limits : budget' = [budget EXCEPT !.pending = limits]
    /\ edits' = edits + 1
    /\ UNCHANGED <<ctl, lineages, attempts, claimed, runners, receipts,
                   visible, sortTasks, host, loop, restarts>>

(***************************************************************************)
(* The wave: one main thread that plans, launches, expires and collects.   *)
(***************************************************************************)
BeginWave ==
    /\ loop = "run"
    /\ ctl.phase \in ExplorerPhases
    /\ loop' = "wave"
    /\ Ticked(AttemptsUsed)
    /\ UNCHANGED <<lineages, attempts, claimed, runners, receipts, visible,
                   sortTasks, host, edits, restarts>>

Capacity == loop = "wave" /\ Cardinality(InFlight) < MaxWorkers

Launchable == {"prepared", "retry_pending", "completed"}

(* Current calls no worker drives: left by a full stop.                    *)
Resumable ==
    {a \in Attempts : /\ Current(a) /\ a[1] \notin Blocked
                      /\ Call(a).status \in Launchable \cup {"needs_attention"}}

Startable ==
    {l \in Lineages : /\ lineages[l].status \in {"ready", "continuation_pending"}
                      /\ l \notin Blocked}

AdmissionOpen(c, limits) ==
    /\ c.phase = "explorer_admission"
    /\ AttemptsUsed < limits.explorer
    /\ Cardinality(Reserved) < MaxWorkers

(* A new lineage is tried only when no other is left to run.  A closed     *)
(* admission raises, and the tick of the transaction is undone with it.    *)
AdmitLineage(l) ==
    /\ Capacity
    /\ Startable = {} /\ Resumable = {}
    /\ lineages[l].status = "none"
    /\ AdmissionOpen(ctl, budget.limits)
    /\ Ticked(AttemptsUsed)
    /\ AdmissionOpen(ctl', budget'.limits)
    /\ lineages' = [lineages EXCEPT ![l].status = "ready"]
    /\ UNCHANGED <<attempts, claimed, runners, receipts, visible, sortTasks,
                   host, loop, edits, restarts>>

(* start_explorer_attempt and the launch that follows in the same pass.    *)
StartAttempt(l) ==
    LET n == lineages[l].started + 1 IN
    /\ Capacity
    /\ ctl.phase \in ExplorerPhases
    /\ l \in Startable
    /\ n <= AttemptLimit
    /\ lineages' = [lineages EXCEPT ![l].status = "running", ![l].started = n]
    /\ attempts' = [attempts EXCEPT ![<<l, n>>] = Planned(<<l, n>>)]
    /\ runners' = [runners EXCEPT ![<<l, n>>].pc = "start"]
    /\ Ticked(AttemptsUsed + 1)
    /\ UNCHANGED <<claimed, receipts, visible, sortTasks, host, loop, edits,
                   restarts>>

(* A call left by a full stop is launched again.                           *)
Resume(a) ==
    /\ Capacity
    /\ a \in Resumable
    /\ Call(a).status \in Launchable
    /\ runners' = [runners EXCEPT ![a].pc = "start"]
    /\ UNCHANGED <<ctl, budget, lineages, attempts, claimed, receipts, visible,
                   sortTasks, host, loop, edits, restarts>>

(* The deadline of an attempt has passed: its call is cancelled, without a *)
(* new epoch, and the lineage goes on.                                     *)
Expire(a) ==
    /\ loop = "wave"
    /\ Current(a)
    /\ attempts[a].status = "running"
    /\ lineages[a[1]].status = "running"
    /\ EndAttempt(a, "timed_out", Cancel(Call(a)))
    /\ UNCHANGED <<ctl, budget, claimed, runners, receipts, visible, sortTasks,
                   host, loop, edits, restarts>>

(* fail_explorer_attempt: when it raises nothing, and what it does.        *)
Containable == {"needs_attention", "retry_pending", "running", "prepared"}

MayFail(a) ==
    IF Ended(attempts[a]) THEN attempts[a].outcome = "failed"
    ELSE Call(a).status \in Containable /\ Current(a)

FailAttempt(a) ==
    IF Ended(attempts[a]) THEN UNCHANGED <<attempts, lineages>>
    ELSE EndAttempt(a, "failed", Cancel(Call(a)))

(* Planning meets a call that exhausted its retries before a full stop.    *)
PlanFailure(a) ==
    /\ Capacity
    /\ a \in Resumable
    /\ Call(a).status = "needs_attention"
    /\ FailAttempt(a)
    /\ UNCHANGED <<ctl, budget, claimed, runners, receipts, visible, sortTasks,
                   host, loop, edits, restarts>>

(***************************************************************************)
(* A worker thread: _run_prepared_call for one attempt.                    *)
(***************************************************************************)
RunnerBegin(a) ==
    /\ runners[a].pc = "start"
    /\ IF CanLaunch(Call(a))
       THEN /\ attempts' = [attempts EXCEPT ![a].call = Launch(@)]
            /\ runners' = [runners EXCEPT ![a] =
                   [pc |-> "agent", lease |-> Call(a).epoch,
                    launch |-> Call(a).attempt + 1]]
       ELSE /\ runners' = [runners EXCEPT ![a].pc =
                   IF Call(a).status = "completed" THEN "done" ELSE "raised"]
            /\ UNCHANGED attempts
    /\ UNCHANGED <<ctl, budget, lineages, claimed, receipts, visible, sortTasks,
                   host, loop, edits, restarts>>

(* _require_current_explorer_write_locked                                  *)
MayWrite(a) ==
    /\ runners[a].pc = "agent"
    /\ Call(a).status = "running"
    /\ Call(a).epoch = runners[a].lease
    /\ Call(a).attempt = runners[a].launch

(* The agent records scratch: staged row, receipt and trust under one lock. *)
Write(a) ==
    /\ MayWrite(a)
    /\ receipts' = receipts \cup {a}
    /\ visible' = visible \cup {a}
    /\ UNCHANGED <<ctl, budget, lineages, attempts, claimed, runners, sortTasks,
                   host, loop, edits, restarts>>

AgentReplies(a) ==
    /\ runners[a].pc = "agent"
    /\ CanReceive(Call(a), runners[a].lease, runners[a].launch)
    /\ attempts' = [attempts EXCEPT ![a].call = ReceiveResult(@, runners[a].launch)]
    /\ runners' = [runners EXCEPT ![a].pc = "done"]
    /\ UNCHANGED <<ctl, budget, lineages, claimed, receipts, visible, sortTasks,
                   host, loop, edits, restarts>>

(* The process of the agent ends badly, or its reply is refused.  The      *)
(* thread then reads the status of its call ...                            *)
AgentFails(a) ==
    /\ runners[a].pc = "agent"
    /\ runners' = [runners EXCEPT ![a].pc =
           IF Call(a).status \in {"cancelled", "superseded"} THEN "raised"
           ELSE "failing"]
    /\ UNCHANGED <<ctl, budget, lineages, attempts, claimed, receipts, visible,
                   sortTasks, host, loop, edits, restarts>>

(* ... and records the failure in a transaction of its own.                *)
RecordFailure(a) ==
    /\ runners[a].pc = "failing"
    /\ CanFail(Call(a), runners[a].lease)
    /\ attempts' = [attempts EXCEPT ![a].call = RecordTransportFailure(@)]
    /\ runners' = [runners EXCEPT ![a].pc =
           IF AfterRetry(Call(a)) = "retry_pending" THEN "start" ELSE "raised"]
    /\ UNCHANGED <<ctl, budget, lineages, claimed, receipts, visible, sortTasks,
                   host, loop, edits, restarts>>

(***************************************************************************)
(* Collecting what the workers return.  An exception of the main thread    *)
(* leaves the wave: the pool waits for its threads, then the run ends.     *)
(***************************************************************************)
Collectable(a) == loop = "wave" /\ runners[a].pc \in {"done", "raised"}

Abort == loop' = "aborting" /\ UNCHANGED <<ctl, lineages, attempts, claimed>>

DropCancelled(a) ==
    /\ Collectable(a)
    /\ Call(a).status = "cancelled"
    /\ runners' = [runners EXCEPT ![a] = Idle]
    /\ UNCHANGED <<ctl, budget, lineages, attempts, claimed, receipts, visible,
                   sortTasks, host, loop, edits, restarts>>

CollectFailure(a) ==
    /\ Collectable(a)
    /\ runners[a].pc = "raised"
    /\ Call(a).status # "cancelled"
    /\ runners' = [runners EXCEPT ![a] = Idle]
    /\ IF MayFail(a)
       THEN FailAttempt(a) /\ UNCHANGED <<ctl, claimed, loop>>
       ELSE Abort
    /\ UNCHANGED <<budget, receipts, visible, sortTasks, host, edits, restarts>>

(* commit_explorer_attempt without a root candidate                        *)
CommitAttempt(a, outcome) ==
    /\ Collectable(a)
    /\ runners[a].pc = "done"
    /\ Call(a).status # "cancelled"
    /\ runners' = [runners EXCEPT ![a] = Idle]
    /\ IF CanCommit(Call(a)) /\ MayEnd(a, outcome)
       THEN /\ EndAttempt(a, outcome, CommitResult(Call(a)))
            /\ UNCHANGED <<ctl, claimed, loop>>
       ELSE Abort
    /\ UNCHANGED <<budget, receipts, visible, sortTasks, host, edits, restarts>>

Cancellable == {"prepared", "running", "retry_pending", "completed",
                "needs_attention"}

(* request_stop_all, and the end of every other attempt that was cancelled *)
Cancelled(a) == {b \in Attempts : Current(b) /\ Call(b).status \in Cancellable /\ b # a}

StopAll(a) ==
    [l \in Lineages |->
        IF l \notin Reserved THEN lineages[l]
        ELSE [lineages[l] EXCEPT !.forced = TRUE,
                  !.status = IF \E b \in Attempts \ (Cancelled(a) \cup {a}) :
                                    b[1] = l /\ Current(b)
                             THEN "stop_requested" ELSE "stopped"]]

StopAttempts(a) ==
    [b \in Attempts |->
        CASE b = a -> [status |-> "stopped", outcome |-> "stopped",
                       call |-> CommitResult(Call(b))]
          [] b \in Cancelled(a) -> [status |-> "stopped", outcome |-> "stopped",
                                    call |-> Cancel(Call(b))]
          [] b # a /\ b \notin Cancelled(a) /\ Current(b) ->
                [attempts[b] EXCEPT !.status = "stop_requested"]
          [] OTHER -> attempts[b]]

(* claim_root_candidate and accept_root_candidate: one candidate of a turn *)
Claimable(a) ==
    /\ Current(a) /\ claimed = NoCandidate
    /\ ctl.phase \in ExplorerPhases /\ ctl.candidate = NoCandidate

AcceptRootCandidate(a) ==
    ctl' = [ctl EXCEPT !.candidate = a, !.phase = "explorer_drain"]

(* commit_explorer_attempt with a root candidate: it names a record of the *)
(* attempt, and everything else of the turn is stopped.                    *)
CommitCandidate(a) ==
    /\ Collectable(a)
    /\ runners[a].pc = "done"
    /\ Call(a).status # "cancelled"
    /\ a \in visible
    /\ runners' = [runners EXCEPT ![a] = Idle]
    /\ IF CanCommit(Call(a)) /\ Claimable(a)
       THEN /\ claimed' = a
            /\ AcceptRootCandidate(a)
            /\ lineages' = StopAll(a)
            /\ attempts' = StopAttempts(a)
            /\ UNCHANGED loop
       ELSE Abort
    /\ UNCHANGED <<budget, receipts, visible, sortTasks, host, edits, restarts>>

Collect(a) ==
    \/ DropCancelled(a)
    \/ CollectFailure(a)
    \/ \E outcome \in {"progress", "timed_out"} : CommitAttempt(a, outcome)
    \/ CommitCandidate(a)

WaveEnds ==
    /\ loop = "wave"
    /\ InFlight = {} /\ Startable = {} /\ Resumable = {}
    /\ AdmissionOpen(ctl, budget.limits) =>
           \A l \in Lineages : lineages[l].status # "none"
    /\ Ticked(AttemptsUsed)
    /\ loop' = "turn"
    /\ UNCHANGED <<lineages, attempts, claimed, runners, receipts, visible,
                   sortTasks, host, edits, restarts>>

AbortEnds ==
    /\ loop = "aborting"
    /\ \A a \in InFlight : runners[a].pc \in {"done", "raised"}
    /\ runners' = [a \in Attempts |-> Idle]
    /\ loop' = "down"
    /\ UNCHANGED <<ctl, budget, lineages, attempts, claimed, receipts, visible,
                   sortTasks, host, edits, restarts>>

(***************************************************************************)
(* The handoff: from the check to the start of the sort the main thread    *)
(* holds the lock of the poller.                                           *)
(***************************************************************************)
CheckTurn ==
    /\ loop = "turn"
    /\ Ticked(AttemptsUsed)
    /\ loop' = IF ctl'.phase = "explorer_drain" /\ Drained THEN "handoff" ELSE "run"
    /\ UNCHANGED <<lineages, attempts, claimed, runners, receipts, visible,
                   sortTasks, host, edits, restarts>>

(* The task that sorts these records of this turn.                         *)
IsOwner(t) == t.cycle = ctl.cycle /\ t.records = visible

PrepareSortTask ==
    /\ loop = "handoff"
    /\ ctl.phase = "explorer_drain"
    /\ sortTasks' = IF \E t \in sortTasks : IsOwner(t) THEN sortTasks
                    ELSE sortTasks \cup {[cycle |-> ctl.cycle, records |-> visible,
                                          state |-> "launching"]}
    /\ loop' = "prepared"
    /\ UNCHANGED <<ctl, budget, lineages, attempts, claimed, runners, receipts,
                   visible, host, edits, restarts>>

BeginSort ==
    /\ loop = "prepared"
    /\ ctl.phase = "explorer_drain" /\ Drained
    /\ ctl' = [ctl EXCEPT !.phase = "franta_sort",
                          !.sort = [records |-> visible, status |-> "running"]]
    /\ sortTasks' = {IF IsOwner(t) THEN [t EXCEPT !.state = "running"] ELSE t :
                     t \in sortTasks}
    /\ loop' = "run"
    /\ UNCHANGED <<budget, lineages, attempts, claimed, runners, receipts,
                   visible, host, edits, restarts>>

(***************************************************************************)
(* Franta's half of a cycle, as far as the alternation sees it.            *)
(***************************************************************************)
(* The sort call is committed and its task closed.                         *)
CloseSort ==
    /\ loop = "run" /\ ctl.phase = "franta_sort"
    /\ \E t \in sortTasks : IsOwner(t) /\ t.state = "running"
    /\ sortTasks' = {IF IsOwner(t) THEN [t EXCEPT !.state = "closed"] ELSE t :
                     t \in sortTasks}
    /\ UNCHANGED <<ctl, budget, lineages, attempts, claimed, runners, receipts,
                   visible, host, loop, edits, restarts>>

OpenRun ==
    /\ loop = "run" /\ ctl.phase = "franta_sort"
    /\ ctl.sort.status = "running"
    /\ \E t \in sortTasks : IsOwner(t) /\ t.state = "closed"
    /\ ctl' = [ctl EXCEPT !.phase = "franta_run", !.sort.status = "complete"]
    /\ UNCHANGED <<budget, lineages, attempts, claimed, runners, receipts,
                   visible, sortTasks, host, loop, edits, restarts>>

(* A Franta attempt: admitted in franta_run, or of a task that was.        *)
HostAttempt ==
    /\ loop = "run"
    /\ host.used < MaxHost
    /\ ctl.phase = "franta_run" \/ (ctl.phase = "franta_drain" /\ host.running)
    /\ host' = [used |-> host.used + 1, running |-> TRUE]
    /\ UNCHANGED <<ctl, budget, lineages, attempts, claimed, runners, receipts,
                   visible, sortTasks, loop, edits, restarts>>

HostTailEnds ==
    /\ loop = "run" /\ host.running
    /\ host' = [host EXCEPT !.running = FALSE]
    /\ UNCHANGED <<ctl, budget, lineages, attempts, claimed, runners, receipts,
                   visible, sortTasks, loop, edits, restarts>>

(* The check, under the lock, and the next cycle with a new Explorer.      *)
FinishHostDrain ==
    /\ loop = "run"
    /\ ctl.cycle < MaxCycles
    /\ ~host.running
    /\ \E b \in Due(budget) :
           /\ TickPhase(ctl, b.limits, AttemptsUsed).phase = "franta_drain"
           /\ budget' = b
    /\ ctl' = [phase |-> "explorer_admission", cycle |-> ctl.cycle + 1,
               candidate |-> NoCandidate, sort |-> NoSort]
    /\ lineages' = [l \in Lineages |-> NotAdmitted]
    /\ attempts' = [a \in Attempts |-> Unplanned]
    /\ claimed' = NoCandidate
    /\ receipts' = {} /\ visible' = {}
    /\ host' = [used |-> 0, running |-> FALSE]
    /\ UNCHANGED <<runners, sortTasks, loop, edits, restarts>>

(***************************************************************************)
(* Full stops, which may cut a write between its receipt and its trust.    *)
(***************************************************************************)
Stop ==
    /\ loop # "down"
    /\ restarts < MaxRestarts
    /\ restarts' = restarts + 1
    /\ \E cut \in {{}} \cup {{a} : a \in {b \in Attempts : MayWrite(b)}} :
           receipts' = receipts \cup cut
    /\ runners' = [a \in Attempts |-> Idle]
    /\ loop' = "down"
    /\ UNCHANGED <<ctl, budget, lineages, attempts, claimed, visible, sortTasks,
                   host, edits>>

(* Mutant of Recover: what the log holds is not replayed. *)
RecoverWithoutReplay ==
    /\ attempts' = [a \in Attempts |->
           [attempts[a] EXCEPT !.call = ReconcileAfterStop(@)]]
    /\ UNCHANGED visible

Recover ==
    /\ attempts' = [a \in Attempts |->
           [attempts[a] EXCEPT !.call = ReconcileAfterStop(@)]]
    /\ visible' = receipts

Restart ==
    /\ loop = "down"
    /\ loop' = "run"
    /\ Recover
    /\ UNCHANGED <<ctl, budget, lineages, claimed, runners, receipts, sortTasks,
                   host, edits, restarts>>

WorkerStep(a) ==
    \/ RunnerBegin(a) \/ AgentReplies(a) \/ AgentFails(a) \/ RecordFailure(a)

MainStep ==
    \/ BeginWave \/ WaveEnds \/ AbortEnds
    \/ CheckTurn \/ PrepareSortTask \/ BeginSort
    \/ \E l \in Lineages : AdmitLineage(l) \/ StartAttempt(l)
    \/ \E a \in Attempts : Resume(a) \/ PlanFailure(a) \/ Collect(a)

HostStep ==
    CloseSort \/ OpenRun \/ HostAttempt \/ HostTailEnds \/ FinishHostDrain

Next ==
    \/ Tick \/ QueueLimits
    \/ MainStep
    \/ \E a \in Attempts : Expire(a) \/ Write(a) \/ WorkerStep(a)
    \/ HostStep
    \/ Stop \/ Restart

Spec == Init /\ [][Next]_vars

-----------------------------------------------------------------------------
CallRecords ==
    [kind : {"explorer", "none"}, owner : Lineages \cup {"none"},
     status : CallStates \cup {"absent"}, epoch : Nat \ {0},
     fenced : SUBSET Nat, attempt : Nat, retries : Nat, limit : Nat,
     result : Nat]

LineageRecords ==
    [status : LineageStates \cup {"none"}, started : 0 .. AttemptLimit,
     forced : BOOLEAN]

AttemptRecords ==
    [status : {"none", "running", "stop_requested", "ended", "stopped"},
     outcome : {"none", "progress", "failed", "timed_out", "stopped"},
     call : CallRecords]

RunnerRecords ==
    [pc : {"idle", "start", "agent", "failing", "done", "raised"},
     lease : Nat, launch : Nat]

Controls ==
    [phase : Phases, cycle : Nat \ {0},
     candidate : Attempts \cup {NoCandidate},
     sort : [records : SUBSET Attempts, status : {"none", "running", "complete"}]]

(* Every persisted table and every thread has a value the code can give it. *)
TypeOK ==
    /\ ctl \in Controls
    /\ budget \in [limits : Limits, pending : Limits \cup {NotPending}]
    /\ lineages \in [Lineages -> LineageRecords]
    /\ attempts \in [Attempts -> AttemptRecords]
    /\ claimed \in Attempts \cup {NoCandidate}
    /\ runners \in [Attempts -> RunnerRecords]
    /\ receipts \in SUBSET Attempts /\ visible \in SUBSET Attempts
    /\ sortTasks \subseteq [cycle : Nat \ {0}, records : SUBSET Attempts,
                            state : {"launching", "running", "closed"}]
    /\ host \in [used : Nat, running : BOOLEAN]
    /\ loop \in Places
    /\ edits \in Nat /\ restarts \in Nat

(* explorer_is_drained and the pool: Franta's half of a cycle begins only  *)
(* after the last lineage has ended and the last worker has returned.      *)
DrainedBeforeSort ==
    ctl.phase \notin ExplorerPhases => Drained /\ InFlight = {}

(* accept_explorer_handoff: the sort gets every record that has a receipt, *)
(* also one whose write was cut off by a full stop, and nothing is added   *)
(* to the turn afterwards.                                                 *)
SortSeesEverything ==
    ctl.phase \notin ExplorerPhases =>
        /\ ctl.sort.records = receipts
        /\ \E t \in sortTasks : t.cycle = ctl.cycle /\ t.records = receipts

(* The sort works on a whole turn: nobody adds to it any more, and it has  *)
(* every record of it.                                                     *)
SortIsWhole == DrainedBeforeSort /\ SortSeesEverything

(* program.py, blocked_lineage_ids: the attempts of a lineage resume one   *)
(* agent session, so two of them never have a worker at once, even when    *)
(* the first expired and its worker has not returned.                      *)
OneWorkerPerLineage ==
    \A a, b \in InFlight : a[1] = b[1] => a = b

(* A root candidate, once claimed, is the candidate of the phase, closes   *)
(* admission for good and leaves no lineage that could run on.             *)
CandidateStops ==
    claimed # NoCandidate =>
        /\ ctl.candidate = claimed
        /\ ctl.phase # "explorer_admission"
        /\ Drained

(* IMPLEMENTATION.md: an admitted lineage keeps its allowance of attempts  *)
(* through a drain, an expiry, a failure or a stop; only a root candidate  *)
(* takes it away.                                                          *)
FullAllowance ==
    \A l \in Lineages :
        /\ lineages[l].status = "closed" => lineages[l].started = AttemptLimit
        /\ lineages[l].status = "stopped" => claimed # NoCandidate

(***************************************************************************)
(* What the documentation states and the code does not keep.               *)
(***************************************************************************)
(* USAGE.md: a raised limit can reopen the phase until handoff to the next *)
(* stage has begun.                                                        *)
HandoffIsFinal ==
    (\E t \in sortTasks : t.cycle = ctl.cycle) => ctl.phase # "explorer_admission"

(* program.py, run_wave: worker failures consume only their own attempt    *)
(* and never abort peer workers.                                           *)
PeersSurvive == loop # "aborting"

(***************************************************************************)
(* Liveness: the main thread keeps its loop, and every agent ends, by a    *)
(* reply or by the time limit of its process.                              *)
(***************************************************************************)
FairSpec ==
    /\ Spec
    /\ WF_vars(MainStep)
    /\ \A a \in Attempts : WF_vars(WorkerStep(a))

(* An open turn is handed over to the sort, unless the process goes down.  *)
TurnReachesSort ==
    (ctl.phase = "explorer_admission" /\ loop # "down") ~>
        (ctl.phase = "franta_sort" \/ loop = "down")
=============================================================================
