--------------------------- MODULE SearchControl ---------------------------
(***************************************************************************)
(* The assignment gate: trimming, human guidance, discovery sprints and    *)
(* the resolution of the root problem.                                     *)
(*                                                                         *)
(*   src/franta/scheduler.py            the gate and what moves it         *)
(*   src/franta/runtime.py              the loop that drives it            *)
(*   src/franta/trim_category/          the trim record, the categories    *)
(*   src/franta/exploration_control/    the sprint record                  *)
(*                                                                         *)
(* One thread drives everything.  A control call (Main or Trimmer) blocks  *)
(* the loop from its launch to the commit of its result, and a call that a *)
(* stop left behind is finished before anything new is planned.  A result  *)
(* is applied in several transactions; a stop may fall between any two.    *)
(*                                                                         *)
(* A reply carries what the handlers look at: the decision, the portfolio  *)
(* revision it expects, whether it confirms through the cutoff of the      *)
(* trim, and which launch wrote it.  The categories are a store of their   *)
(* own: an operation log keyed by the call, and a portfolio revision.      *)
(*                                                                         *)
(* Alternation with the Explorer is off; its handoff is ExplorerTurns.     *)
(***************************************************************************)
EXTENDS LogicalCall, TrimControl, SprintState, FiniteSets

CONSTANTS
    Sprints,           \* sprint ids the Trimmer may choose
    Lanes,             \* the lanes of a sprint, one for every worker slot
    Tasks,             \* ordinary tasks Main may assign
    Writer,            \* the proof-writer task
    Proofs, Disproofs, \* Facts that resolve the root
    Nothing,           \* no sprint, no Fact, no control call
    RetryLimit,        \* retry_policy of control calls and summaries
    RoundsPerSession,  \* limits.trimmer_rounds_per_session
    MaxCalls,          \* bound: control calls prepared
    MaxReviews,        \* bound: stuck reports
    MaxStops,          \* bound: times the process is killed
    MaxOperator,       \* bound: decisions of the operator
    MaxFacts           \* bound: Facts that resolve the root

Facts == Proofs \cup Disproofs
Jobs == Tasks \cup {Writer}

ASSUME ConstantsAssumption ==
    /\ Proofs \cap Disproofs = {}
    /\ Writer \notin Tasks
    /\ Nothing \notin Sprints \cup Facts
    /\ RoundsPerSession \in Nat \ {0}
    /\ {RetryLimit, MaxCalls, MaxReviews, MaxStops, MaxOperator,
        MaxFacts} \subseteq Nat

VARIABLES
    host,      \* the process: down, recovering, or up
    gate,
    trim,      \* the trim record
    catalog,   \* portfolio revision of the category store
    asked,     \* a guidance request is active
    sprint,    \* the sprint records
    active,    \* active_sprint_id
    lane,      \* the lanes of the active sprint
    summary,   \* its summarizer call
    task,      \* the other tasks
    root,      \* solution, conflicts, terminal decision, proof writer
    standing,  \* the place of each active root Fact in commit order, else 0
    revoked,   \* the root Facts that were revoked
    call,      \* the control call
    reply,     \* its result
    stored,    \* what was stored under its id: a category operation, a batch
    fresh,     \* the call has met no restart
    passed,    \* this process applied the result
    applied,   \* some process applied it
    due,       \* closed tasks and lanes whose tail is open, and "project"
    halt,
    calls, reviews, stops, operator

trimVars == <<trim, catalog, asked>>
sprintVars == <<sprint, active, lane, summary>>
rootVars == <<root, standing, revoked>>
resultVars == <<reply, stored, fresh, passed, applied>>
callVars == <<call, resultVars, halt>>
bounds == <<calls, reviews, stops, operator>>
vars == <<host, gate, trimVars, sprintVars, task, rootVars, callVars, due, bounds>>

NoReply == [decision |-> "none", expected |-> 0, confirmed |-> FALSE,
            launch |-> 0, sprint |-> Nothing]

(* What a call has stored under its own id, and the reply that said so.    *)
NothingStored == [verdict |-> "none", of |-> NoReply]

NoCall == Absent(Nothing)

(* A task or lane that is launching or running has a worker slot.  A lane  *)
(* whose closing waits for the operator, or goes on after the answer, has  *)
(* none.                                                                   *)
Placed == {"launching", "running"}
Open == Placed \cup {"needs_attention", "answered"}

(***************************************************************************)
(* The loop.                                                               *)
(***************************************************************************)
(* A control call that the loop finishes before it plans anything.         *)
Busy == call.status \in Live

(* Between two steps of the loop: _recover_control_calls and               *)
(* _commit_completed_calls have nothing left.                              *)
Idle == host = "up" /\ ~Busy /\ due = {} /\ summary.status \notin {"running", "completed"}

OpenJobs == {t \in Jobs : task[t] \in Open}

OpenLanes == {l \in Lanes : lane[l] \in Open}

(* _waiting_sprint_predecessor_task_ids: while the sprint waits nothing is *)
(* accepted, so its predecessors are all tasks that are still open.        *)
Predecessors == OpenJobs

FreeSlots ==
    Cardinality(Lanes) - Cardinality(OpenJobs)
        - Cardinality({l \in Lanes : lane[l] \in Placed})

ActiveIs(statuses) == active # Nothing /\ sprint[active].status \in statuses

(* _ordinary_worker_launches, where the loop reaches it                    *)
Launchable == active = Nothing /\ \E t \in Jobs : task[t] = "launching"

(* Nothing of a control call and its result is read after its commit.      *)
CommittedCall == [NoCall EXCEPT !.owner = call.owner, !.status = "committed"]

Forget ==
    /\ reply' = NoReply
    /\ stored' = NothingStored
    /\ passed' = FALSE
    /\ applied' = FALSE

Prepare(kind, phase) ==
    /\ calls < MaxCalls
    /\ calls' = calls + 1
    /\ call' = PrepareCall(kind, phase, RetryLimit)
    /\ Forget
    /\ fresh' = TRUE
    /\ UNCHANGED <<host, gate, trimVars, sprintVars, task, rootVars, halt, due,
                   reviews, stops, operator>>

(* _main_should_run, and the branches of the loop before it                *)
PrepareMain ==
    /\ Idle
    /\ ~halt
    /\ \/ gate = "open" /\ FreeSlots > 0 /\ ~Launchable
          /\ Prepare("main", "planning")
       \/ gate = "resolution_pending" /\ ~root.done
          /\ Prepare("main", "terminal")

(* submit_stuck_report: no caller in the runtime, the Scheduler offers it  *)
StuckReport ==
    /\ Idle
    /\ reviews < MaxReviews
    /\ CanReceiveStuck(gate)
    /\ trim' = ReceiveStuck(trim)
    /\ gate' = "reviewing_trim"
    /\ reviews' = reviews + 1
    /\ UNCHANGED <<host, catalog, asked, sprintVars, task, rootVars, callVars,
                   due, calls, stops, operator>>

(* start_trim_review_round *)
StartReviewRound ==
    /\ Idle
    /\ CanStartRound(trim, gate)
    /\ trim.review = "asked"
    /\ trim' = StartRound(trim, RoundsPerSession)
    /\ UNCHANGED <<host, gate, catalog, asked, sprintVars, task, rootVars,
                   callVars, due, bounds>>

(* _run_trim_review *)
PrepareReview ==
    /\ Idle
    /\ gate = "reviewing_trim"
    /\ trim.review = "bound"
    /\ Prepare("trimmer", "review")

(* _run_trim, from the loop or from the continuation of a sprint *)
PrepareTrim ==
    /\ Idle
    /\ gate = "trimming"
    /\ trim.phase # "none"
    /\ active # Nothing =>
          ActiveIs({"trimmer_continuation"}) /\ sprint[active].integration = 0
    /\ Prepare("trimmer", trim.phase)

(***************************************************************************)
(* The control call.                                                       *)
(***************************************************************************)
(* mark_call_running *)
LaunchControl ==
    /\ host = "up"
    /\ due = {}
    /\ CanLaunch(call)
    /\ call' = Launch(call)
    /\ UNCHANGED <<host, gate, trimVars, sprintVars, task, rootVars, resultVars,
                   halt, due, bounds>>

Decisions(phase) ==
    CASE phase = "planning" -> {"assignments", "wait"}
      [] phase = "terminal" -> {"decline", "writer"}
      [] phase = "review"   -> {"no_trim", "trim"}
      [] phase = "maintain" -> {"unchanged", "maintenance", "portfolio",
                                "guidance", "sprint", "no_sprint"}
      [] phase = "select"   -> {"portfolio", "guidance", "sprint", "no_sprint"}

(* What a reply may say beside its decision.  The launch tells the replies *)
(* apart that are stored under the id of their call.                       *)
Replies(decision, launch) ==
    [decision : {decision},
     expected : IF decision = "portfolio" THEN {catalog, trim.revision} ELSE {0},
     confirmed : IF decision = "portfolio" THEN BOOLEAN ELSE {FALSE},
     launch : IF decision \in {"maintenance", "portfolio", "assignments"}
              THEN {launch} ELSE {0},
     sprint : IF decision \in {"sprint", "no_sprint"}
              THEN {s \in Sprints : sprint[s].status = "absent"} ELSE {Nothing}]

(* accept_call_result.  The agent may repeat what an earlier launch said.  *)
ReplyControl ==
    /\ host = "up"
    /\ call.status = "running"
    /\ call' = ReceiveResult(call, call.attempt)
    /\ \/ \E d \in Decisions(call.owner) : reply' \in Replies(d, call.attempt)
       \/ stored # NothingStored /\ reply' = stored.of
    /\ passed' = FALSE
    /\ applied' = FALSE
    /\ UNCHANGED <<host, gate, trimVars, sprintVars, task, rootVars, stored,
                   fresh, halt, due, bounds>>

(* The process ends; what it meant to do next is lost with it.             *)
Down == host' = "down" /\ due' = due \ {"project"}

Exhausted(k) == k.status = "needs_attention"

(* record_transport_failure: an exhausted control call halts the project   *)
FailControl ==
    /\ host = "up"
    /\ call.status = "running"
    /\ call' = RecordTransportFailure(call)
    /\ halt' = (halt \/ Exhausted(call'))
    /\ IF Exhausted(call') THEN Down ELSE UNCHANGED <<host, due>>
    /\ UNCHANGED <<gate, trimVars, sprintVars, task, rootVars, resultVars, bounds>>

(***************************************************************************)
(* The result of a trimmer call: _commit_trimmer_result.                   *)
(***************************************************************************)
Deciding(decisions) ==
    host = "up" /\ due = {} /\ call.status = "completed" /\ ~passed
    /\ reply.decision \in decisions

(* The handler returned; the call itself is committed by Mark.             *)
Pass == passed' = TRUE /\ applied' = TRUE

StaysCompleted == UNCHANGED <<host, call, reply, fresh, halt, due, bounds>>

(* _apply_portfolio: a portfolio names the revision that it replaces.      *)
AppliesTo(revision) == reply.decision = "portfolio" => reply.expected = revision

(* apply_trim_proposal: the operation is keyed by the call and final, also *)
(* when it is rejected; the gate is not looked at.                         *)
CategoryStep ==
    /\ Deciding({"maintenance", "portfolio"})
    /\ stored = NothingStored
    /\ \E verdict \in {"committed", "rejected"} :
          /\ verdict = "committed" => AppliesTo(catalog)
          /\ stored' = [verdict |-> verdict, of |-> reply]
          /\ catalog' = IF verdict = "committed" /\ reply.decision = "portfolio"
                        THEN catalog + 1 ELSE catalog
    /\ UNCHANGED <<gate, trim, asked, sprintVars, task, rootVars, passed, applied>>
    /\ StaysCompleted

(* The same call id with another reply: IdempotencyConflict of the         *)
(* category store, which no caller handles.                                *)
CategoryConflict ==
    /\ Deciding({"maintenance", "portfolio"})
    /\ stored # NothingStored
    /\ stored.of # reply
    /\ Down
    /\ UNCHANGED <<gate, trimVars, sprintVars, task, rootVars, callVars, bounds>>

Stored(verdict) == stored = [verdict |-> verdict, of |-> reply]

(* Mutant of CategoriesDone: a rejected operation counts as done. *)
CategoriesAnswered == reply.decision = "unchanged" \/ stored.of = reply

CategoriesDone == reply.decision = "unchanged" \/ Stored("committed")

(* _advance_trim_to_select.  No round can start while the call is live, so *)
(* the trim has the session of the call.                                   *)
AdvancePhase ==
    /\ Deciding({"unchanged", "maintenance", "portfolio"})
    /\ CategoriesDone
    /\ call.owner = "maintain"
    /\ CanSelect(trim, gate)
    /\ trim' = Select(trim)
    /\ UNCHANGED <<gate, catalog, asked, sprintVars, task, rootVars, stored,
                   passed, applied>>
    /\ StaysCompleted

FinishMaintenance ==
    /\ Deciding({"unchanged", "maintenance"})
    /\ CategoriesDone
    /\ trim.phase = "select"
    /\ Pass
    /\ UNCHANGED <<gate, trimVars, sprintVars, task, rootVars, stored>>
    /\ StaysCompleted

CanCommitTrim == CanCommitPortfolio(trim, gate, reply.expected, reply.confirmed)

(* commit_trim: the trim, the sprint that waits for it, the gate and the   *)
(* call in one transaction                                                 *)
CommitTrim ==
    /\ Deciding({"portfolio"})
    /\ CategoriesDone
    /\ CanCommitTrim
    /\ trim' = CommitPortfolio(trim)
    /\ gate' = "open"
    /\ sprint' = IF active # Nothing /\ Integrates(sprint[active])
                 THEN [sprint EXCEPT ![active] = Integrate(@, trim'.revision)]
                 ELSE sprint
    /\ call' = CommittedCall
    /\ Forget
    /\ UNCHANGED <<host, catalog, asked, active, lane, summary, task, rootVars,
                   fresh, halt, due, bounds>>

(* apply_trim_review_decision *)
ApplyReview ==
    /\ Deciding({"no_trim", "trim"})
    /\ CanDecide(trim, gate)
    /\ trim' = Decide(StartRound(trim, RoundsPerSession), reply.decision)
    /\ gate' = GateDecided(reply.decision)
    /\ Pass
    /\ UNCHANGED <<catalog, asked, sprintVars, task, rootVars, stored>>
    /\ StaysCompleted

(* request_human_guidance *)
RequestGuidance ==
    /\ Deciding({"guidance"})
    /\ gate = "trimming"
    /\ asked' = TRUE
    /\ gate' = "waiting_for_human"
    /\ Pass
    /\ UNCHANGED <<trim, catalog, sprintVars, task, rootVars, stored>>
    /\ StaysCompleted

(* persist_sprint_plan *)
PersistPlan ==
    /\ Deciding({"sprint", "no_sprint"})
    /\ CanPersist(sprint[reply.sprint], gate, active # Nothing)
    /\ sprint' = [sprint EXCEPT ![reply.sprint] = Persist(@, reply.decision)]
    /\ IF sprint[reply.sprint].status = "absent" /\ reply.decision = "sprint"
       THEN /\ active' = reply.sprint
            /\ lane' = [l \in Lanes |-> "none"]
            /\ summary' = NoCall
       ELSE UNCHANGED <<active, lane, summary>>
    /\ Pass
    /\ UNCHANGED <<gate, trimVars, task, rootVars, stored>>
    /\ StaysCompleted

(***************************************************************************)
(* The result of a main call: _commit_main_result.                         *)
(***************************************************************************)
Assignable(t) == task[t] \notin Open /\ t \notin due

(* submit_batch, whose batch id is reserved for the call                   *)
Assign ==
    /\ Deciding({"assignments"})
    /\ \/ /\ stored = NothingStored
          /\ gate = "open"
          /\ FreeSlots > 0
          /\ \E t \in Tasks :
                /\ Assignable(t)
                /\ task' = [task EXCEPT ![t] = "launching"]
          /\ stored' = [verdict |-> "committed", of |-> reply]
       \/ Stored("committed") /\ UNCHANGED <<task, stored>>
    /\ Pass
    /\ UNCHANGED <<gate, trimVars, sprintVars, rootVars>>
    /\ StaysCompleted

WaitForResults ==
    /\ Deciding({"wait"})
    /\ OpenJobs # {}
    /\ Pass
    /\ UNCHANGED <<gate, trimVars, sprintVars, task, rootVars, stored>>
    /\ StaysCompleted

(* record_terminal_main_decision: the decision, and after it the question  *)
(* whether the project is complete.  A replay finds the decision made and  *)
(* does not ask again.                                                     *)
Conclude ==
    /\ Pass
    /\ root' = [root EXCEPT !.done = TRUE]
    /\ due' = IF root.done THEN due ELSE due \cup {"project"}
    /\ UNCHANGED <<host, gate, trimVars, sprintVars, task, standing, revoked,
                   call, reply, stored, fresh, halt, bounds>>

Decline ==
    /\ Deciding({"decline"})
    /\ gate = "resolution_pending"
    /\ Conclude

AssignWriter ==
    /\ Deciding({"writer"})
    /\ ~root.writer
    /\ gate = "resolution_pending"
    /\ ~root.done
    /\ FreeSlots > 0
    /\ Assignable(Writer)
    /\ task' = [task EXCEPT ![Writer] = "launching"]
    /\ root' = [root EXCEPT !.writer = TRUE]
    /\ UNCHANGED <<gate, trimVars, sprintVars, standing, revoked, stored, passed,
                   applied>>
    /\ StaysCompleted

ConcludeWithWriter ==
    /\ Deciding({"writer"})
    /\ root.writer
    /\ root.done \/ gate = "resolution_pending"
    /\ Conclude

(* mark_call_committed.  Nobody reads the result again. *)
Mark ==
    /\ host = "up"
    /\ due = {}
    /\ call.status = "completed"
    /\ passed
    /\ call' = CommittedCall
    /\ Forget
    /\ UNCHANGED <<host, gate, trimVars, sprintVars, task, rootVars, fresh, halt,
                   due, bounds>>

(***************************************************************************)
(* A result that its handler refuses.                                      *)
(***************************************************************************)
Refused ==
    \/ Deciding({"no_trim", "trim"}) /\ ~CanDecide(trim, gate)
    \/ Deciding({"guidance"}) /\ gate # "trimming"
    \/ Deciding({"sprint", "no_sprint"})
       /\ ~CanPersist(sprint[reply.sprint], gate, active # Nothing)
    \/ Deciding({"maintenance", "portfolio"}) /\ Stored("rejected")
    \/ /\ Deciding({"unchanged", "maintenance", "portfolio"})
       /\ CategoriesDone
       /\ \/ trim.phase = "none"
          \/ trim.phase = "select" /\ reply.decision = "portfolio" /\ ~CanCommitTrim
    \/ Deciding({"assignments"}) /\ stored = NothingStored
       /\ (gate # "open" \/ FreeSlots = 0)
    \/ Deciding({"wait"}) /\ OpenJobs = {}
    \/ Deciding({"decline"}) /\ gate # "resolution_pending"
    \/ Deciding({"writer"}) /\ ~root.done /\ gate # "resolution_pending"
    \/ Deciding({"writer"}) /\ ~root.writer /\ (root.done \/ FreeSlots = 0)

(* In the process that prepared the call the error ends the run; after a   *)
(* restart _recover_control_calls rejects the result and asks again.       *)
Refuse ==
    /\ Refused
    /\ IF fresh
       THEN Down /\ UNCHANGED <<call, halt, applied>>
       ELSE /\ call' = RejectInvalidResult(call)
            /\ applied' = FALSE
            /\ halt' = (halt \/ Exhausted(call'))
            /\ IF Exhausted(call') THEN Down ELSE UNCHANGED <<host, due>>
    /\ UNCHANGED <<gate, trimVars, sprintVars, task, rootVars, reply, stored,
                   fresh, passed, bounds>>

(***************************************************************************)
(* The process stops and starts.                                           *)
(***************************************************************************)
Stop ==
    /\ host # "down"
    /\ stops < MaxStops
    /\ stops' = stops + 1
    /\ Down
    /\ UNCHANGED <<gate, trimVars, sprintVars, task, rootVars, callVars, calls,
                   reviews, operator>>

(* Nothing moves until the operator answers a lane.                        *)
Stalled ==
    OpenLanes # {} /\ \A l \in OpenLanes : lane[l] = "needs_attention"

(* run ends where somebody else has to act, whatever lanes are open.       *)
Rest ==
    /\ Idle
    /\ \/ gate \in {"waiting_for_human", "completed"}
       \/ ActiveIs({"needs_attention"})
       \/ halt \/ Stalled
    /\ Down
    /\ UNCHANGED <<gate, trimVars, sprintVars, task, rootVars, callVars, bounds>>

(* reconcile_after_full_stop.  A summarizer that the stop exhausts leaves  *)
(* its sprint awaiting a summary.                                          *)
Resume ==
    /\ host = "down"
    /\ host' = "recovering"
    /\ call' = ReconcileAfterStop(call)
    /\ summary' = ReconcileAfterStop(summary)
    /\ fresh' = FALSE
    /\ passed' = FALSE
    /\ halt' = (halt \/ Exhausted(call'))
    /\ UNCHANGED <<gate, trimVars, sprint, active, lane, task, rootVars, reply,
                   stored, applied, due, bounds>>

(* The tails that reconcile_pending_ingestion finishes are done.           *)
Enter ==
    /\ host = "recovering"
    /\ due = {}
    /\ ~(ActiveIs({"trimmer_continuation"}) /\ CanComplete(sprint[active]))
    /\ host' = "up"
    /\ UNCHANGED <<gate, trimVars, sprintVars, task, rootVars, callVars, due, bounds>>

(***************************************************************************)
(* Tasks, lanes and the sprint.                                            *)
(***************************************************************************)
OthersIdle ==
    UNCHANGED <<host, trimVars, rootVars, callVars, bounds>>

(* _run_worker_batch for ordinary tasks: with no active sprint, or the     *)
(* predecessors of one that waits                                          *)
LaunchTask(t) ==
    /\ Idle
    /\ task[t] = "launching"
    /\ active = Nothing \/ ActiveIs({"waiting_for_slots"})
    /\ task' = [task EXCEPT ![t] = "running"]
    /\ UNCHANGED <<gate, sprintVars, due>>
    /\ OthersIdle

(* _maybe_close_task; the effects of the close follow in CloseTail              *)
CloseTask(t) ==
    /\ Idle
    /\ task[t] = "running"
    /\ task' = [task EXCEPT ![t] = "closed"]
    /\ due' = due \cup {t}
    /\ UNCHANGED <<gate, sprintVars>>
    /\ OthersIdle

AllClosed == OpenJobs = {} /\ OpenLanes = {}

(* _maybe_complete_project *)
Completable ==
    /\ gate = "resolution_pending"
    /\ root.done
    /\ root.conflicts = {}
    /\ AllClosed

(* Mutant of CloseTail: open tasks do not keep the project open. *)
CloseTailEarly(j) ==
    /\ host # "down"
    /\ j \in due
    /\ due' = due \ {j}
    /\ gate' = IF gate = "resolution_pending" /\ root.done /\ root.conflicts = {}
               THEN "completed" ELSE gate
    /\ UNCHANGED <<sprintVars, task>>
    /\ OthersIdle

BarrierDue == active # Nothing /\ CanAdvance(sprint[active], lane)

(* _apply_task_close_tail, and the check after a decision or a revocation  *)
CloseTail(j) ==
    /\ host # "down"
    /\ j \in due
    /\ j \in Lanes => ~BarrierDue
    /\ due' = due \ {j}
    /\ gate' = IF Completable THEN "completed" ELSE gate
    /\ UNCHANGED <<sprintVars, task>>
    /\ OthersIdle

(* advance_sprint, from the tail of a lane or from the loop.  The sprint   *)
(* is over before the other lanes' tails when it is the last lane's turn.  *)
AdvanceSprint ==
    /\ host = "recovering" \/ (host = "up" /\ ~Busy)
    /\ BarrierDue
    /\ sprint' = [sprint EXCEPT ![active] = Advance(@, gate)]
    /\ active' = IF Drains(sprint[active], gate) THEN Nothing ELSE active
    /\ UNCHANGED <<gate, lane, summary, task, due>>
    /\ OthersIdle

(* preflight_sprint_launch: the target of the plan is stale                *)
PreflightStale ==
    /\ Idle
    /\ ActiveIs({"waiting_for_slots"})
    /\ Predecessors = {}
    /\ sprint' = [sprint EXCEPT ![active] = LaunchAttention(@)]
    /\ UNCHANGED <<gate, active, lane, summary, task, due>>
    /\ OthersIdle

(* launch_sprint: the lanes are accepted in one transaction, and only when *)
(* every slot is free                                                      *)
LaunchSprint ==
    /\ Idle
    /\ ActiveIs({"waiting_for_slots"})
    /\ gate = "trimming"
    /\ Predecessors = {}
    /\ FreeSlots = Cardinality(Lanes)
    /\ CanAttach(sprint[active])
    /\ sprint' = [sprint EXCEPT ![active] = Attach(@)]
    /\ lane' = [l \in Lanes |-> "launching"]
    /\ UNCHANGED <<gate, active, summary, task, due>>
    /\ OthersIdle

LanesRun == ActiveIs({"running", "draining_after_root_resolution"})

StartLane(l) ==
    /\ Idle
    /\ LanesRun
    /\ lane[l] = "launching"
    /\ lane' = [lane EXCEPT ![l] = "running"]
    /\ UNCHANGED <<gate, sprint, active, summary, task, due>>
    /\ OthersIdle

CloseLane(l) ==
    /\ Idle
    /\ lane[l] \in {"running", "answered"}
    /\ lane' = [lane EXCEPT ![l] = "closed"]
    /\ due' = due \cup {l}
    /\ UNCHANGED <<gate, sprint, active, summary, task>>
    /\ OthersIdle

(* _maybe_close_task: an operation of the lane waits for the operator      *)
LaneAsks(l) ==
    /\ Idle
    /\ lane[l] \in {"running", "answered"}
    /\ lane' = [lane EXCEPT ![l] = "needs_attention"]
    /\ UNCHANGED <<gate, sprint, active, summary, task, due>>
    /\ OthersIdle

(***************************************************************************)
(* The summary.                                                            *)
(***************************************************************************)
SummaryOnly == UNCHANGED <<gate, active, lane, task>> /\ OthersIdle

(* prepare_sprint_summarizer_call *)
PrepareSummary ==
    /\ Idle
    /\ ActiveIs({"awaiting_summary"})
    /\ summary = NoCall
    /\ summary' = PrepareCall("summarizer", active, RetryLimit)
    /\ UNCHANGED <<sprint, due>>
    /\ SummaryOnly

(* The loop reaches the call while its sprint awaits the summary; a result *)
(* that was rejected is asked for again at once.                           *)
LaunchSummary ==
    /\ Idle
    /\ ActiveIs({"awaiting_summary"})
    /\ CanLaunch(summary)
    /\ summary' = Launch(summary)
    /\ UNCHANGED <<sprint, due>>
    /\ SummaryOnly

ReplySummary ==
    /\ host = "up"
    /\ summary.status = "running"
    /\ summary' = ReceiveResult(summary, summary.attempt)
    /\ UNCHANGED <<sprint, due>>
    /\ SummaryOnly

(* record_transport_failure, mark_summarizer_needs_attention *)
FailSummary ==
    /\ host = "up"
    /\ summary.status = "running"
    /\ summary' = RecordTransportFailure(summary)
    /\ IF Exhausted(summary')
       THEN sprint' = [sprint EXCEPT ![active] = SummaryAttention(@)] /\ Down
       ELSE UNCHANGED <<sprint, host, due>>
    /\ UNCHANGED <<gate, active, lane, task, trimVars, rootVars, callVars, bounds>>

(* commit_sprint_summarizer_call: the sprint takes the summary, *)
AcceptSummary ==
    /\ host = "up"
    /\ summary.status = "completed"
    /\ active # Nothing
    /\ ~sprint[active].summary
    /\ CanAccept(sprint[active])
    /\ sprint' = [sprint EXCEPT ![active] = Accept(@)]
    /\ UNCHANGED <<summary, due>>
    /\ SummaryOnly

(* and the call is committed in a second transaction.                      *)
MarkSummary ==
    /\ host = "up"
    /\ summary.status = "completed"
    /\ sprint[summary.owner].summary
    /\ CanAccept(sprint[summary.owner])
    /\ summary' = CommitResult(summary)
    /\ UNCHANGED <<sprint, due>>
    /\ SummaryOnly

(* complete_sprint_continuation, from the loop or from recovery            *)
Continue ==
    /\ host = "recovering" \/ (host = "up" /\ ~Busy)
    /\ ActiveIs({"trimmer_continuation"})
    /\ CanComplete(sprint[active])
    /\ sprint' = [sprint EXCEPT ![active] = CompleteContinuation(@)]
    /\ active' = Nothing
    /\ UNCHANGED <<gate, lane, summary, task, due>>
    /\ OthersIdle

(***************************************************************************)
(* The root problem.                                                       *)
(***************************************************************************)
SameOutcome(f, g) == {f, g} \subseteq Proofs \/ {f, g} \subseteq Disproofs

(* _cancel_unlaunched_controls_for_resolution                              *)
Supersede ==
    /\ trim' = SupersedeTrim(trim)
    /\ asked' = FALSE
    /\ IF active = Nothing THEN UNCHANGED <<sprint, active>>
       ELSE /\ sprint' = [sprint EXCEPT ![active] = SupersedeSprint(@)]
            /\ active' = IF ActiveIs({"waiting_for_slots"}) THEN Nothing ELSE active
    /\ summary' = IF CanLaunch(summary) THEN Cancel(summary) ELSE summary
    /\ call' = IF call.kind = "trimmer" /\ CanLaunch(call) THEN Cancel(call) ELSE call

Standing == {f \in Facts : standing[f] > 0}

Published == Standing \cup revoked

(* _record_root_resolution_in_state.  A Fact is published while its task   *)
(* or lane is open, by the loop or by the recovery that replays a commit.  *)
Resolve(f) ==
    /\ Idle \/ host = "recovering"
    /\ ~AllClosed
    /\ gate # "completed"
    /\ f \notin Published
    /\ Cardinality(Published) < MaxFacts
    /\ standing' = [standing EXCEPT ![f] = Cardinality(Published) + 1]
    /\ IF root.solution = Nothing
       THEN /\ root' = [root EXCEPT !.solution = f, !.done = FALSE]
            /\ gate' = "resolution_pending"
            /\ Supersede
       ELSE /\ root' = IF SameOutcome(f, root.solution) THEN root
                       ELSE [root EXCEPT !.conflicts = @ \cup {<<root.solution, f>>}]
            /\ UNCHANGED <<gate, trim, asked, sprint, active, summary, call>>
    /\ UNCHANGED <<host, catalog, lane, task, revoked, resultVars, halt, due, bounds>>

Survivors(f) == Standing \ {f}

(* root_resolution_state of the store: the first surviving Fact of the     *)
(* same outcome                                                            *)
Heirs(f) ==
    LET same == {g \in Survivors(f) : SameOutcome(f, g)}
    IN  IF same = {} THEN {Nothing}
        ELSE {g \in same : \A h \in same : standing[g] <= standing[h]}

Conflicts(f) == {c \in root.conflicts : f \notin {c[1], c[2]}}

RootAfter(f, heir) ==
    IF root.solution # f THEN [root EXCEPT !.conflicts = Conflicts(f)]
    ELSE IF Survivors(f) # {}
    THEN [root EXCEPT !.solution = heir, !.conflicts = Conflicts(f)]
    ELSE [solution |-> Nothing, conflicts |-> {}, done |-> FALSE, writer |-> FALSE]

(* revoke_fact: the store, then the scheduler, here in one step.  A writer *)
(* that has not been launched is closed; one that runs is told to stop.    *)
(* Whether the project is complete is asked after.                         *)
Revoke(f) ==
    /\ Idle
    /\ f \in Standing
    /\ standing' = [standing EXCEPT ![f] = 0]
    /\ revoked' = revoked \cup {f}
    /\ \E heir \in Heirs(f) : root' = RootAfter(f, heir)
    /\ gate' = IF root.solution = f /\ Survivors(f) = {} THEN "open" ELSE gate
    /\ IF root.solution = f /\ root.writer /\ task[Writer] = "launching"
       THEN /\ task' = [task EXCEPT ![Writer] = "closed"]
            /\ due' = {Writer, "project"}
       ELSE UNCHANGED task /\ due' = {"project"}
    /\ UNCHANGED <<host, trimVars, sprintVars, callVars, bounds>>

(***************************************************************************)
(* The operator, while the process is down.                                *)
(***************************************************************************)
Operator ==
    /\ host = "down"
    /\ operator < MaxOperator
    /\ operator' = operator + 1
    /\ UNCHANGED <<host, trim, catalog, task, rootVars, resultVars, due, calls,
                   reviews, stops>>

(* resolve_human_guidance, answered or cancelled *)
AnswerGuidance ==
    /\ Operator
    /\ gate = "waiting_for_human"
    /\ asked
    /\ asked' = FALSE
    /\ gate' = "trimming"
    /\ UNCHANGED <<sprint, active, lane, summary, call, halt>>

(* retry_attention_call, abandon_operation: the closing of a lane goes on *)
AnswerLane(l) ==
    /\ Operator
    /\ lane[l] = "needs_attention"
    /\ lane' = [lane EXCEPT ![l] = "answered"]
    /\ UNCHANGED <<gate, asked, sprint, active, summary, call, halt>>

(* cancel_sprint *)
CancelSprint ==
    /\ Operator
    /\ active # Nothing
    /\ CanCancel(sprint[active], lane, summary)
    /\ sprint' = [sprint EXCEPT ![active] = CancelledSprint(@)]
    /\ summary' = IF summary.status \in {"absent", "cancelled"} THEN summary
                  ELSE CancelAndAdvance(summary)
    /\ UNCHANGED <<gate, asked, active, lane, call, halt>>

(* retry_attention_call, of the summarizer and of a control call *)
RetrySummary ==
    /\ Operator
    /\ CanAuthorize(summary)
    /\ active = summary.owner
    /\ CanRestore(sprint[active])
    /\ summary' = AuthorizeRetry(summary)
    /\ sprint' = [sprint EXCEPT ![active] = Restore(@)]
    /\ UNCHANGED <<gate, asked, active, lane, call, halt>>

RetryControl ==
    /\ Operator
    /\ CanAuthorize(call)
    /\ call' = AuthorizeRetry(call)
    /\ halt' = FALSE
    /\ UNCHANGED <<gate, asked, sprint, active, lane, summary>>

-----------------------------------------------------------------------------

Init ==
    /\ host = "up"
    /\ gate = "open"
    /\ trim = NewTrim
    /\ catalog = 0
    /\ asked = FALSE
    /\ sprint = [s \in Sprints |-> NoSprintYet]
    /\ active = Nothing
    /\ lane = [l \in Lanes |-> "none"]
    /\ summary = NoCall
    /\ task = [t \in Jobs |-> "none"]
    /\ root = [solution |-> Nothing, conflicts |-> {}, done |-> FALSE, writer |-> FALSE]
    /\ standing = [f \in Facts |-> 0]
    /\ revoked = {}
    /\ call = NoCall
    /\ reply = NoReply
    /\ stored = NothingStored
    /\ fresh = TRUE
    /\ passed = FALSE
    /\ applied = FALSE
    /\ due = {}
    /\ halt = FALSE
    /\ calls = 0
    /\ reviews = 0
    /\ stops = 0
    /\ operator = 0

Plan == PrepareMain \/ StartReviewRound \/ PrepareReview \/ PrepareTrim

RunCall == LaunchControl \/ ReplyControl

Apply ==
    \/ CategoryStep \/ CategoryConflict \/ AdvancePhase \/ FinishMaintenance
    \/ CommitTrim \/ ApplyReview \/ RequestGuidance \/ PersistPlan
    \/ Assign \/ WaitForResults \/ Decline \/ AssignWriter \/ ConcludeWithWriter
    \/ Mark \/ Refuse

LaneWork == \E l \in Lanes : StartLane(l) \/ CloseLane(l) \/ LaneAsks(l)

Workers == LaneWork \/ \E t \in Jobs : LaunchTask(t) \/ CloseTask(t)

Tails == \E j \in Jobs \cup Lanes \cup {"project"} : CloseTail(j)

SprintSteps ==
    \/ AdvanceSprint \/ LaunchSprint \/ PrepareSummary \/ LaunchSummary
    \/ ReplySummary \/ AcceptSummary \/ MarkSummary \/ Continue

Next ==
    \/ Plan \/ RunCall \/ Apply \/ Workers \/ Tails \/ SprintSteps
    \/ StuckReport \/ FailControl \/ PreflightStale \/ FailSummary
    \/ Stop \/ Rest \/ Resume \/ Enter
    \/ \E f \in Facts : Resolve(f) \/ Revoke(f)
    \/ AnswerGuidance \/ CancelSprint \/ RetrySummary \/ RetryControl
    \/ \E l \in Lanes : AnswerLane(l)

Spec == Init /\ [][Next]_vars

(* The process is started again, and the one thread that drives everything *)
(* does what it can do: workers are timed, so that a lane closes or asks   *)
(* the operator.  Nothing is assumed of agents' opinions, the operator or  *)
(* the store.                                                              *)
Progress ==
    \/ Resume \/ Enter \/ RunCall \/ Apply \/ LaneWork \/ Tails \/ SprintSteps

Fairness == WF_vars(Progress)

FairSpec == Spec /\ Fairness

(***************************************************************************)
(* Properties.                                                             *)
(***************************************************************************)
(* Every variable keeps the shape the scheduler writes it with: the gate,  *)
(* the records of trim, sprints, calls and root, and the task states.      *)
TypeOK ==
    /\ host \in {"up", "recovering", "down"}
    /\ gate \in {"open", "reviewing_trim", "trimming", "waiting_for_human",
                 "resolution_pending", "completed"}
    /\ trim.review \in {"none", "asked", "bound"}
    /\ trim.phase \in {"none", "maintain", "select"}
    /\ {trim.session, trim.rounds, trim.revision, catalog} \subseteq Nat
    /\ \A s \in Sprints : sprint[s].status \in Statuses
    /\ active \in Sprints \cup {Nothing}
    /\ lane \in [Lanes -> {"none", "closed"} \cup Open]
    /\ task \in [Jobs -> {"none", "launching", "running", "closed"}]
    /\ {call.status, summary.status} \subseteq CallStates \cup {"absent"}
    /\ root.solution \in Facts \cup {Nothing}
    /\ due \subseteq Jobs \cup Lanes \cup {"project"}
    /\ {asked, halt, fresh, passed, applied} \subseteq BOOLEAN

(* The gate, the trim record and the guidance inbox are written by many    *)
(* handlers and read apart from each other; they always tell the same      *)
(* story: a review is open exactly while the gate says so, a trim exactly  *)
(* while it is trimmed or a human is asked.                                *)
GateMatchesTrim ==
    /\ (gate = "reviewing_trim") = (trim.review # "none")
    /\ (gate \in {"trimming", "waiting_for_human"}) = (trim.phase # "none")
    /\ (gate = "waiting_for_human") = asked

(* A sprint has the workers for itself: while its lanes run no other task  *)
(* is open, the ones that were there when it was planned included.         *)
SprintRunsAlone ==
    ActiveIs({"running", "awaiting_summary"}) => OpenJobs = {}

(* What the trimmer is told of a sprint covers all of it: a sprint that    *)
(* goes on to its summary or its trim has no lane open, and has either a   *)
(* summary or the operator's word that it needs none.                      *)
SummaryCoversSprint ==
    /\ ActiveIs({"awaiting_summary", "trimmer_continuation"}) => OpenLanes = {}
    /\ \A s \in Sprints :
          sprint[s].integration > 0 =>
             sprint[s].frozen /\ (sprint[s].summary \/ sprint[s].cancelled)

(* The scheduler takes a portfolio only after the category store has it:   *)
(* its revision is never ahead, however often a result is replayed.        *)
CatalogNeverBehind == trim.revision <= catalog

(* The outcome the scheduler reports is a Fact that stands, assignments    *)
(* are open only while the root is, and a completed project has nothing    *)
(* running and has heard the last decision of Main.                        *)
RootMatchesGate ==
    /\ root.solution # Nothing =>
          /\ root.solution \in Standing
          /\ gate \in {"resolution_pending", "completed"}
    /\ gate = "completed" => AllClosed /\ root.done /\ root.conflicts = {}

(* The gate, the record it belongs to, the tasks it admits and the outcome *)
(* of the root never contradict each other.                                *)
GateStands == TypeOK /\ GateMatchesTrim /\ SprintRunsAlone /\ RootMatchesGate

(* A sprint whose lanes were accepted does not stay half done: it reaches  *)
(* its summary, or is closed because the root was resolved, unless from    *)
(* some moment on the project is halted or a lane waits for the operator.  *)
SprintReachesBarrier ==
    (LanesRun /\ OpenLanes # {}) ~>
        ~LanesRun \/ [](halt \/ \E l \in Lanes : lane[l] = "needs_attention")

(* "Apply one persisted main result idempotently, including after restart."*)
(* (src/franta/runtime.py, _commit_main_result_locked): a result of Main   *)
(* that was applied before a stop is not refused after it.                 *)
AppliedNeverRefused ==
    [][call.kind = "main" /\ applied /\ call.status = "completed"
          => call'.status \in {"completed", "committed"}]_vars
=============================================================================
