--------------------------- MODULE TaskLifecycle ---------------------------
(***************************************************************************)
(* Tasks of Franta from their assignment to the record of their closing:   *)
(* worker attempts, retries, revisions asked for by the verifier,          *)
(* concession, completion evidence, worker slots, full stops.              *)
(*                                                                         *)
(* src/franta/scheduler.py holds the state, src/franta/runtime.py the main *)
(* thread that takes every step below except those of the agents:          *)
(*                                                                         *)
(*   loop --StartBatch--> launch --BatchRuns--> batch --BatchEnds--> loop  *)
(*                                                                         *)
(* A full stop may come at any point, and an error that nobody catches     *)
(* ends the run ("failing"); "recover" is the ingestion of staged files    *)
(* before Reconcile (src/franta/recovery.py) fences what was lost.         *)
(*                                                                         *)
(* A review is the final answer of its call: CallLifecycle treats calls,   *)
(* their failures and retries.  A memory operation is a Fact, a "proposal" *)
(* (new route or obligation, which a synthesizer looks at), a "memo" or a  *)
(* "claim", which the store accepts or refuses at once.                    *)
(***************************************************************************)
EXTENDS Naturals, FiniteSets

CONSTANTS
    Tasks,
    Writer,         \* the terminal proof-writer, if it is one of Tasks
    NoTask,
    Kinds,          \* kinds of operations agents submit
    MaxWorkers,     \* limits.max_non_verifier_workers
    RetryLimit,     \* retry_policy.worker
    RevisionLimit,  \* revision requests for one repair chain: 2 in the code
    MaxOps,         \* bound: operations submitted by all attempts together
    MaxAttempts,    \* bound: attempts of one task
    MaxEvidence,    \* bound: operations named as completion evidence
    MaxRestarts,    \* bound: how often the process comes back after a stop
    MaxAuths        \* bound: how many reviews the operator renews

ASSUME ConstantsAssumption ==
    /\ NoTask \notin Tasks
    /\ Writer \in Tasks \cup {NoTask}
    /\ IsFiniteSet(Tasks)
    /\ Kinds \subseteq {"fact", "proposal", "memo", "claim"}
    /\ MaxWorkers \in Nat \ {0}
    /\ RetryLimit \in Nat
    /\ RevisionLimit \in Nat
    /\ MaxOps \in Nat
    /\ MaxAttempts \in Nat
    /\ MaxEvidence \in Nat
    /\ MaxRestarts \in Nat
    /\ MaxAuths \in Nat

VARIABLES
    task,       \* state["tasks"]
    att,        \* att[t][k]: the k-th attempt of t
    op,         \* state["operations"], in the order of their receipt
    at,         \* where the main thread is
    queue,      \* launch: tasks of the batch that have no attempt yet
    alive,      \* tasks with a worker process, or after a stop with its outbox:
                \* a process may outlive the running of its attempt
    due,        \* tasks for which _maybe_close_task is about to be called
    published,  \* tasks with a record in the store
    restarts, auths

vars == <<task, att, op, at, queue, alive, due, published,
          restarts, auths>>

Ops == 1..MaxOps
AttemptNos == 1..MaxAttempts

TaskStates == {"none", "launching", "running", "postprocessing",
               "revision_pending", "retry_pending", "needs_attention", "closed"}

(* "revised" is ended_for_verifier_revision and "returned" is              *)
(* ended_for_identical_bundle_correction.                                  *)
AttemptStates == {"none", "running", "ended", "interrupted", "revised",
                  "returned"}

OpStates == {"unused", "received", "synthesizing", "verifying",
             "needs_attention", "committed", "rejected", "abandoned"}

FinalOpStates == {"committed", "rejected", "abandoned"}

SupplementKinds == {"none", "verifier_revision", "identical_rejected_bundle",
                    "fact_concession", "evidence_correction", "memo_correction"}

(* Kinds that no synthesizer looks at.                                     *)
Direct == {"memo", "claim"}

Revisions == {"verifier_revision", "identical_rejected_bundle"}
Repairs == Revisions \cup {"fact_concession"}
Concessions == {"fact_concession", "memo_correction"}

(* "normal" stands for finished, progress and failed, which no step tells  *)
(* apart.                                                                  *)
Outcomes == {"none", "normal", "interrupted"}

Nothing == [kind |-> "none", cause |-> 0]
Supplement(kind, o) == [kind |-> kind, cause |-> o]

(* Mutant of InfrastructureRetry: the supplement is not wrapped.           *)
InfrastructureRetryBare(s) == Nothing

(* preserved_attempt_supplement and infrastructure_retry_supplement: a     *)
(* retry wraps the supplement of the attempt it repeats, and whoever reads *)
(* a supplement unwraps it.                                                *)
InfrastructureRetry(s) == s

(***************************************************************************)
(* Derived state.                                                          *)
(***************************************************************************)
(* Mutant of Launchable: retries are not selected.                         *)
LaunchableNew(t) == task[t].state \in {"launching", "revision_pending"}

Launchable(t) ==
    task[t].state \in {"launching", "retry_pending", "revision_pending"}

(* Mutant of RunningCount: reservations are not counted.                   *)
RunningCountOfRunning == Cardinality({t \in Tasks : task[t].state = "running"})

(* _running_count_of *)
RunningCount == Cardinality({t \in Tasks : task[t].reserved})

(* free_non_verifier_slots *)
FreeSlots == IF RunningCount < MaxWorkers THEN MaxWorkers - RunningCount ELSE 0

OpsOf(t) == {o \in Ops : op[o].state # "unused" /\ op[o].task = t}

AttemptOps(t) == {o \in OpsOf(t) : op[o].attempt = task[t].n}

LastAttempt(t) == att[t][task[t].n]

SourceTerminal(o) == att[op[o].task][op[o].attempt].state # "running"

(* What _advance_operations and the live reviews of a batch take up.       *)
Reviewable(o) ==
    \/ op[o].state = "synthesizing"
    \/ op[o].state = "verifying" /\ SourceTerminal(o)

Chain(os, c) ==
    {o \in Ops : /\ os[o].state \notin {"unused", "abandoned"}
                 /\ os[o].kind = "fact"
                 /\ os[o].chain = c}

(* _latest_relevant_fact_repair_operation_id *)
IsLatest(os, o) == \A p \in Chain(os, os[o].chain) : p <= o

ChainWon(os, c) == \E o \in Chain(os, c) : os[o].state = "committed"

(* _cancel_stale_fact_repair_intents_locked.  The proposal of a rejected   *)
(* Fact is closed with it (_reject_fact_proposal_cascade_locked), and a    *)
(* concession, unlike a revision, is cancelled at recovery for that.       *)
Stale(os, s, recovering) ==
    /\ s.kind \in Repairs
    /\ \/ ChainWon(os, os[s.cause].chain)
       \/ ~IsLatest(os, s.cause)
       \/ recovering /\ s.kind = "fact_concession"

WithoutStale(tasks, os, recovering) ==
    [t \in Tasks |->
        IF ~Stale(os, tasks[t].pending, recovering) THEN tasks[t]
        ELSE IF tasks[t].state \in {"revision_pending", "retry_pending"}
        THEN [tasks[t] EXCEPT !.pending = Nothing, !.reserved = FALSE,
                              !.state = "postprocessing"]
        ELSE [tasks[t] EXCEPT !.pending = Nothing]]

(* Between two steps of a handler nothing else happens on the main thread. *)
Idle == due = {} /\ \A o \in Ops : op[o].state # "received"

InRun == at \in {"loop", "batch"} /\ Idle

Resting(tk) == tk.state \in {"postprocessing", "needs_attention"}

(* _recheck_reference_blocked_tasks *)
Rechecked(tasks) == {t \in Tasks : Resting(tasks[t])}

(***************************************************************************)
(* Initial state: no task has been assigned.                               *)
(***************************************************************************)
NewTask ==
    [state |-> "none", reserved |-> FALSE, n |-> 0, retries |-> 0,
     pending |-> Nothing, forced |-> FALSE, stopped |-> FALSE,
     outcome |-> "none",
     evidence |-> {}, ambiguous |-> 0, reviewed |-> {}, digested |-> FALSE,
     intent |-> "none", unpublished |-> FALSE, tail |-> FALSE]

NoAttempt == [state |-> "none", supp |-> Nothing]

NewOp == [state |-> "unused", task |-> NoTask, attempt |-> 0, kind |-> "none",
          chain |-> 0, request |-> 0, review |-> "none", repair |-> FALSE,
          refuted |-> FALSE]

Init ==
    /\ task = [t \in Tasks |-> NewTask]
    /\ att = [t \in Tasks |-> [k \in AttemptNos |-> NoAttempt]]
    /\ op = [o \in Ops |-> NewOp]
    /\ at = "loop"
    /\ queue = {}
    /\ alive = {}
    /\ due = {}
    /\ published = {}
    /\ restarts = 0
    /\ auths = 0

(***************************************************************************)
(* Assignment and launch.                                                  *)
(***************************************************************************)
(* submit_batch: every task of a batch gets a slot at once.                *)
Submit(ts) ==
    /\ at = "loop" /\ Idle
    /\ ts # {}
    /\ \A t \in ts : task[t].state = "none"
    /\ Cardinality(ts) + RunningCount <= MaxWorkers
    /\ task' = [t \in Tasks |->
                  IF t \in ts THEN [task[t] EXCEPT !.state = "launching",
                                                   !.reserved = TRUE]
                  ELSE task[t]]
    /\ UNCHANGED <<att, op, at, queue, alive, due, published,
                   restarts, auths>>

(* _ordinary_worker_launches, after _advance_operations has left nothing   *)
(* to review: the reserved tasks, and of the others as many as free slots  *)
(* allow.                                                                  *)
StartBatch(ts) ==
    LET candidates == {t \in Tasks : Launchable(t) /\ task[t].n < MaxAttempts}
        others == {t \in candidates : ~task[t].reserved}
    IN  /\ at = "loop" /\ Idle
        /\ \A o \in Ops : ~Reviewable(o)
        /\ ts # {} /\ ts \subseteq candidates
        /\ candidates \ others \subseteq ts
        /\ Cardinality(ts \cap others) <= FreeSlots
        /\ others \subseteq ts \/ Cardinality(ts \cap others) = FreeSlots
        /\ at' = "launch"
        /\ queue' = ts
        /\ UNCHANGED <<task, att, op, alive, due, published, restarts,
                       auths>>

Started(tk) ==
    [tk EXCEPT !.state = "running", !.reserved = TRUE, !.n = @ + 1,
               !.pending = Nothing]

(* start_task_attempt *)
StartAttempt(t) ==
    /\ at = "launch" /\ Idle /\ t \in queue
    /\ Launchable(t)
    /\ task[t].reserved \/ RunningCount < MaxWorkers
    /\ queue' = queue \ {t}
    /\ alive' = alive \cup {t}
    /\ task' = [task EXCEPT ![t] = Started(@)]
    /\ att' = [att EXCEPT ![t][task[t].n + 1] =
                  [state |-> "running", supp |-> task[t].pending]]
    /\ UNCHANGED <<op, at, due, published, restarts, auths>>

(* The worker processes start when the whole batch is prepared.            *)
BatchRuns ==
    /\ at = "launch" /\ Idle /\ queue = {}
    /\ at' = "batch"
    /\ UNCHANGED <<task, att, op, queue, alive, due, published,
                   restarts, auths>>

(* The process of an attempt that was ended under it: the batch cancels the*)
(* call, takes in nothing more of it and drops the task when it is gone.   *)
ProcessGone(t) ==
    /\ at = "batch" /\ Idle
    /\ t \in alive /\ task[t].state # "running"
    /\ alive' = alive \ {t}
    /\ UNCHANGED <<task, att, op, at, queue, due, published, restarts, auths>>

(* Mutant of BatchEnds: the batch ends when none of its tasks is running.  *)
BatchEndsWhenDecided ==
    /\ at = "batch" /\ Idle /\ \A t \in alive : task[t].state # "running"
    /\ at' = "loop"
    /\ UNCHANGED <<task, att, op, queue, alive, due, published,
                   restarts, auths>>

(* _run_worker_batch returns when all its processes are gone.              *)
BatchEnds ==
    /\ at = "batch" /\ Idle /\ alive = {}
    /\ at' = "loop"
    /\ UNCHANGED <<task, att, op, queue, alive, due, published,
                   restarts, auths>>

(***************************************************************************)
(* The agent, and what the main thread makes of it.                        *)
(***************************************************************************)
(* ingest_progress and _initialize_fact_operation: the receipt of what the *)
(* agent has staged in its outbox.  A Fact of an attempt that answers a    *)
(* verifier, or the return of a refuted proof, continues the repair chain. *)
Ingest(t, o, kind) ==
    LET s == LastAttempt(t).supp
        answers == kind = "fact" /\ s.kind \in Revisions
    IN  /\ t \in alive /\ task[t].state = "running"
        /\ at \in {"batch", "recover"} /\ due = {}
        /\ op[o].state = "unused" /\ \A p \in 1..(o - 1) : op[p].state # "unused"
        /\ op' = [op EXCEPT ![o] =
                     [state |-> "received", task |-> t, attempt |-> task[t].n,
                      kind |-> kind,
                      chain |-> IF answers THEN op[s.cause].chain ELSE o,
                      request |-> IF answers THEN op[s.cause].request + 1 ELSE 0,
                      review |-> "none", repair |-> FALSE, refuted |-> FALSE]]
        /\ UNCHANGED <<task, att, at, queue, alive, due, published, restarts,
                       auths>>

(* _route_operation: Facts and proposals wait for a synthesizer.           *)
Route(o) ==
    /\ op[o].state = "received" /\ op[o].kind \notin Direct /\ at # "down"
    /\ op' = [op EXCEPT ![o] = [@ EXCEPT !.state = "synthesizing",
                                        !.review = "synthesizing"]]
    /\ UNCHANGED <<task, att, at, queue, alive, due, published,
                   restarts, auths>>

(* _commit_memory_operation: the store accepts or refuses, and every task  *)
(* at rest is looked at again.                                             *)
Commits(o, verdict) ==
    /\ op' = [op EXCEPT ![o].state = verdict]
    /\ due' = due \cup Rechecked(task) \cup {op[o].task}
    /\ UNCHANGED <<task, att, at, queue, alive, published, restarts,
                   auths>>

CommitMemo(o, verdict) ==
    /\ op[o].state = "received" /\ op[o].kind \in Direct /\ at # "down"
    /\ Commits(o, verdict)

(* _end_attempt_from_progress refuses a concession that has no memo or     *)
(* anything but memos and claims.                                          *)
ConcessionInOrder(t) ==
    LastAttempt(t).supp.kind \in Concessions =>
        /\ \E o \in AttemptOps(t) : op[o].kind = "memo"
        /\ \A o \in AttemptOps(t) : op[o].kind \in Direct

(* The process exits with the final answer that matches its final progress *)
(* file, which names the completion evidence.  At recovery the answer is   *)
(* found in what the process left.                                         *)
EndNormally(t, evidence) ==
    /\ t \in alive /\ task[t].state = "running"
    /\ at \in {"batch", "recover"} /\ Idle
    /\ evidence \subseteq OpsOf(t) /\ Cardinality(evidence) <= MaxEvidence
    /\ ConcessionInOrder(t)
    /\ alive' = alive \ {t}
    /\ att' = [att EXCEPT ![t][task[t].n].state = "ended"]
    /\ task' = [task EXCEPT ![t] = [@ EXCEPT !.state = "postprocessing",
                                             !.reserved = FALSE,
                                             !.outcome = "normal",
                                             !.evidence = evidence]]
    /\ due' = {t}
    /\ UNCHANGED <<op, at, queue, published, restarts, auths>>

(* record_worker_interruption: retry while the budget lasts, otherwise     *)
(* close as interrupted when the operations are final.                     *)
Interrupted(tk, s) ==
    IF tk.retries < RetryLimit
    THEN [tk EXCEPT !.state = "retry_pending", !.reserved = FALSE,
                    !.retries = @ + 1, !.pending = InfrastructureRetry(s)]
    ELSE [tk EXCEPT !.state = "postprocessing", !.reserved = FALSE,
                    !.forced = TRUE]

(* The process fails, exits without a valid final answer, or its workspace *)
(* cannot be prepared or its outbox not be read; what it had staged may be *)
(* lost.                                                                   *)
AttemptFails(t) ==
    /\ at \in {"launch", "batch"} /\ Idle
    /\ t \in alive
    /\ task[t].state = "running"
    /\ alive' = alive \ {t}
    /\ att' = [att EXCEPT ![t][task[t].n].state = "interrupted"]
    /\ task' = [task EXCEPT ![t] = Interrupted(@, LastAttempt(t).supp)]
    /\ due' = {t}
    /\ UNCHANGED <<op, at, queue, published, restarts, auths>>

(***************************************************************************)
(* Reviews.                                                                *)
(***************************************************************************)
(* apply_synthesizer_result: a new Fact, whose proof no verdict has refuted*)
(* yet, goes to the verifier; a new or merged proposal goes to the store.  *)
(* Which proofs are the same is left open: see MayBeRefuted.               *)
FactIsNew(o) ==
    /\ op[o].state = "synthesizing" /\ op[o].kind = "fact" /\ InRun
    /\ op' = [op EXCEPT ![o] = [@ EXCEPT !.state = "verifying",
                                        !.review = "verifying"]]
    /\ UNCHANGED <<task, att, at, queue, alive, due, published,
                   restarts, auths>>

SettleProposal(o, verdict) ==
    /\ op[o].state = "synthesizing" /\ op[o].kind = "proposal" /\ InRun
    /\ Commits(o, verdict)

(* A Fact is committed as a duplicate (_record_duplicate_resolution) or    *)
(* after a correct verdict (_publish_verified_fact): repairs it makes      *)
(* superfluous are cancelled.                                              *)
FactCommitted(o) ==
    LET os == [op EXCEPT ![o].state = "committed"]
    IN  /\ op' = os
        /\ task' = WithoutStale(task, os, FALSE)
        /\ UNCHANGED <<att, at, queue, alive, published, restarts,
                       auths>>

FactIsDuplicate(o) ==
    /\ op[o].state = "synthesizing" /\ op[o].kind = "fact" /\ InRun
    /\ FactCommitted(o)
    /\ due' = Rechecked(task') \cup {op[o].task}

PublishFact(o) ==
    /\ op[o].state = "verifying" /\ SourceTerminal(o) /\ InRun
    /\ FactCommitted(o)
    /\ due' = {op[o].task}

(* The store refuses the verified Fact: rejected, without a repair.        *)
StoreRejectsFact(o) ==
    /\ op[o].state = "verifying" /\ SourceTerminal(o) /\ InRun
    /\ op' = [op EXCEPT ![o].state = "rejected"]
    /\ due' = {op[o].task}
    /\ UNCHANGED <<task, att, at, queue, alive, published, restarts,
                   auths>>

(* _handle_incorrect_fact, _return_identical_bundle_locked: the newest Fact *)
(* of its repair chain sends its task into a revision, or into a concession*)
(* when the requests are used up.  A running attempt is ended for it, its  *)
(* slot is given back and its process left to the batch (ProcessGone).     *)
RepairRequested(tk, o, kind) ==
    [tk EXCEPT !.state = "revision_pending",
               !.reserved = IF tk.state = "running" THEN FALSE ELSE @,
               !.pending = Supplement(IF op[o].request < RevisionLimit
                                      THEN kind ELSE "fact_concession", o)]

SendBack(o, kind, ended) ==
    LET t == op[o].task
    IN  /\ op' = [op EXCEPT ![o] = [@ EXCEPT
                    !.state = "rejected", !.repair = IsLatest(op, o),
                    !.refuted = (kind = "verifier_revision")]]
        /\ IF IsLatest(op, o)
           THEN /\ task' = [task EXCEPT ![t] = RepairRequested(@, o, kind)]
                /\ att' = IF task[t].state = "running"
                          THEN [att EXCEPT ![t][task[t].n].state = ended]
                          ELSE att
                /\ due' = {}
           ELSE /\ due' = {t}
                /\ UNCHANGED <<task, att>>
        /\ UNCHANGED <<queue, alive, published, restarts, auths>>

RejectFact(o) ==
    /\ op[o].state = "verifying" /\ SourceTerminal(o) /\ InRun
    /\ SendBack(o, "verifier_revision", "revised")
    /\ UNCHANGED at

(* _rejected_bundle_entry: the statement, proof and predecessors of a Fact *)
(* may be those of one that a verdict has refuted.                         *)
MayBeRefuted(o) == \E p \in Ops \ {o} : op[p].refuted

(* apply_synthesizer_result: such a Fact is returned without a verifier,   *)
(* and also while the attempt that submitted it is running.                *)
ReturnIdentical(o) ==
    /\ op[o].state = "synthesizing" /\ op[o].kind = "fact" /\ InRun
    /\ MayBeRefuted(o)
    /\ SendBack(o, "identical_rejected_bundle", "returned")
    /\ UNCHANGED at

(* verification_bundle: the Fact was refuted while it waited for its       *)
(* verifier.  It is returned in the same way, and then the SchedulerError  *)
(* that verification_bundle raises ends the run.                           *)
ReturnBeforeVerifier(o) ==
    /\ op[o].state = "verifying" /\ SourceTerminal(o) /\ InRun
    /\ MayBeRefuted(o)
    /\ SendBack(o, "identical_rejected_bundle", "returned")
    /\ at' = "failing"

(* mark_call_failed, reject_call_result: the review has used up its        *)
(* retries, and the operator is asked.                                     *)
ExhaustReview(o) ==
    LET t == op[o].task
    IN  /\ Reviewable(o) /\ InRun
        /\ op' = [op EXCEPT ![o].state = "needs_attention"]
        /\ task' = IF task[t].state = "postprocessing"
                   THEN [task EXCEPT ![t].state = "needs_attention"] ELSE task
        /\ UNCHANGED <<att, at, queue, alive, due, published, restarts,
                       auths>>

(* retry_attention_call *)
RetryReview(o) ==
    /\ at = "loop" /\ Idle /\ auths < MaxAuths
    /\ op[o].state = "needs_attention"
    /\ op[o].review = "verifying" => task[op[o].task].state = "needs_attention"
    /\ op' = [op EXCEPT ![o].state = op[o].review]
    /\ auths' = auths + 1
    /\ UNCHANGED <<task, att, at, queue, alive, due, published,
                   restarts>>

(* abandon_operation: completion evidence asks for a closure review.      *)
AsksClosureReview(tk, o) ==
    [tk EXCEPT !.ambiguous = o,
               !.state = IF @ = "postprocessing" THEN "needs_attention" ELSE @]

AbandonOperation(o) ==
    LET t == op[o].task
    IN  /\ at = "loop" /\ Idle
        /\ op[o].state \in {"synthesizing", "verifying", "needs_attention"}
        /\ op' = [op EXCEPT ![o].state = "abandoned"]
        /\ task' = IF o \notin task[t].evidence THEN task
                   ELSE [task EXCEPT ![t] = AsksClosureReview(@, o)]
        /\ due' = {t}
        /\ UNCHANGED <<att, at, queue, alive, published, restarts,
                       auths>>

(* apply_main_closure_review, the last step of _advance_operations.  The   *)
(* call is prepared once for a task: when it is committed the loop passes  *)
(* over whatever asks for a review later.                                  *)
ClosureReviewed(tk) ==
    [tk EXCEPT !.reviewed = @ \cup {tk.ambiguous}, !.ambiguous = 0,
               !.digested = TRUE, !.outcome = "normal",
               !.state = IF @ = "needs_attention" THEN "postprocessing" ELSE @]

ReviewClosure(t) ==
    /\ at = "loop" /\ Idle
    /\ task[t].ambiguous # 0 /\ ~task[t].digested
    /\ task' = [task EXCEPT ![t] = ClosureReviewed(@)]
    /\ due' = {t}
    /\ UNCHANGED <<att, op, at, queue, alive, published, restarts,
                   auths>>

(***************************************************************************)
(* Stopping tasks that have no process.                                    *)
(***************************************************************************)
(* stop_unlaunched_franta_tasks_for_drain: Franta's turn is over.          *)
StopUnlaunched ==
    LET stopped == {t \in Tasks : Launchable(t)}
    IN  /\ at = "loop" /\ Idle /\ stopped # {}
        /\ task' = [t \in Tasks |->
                      IF t \notin stopped THEN task[t]
                      ELSE [task[t] EXCEPT !.state = "postprocessing",
                                           !.reserved = FALSE,
                                           !.pending = Nothing,
                                           !.forced = TRUE]]
        /\ due' = stopped
        /\ UNCHANGED <<att, op, at, queue, alive, published, restarts,
                       auths>>

(* revoke_fact, _stop_proof_writer_for_revocation_locked: the root Fact of *)
(* the proof-writer is revoked, which happens to a Fact once.  Challenges  *)
(* are decided between batches, so the writer has no process; what is at   *)
(* rest in postprocessing only drains.                                     *)
StopWriter ==
    /\ at = "loop" /\ Idle
    /\ Writer \in Tasks
    /\ task[Writer].state \notin {"none", "closed"} /\ ~task[Writer].stopped
    /\ \/ /\ task[Writer].state = "postprocessing"
          /\ task' = [task EXCEPT ![Writer].stopped = TRUE]
          /\ UNCHANGED due
       \/ /\ task[Writer].state # "postprocessing"
          /\ task' = [task EXCEPT ![Writer] =
                         [@ EXCEPT !.state = "postprocessing",
                                   !.forced = TRUE, !.stopped = TRUE]]
          /\ due' = {Writer}
    /\ UNCHANGED <<att, op, at, queue, alive, published, restarts,
                   auths>>

(***************************************************************************)
(* Closing: _maybe_close_task, for the tasks in due.                       *)
(***************************************************************************)
CheckDone(t) == due' = due \ {t}

Undecided(t) ==
    /\ t \in due /\ at # "down"
    /\ task[t].state # "closed" /\ task[t].intent = "none"

Blocked(t) == \E o \in OpsOf(t) : op[o].state = "needs_attention"

(* Mutant of Settled: only a synthesis is waited for.                      *)
SettledAfterSynthesis(t) == \A o \in OpsOf(t) : op[o].state # "synthesizing"

Settled(t) == \A o \in OpsOf(t) : op[o].state \in FinalOpStates

(* Mutant of RejectedEvidence: operations of the last attempt only.        *)
RejectedOfAttempt(t) ==
    {o \in (task[t].evidence \ task[t].reviewed) \cap AttemptOps(t) :
        op[o].state \in {"rejected", "abandoned"} /\ op[o].kind # "fact"}

(* Facts are left out: a rejected one has a closed lineage, an abandoned   *)
(* one is not the latest of its lineage.                                   *)
RejectedEvidence(t) ==
    {o \in task[t].evidence \ task[t].reviewed :
        op[o].state \in {"rejected", "abandoned"} /\ op[o].kind # "fact"}

MemoMissing(t) ==
    /\ task[t].n > 0
    /\ LastAttempt(t).supp.kind \in Concessions
    /\ ~\E o \in AttemptOps(t) : op[o].kind = "memo" /\ op[o].state = "committed"

MayDecide(t) == Undecided(t) /\ Resting(task[t]) /\ ~Blocked(t) /\ Settled(t)

NotYet(t) ==
    /\ Undecided(t)
    /\ ~Resting(task[t]) \/ (~Blocked(t) /\ ~Settled(t))
    /\ CheckDone(t)
    /\ UNCHANGED <<task, att, op, at, queue, alive, published, restarts,
                   auths>>

SetTask(t, tk) ==
    /\ task' = [task EXCEPT ![t] = tk]
    /\ UNCHANGED <<att, op, at, queue, alive, published, restarts,
                   auths>>

PauseClosing(t) ==
    /\ Undecided(t) /\ Resting(task[t]) /\ Blocked(t)
    /\ SetTask(t, [task[t] EXCEPT !.state = "needs_attention"])
    /\ CheckDone(t)

CloseForced(t) ==
    /\ MayDecide(t) /\ task[t].forced
    /\ SetTask(t, [task[t] EXCEPT !.state = "postprocessing",
                                  !.intent = "interrupted"])
    /\ UNCHANGED due

(* Only a task in postprocessing is sent back for its evidence.            *)
CorrectEvidence(t) ==
    /\ MayDecide(t) /\ ~task[t].forced /\ RejectedEvidence(t) # {}
    /\ SetTask(t, IF task[t].state = "postprocessing"
                  THEN [task[t] EXCEPT
                          !.state = "revision_pending",
                          !.pending = Supplement("evidence_correction", 0)]
                  ELSE task[t])
    /\ CheckDone(t)

CorrectMemo(t) ==
    /\ MayDecide(t) /\ ~task[t].forced /\ RejectedEvidence(t) = {}
    /\ MemoMissing(t)
    /\ SetTask(t, [task[t] EXCEPT !.state = "revision_pending",
                                  !.pending = Supplement("memo_correction", 0)])
    /\ CheckDone(t)

OutcomeMissing(t) ==
    /\ MayDecide(t) /\ ~task[t].forced /\ RejectedEvidence(t) = {}
    /\ ~MemoMissing(t) /\ task[t].outcome = "none"
    /\ SetTask(t, [task[t] EXCEPT !.state = "needs_attention"])
    /\ CheckDone(t)

CloseNormally(t) ==
    /\ MayDecide(t) /\ ~task[t].forced /\ RejectedEvidence(t) = {}
    /\ ~MemoMissing(t) /\ task[t].outcome # "none"
    /\ SetTask(t, [task[t] EXCEPT !.state = "postprocessing",
                                  !.intent = task[t].outcome])
    /\ UNCHANGED due

(* _publish_task_record_with_key: a failure leaves the intent for later,   *)
(* and the operator is asked (task_memory_publication_failed) until the    *)
(* record is in the store.                                                 *)
PublishTask(t) ==
    /\ t \in due /\ at # "down"
    /\ task[t].intent # "none" /\ task[t].state # "closed"
    /\ t \notin published
    /\ \/ /\ published' = published \cup {t}
          /\ task' = [task EXCEPT ![t].unpublished = FALSE]
          /\ UNCHANGED due
       \/ /\ CheckDone(t)
          /\ task' = [task EXCEPT ![t].unpublished = TRUE]
          /\ UNCHANGED published
    /\ UNCHANGED <<att, op, at, queue, alive, restarts, auths>>

(* _finalize_published_task_close *)
FinalizeClose(t) ==
    /\ t \in due /\ at # "down"
    /\ task[t].intent # "none" /\ task[t].state # "closed"
    /\ t \in published
    /\ SetTask(t, [task[t] EXCEPT !.state = "closed", !.reserved = FALSE])
    /\ UNCHANGED due

(* _apply_task_close_tail *)
CloseTail(t) ==
    /\ t \in due /\ at # "down"
    /\ task[t].state = "closed"
    /\ SetTask(t, [task[t] EXCEPT !.tail = TRUE])
    /\ CheckDone(t)

(***************************************************************************)
(* Full stops.                                                             *)
(***************************************************************************)
Down ==
    /\ at' = "down"
    /\ queue' = {}
    /\ due' = {}
    /\ alive' = IF at = "launch" THEN {} ELSE alive
    /\ UNCHANGED <<task, att, op, published, restarts, auths>>

Stop == at # "down" /\ restarts < MaxRestarts /\ Down

(* The error of ReturnBeforeVerifier leaves run when the checks of the     *)
(* returned Fact are done.                                                 *)
RunFails == at = "failing" /\ Idle /\ Down

(* _recover_staged_worker_progress: what the workers left is taken in      *)
(* first, by Ingest and EndNormally.                                       *)
Restart ==
    /\ at = "down" /\ restarts < MaxRestarts
    /\ at' = "recover"
    /\ restarts' = restarts + 1
    /\ UNCHANGED <<task, att, op, queue, alive, due, published, auths>>

(* reconcile_after_full_stop: what was launching or running is repeated or *)
(* given up; the slot stays with the task that is repeated.                *)
Reconciled(tk, attempts) ==
    IF tk.state \notin {"launching", "running"} THEN tk
    ELSE IF tk.retries < RetryLimit
    THEN [tk EXCEPT !.state = "retry_pending", !.retries = @ + 1,
                    !.pending = IF tk.n = 0 THEN Nothing
                                ELSE InfrastructureRetry(attempts[tk.n].supp)]
    ELSE [tk EXCEPT !.state = "postprocessing", !.reserved = FALSE,
                    !.forced = TRUE]

(* Mutant of Fenced: attempts are left as the stop found them.             *)
Unfenced(attempts) == attempts

Fenced(attempts) ==
    [k \in AttemptNos |-> IF attempts[k].state = "running"
                          THEN [attempts[k] EXCEPT !.state = "interrupted"]
                          ELSE attempts[k]]

(* Scheduler.recover, and the closing checks of                            *)
(* reconcile_pending_ingestion.                                            *)
Reconcile ==
    /\ at = "recover" /\ Idle
    /\ at' = "loop"
    /\ task' = WithoutStale([t \in Tasks |-> Reconciled(task[t], att[t])],
                            op, TRUE)
    /\ att' = [t \in Tasks |-> Fenced(att[t])]
    /\ alive' = {}
    /\ due' = {t \in Tasks : Resting(task'[t]) \/ task'[t].state = "closed"}
    /\ UNCHANGED <<op, queue, published, restarts, auths>>

(***************************************************************************)
(* The specification.                                                      *)
(***************************************************************************)
Verdicts == {"committed", "rejected"}

Closing(t) ==
    \/ NotYet(t) \/ PauseClosing(t) \/ CloseForced(t) \/ CorrectEvidence(t)
    \/ CorrectMemo(t) \/ OutcomeMissing(t) \/ CloseNormally(t)
    \/ PublishTask(t) \/ FinalizeClose(t) \/ CloseTail(t)

Review(o) ==
    \/ FactIsNew(o) \/ FactIsDuplicate(o) \/ PublishFact(o)
    \/ StoreRejectsFact(o) \/ RejectFact(o) \/ ExhaustReview(o)
    \/ ReturnIdentical(o) \/ ReturnBeforeVerifier(o)
    \/ \E verdict \in Verdicts : SettleProposal(o, verdict)

Work(t) ==
    \/ StartAttempt(t) \/ AttemptFails(t) \/ ProcessGone(t) \/ ReviewClosure(t)
    \/ \E o \in Ops, kind \in Kinds : Ingest(t, o, kind)
    \/ \E evidence \in SUBSET Ops : EndNormally(t, evidence)

MainThread ==
    \/ \E ts \in SUBSET Tasks : StartBatch(ts)
    \/ BatchRuns \/ BatchEnds \/ RunFails \/ Reconcile
    \/ \E t \in Tasks : Work(t) \/ Closing(t)
    \/ \E o \in Ops : Review(o) \/ Route(o)
    \/ \E o \in Ops, verdict \in Verdicts : CommitMemo(o, verdict)

Operator ==
    \/ \E ts \in SUBSET Tasks : Submit(ts)
    \/ \E o \in Ops : RetryReview(o) \/ AbandonOperation(o)
    \/ StopUnlaunched \/ StopWriter
    \/ Stop \/ Restart

Next == MainThread \/ Operator

Spec == Init /\ [][Next]_vars

FairSpec == Spec /\ WF_vars(MainThread)

(***************************************************************************)
(* Properties.                                                             *)
(***************************************************************************)
Supplements == [kind : SupplementKinds, cause : 0..MaxOps]

(* Every variable has its type.                                            *)
TypeOK ==
    /\ task \in [Tasks -> [state : TaskStates, reserved : BOOLEAN,
                           n : 0..MaxAttempts, retries : 0..RetryLimit,
                           pending : Supplements, forced : BOOLEAN, stopped : BOOLEAN,
                           outcome : Outcomes, evidence : SUBSET Ops,
                           ambiguous : 0..MaxOps, reviewed : SUBSET Ops,
                           digested : BOOLEAN, intent : Outcomes,
                           unpublished : BOOLEAN, tail : BOOLEAN]]
    /\ att \in [Tasks -> [AttemptNos -> [state : AttemptStates,
                                         supp : Supplements]]]
    /\ op \in [Ops -> [state : OpStates, task : Tasks \cup {NoTask},
                       attempt : 0..MaxAttempts, kind : Kinds \cup {"none"},
                       chain : 0..MaxOps, request : Nat,
                       review : {"none", "synthesizing", "verifying"},
                       repair : BOOLEAN, refuted : BOOLEAN]]
    /\ at \in {"loop", "launch", "batch", "failing", "down", "recover"}
    /\ queue \subseteq Tasks
    /\ alive \subseteq Tasks
    /\ due \subseteq Tasks
    /\ published \subseteq Tasks
    /\ restarts \in 0..MaxRestarts
    /\ auths \in 0..MaxAuths

(* Only the last attempt of a task can be running, and it does exactly     *)
(* while the task is running.  A worker process belongs to the last attempt*)
(* of its task, which is running or was returned for a refuted proof (no   *)
(* verdict ends an attempt under its process), and no attempt is launched  *)
(* while the process of an earlier one is there: through retries, returns, *)
(* revisions and stops no two agents work on one task.                     *)
OneRunningAttempt ==
    /\ \A t \in Tasks, k \in AttemptNos :
         att[t][k].state = "running" <=> task[t].state = "running" /\ k = task[t].n
    /\ \A t \in alive : \E k \in AttemptNos :
         k = task[t].n /\ att[t][k].state \in {"running", "returned"}
    /\ queue \cap alive = {}

(* Running tasks and reservations, those that a stop left behind too, stay *)
(* within the limit of the project, and every running task has its slot.   *)
(* (A process whose attempt was returned has none: its task gave it back.) *)
WorkersWithinSlots ==
    /\ RunningCount <= MaxWorkers
    /\ \A t \in Tasks : task[t].state = "running" => task[t].reserved

(* A slot is not held by a task that is being closed or waits for the      *)
(* operator.  (The proof-writer is an exception: stopped while a slot is   *)
(* reserved for it, it keeps the slot until it is closed.)                 *)
RestingHoldsNoSlot ==
    \A t \in Tasks \ {Writer} : Resting(task[t]) => ~task[t].reserved

(* A slot is counted exactly for the tasks that may use it. *)
SlotDiscipline == WorkersWithinSlots /\ RestingHoldsNoSlot

(* An attempt starts only when every operation of the earlier ones is      *)
(* decided or waits for the operator: no verdict on a Fact, and no return  *)
(* of one, can meet a later attempt of its task.                           *)
ReviewsBeforeRelaunch ==
    \A t \in Tasks, o \in Ops :
        task[t].state = "running" /\ o \in OpsOf(t) /\ op[o].attempt < task[t].n
            => op[o].state \in FinalOpStates \cup {"needs_attention"}

(* Along one repair chain at most RevisionLimit revisions and one          *)
(* concession are asked for, by verdicts and by returns of refuted proofs  *)
(* together, in whatever order the operator renews or abandons reviews, and*)
(* however often attempts are repeated.                                    *)
RepairsBounded ==
    \A c \in Ops :
        Cardinality({o \in Ops : op[o].chain = c /\ op[o].repair})
            <= RevisionLimit + 1

(* A later Fact of the repair chain exists, or the chain is published.     *)
Superseded(o) ==
    \/ \E p \in Ops : p > o /\ op[p].kind = "fact" /\ op[p].chain = op[o].chain
    \/ ChainWon(op, op[o].chain)

(* The first k attempts of t did not answer the verdict on o.              *)
Fresh(t, k, o) == \A j \in 1..k : att[t][j].supp.cause # o

(* After the k-th attempt of t the repair it was to answer gave way to the *)
(* verdict on another Fact of the task, whose own repair became superfluous*)
(* or is a concession, which recovery cancels.                             *)
Overtaken(t, k) ==
    \E o \in OpsOf(t) : /\ op[o].repair /\ Fresh(t, k, o)
                        /\ Superseded(o) \/ op[o].request = RevisionLimit

(* The attempt after an interrupted one gets the repair the interrupted    *)
(* one was to answer, or a later one, unless another Fact of its chain, or *)
(* the verdict on another Fact of the task, made it superfluous.           *)
RepairSurvivesRetry ==
    \A t \in Tasks, k \in AttemptNos :
        LET s == att[t][k].supp
            next == att[t][k + 1].supp
        IN  /\ k < task[t].n
            /\ att[t][k].state = "interrupted" /\ s.kind \in Revisions
            => \/ next = s
               \/ next.kind \in Repairs /\ Fresh(t, k, next.cause)
               \/ Superseded(s.cause)
               \/ Overtaken(t, k)

(* The repairs of a chain are bounded, and none of them is lost to a retry. *)
RepairsKept == RepairsBounded /\ RepairSurvivesRetry

(* A task that closes with an outcome of its agent rests on evidence that  *)
(* was committed or whose abandonment was reviewed, from whichever attempt *)
(* it came.                                                                *)
EvidenceIsSound ==
    \A t \in Tasks :
        task[t].intent = "normal" =>
            \A o \in task[t].evidence :
                op[o].kind # "fact" =>
                    op[o].state = "committed" \/ o \in task[t].reviewed

(* A task whose last attempt was a concession closes normally only with a  *)
(* memo of that very attempt in the store.                                 *)
ConcessionHasMemo ==
    \A t \in Tasks :
        /\ task[t].intent = "normal" /\ task[t].n > 0
        /\ LastAttempt(t).supp.kind \in Concessions
        => \E o \in Ops : /\ op[o].task = t /\ op[o].attempt = task[t].n
                         /\ op[o].kind = "memo" /\ op[o].state = "committed"

(* What a task that closes with an outcome of its agent has to show for it. *)
SoundOutcome == EvidenceIsSound /\ ConcessionHasMemo

(* From the moment its closing is decided the record of a task is frozen:  *)
(* no attempt starts, no operation arrives or changes, and the outcome     *)
(* stays, whatever stops, failures of the store or revocations follow.     *)
ClosingIsFinal ==
    [][\A t \in Tasks :
         task[t].intent # "none" =>
             /\ task'[t].intent = task[t].intent
             /\ task'[t].n = task[t].n
             /\ task'[t].state \in {"postprocessing", "closed"}
             /\ \A o \in Ops : op'[o].task = t => op'[o] = op[o]]_vars

(* A review is out of retries or an outcome is missing, or the record of   *)
(* the closing task could not be stored.                                   *)
AsksOperator(t) == task[t].state = "needs_attention" \/ task[t].unpublished

(* A slot is kept from the others for ever: by the proof-writer of the     *)
(* exception above, which waits for the operator, or by a task that has    *)
(* used up MaxAttempts.                                                    *)
SlotIsKept ==
    \E t \in Tasks : /\ task[t].reserved
                     /\ \/ t = Writer /\ AsksOperator(t)
                        \/ Launchable(t) /\ task[t].n = MaxAttempts

(* Every assigned task is closed, its record published, or from some moment*)
(* on waits without end for the operator, for such a slot or for the return*)
(* of the process, as long as attempts remain.                             *)
TaskSettles ==
    \A t \in Tasks :
        task[t].state = "launching" ~>
            \/ task[t].state = "closed" /\ t \in published
            \/ task[t].n = MaxAttempts
            \/ [](AsksOperator(t) \/ SlotIsKept \/ at = "down")

(***************************************************************************)
(* What the documents say and the code does not do.                        *)
(***************************************************************************)
(* The verdict that asked for a revision reaches an attempt before the     *)
(* task is closed by its agent, unless a newer Fact of the chain or the    *)
(* publication of one made it superfluous.                                 *)
Answered(t, o) ==
    \/ \E k \in 1..task[t].n : att[t][k].supp.cause = o
    \/ ~IsLatest(op, o) \/ ChainWon(op, op[o].chain)

RepairDelivered ==
    \A t \in Tasks, o \in Ops :
        /\ task[t].intent = "normal"
        /\ o \in OpsOf(t) /\ op[o].repair /\ op[o].request < RevisionLimit
        => Answered(t, o)

(* The same of the verdict that asked for a concession.                    *)
ConcessionDelivered ==
    \A t \in Tasks, o \in Ops :
        /\ task[t].intent = "normal"
        /\ o \in OpsOf(t) /\ op[o].repair /\ op[o].request = RevisionLimit
        => Answered(t, o)

(* A task whose last attempt ended normally and left nothing to repair is  *)
(* not closed as interrupted because an earlier attempt was.               *)
NormalEndCounts ==
    \A t \in Tasks :
        /\ task[t].intent = "interrupted" /\ task[t].n > 0
        /\ \A o \in OpsOf(t) : op[o].repair => Answered(t, o)
        /\ RejectedEvidence(t) = {} /\ ~MemoMissing(t)
        => LastAttempt(t).state # "ended"

=============================================================================
