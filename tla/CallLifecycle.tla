--------------------------- MODULE CallLifecycle ---------------------------
(***************************************************************************)
(* Logical agent calls from preparation to their durable commit, with the  *)
(* owners they serve, across failures, cancellations and full stops.       *)
(*                                                                         *)
(* Every scheduler action is one compare-and-swap transaction of           *)
(* src/franta/scheduler.py (_mutate); the steps of a runner between two    *)
(* transactions are those of src/franta/runtime.py, _run_prepared_call.    *)
(*                                                                         *)
(* The module follows the staged outputs (Ops) of one worker attempt of    *)
(* one task, the planning calls of the main agent and the attempts of      *)
(* Explorer workers.  Call ids come from one pool, as _allocate_id gives   *)
(* them.  A call whose kind is "none" has not been prepared.               *)
(***************************************************************************)
EXTENDS LogicalCall, Sequences, FiniteSets

CONSTANTS
    Calls,          \* call ids
    Ops,            \* the memory operations staged by the worker attempt
    FactOps,        \* those that propose a Fact: they need a verifier
    RetryLimit,     \* retry_policy.<kind>
    MaxVerifiers,   \* limits.max_parallel_verifiers
    MaxRestarts,    \* bound: how often the process comes back after a stop
    MaxAuths,       \* bound: how many retries the operator authorizes
    NoCall, NoOp    \* "no call", "no owner"

ASSUME ConstantsAssumption ==
    /\ FactOps \subseteq Ops
    /\ RetryLimit \in Nat \ {0}
    /\ MaxVerifiers \in Nat \ {0}
    /\ MaxRestarts \in Nat
    /\ MaxAuths \in Nat
    /\ NoCall \notin Calls
    /\ NoOp \notin Ops

VARIABLES
    calls,      \* the persisted call records
    leases,     \* history: leases[c][n] is the epoch of the n-th launch of c
    runner,     \* the process-local thread that drives each call
    ops,        \* the persisted operation records
    task,       \* the task that owns Ops
    exploring,  \* Explorer calls whose planned attempt has not ended
    attention,  \* the ids of the open needs_attention items
    halt,       \* halt_requested
    phase,      \* the process: "down", "recovering" (replay) or "running"
    restarts, auths

vars == <<calls, leases, runner, ops, task, exploring, attention, halt,
          phase, restarts, auths>>

Kinds == {"main", "synthesizer", "verifier", "explorer"}

NoReply == <<NoCall, NoLaunch>>

OpStates == {"received", "synthesizing", "verifying", "needs_attention",
             "committed", "rejected", "abandoned"}

FinalOpStates == {"committed", "rejected", "abandoned"}

Idle == [pc |-> "idle", epoch |-> 0, launch |-> NoLaunch]

(***************************************************************************)
(* Derived state.                                                          *)
(***************************************************************************)
Prepared(c) == calls[c].kind # "none"

OfKind(kind) == {c \in Calls : calls[c].kind = kind}

Status(c) == calls[c].status

(* The synthesizer or verifier call an operation points at.                *)
Pointer(o, kind) == IF kind = "synthesizer" THEN ops[o].synth ELSE ops[o].verif

(* What the operation is waiting for while a review of this kind runs.     *)
Reviewing(kind) == IF kind = "synthesizer" THEN "synthesizing" ELSE "verifying"

AttemptEnded == task.ended

(* mark_call_running lets a verifier start only on a Fact under            *)
(* verification whose source worker attempt has ended.                     *)
MayStart(c) ==
    calls[c].kind = "verifier" =>
        /\ ops[calls[c].owner].state = "verifying"
        /\ AttemptEnded

(* _halt_required *)
HaltRequired(cs) ==
    \E c \in Calls : cs[c].kind = "main" /\ cs[c].status = "needs_attention"

CallItem(c) == <<"call", c>>
OpItem(o) == <<"operation", o>>

(* One control thread runs main and review calls one after the other;      *)
(* Explorer calls run in threads of their own.                             *)
ControlThreadFree ==
    \A c \in Calls : calls[c].kind # "explorer" => runner[c].pc = "idle"

Goto(c, pc) == runner' = [runner EXCEPT ![c].pc = pc]
Return(c) == runner' = [runner EXCEPT ![c] = Idle]

SetCall(c, k) == calls' = [calls EXCEPT ![c] = k]

(* An exception nobody contains ends the run; calls keep their state.      *)
RunAborts ==
    /\ phase' = "down"
    /\ runner' = [c \in Calls |-> Idle]

(* _maybe_close_task: what the task becomes once operations are os.        *)
CloseOutcomes(t, os) ==
    LET rejected == \E o \in t.evidence : os[o].state \in {"rejected", "abandoned"}
    IN  CASE t.state \notin {"postprocessing", "needs_attention"} -> {t}
          [] \E o \in Ops : os[o].state = "needs_attention" ->
                {[t EXCEPT !.state = "needs_attention"]}
          [] \E o \in Ops : os[o].state \notin FinalOpStates -> {t}
          [] rejected /\ t.state = "needs_attention" -> {t}
          [] rejected -> {[t EXCEPT !.state = "revision_pending"]}
          [] OTHER -> {[t EXCEPT !.state = "closed"]}

(* A postprocessing task is paused when one of its calls is exhausted.     *)
Paused(t) == IF t.state = "postprocessing"
             THEN [t EXCEPT !.state = "needs_attention"] ELSE t

(***************************************************************************)
(* Initial state: the worker attempt has staged its operations.            *)
(***************************************************************************)
Init ==
    /\ calls = [c \in Calls |-> Absent(NoOp)]
    /\ leases = [c \in Calls |-> << >>]
    /\ runner = [c \in Calls |-> Idle]
    /\ ops = [o \in Ops |->
                [state |-> "synthesizing", synth |-> NoCall, verif |-> NoCall,
                 synthReply |-> NoReply, verifReply |-> NoReply,
                 verified |-> FALSE]]
    /\ task = [state |-> "running", ended |-> FALSE, evidence |-> {}]
    /\ exploring = {}
    /\ attention = {}
    /\ halt = FALSE
    /\ phase = "running"
    /\ restarts = 0
    /\ auths = 0

(***************************************************************************)
(* Preparing calls.                                                        *)
(***************************************************************************)
LiveOfKind(kind) == {c \in OfKind(kind) : Status(c) \in Live}

(* Mutant of MainShouldRun: planning goes on while the operator is asked. *)
MainShouldRunDespiteHalt == LiveOfKind("main") = {}

(* _main_should_run, and the one live main call prepare_call admits. *)
MainShouldRun == ~halt /\ LiveOfKind("main") = {}

(* _run_main *)
PrepareMain(c) ==
    /\ phase = "running" /\ ControlThreadFree
    /\ ~Prepared(c)
    /\ MainShouldRun
    /\ SetCall(c, PrepareCall("main", NoOp, RetryLimit))
    /\ UNCHANGED <<leases, runner, ops, task, exploring, attention, halt, phase,
                   restarts, auths>>

(* prepare_synthesizer_call / prepare_verifier_call on an operation that    *)
(* has no call of this kind yet, through _prepare_owned_call.               *)
PrepareReview(c, o, kind) ==
    /\ phase = "running" /\ ControlThreadFree
    /\ ~Prepared(c)
    /\ ops[o].state = Reviewing(kind)
    /\ Pointer(o, kind) = NoCall
    /\ kind = "verifier" =>
          /\ AttemptEnded
          /\ Cardinality(LiveOfKind("verifier")) < MaxVerifiers
    /\ SetCall(c, PrepareCall(kind, o, RetryLimit))
    /\ ops' = IF kind = "synthesizer" THEN [ops EXCEPT ![o].synth = c]
                                      ELSE [ops EXCEPT ![o].verif = c]
    /\ UNCHANGED <<leases, runner, task, exploring, attention, halt, phase,
                   restarts, auths>>

(* prepare_explorer_attempt: the attempt of a lineage and its call. *)
PrepareExplorer(c) ==
    /\ phase = "running"
    /\ ~Prepared(c)
    /\ SetCall(c, PrepareCall("explorer", NoOp, RetryLimit))
    /\ exploring' = exploring \cup {c}
    /\ UNCHANGED <<leases, runner, ops, task, attention, halt, phase, restarts,
                   auths>>

(***************************************************************************)
(* A runner: _run_prepared_call and the commit that follows it.            *)
(***************************************************************************)

(* Mutant of Resumable: a review left retry-pending by a stop is forgotten. *)
ResumableWhenPrepared(c) ==
    /\ Status(c) \notin Settled \cup {"retry_pending"}
    /\ Status(c) = "needs_attention" => CallItem(c) \notin attention

(* _advance_operations skips a settled review and one that waits for the    *)
(* operator; it drives every other status.                                 *)
Resumable(c) ==
    /\ Status(c) \notin Settled
    /\ Status(c) = "needs_attention" => CallItem(c) \notin attention

(* The call of a review is found through its operation, or, once it is     *)
(* completed, through _commit_completed_calls.                             *)
ReviewPending(c) ==
    LET o == calls[c].owner
        k == calls[c].kind
    IN  /\ \/ ops[o].state = Reviewing(k) /\ Pointer(o, k) = c
           \/ Status(c) = "completed"
        /\ k = "verifier" => AttemptEnded
        /\ Resumable(c)

(* The loop picks up a call: an Explorer call through call_is_launchable,   *)
(* a main call through _recover_control_calls, a review as above.          *)
Pick(c) ==
    /\ phase = "running"
    /\ Prepared(c) /\ runner[c].pc = "idle"
    /\ calls[c].kind # "explorer" => ControlThreadFree
    /\ CASE calls[c].kind = "explorer" ->
              c \in exploring /\ Status(c) \in {"prepared", "retry_pending", "completed"}
         [] calls[c].kind = "main" ->
              Status(c) \in {"prepared", "retry_pending", "completed"}
         [] OTHER -> ReviewPending(c)
    /\ Goto(c, IF Status(c) = "completed" THEN "returned" ELSE "launching")
    /\ UNCHANGED <<calls, leases, ops, task, exploring, attention, halt, phase,
                   restarts, auths>>

(* mark_call_running *)
LaunchCall(c) ==
    /\ runner[c].pc = "launching"
    /\ MayStart(c) /\ CanLaunch(calls[c])
    /\ SetCall(c, Launch(calls[c]))
    /\ leases' = [leases EXCEPT ![c] = Append(@, calls[c].epoch)]
    /\ runner' = [runner EXCEPT ![c] = [pc |-> "invoking", epoch |-> calls[c].epoch,
                                        launch |-> calls[c].attempt + 1]]
    /\ UNCHANGED <<ops, task, exploring, attention, halt, phase, restarts, auths>>

(* The exception mark_call_running raises leaves _run_prepared_call: the   *)
(* harvest ignores it for a call cancelled meanwhile, and otherwise the    *)
(* run ends.                                                               *)
LaunchRefused(c) ==
    /\ runner[c].pc = "launching"
    /\ ~(MayStart(c) /\ CanLaunch(calls[c]))
    /\ IF Status(c) = "cancelled" THEN Return(c) /\ UNCHANGED phase ELSE RunAborts
    /\ UNCHANGED <<calls, leases, ops, task, exploring, attention, halt, restarts,
                   auths>>

(* accept_call_result; a rejected lease or state raises into the handler. *)
AcceptReply(c) ==
    /\ runner[c].pc = "invoking"
    /\ IF CanReceive(calls[c], runner[c].epoch, runner[c].launch)
       THEN SetCall(c, ReceiveResult(calls[c], runner[c].launch)) /\ Goto(c, "returned")
       ELSE Goto(c, "raised") /\ UNCHANGED calls
    /\ UNCHANGED <<leases, ops, task, exploring, attention, halt, phase, restarts,
                   auths>>

(* The agent, its transport or the validation of its reply fails. *)
AgentFails(c) ==
    /\ runner[c].pc = "invoking"
    /\ Goto(c, "raised")
    /\ UNCHANGED <<calls, leases, ops, task, exploring, attention, halt, phase,
                   restarts, auths>>

(* The handler reads the status outside any transaction. *)
ReadStatus(c) ==
    /\ runner[c].pc = "raised"
    /\ IF Status(c) \in {"cancelled", "superseded"}
       THEN Return(c)
       ELSE Goto(c, "recording")
    /\ UNCHANGED <<calls, leases, ops, task, exploring, attention, halt, phase,
                   restarts, auths>>

(* What mark_call_failed and reject_call_result do to the owner of k once  *)
(* no retry is left: an open item, the halt of a control kind, and an      *)
(* operation and its task that wait for the operator.                      *)
Exhaust(c, k) ==
    /\ attention' = attention \cup {CallItem(c)}
    /\ halt' = (halt \/ k.kind = "main")
    /\ IF k.owner = NoOp
       THEN UNCHANGED <<ops, task>>
       ELSE /\ ops' = [ops EXCEPT ![k.owner].state = "needs_attention"]
            /\ task' = Paused(task)

(* k is the call after one failed attempt: loop, or leave it to the owner. *)
AfterFailure(c, k) ==
    /\ SetCall(c, k)
    /\ IF k.status = "retry_pending"
       THEN Goto(c, "launching") /\ UNCHANGED <<ops, task, attention, halt>>
       ELSE /\ IF k.kind = "explorer" THEN Goto(c, "exhausted") ELSE Return(c)
            /\ Exhaust(c, k)

(* mark_call_failed, with the epoch the runner launched under. *)
RecordFailure(c) ==
    /\ runner[c].pc = "recording"
    /\ CanFail(calls[c], runner[c].epoch)
    /\ AfterFailure(c, RecordTransportFailure(calls[c]))
    /\ UNCHANGED <<leases, exploring, phase, restarts, auths>>

(* mark_call_failed raises StaleLeaseError, which nobody catches. *)
FailureRefused(c) ==
    /\ runner[c].pc = "recording"
    /\ ~CanFail(calls[c], runner[c].epoch)
    /\ RunAborts
    /\ UNCHANGED <<calls, leases, ops, task, exploring, attention, halt, restarts,
                   auths>>

(* fail_explorer_attempt: contain a call that could not finish. *)
Contained(c) ==
    /\ SetCall(c, Cancel(calls[c]))
    /\ exploring' = exploring \ {c}
    /\ attention' = attention \ {CallItem(c)}

(* The wave's harvest contains an Explorer call whose retries ran out. *)
ContainExplorer(c) ==
    /\ runner[c].pc = "exhausted"
    /\ IF c \in exploring
       THEN Contained(c) /\ Return(c) /\ UNCHANGED phase
       ELSE IF Status(c) = "cancelled"
            THEN Return(c) /\ UNCHANGED <<calls, exploring, attention, phase>>
            ELSE RunAborts /\ UNCHANGED <<calls, exploring, attention>>
    /\ UNCHANGED <<leases, ops, task, halt, restarts, auths>>

(***************************************************************************)
(* Committing a received reply.                                            *)
(***************************************************************************)

(* _commit_main_result: applied and committed, or rejected as invalid; a   *)
(* control call cancelled meanwhile is left alone.                         *)
CommitMain(c) ==
    /\ runner[c].pc = "returned" /\ calls[c].kind = "main"
    /\ \/ /\ CanCommit(calls[c])
          /\ SetCall(c, CommitResult(calls[c]))
          /\ Return(c)
          /\ UNCHANGED <<ops, task, attention, halt>>
       \/ /\ CanReject(calls[c])
          /\ AfterFailure(c, RejectInvalidResult(calls[c]))
       \/ /\ Status(c) = "cancelled"
          /\ Return(c)
          /\ UNCHANGED <<calls, ops, task, attention, halt>>
    /\ UNCHANGED <<leases, exploring, phase, restarts, auths>>

(* commit_explorer_attempt; a root candidate cancels every other attempt   *)
(* and resolves its item.  The wave skips a cancelled call, and an attempt *)
(* that has already ended makes the commit raise.                          *)
CommitExplorer(c) ==
    /\ runner[c].pc = "returned" /\ calls[c].kind = "explorer"
    /\ \/ /\ Status(c) = "completed" /\ c \in exploring
          /\ \E others \in {{}, exploring \ {c}} :
                /\ calls' = [d \in Calls |->
                               IF d = c THEN CommitResult(calls[c])
                               ELSE IF d \in others THEN Cancel(calls[d])
                               ELSE calls[d]]
                /\ exploring' = exploring \ ({c} \cup others)
                /\ attention' = attention \ {CallItem(d) : d \in others}
          /\ Return(c)
          /\ UNCHANGED phase
       \/ /\ Status(c) = "cancelled"
          /\ Return(c)
          /\ UNCHANGED <<calls, exploring, attention, phase>>
       \/ /\ Status(c) # "cancelled" /\ c \notin exploring
          /\ RunAborts
          /\ UNCHANGED <<calls, exploring, attention>>
    /\ UNCHANGED <<leases, ops, task, halt, restarts, auths>>

Reply(c) == <<c, calls[c].result>>

(* The operation already took exactly this reply, or never will: it is     *)
(* neither waiting for it nor recorded to have applied it.                 *)
AppliedReply(c) ==
    LET op == ops[calls[c].owner]
    IN  IF calls[c].kind = "synthesizer" THEN op.synthReply = Reply(c)
                                         ELSE op.verifReply = Reply(c)

Awaited(c) ==
    /\ Status(c) = "completed"
    /\ ops[calls[c].owner].state = Reviewing(calls[c].kind)

IsReview(c) == calls[c].kind \in {"synthesizer", "verifier"}

(* apply_synthesizer_result.  The scope the review read may have changed:  *)
(* the call is detached and a new one will reconfirm.  Otherwise a         *)
(* duplicate commits the operation, a new Fact goes to verification and    *)
(* anything else is received for publication.                              *)
ApplySynthesis(c) ==
    LET o == calls[c].owner
        took == [ops[o] EXCEPT !.synthReply = Reply(c)]
    IN  /\ runner[c].pc = "returned" /\ calls[c].kind = "synthesizer"
        /\ Awaited(c)
        /\ \/ /\ ops' = [ops EXCEPT ![o].synth = NoCall]
              /\ Goto(c, "marking")
           \/ /\ ops' = [ops EXCEPT ![o] = [took EXCEPT !.state = "committed"]]
              /\ Goto(c, "closing")
           \/ /\ o \in FactOps
              /\ ops' = [ops EXCEPT ![o] = [took EXCEPT !.state = "verifying"]]
              /\ Goto(c, "marking")
           \/ /\ o \notin FactOps
              /\ ops' = [ops EXCEPT ![o] = [took EXCEPT !.state = "received"]]
              /\ Goto(c, "publishing")
        /\ UNCHANGED <<calls, leases, task, exploring, attention, halt, phase,
                       restarts, auths>>

(* apply_verifier_report, correct: the verdict is persisted first. *)
ApplyCorrect(c) ==
    LET o == calls[c].owner
    IN  /\ runner[c].pc = "returned" /\ calls[c].kind = "verifier"
        /\ Awaited(c) /\ AttemptEnded
        /\ ops' = [ops EXCEPT ![o].verifReply = Reply(c), ![o].verified = TRUE]
        /\ Goto(c, "publishing")
        /\ UNCHANGED <<calls, leases, task, exploring, attention, halt, phase,
                       restarts, auths>>

(* _handle_incorrect_fact: the rejection, the commit of the very call that *)
(* carried it, and the revision of the task, in one transaction.           *)
ApplyIncorrect(c) ==
    LET o == calls[c].owner
    IN  /\ runner[c].pc = "returned" /\ calls[c].kind = "verifier"
        /\ Awaited(c) /\ AttemptEnded
        /\ task.state # "closed"
        /\ ops' = [ops EXCEPT ![o].state = "rejected", ![o].verifReply = Reply(c)]
        /\ SetCall(c, CommitResult(calls[c]))
        /\ task' = [task EXCEPT !.state = "revision_pending"]
        /\ Goto(c, "marking")
        /\ UNCHANGED <<leases, exploring, attention, halt, phase, restarts, auths>>

(* The same reply was applied before a stop: nothing is applied twice. *)
ApplyAgain(c) ==
    /\ runner[c].pc = "returned" /\ IsReview(c)
    /\ Status(c) = "completed"
    /\ ~Awaited(c) /\ AppliedReply(c)
    /\ calls[c].kind = "verifier" => AttemptEnded
    /\ Goto(c, "marking")
    /\ UNCHANGED <<calls, leases, ops, task, exploring, attention, halt, phase,
                   restarts, auths>>

(* Mutant of RejectReply: a reply that was applied counts as unexpected. *)
RejectAppliedReply(c) ==
    /\ runner[c].pc = "returned" /\ IsReview(c)
    /\ CanReject(calls[c])
    /\ AfterFailure(c, RejectInvalidResult(calls[c]))
    /\ UNCHANGED <<leases, exploring, phase, restarts, auths>>

(* reject_call_result: the reply is malformed or names a stale revision,   *)
(* or the operation is in another state than the one it was asked about.   *)
RejectReply(c) ==
    /\ runner[c].pc = "returned" /\ IsReview(c)
    /\ CanReject(calls[c])
    /\ Awaited(c) \/ ~AppliedReply(c)
    /\ AfterFailure(c, RejectInvalidResult(calls[c]))
    /\ UNCHANGED <<leases, exploring, phase, restarts, auths>>

(* _commit_memory_operation / _publish_verified_fact: the store applies    *)
(* the operation, refuses it or, for a Fact, fails.                        *)
Published(o) ==
    \/ /\ ops' = [ops EXCEPT ![o].state = "committed"]
       /\ attention' = attention \ {OpItem(o)}
    \/ /\ ops' = [ops EXCEPT ![o].state = "rejected"]
       /\ attention' = attention \ {OpItem(o)}
    \/ /\ o \in FactOps
       /\ ops' = [ops EXCEPT ![o].state = "needs_attention"]
       /\ attention' = attention \cup {OpItem(o)}

(* A verifier call whose Fact the store refuses is committed with it. *)
Publish(c) ==
    LET o == calls[c].owner
    IN  /\ runner[c].pc = "publishing"
        /\ Published(o)
        /\ SetCall(c, IF ops'[o].state = "rejected" /\ CanReject(calls[c])
                         /\ o \in FactOps
                      THEN CommitResult(calls[c]) ELSE calls[c])
        /\ Goto(c, IF ops'[o].state = "needs_attention" THEN "marking" ELSE "closing")
        /\ UNCHANGED <<leases, task, exploring, halt, phase, restarts, auths>>

(* _on_operation_terminal *)
CloseTask(c) ==
    /\ runner[c].pc = "closing"
    /\ task' \in CloseOutcomes(task, ops)
    /\ Goto(c, "marking")
    /\ UNCHANGED <<calls, leases, ops, exploring, attention, halt, phase, restarts,
                   auths>>

(* mark_call_committed *)
MarkCommitted(c) ==
    /\ runner[c].pc = "marking"
    /\ CanCommit(calls[c])
    /\ SetCall(c, CommitResult(calls[c]))
    /\ Return(c)
    /\ UNCHANGED <<leases, ops, task, exploring, attention, halt, phase, restarts,
                   auths>>

(***************************************************************************)
(* The worker attempt, the Explorer deadline and the alternation           *)
(* controller.                                                             *)
(***************************************************************************)

(* _end_attempt_from_progress and the close check that follows; evidence   *)
(* is limited to operations that are not Facts, and abandoned or rejected  *)
(* Facts are repaired elsewhere.                                           *)
AttemptEnds(evidence) ==
    /\ phase = "running"
    /\ task.state = "running"
    /\ task' \in CloseOutcomes([state |-> "postprocessing", ended |-> TRUE,
                                evidence |-> evidence], ops)
    /\ UNCHANGED <<calls, leases, runner, ops, exploring, attention, halt, phase,
                   restarts, auths>>

(* start_task_attempt for a revision; what it stages is not followed. *)
StartAttempt ==
    /\ phase = "running" /\ ControlThreadFree
    /\ task.state = "revision_pending"
    /\ task' = [task EXCEPT !.state = "running"]
    /\ UNCHANGED <<calls, leases, runner, ops, exploring, attention, halt, phase,
                   restarts, auths>>

(* expire_explorer_attempts: the wave's main thread, while worker threads run. *)
ExpireExplorer(c) ==
    /\ phase = "running"
    /\ c \in exploring
    /\ SetCall(c, Cancel(calls[c]))
    /\ exploring' = exploring \ {c}
    /\ UNCHANGED <<leases, runner, ops, task, attention, halt, phase, restarts,
                   auths>>

(* _cancel_franta_control_calls_locked: planning is no longer admitted. *)
CancelControl ==
    LET stale == {c \in OfKind("main") : Status(c) \notin Settled}
    IN  /\ phase = "running"
        /\ stale # {}
        /\ calls' = [c \in Calls |-> IF c \in stale THEN CancelAndAdvance(calls[c])
                                                    ELSE calls[c]]
        /\ attention' = attention \ {CallItem(c) : c \in stale}
        /\ halt' = HaltRequired(calls')
        /\ UNCHANGED <<leases, runner, ops, task, exploring, phase, restarts, auths>>

(***************************************************************************)
(* The operator, between two passes of the run loop.                       *)
(***************************************************************************)

(* retry_attention_call *)
RestoreOwner(c) ==
    LET o == calls[c].owner
    IN  IF ~IsReview(c) THEN UNCHANGED ops
        ELSE /\ Pointer(o, calls[c].kind) = c
             /\ ops[o].state = "needs_attention"
             /\ calls[c].kind = "verifier" => task.state = "needs_attention"
             /\ ops' = [ops EXCEPT ![o].state = Reviewing(calls[c].kind)]

OperatorRetry(c) ==
    /\ phase = "running" /\ ControlThreadFree
    /\ auths < MaxAuths
    /\ Prepared(c) /\ CanAuthorize(calls[c])
    /\ RestoreOwner(c)
    /\ SetCall(c, AuthorizeRetry(calls[c]))
    /\ attention' = attention \ {CallItem(c)}
    /\ halt' = HaltRequired(calls')
    /\ auths' = auths + 1
    /\ UNCHANGED <<leases, runner, task, exploring, phase, restarts>>

(* abandon_operation, for an operation that is not completion evidence: a  *)
(* Fact's calls are fenced by the proposal cascade, another operation's    *)
(* call is left as it is.                                                  *)
OperatorAbandon(o) ==
    LET fenced == {c \in {ops[o].synth, ops[o].verif} \ {NoCall} :
                      o \in FactOps /\ Status(c) \notin Settled}
    IN  /\ phase = "running" /\ ControlThreadFree
        /\ ops[o].state \notin FinalOpStates
        /\ o \notin task.evidence
        /\ ops' = [ops EXCEPT ![o].state = "abandoned"]
        /\ calls' = [c \in Calls |-> IF c \in fenced THEN Fence(calls[c], "superseded")
                                                     ELSE calls[c]]
        /\ attention' = attention \ {OpItem(o)}
        /\ task' \in CloseOutcomes(task, ops')
        /\ UNCHANGED <<leases, runner, exploring, halt, phase, restarts, auths>>

(***************************************************************************)
(* Full stops and recovery.                                                *)
(***************************************************************************)

(* The process dies between any two transactions. *)
Stop ==
    /\ phase # "down"
    /\ RunAborts
    /\ UNCHANGED <<calls, leases, ops, task, exploring, attention, halt, restarts,
                   auths>>

(* recover: one transaction, through reconcile_after_full_stop. *)
Recover ==
    /\ phase = "down" /\ restarts < MaxRestarts
    /\ calls' = [c \in Calls |-> ReconcileAfterStop(calls[c])]
    /\ halt' = HaltRequired(calls')
    /\ phase' = "recovering"
    /\ restarts' = restarts + 1
    /\ UNCHANGED <<leases, runner, ops, task, exploring, attention, auths>>

(* reconcile_pending_ingestion repeats what the stop may have cut off:     *)
(* _reconcile_continuation_call_owners,                                    *)
Detached(c) ==
    /\ calls[c].kind = "synthesizer"
    /\ Status(c) \in Live \cup {"needs_attention"}
    /\ ops[calls[c].owner].synth = NoCall

ReattachOwner(c) ==
    /\ phase = "recovering"
    /\ Detached(c)
    /\ ops' = [ops EXCEPT ![calls[c].owner].synth = c]
    /\ UNCHANGED <<calls, leases, runner, task, exploring, attention, halt, phase,
                   restarts, auths>>

(* the publication of what was received or verified,                       *)
ReplayPublication(o) ==
    /\ phase = "recovering"
    /\ \/ ops[o].state = "received"
       \/ ops[o].state \in {"verifying", "needs_attention"} /\ ops[o].verified
    /\ Published(o)
    /\ calls' = [c \in Calls |->
                   IF c = ops[o].verif /\ ops'[o].state = "rejected"
                      /\ CanReject(calls[c])
                   THEN CommitResult(calls[c]) ELSE calls[c]]
    /\ UNCHANGED <<leases, runner, task, exploring, halt, phase, restarts, auths>>

(* and the close check of every task; then the run loop starts.            *)
FinishRecovery ==
    /\ phase = "recovering"
    /\ \A o \in Ops : /\ ops[o].state # "received"
                      /\ ops[o].state = "verifying" => ~ops[o].verified
    /\ \A c \in Calls : ~Detached(c)
    /\ task' \in CloseOutcomes(task, ops)
    /\ phase' = "running"
    /\ UNCHANGED <<calls, leases, runner, ops, exploring, attention, halt, restarts,
                   auths>>

(* accept_call_result from a launch that is no longer awaited: a late or a *)
(* repeated reply of any earlier launch.                                   *)
LateReply(c) ==
    /\ phase = "running"
    /\ \E n \in 1..Len(leases[c]) :
          /\ CanReceive(calls[c], leases[c][n], n)
          /\ runner[c].launch # n
          /\ SetCall(c, ReceiveResult(calls[c], n))
    /\ UNCHANGED <<leases, runner, ops, task, exploring, attention, halt, phase,
                   restarts, auths>>

(***************************************************************************)
(* The specification.                                                      *)
(***************************************************************************)
RunnerStep(c) ==
    \/ LaunchCall(c) \/ LaunchRefused(c) \/ AcceptReply(c) \/ AgentFails(c)
    \/ ReadStatus(c) \/ RecordFailure(c) \/ FailureRefused(c)
    \/ CommitMain(c) \/ CommitExplorer(c)
    \/ ApplySynthesis(c) \/ ApplyCorrect(c) \/ ApplyIncorrect(c)
    \/ ApplyAgain(c) \/ RejectReply(c)
    \/ Publish(c) \/ CloseTask(c) \/ MarkCommitted(c)

ReviewStep ==
    \/ \E c \in Calls, o \in Ops, kind \in {"synthesizer", "verifier"} :
          PrepareReview(c, o, kind)
    \/ \E c \in Calls : IsReview(c) /\ (Pick(c) \/ RunnerStep(c))

Next ==
    \/ \E c \in Calls :
          \/ PrepareMain(c) \/ PrepareExplorer(c) \/ Pick(c) \/ RunnerStep(c)
          \/ ContainExplorer(c) \/ ExpireExplorer(c)
          \/ OperatorRetry(c) \/ ReattachOwner(c) \/ LateReply(c)
    \/ \E c \in Calls, o \in Ops, kind \in {"synthesizer", "verifier"} :
          PrepareReview(c, o, kind)
    \/ \E o \in Ops : OperatorAbandon(o) \/ ReplayPublication(o)
    \/ \E evidence \in SUBSET (Ops \ FactOps) : AttemptEnds(evidence)
    \/ StartAttempt \/ CancelControl \/ Stop \/ Recover \/ FinishRecovery

Spec == Init /\ [][Next]_vars

(***************************************************************************)
(* Type correctness.                                                       *)
(***************************************************************************)
PCs == {"idle", "launching", "invoking", "raised", "recording", "exhausted",
        "returned", "publishing", "closing", "marking"}

CallRecord ==
    [kind : Kinds \cup {"none"}, owner : Ops \cup {NoOp},
     status : CallStates \cup {"absent"}, epoch : Nat \ {0},
     fenced : SUBSET Nat, attempt : Nat, retries : Nat, limit : Nat,
     result : Nat]

Replies == (Calls \cup {NoCall}) \X Nat

OpRecord ==
    [state : OpStates, synth : Calls \cup {NoCall}, verif : Calls \cup {NoCall},
     synthReply : Replies, verifReply : Replies, verified : BOOLEAN]

TaskStates == {"running", "postprocessing", "needs_attention",
               "revision_pending", "closed"}

TaskRecord == [state : TaskStates, ended : BOOLEAN, evidence : SUBSET Ops]

RunnerRecord == [pc : PCs, epoch : Nat, launch : Nat]

Items == ({"call"} \X Calls) \cup ({"operation"} \X Ops)

TypeOK ==
    /\ calls \in [Calls -> CallRecord]
    /\ leases \in [Calls -> Seq(Nat)]
    /\ runner \in [Calls -> RunnerRecord]
    /\ ops \in [Ops -> OpRecord]
    /\ task \in TaskRecord
    /\ exploring \subseteq Calls
    /\ attention \subseteq Items
    /\ halt \in BOOLEAN
    /\ phase \in {"down", "recovering", "running"}
    /\ restarts \in 0..MaxRestarts
    /\ auths \in 0..MaxAuths

(***************************************************************************)
(* Safety.                                                                 *)
(***************************************************************************)
(* A lease is launched at most once: the epochs of the successive launches *)
(* of a call increase strictly, through every failure, rejection,          *)
(* cancellation and full stop, so a launch can always be told from the     *)
(* ones before it.                                                         *)
EachLeaseOneLaunch ==
    \A c \in Calls : \A i, j \in 1..Len(leases[c]) :
        i < j => leases[c][i] < leases[c][j]

(* The reply a completed or committed call holds is the reply of its last  *)
(* launch: no late, repeated or fenced reply was ever taken for it.        *)
ReplyOfLastLaunch ==
    \A c \in Calls :
        Status(c) \in {"completed", "committed"} =>
            calls[c].result = Len(leases[c]) /\ calls[c].result # NoLaunch

(* The retry budget pays for every launch: a call is launched once for     *)
(* each recorded failure or rejected reply, each restart, and once more.   *)
LaunchesPaid ==
    \A c \in Calls : calls[c].attempt <= 1 + calls[c].retries + restarts

(* A call that may still be launched has budget left, whatever the mixture *)
(* of failures, rejections, stops and operator retries that led there.     *)
BudgetKept ==
    \A c \in Calls :
        /\ Status(c) \in Live => calls[c].retries <= calls[c].limit
        /\ calls[c].retries <= calls[c].limit + 1

(* What the lease epochs and the retry counter of a call are for, together: *)
(* a reply is known to be that of the last launch, and every launch was    *)
(* allowed.                                                                *)
LeaseDiscipline ==
    EachLeaseOneLaunch /\ ReplyOfLastLaunch /\ LaunchesPaid /\ BudgetKept

(* The halt flag is set exactly while a planning call waits for the        *)
(* operator; it is maintained incrementally and must agree with _halt_required *)
(* after every transaction.                                                *)
HaltMatchesCalls == halt = HaltRequired(calls)

(* At most one planning call is live, operator retries included: an        *)
(* exhausted one keeps the halt that stops its successor.                  *)
OneLiveMain == Cardinality(LiveOfKind("main")) <= 1

(* The stored halt flag and the admission of planning calls agree with the *)
(* calls, through exhaustion, retries by the operator and recovery.        *)
PlanningIsGuarded == HaltMatchesCalls /\ OneLiveMain

(* A reply takes effect once: from the transaction that applied a review's *)
(* reply on, the call that gave it is only committed or fenced, so no stop *)
(* before mark_call_committed makes another agent answer again.            *)
AppliedNeverRerun ==
    \A c \in Calls, o \in Ops :
        c \in {ops[o].synthReply[1], ops[o].verifReply[1]} =>
            Status(c) \in {"completed", "committed", "superseded"}

(* And no reply is lost: a committed review was applied to its operation,  *)
(* unless the operation detached the call to have it reconfirmed.          *)
CommittedWasApplied ==
    \A c \in Calls :
        IsReview(c) /\ Status(c) = "committed" =>
            AppliedReply(c) \/ Pointer(calls[c].owner, calls[c].kind) # c

(* Every reply of a review is applied exactly once. *)
AppliedOnce == AppliedNeverRerun /\ CommittedWasApplied

(* A verdict or a publication is never revised by a later review, retry or *)
(* recovery.                                                               *)
DispositionKept ==
    [][\A o \in Ops : ops[o].state \in {"committed", "rejected"} =>
           ops'[o].state = ops[o].state]_vars

(***************************************************************************)
(* What the documentation states and the code does not keep.               *)
(***************************************************************************)
(* Design.md, 9.6: every submitted operation reaches a terminal committed, *)
(* rejected, or abandoned disposition before the task closes.              *)
ClosedMeansTerminal ==
    task.state = "closed" => \A o \in Ops : ops[o].state \in FinalOpStates

(* Design.md, 9.5 and 9.6: exhaustion creates needs_attention, which the   *)
(* operator can answer with another retry.                                 *)
ExhaustionHasItem ==
    phase = "running" =>
        \A c \in Calls : IsReview(c) /\ Status(c) = "needs_attention" =>
            \/ CallItem(c) \in attention
            \/ ops[calls[c].owner].state \in FinalOpStates

(***************************************************************************)
(* Liveness.  The run loop is one thread that keeps taking the steps it    *)
(* can: each pass picks what is pending, and every agent call ends, by a   *)
(* reply or by its transport's timeout.                                    *)
(***************************************************************************)
MainStep ==
    \E c \in Calls : calls[c].kind = "main" /\ (Pick(c) \/ RunnerStep(c))

ReplayStep ==
    \/ \E c \in Calls : ReattachOwner(c)
    \/ \E o \in Ops : ops[o].state # "needs_attention" /\ ReplayPublication(o)
    \/ FinishRecovery

Fairness == WF_vars(ReviewStep) /\ WF_vars(MainStep) /\ WF_vars(ReplayStep)

FairSpec == Spec /\ Fairness

(* If the process is eventually not stopped any more, every prepared       *)
(* review is answered for: it is committed or fenced, or it waits for the  *)
(* operator, or its operation was settled without it.                      *)
ReviewSettles ==
    <>[](phase = "running") =>
        \A c \in Calls :
            (IsReview(c) /\ Status(c) \in Live /\ AttemptEnded) ~>
                \/ Status(c) \in Settled \cup {"needs_attention"}
                \/ \E o \in Ops : o = calls[c].owner /\ ops[o].state \in FinalOpStates
=============================================================================
