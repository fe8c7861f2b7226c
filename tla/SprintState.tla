---------------------------- MODULE SprintState ----------------------------
(***************************************************************************)
(* The reducers of one discovery sprint                                    *)
(* (src/franta/exploration_control/state.py).                              *)
(*                                                                         *)
(* A sprint record carries                                                 *)
(*   status       where the sprint is;                                     *)
(*   attached     its batch of lanes was attached;                         *)
(*   skip         skip_synthesis_and_trim;                                 *)
(*   frozen       its synthesis input was frozen;                          *)
(*   summary, cancelled   what it continues to the trimmer with;           *)
(*   integration  the portfolio revision its trim committed, 0 before.     *)
(*                                                                         *)
(* Each transition is a pair: a guard saying when the reducer does not     *)
(* raise, and the record it returns.                                       *)
(***************************************************************************)
EXTENDS Naturals

Statuses == {"absent", "no_sprint", "waiting_for_slots", "running",
             "awaiting_summary", "trimmer_continuation", "needs_attention",
             "draining_after_root_resolution", "integrated",
             "closed_without_summary", "cancelled_by_root_resolution"}

NoSprintYet == [status |-> "absent", attached |-> FALSE, skip |-> FALSE,
                frozen |-> FALSE, summary |-> FALSE, cancelled |-> FALSE,
                integration |-> 0]

(* --- persist_sprint_plan: a plan that exists is only read back --------- *)
CanPersist(sp, gate, another) ==
    gate = "trimming" /\ (sp.status # "absent" \/ ~another)

Persist(sp, decision) ==
    IF sp.status # "absent" THEN sp
    ELSE [sp EXCEPT !.status = IF decision = "sprint" THEN "waiting_for_slots"
                                                      ELSE "no_sprint"]

(* --- mark_sprint_launch_needs_attention, before a batch exists --------- *)
LaunchAttention(sp) == [sp EXCEPT !.status = "needs_attention"]

(* --- attach_sprint_batch ----------------------------------------------- *)
CanAttach(sp) == sp.status \in {"waiting_for_slots", "running"}

Attach(sp) == [sp EXCEPT !.status = "running", !.attached = TRUE]

(* --- advance_sprint ---------------------------------------------------- *)
(* Mutant of BarrierOpen: one lane that has ended opens the barrier. *)
BarrierOpenForOne(sp, lanes) ==
    sp.attached /\ \E l \in DOMAIN lanes : lanes[l] = "closed"

BarrierOpen(sp, lanes) ==
    sp.attached /\ \A l \in DOMAIN lanes : lanes[l] = "closed"

(* Mutant of CanAdvance: a sprint that drains is not looked at. *)
CanAdvanceRunning(sp, lanes) == sp.status = "running" /\ BarrierOpen(sp, lanes)

CanAdvance(sp, lanes) ==
    /\ sp.status \in {"running", "draining_after_root_resolution"}
    /\ BarrierOpen(sp, lanes)

Drains(sp, gate) == sp.skip \/ gate \in {"resolution_pending", "completed"}

Advance(sp, gate) ==
    IF Drains(sp, gate) THEN [sp EXCEPT !.status = "closed_without_summary"]
    ELSE [sp EXCEPT !.status = "awaiting_summary", !.frozen = TRUE]

(* --- accept_sprint_summary --------------------------------------------- *)
CanAccept(sp) ==
    \/ sp.status = "awaiting_summary"
    \/ sp.summary /\ sp.status \in {"trimmer_continuation", "integrated"}

Accept(sp) ==
    IF sp.summary THEN sp
    ELSE [sp EXCEPT !.summary = TRUE, !.status = "trimmer_continuation"]

(* --- mark_summarizer_needs_attention, restore_summarizer_retry --------- *)
SummaryAttention(sp) == [sp EXCEPT !.status = "needs_attention"]

CanRestore(sp) == sp.status = "needs_attention"

Restore(sp) == [sp EXCEPT !.status = "awaiting_summary"]

(* --- plan_sprint_cancellation, commit_sprint_cancellation -------------- *)
SafelyIdle(lanes) == \A l \in DOMAIN lanes : lanes[l] \in {"none", "closed"}

CanCancel(sp, lanes, call) ==
    /\ sp.status \in {"waiting_for_slots", "needs_attention"}
    /\ SafelyIdle(lanes)
    /\ call.status \notin {"completed", "committed"}

CancelledSprint(sp) ==
    [sp EXCEPT !.status = "trimmer_continuation", !.cancelled = TRUE,
               !.frozen = TRUE]

(* --- record_trim_integration, complete_sprint_continuation ------------- *)
Integrates(sp) == sp.status = "trimmer_continuation"

Integrate(sp, revision) == [sp EXCEPT !.integration = revision]

CanComplete(sp) == sp.status = "trimmer_continuation" /\ sp.integration > 0

CompleteContinuation(sp) == [sp EXCEPT !.status = "integrated"]

(* --- supersede_for_root_resolution ------------------------------------- *)
SupersedeSprint(sp) ==
    IF sp.status = "waiting_for_slots"
    THEN [sp EXCEPT !.status = "cancelled_by_root_resolution"]
    ELSE [sp EXCEPT !.status = "draining_after_root_resolution", !.skip = TRUE]
=============================================================================
