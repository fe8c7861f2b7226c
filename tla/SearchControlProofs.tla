------------------------- MODULE SearchControlProofs -------------------------
(***************************************************************************)
(* What holds of the gate, the sprint and the root for any number of       *)
(* sprints, lanes, tasks, Facts, calls, stops and operator decisions.      *)
(***************************************************************************)
EXTENDS SearchControl, FiniteSetTheorems, TLAPS

(***************************************************************************)
(* The inductive invariant.                                                *)
(***************************************************************************)
Gates == {"open", "reviewing_trim", "trimming", "waiting_for_human",
          "resolution_pending", "completed"}

TrimRecords ==
    [review : {"none", "asked", "bound"}, phase : {"none", "maintain", "select"},
     session : Nat, rounds : Nat, revision : Nat]

SprintRecords ==
    [status : Statuses, attached : BOOLEAN, skip : BOOLEAN, frozen : BOOLEAN,
     summary : BOOLEAN, cancelled : BOOLEAN, integration : Nat]

CallRecords(kinds, owners) ==
    [kind : kinds \cup {"none"}, owner : owners \cup {Nothing},
     status : CallStates \cup {"absent"}, epoch : Nat, fenced : SUBSET Nat,
     attempt : Nat, retries : Nat, limit : Nat, result : Nat]

Phases == {"planning", "terminal", "review", "maintain", "select"}

ControlCalls == CallRecords({"main", "trimmer"}, Phases)

SummaryCalls == CallRecords({"summarizer"}, Sprints)

DecisionNames == (UNION {Decisions(phase) : phase \in Phases}) \cup {"none"}

ReplyRecords ==
    [decision : DecisionNames,
     expected : Nat, confirmed : BOOLEAN, launch : Nat,
     sprint : Sprints \cup {Nothing}]

RootRecords ==
    [solution : Facts \cup {Nothing}, conflicts : SUBSET (Facts \X Facts),
     done : BOOLEAN, writer : BOOLEAN]

TaskStates == {"none", "launching", "running", "closed"}

LaneStates == {"none", "closed"} \cup Open

(* TypeOK with the records as wholes.                                      *)
Types ==
    /\ host \in {"up", "recovering", "down"} /\ gate \in Gates
    /\ trim \in TrimRecords /\ catalog \in Nat
    /\ sprint \in [Sprints -> SprintRecords] /\ active \in Sprints \cup {Nothing}
    /\ lane \in [Lanes -> LaneStates] /\ task \in [Jobs -> TaskStates]
    /\ call \in ControlCalls /\ summary \in SummaryCalls
    /\ root \in RootRecords
    /\ standing \in [Facts -> Nat] /\ revoked \subseteq Facts
    /\ IsFiniteSet(Published)
    /\ reply \in ReplyRecords
    /\ stored \in [verdict : {"none", "committed", "rejected"}, of : ReplyRecords]
    /\ due \subseteq Jobs \cup Lanes \cup {"project"}
    /\ {asked, halt, fresh, passed, applied} \subseteq BOOLEAN

(* A result, and what was stored under the id of the call, is what the     *)
(* phase of the call may decide; a decision on a sprint names one.         *)
RepliesFit ==
    /\ call.status # "absent" => call.owner \in Phases
    /\ call.status = "completed" => reply.decision \in Decisions(call.owner)
    /\ stored # NothingStored =>
         call.status # "absent" /\ stored.of.decision \in Decisions(call.owner)
    /\ \A r \in {reply, stored.of} :
         r.decision \in {"sprint", "no_sprint"} => r.sprint \in Sprints

(* Until its sprint is over, or drains for the root, the gate of the trim  *)
(* that decided it stays.                                                  *)
GateOfSprint ==
    ActiveIs({"waiting_for_slots", "running", "awaiting_summary", "needs_attention"})
      => gate \in {"trimming", "waiting_for_human"}

(* A trimmer call that is not settled has a sprint beside it only if the   *)
(* sprint continues to the trimmer, or is the one the call decided.        *)
TrimCallAlone ==
    /\ call.owner \in {"maintain", "select"}
    /\ call.status \in Live \cup {"needs_attention"}
    /\ gate \in {"trimming", "waiting_for_human"}
    => \/ active = Nothing \/ ActiveIs({"trimmer_continuation"})
       \/ /\ gate = "trimming"
          /\ call.status = "completed"
          /\ reply.decision = "sprint"
          /\ sprint[reply.sprint].status # "absent"

(* No other task is open from the launch of the lanes to the end of the    *)
(* summary, also while the operator is asked about the sprint.             *)
SprintAlone ==
    ActiveIs({"running", "awaiting_summary", "needs_attention"}) => OpenJobs = {}

(* Only a sprint that runs or drains has a lane open.                      *)
LanesShut ==
    ActiveIs({"waiting_for_slots", "needs_attention", "awaiting_summary",
              "trimmer_continuation"}) => OpenLanes = {}

(* What a sprint record says of its way to the trimmer.                    *)
OnItsWay(sp) ==
    /\ sp.status \in {"awaiting_summary", "trimmer_continuation"} => sp.frozen
    /\ sp.status = "trimmer_continuation" => sp.summary \/ sp.cancelled
    /\ sp.integration > 0 => sp.frozen /\ (sp.summary \/ sp.cancelled)
    /\ sp.status = "draining_after_root_resolution" => sp.skip

WayToTrim == \A s \in Sprints : OnItsWay(sprint[s])

(* The summarizer is called for a sprint whose input is frozen, and runs   *)
(* only while that sprint awaits it.                                       *)
SummaryOfSprint ==
    /\ summary.status # "absent" =>
         summary.owner \in Sprints /\ sprint[summary.owner].frozen
    /\ summary.status = "running" =>
         ActiveIs({"awaiting_summary"}) /\ host # "recovering"

(* A portfolio the category store has taken is counted in its revision.    *)
CatalogCounts ==
    stored.verdict = "committed" /\ stored.of.decision = "portfolio"
      => stored.of.expected < catalog

IInv ==
    /\ Types /\ RepliesFit /\ GateMatchesTrim /\ RootMatchesGate
    /\ GateOfSprint /\ TrimCallAlone /\ SprintAlone /\ LanesShut
    /\ WayToTrim /\ SummaryOfSprint /\ CatalogCounts /\ CatalogNeverBehind

(* What a main result that only decides leaves alone.                      *)
LEMMA DecisionOnly ==
    ASSUME Conclude
    PROVE  /\ UNCHANGED <<host, gate, trimVars, sprintVars, task, standing, revoked>>
           /\ UNCHANGED <<call, reply, stored, fresh, halt>>
           /\ root' = [root EXCEPT !.done = TRUE]
           /\ due' \in {due, due \cup {"project"}}
BY Zenon DEF Conclude

(* What a root resolution leaves alone, and when it may come.              *)
LEMMA ResolveOnly ==
    ASSUME NEW f \in Facts, Resolve(f)
    PROVE  /\ Idle \/ host = "recovering"
           /\ UNCHANGED <<host, catalog, lane, task, revoked, resultVars, halt, due, bounds>>
BY Zenon DEF Resolve

(***************************************************************************)
(* Which steps change what.                                                *)
(***************************************************************************)
LEMMA GateSteps ==
    ASSUME Next
    PROVE  \/ UNCHANGED <<gate, trim, asked>>
           \/ StuckReport \/ StartReviewRound \/ AdvancePhase \/ CommitTrim
           \/ ApplyReview \/ RequestGuidance \/ AnswerGuidance
           \/ \E j \in Jobs \cup Lanes \cup {"project"} : CloseTail(j)
           \/ \E f \in Facts : Resolve(f) \/ Revoke(f)
BY DecisionOnly, ResolveOnly
   DEF Next, Plan, RunCall, Apply, Workers, LaneWork, Tails, SprintSteps, PrepareMain,
       StartReviewRound, PrepareReview, PrepareTrim, Prepare, LaunchControl,
       ReplyControl, CategoryStep, CategoryConflict, AdvancePhase,
       FinishMaintenance, PersistPlan, Assign, WaitForResults, Decline,
       AssignWriter, ConcludeWithWriter, Mark, Refuse, LaunchTask, CloseTask,
       StartLane, CloseLane, LaneAsks, AdvanceSprint, LaunchSprint, PrepareSummary,
       LaunchSummary, ReplySummary, AcceptSummary, MarkSummary, Continue,
       FailControl, PreflightStale, FailSummary, Stop, Rest, Resume, Enter,
       CancelSprint, RetrySummary, RetryControl, AnswerLane, Operator, OthersIdle,
       SummaryOnly, StaysCompleted, trimVars, Down

LEMMA SprintChanges ==
    ASSUME Next
    PROVE  \/ UNCHANGED <<sprint, active>>
           \/ CommitTrim \/ PersistPlan \/ AdvanceSprint \/ PreflightStale
           \/ LaunchSprint \/ FailSummary \/ AcceptSummary \/ Continue
           \/ CancelSprint \/ RetrySummary
           \/ \E f \in Facts : Resolve(f)
BY DecisionOnly, ResolveOnly
   DEF Next, Plan, RunCall, Apply, Workers, LaneWork, Tails, SprintSteps, PrepareMain,
       StuckReport, StartReviewRound, PrepareReview, PrepareTrim, Prepare,
       LaunchControl, ReplyControl, CategoryStep, CategoryConflict, AdvancePhase,
       FinishMaintenance, ApplyReview, RequestGuidance, Assign, WaitForResults,
       Decline, AssignWriter, ConcludeWithWriter, Mark, Refuse,
       LaunchTask, CloseTask, StartLane, CloseLane, LaneAsks, CloseTail, PrepareSummary,
       LaunchSummary, ReplySummary, MarkSummary, FailControl, Stop, Rest, Resume,
       Enter, Revoke, AnswerGuidance, AnswerLane, RetryControl, Operator, OthersIdle,
       SummaryOnly, StaysCompleted, sprintVars, Down

LEMMA LaneSteps ==
    ASSUME Next
    PROVE  \/ UNCHANGED lane
           \/ PersistPlan \/ LaunchSprint
           \/ \E l \in Lanes : \/ StartLane(l) \/ CloseLane(l)
                              \/ LaneAsks(l) \/ AnswerLane(l)
BY DecisionOnly, ResolveOnly
   DEF Next, Plan, RunCall, Apply, Workers, LaneWork, Tails, SprintSteps, PrepareMain,
       StuckReport, StartReviewRound, PrepareReview, PrepareTrim, Prepare,
       LaunchControl, ReplyControl, CategoryStep, CategoryConflict, AdvancePhase,
       FinishMaintenance, CommitTrim, ApplyReview, RequestGuidance, Assign,
       WaitForResults, Decline, AssignWriter, ConcludeWithWriter, Mark,
       Refuse, LaunchTask, CloseTask, CloseTail, AdvanceSprint, PrepareSummary,
       LaunchSummary, ReplySummary, AcceptSummary, MarkSummary, Continue,
       FailControl, PreflightStale, FailSummary, Stop, Rest, Resume, Enter,
       Revoke, AnswerGuidance, CancelSprint, RetrySummary, RetryControl,
       Operator, OthersIdle, SummaryOnly, StaysCompleted, sprintVars, Down

LEMMA TaskSteps ==
    ASSUME Next
    PROVE  \/ UNCHANGED task
           \/ Assign \/ AssignWriter
           \/ \E t \in Jobs : LaunchTask(t) \/ CloseTask(t)
           \/ \E f \in Facts : Revoke(f)
BY DecisionOnly, ResolveOnly
   DEF Next, Plan, RunCall, Apply, Workers, LaneWork, Tails, SprintSteps, PrepareMain,
       StuckReport, StartReviewRound, PrepareReview, PrepareTrim, Prepare,
       LaunchControl, ReplyControl, CategoryStep, CategoryConflict, AdvancePhase,
       FinishMaintenance, CommitTrim, ApplyReview, RequestGuidance, PersistPlan,
       WaitForResults, Decline, ConcludeWithWriter, Mark, Refuse,
       StartLane, CloseLane, LaneAsks, CloseTail, AdvanceSprint, LaunchSprint,
       PrepareSummary, LaunchSummary, ReplySummary, AcceptSummary, MarkSummary,
       Continue, FailControl, PreflightStale, FailSummary, Stop, Rest, Resume,
       Enter, AnswerGuidance, AnswerLane, CancelSprint, RetrySummary, RetryControl,
       Operator, OthersIdle, SummaryOnly, StaysCompleted, Down

LEMMA SummarySteps ==
    ASSUME Next
    PROVE  \/ UNCHANGED summary
           \/ PersistPlan \/ PrepareSummary \/ LaunchSummary \/ ReplySummary
           \/ FailSummary \/ MarkSummary \/ Resume \/ CancelSprint \/ RetrySummary
           \/ \E f \in Facts : Resolve(f)
BY DecisionOnly, ResolveOnly
   DEF Next, Plan, RunCall, Apply, Workers, LaneWork, Tails, SprintSteps, PrepareMain,
       StuckReport, StartReviewRound, PrepareReview, PrepareTrim, Prepare,
       LaunchControl, ReplyControl, CategoryStep, CategoryConflict, AdvancePhase,
       FinishMaintenance, CommitTrim, ApplyReview, RequestGuidance, Assign,
       WaitForResults, Decline, AssignWriter, ConcludeWithWriter, Mark,
       Refuse, LaunchTask, CloseTask, StartLane, CloseLane, LaneAsks, CloseTail,
       AdvanceSprint, LaunchSprint, AcceptSummary, Continue, FailControl,
       PreflightStale, Stop, Rest, Enter, Revoke, AnswerGuidance, AnswerLane, RetryControl,
       Operator, OthersIdle, SummaryOnly, StaysCompleted, sprintVars, Down

LEMMA RootSteps ==
    ASSUME Next
    PROVE  \/ UNCHANGED <<root, standing, revoked>>
           \/ Decline \/ AssignWriter \/ ConcludeWithWriter
           \/ \E f \in Facts : Resolve(f) \/ Revoke(f)
BY DecisionOnly, ResolveOnly
   DEF Next, Plan, RunCall, Apply, Workers, LaneWork, Tails, SprintSteps, PrepareMain,
       StuckReport, StartReviewRound, PrepareReview, PrepareTrim, Prepare,
       LaunchControl, ReplyControl, CategoryStep, CategoryConflict, AdvancePhase,
       FinishMaintenance, CommitTrim, ApplyReview, RequestGuidance, PersistPlan,
       Assign, WaitForResults, Mark, Refuse, LaunchTask, CloseTask, StartLane,
       CloseLane, LaneAsks, CloseTail, AdvanceSprint, LaunchSprint, PrepareSummary,
       LaunchSummary, ReplySummary, AcceptSummary, MarkSummary, Continue,
       FailControl, PreflightStale, FailSummary, Stop, Rest, Resume, Enter,
       AnswerGuidance, AnswerLane, CancelSprint, RetrySummary, RetryControl, Operator,
       OthersIdle, SummaryOnly, StaysCompleted, rootVars, Down

LEMMA CallSteps ==
    ASSUME Next
    PROVE  \/ UNCHANGED <<call, reply, stored, catalog>>
           \/ PrepareMain \/ PrepareReview \/ PrepareTrim \/ LaunchControl
           \/ ReplyControl \/ FailControl \/ CategoryStep \/ CommitTrim \/ Assign
           \/ Mark \/ Refuse \/ Resume \/ RetryControl
           \/ \E f \in Facts : Resolve(f)
BY DecisionOnly, ResolveOnly
   DEF Next, Plan, RunCall, Apply, Workers, LaneWork, Tails, SprintSteps, StuckReport,
       StartReviewRound, CategoryConflict, AdvancePhase, FinishMaintenance,
       ApplyReview, RequestGuidance, PersistPlan, WaitForResults, Decline,
       AssignWriter, ConcludeWithWriter, LaunchTask, CloseTask,
       StartLane, CloseLane, LaneAsks, CloseTail, AdvanceSprint, LaunchSprint,
       PrepareSummary, LaunchSummary, ReplySummary, AcceptSummary, MarkSummary,
       Continue, PreflightStale, FailSummary, Stop, Rest, Enter, Revoke,
       AnswerGuidance, AnswerLane, CancelSprint, RetrySummary, Operator, OthersIdle,
       SummaryOnly, StaysCompleted, callVars, resultVars, trimVars, Down

LEMMA HostSteps ==
    ASSUME Next
    PROVE  host' \in {host, "down"} \/ Resume \/ Enter
BY DecisionOnly, ResolveOnly
   DEF Next, Plan, RunCall, Apply, Workers, LaneWork, Tails, SprintSteps, PrepareMain,
       StuckReport, StartReviewRound, PrepareReview, PrepareTrim, Prepare,
       LaunchControl, ReplyControl, CategoryStep, CategoryConflict, AdvancePhase,
       FinishMaintenance, CommitTrim, ApplyReview, RequestGuidance, PersistPlan,
       Assign, WaitForResults, Decline, AssignWriter,
       ConcludeWithWriter, Mark, Refuse, LaunchTask, CloseTask, StartLane,
       CloseLane, LaneAsks, CloseTail, AdvanceSprint, LaunchSprint, PrepareSummary,
       LaunchSummary, ReplySummary, AcceptSummary, MarkSummary, Continue,
       FailControl, PreflightStale, FailSummary, Stop, Rest, Revoke,
       AnswerGuidance, AnswerLane, CancelSprint, RetrySummary, RetryControl, Operator,
       OthersIdle, SummaryOnly, StaysCompleted, Down

(***************************************************************************)
(* The records.                                                            *)
(***************************************************************************)
(* What each event of call_state.py leaves in the record of a call.        *)
LEMMA CallEvents ==
    ASSUME NEW kinds, NEW owners, NEW k \in CallRecords(kinds, owners)
    PROVE  /\ Launch(k) \in CallRecords(kinds, owners)
           /\ Launch(k).status = "running" /\ Launch(k).owner = k.owner
           /\ \A n \in Nat :
                /\ ReceiveResult(k, n) \in CallRecords(kinds, owners)
                /\ ReceiveResult(k, n).owner = k.owner
                /\ ReceiveResult(k, n).status \in {k.status, "completed"}
                /\ ReceiveResult(k, n).status # "running"
           /\ CommitResult(k) \in CallRecords(kinds, owners)
           /\ CommitResult(k).status = "committed" /\ CommitResult(k).owner = k.owner
           /\ RecordTransportFailure(k) \in CallRecords(kinds, owners)
           /\ RecordTransportFailure(k).owner = k.owner
           /\ RecordTransportFailure(k).status \in {"retry_pending", "needs_attention"}
           /\ RejectInvalidResult(k) \in CallRecords(kinds, owners)
           /\ RejectInvalidResult(k).owner = k.owner
           /\ RejectInvalidResult(k).status \in {"retry_pending", "needs_attention"}
           /\ Cancel(k) \in CallRecords(kinds, owners)
           /\ Cancel(k).status = "cancelled" /\ Cancel(k).owner = k.owner
           /\ CancelAndAdvance(k) \in CallRecords(kinds, owners)
           /\ CancelAndAdvance(k).status = "cancelled"
           /\ CancelAndAdvance(k).owner = k.owner
           /\ AuthorizeRetry(k) \in CallRecords(kinds, owners)
           /\ AuthorizeRetry(k).status = "retry_pending"
           /\ AuthorizeRetry(k).owner = k.owner
           /\ ReconcileAfterStop(k) \in CallRecords(kinds, owners)
           /\ ReconcileAfterStop(k).owner = k.owner
           /\ \/ k.status \in {"prepared", "running"}
                 /\ ReconcileAfterStop(k).status \in {"retry_pending", "needs_attention"}
              \/ k.status \notin {"prepared", "running"} /\ ReconcileAfterStop(k) = k
<1> DEFINE fenced == k.fenced \cup {k.epoch}
           epoch == k.epoch + 1
           retries == k.retries + 1
           after == AfterRetry(k)
           none == 0
<1>1. /\ fenced \in SUBSET Nat /\ epoch \in Nat /\ retries \in Nat
      /\ k.attempt + 1 \in Nat /\ none \in Nat
  BY DEF CallRecords
<1>2. \A s \in {"running", "completed", "committed", "retry_pending",
                "needs_attention", "cancelled"} : s \in CallStates
  BY DEF CallStates
<1>3. after \in {"retry_pending", "needs_attention"}
  BY DEF AfterRetry
<1>4. RecordTransportFailure(k) =
        [k EXCEPT !.status = after, !.retries = retries,
                  !.fenced = fenced, !.epoch = epoch]
  BY DEF RecordTransportFailure
<1>5. RejectInvalidResult(k) =
        [k EXCEPT !.status = after, !.retries = retries,
                  !.fenced = fenced, !.epoch = epoch, !.result = none]
  BY DEF RejectInvalidResult, NoLaunch
<1>6. CancelAndAdvance(k) =
        [k EXCEPT !.status = "cancelled", !.fenced = fenced, !.epoch = epoch]
  BY DEF CancelAndAdvance
<1>7. ASSUME LostByStop(k)
      PROVE  \E s \in {"retry_pending", "needs_attention"} :
               ReconcileAfterStop(k) =
                 [k EXCEPT !.status = s, !.fenced = fenced, !.epoch = epoch]
  <2>1. CASE k.retries >= k.limit
    BY <1>7, <2>1 DEF ReconcileAfterStop
  <2>2. CASE ~(k.retries >= k.limit)
    BY <1>7, <2>2 DEF ReconcileAfterStop
  <2>3. QED
    BY <2>1, <2>2
<1> HIDE DEF fenced, epoch, retries, after, none
<1>18. after \in CallStates /\ retries \in Nat /\ none \in Nat
  BY <1>1, <1>2, <1>3
<1>8. /\ Launch(k) \in CallRecords(kinds, owners)
      /\ Launch(k).status = "running" /\ Launch(k).owner = k.owner
  BY <1>1, <1>2 DEF Launch, CallRecords
<1>9. ASSUME NEW n \in Nat
      PROVE  /\ ReceiveResult(k, n) \in CallRecords(kinds, owners)
             /\ ReceiveResult(k, n).owner = k.owner
             /\ ReceiveResult(k, n).status \in {k.status, "completed"}
             /\ ReceiveResult(k, n).status # "running"
  BY <1>2 DEF ReceiveResult, CallRecords
<1>10. /\ CommitResult(k) \in CallRecords(kinds, owners)
       /\ CommitResult(k).status = "committed" /\ CommitResult(k).owner = k.owner
  BY <1>2 DEF CommitResult, CallRecords
<1>11. /\ RecordTransportFailure(k) \in CallRecords(kinds, owners)
       /\ RecordTransportFailure(k).owner = k.owner
       /\ RecordTransportFailure(k).status \in {"retry_pending", "needs_attention"}
  <2>1. /\ RecordTransportFailure(k) \in CallRecords(kinds, owners)
        /\ RecordTransportFailure(k).owner = k.owner /\ RecordTransportFailure(k).status = after
    BY <1>1, <1>4, <1>18, ZenonT(40) DEF CallRecords
  <2>2. QED
    BY <1>3, <2>1
<1>12. /\ RejectInvalidResult(k) \in CallRecords(kinds, owners)
       /\ RejectInvalidResult(k).owner = k.owner
       /\ RejectInvalidResult(k).status \in {"retry_pending", "needs_attention"}
  <2>1. /\ RejectInvalidResult(k) \in CallRecords(kinds, owners)
        /\ RejectInvalidResult(k).owner = k.owner /\ RejectInvalidResult(k).status = after
    BY <1>1, <1>5, <1>18 DEF CallRecords
  <2>2. QED
    BY <1>3, <2>1
<1>13. /\ Cancel(k) \in CallRecords(kinds, owners)
       /\ Cancel(k).status = "cancelled" /\ Cancel(k).owner = k.owner
       /\ CancelAndAdvance(k) \in CallRecords(kinds, owners)
       /\ CancelAndAdvance(k).status = "cancelled"
       /\ CancelAndAdvance(k).owner = k.owner
  BY <1>1, <1>2, <1>6 DEF Cancel, CallRecords
<1>14. /\ AuthorizeRetry(k) \in CallRecords(kinds, owners)
       /\ AuthorizeRetry(k).status = "retry_pending"
       /\ AuthorizeRetry(k).owner = k.owner
  BY <1>1, <1>2 DEF AuthorizeRetry, CallRecords
<1>15. /\ ReconcileAfterStop(k) \in CallRecords(kinds, owners)
       /\ ReconcileAfterStop(k).owner = k.owner
       /\ \/ k.status \in {"prepared", "running"}
             /\ ReconcileAfterStop(k).status \in {"retry_pending", "needs_attention"}
          \/ k.status \notin {"prepared", "running"} /\ ReconcileAfterStop(k) = k
  <2>1. CASE LostByStop(k)
    <3>1. PICK s \in {"retry_pending", "needs_attention"} :
             ReconcileAfterStop(k) =
               [k EXCEPT !.status = s, !.fenced = fenced, !.epoch = epoch]
      BY <1>7, <2>1
    <3>2. QED
      <4>1. s \in CallStates
        BY <1>2
      <4>2. /\ ReconcileAfterStop(k) \in CallRecords(kinds, owners)
            /\ ReconcileAfterStop(k).owner = k.owner
            /\ ReconcileAfterStop(k).status = s
        BY <1>1, <3>1, <4>1 DEF CallRecords
      <4>3. QED
        BY <2>1, <4>2 DEF LostByStop
  <2>2. CASE ~LostByStop(k)
    BY <2>2 DEF ReconcileAfterStop, LostByStop
  <2>3. QED
    BY <2>1, <2>2
<1>16. QED
  BY <1>8, <1>9, <1>10, <1>11, <1>12, <1>13, <1>14, <1>15

(* A call that was just prepared, and the absent one.                      *)
LEMMA NewCalls ==
    ASSUME NEW kinds, NEW owners, NEW kind \in kinds, NEW owner \in owners,
           NEW limit \in Nat
    PROVE  /\ PrepareCall(kind, owner, limit) \in CallRecords(kinds, owners)
           /\ PrepareCall(kind, owner, limit).status = "prepared"
           /\ PrepareCall(kind, owner, limit).owner = owner
BY DEF PrepareCall, CallRecords, CallStates, NoLaunch

LEMMA EmptyCall ==
    ASSUME NEW kinds, NEW owners
    PROVE  /\ NoCall \in CallRecords(kinds, owners)
           /\ NoCall.status = "absent" /\ NoCall.owner = Nothing
BY DEF NoCall, Absent, CallRecords, NoLaunch

(* What is left of a control call after its commit.                        *)
LEMMA CommittedEvent ==
    ASSUME NEW kinds, NEW owners, call \in CallRecords(kinds, owners)
    PROVE  /\ CommittedCall \in CallRecords(kinds, owners)
           /\ CommittedCall.status = "committed" /\ CommittedCall.owner = call.owner
<1>1. /\ NoCall \in CallRecords(kinds, owners)
      /\ call.owner \in owners \cup {Nothing} /\ "committed" \in CallStates
  BY EmptyCall DEF CallRecords, CallStates
<1>2. QED
  BY <1>1 DEF CommittedCall, CallRecords

(* What each transition of a sprint leaves in its record.                  *)
LEMMA SprintEvents ==
    ASSUME NEW sp \in SprintRecords
    PROVE  /\ NoSprintYet \in SprintRecords
           /\ \A d : Persist(sp, d) \in SprintRecords
           /\ LaunchAttention(sp) \in SprintRecords
           /\ Attach(sp) \in SprintRecords
           /\ \A g : Advance(sp, g) \in SprintRecords
           /\ Accept(sp) \in SprintRecords
           /\ SummaryAttention(sp) \in SprintRecords
           /\ Restore(sp) \in SprintRecords
           /\ CancelledSprint(sp) \in SprintRecords
           /\ \A n \in Nat : Integrate(sp, n) \in SprintRecords
           /\ CompleteContinuation(sp) \in SprintRecords
           /\ SupersedeSprint(sp) \in SprintRecords
<1> USE DEF SprintRecords, Statuses
<1>1. NoSprintYet \in SprintRecords
  BY DEF NoSprintYet
<1>2. ASSUME NEW d
      PROVE  Persist(sp, d) \in SprintRecords
  BY DEF Persist
<1>3. LaunchAttention(sp) \in SprintRecords /\ SummaryAttention(sp) \in SprintRecords
  BY DEF LaunchAttention, SummaryAttention
<1>4. Attach(sp) \in SprintRecords
  BY DEF Attach
<1>5. ASSUME NEW g
      PROVE  Advance(sp, g) \in SprintRecords
  BY DEF Advance
<1>6. Accept(sp) \in SprintRecords
  BY DEF Accept
<1>7. Restore(sp) \in SprintRecords /\ CancelledSprint(sp) \in SprintRecords
  BY DEF Restore, CancelledSprint
<1>8. ASSUME NEW n \in Nat
      PROVE  Integrate(sp, n) \in SprintRecords
  BY DEF Integrate
<1>9. CompleteContinuation(sp) \in SprintRecords
  BY DEF CompleteContinuation
<1>10. SupersedeSprint(sp) \in SprintRecords
  BY DEF SupersedeSprint
<1>11. QED
  BY <1>1, <1>2, <1>3, <1>4, <1>5, <1>6, <1>7, <1>8, <1>9, <1>10

(* What each transition of the trim record leaves in it.                   *)
LEMMA TrimEvents ==
    ASSUME NEW t \in TrimRecords
    PROVE  /\ NewTrim \in TrimRecords
           /\ ReceiveStuck(t) \in TrimRecords
           /\ StartRound(t, RoundsPerSession) \in TrimRecords
           /\ \A d : Decide(t, d) \in TrimRecords
           /\ Select(t) \in TrimRecords
           /\ CommitPortfolio(t) \in TrimRecords
           /\ SupersedeTrim(t) \in TrimRecords
<1> USE DEF TrimRecords
<1>1. t.session + 1 \in Nat /\ t.rounds + 1 \in Nat /\ t.revision + 1 \in Nat
  OBVIOUS
<1>2. NewTrim \in TrimRecords /\ ReceiveStuck(t) \in TrimRecords
  BY DEF NewTrim, ReceiveStuck
<1>3. StartRound(t, RoundsPerSession) \in TrimRecords
  BY <1>1 DEF StartRound
<1>4. ASSUME NEW d
      PROVE  Decide(t, d) \in TrimRecords
  BY DEF Decide
<1>5. Select(t) \in TrimRecords /\ SupersedeTrim(t) \in TrimRecords
  BY DEF Select, SupersedeTrim
<1>6. CommitPortfolio(t) \in TrimRecords
  BY <1>1 DEF CommitPortfolio
<1>7. QED
  BY <1>2, <1>3, <1>4, <1>5, <1>6

(***************************************************************************)
(* Types.                                                                  *)
(***************************************************************************)
(* The flags stay Booleans.                                                *)
LEMMA FlagsKept ==
    ASSUME {halt, fresh, passed, applied} \subseteq BOOLEAN, Next
    PROVE  {halt, fresh, passed, applied}' \subseteq BOOLEAN
BY DecisionOnly, ResolveOnly
   DEF Next, Plan, RunCall, Apply, Workers, LaneWork, Tails, SprintSteps, PrepareMain,
       StuckReport, StartReviewRound, PrepareReview, PrepareTrim, Prepare,
       LaunchControl, ReplyControl, CategoryStep, CategoryConflict, AdvancePhase,
       FinishMaintenance, CommitTrim, ApplyReview, RequestGuidance, PersistPlan,
       Assign, WaitForResults, Decline, AssignWriter,
       ConcludeWithWriter, Conclude, Mark, Refuse, LaunchTask, CloseTask, StartLane,
       CloseLane, LaneAsks, CloseTail, AdvanceSprint, LaunchSprint, PrepareSummary,
       LaunchSummary, ReplySummary, AcceptSummary, MarkSummary, Continue,
       FailControl, PreflightStale, FailSummary, Stop, Rest, Resume, Enter, Revoke,
       AnswerGuidance, AnswerLane, CancelSprint, RetrySummary, RetryControl, Operator,
       OthersIdle, SummaryOnly, StaysCompleted, Down, Pass, Forget, callVars, resultVars

LEMMA DueKept ==
    ASSUME due \subseteq Jobs \cup Lanes \cup {"project"}, Next
    PROVE  due' \subseteq Jobs \cup Lanes \cup {"project"}
BY DecisionOnly, ResolveOnly
   DEF Next, Plan, RunCall, Apply, Workers, LaneWork, Tails, SprintSteps, PrepareMain,
       StuckReport, StartReviewRound, PrepareReview, PrepareTrim, Prepare,
       LaunchControl, ReplyControl, CategoryStep, CategoryConflict, AdvancePhase,
       FinishMaintenance, CommitTrim, ApplyReview, RequestGuidance, PersistPlan,
       Assign, WaitForResults, Decline, AssignWriter,
       ConcludeWithWriter, Mark, Refuse, LaunchTask, CloseTask, StartLane,
       CloseLane, LaneAsks, CloseTail, AdvanceSprint, LaunchSprint, PrepareSummary,
       LaunchSummary, ReplySummary, AcceptSummary, MarkSummary, Continue,
       FailControl, PreflightStale, FailSummary, Stop, Rest, Resume, Enter, Revoke,
       AnswerGuidance, AnswerLane, CancelSprint, RetrySummary, RetryControl, Operator,
       OthersIdle, SummaryOnly, StaysCompleted, Down, Jobs

(* What an agent may reply.                                                *)
LEMMA ReplyShape ==
    ASSUME Types, NEW phase \in Phases, NEW d \in Decisions(phase), NEW n \in Nat,
           NEW r \in Replies(d, n)
    PROVE  /\ r \in ReplyRecords
           /\ r.decision = d
           /\ d \in {"sprint", "no_sprint"} => r.sprint \in Sprints
<1>1. catalog \in Nat /\ trim.revision \in Nat
  BY DEF Types, TrimRecords
<1>2. d \in DecisionNames
  BY DEF DecisionNames
<1>3. PICK e \in Nat, c \in BOOLEAN, l \in Nat, s \in Sprints \cup {Nothing} :
        /\ r = [decision |-> d, expected |-> e, confirmed |-> c, launch |-> l,
                sprint |-> s]
        /\ d \in {"sprint", "no_sprint"} => s \in Sprints
  BY <1>1 DEF Replies
<1>4. QED
  BY <1>2, <1>3 DEF ReplyRecords

LEMMA EmptyReply ==
    NoReply \in ReplyRecords /\ NothingStored.of \in ReplyRecords
<1>1. "none" \in DecisionNames
  BY DEF DecisionNames
<1>2. NoReply \in ReplyRecords
  BY <1>1 DEF NoReply, ReplyRecords
<1>3. QED
  BY <1>2 DEF NothingStored

LEMMA CallTypesKept ==
    ASSUME Types, RepliesFit, Next
    PROVE  /\ call' \in ControlCalls /\ reply' \in ReplyRecords /\ catalog' \in Nat
           /\ stored' \in [verdict : {"none", "committed", "rejected"},
                           of : ReplyRecords]
<1> DEFINE StoredRecords == [verdict : {"none", "committed", "rejected"},
                             of : ReplyRecords]
<1>1. /\ call \in CallRecords({"main", "trimmer"}, Phases)
      /\ reply \in ReplyRecords /\ catalog \in Nat /\ stored \in StoredRecords
      /\ trim.phase \in {"none", "maintain", "select"}
  BY DEF Types, ControlCalls, TrimRecords
<1>2. NothingStored \in StoredRecords /\ NoReply \in ReplyRecords
  BY EmptyReply DEF NothingStored
<1>3. ASSUME NEW kind \in {"main", "trimmer"}, NEW phase \in Phases, Prepare(kind, phase)
      PROVE  call' \in CallRecords({"main", "trimmer"}, Phases)
  BY <1>3, NewCalls, ConstantsAssumption DEF Prepare
<1>4. call' \in CallRecords({"main", "trimmer"}, Phases)
  <2>1. CASE PrepareMain \/ PrepareReview \/ PrepareTrim
    BY <1>1, <1>3, <2>1 DEF PrepareMain, PrepareReview, PrepareTrim, Phases
  <2>2. CASE LaunchControl \/ FailControl \/ CommitTrim \/ Mark \/ Refuse
             \/ Resume \/ RetryControl
    BY <1>1, <2>2, CallEvents, CommittedEvent DEF LaunchControl, FailControl, CommitTrim, Mark,
       Refuse, Resume, RetryControl, callVars
  <2>3. CASE ReplyControl
    <3>1. call.attempt \in Nat
      BY <1>1 DEF CallRecords
    <3>2. QED
      BY <1>1, <2>3, <3>1, CallEvents DEF ReplyControl
  <2>4. CASE CategoryStep \/ Assign
    BY <1>1, <2>4 DEF CategoryStep, Assign, StaysCompleted
  <2>5. ASSUME NEW f \in Facts, Resolve(f)
        PROVE  call' \in CallRecords({"main", "trimmer"}, Phases)
    <3>1. call' \in {call, Cancel(call)}
      BY <2>5, Zenon DEF Resolve, Supersede
    <3>2. QED
      BY <1>1, <3>1, CallEvents
  <2>6. QED
    BY <1>1, <2>1, <2>2, <2>3, <2>4, <2>5, CallSteps
<1>5. reply' \in ReplyRecords
  <2>1. CASE PrepareMain \/ PrepareReview \/ PrepareTrim \/ CommitTrim \/ Mark
    BY <1>2, <2>1 DEF PrepareMain, PrepareReview, PrepareTrim, Prepare, CommitTrim,
       Mark, Forget
  <2>2. CASE ReplyControl
    <3>1. call.owner \in Phases
      BY <2>2 DEF ReplyControl, RepliesFit
    <3>2. call.attempt \in Nat
      BY <1>1 DEF CallRecords
    <3>3. CASE \E d \in Decisions(call.owner) : reply' \in Replies(d, call.attempt)
      BY <3>1, <3>2, <3>3, ReplyShape
    <3>4. CASE reply' = stored.of
      BY <1>1, <3>4
    <3>5. QED
      BY <2>2, <3>3, <3>4 DEF ReplyControl
  <2>3. CASE LaunchControl \/ FailControl \/ Refuse \/ Resume \/ RetryControl
             \/ CategoryStep \/ Assign
    BY <1>1, <2>3 DEF LaunchControl, FailControl, Refuse, Resume, RetryControl,
       Operator, CategoryStep, Assign, StaysCompleted, resultVars
  <2>4. ASSUME NEW f \in Facts, Resolve(f)
        PROVE  reply' = reply
    BY <2>4, ResolveOnly DEF resultVars
  <2>5. QED
    BY <1>1, <2>1, <2>2, <2>3, <2>4, CallSteps
<1>6. stored' \in StoredRecords
  <2>1. CASE PrepareMain \/ PrepareReview \/ PrepareTrim \/ CommitTrim \/ Mark
    BY <1>2, <2>1 DEF PrepareMain, PrepareReview, PrepareTrim, Prepare, CommitTrim,
       Mark, Forget
  <2>2. CASE CategoryStep \/ Assign
    BY <1>1, <2>2 DEF CategoryStep, Assign
  <2>3. CASE LaunchControl \/ FailControl \/ Refuse \/ Resume \/ RetryControl
             \/ ReplyControl
    BY <1>1, <2>3 DEF LaunchControl, FailControl, Refuse, Resume, RetryControl,
       Operator, ReplyControl, resultVars
  <2>4. ASSUME NEW f \in Facts, Resolve(f)
        PROVE  stored' = stored
    BY <2>4, ResolveOnly DEF resultVars
  <2>5. QED
    BY <1>1, <2>1, <2>2, <2>3, <2>4, CallSteps
<1>7. catalog' \in Nat
  <2>1. CASE CategoryStep
    BY <1>1, <2>1 DEF CategoryStep
  <2>2. CASE PrepareMain \/ PrepareReview \/ PrepareTrim \/ LaunchControl
             \/ ReplyControl \/ FailControl \/ CommitTrim \/ Assign
             \/ Mark \/ Refuse \/ Resume \/ RetryControl
    BY <1>1, <2>2 DEF PrepareMain, PrepareReview, PrepareTrim, Prepare, LaunchControl,
       ReplyControl, FailControl, CommitTrim, Assign, Mark, Refuse, Resume,
       RetryControl, Operator, trimVars
  <2>3. ASSUME NEW f \in Facts, Resolve(f)
        PROVE  catalog' = catalog
    BY <2>3, ResolveOnly
  <2>4. QED
    BY <1>1, <2>1, <2>2, <2>3, CallSteps
<1>8. QED
  BY <1>4, <1>5, <1>6, <1>7 DEF ControlCalls

(* The records of the gate and the sprints stay what they are.             *)
LEMMA TrimTypesKept ==
    ASSUME Types, Next
    PROVE  /\ gate' \in Gates
           /\ trim' \in TrimRecords
           /\ asked' \in BOOLEAN
<1>1. gate \in Gates /\ trim \in TrimRecords /\ asked \in BOOLEAN
  BY DEF Types
<1>2. CASE StuckReport \/ StartReviewRound \/ AdvancePhase \/ CommitTrim \/ ApplyReview
           \/ RequestGuidance \/ AnswerGuidance
  BY <1>1, <1>2, TrimEvents DEF StuckReport, StartReviewRound, AdvancePhase,
     CommitTrim, ApplyReview, GateDecided, RequestGuidance, AnswerGuidance, Operator,
     Gates, StaysCompleted
<1>3. ASSUME NEW j \in Jobs \cup Lanes \cup {"project"}, CloseTail(j)
      PROVE  /\ gate' \in Gates
             /\ trim' \in TrimRecords
             /\ asked' \in BOOLEAN
  BY <1>1, <1>3 DEF CloseTail, OthersIdle, trimVars, Gates
<1>4. ASSUME NEW f \in Facts, Resolve(f)
      PROVE  /\ gate' \in Gates
             /\ trim' \in TrimRecords
             /\ asked' \in BOOLEAN
  <2>1. \/ UNCHANGED <<gate, trim, asked>>
        \/ gate' = "resolution_pending" /\ trim' = SupersedeTrim(trim) /\ asked' = FALSE
    BY <1>4, Zenon DEF Resolve, Supersede
  <2>2. QED
    BY <1>1, <2>1, TrimEvents DEF Gates
<1>5. ASSUME NEW f \in Facts, Revoke(f)
      PROVE  /\ gate' \in Gates
             /\ trim' \in TrimRecords
             /\ asked' \in BOOLEAN
  BY <1>1, <1>5 DEF Revoke, Gates, trimVars
<1>6. QED
  BY <1>1, <1>2, <1>3, <1>4, <1>5, GateSteps

(* What a resolution leaves of the sprint, its summarizer and the call.    *)
LEMMA Superseded ==
    ASSUME Types, NEW f \in Facts, Resolve(f)
    PROVE  \/ /\ root.solution # Nothing
              /\ UNCHANGED <<gate, trim, asked, sprint, active, summary, call>>
              /\ root'.solution = root.solution
           \/ /\ root.solution = Nothing
              /\ root' = [root EXCEPT !.solution = f, !.done = FALSE]
              /\ gate' = "resolution_pending"
              /\ trim' = SupersedeTrim(trim) /\ asked' = FALSE
              /\ IF active = Nothing THEN UNCHANGED <<sprint, active>>
                 ELSE /\ sprint' = [sprint EXCEPT ![active] = SupersedeSprint(@)]
                      /\ active' = IF ActiveIs({"waiting_for_slots"}) THEN Nothing
                                                                     ELSE active
              /\ summary' = IF CanLaunch(summary) THEN Cancel(summary) ELSE summary
              /\ call' = IF call.kind = "trimmer" /\ CanLaunch(call) THEN Cancel(call)
                                                                    ELSE call
<1>1. CASE root.solution = Nothing
  BY <1>1, Zenon DEF Resolve, Supersede
<1>2. CASE root.solution # Nothing
  <2>1. /\ UNCHANGED <<gate, trim, asked, sprint, active, summary, call>>
        /\ \/ root' = root
           \/ root' = [root EXCEPT !.conflicts = @ \cup {<<root.solution, f>>}]
    BY <1>2, Zenon DEF Resolve
  <2>2. root'.solution = root.solution
    BY <2>1 DEF Types, RootRecords
  <2>3. QED
    BY <1>2, <2>1, <2>2
<1>3. QED
  BY <1>1, <1>2

(* A transition of one sprint leaves the others.                           *)
LEMMA OneSprint ==
    ASSUME sprint \in [Sprints -> SprintRecords], NEW s \in Sprints,
           NEW sp \in SprintRecords, sprint' = [sprint EXCEPT ![s] = sp]
    PROVE  /\ sprint' \in [Sprints -> SprintRecords]
           /\ sprint'[s] = sp
           /\ \A q \in Sprints \ {s} : sprint'[q] = sprint[q]
OBVIOUS

LEMMA SprintTypesKept ==
    ASSUME Types, RepliesFit, SummaryOfSprint, Next
    PROVE  /\ sprint' \in [Sprints -> SprintRecords]
           /\ active' \in Sprints \cup {Nothing}
           /\ lane' \in [Lanes -> LaneStates]
<1>1. /\ sprint \in [Sprints -> SprintRecords] /\ active \in Sprints \cup {Nothing}
      /\ lane \in [Lanes -> LaneStates] /\ trim \in TrimRecords
  BY DEF Types
<1>2. \A s \in Sprints : sprint[s] \in SprintRecords
  BY <1>1
<1>3. active # Nothing => active \in Sprints
  BY <1>1
<1>4. /\ sprint' \in [Sprints -> SprintRecords]
      /\ active' \in Sprints \cup {Nothing}
  <2>1. CASE CommitTrim
    <3>1. trim'.revision \in Nat
      BY <1>1, <2>1, TrimEvents DEF CommitTrim, TrimRecords
    <3>2. QED
      BY <1>1, <1>2, <1>3, <2>1, <3>1, SprintEvents, OneSprint DEF CommitTrim
  <2>2. CASE PersistPlan
    <3>1. reply.sprint \in Sprints
      BY <2>2 DEF PersistPlan, Deciding, RepliesFit
    <3>2. QED
      BY <1>1, <1>2, <2>2, <3>1, SprintEvents, OneSprint DEF PersistPlan
  <2>3. CASE AdvanceSprint
    BY <1>1, <1>2, <1>3, <2>3, SprintEvents, OneSprint DEF AdvanceSprint, BarrierDue
  <2>4. CASE PreflightStale
    BY <1>1, <1>2, <1>3, <2>4, SprintEvents, OneSprint DEF PreflightStale, ActiveIs
  <2>5. CASE LaunchSprint
    BY <1>1, <1>2, <1>3, <2>5, SprintEvents, OneSprint DEF LaunchSprint, ActiveIs
  <2>6. CASE FailSummary
    <3>1. active \in Sprints
      BY <1>3, <2>6 DEF FailSummary, SummaryOfSprint, ActiveIs
    <3>2. QED
      BY <1>1, <1>2, <2>6, <3>1, SprintEvents, OneSprint DEF FailSummary
  <2>7. CASE AcceptSummary
    BY <1>1, <1>2, <1>3, <2>7, SprintEvents, OneSprint DEF AcceptSummary, SummaryOnly
  <2>8. CASE Continue
    BY <1>1, <1>2, <1>3, <2>8, SprintEvents, OneSprint DEF Continue, ActiveIs
  <2>9. CASE CancelSprint
    BY <1>1, <1>2, <1>3, <2>9, SprintEvents, OneSprint DEF CancelSprint
  <2>10. CASE RetrySummary
    <3>1. active \in Sprints
      BY <2>10 DEF RetrySummary, CanAuthorize, SummaryOfSprint
    <3>2. QED
      BY <1>1, <1>2, <2>10, <3>1, SprintEvents, OneSprint DEF RetrySummary
  <2>11. ASSUME NEW f \in Facts, Resolve(f)
         PROVE  /\ sprint' \in [Sprints -> SprintRecords]
                /\ active' \in Sprints \cup {Nothing}
    <3>1. CASE UNCHANGED <<sprint, active>>
      BY <1>1, <3>1
    <3>2. CASE ~UNCHANGED <<sprint, active>>
      <4>1. /\ active # Nothing
            /\ sprint' = [sprint EXCEPT ![active] = SupersedeSprint(sprint[active])]
            /\ active' \in {active, Nothing}
        BY <2>11, <3>2, Superseded, Zenon
      <4>2. QED
        BY <1>1, <1>2, <1>3, <4>1, SprintEvents, OneSprint
    <3>3. QED
      BY <3>1, <3>2
  <2>12. QED
    BY <1>1, <2>1, <2>2, <2>3, <2>4, <2>5, <2>6, <2>7, <2>8, <2>9, <2>10, <2>11,
       SprintChanges
<1>5. lane' \in [Lanes -> LaneStates]
  <2>1. CASE PersistPlan \/ LaunchSprint
    BY <1>1, <2>1 DEF PersistPlan, LaunchSprint, LaneStates, Open, Placed
  <2>2. ASSUME NEW l \in Lanes,
               StartLane(l) \/ CloseLane(l) \/ LaneAsks(l) \/ AnswerLane(l)
        PROVE  lane' \in [Lanes -> LaneStates]
    BY <1>1, <2>2 DEF StartLane, CloseLane, LaneAsks, AnswerLane, LaneStates,
       Open, Placed
  <2>3. QED
    BY <1>1, <2>1, <2>2, LaneSteps
<1>6. QED
  BY <1>4, <1>5

LEMMA TaskTypesKept ==
    ASSUME Types, Next
    PROVE  task' \in [Jobs -> TaskStates]
<1>1. task \in [Jobs -> TaskStates]
  BY DEF Types
<1>2. CASE Assign \/ AssignWriter
  BY <1>1, <1>2 DEF Assign, AssignWriter, TaskStates, Jobs
<1>3. ASSUME NEW t \in Jobs, LaunchTask(t) \/ CloseTask(t)
      PROVE  task' \in [Jobs -> TaskStates]
  BY <1>1, <1>3 DEF LaunchTask, CloseTask, TaskStates
<1>4. ASSUME NEW f \in Facts, Revoke(f)
      PROVE  task' \in [Jobs -> TaskStates]
  BY <1>1, <1>4 DEF Revoke, TaskStates
<1>5. QED
  BY <1>1, <1>2, <1>3, <1>4, TaskSteps

LEMMA SummaryTypesKept ==
    ASSUME Types, Next
    PROVE  summary' \in SummaryCalls
<1>1. summary \in CallRecords({"summarizer"}, Sprints) /\ active \in Sprints \cup {Nothing}
  BY DEF Types, SummaryCalls
<1>2. ASSUME PersistPlan
      PROVE  summary' \in CallRecords({"summarizer"}, Sprints)
  <2>1. summary' \in {summary, NoCall}
    BY <1>2 DEF PersistPlan
  <2>2. QED
    BY <1>1, <2>1, EmptyCall
<1>3. ASSUME PrepareSummary
      PROVE  summary' \in CallRecords({"summarizer"}, Sprints)
  BY <1>1, <1>3, NewCalls, ConstantsAssumption DEF PrepareSummary, ActiveIs
<1>4. ASSUME ReplySummary
      PROVE  summary' \in CallRecords({"summarizer"}, Sprints)
  <2>1. summary.attempt \in Nat
    BY <1>1 DEF CallRecords
  <2>2. QED
    BY <1>1, <1>4, <2>1, CallEvents DEF ReplySummary
<1>5. ASSUME LaunchSummary \/ FailSummary \/ MarkSummary \/ Resume \/ CancelSprint
             \/ RetrySummary
      PROVE  summary' \in CallRecords({"summarizer"}, Sprints)
  BY <1>1, <1>5, CallEvents DEF LaunchSummary, FailSummary, MarkSummary, Resume,
     CancelSprint, RetrySummary
<1>6. ASSUME NEW f \in Facts, Resolve(f)
      PROVE  summary' \in CallRecords({"summarizer"}, Sprints)
  <2>1. summary' \in {summary, Cancel(summary)}
    BY <1>6, Superseded, Zenon
  <2>2. QED
    BY <1>1, <2>1, CallEvents
<1>7. QED
  BY <1>1, <1>2, <1>3, <1>4, <1>5, <1>6, SummarySteps DEF SummaryCalls

(* The outcome that follows a revoked one is a Fact that stands.           *)
LEMMA HeirStands ==
    ASSUME NEW f, NEW heir \in Heirs(f)
    PROVE  heir = Nothing \/ heir \in Survivors(f)
<1>1. Heirs(f) \subseteq Survivors(f) \cup {Nothing}
  BY DEF Heirs
<1>2. QED
  BY <1>1

(* What a revocation does to the gate, the root and the writer.            *)
LEMMA Revoked ==
    ASSUME NEW f \in Facts, Revoke(f)
    PROVE  /\ Idle /\ f \in Standing
           /\ standing' = [standing EXCEPT ![f] = 0]
           /\ revoked' = revoked \cup {f}
           /\ root.solution = f /\ Survivors(f) = {} => gate' = "open"
           /\ ~(root.solution = f /\ Survivors(f) = {}) => gate' = gate
           /\ task' \in {task, [task EXCEPT ![Writer] = "closed"]}
BY Zenon DEF Revoke

LEMMA RevokedOutcome ==
    ASSUME NEW f \in Facts, Revoke(f)
    PROVE  \E heir \in Survivors(f) \cup {Nothing} : root' = RootAfter(f, heir)
<1>1. PICK heir \in Heirs(f) : root' = RootAfter(f, heir)
  BY Zenon DEF Revoke
<1>2. QED
  BY <1>1, HeirStands, Zenon

(* What a resolution does to the root and the Facts that stand.            *)
LEMMA Resolved ==
    ASSUME NEW f \in Facts, Resolve(f)
    PROVE  /\ ~AllClosed /\ gate # "completed"
           /\ f \notin Published
           /\ standing' = [standing EXCEPT ![f] = Cardinality(Published) + 1]
           /\ UNCHANGED revoked
BY Zenon DEF Resolve

LEMMA ResolvedOutcome ==
    ASSUME NEW f \in Facts, Resolve(f)
    PROVE  /\ root.solution = Nothing => root' = [root EXCEPT !.solution = f, !.done = FALSE]
           /\ root.solution # Nothing =>
                root' \in {root, [root EXCEPT !.conflicts =
                                     root.conflicts \cup {<<root.solution, f>>}]}
<1>1. CASE root.solution = Nothing
  BY <1>1, Zenon DEF Resolve
<1>2. CASE root.solution # Nothing
  BY <1>2, Zenon DEF Resolve
<1>3. QED
  BY <1>1, <1>2

LEMMA RootTypesKept ==
    ASSUME Types, Next
    PROVE  /\ root' \in RootRecords
           /\ standing' \in [Facts -> Nat]
           /\ revoked' \subseteq Facts
           /\ IsFiniteSet(Published')
<1>1. /\ root \in RootRecords /\ standing \in [Facts -> Nat] /\ revoked \subseteq Facts
      /\ IsFiniteSet(Published)
  BY DEF Types
<1>2. CASE UNCHANGED <<root, standing, revoked>>
  BY <1>1, <1>2 DEF Published, Standing
<1>3. CASE Decline \/ ConcludeWithWriter \/ AssignWriter
  <2>1. /\ \/ root' = [root EXCEPT !.done = TRUE]
           \/ root' = [root EXCEPT !.writer = TRUE]
        /\ UNCHANGED <<standing, revoked>>
    BY <1>3, DecisionOnly DEF Decline, ConcludeWithWriter, AssignWriter
  <2>2. root' \in RootRecords
    BY <1>1, <2>1 DEF RootRecords
  <2>3. QED
    BY <1>1, <2>1, <2>2 DEF Published, Standing
<1>4. ASSUME NEW f \in Facts, Resolve(f)
      PROVE  /\ root' \in RootRecords
             /\ standing' \in [Facts -> Nat]
             /\ revoked' \subseteq Facts
             /\ IsFiniteSet(Published')
  <2>1. Cardinality(Published) + 1 \in Nat /\ Cardinality(Published) + 1 > 0
    BY <1>1, FS_CardinalityType
  <2>2. /\ standing' = [standing EXCEPT ![f] = Cardinality(Published) + 1]
        /\ revoked' = revoked
    BY <1>4, Resolved
  <2>3. standing' \in [Facts -> Nat]
    BY <1>1, <2>1, <2>2
  <2>4. Published' \subseteq Published \cup {f}
    BY <1>1, <2>2 DEF Published, Standing
  <2>5. IsFiniteSet(Published')
    BY <1>1, <2>4, FS_AddElement, FS_Subset
  <2>6. CASE root.solution # Nothing
    <3> DEFINE conflicts == root.conflicts \cup {<<root.solution, f>>}
    <3>1. conflicts \in SUBSET (Facts \X Facts)
      BY <1>1, <2>6 DEF RootRecords
    <3>2. root' \in {root, [root EXCEPT !.conflicts = conflicts]}
      BY <1>4, <2>6, ResolvedOutcome, Zenon
    <3> HIDE DEF conflicts
    <3>3. root' \in RootRecords
      BY <1>1, <3>1, <3>2 DEF RootRecords
    <3>4. QED
      BY <1>1, <2>2, <2>3, <2>5, <3>3
  <2>7. CASE root.solution = Nothing
    <3>1. root' = [root EXCEPT !.solution = f, !.done = FALSE]
      BY <1>4, <2>7, ResolvedOutcome, Zenon
    <3>2. root' \in RootRecords
      BY <1>1, <3>1 DEF RootRecords
    <3>3. QED
      BY <1>1, <2>2, <2>3, <2>5, <3>2
  <2>8. QED
    BY <2>6, <2>7
<1>5. ASSUME NEW f \in Facts, Revoke(f)
      PROVE  /\ root' \in RootRecords
             /\ standing' \in [Facts -> Nat]
             /\ revoked' \subseteq Facts
             /\ IsFiniteSet(Published')
  <2>1. /\ standing' \in [Facts -> Nat] /\ revoked' \subseteq Facts
        /\ Published' \subseteq Published
    <3>1. /\ f \in Standing /\ standing' = [standing EXCEPT ![f] = 0]
          /\ revoked' = revoked \cup {f}
      BY <1>5, Revoked, Zenon
    <3>2. QED
      BY <1>1, <3>1 DEF Published, Standing
  <2>2. Survivors(f) \subseteq Facts /\ Conflicts(f) \in SUBSET (Facts \X Facts)
    BY <1>1 DEF Survivors, Standing, Conflicts, RootRecords
  <2>3. root' \in RootRecords
    <3>1. PICK heir \in Survivors(f) \cup {Nothing} : root' = RootAfter(f, heir)
      BY <1>5, RevokedOutcome
    <3>2. heir \in Facts \cup {Nothing}
      BY <2>2
    <3> DEFINE conflicts == Conflicts(f)
    <3>3. conflicts \in SUBSET (Facts \X Facts)
      BY <2>2
    <3>4. \/ root' = [root EXCEPT !.conflicts = conflicts]
          \/ root' = [root EXCEPT !.solution = heir, !.conflicts = conflicts]
          \/ root' = [solution |-> Nothing, conflicts |-> {}, done |-> FALSE,
                      writer |-> FALSE]
      BY <3>1, Zenon DEF RootAfter
    <3> HIDE DEF conflicts
    <3>5. CASE root' = [root EXCEPT !.conflicts = conflicts]
      BY <1>1, <3>3, <3>5 DEF RootRecords
    <3>6. CASE root' = [root EXCEPT !.solution = heir, !.conflicts = conflicts]
      BY <1>1, <3>2, <3>3, <3>6 DEF RootRecords
    <3>7. CASE root' = [solution |-> Nothing, conflicts |-> {}, done |-> FALSE,
                        writer |-> FALSE]
      BY <3>7 DEF RootRecords
    <3>8. QED
      BY <3>4, <3>5, <3>6, <3>7
  <2>4. QED
    BY <1>1, <2>1, <2>3, FS_Subset
<1>6. QED
  BY <1>2, <1>3, <1>4, <1>5, RootSteps

LEMMA TypesKept ==
    ASSUME Types, RepliesFit, SummaryOfSprint, Next
    PROVE  Types'
<1>1. host' \in {"up", "recovering", "down"}
  BY HostSteps DEF Types, Resume, Enter
<1>2. {asked, halt, fresh, passed, applied}' \subseteq BOOLEAN
  BY FlagsKept, TrimTypesKept DEF Types
<1>3. due' \subseteq Jobs \cup Lanes \cup {"project"}
  BY DueKept DEF Types
<1>4. QED
  BY <1>1, <1>2, <1>3, TrimTypesKept, CallTypesKept, SprintTypesKept, TaskTypesKept,
     SummaryTypesKept, RootTypesKept DEF Types

(***************************************************************************)
(* The results.                                                            *)
(***************************************************************************)
(* Every step keeps each part of the invariant.                            *)
LEMMA RepliesFitKept ==
    ASSUME Types, RepliesFit, Next
    PROVE  RepliesFit'
<1> DEFINE Sound(c, r, st) ==
             /\ c.status # "absent" => c.owner \in Phases
             /\ c.status = "completed" => r.decision \in Decisions(c.owner)
             /\ st # NothingStored =>
                  c.status # "absent" /\ st.of.decision \in Decisions(c.owner)
             /\ r.decision \in {"sprint", "no_sprint"} => r.sprint \in Sprints
             /\ st.of.decision \in {"sprint", "no_sprint"} => st.of.sprint \in Sprints
<1>1. /\ call \in CallRecords({"main", "trimmer"}, Phases)
      /\ trim.phase \in {"none", "maintain", "select"}
  BY DEF Types, ControlCalls, TrimRecords
<1>2. Sound(call, reply, stored)
  BY DEF RepliesFit
<1>3. Sound(call', reply', stored') => RepliesFit'
  BY DEF RepliesFit
<1>4. ASSUME NEW kind \in {"main", "trimmer"}, NEW phase \in Phases, Prepare(kind, phase)
      PROVE  Sound(call', reply', stored')
  <2>1. call'.status = "prepared" /\ call'.owner = phase
    BY <1>4 DEF Prepare, PrepareCall
  <2>2. reply' = NoReply /\ stored' = NothingStored
    BY <1>4 DEF Prepare, Forget
  <2>3. NoReply.decision = "none" /\ NothingStored.of = NoReply
    BY DEF NoReply, NothingStored
  <2>4. QED
    BY <2>1, <2>2, <2>3
<1>5. ASSUME CommitTrim \/ Mark
      PROVE  Sound(call', reply', stored')
  <2>1. call'.status = "committed" /\ call'.owner = call.owner /\ call.status # "absent"
    BY <1>1, <1>5, CommittedEvent DEF CommitTrim, Mark, Deciding
  <2>2. reply' = NoReply /\ stored' = NothingStored
    BY <1>5 DEF CommitTrim, Mark, Forget
  <2>3. NoReply.decision = "none" /\ NothingStored.of = NoReply
    BY DEF NoReply, NothingStored
  <2>4. QED
    BY <1>2, <2>1, <2>2, <2>3
<1>6. ASSUME LaunchControl \/ FailControl \/ Refuse \/ Resume \/ RetryControl
      PROVE  Sound(call', reply', stored')
  <2>1. /\ reply' = reply /\ stored' = stored /\ call'.owner = call.owner
        /\ call' = call \/ (call'.status \notin {"completed", "absent"}
                              /\ call.status # "absent")
    BY <1>1, <1>6, CallEvents DEF LaunchControl, CanLaunch, FailControl, Refuse, Refused,
       Deciding, Resume, RetryControl, CanAuthorize, Operator, resultVars, callVars
  <2>2. QED
    BY <1>2, <2>1
<1>7. ASSUME ReplyControl
      PROVE  Sound(call', reply', stored')
  <2>1. call.status = "running" /\ call.owner \in Phases
    BY <1>2, <1>7 DEF ReplyControl
  <2>2. call.attempt \in Nat
    BY <1>1 DEF CallRecords
  <2>3. /\ stored' = stored /\ call'.owner = call.owner
        /\ call'.status = "completed"
    <3>1. call' = ReceiveResult(call, call.attempt) /\ stored' = stored
      BY <1>7 DEF ReplyControl
    <3>2. QED
      BY <1>1, <2>1, <3>1 DEF ReceiveResult, CallRecords
  <2>4. CASE \E d \in Decisions(call.owner) : reply' \in Replies(d, call.attempt)
    BY <1>2, <2>1, <2>2, <2>3, <2>4, ReplyShape
  <2>5. CASE stored # NothingStored /\ reply' = stored.of
    BY <1>2, <2>3, <2>5
  <2>6. QED
    BY <1>7, <2>4, <2>5 DEF ReplyControl
<1>8. ASSUME CategoryStep \/ Assign
      PROVE  Sound(call', reply', stored')
  <2>1. call' = call /\ reply' = reply /\ call.status = "completed"
    BY <1>8 DEF CategoryStep, Assign, StaysCompleted, Deciding
  <2>2. stored' = stored \/ \E v : stored' = [verdict |-> v, of |-> reply]
    BY <1>8 DEF CategoryStep, Assign
  <2>3. stored' = stored \/ stored'.of = reply
    BY <2>2
  <2>4. QED
    BY <1>2, <2>1, <2>3
<1>9. ASSUME NEW f \in Facts, Resolve(f)
      PROVE  Sound(call', reply', stored')
  <2>1. reply' = reply /\ stored' = stored
    BY <1>9, ResolveOnly DEF resultVars
  <2>2. call' = call \/ (call' = Cancel(call) /\ call.status # "absent")
    BY <1>9, Superseded, Zenon DEF CanLaunch
  <2>3. /\ call'.owner = call.owner
        /\ \/ call' = call
           \/ call'.status = "cancelled" /\ call.status # "absent"
    <3>1. Cancel(call).owner = call.owner /\ Cancel(call).status = "cancelled"
      BY <1>1, CallEvents
    <3>2. CASE call' = call
      BY <3>2
    <3>3. CASE call' = Cancel(call) /\ call.status # "absent"
      BY <3>1, <3>3
    <3>4. QED
      BY <2>2, <3>2, <3>3
  <2>4. QED
    BY <1>2, <2>1, <2>3
<1>10. CASE UNCHANGED <<call, reply, stored>>
  BY <1>2, <1>3, <1>10
<1>11. ASSUME PrepareMain \/ PrepareReview \/ PrepareTrim
       PROVE  Sound(call', reply', stored')
  BY <1>1, <1>4, <1>11 DEF PrepareMain, PrepareReview, PrepareTrim, Phases
<1> HIDE DEF Sound
<1>12. QED
  BY <1>3, <1>5, <1>6, <1>7, <1>8, <1>9, <1>10, <1>11, CallSteps

(* What a trimmer call, a review and a main call decide.                   *)
LEMMA DecidedBy ==
    ASSUME RepliesFit, call.status = "completed"
    PROVE  /\ reply.decision \in {"no_trim", "trim"} => call.owner = "review"
           /\ reply.decision \in {"portfolio", "guidance", "sprint", "no_sprint"} =>
                call.owner \in {"maintain", "select"}
BY DEF RepliesFit, Phases, Decisions

(* The catalog revision only grows, and a stored portfolio is counted.     *)
LEMMA CatalogKept ==
    ASSUME Types, RepliesFit, CatalogCounts, CatalogNeverBehind, Next
    PROVE  CatalogCounts' /\ CatalogNeverBehind'
<1>1. /\ catalog \in Nat /\ trim \in TrimRecords /\ trim.revision \in Nat
      /\ reply.expected \in Nat /\ stored.of.expected \in Nat
  BY DEF Types, TrimRecords, ReplyRecords
<1>2. CatalogCounts'
  <2>1. CASE UNCHANGED <<stored, catalog>>
    BY <2>1 DEF CatalogCounts
  <2>2. CASE PrepareMain \/ PrepareReview \/ PrepareTrim \/ CommitTrim \/ Mark
    <3>1. stored' = NothingStored
      BY <2>2 DEF PrepareMain, PrepareReview, PrepareTrim, Prepare, CommitTrim, Mark,
         Forget
    <3>2. QED
      BY <3>1 DEF CatalogCounts, NothingStored
  <2>3. CASE LaunchControl \/ ReplyControl \/ FailControl \/ Refuse \/ Resume
             \/ RetryControl
    <3>1. UNCHANGED <<stored, catalog>>
      BY <2>3 DEF LaunchControl, ReplyControl, FailControl, Refuse, Resume,
         RetryControl, Operator, resultVars, trimVars
    <3>2. QED
      BY <2>1, <3>1
  <2>4. CASE CategoryStep
    <3>1. PICK verdict \in {"committed", "rejected"} :
            /\ verdict = "committed" => AppliesTo(catalog)
            /\ stored' = [verdict |-> verdict, of |-> reply]
            /\ catalog' = IF verdict = "committed" /\ reply.decision = "portfolio"
                          THEN catalog + 1 ELSE catalog
      BY <2>4, Zenon DEF CategoryStep
    <3>2. QED
      BY <1>1, <3>1 DEF CatalogCounts, AppliesTo
  <2>5. CASE Assign
    <3>1. catalog' = catalog /\ reply.decision = "assignments"
          /\ (stored' = stored \/ stored' = [verdict |-> "committed", of |-> reply])
      BY <2>5 DEF Assign, Deciding, trimVars
    <3>2. QED
      BY <1>1, <3>1 DEF CatalogCounts
  <2>6. ASSUME NEW f \in Facts, Resolve(f)
        PROVE  CatalogCounts'
    BY <2>1, <2>6, ResolveOnly DEF resultVars
  <2>7. QED
    BY <2>1, <2>2, <2>3, <2>4, <2>5, <2>6, CallSteps
<1>3. catalog' >= catalog
  <2>1. CASE UNCHANGED catalog
    BY <1>1, <2>1
  <2>2. CASE CategoryStep
    BY <1>1, <2>2 DEF CategoryStep
  <2>3. CASE PrepareMain \/ PrepareReview \/ PrepareTrim \/ CommitTrim \/ Mark
             \/ LaunchControl \/ ReplyControl \/ FailControl \/ Refuse \/ Resume
             \/ RetryControl \/ Assign
    BY <1>1, <2>3 DEF PrepareMain, PrepareReview, PrepareTrim, Prepare, CommitTrim,
       Mark, LaunchControl, ReplyControl, FailControl, Refuse, Resume, RetryControl,
       Operator, Assign, trimVars
  <2>4. QED
    BY <2>1, <2>2, <2>3, CallSteps, ResolveOnly
<1>4. CASE trim'.revision = trim.revision
  <2>1. catalog' \in Nat
    BY CallTypesKept
  <2>2. QED
    BY <1>1, <1>2, <1>3, <1>4, <2>1 DEF CatalogNeverBehind
<1>5. CASE CommitTrim
  <2>1. /\ reply.expected = trim.revision /\ stored = [verdict |-> "committed", of |-> reply]
        /\ reply.decision = "portfolio" /\ catalog' = catalog
        /\ trim' = CommitPortfolio(trim)
    BY <1>5 DEF CommitTrim, CanCommitTrim, CanCommitPortfolio, CategoriesDone, Stored,
       Deciding
  <2>2. trim'.revision = trim.revision + 1
    BY <1>1, <2>1 DEF CommitPortfolio, TrimRecords
  <2>3. trim.revision < catalog
    BY <2>1 DEF CatalogCounts
  <2>4. QED
    BY <1>1, <1>2, <2>1, <2>2, <2>3 DEF CatalogNeverBehind
<1>6. CASE ~CommitTrim
  <2>1. CASE UNCHANGED trim
    BY <1>4, <2>1
  <2>2. CASE StuckReport \/ StartReviewRound \/ AdvancePhase \/ ApplyReview
    <3>1. trim'.revision = trim.revision
      <4>1. ASSUME NEW t \in TrimRecords
            PROVE  /\ ReceiveStuck(t).revision = t.revision
                   /\ StartRound(t, RoundsPerSession).revision = t.revision
                   /\ Select(t).revision = t.revision
                   /\ \A d : Decide(t, d).revision = t.revision
        BY DEF TrimRecords, ReceiveStuck, StartRound, Select, Decide
      <4>2. StartRound(trim, RoundsPerSession) \in TrimRecords
        BY <1>1, TrimEvents
      <4>3. QED
        BY <1>1, <2>2, <4>1, <4>2 DEF StuckReport, StartReviewRound, AdvancePhase,
           ApplyReview
    <3>2. QED
      BY <1>4, <3>1
  <2>3. CASE RequestGuidance \/ AnswerGuidance
    BY <2>1, <2>3 DEF RequestGuidance, AnswerGuidance, Operator
  <2>4. ASSUME NEW j \in Jobs \cup Lanes \cup {"project"}, CloseTail(j)
        PROVE  CatalogCounts' /\ CatalogNeverBehind'
    BY <2>1, <2>4 DEF CloseTail, OthersIdle, trimVars
  <2>5. ASSUME NEW f \in Facts, Revoke(f)
        PROVE  CatalogCounts' /\ CatalogNeverBehind'
    BY <2>1, <2>5 DEF Revoke, trimVars
  <2>6. ASSUME NEW f \in Facts, Resolve(f)
        PROVE  CatalogCounts' /\ CatalogNeverBehind'
    <3>1. trim' = trim \/ trim' = SupersedeTrim(trim)
      BY <2>6, Superseded, Zenon
    <3>2. trim'.revision = trim.revision
      BY <1>1, <3>1 DEF SupersedeTrim, TrimRecords
    <3>3. QED
      BY <1>4, <3>2
  <2>7. QED
    BY <1>6, <2>1, <2>2, <2>3, <2>4, <2>5, <2>6, GateSteps
<1>7. QED
  BY <1>5, <1>6

(***************************************************************************)
(* The gate.                                                               *)
(***************************************************************************)
LEMMA GateMatchesTrimKept ==
    ASSUME Types, RepliesFit, GateMatchesTrim, RootMatchesGate, Next
    PROVE  GateMatchesTrim'
<1> USE DEF GateMatchesTrim
<1>1. /\ gate \in Gates /\ trim \in TrimRecords /\ asked \in BOOLEAN
      /\ root \in RootRecords
  BY DEF Types
<1>2. CASE UNCHANGED <<gate, trim, asked>>
  BY <1>2
<1>3. CASE StuckReport
  BY <1>1, <1>3 DEF StuckReport, CanReceiveStuck, ReceiveStuck, TrimRecords
<1>4. CASE StartReviewRound
  BY <1>1, <1>4 DEF StartReviewRound, CanStartRound, StartRound, TrimRecords
<1>5. CASE AdvancePhase
  BY <1>1, <1>5 DEF AdvancePhase, CanSelect, Select, TrimRecords
<1>6. CASE CommitTrim
  BY <1>1, <1>6 DEF CommitTrim, CanCommitTrim, CanCommitPortfolio, CommitPortfolio,
     TrimRecords
<1>7. CASE ApplyReview
  <2> DEFINE bound == StartRound(trim, RoundsPerSession)
  <2>1. bound \in TrimRecords /\ bound.phase = trim.phase
    <3>1. StartRound(trim, RoundsPerSession) \in TrimRecords
      BY <1>1, TrimEvents
    <3>2. StartRound(trim, RoundsPerSession).phase = trim.phase
      BY <1>1 DEF StartRound, TrimRecords
    <3>3. QED
      BY <3>1, <3>2
  <2>2. /\ gate = "reviewing_trim" /\ trim.phase = "none" /\ ~asked
        /\ trim' = Decide(bound, reply.decision)
        /\ gate' = GateDecided(reply.decision) /\ asked' = asked
    BY <1>1, <1>7 DEF ApplyReview, CanDecide
  <2> HIDE DEF bound
  <2>3. QED
    BY <1>1, <2>1, <2>2 DEF Decide, GateDecided, TrimRecords
<1>8. CASE RequestGuidance \/ AnswerGuidance
  BY <1>1, <1>8 DEF RequestGuidance, AnswerGuidance, Operator
<1>9. ASSUME NEW j \in Jobs \cup Lanes \cup {"project"}, CloseTail(j)
      PROVE  GateMatchesTrim'
  BY <1>1, <1>9 DEF CloseTail, Completable, OthersIdle, trimVars
<1>10. ASSUME NEW f \in Facts, Resolve(f)
       PROVE  GateMatchesTrim'
  <2>1. \/ UNCHANGED <<gate, trim, asked>>
        \/ gate' = "resolution_pending" /\ trim' = SupersedeTrim(trim) /\ asked' = FALSE
    BY <1>10, Superseded, Zenon
  <2>2. QED
    <3>1. CASE UNCHANGED <<gate, trim, asked>>
      BY <3>1
    <3>2. CASE gate' = "resolution_pending" /\ trim' = SupersedeTrim(trim)
                 /\ asked' = FALSE
      <4>1. trim'.review = "none" /\ trim'.phase = "none"
        BY <1>1, <3>2 DEF SupersedeTrim, TrimRecords
      <4>2. /\ (gate' = "reviewing_trim") = (trim'.review # "none")
            /\ (gate' \in {"trimming", "waiting_for_human"}) = (trim'.phase # "none")
        BY <3>2, <4>1
      <4>3. gate' # "waiting_for_human" /\ ~asked' /\ asked' \in BOOLEAN
        BY <3>2
      <4>4. QED
        BY <4>2, <4>3
    <3>3. QED
      BY <2>1, <3>1, <3>2
<1>11. ASSUME NEW f \in Facts, Revoke(f)
       PROVE  GateMatchesTrim'
  <2>1. /\ UNCHANGED <<trim, asked>>
        /\ \/ gate' = gate
           \/ gate' = "open" /\ root.solution = f
    BY <1>11, Revoked DEF Revoke, trimVars
  <2>2. f # Nothing
    BY ConstantsAssumption DEF Facts
  <2>3. QED
    BY <1>1, <2>1, <2>2 DEF RootMatchesGate
<1>12. QED
  BY <1>2, <1>3, <1>4, <1>5, <1>6, <1>7, <1>8, <1>9, <1>10, <1>11, GateSteps

(* No job is opened, and no lane, when all are closed.                     *)
LEMMA StaysClosed ==
    ASSUME Types, AllClosed, gate = "completed", Next, gate' = "completed"
    PROVE  AllClosed'
<1>1. task \in [Jobs -> TaskStates] /\ lane \in [Lanes -> LaneStates]
  BY DEF Types
<1>2. /\ \A t \in Jobs : task[t] \notin {"launching", "running"}
      /\ \A l \in Lanes : lane[l] \notin Open
  BY DEF AllClosed, OpenJobs, OpenLanes, Open, Placed
<1>3. \A t \in Jobs : task'[t] \notin {"launching", "running"}
  <2>1. CASE UNCHANGED task
    BY <1>2, <2>1
  <2>2. CASE Assign \/ AssignWriter
    BY <1>2, <2>2 DEF Assign, AssignWriter
  <2>3. ASSUME NEW t \in Jobs, LaunchTask(t) \/ CloseTask(t)
        PROVE  FALSE
    BY <1>2, <2>3 DEF LaunchTask, CloseTask
  <2>4. ASSUME NEW f \in Facts, Revoke(f)
        PROVE  \A t \in Jobs : task'[t] \notin {"launching", "running"}
    BY <1>1, <1>2, <2>4, Revoked
  <2>5. QED
    BY <2>1, <2>2, <2>3, <2>4, TaskSteps
<1>4. \A l \in Lanes : lane'[l] \notin Open
  <2>1. CASE UNCHANGED lane
    BY <1>2, <2>1
  <2>2. CASE PersistPlan
    BY <1>2, <2>2 DEF PersistPlan, Open, Placed
  <2>3. CASE LaunchSprint
    BY <2>3 DEF LaunchSprint
  <2>4. ASSUME NEW l \in Lanes,
               StartLane(l) \/ CloseLane(l) \/ LaneAsks(l) \/ AnswerLane(l)
        PROVE  FALSE
    BY <1>2, <2>4 DEF StartLane, CloseLane, LaneAsks, AnswerLane, Open, Placed
  <2>5. QED
    BY <2>1, <2>2, <2>3, <2>4, LaneSteps
<1>5. \A t \in Jobs : task'[t] \notin Open
  BY <1>3, TaskTypesKept DEF TaskStates, Open, Placed
<1>6. QED
  BY <1>4, <1>5 DEF AllClosed, OpenJobs, OpenLanes

(* A project is completed only by the tail that finds it completable, and  *)
(* the gate leaves the two states of a resolved root only for "open".      *)
LEMMA GateMoves ==
    ASSUME Types, Next
    PROVE  /\ gate' = "completed" =>
                \/ gate = "completed"
                \/ /\ Completable /\ UNCHANGED <<task, lane, root>>
           /\ gate \in {"resolution_pending", "completed"} =>
                \/ gate' \in {"resolution_pending", "completed"}
                \/ gate' = "open" /\ \E f \in Facts : Revoke(f) /\ root.solution = f
                                                     /\ Survivors(f) = {}
<1>1. CASE UNCHANGED gate
  BY <1>1
<1>2. CASE StuckReport \/ StartReviewRound \/ AdvancePhase \/ CommitTrim
           \/ ApplyReview \/ RequestGuidance \/ AnswerGuidance
  BY <1>2 DEF StuckReport, CanReceiveStuck, StartReviewRound, AdvancePhase, CommitTrim,
     CanCommitTrim, CanCommitPortfolio, ApplyReview, CanDecide, GateDecided,
     RequestGuidance, AnswerGuidance
<1>3. ASSUME NEW j \in Jobs \cup Lanes \cup {"project"}, CloseTail(j)
      PROVE  /\ gate' = gate \/ (gate' = "completed" /\ Completable)
             /\ UNCHANGED <<task, lane, root>>
             /\ Completable => gate = "resolution_pending"
  BY <1>3 DEF CloseTail, OthersIdle, sprintVars, rootVars, Completable
<1>4. ASSUME NEW f \in Facts, Resolve(f)
      PROVE  gate' \in {gate, "resolution_pending"}
  BY <1>4, Superseded, Zenon
<1>5. ASSUME NEW f \in Facts, Revoke(f)
      PROVE  \/ gate' = gate
             \/ gate' = "open" /\ root.solution = f /\ Survivors(f) = {}
  BY <1>5, Revoked, Zenon
<1>6. QED
  BY <1>1, <1>2, <1>3, <1>4, <1>5, GateSteps

(* What a Fact that is no outcome, or is one, leaves standing.             *)
LEMMA StandingKept ==
    ASSUME Types, NEW f \in Facts, NEW g \in Standing,
           \/ Resolve(f)
           \/ Revoke(f) /\ f # g
    PROVE  g \in Standing'
<1>1. standing \in [Facts -> Nat] /\ g \in Facts /\ standing[g] > 0
  BY DEF Types, Standing
<1>2. CASE Resolve(f)
  <2>1. standing' = [standing EXCEPT ![f] = Cardinality(Published) + 1] /\ f \notin Published
    BY <1>2, Resolved
  <2>2. f # g
    BY <2>1 DEF Published
  <2>3. QED
    BY <1>1, <2>1, <2>2 DEF Standing
<1>3. CASE Revoke(f) /\ f # g
  <2>1. standing' = [standing EXCEPT ![f] = 0]
    BY <1>3, Revoked
  <2>2. QED
    BY <1>1, <1>3, <2>1 DEF Standing
<1>4. QED
  BY <1>2, <1>3

LEMMA RootMatchesGateKept ==
    ASSUME Types, GateMatchesTrim, RootMatchesGate, Next
    PROVE  RootMatchesGate'
<1>1. /\ root \in RootRecords /\ standing \in [Facts -> Nat] /\ Nothing \notin Facts
  BY ConstantsAssumption DEF Types
<1>2. gate = "completed" => AllClosed /\ root.done /\ root.conflicts = {}
  BY DEF RootMatchesGate
<1>3. root'.solution # Nothing =>
        /\ root'.solution \in Standing'
        /\ gate' \in {"resolution_pending", "completed"}
  <2>1. CASE UNCHANGED <<root, standing, revoked>> /\ \A f \in Facts : ~Revoke(f)
    <3>1. root.solution # Nothing => gate' \in {"resolution_pending", "completed"}
      BY <2>1, GateMoves DEF RootMatchesGate
    <3>2. QED
      BY <2>1, <3>1 DEF RootMatchesGate, Standing
  <2>2. CASE Decline \/ ConcludeWithWriter \/ AssignWriter
    <3>1. /\ \/ root' = [root EXCEPT !.done = TRUE]
             \/ root' = [root EXCEPT !.writer = TRUE]
          /\ UNCHANGED <<standing, revoked, gate>>
      BY <2>2, DecisionOnly DEF Decline, ConcludeWithWriter, AssignWriter
    <3>2. root'.solution = root.solution
      BY <1>1, <3>1 DEF RootRecords
    <3>3. QED
      BY <3>1, <3>2 DEF RootMatchesGate, Standing
  <2>3. ASSUME NEW f \in Facts, Resolve(f)
        PROVE  root'.solution # Nothing =>
                 /\ root'.solution \in Standing'
                 /\ gate' \in {"resolution_pending", "completed"}
    <3>1. CASE root.solution # Nothing
      <4>1. root'.solution = root.solution /\ gate' = gate
        BY <2>3, <3>1, Superseded, Zenon
      <4>2. QED
        BY <2>3, <3>1, <4>1, StandingKept DEF RootMatchesGate
    <3>2. CASE root.solution = Nothing
      <4>1. root' = [root EXCEPT !.solution = f, !.done = FALSE]
            /\ gate' = "resolution_pending"
        BY <2>3, <3>2, Superseded, Zenon
      <4>2. root'.solution = f
        BY <1>1, <4>1 DEF RootRecords
      <4>3. standing' = [standing EXCEPT ![f] = Cardinality(Published) + 1]
        BY <2>3, Resolved
      <4>4. Cardinality(Published) + 1 > 0
        BY FS_CardinalityType DEF Types
      <4>5. f \in Standing'
        BY <1>1, <4>3, <4>4 DEF Standing
      <4>6. QED
        BY <4>1, <4>2, <4>5
    <3>3. QED
      BY <3>1, <3>2
  <2>4. ASSUME NEW f \in Facts, Revoke(f)
        PROVE  root'.solution # Nothing =>
                 /\ root'.solution \in Standing'
                 /\ gate' \in {"resolution_pending", "completed"}
    <3>1. PICK heir \in Survivors(f) \cup {Nothing} : root' = RootAfter(f, heir)
      BY <2>4, RevokedOutcome
    <3>2. \A g \in Survivors(f) : g \in Standing'
      BY <2>4, StandingKept DEF Survivors
    <3>3. ASSUME root.solution # f
          PROVE  root'.solution = root.solution
      BY <1>1, <3>1, <3>3 DEF RootAfter, RootRecords
    <3>4. ASSUME root.solution = f
          PROVE  root'.solution = heir \/ root'.solution = Nothing
      BY <1>1, <3>1, <3>4 DEF RootAfter, RootRecords
    <3>5. CASE root.solution # f /\ root.solution # Nothing
      <4>1. gate' = gate
        BY <2>4, <3>5, Revoked, Zenon
      <4>2. root.solution \in Standing'
        BY <2>4, <3>5, StandingKept DEF RootMatchesGate
      <4>3. QED
        BY <3>3, <3>5, <4>1, <4>2 DEF RootMatchesGate
    <3>6. CASE root.solution = Nothing
      BY <1>1, <3>3, <3>6
    <3>7. CASE root.solution = f /\ Survivors(f) # {}
      <4>1. gate' = gate
        BY <2>4, <3>7, Revoked, Zenon
      <4>2. QED
        BY <1>1, <3>1, <3>2, <3>4, <3>7, <4>1 DEF RootMatchesGate
    <3>8. CASE root.solution = f /\ Survivors(f) = {}
      BY <3>1, <3>4, <3>8
    <3>9. QED
      BY <3>5, <3>6, <3>7, <3>8
  <2>5. QED
    BY <2>1, <2>2, <2>3, <2>4, RootSteps
<1>4. gate' = "completed" => AllClosed' /\ root'.done /\ root'.conflicts = {}
  <2>1. SUFFICES ASSUME gate' = "completed"
                 PROVE  AllClosed' /\ root'.done /\ root'.conflicts = {}
    OBVIOUS
  <2>2. CASE Completable /\ UNCHANGED <<task, lane, root>>
    BY <2>2 DEF Completable, AllClosed, OpenJobs, OpenLanes
  <2>3. CASE gate = "completed"
    <3>1. AllClosed' /\ root.done /\ root.conflicts = {}
      BY <1>2, <2>1, <2>3, StaysClosed
    <3>2. root'.done /\ root'.conflicts = {}
      <4>1. CASE UNCHANGED root
        BY <3>1, <4>1
      <4>2. CASE Decline \/ ConcludeWithWriter \/ AssignWriter
        <5>1. \/ root' = [root EXCEPT !.done = TRUE]
              \/ root' = [root EXCEPT !.writer = TRUE]
          BY <4>2, DecisionOnly DEF Decline, ConcludeWithWriter, AssignWriter
        <5>2. QED
          BY <1>1, <3>1, <5>1 DEF RootRecords
      <4>3. ASSUME NEW f \in Facts, Resolve(f)
            PROVE  FALSE
        BY <2>3, <4>3, Resolved
      <4>4. ASSUME NEW f \in Facts, Revoke(f)
            PROVE  root'.done /\ root'.conflicts = {}
        <5>1. PICK heir \in Survivors(f) \cup {Nothing} : root' = RootAfter(f, heir)
          BY <4>4, RevokedOutcome
        <5>2. ~(root.solution = f /\ Survivors(f) = {})
          BY <2>1, <4>4, Revoked
        <5>3. Conflicts(f) = {}
          BY <3>1 DEF Conflicts
        <5>4. QED
          BY <1>1, <3>1, <5>1, <5>2, <5>3 DEF RootAfter, RootRecords
      <4>5. QED
        BY <4>1, <4>2, <4>3, <4>4, RootSteps
    <3>3. QED
      BY <3>1, <3>2
  <2>4. QED
    BY <2>1, <2>2, <2>3, GateMoves
<1>5. QED
  BY <1>3, <1>4 DEF RootMatchesGate

(***************************************************************************)
(* The sprints.                                                            *)
(***************************************************************************)
LEMMA StaysOnItsWay ==
    ASSUME NEW sp \in SprintRecords, OnItsWay(sp)
    PROVE  /\ \A d : OnItsWay(Persist(sp, d))
           /\ OnItsWay(LaunchAttention(sp)) /\ OnItsWay(SummaryAttention(sp))
           /\ OnItsWay(Attach(sp)) /\ OnItsWay(CompleteContinuation(sp))
           /\ OnItsWay(CancelledSprint(sp)) /\ OnItsWay(SupersedeSprint(sp))
           /\ \A g : OnItsWay(Advance(sp, g))
           /\ sp.status = "awaiting_summary" => OnItsWay(Accept(sp))
           /\ sp.frozen => OnItsWay(Restore(sp))
           /\ \A n \in Nat : Integrates(sp) => OnItsWay(Integrate(sp, n))
<1> USE DEF SprintRecords
<1>1. ASSUME NEW d
      PROVE  OnItsWay(Persist(sp, d))
  BY <1>1 DEF Persist, OnItsWay
<1>2. OnItsWay(LaunchAttention(sp)) /\ OnItsWay(SummaryAttention(sp))
  BY DEF LaunchAttention, SummaryAttention, OnItsWay
<1>3. OnItsWay(Attach(sp)) /\ OnItsWay(CompleteContinuation(sp))
  BY DEF Attach, CompleteContinuation, OnItsWay
<1>4. OnItsWay(CancelledSprint(sp)) /\ OnItsWay(SupersedeSprint(sp))
  BY DEF CancelledSprint, SupersedeSprint, OnItsWay
<1>5. ASSUME NEW g
      PROVE  OnItsWay(Advance(sp, g))
  BY <1>5 DEF Advance, OnItsWay
<1>6. sp.status = "awaiting_summary" => OnItsWay(Accept(sp))
  BY DEF Accept, OnItsWay
<1>7. sp.frozen => OnItsWay(Restore(sp))
  BY DEF Restore, OnItsWay
<1>8. ASSUME NEW n \in Nat, Integrates(sp)
      PROVE  OnItsWay(Integrate(sp, n))
  BY <1>8 DEF Integrate, Integrates, OnItsWay
<1>9. QED
  BY <1>1, <1>2, <1>3, <1>4, <1>5, <1>6, <1>7, <1>8

(* Where the active sprint is.                                             *)
Where == IF active = Nothing THEN "nowhere" ELSE sprint[active].status

LEMMA ActiveWhere ==
    ASSUME NEW S, "nowhere" \notin S
    PROVE  ActiveIs(S) <=> Where \in S
BY DEF ActiveIs, Where

(* The steps of a sprint record: each leaves one sprint as its reducer     *)
(* says.                                                                   *)
Moved(s, sp) == s \in Sprints /\ sp \in SprintRecords /\ sprint' = [sprint EXCEPT ![s] = sp]

LEMMA SprintMoves ==
    ASSUME Types, RepliesFit, SummaryOfSprint, WayToTrim, Next
    PROVE  \/ UNCHANGED <<sprint, active>>
           \/ /\ CommitTrim /\ active' = active
              /\ \E n \in Nat : Moved(active, Integrate(sprint[active], n))
              /\ Integrates(sprint[active])
           \/ /\ PersistPlan
              /\ Moved(reply.sprint, Persist(sprint[reply.sprint], reply.decision))
           \/ /\ AdvanceSprint /\ Moved(active, Advance(sprint[active], gate))
           \/ /\ PreflightStale /\ Moved(active, LaunchAttention(sprint[active]))
           \/ /\ LaunchSprint /\ Moved(active, Attach(sprint[active]))
           \/ /\ FailSummary /\ Moved(active, SummaryAttention(sprint[active]))
              /\ active' = active
           \/ /\ AcceptSummary /\ Moved(active, Accept(sprint[active]))
           \/ /\ Continue /\ Moved(active, CompleteContinuation(sprint[active]))
           \/ /\ CancelSprint /\ Moved(active, CancelledSprint(sprint[active]))
           \/ /\ RetrySummary /\ Moved(active, Restore(sprint[active]))
           \/ /\ \E f \in Facts : Resolve(f)
              /\ Moved(active, SupersedeSprint(sprint[active]))
              /\ gate' = "resolution_pending"
              /\ active' \in {active, Nothing}
              /\ sprint[active].status = "waiting_for_slots" => active' = Nothing
<1>1. /\ sprint \in [Sprints -> SprintRecords] /\ active \in Sprints \cup {Nothing}
      /\ trim \in TrimRecords
  BY DEF Types
<1>2. \A s \in Sprints : sprint[s] \in SprintRecords
  BY <1>1
<1>3. active # Nothing => active \in Sprints
  BY <1>1
<1>4. CASE CommitTrim
  <2>1. trim'.revision \in Nat /\ active' = active
    BY <1>1, <1>4, TrimEvents DEF CommitTrim, TrimRecords
  <2>2. CASE active # Nothing /\ Integrates(sprint[active])
    BY <1>2, <1>3, <1>4, <2>1, <2>2, SprintEvents DEF CommitTrim, Moved
  <2>3. CASE ~(active # Nothing /\ Integrates(sprint[active]))
    BY <1>4, <2>3 DEF CommitTrim
  <2>4. QED
    BY <2>2, <2>3
<1>5. CASE PersistPlan
  <2>1. reply.sprint \in Sprints
    BY <1>5 DEF PersistPlan, Deciding, RepliesFit
  <2>2. sprint' = [sprint EXCEPT ![reply.sprint] = Persist(sprint[reply.sprint],
                                                            reply.decision)]
    BY <1>5 DEF PersistPlan
  <2>3. QED
    BY <1>2, <1>5, <2>1, <2>2, SprintEvents DEF Moved
<1>6. CASE AdvanceSprint
  BY <1>2, <1>3, <1>6, SprintEvents DEF AdvanceSprint, BarrierDue, Moved
<1>7. CASE PreflightStale
  BY <1>2, <1>3, <1>7, SprintEvents DEF PreflightStale, ActiveIs, Moved
<1>8. CASE LaunchSprint
  BY <1>2, <1>3, <1>8, SprintEvents DEF LaunchSprint, ActiveIs, Moved
<1>9. CASE FailSummary
  <2>1. active \in Sprints /\ active' = active
    BY <1>3, <1>9 DEF FailSummary, SummaryOfSprint, ActiveIs
  <2>2. QED
    BY <1>2, <1>9, <2>1, SprintEvents DEF FailSummary, Moved
<1>10. CASE AcceptSummary
  BY <1>2, <1>3, <1>10, SprintEvents DEF AcceptSummary, Moved
<1>11. CASE Continue
  BY <1>2, <1>3, <1>11, SprintEvents DEF Continue, ActiveIs, Moved
<1>12. CASE CancelSprint
  BY <1>2, <1>3, <1>12, SprintEvents DEF CancelSprint, Moved
<1>13. CASE RetrySummary
  <2>1. active \in Sprints
    BY <1>13 DEF RetrySummary, CanAuthorize, SummaryOfSprint
  <2>2. QED
    BY <1>2, <1>13, <2>1, SprintEvents DEF RetrySummary, Moved
<1>14. ASSUME NEW f \in Facts, Resolve(f), ~UNCHANGED <<sprint, active>>
       PROVE  /\ Moved(active, SupersedeSprint(sprint[active]))
              /\ gate' = "resolution_pending"
              /\ active' \in {active, Nothing}
              /\ sprint[active].status = "waiting_for_slots" => active' = Nothing
  <2>1. /\ active # Nothing
        /\ sprint' = [sprint EXCEPT ![active] = SupersedeSprint(sprint[active])]
        /\ gate' = "resolution_pending"
        /\ active' = IF ActiveIs({"waiting_for_slots"}) THEN Nothing ELSE active
    BY <1>14, Superseded, Zenon
  <2>2. QED
    BY <1>2, <1>3, <2>1, SprintEvents DEF Moved, ActiveIs
<1>15. QED
  BY <1>4, <1>5, <1>6, <1>7, <1>8, <1>9, <1>10, <1>11, <1>12, <1>13, <1>14, SprintChanges

(* Where one step takes the active sprint.                                 *)
LEMMA WhereMoves ==
    ASSUME Types, RepliesFit, SummaryOfSprint, WayToTrim, Next
    PROVE  \/ Where' = Where
           \/ PersistPlan /\ Where = "nowhere" /\ Where' = "waiting_for_slots"
           \/ /\ AdvanceSprint /\ Where = "running" /\ Where' = "awaiting_summary"
              /\ BarrierOpen(sprint[active], lane)
           \/ PreflightStale /\ Where = "waiting_for_slots" /\ Where' = "needs_attention"
           \/ LaunchSprint /\ Where = "waiting_for_slots" /\ Where' = "running"
           \/ FailSummary /\ Where = "awaiting_summary" /\ Where' = "needs_attention"
           \/ AcceptSummary /\ Where = "awaiting_summary" /\ Where' = "trimmer_continuation"
           \/ /\ CancelSprint /\ Where \in {"waiting_for_slots", "needs_attention"}
              /\ Where' = "trimmer_continuation"
           \/ RetrySummary /\ Where = "needs_attention" /\ Where' = "awaiting_summary"
           \/ Where' = "nowhere" /\ (AdvanceSprint \/ Continue)
           \/ /\ \E f \in Facts : Resolve(f)
              /\ gate' = "resolution_pending"
              /\ Where' \in {"nowhere", "draining_after_root_resolution"}
<1>1. /\ sprint \in [Sprints -> SprintRecords] /\ active \in Sprints \cup {Nothing}
      /\ Nothing \notin Sprints
  BY ConstantsAssumption DEF Types
<1>2. \A s \in Sprints : sprint[s] \in SprintRecords /\ OnItsWay(sprint[s])
  BY <1>1 DEF WayToTrim
<1>3. active # Nothing => active \in Sprints /\ Where = sprint[active].status
  BY <1>1 DEF Where
<1>4. ASSUME NEW sp, Moved(active, sp)
      PROVE  /\ active' = active => Where' = sp.status
             /\ active' = Nothing => Where' = "nowhere"
             /\ active \in Sprints /\ active # Nothing
             /\ Where = sprint[active].status
             /\ sprint[active] \in SprintRecords /\ OnItsWay(sprint[active])
  BY <1>1, <1>2, <1>4, OneSprint DEF Moved, Where
<1>5. CASE UNCHANGED <<sprint, active>>
  BY <1>5 DEF Where
<1>6. CASE CommitTrim
  <2>1. CASE UNCHANGED <<sprint, active>>
    BY <1>5, <2>1
  <2>2. CASE ~UNCHANGED <<sprint, active>>
    <3>1. active # Nothing /\ Integrates(sprint[active]) /\ active' = active
          /\ sprint' = [sprint EXCEPT ![active] = Integrate(sprint[active], trim'.revision)]
      BY <1>6, <2>2 DEF CommitTrim
    <3>2. Integrate(sprint[active], trim'.revision).status = sprint[active].status
      BY <1>2, <1>3, <3>1 DEF Integrate, SprintRecords
    <3>3. sprint'[active].status = sprint[active].status
      BY <1>1, <3>1, <3>2
    <3>4. QED
      BY <3>1, <3>3 DEF Where
  <2>3. QED
    BY <2>1, <2>2
<1>7. CASE PersistPlan
  <2>1. /\ Moved(reply.sprint, Persist(sprint[reply.sprint], reply.decision))
        /\ reply.sprint \in Sprints
    <3>1. reply.sprint \in Sprints
      BY <1>7 DEF PersistPlan, Deciding, RepliesFit
    <3>2. sprint' = [sprint EXCEPT ![reply.sprint] = Persist(sprint[reply.sprint],
                                                            reply.decision)]
      BY <1>7 DEF PersistPlan
    <3>3. QED
      BY <1>2, <3>1, <3>2, SprintEvents DEF Moved
  <2>2. /\ sprint'[reply.sprint] = Persist(sprint[reply.sprint], reply.decision)
        /\ \A q \in Sprints \ {reply.sprint} : sprint'[q] = sprint[q]
    BY <1>1, <2>1, OneSprint DEF Moved
  <2>3. /\ reply.decision \in {"sprint", "no_sprint"}
        /\ sprint[reply.sprint].status # "absent" \/ active = Nothing
    BY <1>7 DEF PersistPlan, CanPersist, Deciding
  <2>4. CASE sprint[reply.sprint].status # "absent"
    <3>1. Persist(sprint[reply.sprint], reply.decision) = sprint[reply.sprint]
      BY <2>4 DEF Persist
    <3>2. active' = active
      BY <1>7, <2>4 DEF PersistPlan
    <3>3. active # Nothing => sprint'[active] = sprint[active]
      BY <1>3, <2>2, <3>1
    <3>4. QED
      BY <3>2, <3>3 DEF Where
  <2>5. CASE sprint[reply.sprint].status = "absent" /\ reply.decision = "sprint"
    <3>1. active' = reply.sprint /\ active = Nothing
      BY <1>7, <2>3, <2>5 DEF PersistPlan
    <3>2. Persist(sprint[reply.sprint], reply.decision).status = "waiting_for_slots"
      BY <1>2, <2>1, <2>5 DEF Persist, SprintRecords
    <3>3. QED
      BY <1>1, <1>7, <2>1, <2>2, <3>1, <3>2 DEF Where
  <2>6. CASE sprint[reply.sprint].status = "absent" /\ reply.decision # "sprint"
    BY <1>7, <2>3, <2>6 DEF PersistPlan, Where
  <2>7. QED
    BY <2>4, <2>5, <2>6
<1>8. CASE AdvanceSprint /\ Moved(active, Advance(sprint[active], gate))
  <2>1. /\ Where \in {"running", "draining_after_root_resolution"}
        /\ BarrierOpen(sprint[active], lane)
    BY <1>4, <1>8 DEF AdvanceSprint, BarrierDue, CanAdvance
  <2>2. CASE Drains(sprint[active], gate)
    BY <1>4, <1>8, <2>2 DEF AdvanceSprint
  <2>3. CASE ~Drains(sprint[active], gate)
    <3>1. active' = active
      BY <1>8, <2>3 DEF AdvanceSprint
    <3>2. Advance(sprint[active], gate).status = "awaiting_summary"
      BY <1>4, <1>8, <2>3 DEF Advance, SprintRecords
    <3>3. Where # "draining_after_root_resolution"
      BY <1>4, <1>8, <2>3 DEF Drains, OnItsWay
    <3>4. QED
      BY <1>4, <1>8, <2>1, <3>1, <3>2, <3>3
  <2>4. QED
    BY <2>2, <2>3
<1>9. CASE PreflightStale /\ Moved(active, LaunchAttention(sprint[active]))
  <2>1. active' = active /\ sprint[active].status = "waiting_for_slots"
    BY <1>9 DEF PreflightStale, ActiveIs
  <2>2. LaunchAttention(sprint[active]).status = "needs_attention"
    BY <1>4, <1>9 DEF LaunchAttention, SprintRecords
  <2>3. QED
    BY <1>4, <1>9, <2>1, <2>2
<1>10. CASE LaunchSprint /\ Moved(active, Attach(sprint[active]))
  <2>1. active' = active /\ sprint[active].status = "waiting_for_slots"
    BY <1>10 DEF LaunchSprint, ActiveIs
  <2>2. Attach(sprint[active]).status = "running"
    BY <1>4, <1>10 DEF Attach, SprintRecords
  <2>3. QED
    BY <1>4, <1>10, <2>1, <2>2
<1>11. CASE FailSummary /\ Moved(active, SummaryAttention(sprint[active]))
              /\ active' = active
  <2>1. sprint[active].status = "awaiting_summary"
    BY <1>11 DEF FailSummary, SummaryOfSprint, ActiveIs
  <2>2. SummaryAttention(sprint[active]).status = "needs_attention"
    BY <1>4, <1>11 DEF SummaryAttention, SprintRecords
  <2>3. QED
    BY <1>4, <1>11, <2>1, <2>2
<1>12. CASE AcceptSummary /\ Moved(active, Accept(sprint[active]))
  <2>1. active' = active /\ sprint[active].status = "awaiting_summary"
        /\ ~sprint[active].summary
    BY <1>12 DEF AcceptSummary, CanAccept, SummaryOnly
  <2>2. Accept(sprint[active]).status = "trimmer_continuation"
    BY <1>4, <1>12, <2>1 DEF Accept, SprintRecords
  <2>3. QED
    BY <1>4, <1>12, <2>1, <2>2
<1>13. CASE Continue /\ Moved(active, CompleteContinuation(sprint[active]))
  BY <1>4, <1>13 DEF Continue
<1>14. CASE CancelSprint /\ Moved(active, CancelledSprint(sprint[active]))
  <2>1. /\ active' = active
        /\ sprint[active].status \in {"waiting_for_slots", "needs_attention"}
    BY <1>14 DEF CancelSprint, CanCancel
  <2>2. CancelledSprint(sprint[active]).status = "trimmer_continuation"
    BY <1>4, <1>14 DEF CancelledSprint, SprintRecords
  <2>3. QED
    BY <1>4, <1>14, <2>1, <2>2
<1>15. CASE RetrySummary /\ Moved(active, Restore(sprint[active]))
  <2>1. active' = active /\ sprint[active].status = "needs_attention"
    BY <1>15 DEF RetrySummary, CanRestore
  <2>2. Restore(sprint[active]).status = "awaiting_summary"
    BY <1>4, <1>15 DEF Restore, SprintRecords
  <2>3. QED
    BY <1>4, <1>15, <2>1, <2>2
<1>16. CASE /\ \E f \in Facts : Resolve(f)
            /\ Moved(active, SupersedeSprint(sprint[active]))
            /\ gate' = "resolution_pending"
            /\ active' \in {active, Nothing}
            /\ sprint[active].status = "waiting_for_slots" => active' = Nothing
  <2>1. CASE active' = Nothing
    BY <1>4, <1>16, <2>1
  <2>2. CASE active' = active /\ sprint[active].status # "waiting_for_slots"
    <3>1. SupersedeSprint(sprint[active]).status = "draining_after_root_resolution"
      BY <1>4, <1>16, <2>2 DEF SupersedeSprint, SprintRecords
    <3>2. QED
      BY <1>4, <1>16, <2>2, <3>1
  <2>3. QED
    BY <1>16, <2>1, <2>2
<1>17. QED
  BY <1>5, <1>6, <1>7, <1>8, <1>9, <1>10, <1>11, <1>12, <1>13, <1>14, <1>15, <1>16,
     SprintMoves

LEMMA WayToTrimKept ==
    ASSUME Types, RepliesFit, SummaryOfSprint, WayToTrim, Next
    PROVE  /\ WayToTrim'
           /\ \A s \in Sprints :
                /\ sprint[s].status # "absent" => sprint'[s].status # "absent"
                /\ sprint[s].frozen => sprint'[s].frozen
<1> DEFINE Ok == /\ \A s \in Sprints : OnItsWay(sprint'[s])
                 /\ \A s \in Sprints :
                      /\ sprint[s].status # "absent" => sprint'[s].status # "absent"
                      /\ sprint[s].frozen => sprint'[s].frozen
<1> SUFFICES Ok
  BY DEF WayToTrim
<1>1. sprint \in [Sprints -> SprintRecords]
  BY DEF Types
<1>2. \A s \in Sprints : sprint[s] \in SprintRecords /\ OnItsWay(sprint[s])
  BY <1>1 DEF WayToTrim
<1>3. gate \in Gates
  BY DEF Types
<1>4. ASSUME NEW s \in Sprints, NEW sp, Moved(s, sp), OnItsWay(sp),
             sprint[s].status # "absent" => sp.status # "absent",
             sprint[s].frozen => sp.frozen
      PROVE  Ok
  BY <1>1, <1>2, <1>4, OneSprint DEF Moved
<1>5. active \in Sprints \/ ~\E sp : Moved(active, sp)
  BY DEF Moved
<1> HIDE DEF Ok
<1>6. CASE UNCHANGED <<sprint, active>>
  BY <1>2, <1>6 DEF Ok
<1>7. CASE \E n \in Nat : Moved(active, Integrate(sprint[active], n))
                          /\ Integrates(sprint[active])
  <2>1. PICK n \in Nat : /\ Moved(active, Integrate(sprint[active], n))
                         /\ Integrates(sprint[active])
    BY <1>7
  <2>2. OnItsWay(Integrate(sprint[active], n))
    BY <1>2, <1>5, <2>1, StaysOnItsWay
  <2>3. /\ sprint[active].status # "absent" =>
             Integrate(sprint[active], n).status # "absent"
        /\ sprint[active].frozen => Integrate(sprint[active], n).frozen
    BY <1>2, <1>5, <2>1 DEF Integrate, SprintRecords
  <2>4. QED
    BY <1>4, <1>5, <2>1, <2>2, <2>3
<1>8. CASE PersistPlan /\ Moved(reply.sprint, Persist(sprint[reply.sprint], reply.decision))
  <2>1. reply.sprint \in Sprints
    BY <1>8 DEF Moved
  <2>2. OnItsWay(Persist(sprint[reply.sprint], reply.decision))
    BY <1>2, <2>1, StaysOnItsWay
  <2>3. /\ sprint[reply.sprint].status # "absent" =>
             Persist(sprint[reply.sprint], reply.decision).status # "absent"
        /\ sprint[reply.sprint].frozen =>
             Persist(sprint[reply.sprint], reply.decision).frozen
    BY <1>2, <2>1 DEF Persist, SprintRecords
  <2>4. QED
    BY <1>4, <1>8, <2>1, <2>2, <2>3
<1>9. CASE Moved(active, Advance(sprint[active], gate))
  <2>1. OnItsWay(Advance(sprint[active], gate))
    BY <1>2, <1>5, <1>9, StaysOnItsWay
  <2>2. /\ sprint[active].status # "absent" =>
             Advance(sprint[active], gate).status # "absent"
        /\ sprint[active].frozen => Advance(sprint[active], gate).frozen
    BY <1>2, <1>5, <1>9 DEF Advance, SprintRecords
  <2>3. QED
    BY <1>4, <1>5, <1>9, <2>1, <2>2
<1>10. ASSUME NEW sp \in {LaunchAttention(sprint[active]), SummaryAttention(sprint[active]),
                          Attach(sprint[active]), CompleteContinuation(sprint[active]),
                          CancelledSprint(sprint[active]),
                          SupersedeSprint(sprint[active])},
              Moved(active, sp)
       PROVE  Ok
  <2>1. OnItsWay(sp)
    BY <1>2, <1>5, <1>10, StaysOnItsWay
  <2>2. /\ sprint[active].status # "absent" => sp.status # "absent"
        /\ sprint[active].frozen => sp.frozen
    BY <1>2, <1>5, <1>10 DEF SprintRecords, LaunchAttention, SummaryAttention, Attach,
       CompleteContinuation, CancelledSprint, SupersedeSprint
  <2>3. QED
    BY <1>4, <1>5, <1>10, <2>1, <2>2
<1>11. CASE AcceptSummary /\ Moved(active, Accept(sprint[active]))
  <2>1. sprint[active].status = "awaiting_summary"
    BY <1>11 DEF AcceptSummary, CanAccept
  <2>2. OnItsWay(Accept(sprint[active]))
    BY <1>2, <1>5, <1>11, <2>1, StaysOnItsWay
  <2>3. /\ Accept(sprint[active]).status # "absent"
        /\ sprint[active].frozen => Accept(sprint[active]).frozen
    BY <1>2, <1>5, <1>11, <2>1 DEF Accept, SprintRecords
  <2>4. QED
    BY <1>4, <1>5, <1>11, <2>2, <2>3
<1>12. CASE RetrySummary /\ Moved(active, Restore(sprint[active]))
  <2>1. sprint[active].frozen
    BY <1>12 DEF RetrySummary, CanAuthorize, SummaryOfSprint
  <2>2. OnItsWay(Restore(sprint[active]))
    BY <1>2, <1>5, <1>12, <2>1, StaysOnItsWay
  <2>3. /\ Restore(sprint[active]).status # "absent"
        /\ Restore(sprint[active]).frozen
    BY <1>2, <1>5, <1>12, <2>1 DEF Restore, SprintRecords
  <2>4. QED
    BY <1>4, <1>5, <1>12, <2>2, <2>3
<1>13. QED
  BY <1>6, <1>7, <1>8, <1>9, <1>10, <1>11, <1>12, SprintMoves

(* A resolution leaves no sprint active but one that drains.               *)
LEMMA ResolvedWhere ==
    ASSUME Types, NEW f \in Facts, Resolve(f)
    PROVE  gate' = gate \/ Where' \in {"nowhere", "draining_after_root_resolution"}
<1>1. /\ sprint \in [Sprints -> SprintRecords] /\ active \in Sprints \cup {Nothing}
      /\ Nothing \notin Sprints
  BY ConstantsAssumption DEF Types
<1>2. CASE root.solution # Nothing
  BY <1>2, Superseded, Zenon
<1>3. CASE active = Nothing
  <2>1. gate' = gate \/ active' = Nothing
    BY <1>3, Superseded, Zenon
  <2>2. QED
    BY <2>1 DEF Where
<1>4. CASE root.solution = Nothing /\ active # Nothing
  <2>1. /\ sprint' = [sprint EXCEPT ![active] = SupersedeSprint(sprint[active])]
        /\ active' = IF ActiveIs({"waiting_for_slots"}) THEN Nothing ELSE active
    BY <1>4, Superseded, Zenon
  <2>2. CASE ActiveIs({"waiting_for_slots"})
    BY <2>1, <2>2 DEF Where
  <2>3. CASE ~ActiveIs({"waiting_for_slots"})
    <3>1. sprint[active].status # "waiting_for_slots" /\ active' = active
          /\ sprint[active] \in SprintRecords
      BY <1>1, <1>4, <2>1, <2>3 DEF ActiveIs
    <3>2. SupersedeSprint(sprint[active]).status = "draining_after_root_resolution"
      BY <3>1 DEF SupersedeSprint, SprintRecords
    <3>3. sprint'[active].status = "draining_after_root_resolution"
      BY <1>1, <1>4, <2>1, <3>2
    <3>4. QED
      BY <1>4, <3>1, <3>3 DEF Where
  <2>4. QED
    BY <2>2, <2>3
<1>5. QED
  BY <1>2, <1>3, <1>4

(* How the gate of a trim is entered and left.                             *)
LEMMA TrimGate ==
    ASSUME Types, RepliesFit, RootMatchesGate, Next
    PROVE  /\ gate' \in {"trimming", "waiting_for_human"} =>
                \/ gate \in {"trimming", "waiting_for_human"}
                \/ ApplyReview
           /\ gate \in {"trimming", "waiting_for_human"} =>
                \/ gate' = gate
                \/ CommitTrim
                \/ RequestGuidance /\ gate' = "waiting_for_human"
                \/ AnswerGuidance /\ gate' = "trimming"
                \/ Where' \in {"nowhere", "draining_after_root_resolution"}
                     /\ gate' \notin {"trimming", "waiting_for_human"}
<1>1. CASE UNCHANGED gate
  BY <1>1
<1>2. CASE StuckReport \/ StartReviewRound \/ AdvancePhase \/ CommitTrim
           \/ ApplyReview \/ RequestGuidance \/ AnswerGuidance
  BY <1>2 DEF StuckReport, CanReceiveStuck, StartReviewRound, AdvancePhase, CommitTrim,
     CanCommitTrim, CanCommitPortfolio, ApplyReview, CanDecide, RequestGuidance,
     AnswerGuidance
<1>3. ASSUME NEW j \in Jobs \cup Lanes \cup {"project"}, CloseTail(j)
      PROVE  gate' = gate \/ (gate = "resolution_pending" /\ gate' = "completed")
  BY <1>3 DEF CloseTail, Completable
<1>4. ASSUME NEW f \in Facts, Resolve(f)
      PROVE  \/ gate' = gate
             \/ /\ gate' = "resolution_pending"
                /\ Where' \in {"nowhere", "draining_after_root_resolution"}
  <2>1. gate' \in {gate, "resolution_pending"}
    BY <1>4, Superseded, Zenon
  <2>2. QED
    BY <1>4, <2>1, ResolvedWhere
<1>5. ASSUME NEW f \in Facts, Revoke(f)
      PROVE  \/ gate' = gate
             \/ gate' = "open" /\ gate \in {"resolution_pending", "completed"}
  <2>1. f # Nothing
    BY ConstantsAssumption DEF Facts
  <2>2. gate' = gate \/ (gate' = "open" /\ root.solution = f)
    BY <1>5, Revoked, Zenon
  <2>3. QED
    BY <2>1, <2>2 DEF RootMatchesGate
<1>6. QED
  BY <1>1, <1>2, <1>3, <1>4, <1>5, GateSteps

LEMMA GateOfSprintKept ==
    ASSUME Types, RepliesFit, RootMatchesGate, SummaryOfSprint, WayToTrim,
           GateOfSprint, TrimCallAlone, Next
    PROVE  GateOfSprint'
<1> DEFINE Own == {"waiting_for_slots", "running", "awaiting_summary", "needs_attention"}
           Trims == {"trimming", "waiting_for_human"}
<1>1. Where \in Own => gate \in Trims
  BY ActiveWhere DEF GateOfSprint
<1>2. ASSUME Where' \in Own
      PROVE  gate' \in Trims
  <2>1. gate \in Trims
    <3>1. PersistPlan => gate = "trimming"
      BY DEF PersistPlan, CanPersist
    <3>2. Where \in Own \/ PersistPlan
      BY <1>2, WhereMoves
    <3>3. QED
      BY <1>1, <3>1, <3>2
  <2>2. CASE CommitTrim
    <3>1. /\ call.owner \in {"maintain", "select"} /\ call.status = "completed"
          /\ reply.decision = "portfolio" /\ gate = "trimming"
      BY <2>2, DecidedBy DEF CommitTrim, Deciding, CanCommitTrim, CanCommitPortfolio
    <3>2. Where \in {"nowhere", "trimmer_continuation"}
      BY <3>1 DEF TrimCallAlone, Live, ActiveIs, Where
    <3>3. Where' = Where
      <4>1. /\ ~PersistPlan /\ ~AdvanceSprint /\ ~PreflightStale /\ ~LaunchSprint
            /\ ~FailSummary /\ ~AcceptSummary /\ ~CancelSprint /\ ~RetrySummary
        BY <1>2, <3>2, <2>2, <3>1, WhereMoves DEF CommitTrim, PersistPlan, Deciding,
           AdvanceSprint, SummaryOnly, OthersIdle, CommitPortfolio
      <4>2. QED
        BY <1>2, <4>1, WhereMoves
    <3>4. QED
      BY <1>2, <3>2, <3>3
  <2>3. CASE ~CommitTrim
    BY <1>2, <2>1, <2>3, TrimGate
  <2>4. QED
    BY <2>2, <2>3
<1>3. "nowhere" \notin Own
  OBVIOUS
<1>4. GateOfSprint' <=> (Where' \in Own => gate' \in Trims)
  BY DEF GateOfSprint, ActiveIs, Where
<1>5. QED
  BY <1>2, <1>4

(* What the decided sprint of a completed call rests on until the call is  *)
(* committed.                                                              *)
LEMMA DecisionStays ==
    ASSUME Types, RepliesFit, call.status = "completed", reply.decision = "sprint",
           gate = "trimming", sprint[reply.sprint].status # "absent", Next
    PROVE  (call' = call /\ reply' = reply) \/ call'.status = "committed"
<1>1. call \in CallRecords({"main", "trimmer"}, Phases)
  BY DEF Types, ControlCalls
<1>2. CASE PrepareMain \/ PrepareReview \/ PrepareTrim
  BY <1>2 DEF PrepareMain, PrepareReview, PrepareTrim, Idle, Busy, Live
<1>3. CASE LaunchControl \/ ReplyControl \/ FailControl \/ RetryControl
  BY <1>3 DEF LaunchControl, CanLaunch, ReplyControl, FailControl, RetryControl,
     CanAuthorize
<1>4. CASE CategoryStep \/ Assign
  BY <1>4 DEF CategoryStep, Assign, StaysCompleted
<1>5. CASE CommitTrim \/ Mark
  BY <1>1, <1>5, CommittedEvent DEF CommitTrim, Mark
<1>6. CASE Refuse
  BY <1>6 DEF Refuse, Refused, Deciding, CanPersist
<1>7. CASE Resume
  BY <1>7 DEF Resume, ReconcileAfterStop, LostByStop
<1>8. ASSUME NEW f \in Facts, Resolve(f)
      PROVE  call' = call /\ reply' = reply
  <2>1. reply' = reply
    BY <1>8, ResolveOnly DEF resultVars
  <2>2. call' = call \/ CanLaunch(call)
    BY <1>8, Superseded, Zenon
  <2>3. QED
    BY <2>1, <2>2 DEF CanLaunch
<1>9. QED
  BY <1>2, <1>3, <1>4, <1>5, <1>6, <1>7, <1>8, CallSteps

(* A call of the trim that is not settled was so before, or is new.        *)
LEMMA TrimCallBefore ==
    ASSUME Types, Next,
           call'.owner \in {"maintain", "select"},
           call'.status \in Live \cup {"needs_attention"}
    PROVE  \/ PrepareTrim
           \/ /\ call.owner \in {"maintain", "select"}
              /\ call.status \in Live \cup {"needs_attention"}
<1>1. call \in CallRecords({"main", "trimmer"}, Phases)
  BY DEF Types, ControlCalls
<1>2. CASE UNCHANGED call
  BY <1>2
<1>3. CASE PrepareMain \/ PrepareReview
  BY <1>3 DEF PrepareMain, PrepareReview, Prepare, PrepareCall
<1>4. CASE LaunchControl \/ ReplyControl \/ FailControl \/ CommitTrim \/ Mark
           \/ Refuse \/ RetryControl
  <2>1. call'.owner = call.owner
    <3>1. call.attempt \in Nat
      BY <1>1 DEF CallRecords
    <3>2. QED
      BY <1>1, <1>4, <3>1, CallEvents, CommittedEvent DEF LaunchControl, ReplyControl, FailControl,
         CommitTrim, Mark, Refuse, RetryControl
  <2>2. call.status \in Live \cup {"needs_attention"}
    BY <1>4 DEF LaunchControl, CanLaunch, ReplyControl, FailControl, CommitTrim, Mark,
       Refuse, Refused, RetryControl, CanAuthorize, Deciding, Live
  <2>3. QED
    BY <2>1, <2>2
<1>5. CASE CategoryStep \/ Assign
  BY <1>2, <1>5 DEF CategoryStep, Assign, StaysCompleted
<1>6. CASE Resume
  <2>1. call' = ReconcileAfterStop(call)
    BY <1>6 DEF Resume
  <2>2. /\ call'.owner = call.owner
        /\ call.status \in {"prepared", "running"} \/ call' = call
    BY <1>1, <2>1, CallEvents
  <2>3. QED
    BY <2>2 DEF Live
<1>7. ASSUME NEW f \in Facts, Resolve(f)
      PROVE  call' = call
  <2>1. call' = call \/ call' = Cancel(call)
    BY <1>7, Superseded, Zenon
  <2>2. Cancel(call).status = "cancelled"
    BY <1>1, CallEvents
  <2>3. call' # Cancel(call)
    BY <2>2 DEF Live
  <2>4. QED
    BY <2>1, <2>3
<1>8. QED
  BY <1>2, <1>3, <1>4, <1>5, <1>6, <1>7, CallSteps

LEMMA TrimCallAloneKept ==
    ASSUME Types, RepliesFit, RootMatchesGate, SummaryOfSprint, WayToTrim,
           TrimCallAlone, Next
    PROVE  TrimCallAlone'
<1> DEFINE Trims == {"trimming", "waiting_for_human"}
           Decided == /\ gate = "trimming"
                      /\ call.status = "completed"
                      /\ reply.decision = "sprint"
                      /\ sprint[reply.sprint].status # "absent"
<1>1. SUFFICES ASSUME call'.owner \in {"maintain", "select"},
                      call'.status \in Live \cup {"needs_attention"},
                      gate' \in Trims
               PROVE  Where' \in {"nowhere", "trimmer_continuation"} \/ Decided'
  <2>1. Where' \in {"nowhere", "trimmer_continuation"} =>
          active' = Nothing \/ ActiveIs({"trimmer_continuation"})'
    <3>1. active' # Nothing => sprint'[active'].status # "nowhere"
      BY TypesKept DEF Types, SprintRecords, Statuses
    <3>2. QED
      BY <3>1 DEF Where, ActiveIs
  <2>2. QED
    BY <2>1 DEF TrimCallAlone
<1>2. CASE PrepareTrim
  BY <1>2 DEF PrepareTrim, Prepare, sprintVars, ActiveIs, Where
<1>3. CASE ~PrepareTrim
  <2>1. /\ call.owner \in {"maintain", "select"}
        /\ call.status \in Live \cup {"needs_attention"}
    BY <1>1, <1>3, TrimCallBefore
  <2>2. gate \in Trims
    <3>1. ASSUME ApplyReview
          PROVE  FALSE
      <4>1. call.owner = "review"
        BY <3>1, DecidedBy DEF ApplyReview, Deciding
      <4>2. QED
        BY <2>1, <4>1
    <3>2. QED
      BY <1>1, <3>1, TrimGate
  <2>3. CASE Decided
    <3>1. (call' = call /\ reply' = reply) \/ call'.status = "committed"
      BY <2>3, DecisionStays
    <3>2. call' = call /\ reply' = reply
      BY <1>1, <3>1 DEF Live
    <3>3. sprint'[reply'.sprint].status # "absent"
      <4>1. reply.sprint \in Sprints
        BY <2>3 DEF RepliesFit
      <4>2. QED
        BY <2>3, <3>2, <4>1, WayToTrimKept
    <3>4. gate' = "trimming" \/ Where' = "nowhere"
      <4>1. ~CommitTrim /\ ~RequestGuidance /\ ~AnswerGuidance
        BY <2>3 DEF CommitTrim, RequestGuidance, AnswerGuidance, Deciding
      <4>2. QED
        BY <1>1, <2>3, <4>1, TrimGate
    <3>5. QED
      BY <2>3, <3>2, <3>3, <3>4
  <2>4. CASE ~Decided
    <3>1. Where \in {"nowhere", "trimmer_continuation"}
      BY <2>1, <2>2, <2>4 DEF TrimCallAlone, Where, ActiveIs
    <3>2. CASE PersistPlan /\ Where = "nowhere" /\ Where' = "waiting_for_slots"
      <4>1. /\ gate' = gate /\ gate = "trimming" /\ call.status = "completed"
            /\ reply.decision \in {"sprint", "no_sprint"}
            /\ call' = call /\ reply' = reply
            /\ reply.sprint \in Sprints
        BY <3>2 DEF PersistPlan, CanPersist, Deciding, StaysCompleted, RepliesFit
      <4>2. sprint \in [Sprints -> SprintRecords]
        BY DEF Types
      <4>3. sprint'[reply.sprint] = Persist(sprint[reply.sprint], reply.decision)
        BY <3>2, <4>1, <4>2 DEF PersistPlan
      <4>4. sprint'[reply.sprint].status # "absent"
        BY <4>1, <4>2, <4>3 DEF Persist, SprintRecords
      <4>5. reply.decision = "sprint"
        <5>1. CASE sprint[reply.sprint].status = "absent" /\ reply.decision = "sprint"
          BY <5>1
        <5>2. CASE ~(sprint[reply.sprint].status = "absent" /\ reply.decision = "sprint")
          <6>1. active' = active
            BY <3>2, <5>2 DEF PersistPlan
          <6>2. active = Nothing
            BY <2>1, <2>2, <2>4, <3>2 DEF TrimCallAlone, Where, ActiveIs
          <6>3. QED
            BY <3>2, <6>1, <6>2 DEF Where
        <5>3. QED
          BY <5>1, <5>2
      <4>6. QED
        BY <4>1, <4>4, <4>5
    <3>3. CASE ~(PersistPlan /\ Where = "nowhere" /\ Where' = "waiting_for_slots")
      BY <1>1, <3>1, <3>3, WhereMoves
    <3>4. QED
      BY <3>2, <3>3
  <2>5. QED
    BY <2>3, <2>4
<1>4. QED
  BY <1>2, <1>3

LEMMA SprintAloneKept ==
    ASSUME Types, RepliesFit, SummaryOfSprint, WayToTrim, GateOfSprint, SprintAlone, Next
    PROVE  SprintAlone'
<1> DEFINE Own == {"running", "awaiting_summary", "needs_attention"}
<1>1. SUFFICES ASSUME Where' \in Own
               PROVE  OpenJobs' = {}
  BY DEF SprintAlone, ActiveIs, Where
<1>2. CASE LaunchSprint \/ PreflightStale
  <2>1. OpenJobs = {} /\ task' = task
    BY <1>2 DEF LaunchSprint, PreflightStale, Predecessors
  <2>2. QED
    BY <2>1 DEF OpenJobs
<1>3. CASE ~LaunchSprint /\ ~PreflightStale
  <2>1. Where \in Own
    BY <1>1, <1>3, WhereMoves
  <2>2. /\ OpenJobs = {}
        /\ gate \in {"trimming", "waiting_for_human"}
    BY <2>1 DEF SprintAlone, GateOfSprint, ActiveIs, Where
  <2>3. \A t \in Jobs : task[t] \notin {"launching", "running"}
    BY <2>2 DEF OpenJobs, Open, Placed
  <2>4. \A t \in Jobs : task'[t] \notin {"launching", "running"}
    <3>1. CASE UNCHANGED task
      BY <2>3, <3>1
    <3>2. CASE Assign
      BY <2>2, <2>3, <3>2 DEF Assign
    <3>3. CASE AssignWriter
      BY <2>2, <3>3 DEF AssignWriter
    <3>4. ASSUME NEW t \in Jobs, LaunchTask(t) \/ CloseTask(t)
          PROVE  FALSE
      BY <2>3, <3>4 DEF LaunchTask, CloseTask
    <3>5. ASSUME NEW f \in Facts, Revoke(f)
          PROVE  \A t \in Jobs : task'[t] \notin {"launching", "running"}
      <4>1. task' \in {task, [task EXCEPT ![Writer] = "closed"]}
        BY <3>5, Revoked, Zenon
      <4>2. QED
        BY <2>3, <4>1 DEF Types
    <3>6. QED
      BY <3>1, <3>2, <3>3, <3>4, <3>5, TaskSteps
  <2>5. \A t \in Jobs : task'[t] \in TaskStates
    BY TaskTypesKept DEF Types
  <2>6. \A t \in Jobs : task'[t] \notin Open
    BY <2>4, <2>5 DEF TaskStates, Open, Placed
  <2>7. QED
    BY <2>6 DEF OpenJobs
<1>4. QED
  BY <1>2, <1>3

LEMMA LanesShutKept ==
    ASSUME Types, RepliesFit, SummaryOfSprint, WayToTrim, LanesShut, Next
    PROVE  LanesShut'
<1> DEFINE Shut == {"waiting_for_slots", "needs_attention", "awaiting_summary",
                    "trimmer_continuation"}
           AllShut(lanes) == \A l \in Lanes : lanes[l] \notin Open
<1>1. Where \in Shut => AllShut(lane)
  BY DEF LanesShut, ActiveIs, Where, OpenLanes
<1>2. SUFFICES ASSUME Where' \in Shut
               PROVE  AllShut(lane')
  BY DEF LanesShut, ActiveIs, Where, OpenLanes
<1>3. lane \in [Lanes -> LaneStates]
  BY DEF Types
<1>4. CASE PersistPlan
  <2>1. CASE lane' = [l \in Lanes |-> "none"]
    BY <2>1 DEF Open, Placed
  <2>2. CASE UNCHANGED <<active, lane>> /\ lane' # [l \in Lanes |-> "none"]
    <3>1. Persist(sprint[reply.sprint], reply.decision) = sprint[reply.sprint]
          \/ active = Nothing
      BY <1>4, <2>2 DEF PersistPlan, CanPersist, Persist
    <3>2. Where' = Where
      <4>1. sprint \in [Sprints -> SprintRecords]
        BY DEF Types
      <4>2. CASE active = Nothing
        BY <2>2, <4>2 DEF Where
      <4>3. CASE Persist(sprint[reply.sprint], reply.decision) = sprint[reply.sprint]
        <5>1. sprint' = sprint
          BY <1>4, <4>1, <4>3 DEF PersistPlan
        <5>2. QED
          BY <2>2, <5>1 DEF Where
      <4>4. QED
        BY <3>1, <4>2, <4>3
    <3>3. QED
      BY <1>1, <1>2, <2>2, <3>2
  <2>3. QED
    BY <1>4, <2>1, <2>2 DEF PersistPlan
<1>5. CASE LaunchSprint
  <2>1. active \in Sprints /\ active' = active /\ sprint \in [Sprints -> SprintRecords]
        /\ sprint' = [sprint EXCEPT ![active] = Attach(sprint[active])]
    BY <1>5, ConstantsAssumption DEF LaunchSprint, ActiveIs, Types
  <2>2. Attach(sprint[active]).status = "running"
    BY <2>1 DEF Attach, SprintRecords
  <2>3. sprint'[active].status = "running" /\ active # Nothing
    BY <2>1, <2>2, ConstantsAssumption
  <2>4. QED
    BY <1>2, <2>1, <2>3 DEF Where
<1>6. ASSUME NEW l \in Lanes, StartLane(l)
      PROVE  FALSE
  <2>1. UNCHANGED <<sprint, active>>
        /\ ActiveIs({"running", "draining_after_root_resolution"})
    BY <1>6 DEF StartLane, LanesRun
  <2>2. QED
    BY <1>2, <2>1 DEF Where, ActiveIs
<1>7. ASSUME NEW l \in Lanes, CloseLane(l) \/ LaneAsks(l) \/ AnswerLane(l)
      PROVE  FALSE
  <2>1. UNCHANGED <<sprint, active>> /\ lane[l] \in Open
    BY <1>7 DEF CloseLane, LaneAsks, AnswerLane, Open, Placed
  <2>2. QED
    BY <1>1, <1>2, <2>1 DEF Where
<1>8. CASE UNCHANGED lane
  <2>1. CASE Where \in Shut
    BY <1>1, <1>8, <2>1
  <2>2. CASE Where \notin Shut /\ ~PersistPlan
    <3>1. Where = "running" /\ BarrierOpen(sprint[active], lane)
      BY <1>2, <2>2, WhereMoves
    <3>2. \A l \in Lanes : lane[l] = "closed"
      BY <1>3, <3>1 DEF BarrierOpen
    <3>3. QED
      BY <1>8, <3>2 DEF Open, Placed
  <2>3. QED
    BY <1>4, <2>1, <2>2
<1>9. QED
  BY <1>4, <1>5, <1>6, <1>7, <1>8, LaneSteps

LEMMA SummaryOfSprintKept ==
    ASSUME Types, RepliesFit, SummaryOfSprint, WayToTrim, Next
    PROVE  SummaryOfSprint'
<1>1. /\ summary \in CallRecords({"summarizer"}, Sprints)
      /\ active \in Sprints \cup {Nothing}
  BY DEF Types, SummaryCalls
<1>2. summary.status = "running" => Where = "awaiting_summary" /\ host # "recovering"
  BY DEF SummaryOfSprint, ActiveIs, Where
<1>3. ASSUME NEW s \in Sprints, sprint[s].frozen
      PROVE  sprint'[s].frozen
  BY <1>3, WayToTrimKept
<1>4. CASE PrepareSummary
  <2>1. /\ ActiveIs({"awaiting_summary"}) /\ UNCHANGED <<sprint, active, host>>
        /\ summary' = PrepareCall("summarizer", active, RetryLimit)
    BY <1>4 DEF PrepareSummary, SummaryOnly, OthersIdle
  <2>2. active \in Sprints /\ sprint[active].frozen
    BY <1>1, <2>1 DEF ActiveIs, WayToTrim, OnItsWay
  <2>3. summary'.owner = active /\ summary'.status = "prepared"
    BY <2>1 DEF PrepareCall
  <2>4. QED
    BY <2>1, <2>2, <2>3 DEF SummaryOfSprint
<1>5. CASE ~PrepareSummary
  <2>1. \/ summary' = NoCall
        \/ summary'.owner = summary.owner /\ summary.status # "absent"
        \/ summary' = summary
    <3>1. CASE UNCHANGED summary
      BY <3>1
    <3>2. CASE PersistPlan
      BY <3>2 DEF PersistPlan
    <3>3. CASE LaunchSummary \/ ReplySummary \/ FailSummary \/ MarkSummary
               \/ RetrySummary
      <4>1. summary.attempt \in Nat
        BY <1>1 DEF CallRecords
      <4>2. summary'.owner = summary.owner
        BY <1>1, <3>3, <4>1, CallEvents DEF LaunchSummary, ReplySummary, FailSummary,
           MarkSummary, RetrySummary
      <4>3. summary.status # "absent"
        BY <3>3 DEF LaunchSummary, CanLaunch, ReplySummary, FailSummary, MarkSummary,
           RetrySummary, CanAuthorize
      <4>4. QED
        BY <4>2, <4>3
    <3>4. CASE Resume
      <4>1. summary' = ReconcileAfterStop(summary)
        BY <3>4 DEF Resume
      <4>2. /\ summary'.owner = summary.owner
            /\ summary.status \in {"prepared", "running"} \/ summary' = summary
        BY <1>1, <4>1, CallEvents
      <4>3. QED
        BY <4>2
    <3>5. CASE CancelSprint
      <4>1. \/ summary' = summary
            \/ summary' = CancelAndAdvance(summary) /\ summary.status # "absent"
        BY <3>5 DEF CancelSprint
      <4>2. CancelAndAdvance(summary).owner = summary.owner
        BY <1>1, CallEvents
      <4>3. QED
        BY <4>1, <4>2
    <3>6. ASSUME NEW f \in Facts, Resolve(f)
          PROVE  \/ summary' = summary
                 \/ summary'.owner = summary.owner /\ summary.status # "absent"
      <4>1. summary' = summary \/ (summary' = Cancel(summary) /\ CanLaunch(summary))
        BY <3>6, Superseded, Zenon
      <4>2. Cancel(summary).owner = summary.owner
        BY <1>1, CallEvents
      <4>3. CanLaunch(summary) => summary.status # "absent"
        BY DEF CanLaunch
      <4>4. QED
        BY <4>1, <4>2, <4>3
    <3>7. QED
      BY <1>5, <3>1, <3>2, <3>3, <3>4, <3>5, <3>6, SummarySteps
  <2>2. summary'.status # "absent" =>
          summary'.owner \in Sprints /\ sprint'[summary'.owner].frozen
    <3>1. NoCall.status = "absent"
      BY EmptyCall
    <3>2. summary.status # "absent" =>
            summary.owner \in Sprints /\ sprint'[summary.owner].frozen
      BY <1>3 DEF SummaryOfSprint
    <3>3. QED
      BY <2>1, <3>1, <3>2
  <2>3. ASSUME summary'.status = "running"
        PROVE  Where' = "awaiting_summary" /\ host' # "recovering"
    <3>1. CASE LaunchSummary
      <4>1. /\ ActiveIs({"awaiting_summary"}) /\ UNCHANGED <<sprint, active, host>>
            /\ host = "up"
        BY <3>1 DEF LaunchSummary, Idle, SummaryOnly, OthersIdle
      <4>2. QED
        BY <4>1 DEF ActiveIs, Where
    <3>2. CASE ~LaunchSummary
      <4>1. summary.status = "running" /\ summary' = summary
        <5>1. CASE UNCHANGED summary
          BY <2>3, <5>1
        <5>2. CASE PersistPlan
          <6>1. summary' \in {summary, NoCall}
            BY <5>2 DEF PersistPlan
          <6>2. QED
            BY <2>3, <6>1, EmptyCall
        <5>3. CASE ReplySummary
          <6>1. summary.attempt \in Nat
            BY <1>1 DEF CallRecords
          <6>2. QED
            BY <1>1, <2>3, <5>3, <6>1, CallEvents DEF ReplySummary
        <5>4. CASE FailSummary \/ MarkSummary \/ RetrySummary
          BY <1>1, <2>3, <5>4, CallEvents DEF FailSummary, MarkSummary, RetrySummary
        <5>5. CASE Resume
          <6>1. summary' = ReconcileAfterStop(summary)
            BY <5>5 DEF Resume
          <6>2. summary' = summary /\ summary.status # "running"
            BY <1>1, <2>3, <6>1, CallEvents
          <6>3. QED
            BY <2>3, <6>2
        <5>6. CASE CancelSprint
          <6>1. summary' \in {summary, CancelAndAdvance(summary)}
            BY <5>6 DEF CancelSprint
          <6>2. CancelAndAdvance(summary).status = "cancelled"
            BY <1>1, CallEvents
          <6>3. QED
            BY <2>3, <6>1, <6>2
        <5>7. ASSUME NEW f \in Facts, Resolve(f)
              PROVE  summary' = summary
          <6>1. summary' \in {summary, Cancel(summary)}
            BY <5>7, Superseded, Zenon
          <6>2. Cancel(summary).status = "cancelled"
            BY <1>1, CallEvents
          <6>3. QED
            BY <2>3, <6>1, <6>2
        <5>8. QED
          BY <1>5, <2>3, <3>2, <5>1, <5>2, <5>3, <5>4, <5>5, <5>6, <5>7, SummarySteps
      <4>2. Where = "awaiting_summary" /\ host # "recovering"
        BY <1>2, <4>1
      <4>3. host' # "recovering"
        <5>1. CASE Resume
          <6>1. summary' = ReconcileAfterStop(summary)
            BY <5>1 DEF Resume
          <6>2. summary'.status # "running"
            BY <1>1, <2>3, <6>1, CallEvents
          <6>3. QED
            BY <2>3, <6>2
        <5>2. CASE ~Resume
          BY <4>2, <5>2, HostSteps DEF Enter
        <5>3. QED
          BY <5>1, <5>2
      <4>4. ~FailSummary
        BY <1>1, <4>1, CallEvents DEF FailSummary
      <4>5. ~AcceptSummary /\ \A f \in Facts : ~Resolve(f)
        BY <4>1, <4>2, ResolveOnly DEF AcceptSummary, Idle
      <4>6. ASSUME AdvanceSprint \/ Continue
            PROVE  FALSE
        BY <4>2, <4>6 DEF AdvanceSprint, BarrierDue, CanAdvance, Continue, ActiveIs, Where
      <4>7. Where' = Where
        BY <4>2, <4>4, <4>5, <4>6, WhereMoves
      <4>8. QED
        BY <4>2, <4>3, <4>7
    <3>3. QED
      BY <3>1, <3>2
  <2>4. Where' = "awaiting_summary" => ActiveIs({"awaiting_summary"})'
    BY DEF Where, ActiveIs
  <2>5. QED
    BY <2>2, <2>3, <2>4 DEF SummaryOfSprint
<1>6. QED
  BY <1>4, <1>5

(***************************************************************************)
(* The theorems.                                                           *)
(***************************************************************************)
LEMMA InvInit == Init => IInv
<1> SUFFICES ASSUME Init
             PROVE  IInv
  OBVIOUS
<1> USE DEF Init
<1>1. NoSprintYet \in SprintRecords /\ OnItsWay(NoSprintYet)
  BY DEF NoSprintYet, SprintRecords, Statuses, OnItsWay
<1>2. NewTrim \in TrimRecords
  BY DEF NewTrim, TrimRecords
<1>3. Published = {}
  BY DEF Published, Standing
<1>4. Types
  <2>1. IsFiniteSet(Published)
    BY <1>3, FS_EmptySet
  <2>2. call \in ControlCalls /\ summary \in SummaryCalls
    BY EmptyCall DEF ControlCalls, SummaryCalls
  <2>3. reply \in ReplyRecords
        /\ stored \in [verdict : {"none", "committed", "rejected"}, of : ReplyRecords]
    BY EmptyReply DEF NothingStored
  <2>4. root \in RootRecords
    BY DEF RootRecords
  <2>5. QED
    BY <1>1, <1>2, <2>1, <2>2, <2>3, <2>4
       DEF Types, Gates, TaskStates, LaneStates, Open, Placed
<1>5. RepliesFit
  BY EmptyCall DEF RepliesFit, NoReply, NothingStored
<1>6. GateMatchesTrim /\ RootMatchesGate
  <2>1. gate = "open" /\ trim.review = "none" /\ trim.phase = "none"
    BY DEF NewTrim
  <2>2. root.solution = Nothing /\ ~root.done /\ ~root.writer
    OBVIOUS
  <2>3. (gate = "waiting_for_human") = asked
    <3>1. asked = FALSE /\ ~(gate = "waiting_for_human")
      BY <2>1
    <3>2. (gate = "waiting_for_human") = FALSE
      BY <3>1
    <3>3. QED
      BY <3>1, <3>2, Zenon
  <2>4. GateMatchesTrim
    BY <2>1, <2>3 DEF GateMatchesTrim
  <2>5. RootMatchesGate
    BY <2>1, <2>2 DEF RootMatchesGate
  <2>6. QED
    BY <2>4, <2>5
<1>7. GateOfSprint /\ TrimCallAlone /\ SprintAlone /\ LanesShut
  BY DEF GateOfSprint, TrimCallAlone, SprintAlone, LanesShut, ActiveIs
<1>8. WayToTrim
  BY <1>1 DEF WayToTrim
<1>9. SummaryOfSprint
  BY EmptyCall DEF SummaryOfSprint
<1>10. CatalogCounts /\ CatalogNeverBehind
  BY DEF CatalogCounts, CatalogNeverBehind, NothingStored, NewTrim
<1>11. QED
  BY <1>4, <1>5, <1>6, <1>7, <1>8, <1>9, <1>10 DEF IInv

LEMMA InvNext == IInv /\ [Next]_vars => IInv'
<1> SUFFICES ASSUME IInv, [Next]_vars
             PROVE  IInv'
  OBVIOUS
<1>1. CASE Next
  BY <1>1, TypesKept, RepliesFitKept, GateMatchesTrimKept, RootMatchesGateKept,
     GateOfSprintKept, TrimCallAloneKept, SprintAloneKept, LanesShutKept,
     WayToTrimKept, SummaryOfSprintKept, CatalogKept DEF IInv
<1>2. CASE UNCHANGED vars
  <2>1. /\ UNCHANGED <<host, gate, trim, catalog, asked, sprint, active, lane, summary>>
        /\ UNCHANGED <<task, root, standing, revoked, call, reply, stored, fresh>>
        /\ UNCHANGED <<passed, applied, due, halt>>
    BY <1>2 DEF vars, trimVars, sprintVars, rootVars, callVars, resultVars
  <2>2. Types' /\ RepliesFit'
    BY <2>1 DEF IInv, Types, Published, Standing, RepliesFit
  <2>3. GateMatchesTrim' /\ RootMatchesGate'
    BY <2>1 DEF IInv, GateMatchesTrim, RootMatchesGate, Standing, AllClosed, OpenJobs,
       OpenLanes
  <2>4. GateOfSprint' /\ TrimCallAlone' /\ SprintAlone' /\ LanesShut'
    BY <2>1 DEF IInv, GateOfSprint, TrimCallAlone, SprintAlone, LanesShut, ActiveIs,
       OpenJobs, OpenLanes
  <2>5. WayToTrim' /\ SummaryOfSprint' /\ CatalogCounts' /\ CatalogNeverBehind'
    BY <2>1 DEF IInv, WayToTrim, OnItsWay, SummaryOfSprint, ActiveIs, CatalogCounts,
       CatalogNeverBehind
  <2>6. QED
    BY <2>2, <2>3, <2>4, <2>5 DEF IInv
<1>3. QED
  BY <1>1, <1>2

LEMMA InvHolds == Spec => []IInv
<1>1. QED
  BY InvInit, InvNext, PTL DEF Spec

(* The gate, the record it belongs to, the tasks it admits and the outcome *)
(* of the root never contradict each other, for any number of sprints,     *)
(* tasks and Facts: the handlers that write the gate, the trim record, the *)
(* guidance inbox, the sprint and the root each in a transaction of their  *)
(* own (_commit_main_result, _commit_trimmer_result, revoke_fact,          *)
(* _maybe_complete_project) keep one story.                                *)
THEOREM GateAlwaysStands == Spec => []GateStands
<1>1. IInv => GateStands
  <2> SUFFICES ASSUME IInv
               PROVE  GateStands
    OBVIOUS
  <2>1. TypeOK
    BY DEF IInv, TypeOK, Types, Gates, TrimRecords, SprintRecords, TaskStates, LaneStates,
       ControlCalls, SummaryCalls, CallRecords, RootRecords
  <2>2. SprintRunsAlone
    BY DEF IInv, SprintAlone, SprintRunsAlone, ActiveIs
  <2>3. QED
    BY <2>1, <2>2 DEF IInv, GateStands
<1>2. QED
  BY <1>1, InvHolds, PTL

(* What the trimmer is told of a sprint covers all of it, for any number   *)
(* of lanes: advance_sprint opens the barrier only when all are closed,    *)
(* and commit_trim records its integration only after the summary, or the  *)
(* operator's word, is there.                                              *)
THEOREM SummariesCoverSprints == Spec => []SummaryCoversSprint
<1>1. IInv => SummaryCoversSprint
  BY DEF IInv, LanesShut, ActiveIs, WayToTrim, OnItsWay, SummaryCoversSprint
<1>2. QED
  BY <1>1, InvHolds, PTL

(* The portfolio revision of the scheduler is never ahead of that of the   *)
(* category store, however often the stops make a result be applied again: *)
(* apply_trim_proposal has counted it before commit_trim is reached.       *)
THEOREM CatalogLeads == Spec => []CatalogNeverBehind
<1>1. IInv => CatalogNeverBehind
  BY DEF IInv
<1>2. QED
  BY <1>1, InvHolds, PTL

=============================================================================
