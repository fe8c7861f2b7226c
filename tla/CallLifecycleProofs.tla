------------------------ MODULE CallLifecycleProofs ------------------------
(***************************************************************************)
(* What CallLifecycle promises for every pool of calls, every retry limit  *)
(* and every number of restarts.                                           *)
(*                                                                         *)
(* First, TypeOK.  Then the lease and budget invariants of a call: every   *)
(* step of the system touches a call in one of a few ways, listed by       *)
(* CallEffect, so they are preserved effect by effect, whatever the other  *)
(* calls, the operations and the task do.  Then, that planning is guarded, *)
(* which relates the calls to each other, to their runners and to halt.    *)
(* Then, that every reply of a review is applied once, which relates each  *)
(* call to the operation it serves and to what its runner does next; and   *)
(* last, that no committed or rejected operation changes again.            *)
(***************************************************************************)
EXTENDS CallLifecycle, FiniteSetTheorems, TLAPS

(***************************************************************************)
(* Types.                                                                  *)
(***************************************************************************)

(* Each event of reduce_call turns a call record into a call record.       *)
LEMMA ReducerTypes ==
    ASSUME NEW k \in CallRecord
    PROVE  /\ Launch(k) \in CallRecord
           /\ \A n \in Nat : ReceiveResult(k, n) \in CallRecord
           /\ CommitResult(k) \in CallRecord
           /\ RecordTransportFailure(k) \in CallRecord
           /\ RejectInvalidResult(k) \in CallRecord
           /\ Fence(k, "superseded") \in CallRecord
           /\ Cancel(k) \in CallRecord
           /\ CancelAndAdvance(k) \in CallRecord
           /\ AuthorizeRetry(k) \in CallRecord
           /\ ReconcileAfterStop(k) \in CallRecord
<1>0. /\ k.attempt + 1 \in Nat
      /\ k.retries + 1 \in Nat
      /\ k.epoch + 1 \in Nat \ {0}
      /\ k.fenced \cup {k.epoch} \in SUBSET Nat
  BY DEF CallRecord
<1>1. Launch(k) \in CallRecord
  BY <1>0 DEF Launch, CallRecord, CallStates
<1>2. \A n \in Nat : ReceiveResult(k, n) \in CallRecord
  BY DEF ReceiveResult, CallRecord, CallStates
<1>3. CommitResult(k) \in CallRecord
  BY DEF CommitResult, CallRecord, CallStates
<1>4. RecordTransportFailure(k) \in CallRecord
  BY <1>0 DEF RecordTransportFailure, AfterRetry, CallRecord, CallStates
<1>5. RejectInvalidResult(k) \in CallRecord
  BY <1>0 DEF RejectInvalidResult, AfterRetry, CallRecord, CallStates, NoLaunch
<1>6. Fence(k, "superseded") \in CallRecord
  BY DEF Fence, CallRecord, CallStates
<1>7. Cancel(k) \in CallRecord
  BY DEF Cancel, CallRecord, CallStates
<1>8. CancelAndAdvance(k) \in CallRecord
  BY <1>0 DEF CancelAndAdvance, CallRecord, CallStates
<1>9. AuthorizeRetry(k) \in CallRecord
  BY DEF AuthorizeRetry, CallRecord, CallStates
<1>10. ReconcileAfterStop(k) \in CallRecord
  BY <1>0 DEF ReconcileAfterStop, CallRecord, CallStates
<1>11. QED
  BY <1>1, <1>2, <1>3, <1>4, <1>5, <1>6, <1>7, <1>8, <1>9, <1>10

(* A freshly prepared call is a call record, and so is an unused id.       *)
LEMMA PreparedTypes ==
    /\ \A kind \in Kinds, o \in Ops \cup {NoOp} :
          PrepareCall(kind, o, RetryLimit) \in CallRecord
    /\ Absent(NoOp) \in CallRecord
  BY ConstantsAssumption DEF PrepareCall, Absent, CallRecord, CallStates, NoLaunch

(* The close check turns a task into a task.                               *)
LEMMA CloseTypes ==
    ASSUME NEW t \in TaskRecord, NEW os
    PROVE  CloseOutcomes(t, os) \subseteq TaskRecord
  BY DEF CloseOutcomes, TaskRecord, TaskStates

(* Init establishes the types.                                             *)
LEMMA InitTypes == Init => TypeOK
<1>1. SUFFICES ASSUME Init PROVE TypeOK
  OBVIOUS
<1>2. leases \in [Calls -> Seq(Nat)]
  BY <1>1 DEF Init
<1>3. ops \in [Ops -> OpRecord]
  BY <1>1 DEF Init, OpRecord, OpStates, NoReply, Replies, NoLaunch
<1>4. task \in TaskRecord
  BY <1>1 DEF Init, TaskRecord, TaskStates
<1>5. runner \in [Calls -> RunnerRecord]
  BY <1>1 DEF Init, RunnerRecord, Idle, PCs, NoLaunch
<1>6. calls \in [Calls -> CallRecord]
  BY <1>1, PreparedTypes DEF Init
<1>7. /\ exploring \subseteq Calls
      /\ attention \subseteq Items
      /\ halt \in BOOLEAN
      /\ phase \in {"down", "recovering", "running"}
  BY <1>1 DEF Init
<1>8. restarts \in 0..MaxRestarts /\ auths \in 0..MaxAuths
  BY <1>1, ConstantsAssumption DEF Init
<1>9. QED
  BY <1>2, <1>3, <1>4, <1>5, <1>6, <1>7, <1>8 DEF TypeOK

(* Moving a runner and replacing a call keep the types.                    *)
LEMMA MoveTypes ==
    ASSUME TypeOK, NEW c \in Calls
    PROVE  /\ \A pc \in PCs : Goto(c, pc) => runner' \in [Calls -> RunnerRecord]
           /\ Return(c) => runner' \in [Calls -> RunnerRecord]
           /\ \A k \in CallRecord : SetCall(c, k) => calls' \in [Calls -> CallRecord]
           /\ calls[c] \in CallRecord
           /\ runner[c] \in RunnerRecord
<1>1. Idle \in RunnerRecord
  BY DEF Idle, RunnerRecord, PCs, NoLaunch
<1>2. \A pc \in PCs : [runner[c] EXCEPT !.pc = pc] \in RunnerRecord
  BY DEF TypeOK, RunnerRecord
<1>3. QED
  BY <1>1, <1>2 DEF TypeOK, Goto, Return, SetCall

(* A run that aborts is down, and its runners are gone.                    *)
LEMMA AbortTypes ==
    ASSUME RunAborts
    PROVE  /\ runner' \in [Calls -> RunnerRecord]
           /\ phase' \in {"down", "recovering", "running"}
  BY DEF RunAborts, Idle, RunnerRecord, PCs, NoLaunch

(* So does moving an operation to another state.                           *)
LEMMA OpStateTypes ==
    ASSUME TypeOK
    PROVE  \A s \in OpStates : \A o :
              [ops EXCEPT ![o].state = s] \in [Ops -> OpRecord]
<1>1. \A s \in OpStates, q \in Ops : [ops[q] EXCEPT !.state = s] \in OpRecord
  BY DEF TypeOK, OpRecord
<1>2. QED
  BY <1>1 DEF TypeOK

(* Exhausting a call, or leaving it to be launched again, keeps the types. *)
LEMMA FailureTypes ==
    ASSUME TypeOK, NEW c \in Calls, NEW k \in CallRecord, AfterFailure(c, k)
    PROVE  /\ calls' \in [Calls -> CallRecord]
           /\ runner' \in [Calls -> RunnerRecord]
           /\ ops' \in [Ops -> OpRecord]
           /\ task' \in TaskRecord
           /\ attention' \subseteq Items
           /\ halt' \in BOOLEAN
<1>0. "needs_attention" \in OpStates
  BY DEF OpStates
<1>1. calls' \in [Calls -> CallRecord]
  BY MoveTypes DEF AfterFailure
<1>2. runner' \in [Calls -> RunnerRecord]
  BY MoveTypes DEF AfterFailure, PCs
<1>3. CASE k.status = "retry_pending"
  BY <1>1, <1>2, <1>3 DEF AfterFailure, TypeOK
<1>4. CASE k.status # "retry_pending"
  <2>1. Exhaust(c, k)
    BY <1>4 DEF AfterFailure
  <2>2. ops' \in [Ops -> OpRecord]
    BY <2>1, OpStateTypes, <1>0 DEF Exhaust, TypeOK
  <2>3. task' \in TaskRecord
    BY <2>1 DEF Exhaust, Paused, TypeOK, TaskRecord, TaskStates
  <2>4. attention' \subseteq Items
    BY <2>1 DEF Exhaust, CallItem, Items, TypeOK
  <2>5. halt' \in BOOLEAN
    BY <2>1 DEF Exhaust, TypeOK
  <2>6. QED
    BY <1>1, <1>2, <2>2, <2>3, <2>4, <2>5
<1>5. QED
  BY <1>3, <1>4

(* A publication keeps the types.                                          *)
LEMMA PublishedTypes ==
    ASSUME TypeOK, NEW o, Published(o)
    PROVE  /\ ops' \in [Ops -> OpRecord]
           /\ attention' \subseteq Items
<1>1. {"committed", "rejected", "needs_attention"} \subseteq OpStates
  BY DEF OpStates
<1>2. ops' \in [Ops -> OpRecord]
  <2>1. CASE ops' = [ops EXCEPT ![o].state = "committed"]
    BY <2>1, <1>1, OpStateTypes
  <2>2. CASE ops' = [ops EXCEPT ![o].state = "rejected"]
    BY <2>2, <1>1, OpStateTypes
  <2>3. CASE ops' = [ops EXCEPT ![o].state = "needs_attention"]
    BY <2>3, <1>1, OpStateTypes
  <2>4. QED
    BY <2>1, <2>2, <2>3 DEF Published
<1>3. o \in FactOps => OpItem(o) \in Items
  BY ConstantsAssumption DEF OpItem, Items
<1>4. attention' \subseteq Items
  BY <1>3 DEF Published, TypeOK
<1>5. QED
  BY <1>2, <1>4

(***************************************************************************)
(* Every step preserves the types, one step of the proof per action.       *)
(***************************************************************************)

(* The actions of a runner.                                                *)
LEMMA RunnerStepTypes ==
    ASSUME TypeOK, NEW c \in Calls, RunnerStep(c)
    PROVE  TypeOK'
<1>0. /\ calls[c] \in CallRecord
      /\ runner[c] \in RunnerRecord
  BY MoveTypes
<1>1. CASE LaunchCall(c)
  <2>1. calls' \in [Calls -> CallRecord]
    BY <1>1, MoveTypes, ReducerTypes DEF LaunchCall
  <2>2. leases' \in [Calls -> Seq(Nat)]
    BY <1>1, <1>0 DEF LaunchCall, TypeOK, CallRecord
  <2>3. [pc |-> "invoking", epoch |-> calls[c].epoch,
         launch |-> calls[c].attempt + 1] \in RunnerRecord
    BY <1>0 DEF CallRecord, RunnerRecord, PCs
  <2>4. runner' \in [Calls -> RunnerRecord]
    BY <1>1, <2>3 DEF LaunchCall, TypeOK
  <2>5. QED
    BY <1>1, <2>1, <2>2, <2>4 DEF LaunchCall, TypeOK
<1>2. CASE LaunchRefused(c)
  BY <1>2, MoveTypes, AbortTypes DEF LaunchRefused, TypeOK
<1>3. CASE AcceptReply(c)
  <2>1. calls' \in [Calls -> CallRecord]
    BY <1>3, <1>0, MoveTypes, ReducerTypes DEF AcceptReply, TypeOK, RunnerRecord
  <2>2. runner' \in [Calls -> RunnerRecord]
    BY <1>3, MoveTypes DEF AcceptReply, PCs
  <2>3. QED
    BY <1>3, <2>1, <2>2 DEF AcceptReply, TypeOK
<1>4. CASE AgentFails(c)
  <2>1. runner' \in [Calls -> RunnerRecord]
    BY <1>4, MoveTypes DEF AgentFails, PCs
  <2>2. QED
    BY <1>4, <2>1 DEF AgentFails, TypeOK
<1>5. CASE ReadStatus(c)
  <2>1. runner' \in [Calls -> RunnerRecord]
    BY <1>5, MoveTypes DEF ReadStatus, PCs
  <2>2. QED
    BY <1>5, <2>1 DEF ReadStatus, TypeOK
<1>6. CASE RecordFailure(c)
  <2>1. RecordTransportFailure(calls[c]) \in CallRecord
    BY <1>0, ReducerTypes
  <2>2. QED
    BY <1>6, <2>1, FailureTypes DEF RecordFailure, TypeOK
<1>7. CASE FailureRefused(c)
  BY <1>7, AbortTypes DEF FailureRefused, TypeOK
<1>8. CASE CommitMain(c)
  <2>1. /\ CommitResult(calls[c]) \in CallRecord
        /\ RejectInvalidResult(calls[c]) \in CallRecord
    BY <1>0, ReducerTypes
  <2>2. CASE SetCall(c, CommitResult(calls[c])) /\ Return(c)
             /\ UNCHANGED <<ops, task, attention, halt>>
    BY <1>8, <2>1, <2>2, MoveTypes DEF CommitMain, TypeOK
  <2>3. CASE AfterFailure(c, RejectInvalidResult(calls[c]))
    BY <1>8, <2>1, <2>3, FailureTypes DEF CommitMain, TypeOK
  <2>4. CASE Return(c) /\ UNCHANGED <<calls, ops, task, attention, halt>>
    BY <1>8, <2>4, MoveTypes DEF CommitMain, TypeOK
  <2>5. QED
    BY <1>8, <2>2, <2>3, <2>4 DEF CommitMain
<1>9. CASE CommitExplorer(c)
  <2>1. \A d \in Calls : /\ CommitResult(calls[d]) \in CallRecord
                         /\ Cancel(calls[d]) \in CallRecord
    BY ReducerTypes DEF TypeOK
  <2>2. calls' \in [Calls -> CallRecord]
    BY <1>9, <2>1 DEF CommitExplorer, TypeOK
  <2>3. runner' \in [Calls -> RunnerRecord]
    BY <1>9, MoveTypes, AbortTypes DEF CommitExplorer
  <2>4. phase' \in {"down", "recovering", "running"}
    BY <1>9, AbortTypes DEF CommitExplorer, TypeOK
  <2>5. exploring' \subseteq Calls /\ attention' \subseteq Items
    BY <1>9 DEF CommitExplorer, TypeOK
  <2>6. QED
    BY <1>9, <2>2, <2>3, <2>4, <2>5 DEF CommitExplorer, TypeOK
<1>10. CASE ApplySynthesis(c)
  <2> DEFINE o == calls[c].owner
             took == [ops[o] EXCEPT !.synthReply = Reply(c)]
  <2>1. Reply(c) \in Replies
    BY <1>0 DEF Reply, Replies, CallRecord
  <2>2. \A s \in OpStates : o \in Ops => [took EXCEPT !.state = s] \in OpRecord
    BY <2>1, ZenonT(40) DEF TypeOK, OpRecord
  <2>3. [ops EXCEPT ![o].synth = NoCall] \in [Ops -> OpRecord]
    BY DEF TypeOK, OpRecord
  <2>4. ops' \in [Ops -> OpRecord]
    BY <1>10, <2>2, <2>3 DEF ApplySynthesis, TypeOK, OpStates
  <2>5. runner' \in [Calls -> RunnerRecord]
    BY <1>10, MoveTypes DEF ApplySynthesis, PCs
  <2>6. QED
    BY <1>10, <2>4, <2>5 DEF ApplySynthesis, TypeOK
<1>11. CASE ApplyCorrect(c)
  <2>1. Reply(c) \in Replies
    BY <1>0 DEF Reply, Replies, CallRecord
  <2>2. ops' \in [Ops -> OpRecord]
    <3> DEFINE o == calls[c].owner
    <3>1. ops' = [ops EXCEPT ![o] = [ops[o] EXCEPT !.verifReply = Reply(c),
                                                   !.verified = TRUE]]
      BY <1>11 DEF ApplyCorrect, TypeOK
    <3>2. o \in Ops => [ops[o] EXCEPT !.verifReply = Reply(c), !.verified = TRUE]
                         \in OpRecord
      BY <2>1 DEF TypeOK, OpRecord
    <3> HIDE DEF o
    <3>3. QED
      BY <3>1, <3>2 DEF TypeOK
  <2>3. runner' \in [Calls -> RunnerRecord]
    BY <1>11, MoveTypes DEF ApplyCorrect, PCs
  <2>4. QED
    BY <1>11, <2>2, <2>3 DEF ApplyCorrect, TypeOK
<1>12. CASE ApplyIncorrect(c)
  <2>1. Reply(c) \in Replies
    BY <1>0 DEF Reply, Replies, CallRecord
  <2>2. "rejected" \in OpStates
    BY DEF OpStates
  <2>3. ops' \in [Ops -> OpRecord]
    <3> DEFINE o == calls[c].owner
    <3>1. ops' = [ops EXCEPT ![o] = [ops[o] EXCEPT !.state = "rejected",
                                                   !.verifReply = Reply(c)]]
      BY <1>12 DEF ApplyIncorrect, TypeOK
    <3>2. o \in Ops => [ops[o] EXCEPT !.state = "rejected", !.verifReply = Reply(c)]
                         \in OpRecord
      BY <2>1, <2>2 DEF TypeOK, OpRecord
    <3> HIDE DEF o
    <3>3. QED
      BY <3>1, <3>2 DEF TypeOK
  <2>4. calls' \in [Calls -> CallRecord]
    BY <1>12, <1>0, MoveTypes, ReducerTypes DEF ApplyIncorrect
  <2>5. task' \in TaskRecord
    BY <1>12 DEF ApplyIncorrect, TypeOK, TaskRecord, TaskStates
  <2>6. runner' \in [Calls -> RunnerRecord]
    BY <1>12, MoveTypes DEF ApplyIncorrect, PCs
  <2>7. QED
    BY <1>12, <2>3, <2>4, <2>5, <2>6 DEF ApplyIncorrect, TypeOK
<1>13. CASE ApplyAgain(c)
  <2>1. runner' \in [Calls -> RunnerRecord]
    BY <1>13, MoveTypes DEF ApplyAgain, PCs
  <2>2. QED
    BY <1>13, <2>1 DEF ApplyAgain, TypeOK
<1>14. CASE RejectReply(c)
  <2>1. RejectInvalidResult(calls[c]) \in CallRecord
    BY <1>0, ReducerTypes
  <2>2. QED
    BY <1>14, <2>1, FailureTypes DEF RejectReply, TypeOK
<1>15. CASE Publish(c)
  <2>1. ops' \in [Ops -> OpRecord] /\ attention' \subseteq Items
    BY <1>15, PublishedTypes DEF Publish
  <2>2. calls' \in [Calls -> CallRecord]
    BY <1>15, <1>0, MoveTypes, ReducerTypes DEF Publish
  <2>3. runner' \in [Calls -> RunnerRecord]
    BY <1>15, MoveTypes DEF Publish, PCs
  <2>4. QED
    BY <1>15, <2>1, <2>2, <2>3 DEF Publish, TypeOK
<1>16. CASE CloseTask(c)
  <2>1. task' \in TaskRecord
    BY <1>16, CloseTypes DEF CloseTask, TypeOK
  <2>2. runner' \in [Calls -> RunnerRecord]
    BY <1>16, MoveTypes DEF CloseTask, PCs
  <2>3. QED
    BY <1>16, <2>1, <2>2 DEF CloseTask, TypeOK
<1>17. CASE MarkCommitted(c)
  BY <1>17, <1>0, MoveTypes, ReducerTypes DEF MarkCommitted, TypeOK
<1>18. QED
  BY <1>1, <1>2, <1>3, <1>4, <1>5, <1>6, <1>7, <1>8, <1>9, <1>10, <1>11,
     <1>12, <1>13, <1>14, <1>15, <1>16, <1>17 DEF RunnerStep

(* Every step.                                                             *)
LEMMA NextTypes == TypeOK /\ [Next]_vars => TypeOK'
<1> SUFFICES ASSUME TypeOK, [Next]_vars PROVE TypeOK'
  OBVIOUS
<1>1. ASSUME NEW c \in Calls, PrepareMain(c) PROVE TypeOK'
  <2>1. calls' \in [Calls -> CallRecord]
    BY <1>1, PreparedTypes, MoveTypes DEF PrepareMain, Kinds
  <2>2. QED
    BY <1>1, <2>1 DEF PrepareMain, TypeOK
<1>2. ASSUME NEW c \in Calls, PrepareExplorer(c) PROVE TypeOK'
  <2>1. calls' \in [Calls -> CallRecord]
    BY <1>2, PreparedTypes, MoveTypes DEF PrepareExplorer, Kinds
  <2>2. QED
    BY <1>2, <2>1 DEF PrepareExplorer, TypeOK
<1>3. ASSUME NEW c \in Calls, NEW o \in Ops, NEW kind \in {"synthesizer", "verifier"},
             PrepareReview(c, o, kind)
      PROVE TypeOK'
  <2>1. calls' \in [Calls -> CallRecord]
    BY <1>3, PreparedTypes, MoveTypes DEF PrepareReview, Kinds
  <2>2. /\ [ops EXCEPT ![o].synth = c] \in [Ops -> OpRecord]
        /\ [ops EXCEPT ![o].verif = c] \in [Ops -> OpRecord]
    BY DEF TypeOK, OpRecord
  <2>3. QED
    BY <1>3, <2>1, <2>2 DEF PrepareReview, TypeOK
<1>4. ASSUME NEW c \in Calls, Pick(c) PROVE TypeOK'
  <2>1. runner' \in [Calls -> RunnerRecord]
    BY <1>4, MoveTypes DEF Pick, PCs
  <2>2. QED
    BY <1>4, <2>1 DEF Pick, TypeOK
<1>5. ASSUME NEW c \in Calls, ContainExplorer(c) PROVE TypeOK'
  <2>1. Cancel(calls[c]) \in CallRecord
    BY ReducerTypes DEF TypeOK
  <2>2. calls' \in [Calls -> CallRecord]
    BY <1>5, <2>1, MoveTypes DEF ContainExplorer, Contained, TypeOK
  <2>3. runner' \in [Calls -> RunnerRecord]
    BY <1>5, MoveTypes, AbortTypes DEF ContainExplorer
  <2>4. phase' \in {"down", "recovering", "running"}
    BY <1>5, AbortTypes DEF ContainExplorer, TypeOK
  <2>5. exploring' \subseteq Calls /\ attention' \subseteq Items
    BY <1>5 DEF ContainExplorer, Contained, TypeOK
  <2>6. QED
    BY <1>5, <2>2, <2>3, <2>4, <2>5 DEF ContainExplorer, TypeOK
<1>6. ASSUME NEW c \in Calls, ExpireExplorer(c) PROVE TypeOK'
  <2>1. calls' \in [Calls -> CallRecord]
    BY <1>6, MoveTypes, ReducerTypes DEF ExpireExplorer
  <2>2. QED
    BY <1>6, <2>1 DEF ExpireExplorer, TypeOK
<1>7. ASSUME NEW c \in Calls, OperatorRetry(c) PROVE TypeOK'
  <2>1. calls' \in [Calls -> CallRecord]
    BY <1>7, MoveTypes, ReducerTypes DEF OperatorRetry
  <2>2. ops' \in [Ops -> OpRecord]
    BY <1>7, OpStateTypes, SMTT(40)
    DEF OperatorRetry, RestoreOwner, Reviewing, TypeOK, OpStates
  <2>3. halt' \in BOOLEAN
    BY <1>7 DEF OperatorRetry, HaltRequired
  <2>4. auths' \in 0..MaxAuths
    BY <1>7, ConstantsAssumption DEF OperatorRetry, TypeOK
  <2>5. attention' \subseteq Items
    BY <1>7 DEF OperatorRetry, TypeOK
  <2>6. QED
    BY <1>7, <2>1, <2>2, <2>3, <2>4, <2>5 DEF OperatorRetry, TypeOK
<1>8. ASSUME NEW c \in Calls, ReattachOwner(c) PROVE TypeOK'
  <2>1. ops' \in [Ops -> OpRecord]
    BY <1>8, ZenonT(40) DEF ReattachOwner, TypeOK, OpRecord
  <2>2. QED
    BY <1>8, <2>1 DEF ReattachOwner, TypeOK
<1>9. ASSUME NEW c \in Calls, LateReply(c) PROVE TypeOK'
  <2>1. PICK n \in 1..Len(leases[c]) : SetCall(c, ReceiveResult(calls[c], n))
    BY <1>9 DEF LateReply
  <2>2. n \in Nat
    BY <2>1 DEF TypeOK
  <2>3. calls' \in [Calls -> CallRecord]
    BY <2>1, <2>2, MoveTypes, ReducerTypes
  <2>4. QED
    BY <1>9, <2>3 DEF LateReply, TypeOK
<1>10. ASSUME NEW o \in Ops, OperatorAbandon(o) PROVE TypeOK'
  <2>1. \A d \in Calls : Fence(calls[d], "superseded") \in CallRecord
    BY ReducerTypes DEF TypeOK
  <2>2. calls' \in [Calls -> CallRecord]
    BY <1>10, <2>1 DEF OperatorAbandon, TypeOK
  <2>3. ops' \in [Ops -> OpRecord]
    BY <1>10, OpStateTypes DEF OperatorAbandon, OpStates
  <2>4. task' \in TaskRecord
    BY <1>10, CloseTypes DEF OperatorAbandon, TypeOK
  <2>5. attention' \subseteq Items
    BY <1>10 DEF OperatorAbandon, TypeOK
  <2>6. QED
    BY <1>10, <2>2, <2>3, <2>4, <2>5 DEF OperatorAbandon, TypeOK
<1>11. ASSUME NEW o \in Ops, ReplayPublication(o) PROVE TypeOK'
  <2>1. ops' \in [Ops -> OpRecord] /\ attention' \subseteq Items
    BY <1>11, PublishedTypes DEF ReplayPublication
  <2>2. \A d \in Calls : CommitResult(calls[d]) \in CallRecord
    BY ReducerTypes DEF TypeOK
  <2>3. calls' \in [Calls -> CallRecord]
    BY <1>11, <2>2 DEF ReplayPublication, TypeOK
  <2>4. QED
    BY <1>11, <2>1, <2>3 DEF ReplayPublication, TypeOK
<1>12. ASSUME NEW evidence \in SUBSET (Ops \ FactOps), AttemptEnds(evidence)
       PROVE TypeOK'
  <2>1. [state |-> "postprocessing", ended |-> TRUE, evidence |-> evidence] \in TaskRecord
    BY DEF TaskRecord, TaskStates
  <2>2. QED
    BY <1>12, <2>1, CloseTypes DEF AttemptEnds, TypeOK
<1>13. CASE StartAttempt
  <2>1. task' \in TaskRecord
    BY <1>13 DEF StartAttempt, TypeOK, TaskRecord, TaskStates
  <2>2. QED
    BY <1>13, <2>1 DEF StartAttempt, TypeOK
<1>14. CASE CancelControl
  <2>1. \A d \in Calls : CancelAndAdvance(calls[d]) \in CallRecord
    BY ReducerTypes DEF TypeOK
  <2>2. calls' \in [Calls -> CallRecord]
    BY <1>14, <2>1 DEF CancelControl, TypeOK
  <2>3. halt' \in BOOLEAN /\ attention' \subseteq Items
    BY <1>14 DEF CancelControl, HaltRequired, TypeOK
  <2>4. QED
    BY <1>14, <2>2, <2>3 DEF CancelControl, TypeOK
<1>15. CASE Stop
  BY <1>15, AbortTypes DEF Stop, TypeOK
<1>16. CASE Recover
  <2>1. \A d \in Calls : ReconcileAfterStop(calls[d]) \in CallRecord
    BY ReducerTypes DEF TypeOK
  <2>2. calls' \in [Calls -> CallRecord]
    BY <1>16, <2>1 DEF Recover, TypeOK
  <2>3. halt' \in BOOLEAN
    BY <1>16 DEF Recover, HaltRequired
  <2>4. restarts' \in 0..MaxRestarts
    BY <1>16, ConstantsAssumption DEF Recover, TypeOK
  <2>5. QED
    BY <1>16, <2>2, <2>3, <2>4 DEF Recover, TypeOK
<1>17. CASE FinishRecovery
  <2>1. task' \in TaskRecord
    BY <1>17, CloseTypes DEF FinishRecovery, TypeOK
  <2>2. QED
    BY <1>17, <2>1 DEF FinishRecovery, TypeOK
<1>18. CASE UNCHANGED vars
  BY <1>18 DEF vars, TypeOK
<1>19. QED
  BY <1>1, <1>2, <1>3, <1>4, <1>5, <1>6, <1>7, <1>8, <1>9, <1>10, <1>11,
     <1>12, <1>13, <1>14, <1>15, <1>16, <1>17, <1>18, RunnerStepTypes DEF Next

(* Every record stays within its types, for any pool of calls and any      *)
(* limits: reduce_call and the transactions of the scheduler never write a *)
(* status, a lease epoch or an owner state outside the enumerated ones.    *)
THEOREM TypesHold == Spec => []TypeOK
<1>1. QED
  BY InitTypes, NextTypes, PTL DEF Spec

(***************************************************************************)
(* The inductive invariant of one call record k, given the epochs L of its *)
(* launches so far and the number r of restarts.                           *)
(***************************************************************************)
Increasing(L) == \A i, j \in 1..Len(L) : i < j => L[i] < L[j]

Bounded(L, epoch) == \A i \in 1..Len(L) : L[i] <= epoch

Fresh(L, epoch) == \A i \in 1..Len(L) : L[i] < epoch

Waiting == {"prepared", "retry_pending", "needs_attention"}

(* The lease epochs increase, the current epoch bounds them, and it is     *)
(* still unused when the call may be launched.                             *)
LeaseOK(k, L) ==
    /\ k.attempt = Len(L)
    /\ Increasing(L)
    /\ Bounded(L, k.epoch)
    /\ k.status \in Waiting => Fresh(L, k.epoch)
    /\ k.status = "running" => Len(L) > 0 /\ L[Len(L)] = k.epoch
    /\ k.status \in {"completed", "committed"} => k.result = Len(L) /\ Len(L) > 0

(* Whoever holds the current lease, or may still launch, has budget.       *)
BudgetOK(k, L) ==
    /\ k.retries <= k.limit + 1
    /\ k.status \in Live => k.retries <= k.limit
    /\ ~Fresh(L, k.epoch) => k.retries <= k.limit

(* A call that may be launched has already paid for its next launch.       *)
PaidOK(k, r) ==
    /\ k.attempt <= 1 + k.retries + r
    /\ k.status \in Waiting => k.attempt <= k.retries + r

(* An unused id was never launched and has no status of a prepared call.   *)
UnusedOK(k) ==
    k.kind = "none" => k.attempt = 0 /\ k.status \in {"absent", "cancelled", "superseded"}

CallOK(k, L, r) == LeaseOK(k, L) /\ BudgetOK(k, L) /\ PaidOK(k, r) /\ UnusedOK(k)

(* While a runner waits for its agent or handles its failure, it holds the *)
(* launch and the lease epoch it launched under.                           *)
RunnerOK(run, L) ==
    /\ run.pc \in {"invoking", "raised", "recording"} => run.launch # NoLaunch
    /\ run.launch # NoLaunch => /\ run.launch \in 1..Len(L)
                                /\ L[run.launch] = run.epoch

CallInv ==
    \A c \in Calls : /\ CallOK(calls[c], leases[c], restarts)
                     /\ RunnerOK(runner[c], leases[c])

(* Advancing the epoch makes it unused.                                    *)
LEMMA FreshFacts ==
    ASSUME NEW L \in Seq(Nat), NEW e \in Nat
    PROVE  /\ Bounded(L, e) => Fresh(L, e + 1) /\ Bounded(L, e + 1)
           /\ Fresh(L, e) => Bounded(L, e)
  BY DEF Bounded, Fresh

(* Preparing a call establishes its invariant.                             *)
LEMMA PrepareOK ==
    ASSUME NEW k \in CallRecord, NEW L \in Seq(Nat), NEW r \in Nat,
           CallOK(k, L, r), k.kind = "none", NEW kind \in Kinds, NEW o
    PROVE  CallOK(PrepareCall(kind, o, RetryLimit), L, r)
<1>1. Len(L) = 0
  BY DEF CallOK, LeaseOK, UnusedOK
<1>2. Fresh(L, 1) /\ Bounded(L, 1)
  BY <1>1 DEF Fresh, Bounded
<1>3. QED
  BY <1>1, <1>2, ConstantsAssumption
  DEF CallOK, LeaseOK, BudgetOK, PaidOK, UnusedOK, PrepareCall, Waiting, Live, Kinds

(* A reply is received only for the last launch, and keeps the invariant.  *)
LEMMA ReceiveOK ==
    ASSUME NEW k \in CallRecord, NEW L \in Seq(Nat), NEW r \in Nat,
           CallOK(k, L, r), NEW n \in 1..Len(L), CanReceive(k, L[n], n)
    PROVE  CallOK(ReceiveResult(k, n), L, r)
<1>1. CASE k.status # "running"
  BY <1>1 DEF ReceiveResult
<1>2. CASE k.status = "running"
  <2>1. L[n] = k.epoch /\ L[Len(L)] = k.epoch /\ Increasing(L)
    BY <1>2 DEF CanReceive, LeaseHeld, CallOK, LeaseOK
  <2>2. n = Len(L)
    BY <2>1 DEF Increasing
  <2>3. QED
    BY <1>2, <2>2
    DEF CallOK, LeaseOK, BudgetOK, PaidOK, UnusedOK, ReceiveResult, CallRecord,
        Waiting, Live
<1>3. QED
  BY <1>1, <1>2

(* The events that leave the lease where it is.                            *)
LEMMA SameLeaseOK ==
    ASSUME NEW k \in CallRecord, NEW L \in Seq(Nat), NEW r \in Nat, CallOK(k, L, r)
    PROVE  /\ CanCommit(k) => CallOK(CommitResult(k), L, r)
           /\ CallOK(Fence(k, "superseded"), L, r)
           /\ CallOK(Cancel(k), L, r)
           /\ CanAuthorize(k) => CallOK(AuthorizeRetry(k), L, r)
<1>1. CanCommit(k) => CallOK(CommitResult(k), L, r)
  BY DEF CanCommit, CommitResult, CallOK, LeaseOK, BudgetOK, PaidOK, UnusedOK,
         CallRecord, Waiting, Live
<1>2. CallOK(Fence(k, "superseded"), L, r)
  BY DEF Fence, CallOK, LeaseOK, BudgetOK, PaidOK, UnusedOK, CallRecord, Waiting, Live
<1>3. CallOK(Cancel(k), L, r)
  BY DEF Cancel, CallOK, LeaseOK, BudgetOK, PaidOK, UnusedOK, CallRecord, Waiting, Live
<1>4. CanAuthorize(k) => CallOK(AuthorizeRetry(k), L, r)
  BY DEF CanAuthorize, AuthorizeRetry, CallOK, LeaseOK, BudgetOK, PaidOK, UnusedOK,
         CallRecord, Waiting, Live
<1>5. QED
  BY <1>1, <1>2, <1>3, <1>4

(* The events that fence the lease and advance its epoch.  A failure needs *)
(* the current epoch to have been launched: that launch had budget.        *)
LEMMA NextLeaseOK ==
    ASSUME NEW k \in CallRecord, NEW L \in Seq(Nat), NEW r \in Nat, CallOK(k, L, r)
    PROVE  /\ ~Fresh(L, k.epoch) => CallOK(RecordTransportFailure(k), L, r)
           /\ CanReject(k) => CallOK(RejectInvalidResult(k), L, r)
           /\ CallOK(CancelAndAdvance(k), L, r)
           /\ CallOK(ReconcileAfterStop(k), L, r + 1)
<1>1. Fresh(L, k.epoch + 1) /\ Bounded(L, k.epoch + 1)
  BY FreshFacts DEF CallOK, LeaseOK, CallRecord
<1>2. ASSUME ~Fresh(L, k.epoch) PROVE CallOK(RecordTransportFailure(k), L, r)
  <2> DEFINE f == RecordTransportFailure(k)
  <2>1. /\ f.kind = k.kind /\ f.attempt = k.attempt /\ f.limit = k.limit
        /\ f.epoch = k.epoch + 1 /\ f.retries = k.retries + 1
        /\ f.status = AfterRetry(k)
    BY DEF RecordTransportFailure, CallRecord
  <2>2. k.retries <= k.limit /\ Len(L) > 0
    BY <1>2 DEF CallOK, LeaseOK, BudgetOK, Fresh
  <2> HIDE DEF f
  <2>3. LeaseOK(f, L)
    BY <1>1, <2>1 DEF AfterRetry, CallOK, LeaseOK
  <2>4. BudgetOK(f, L)
    BY <1>1, <2>1, <2>2 DEF AfterRetry, BudgetOK, Live, CallRecord
  <2>5. PaidOK(f, r) /\ UnusedOK(f)
    BY <1>2, <2>1, <2>2 DEF CallOK, LeaseOK, PaidOK, UnusedOK, CallRecord
  <2>6. QED
    BY <2>3, <2>4, <2>5 DEF CallOK, f
<1>3. CanReject(k) => CallOK(RejectInvalidResult(k), L, r)
  BY <1>1 DEF CanReject, RejectInvalidResult, AfterRetry, CallOK, LeaseOK, BudgetOK,
         PaidOK, UnusedOK, CallRecord, Waiting, Live
<1>4. CallOK(CancelAndAdvance(k), L, r)
  BY <1>1 DEF CancelAndAdvance, CallOK, LeaseOK, BudgetOK, PaidOK, UnusedOK,
         CallRecord, Waiting, Live
<1>5. CallOK(ReconcileAfterStop(k), L, r + 1)
  BY <1>1, SMTT(40) DEF ReconcileAfterStop, LostByStop, CallOK, LeaseOK, BudgetOK, PaidOK,
         UnusedOK, CallRecord, Waiting, Live
<1>6. QED
  BY <1>2, <1>3, <1>4, <1>5

(* A launch takes an unused epoch.                                         *)
LEMMA LaunchOK ==
    ASSUME NEW k \in CallRecord, NEW L \in Seq(Nat), NEW r \in Nat,
           CallOK(k, L, r), CanLaunch(k)
    PROVE  /\ CallOK(Launch(k), Append(L, k.epoch), r)
           /\ RunnerOK([pc |-> "invoking", epoch |-> k.epoch, launch |-> k.attempt + 1],
                       Append(L, k.epoch))
<1> DEFINE M == Append(L, k.epoch)
<1>1. /\ Len(M) = Len(L) + 1
      /\ \A i \in 1..Len(L) : M[i] = L[i]
      /\ M[Len(L) + 1] = k.epoch
  BY DEF CallRecord
<1>2. Increasing(L) /\ Fresh(L, k.epoch) /\ k.attempt = Len(L)
  BY DEF CallOK, LeaseOK, CanLaunch, Waiting
<1> HIDE DEF M
<1>3. Increasing(M)
  BY <1>1, <1>2, SMTT(40) DEF Increasing, Fresh
<1>4. Bounded(M, k.epoch)
  <2> SUFFICES ASSUME NEW i \in 1..Len(M) PROVE M[i] <= k.epoch
    BY DEF Bounded
  <2>1. i \in 1..Len(L) \/ i = Len(L) + 1
    BY <1>1
  <2>2. CASE i \in 1..Len(L)
    <3>1. M[i] = L[i] /\ L[i] < k.epoch /\ L[i] \in Nat
      BY <1>1, <1>2, <2>2 DEF Fresh
    <3>2. QED
      BY <3>1 DEF CallRecord
  <2>3. CASE i = Len(L) + 1
    BY <1>1, <2>3 DEF CallRecord
  <2>4. QED
    BY <2>1, <2>2, <2>3
<1>5. CallOK(Launch(k), M, r)
  <2>1. /\ Launch(k).status = "running" /\ Launch(k).attempt = k.attempt + 1
        /\ Launch(k).retries = k.retries /\ Launch(k).limit = k.limit
        /\ Launch(k).epoch = k.epoch /\ Launch(k).kind = k.kind
        /\ k.status \in Waiting /\ k.status \in Live
    BY DEF Launch, CanLaunch, CallRecord, Waiting, Live
  <2>2. LeaseOK(Launch(k), M)
    BY <1>1, <1>2, <1>3, <1>4, <2>1 DEF LeaseOK, Waiting, CallRecord
  <2>3. BudgetOK(Launch(k), M)
    BY <2>1 DEF CallOK, BudgetOK, CallRecord
  <2>4. PaidOK(Launch(k), r)
    BY <2>1 DEF CallOK, PaidOK, Waiting, CallRecord
  <2>5. UnusedOK(Launch(k))
    BY <2>1 DEF CallOK, UnusedOK, Waiting
  <2>6. QED
    BY <2>2, <2>3, <2>4, <2>5 DEF CallOK
<1>6. RunnerOK([pc |-> "invoking", epoch |-> k.epoch, launch |-> k.attempt + 1], M)
  BY <1>1, <1>2 DEF RunnerOK, NoLaunch
<1>7. QED
  BY <1>5, <1>6 DEF M

(***************************************************************************)
(* What a step may do to one call, its leases and its runner.              *)
(***************************************************************************)

(* The runner goes home or moves on with the launch it holds.              *)
RunnerMoves(c) ==
    \/ runner'[c] = Idle
    \/ /\ runner'[c].launch = runner[c].launch
       /\ runner'[c].epoch = runner[c].epoch
       /\ runner'[c].pc \in {"invoking", "raised", "recording"} =>
             runner[c].pc \in {"invoking", "raised", "recording"}

(* One event of reduce_call other than a launch, or none.                  *)
Reduced(c) ==
    LET k == calls[c]
    IN  \/ calls'[c] = k
        \/ /\ k.kind = "none"
           /\ \E kind \in Kinds, o \in Ops \cup {NoOp} :
                 calls'[c] = PrepareCall(kind, o, RetryLimit)
        \/ \E n \in 1..Len(leases[c]) :
              /\ CanReceive(k, leases[c][n], n)
              /\ calls'[c] = ReceiveResult(k, n)
        \/ CanCommit(k) /\ calls'[c] = CommitResult(k)
        \/ /\ runner[c].pc = "recording" /\ CanFail(k, runner[c].epoch)
           /\ calls'[c] = RecordTransportFailure(k)
        \/ CanReject(k) /\ calls'[c] = RejectInvalidResult(k)
        \/ calls'[c] = Fence(k, "superseded")
        \/ calls'[c] = Cancel(k)
        \/ calls'[c] = CancelAndAdvance(k)
        \/ CanAuthorize(k) /\ calls'[c] = AuthorizeRetry(k)

Launched(c) ==
    /\ CanLaunch(calls[c])
    /\ calls'[c] = Launch(calls[c])
    /\ leases'[c] = Append(leases[c], calls[c].epoch)
    /\ runner'[c] = [pc |-> "invoking", epoch |-> calls[c].epoch,
                     launch |-> calls[c].attempt + 1]

CallEffect(c) ==
    \/ /\ leases'[c] = leases[c] /\ RunnerMoves(c) /\ Reduced(c)
       /\ restarts' = restarts
    \/ Launched(c) /\ restarts' = restarts
    \/ /\ leases'[c] = leases[c] /\ RunnerMoves(c)
       /\ calls'[c] = ReconcileAfterStop(calls[c])
       /\ restarts' = restarts + 1

(* The invariant of a call survives each effect.                           *)
LEMMA EffectPreserves ==
    ASSUME TypeOK, NEW c \in Calls, CallEffect(c),
           CallOK(calls[c], leases[c], restarts), RunnerOK(runner[c], leases[c])
    PROVE  CallOK(calls[c], leases[c], restarts)' /\ RunnerOK(runner[c], leases[c])'
<1> DEFINE k == calls[c]
           L == leases[c]
           r == restarts
<1>0. k \in CallRecord /\ L \in Seq(Nat) /\ r \in Nat /\ runner[c] \in RunnerRecord
  BY ConstantsAssumption DEF TypeOK
<1>1. leases'[c] = L /\ RunnerMoves(c) => RunnerOK(runner[c], leases[c])'
  BY DEF RunnerMoves, RunnerOK, Idle
<1>2. CASE leases'[c] = L /\ RunnerMoves(c) /\ Reduced(c) /\ restarts' = r
  <2>1. runner[c].pc = "recording" /\ CanFail(k, runner[c].epoch) =>
           ~Fresh(L, k.epoch)
    BY <1>0, SMTT(40) DEF CanFail, RunnerOK, Fresh, CallRecord
  <2>2. CallOK(calls'[c], L, r)
    BY <1>0, <1>2, <2>1, PrepareOK, ReceiveOK, SameLeaseOK, NextLeaseOK DEF Reduced
  <2>3. QED
    BY <1>1, <1>2, <2>2
<1>3. CASE Launched(c) /\ restarts' = r
  BY <1>0, <1>3, LaunchOK DEF Launched
<1>4. CASE /\ leases'[c] = L /\ RunnerMoves(c)
           /\ calls'[c] = ReconcileAfterStop(k) /\ restarts' = r + 1
  BY <1>0, <1>1, <1>4, NextLeaseOK
<1>5. QED
  BY <1>2, <1>3, <1>4 DEF CallEffect

(* A runner that is sent on, called home or aborted only moves.            *)
LEMMA GotoMoves ==
    ASSUME TypeOK, NEW c \in Calls
    PROVE  /\ \A pc \in PCs :
                 Goto(c, pc)
                 /\ (pc \in {"invoking", "raised", "recording"} =>
                       runner[c].pc \in {"invoking", "raised", "recording"})
                 => \A d \in Calls : RunnerMoves(d)
           /\ Return(c) => \A d \in Calls : RunnerMoves(d)
           /\ RunAborts => \A d \in Calls : RunnerMoves(d)
           /\ UNCHANGED runner => \A d \in Calls : RunnerMoves(d)
           /\ \A k : SetCall(c, k) =>
                 /\ calls'[c] = k
                 /\ \A d \in Calls \ {c} : calls'[d] = calls[d]
<1>1. ASSUME NEW pc \in PCs, Goto(c, pc),
             pc \in {"invoking", "raised", "recording"} =>
                runner[c].pc \in {"invoking", "raised", "recording"}
      PROVE  \A d \in Calls : RunnerMoves(d)
  BY <1>1 DEF Goto, RunnerMoves, TypeOK, RunnerRecord
<1>2. Return(c) => \A d \in Calls : RunnerMoves(d)
  BY DEF Return, RunnerMoves, TypeOK
<1>3. RunAborts => \A d \in Calls : RunnerMoves(d)
  BY DEF RunAborts, RunnerMoves
<1>4. UNCHANGED runner => \A d \in Calls : RunnerMoves(d)
  BY DEF RunnerMoves
<1>5. \A k : SetCall(c, k) =>
         calls'[c] = k /\ \A d \in Calls \ {c} : calls'[d] = calls[d]
  BY DEF SetCall, TypeOK
<1>6. QED
  BY <1>1, <1>2, <1>3, <1>4, <1>5

(* A step of a runner affects each call in one of these ways.              *)
LEMMA RunnerStepEffect ==
    ASSUME TypeOK, CallInv, NEW c \in Calls, RunnerStep(c)
    PROVE  \A d \in Calls : CallEffect(d)
<1>0. RunnerOK(runner[c], leases[c])
  BY DEF CallInv
<1>1. CASE LaunchCall(c)
  <2>1. Launched(c)
    BY <1>1 DEF LaunchCall, Launched, SetCall, TypeOK
  <2>2. \A d \in Calls \ {c} : /\ calls'[d] = calls[d]
                               /\ leases'[d] = leases[d]
                               /\ runner'[d] = runner[d]
    BY <1>1 DEF LaunchCall, SetCall, TypeOK
  <2>3. restarts' = restarts
    BY <1>1 DEF LaunchCall
  <2>4. QED
    BY <2>1, <2>2, <2>3 DEF CallEffect, RunnerMoves, Reduced
<1>2. CASE LaunchRefused(c)
  BY <1>2, GotoMoves DEF LaunchRefused, CallEffect, Reduced, PCs
<1>3. CASE AcceptReply(c)
  <2>1. CASE CanReceive(calls[c], runner[c].epoch, runner[c].launch)
    <3>1. /\ runner[c].launch \in 1..Len(leases[c])
          /\ leases[c][runner[c].launch] = runner[c].epoch
      BY <1>3, <1>0 DEF AcceptReply, RunnerOK
    <3>2. Reduced(c)
      BY <1>3, <2>1, <3>1, GotoMoves DEF AcceptReply, Reduced
    <3>3. QED
      BY <1>3, <2>1, <3>2, GotoMoves DEF AcceptReply, CallEffect, Reduced, PCs
  <2>2. CASE ~CanReceive(calls[c], runner[c].epoch, runner[c].launch)
    BY <1>3, <2>2, GotoMoves DEF AcceptReply, CallEffect, Reduced, PCs
  <2>3. QED
    BY <2>1, <2>2
<1>4. CASE AgentFails(c)
  BY <1>4, GotoMoves DEF AgentFails, CallEffect, Reduced, PCs
<1>5. CASE ReadStatus(c)
  BY <1>5, GotoMoves DEF ReadStatus, CallEffect, Reduced, PCs
<1>6. CASE RecordFailure(c)
  <2>1. /\ SetCall(c, RecordTransportFailure(calls[c]))
        /\ Goto(c, "launching") \/ Goto(c, "exhausted") \/ Return(c)
    BY <1>6 DEF RecordFailure, AfterFailure
  <2>2. QED
    BY <1>6, <2>1, GotoMoves DEF RecordFailure, CallEffect, Reduced, PCs
<1>7. CASE FailureRefused(c)
  BY <1>7, GotoMoves DEF FailureRefused, CallEffect, Reduced, PCs
<1>8. CASE CommitMain(c)
  <2>1. CASE CanReject(calls[c]) /\ AfterFailure(c, RejectInvalidResult(calls[c]))
    <3>1. /\ SetCall(c, RejectInvalidResult(calls[c]))
          /\ Goto(c, "launching") \/ Goto(c, "exhausted") \/ Return(c)
      BY <2>1 DEF AfterFailure
    <3>2. QED
      BY <1>8, <2>1, <3>1, GotoMoves DEF CommitMain, CallEffect, Reduced, PCs
  <2>2. CASE CanCommit(calls[c]) /\ SetCall(c, CommitResult(calls[c])) /\ Return(c)
    BY <1>8, <2>2, GotoMoves DEF CommitMain, CallEffect, Reduced
  <2>3. CASE Return(c) /\ UNCHANGED calls
    BY <1>8, <2>3, GotoMoves DEF CommitMain, CallEffect, Reduced
  <2>4. QED
    BY <1>8, <2>1, <2>2, <2>3 DEF CommitMain
<1>9. CASE CommitExplorer(c)
  <2>1. \A d \in Calls : Reduced(d)
    BY <1>9 DEF CommitExplorer, Reduced, CanCommit, Status, TypeOK
  <2>2. \A d \in Calls : RunnerMoves(d)
    BY <1>9, GotoMoves DEF CommitExplorer
  <2>3. QED
    BY <1>9, <2>1, <2>2 DEF CommitExplorer, CallEffect
<1>10. CASE ApplySynthesis(c)
  BY <1>10, GotoMoves DEF ApplySynthesis, CallEffect, Reduced, PCs
<1>11. CASE ApplyCorrect(c)
  BY <1>11, GotoMoves DEF ApplyCorrect, CallEffect, Reduced, PCs
<1>12. CASE ApplyIncorrect(c)
  <2>1. CanCommit(calls[c])
    BY <1>12 DEF ApplyIncorrect, Awaited, Status, CanCommit
  <2>2. QED
    BY <1>12, <2>1, GotoMoves DEF ApplyIncorrect, CallEffect, Reduced, PCs
<1>13. CASE ApplyAgain(c)
  BY <1>13, GotoMoves DEF ApplyAgain, CallEffect, Reduced, PCs
<1>14. CASE RejectReply(c)
  <2>1. /\ SetCall(c, RejectInvalidResult(calls[c]))
        /\ Goto(c, "launching") \/ Goto(c, "exhausted") \/ Return(c)
    BY <1>14 DEF RejectReply, AfterFailure
  <2>2. QED
    BY <1>14, <2>1, GotoMoves DEF RejectReply, CallEffect, Reduced, PCs
<1>15. CASE Publish(c)
  <2>1. Reduced(c) /\ \A d \in Calls \ {c} : calls'[d] = calls[d]
    BY <1>15, GotoMoves DEF Publish, Reduced, CanReject, CanCommit
  <2>2. \A d \in Calls : RunnerMoves(d)
    BY <1>15, GotoMoves DEF Publish, PCs
  <2>3. QED
    BY <1>15, <2>1, <2>2 DEF Publish, CallEffect, Reduced
<1>16. CASE CloseTask(c)
  BY <1>16, GotoMoves DEF CloseTask, CallEffect, Reduced, PCs
<1>17. CASE MarkCommitted(c)
  BY <1>17, GotoMoves DEF MarkCommitted, CallEffect, Reduced
<1>18. QED
  BY <1>1, <1>2, <1>3, <1>4, <1>5, <1>6, <1>7, <1>8, <1>9, <1>10, <1>11, <1>12, <1>13, <1>14, <1>15, <1>16, <1>17
  DEF RunnerStep

(* So does every other step of a run; Recover reconciles every call.       *)
LEMMA NextEffect ==
    ASSUME TypeOK, CallInv, Next
    PROVE  \A d \in Calls : CallEffect(d)
<1>1. ASSUME NEW c \in Calls, PrepareMain(c) PROVE \A d \in Calls : CallEffect(d)
  BY <1>1, GotoMoves DEF PrepareMain, Prepared, CallEffect, Reduced, Kinds
<1>2. ASSUME NEW c \in Calls, PrepareExplorer(c) PROVE \A d \in Calls : CallEffect(d)
  BY <1>2, GotoMoves DEF PrepareExplorer, Prepared, CallEffect, Reduced, Kinds
<1>3. ASSUME NEW c \in Calls, NEW o \in Ops, NEW kind \in {"synthesizer", "verifier"},
             PrepareReview(c, o, kind)
      PROVE \A d \in Calls : CallEffect(d)
  BY <1>3, GotoMoves DEF PrepareReview, Prepared, CallEffect, Reduced, Kinds
<1>4. ASSUME NEW c \in Calls, Pick(c) PROVE \A d \in Calls : CallEffect(d)
  BY <1>4, GotoMoves DEF Pick, CallEffect, Reduced, PCs
<1>5. ASSUME NEW c \in Calls, ContainExplorer(c) PROVE \A d \in Calls : CallEffect(d)
  <2>1. \A d \in Calls : RunnerMoves(d)
    BY <1>5, GotoMoves DEF ContainExplorer
  <2>2. \A d \in Calls : Reduced(d)
    BY <1>5, GotoMoves DEF ContainExplorer, Contained, Reduced
  <2>3. QED
    BY <1>5, <2>1, <2>2 DEF ContainExplorer, CallEffect
<1>6. ASSUME NEW c \in Calls, ExpireExplorer(c) PROVE \A d \in Calls : CallEffect(d)
  BY <1>6, GotoMoves DEF ExpireExplorer, CallEffect, Reduced
<1>7. ASSUME NEW c \in Calls, OperatorRetry(c) PROVE \A d \in Calls : CallEffect(d)
  BY <1>7, GotoMoves DEF OperatorRetry, CallEffect, Reduced
<1>8. ASSUME NEW c \in Calls, ReattachOwner(c) PROVE \A d \in Calls : CallEffect(d)
  BY <1>8, GotoMoves DEF ReattachOwner, CallEffect, Reduced
<1>9. ASSUME NEW c \in Calls, LateReply(c) PROVE \A d \in Calls : CallEffect(d)
  <2>1. PICK n \in 1..Len(leases[c]) :
           /\ CanReceive(calls[c], leases[c][n], n)
           /\ SetCall(c, ReceiveResult(calls[c], n))
    BY <1>9 DEF LateReply
  <2>2. Reduced(c) /\ \A d \in Calls \ {c} : calls'[d] = calls[d]
    BY <2>1, GotoMoves DEF Reduced
  <2>3. QED
    BY <1>9, <2>2, GotoMoves DEF LateReply, CallEffect, Reduced
<1>10. ASSUME NEW o \in Ops, OperatorAbandon(o) PROVE \A d \in Calls : CallEffect(d)
  <2>1. \A d \in Calls : calls'[d] \in {calls[d], Fence(calls[d], "superseded")}
    BY <1>10 DEF OperatorAbandon
  <2>2. QED
    BY <1>10, <2>1, GotoMoves DEF OperatorAbandon, CallEffect, Reduced, RunnerMoves
<1>11. ASSUME NEW o \in Ops, ReplayPublication(o) PROVE \A d \in Calls : CallEffect(d)
  <2>1. \A d \in Calls : \/ calls'[d] = calls[d]
                         \/ CanReject(calls[d]) /\ calls'[d] = CommitResult(calls[d])
    BY <1>11 DEF ReplayPublication
  <2>2. QED
    BY <1>11, <2>1
    DEF ReplayPublication, CallEffect, Reduced, RunnerMoves, CanReject, CanCommit
<1>12. ASSUME NEW evidence \in SUBSET (Ops \ FactOps), AttemptEnds(evidence)
       PROVE \A d \in Calls : CallEffect(d)
  BY <1>12 DEF AttemptEnds, CallEffect, Reduced, RunnerMoves
<1>13. CASE StartAttempt
  BY <1>13 DEF StartAttempt, CallEffect, Reduced, RunnerMoves
<1>14. CASE CancelControl
  <2>1. \A d \in Calls : calls'[d] \in {calls[d], CancelAndAdvance(calls[d])}
    BY <1>14 DEF CancelControl
  <2>2. QED
    BY <1>14, <2>1 DEF CancelControl, CallEffect, Reduced, RunnerMoves
<1>15. CASE Stop
  BY <1>15 DEF Stop, RunAborts, CallEffect, Reduced, RunnerMoves
<1>16. CASE Recover
  BY <1>16 DEF Recover, CallEffect, RunnerMoves
<1>17. CASE FinishRecovery
  BY <1>17 DEF FinishRecovery, CallEffect, Reduced, RunnerMoves
<1>18. QED
  BY <1>1, <1>2, <1>3, <1>4, <1>5, <1>6, <1>7, <1>8, <1>9, <1>10, <1>11,
     <1>12, <1>13, <1>14, <1>15, <1>16, <1>17, RunnerStepEffect DEF Next

(* The invariant of all calls is inductive, relative to the types.         *)
LEMMA CallInvInductive ==
    /\ Init => CallInv
    /\ TypeOK /\ CallInv /\ [Next]_vars => CallInv'
<1>1. ASSUME Init PROVE CallInv
  <2>1. \A c \in Calls : CallOK(Absent(NoOp), << >>, 0)
    BY DEF CallOK, LeaseOK, BudgetOK, PaidOK, UnusedOK, Absent, Increasing,
           Bounded, Fresh, Waiting, Live
  <2>2. RunnerOK(Idle, << >>)
    BY DEF RunnerOK, Idle
  <2>3. QED
    BY <1>1, <2>1, <2>2 DEF Init, CallInv
<1>2. ASSUME TypeOK, CallInv, Next PROVE CallInv'
  BY <1>2, NextEffect, EffectPreserves DEF CallInv
<1>3. ASSUME CallInv, UNCHANGED vars PROVE CallInv'
  BY <1>3 DEF CallInv, vars
<1>4. QED
  BY <1>1, <1>2, <1>3

(***************************************************************************)
(* The theorems, for every pool of calls, limit and number of restarts.    *)
(***************************************************************************)

(* The invariant of the calls holds throughout.                            *)
THEOREM CallInvHolds == Spec => []CallInv
  BY TypesHold, CallInvInductive, PTL DEF Spec

(* A lease epoch is launched at most once: through failures, rejections,   *)
(* cancellations and full stops the launches of a call have increasing     *)
(* epochs.                                                                 *)
THEOREM LeasesAreUnique == Spec => []EachLeaseOneLaunch
<1>1. CallInv => EachLeaseOneLaunch
  BY DEF CallInv, CallOK, LeaseOK, Increasing, EachLeaseOneLaunch
<1>2. QED
  BY <1>1, CallInvHolds, PTL

(* A completed or committed call holds the reply of its last launch.       *)
THEOREM RepliesAreOfLastLaunch == Spec => []ReplyOfLastLaunch
<1>1. TypeOK /\ CallInv => ReplyOfLastLaunch
  BY DEF TypeOK, CallInv, CallOK, LeaseOK, ReplyOfLastLaunch, Status, NoLaunch
<1>2. QED
  BY <1>1, TypesHold, CallInvHolds, PTL

(* Every launch is paid for by the first one, a counted retry or a restart. *)
THEOREM LaunchesArePaid == Spec => []LaunchesPaid
<1>1. CallInv => LaunchesPaid
  BY DEF CallInv, CallOK, PaidOK, LaunchesPaid
<1>2. QED
  BY <1>1, CallInvHolds, PTL

(* A call that can still be launched or committed is within its budget.    *)
THEOREM BudgetIsKept == Spec => []BudgetKept
<1>1. CallInv => BudgetKept
  BY DEF CallInv, CallOK, BudgetOK, BudgetKept, Status
<1>2. QED
  BY <1>1, CallInvHolds, PTL

(* What the epochs and the counter of every call are for, put together.    *)
THEOREM LeasesDisciplined == Spec => []LeaseDiscipline
<1>1. EachLeaseOneLaunch /\ ReplyOfLastLaunch /\ LaunchesPaid /\ BudgetKept
         => LeaseDiscipline
  BY DEF LeaseDiscipline
<1>2. QED
  BY <1>1, LeasesAreUnique, RepliesAreOfLastLaunch, LaunchesArePaid, BudgetIsKept, PTL

(***************************************************************************)
(* Planning.  At most one main call occupies the planner: it is live or it *)
(* waits for the operator, and then the halt keeps its successor away.     *)
(* That no other main call comes back to life needs three more facts: who  *)
(* points at which kind of call, that a stop takes every runner with it,   *)
(* and what a runner may hold while its call is decided by others.         *)
(***************************************************************************)
Flying == {"invoking", "raised", "recording"}

Occupying(c) ==
    calls[c].kind = "main" /\ calls[c].status \in Live \cup {"needs_attention"}

OneOccupies == \A c, d \in Calls : Occupying(c) /\ Occupying(d) => c = d

(* A runner that may still report a failure either has its call, or lost   *)
(* it to a cancellation together with its epoch.                           *)
MainOK(c) ==
    calls[c].kind = "main" /\ runner[c].pc \in Flying =>
        \/ calls[c].status \in {"running", "completed"}
        \/ calls[c].status = "cancelled" /\ runner[c].epoch # calls[c].epoch

PointersOK ==
    \A o \in Ops : /\ ops[o].synth # NoCall => calls[ops[o].synth].kind = "synthesizer"
                   /\ ops[o].verif # NoCall => calls[ops[o].verif].kind = "verifier"

ExploringOK == \A c \in exploring : calls[c].kind = "explorer"

StoppedOK == phase # "running" => \A c \in Calls : runner[c].pc = "idle"

GuardInv ==
    /\ PointersOK /\ ExploringOK /\ StoppedOK
    /\ \A c \in Calls : MainOK(c)
    /\ HaltMatchesCalls
    /\ OneOccupies

(* A prepared call keeps its kind.                                         *)
LEMMA KindsStay ==
    ASSUME TypeOK, NEW c \in Calls, CallEffect(c), calls[c].kind # "none"
    PROVE  calls'[c].kind = calls[c].kind
<1>1. calls[c] \in CallRecord
  BY DEF TypeOK
<1>2. CASE Reduced(c)
  BY <1>1, <1>2 DEF Reduced, CallRecord, ReceiveResult, CommitResult,
     RecordTransportFailure, RejectInvalidResult, Fence, Cancel, CancelAndAdvance,
     AuthorizeRetry
<1>3. CASE Launched(c)
  BY <1>1, <1>3 DEF Launched, Launch, CallRecord
<1>4. CASE calls'[c] = ReconcileAfterStop(calls[c])
  BY <1>1, <1>4 DEF ReconcileAfterStop, CallRecord
<1>5. QED
  BY <1>2, <1>3, <1>4 DEF CallEffect

(* Operations point at reviews of their kind after every step.             *)
LEMMA PointersStay ==
    ASSUME TypeOK, CallInv, PointersOK, Next
    PROVE  PointersOK'
<1> DEFINE Same == \A o \in Ops : ops'[o].synth = ops[o].synth /\ ops'[o].verif = ops[o].verif
<1>0. /\ ops \in [Ops -> OpRecord] /\ calls \in [Calls -> CallRecord]
      /\ NoCall \notin Calls
  BY ConstantsAssumption DEF TypeOK
<1>1. \A c \in Calls : calls[c].kind # "none" => calls'[c].kind = calls[c].kind
  BY NextEffect, KindsStay
<1>2. \A o \in Ops : ops[o].synth \in Calls \cup {NoCall} /\ ops[o].verif \in Calls \cup {NoCall}
  BY <1>0 DEF OpRecord
<1>3. Same => PointersOK'
  BY <1>1, <1>2 DEF PointersOK
<1>4. /\ UNCHANGED ops => Same
      /\ \A s, q : ops' = [ops EXCEPT ![q].state = s] => Same
  BY <1>0 DEF OpRecord
<1> HIDE DEF Same
<1>5. ASSUME NEW c \in Calls, NEW k, AfterFailure(c, k) PROVE Same
  BY <1>4, <1>5 DEF AfterFailure, Exhaust
<1>6. ASSUME NEW o, Published(o) PROVE Same
  BY <1>4, <1>6 DEF Published
<1>7. ASSUME NEW c \in Calls, RunnerStep(c) PROVE PointersOK'
  <2>1. CASE ApplySynthesis(c)
    <3> DEFINE q == calls[c].owner
               took == [ops[q] EXCEPT !.synthReply = Reply(c)]
    <3>0. \/ ops' = [ops EXCEPT ![q].synth = NoCall]
          \/ \E s : ops' = [ops EXCEPT ![q] = [took EXCEPT !.state = s]]
      BY <2>1 DEF ApplySynthesis
    <3>1. \A o \in Ops : ops'[o].synth \in {ops[o].synth, NoCall} /\ ops'[o].verif = ops[o].verif
      <4>1. CASE ops' = [ops EXCEPT ![q].synth = NoCall]
        BY <4>1, <1>0 DEF OpRecord
      <4>2. ASSUME NEW s, ops' = [ops EXCEPT ![q] = [took EXCEPT !.state = s]]
            PROVE \A o \in Ops : ops'[o].synth = ops[o].synth /\ ops'[o].verif = ops[o].verif
        <5>1. q \in Ops => /\ [took EXCEPT !.state = s].synth = ops[q].synth
                           /\ [took EXCEPT !.state = s].verif = ops[q].verif
          BY <1>0 DEF OpRecord
        <5> HIDE DEF took
        <5>2. QED
          BY <4>2, <5>1, <1>0 DEF OpRecord
      <4>3. QED
        BY <3>0, <4>1, <4>2
    <3>2. QED
      BY <3>1, <1>1, <1>2 DEF PointersOK
  <2>2. CASE ApplyCorrect(c)
    <3>1. Same
      BY <2>2, <1>0 DEF ApplyCorrect, OpRecord, Same
    <3>2. QED
      BY <3>1, <1>3
  <2>3. CASE ApplyIncorrect(c)
    <3>1. Same
      BY <2>3, <1>0 DEF ApplyIncorrect, OpRecord, Same
    <3>2. QED
      BY <3>1, <1>3
  <2>4. CASE RecordFailure(c) \/ RejectReply(c)
    BY <2>4, <1>3, <1>5 DEF RecordFailure, RejectReply
  <2>5. CASE CommitMain(c)
    BY <2>5, <1>3, <1>4, <1>5 DEF CommitMain
  <2>6. CASE Publish(c)
    BY <2>6, <1>3, <1>6 DEF Publish
  <2>7. CASE \/ LaunchCall(c) \/ LaunchRefused(c) \/ AcceptReply(c) \/ AgentFails(c)
             \/ ReadStatus(c) \/ FailureRefused(c) \/ CommitExplorer(c)
             \/ ApplyAgain(c) \/ CloseTask(c) \/ MarkCommitted(c)
    <3>1. ops' = ops
      BY <2>7 DEF LaunchCall, LaunchRefused, AcceptReply, AgentFails, ReadStatus,
         FailureRefused, CommitExplorer, ApplyAgain, CloseTask, MarkCommitted
    <3>2. QED
      BY <3>1, <1>3, <1>4
  <2>8. QED
    BY <1>7, <2>1, <2>2, <2>3, <2>4, <2>5, <2>6, <2>7 DEF RunnerStep
<1>8. ASSUME NEW c \in Calls, NEW o \in Ops, NEW kind \in {"synthesizer", "verifier"},
             PrepareReview(c, o, kind)
      PROVE PointersOK'
  <2>1. calls'[c].kind = kind
    BY <1>8, <1>0 DEF PrepareReview, SetCall, PrepareCall
  <2>2. \A q \in Ops : /\ ops'[q].synth = IF q = o /\ kind = "synthesizer" THEN c ELSE ops[q].synth
                       /\ ops'[q].verif = IF q = o /\ kind = "verifier" THEN c ELSE ops[q].verif
    BY <1>8, <1>0 DEF PrepareReview, OpRecord
  <2>3. QED
    BY <2>1, <2>2, <1>1, <1>2 DEF PointersOK
<1>9. ASSUME NEW c \in Calls, ReattachOwner(c) PROVE PointersOK'
  <2>1. calls' = calls /\ calls[c].kind = "synthesizer"
    BY <1>9 DEF ReattachOwner, Detached
  <2>2. \A q \in Ops : ops'[q].synth \in {ops[q].synth, c} /\ ops'[q].verif = ops[q].verif
    BY <1>9, <1>0 DEF ReattachOwner, OpRecord
  <2>3. QED
    BY <2>1, <2>2 DEF PointersOK
<1>10. ASSUME NEW c \in Calls, OperatorRetry(c) PROVE PointersOK'
  BY <1>10, <1>3, <1>4 DEF OperatorRetry, RestoreOwner
<1>11. ASSUME NEW o \in Ops, OperatorAbandon(o) PROVE PointersOK'
  BY <1>11, <1>3, <1>4 DEF OperatorAbandon
<1>12. ASSUME NEW o \in Ops, ReplayPublication(o) PROVE PointersOK'
  BY <1>12, <1>3, <1>6 DEF ReplayPublication
<1>13. ASSUME UNCHANGED ops PROVE PointersOK'
  BY <1>13, <1>3, <1>4
<1>14. ASSUME NEW c \in Calls,
              \/ PrepareMain(c) \/ PrepareExplorer(c) \/ Pick(c) \/ ContainExplorer(c)
              \/ ExpireExplorer(c) \/ LateReply(c)
       PROVE UNCHANGED ops
  BY <1>14 DEF PrepareMain, PrepareExplorer, Pick, ContainExplorer, ExpireExplorer, LateReply
<1>15. ASSUME NEW evidence \in SUBSET (Ops \ FactOps), AttemptEnds(evidence)
       PROVE UNCHANGED ops
  BY <1>15 DEF AttemptEnds
<1>16. StartAttempt \/ CancelControl \/ Stop \/ Recover \/ FinishRecovery => UNCHANGED ops
  BY DEF StartAttempt, CancelControl, Stop, Recover, FinishRecovery
<1>17. QED
  BY <1>7, <1>8, <1>9, <1>10, <1>11, <1>12, <1>13, <1>14, <1>15, <1>16 DEF Next

(* An Explorer attempt that has not ended is one of an Explorer call.      *)
LEMMA ExploringStays ==
    ASSUME TypeOK, CallInv, ExploringOK, Next
    PROVE  ExploringOK'
<1>1. \A c \in Calls : calls[c].kind # "none" => calls'[c].kind = calls[c].kind
  BY NextEffect, KindsStay
<1>2. exploring' \subseteq exploring => ExploringOK'
  BY <1>1 DEF ExploringOK, TypeOK
<1>3. ASSUME NEW c \in Calls, PrepareExplorer(c) PROVE ExploringOK'
  BY <1>1, <1>3 DEF PrepareExplorer, SetCall, PrepareCall, ExploringOK, TypeOK
<1>4. ASSUME NEW c \in Calls, RunnerStep(c) PROVE exploring' \subseteq exploring
  BY <1>4 DEF RunnerStep, LaunchCall, LaunchRefused, AcceptReply, AgentFails, ReadStatus,
     RecordFailure, FailureRefused, CommitMain, CommitExplorer, ApplySynthesis,
     ApplyCorrect, ApplyIncorrect, ApplyAgain, RejectReply, Publish, CloseTask,
     MarkCommitted
<1>5. ASSUME NEW c \in Calls,
             \/ PrepareMain(c) \/ Pick(c) \/ ContainExplorer(c) \/ ExpireExplorer(c)
             \/ OperatorRetry(c) \/ ReattachOwner(c) \/ LateReply(c)
      PROVE  exploring' \subseteq exploring
  BY <1>5 DEF PrepareMain, Pick, ContainExplorer, Contained, ExpireExplorer,
     OperatorRetry, ReattachOwner, LateReply
<1>6. ASSUME NEW c \in Calls, NEW o \in Ops, NEW kind \in {"synthesizer", "verifier"},
             PrepareReview(c, o, kind)
      PROVE  exploring' \subseteq exploring
  BY <1>6 DEF PrepareReview
<1>7. ASSUME NEW o \in Ops, OperatorAbandon(o) \/ ReplayPublication(o)
      PROVE  exploring' \subseteq exploring
  BY <1>7 DEF OperatorAbandon, ReplayPublication
<1>8. ASSUME NEW evidence \in SUBSET (Ops \ FactOps), AttemptEnds(evidence)
      PROVE  exploring' \subseteq exploring
  BY <1>8 DEF AttemptEnds
<1>9. StartAttempt \/ CancelControl \/ Stop \/ Recover \/ FinishRecovery =>
         exploring' \subseteq exploring
  BY DEF StartAttempt, CancelControl, Stop, Recover, FinishRecovery
<1>10. QED
  BY <1>2, <1>3, <1>4, <1>5, <1>6, <1>7, <1>8, <1>9 DEF Next

(* No runner outlives its process.                                         *)
LEMMA StoppedStays ==
    ASSUME TypeOK, StoppedOK, Next
    PROVE  StoppedOK'
<1>1. RunAborts => StoppedOK'
  BY DEF RunAborts, StoppedOK, Idle
<1>2. UNCHANGED <<runner, phase>> => StoppedOK'
  BY DEF StoppedOK
<1>3. phase = "running" /\ UNCHANGED phase => StoppedOK'
  BY DEF StoppedOK
<1>4. ASSUME NEW c \in Calls, RunnerStep(c) \/ ContainExplorer(c)
      PROVE  /\ runner[c].pc # "idle"
             /\ UNCHANGED phase \/ RunAborts
  BY <1>4 DEF RunnerStep, LaunchCall, LaunchRefused, AcceptReply, AgentFails, ReadStatus,
     RecordFailure, FailureRefused, CommitMain, CommitExplorer, ApplySynthesis,
     ApplyCorrect, ApplyIncorrect, ApplyAgain, RejectReply, Publish, CloseTask,
     MarkCommitted, ContainExplorer
<1>5. ASSUME NEW c \in Calls, RunnerStep(c) \/ ContainExplorer(c) PROVE StoppedOK'
  BY <1>1, <1>3, <1>4, <1>5 DEF StoppedOK
<1>6. ASSUME NEW c \in Calls, Pick(c) PROVE StoppedOK'
  BY <1>6, <1>3 DEF Pick
<1>7. ASSUME NEW c \in Calls,
             \/ PrepareMain(c) \/ PrepareExplorer(c) \/ ExpireExplorer(c)
             \/ OperatorRetry(c) \/ ReattachOwner(c) \/ LateReply(c)
      PROVE  StoppedOK'
  BY <1>2, <1>7 DEF PrepareMain, PrepareExplorer, ExpireExplorer, OperatorRetry,
     ReattachOwner, LateReply
<1>8. ASSUME NEW c \in Calls, NEW o \in Ops, NEW kind \in {"synthesizer", "verifier"},
             PrepareReview(c, o, kind)
      PROVE  StoppedOK'
  BY <1>2, <1>8 DEF PrepareReview
<1>9. ASSUME NEW o \in Ops, OperatorAbandon(o) \/ ReplayPublication(o)
      PROVE  StoppedOK'
  BY <1>2, <1>9 DEF OperatorAbandon, ReplayPublication
<1>10. ASSUME NEW evidence \in SUBSET (Ops \ FactOps), AttemptEnds(evidence)
       PROVE  StoppedOK'
  BY <1>2, <1>10 DEF AttemptEnds
<1>11. StartAttempt \/ CancelControl \/ Stop \/ Recover \/ FinishRecovery => StoppedOK'
  BY <1>1, <1>2 DEF StartAttempt, CancelControl, Stop, Recover, FinishRecovery, StoppedOK
<1>12. QED
  BY <1>5, <1>6, <1>7, <1>8, <1>9, <1>10, <1>11 DEF Next

(* What a step that prepares no main call may do to one: its record        *)
(* changes under a runner that could still fail it only by a launch, a     *)
(* reply or a cancellation that takes the epoch.                           *)
Steady(c) ==
    calls'[c].kind = "main" =>
        /\ calls[c].kind = "main"
        /\ \/ calls'[c] = calls[c]
           \/ runner'[c].pc \notin Flying
           \/ calls'[c] = CancelAndAdvance(calls[c])
           \/ Launched(c)
           \/ \E n \in Nat : calls'[c] = ReceiveResult(calls[c], n)

(* Such a step brings no main call back and keeps what runners may hold.   *)
LEMMA SteadyKeeps ==
    ASSUME TypeOK, CallInv, NEW c \in Calls, CallEffect(c), MainOK(c), Steady(c)
    PROVE  MainOK(c)' /\ (Occupying(c)' => Occupying(c))
<1> DEFINE k == calls[c]
<1>0. k \in CallRecord /\ runner[c] \in RunnerRecord
  BY DEF TypeOK
<1> SUFFICES ASSUME calls'[c].kind = "main"
             PROVE  MainOK(c)' /\ (Occupying(c)' => Occupying(c))
  BY DEF MainOK, Occupying
<1>1. k.kind = "main"
  BY DEF Steady
<1>2. CASE Launched(c)
  BY <1>0, <1>1, <1>2 DEF Launched, Launch, CanLaunch, MainOK, Occupying, Live, CallRecord
<1>3. ASSUME RunnerMoves(c) PROVE MainOK(c)'
  <2>1. runner'[c].pc \in Flying =>
           runner[c].pc \in Flying /\ runner'[c].epoch = runner[c].epoch
    BY <1>3 DEF RunnerMoves, Flying, Idle
  <2>2. runner[c].pc \in Flying => runner[c].epoch \in Nat /\ runner[c].epoch <= k.epoch
    BY <1>0 DEF CallInv, CallOK, LeaseOK, RunnerOK, Bounded, Flying, CallRecord, RunnerRecord
  <2>3. CASE calls'[c] = k
    BY <2>1, <2>3 DEF MainOK
  <2>4. CASE runner'[c].pc \notin Flying
    BY <2>4 DEF MainOK
  <2>5. CASE calls'[c] = CancelAndAdvance(k)
    <3>1. /\ calls'[c].status = "cancelled" /\ calls'[c].epoch = k.epoch + 1
          /\ k.epoch \in Nat
      BY <1>0, <2>5 DEF CancelAndAdvance, CallRecord
    <3>2. QED
      BY <2>1, <2>2, <3>1 DEF MainOK
  <2>6. CASE \E n \in Nat : calls'[c] = ReceiveResult(k, n)
    BY <1>0, <1>1, <2>1, <2>6 DEF ReceiveResult, MainOK, CallRecord
  <2>7. QED
    BY <1>2, <2>3, <2>4, <2>5, <2>6 DEF Steady
<1>4. ASSUME Reduced(c) PROVE Occupying(c)' => Occupying(c)
  <2>1. CASE CanFail(k, runner[c].epoch) /\ runner[c].pc = "recording"
    BY <1>0, <1>1, <2>1 DEF CanFail, MainOK, Flying, Occupying, Live
  <2>2. CASE calls'[c] = k \/ CanReject(k) \/ CanAuthorize(k)
    BY <1>1, <2>2 DEF CanReject, CanAuthorize, Occupying, Live
  <2>3. CASE \/ CanCommit(k) /\ calls'[c] = CommitResult(k)
             \/ calls'[c] = Fence(k, "superseded")
             \/ calls'[c] = Cancel(k)
             \/ calls'[c] = CancelAndAdvance(k)
    BY <1>0, <2>3 DEF CommitResult, Fence, Cancel, CancelAndAdvance, Occupying, Live,
       CallRecord
  <2>4. CASE \E n \in 1..Len(leases[c]) : calls'[c] = ReceiveResult(k, n)
    BY <1>0, <1>1, <2>4 DEF ReceiveResult, Occupying, Live, CallRecord
  <2>5. QED
    BY <1>1, <1>4, <2>1, <2>2, <2>3, <2>4 DEF Reduced
<1>5. CASE RunnerMoves(c) /\ calls'[c] = ReconcileAfterStop(k)
  <2>1. Occupying(c)' => Occupying(c)
    BY <1>0, <1>1, <1>5 DEF ReconcileAfterStop, LostByStop, Occupying, Live, CallRecord
  <2>2. QED
    BY <1>3, <1>5, <2>1
<1>6. QED
  BY <1>2, <1>3, <1>4, <1>5 DEF CallEffect

Planned == (\A c \in Calls : Steady(c)) /\ HaltMatchesCalls'

(* The step leaves c waiting for the operator as a main call, or not.      *)
SameHalt(c) ==
    calls'[c].kind = "main" /\ calls'[c].status = "needs_attention"
        <=> calls[c].kind = "main" /\ calls[c].status = "needs_attention"

LEMMA HaltStays ==
    ASSUME HaltMatchesCalls, UNCHANGED halt, \A c \in Calls : SameHalt(c)
    PROVE  HaltMatchesCalls'
  BY DEF HaltMatchesCalls, HaltRequired, SameHalt

(* A step that changes one call at most leaves the others steady.          *)
LEMMA OneChanges ==
    ASSUME TypeOK, HaltMatchesCalls, NEW c \in Calls, NEW k, SetCall(c, k)
    PROVE  /\ Steady(c) /\ HaltMatchesCalls' => Planned
           /\ Steady(c) /\ SameHalt(c) /\ UNCHANGED halt => Planned
           /\ calls[c].kind # "main" /\ k.kind # "main" /\ UNCHANGED halt => Planned
           /\ calls'[c] = k
<1>1. calls'[c] = k /\ \A d \in Calls \ {c} : calls'[d] = calls[d]
  BY GotoMoves
<1>2. \A d \in Calls \ {c} : Steady(d) /\ SameHalt(d)
  BY <1>1 DEF Steady, SameHalt
<1>3. calls[c].kind # "main" /\ k.kind # "main" => Steady(c) /\ SameHalt(c)
  BY <1>1 DEF Steady, SameHalt
<1>4. QED
  BY <1>1, <1>2, <1>3, HaltStays DEF Planned

(* The reducer never changes what a call is called for.                    *)
LEMMA ReducerKinds ==
    ASSUME NEW k \in CallRecord
    PROVE  /\ Launch(k).kind = k.kind
           /\ \A n : ReceiveResult(k, n).kind = k.kind
           /\ CommitResult(k).kind = k.kind
           /\ CommitResult(k).status = "committed"
           /\ RecordTransportFailure(k).kind = k.kind
           /\ RecordTransportFailure(k).status \in {"retry_pending", "needs_attention"}
           /\ RejectInvalidResult(k).kind = k.kind
           /\ RejectInvalidResult(k).status \in {"retry_pending", "needs_attention"}
           /\ Fence(k, "superseded").kind = k.kind
           /\ Cancel(k).kind = k.kind
           /\ CancelAndAdvance(k).kind = k.kind
           /\ AuthorizeRetry(k).kind = k.kind
           /\ ReconcileAfterStop(k).kind = k.kind
  BY DEF CallRecord, Launch, ReceiveResult, CommitResult, RecordTransportFailure,
     RejectInvalidResult, AfterRetry, Fence, Cancel, CancelAndAdvance, AuthorizeRetry,
     ReconcileAfterStop

(* A failed or refused attempt sets the halt exactly when it exhausts a    *)
(* main call, and its runner has nothing more to report.                   *)
LEMMA FailureSteady ==
    ASSUME TypeOK, HaltMatchesCalls, NEW c \in Calls, NEW k, AfterFailure(c, k),
           k.kind = calls[c].kind, k.status \in {"retry_pending", "needs_attention"},
           calls[c].kind = "main" => calls[c].status # "needs_attention"
    PROVE  Planned
<1>1. SetCall(c, k) /\ calls'[c] = k
  BY OneChanges DEF AfterFailure
<1>2. runner'[c].pc \notin Flying
  BY DEF AfterFailure, Goto, Return, Idle, Flying, TypeOK, RunnerRecord
<1>3. Steady(c)
  BY <1>1, <1>2 DEF Steady
<1>4. CASE k.status = "retry_pending"
  BY <1>1, <1>3, <1>4, OneChanges DEF AfterFailure, SameHalt
<1>5. CASE k.status = "needs_attention" /\ k.kind = "main"
  <2>1. halt' = TRUE
    BY <1>5 DEF AfterFailure, Exhaust
  <2>2. HaltRequired(calls')
    BY <1>1, <1>5 DEF HaltRequired
  <2>3. QED
    BY <1>1, <1>3, <2>1, <2>2, OneChanges DEF HaltMatchesCalls
<1>6. CASE k.status = "needs_attention" /\ k.kind # "main"
  <2>1. UNCHANGED halt
    BY <1>6 DEF AfterFailure, Exhaust, TypeOK
  <2>2. QED
    BY <1>1, <1>6, <2>1, OneChanges
<1>7. QED
  BY <1>4, <1>5, <1>6

(* The steps of a runner.                                                  *)
LEMMA RunnerStepSteady ==
    ASSUME TypeOK, CallInv, GuardInv, NEW c \in Calls, RunnerStep(c)
    PROVE  Planned
<1> DEFINE k == calls[c]
<1>0. /\ k \in CallRecord /\ runner[c] \in RunnerRecord
      /\ HaltMatchesCalls /\ MainOK(c) /\ ExploringOK
  BY DEF TypeOK, GuardInv
<1>1. UNCHANGED <<calls, halt>> => Planned
  BY <1>0, HaltStays DEF Planned, Steady, SameHalt
<1>2. CASE \/ LaunchRefused(c) \/ AgentFails(c) \/ ReadStatus(c) \/ FailureRefused(c)
           \/ ApplySynthesis(c) \/ ApplyCorrect(c) \/ ApplyAgain(c) \/ CloseTask(c)
  <2>1. UNCHANGED <<calls, halt>>
    BY <1>2 DEF LaunchRefused, AgentFails, ReadStatus, FailureRefused, ApplySynthesis,
       ApplyCorrect, ApplyAgain, CloseTask
  <2>2. QED
    BY <1>1, <2>1
<1>3. CASE LaunchCall(c)
  <2>1. Launched(c) /\ SetCall(c, Launch(k)) /\ UNCHANGED halt
    BY <1>3 DEF LaunchCall, Launched, SetCall, TypeOK
  <2>2. Steady(c) /\ SameHalt(c)
    BY <2>1, <1>0, ReducerKinds DEF Launched, CanLaunch, Launch, Steady, SameHalt, CallRecord
  <2>3. QED
    BY <1>0, <2>1, <2>2, OneChanges
<1>4. CASE AcceptReply(c)
  <2>1. CASE UNCHANGED calls
    BY <1>1, <1>4, <2>1 DEF AcceptReply
  <2>2. CASE SetCall(c, ReceiveResult(k, runner[c].launch))
    <3>1. runner[c].launch \in Nat
      BY <1>0 DEF RunnerRecord
    <3>2. calls'[c] = ReceiveResult(k, runner[c].launch)
      BY <1>0, <2>2, OneChanges
    <3>3. Steady(c)
      BY <1>0, <3>1, <3>2, ReducerKinds DEF Steady
    <3>4. SameHalt(c)
      BY <1>0, <3>2, ReducerKinds DEF SameHalt, ReceiveResult, CallRecord
    <3>5. QED
      BY <1>0, <1>4, <2>2, <3>3, <3>4, OneChanges DEF AcceptReply
  <2>3. QED
    BY <1>4, <2>1, <2>2 DEF AcceptReply
<1>5. CASE RecordFailure(c)
  <2>1. k.kind = "main" => k.status # "needs_attention"
    BY <1>0, <1>5 DEF RecordFailure, CanFail, MainOK, Flying
  <2>2. QED
    BY <1>0, <1>5, <2>1, ReducerKinds, FailureSteady DEF RecordFailure
<1>6. CASE CommitMain(c)
  <2>1. CASE CanReject(k) /\ AfterFailure(c, RejectInvalidResult(k))
    BY <1>0, <2>1, ReducerKinds, FailureSteady DEF CanReject
  <2>2. CASE /\ CanCommit(k) /\ SetCall(c, CommitResult(k)) /\ Return(c)
             /\ UNCHANGED halt
    <3>1. runner'[c].pc \notin Flying
      BY <2>2 DEF Return, Idle, Flying, TypeOK
    <3>2. Steady(c) /\ SameHalt(c)
      BY <1>0, <2>2, <3>1, OneChanges, ReducerKinds DEF Steady, SameHalt, CanCommit
    <3>3. QED
      BY <1>0, <2>2, <3>2, OneChanges
  <2>3. CASE UNCHANGED <<calls, halt>>
    BY <1>1, <2>3
  <2>4. QED
    BY <1>6, <2>1, <2>2, <2>3 DEF CommitMain
<1>7. CASE CommitExplorer(c)
  <2>1. \A d \in Calls : calls'[d] # calls[d] =>
                            calls[d].kind # "main" /\ calls'[d].kind # "main"
    <3> SUFFICES ASSUME NEW d \in Calls, calls'[d] # calls[d]
                 PROVE  calls[d].kind # "main" /\ calls'[d].kind # "main"
      OBVIOUS
    <3>1. /\ calls[d].kind = "explorer"
          /\ calls'[d] \in {CommitResult(calls[d]), Cancel(calls[d])}
      BY <1>0, <1>7 DEF CommitExplorer, ExploringOK
    <3>2. calls[d] \in CallRecord
      BY DEF TypeOK
    <3>3. QED
      BY <3>1, <3>2, ReducerKinds
  <2>2. \A d \in Calls : Steady(d) /\ SameHalt(d)
    BY <2>1 DEF Steady, SameHalt
  <2>3. QED
    BY <1>0, <1>7, <2>2, HaltStays DEF CommitExplorer, Planned
<1>8. CASE ApplyIncorrect(c)
  BY <1>0, <1>8, ReducerKinds, OneChanges DEF ApplyIncorrect
<1>9. CASE RejectReply(c)
  BY <1>0, <1>9, ReducerKinds, FailureSteady DEF RejectReply, IsReview, CanReject
<1>10. CASE Publish(c)
  <2>1. UNCHANGED halt
    BY <1>10 DEF Publish
  <2>2. CASE SetCall(c, k)
    <3>1. calls' = calls
      BY <2>2 DEF SetCall, TypeOK
    <3>2. QED
      BY <1>1, <2>1, <3>1
  <2>3. CASE CanReject(k) /\ SetCall(c, CommitResult(k))
    <3>1. runner'[c].pc \notin Flying
      BY <1>10 DEF Publish, Goto, Flying, TypeOK, RunnerRecord
    <3>2. Steady(c) /\ SameHalt(c)
      BY <1>0, <2>3, <3>1, OneChanges, ReducerKinds DEF Steady, SameHalt, CanReject
    <3>3. QED
      BY <1>0, <2>1, <2>3, <3>2, OneChanges
  <2>4. QED
    BY <1>10, <2>2, <2>3 DEF Publish
<1>11. CASE MarkCommitted(c)
  <2>1. runner'[c].pc \notin Flying
    BY <1>11 DEF MarkCommitted, Return, Idle, Flying, TypeOK
  <2>2. /\ CanCommit(k) /\ SetCall(c, CommitResult(k)) /\ UNCHANGED halt
    BY <1>11 DEF MarkCommitted
  <2>3. Steady(c) /\ SameHalt(c)
    BY <1>0, <2>1, <2>2, OneChanges, ReducerKinds DEF Steady, SameHalt, CanCommit
  <2>4. QED
    BY <1>0, <2>2, <2>3, OneChanges
<1>12. QED
  BY <1>2, <1>3, <1>4, <1>5, <1>6, <1>7, <1>8, <1>9, <1>10, <1>11 DEF RunnerStep

(* Every other step but the preparation of a main call.                    *)
LEMMA NextSteady ==
    ASSUME TypeOK, CallInv, GuardInv, Next, ~\E c \in Calls : PrepareMain(c)
    PROVE  Planned
<1>0. /\ \A c \in Calls : calls[c] \in CallRecord
      /\ HaltMatchesCalls /\ ExploringOK /\ PointersOK /\ StoppedOK
  BY DEF TypeOK, GuardInv
<1>1. UNCHANGED <<calls, halt>> => Planned
  BY <1>0, HaltStays DEF Planned, Steady, SameHalt
<1>2. (\A c \in Calls : calls'[c] # calls[c] =>
                           calls[c].kind # "main" /\ calls'[c].kind # "main")
         /\ UNCHANGED halt => Planned
  BY <1>0, HaltStays DEF Planned, Steady, SameHalt
<1>3. halt' = HaltRequired(calls') => HaltMatchesCalls'
  BY DEF HaltMatchesCalls, HaltRequired
<1>4. ASSUME NEW c \in Calls, PrepareExplorer(c) PROVE Planned
  BY <1>0, <1>4, OneChanges DEF PrepareExplorer, Prepared, PrepareCall
<1>5. ASSUME NEW c \in Calls, NEW o \in Ops, NEW kind \in {"synthesizer", "verifier"},
             PrepareReview(c, o, kind)
      PROVE  Planned
  BY <1>0, <1>5, OneChanges DEF PrepareReview, Prepared, PrepareCall
<1>6. ASSUME NEW c \in Calls, Pick(c) \/ ReattachOwner(c) PROVE Planned
  BY <1>1, <1>6 DEF Pick, ReattachOwner
<1>7. ASSUME NEW c \in Calls, ContainExplorer(c) PROVE Planned
  BY <1>0, <1>1, <1>7, ReducerKinds, OneChanges
  DEF ContainExplorer, Contained, ExploringOK
<1>8. ASSUME NEW c \in Calls, ExpireExplorer(c) PROVE Planned
  BY <1>0, <1>8, ReducerKinds, OneChanges DEF ExpireExplorer, ExploringOK
<1>9. ASSUME NEW c \in Calls, OperatorRetry(c) PROVE Planned
  <2>1. SetCall(c, AuthorizeRetry(calls[c])) /\ HaltMatchesCalls'
    BY <1>3, <1>9 DEF OperatorRetry
  <2>2. Steady(c)
    <3>1. calls[c].kind = "main" => runner'[c].pc \notin Flying
      BY <1>9 DEF OperatorRetry, ControlThreadFree, Flying
    <3>2. QED
      BY <1>0, <2>1, <3>1, OneChanges, ReducerKinds DEF Steady
  <2>3. QED
    BY <1>0, <2>1, <2>2, OneChanges
<1>10. ASSUME NEW c \in Calls, LateReply(c) PROVE Planned
  <2>1. PICK n \in 1..Len(leases[c]) : SetCall(c, ReceiveResult(calls[c], n))
    BY <1>10 DEF LateReply
  <2>2. n \in Nat
    BY <2>1 DEF TypeOK
  <2>3. calls'[c] = ReceiveResult(calls[c], n)
    BY <1>0, <2>1, OneChanges
  <2>4. Steady(c)
    BY <1>0, <2>2, <2>3, ReducerKinds DEF Steady
  <2>5. SameHalt(c)
    BY <1>0, <2>3, ReducerKinds DEF SameHalt, ReceiveResult, CallRecord
  <2>6. QED
    BY <1>0, <1>10, <2>1, <2>4, <2>5, OneChanges DEF LateReply
<1>11. ASSUME NEW o \in Ops, OperatorAbandon(o) PROVE Planned
  <2>1. ASSUME NEW c \in Calls, calls'[c] # calls[c]
        PROVE  calls[c].kind # "main" /\ calls'[c].kind # "main"
    <3>1. /\ c \in {ops[o].synth, ops[o].verif} \ {NoCall}
          /\ calls'[c] = Fence(calls[c], "superseded")
      BY <1>11, <2>1 DEF OperatorAbandon
    <3>2. QED
      BY <1>0, <3>1, ReducerKinds DEF PointersOK
  <2>2. QED
    BY <1>2, <1>11, <2>1 DEF OperatorAbandon
<1>12. ASSUME NEW o \in Ops, ReplayPublication(o) PROVE Planned
  <2>1. ASSUME NEW c \in Calls, calls'[c] # calls[c]
        PROVE  calls[c].kind # "main" /\ calls'[c].kind # "main"
    <3>1. c = ops[o].verif /\ calls'[c] = CommitResult(calls[c])
      BY <1>12, <2>1 DEF ReplayPublication
    <3>2. QED
      BY <1>0, <3>1, ReducerKinds, ConstantsAssumption DEF PointersOK
  <2>2. QED
    BY <1>2, <1>12, <2>1 DEF ReplayPublication
<1>13. ASSUME NEW evidence \in SUBSET (Ops \ FactOps), AttemptEnds(evidence) PROVE Planned
  BY <1>1, <1>13 DEF AttemptEnds
<1>14. StartAttempt \/ Stop \/ FinishRecovery => Planned
  BY <1>1 DEF StartAttempt, Stop, FinishRecovery
<1>15. CASE CancelControl
  <2>1. ASSUME NEW c \in Calls PROVE Steady(c)
    <3>1. \/ calls'[c] = calls[c]
          \/ calls'[c] = CancelAndAdvance(calls[c])
      BY <1>15 DEF CancelControl
    <3>2. QED
      BY <1>0, <3>1, ReducerKinds DEF Steady
  <2>2. QED
    BY <1>3, <1>15, <2>1 DEF CancelControl, Planned
<1>16. CASE Recover
  <2>1. ASSUME NEW c \in Calls PROVE Steady(c)
    <3>1. runner'[c].pc = "idle"
      BY <1>0, <1>16 DEF Recover, StoppedOK
    <3>2. calls'[c] = ReconcileAfterStop(calls[c])
      BY <1>16 DEF Recover
    <3>3. QED
      BY <1>0, <3>1, <3>2, ReducerKinds DEF Steady, Flying
  <2>2. QED
    BY <1>3, <1>16, <2>1 DEF Recover, Planned
<1>17. QED
  BY <1>4, <1>5, <1>6, <1>7, <1>8, <1>9, <1>10, <1>11, <1>12, <1>13, <1>14, <1>15,
     <1>16, RunnerStepSteady DEF Next

(* A main call is prepared only when no other occupies the planner.        *)
LEMMA PrepareMainKeeps ==
    ASSUME TypeOK, GuardInv, NEW c \in Calls, PrepareMain(c)
    PROVE  /\ \A d \in Calls : MainOK(d)'
           /\ HaltMatchesCalls' /\ OneOccupies'
<1>1. /\ calls'[c] = PrepareCall("main", NoOp, RetryLimit)
      /\ \A d \in Calls \ {c} : calls'[d] = calls[d]
      /\ UNCHANGED <<runner, halt>>
      /\ calls[c].kind = "none" /\ runner[c].pc = "idle"
  BY DEF PrepareMain, SetCall, Prepared, ControlThreadFree, TypeOK
<1>2. calls'[c].kind = "main" /\ calls'[c].status = "prepared"
  BY <1>1 DEF PrepareCall
<1>3. \A d \in Calls : ~Occupying(d)
  BY DEF PrepareMain, MainShouldRun, LiveOfKind, OfKind, Status, Occupying, GuardInv,
     HaltMatchesCalls, HaltRequired
<1>4. \A d \in Calls : MainOK(d)'
  BY <1>1 DEF MainOK, Flying, GuardInv
<1>5. HaltMatchesCalls'
  BY <1>1, <1>2, HaltStays DEF SameHalt, GuardInv
<1>6. \A d \in Calls \ {c} : ~Occupying(d)'
  BY <1>1, <1>3 DEF Occupying
<1>7. QED
  BY <1>4, <1>5, <1>6 DEF OneOccupies

(* The guard of planning is inductive, relative to the calls.              *)
LEMMA GuardInductive ==
    /\ Init => GuardInv
    /\ TypeOK /\ CallInv /\ GuardInv /\ [Next]_vars => GuardInv'
<1>1. ASSUME Init PROVE GuardInv
  <2>1. \A c \in Calls : calls[c].kind = "none" /\ runner[c].pc = "idle"
    BY <1>1 DEF Init, Absent, Idle
  <2>2. \A o \in Ops : ops[o].synth = NoCall /\ ops[o].verif = NoCall
    BY <1>1 DEF Init
  <2>3. halt = FALSE /\ exploring = {}
    BY <1>1 DEF Init
  <2>4. QED
    BY <2>1, <2>2, <2>3 DEF GuardInv, PointersOK, ExploringOK, StoppedOK, MainOK,
       HaltMatchesCalls, HaltRequired, OneOccupies, Occupying
<1>2. ASSUME TypeOK, CallInv, GuardInv, Next PROVE GuardInv'
  <2>1. PointersOK' /\ ExploringOK' /\ StoppedOK'
    BY <1>2, PointersStay, ExploringStays, StoppedStays DEF GuardInv
  <2>2. CASE \E c \in Calls : PrepareMain(c)
    BY <1>2, <2>1, <2>2, PrepareMainKeeps DEF GuardInv
  <2>3. CASE ~\E c \in Calls : PrepareMain(c)
    <3>1. Planned
      BY <1>2, <2>3, NextSteady
    <3>2. \A c \in Calls : MainOK(c)' /\ (Occupying(c)' => Occupying(c))
      BY <1>2, <3>1, NextEffect, SteadyKeeps DEF Planned, GuardInv
    <3>3. OneOccupies'
      BY <1>2, <3>2 DEF OneOccupies, GuardInv
    <3>4. QED
      BY <2>1, <3>1, <3>2, <3>3 DEF GuardInv, Planned
  <2>4. QED
    BY <2>2, <2>3
<1>3. ASSUME GuardInv, UNCHANGED vars PROVE GuardInv'
  BY <1>3 DEF GuardInv, PointersOK, ExploringOK, StoppedOK, MainOK, HaltMatchesCalls,
     HaltRequired, OneOccupies, Occupying, vars
<1>4. QED
  BY <1>1, <1>2, <1>3

(* The stored halt flag is what _halt_required computes, and at most one   *)
(* main call is live, whatever fails, is cancelled, retried or recovered.  *)
THEOREM PlanningGuarded == Spec => []PlanningIsGuarded
<1>1. GuardInv => PlanningIsGuarded
  <2> SUFFICES ASSUME GuardInv PROVE OneLiveMain
    BY DEF GuardInv, PlanningIsGuarded
  <2>1. \A c, d \in LiveOfKind("main") : c = d
    BY DEF GuardInv, OneOccupies, Occupying, LiveOfKind, OfKind, Status
  <2>2. CASE LiveOfKind("main") = {}
    BY <2>2, FS_EmptySet DEF OneLiveMain
  <2>3. ASSUME NEW c \in LiveOfKind("main") PROVE OneLiveMain
    <3>1. LiveOfKind("main") = {c}
      BY <2>1, <2>3
    <3>2. QED
      BY <3>1, FS_Singleton DEF OneLiveMain
  <2>4. QED
    BY <2>2, <2>3
<1>2. QED
  BY <1>1, TypesHold, CallInvHolds, GuardInductive, PTL DEF Spec

(***************************************************************************)
(* The replies of reviews.  A reply is recorded with its operation once,   *)
(* by the call the operation points at, and that call is then only         *)
(* committed or fenced; a runner past the application, in its Finishing, either *)
(* applied its reply or released the operation to another synthesizer.     *)
(***************************************************************************)
Answers == {"completed", "committed", "superseded"}

Finishing == {"publishing", "closing", "marking"}

Unsettled(c) == calls[c].status \in Live \cup {"needs_attention"}

Recorded(c) ==
    c \in {ops[calls[c].owner].synthReply[1], ops[calls[c].owner].verifReply[1]}

Holds(r) == calls[r[1]].status \in Answers /\ calls[r[1]].result = r[2]

Linked(o) ==
    /\ ops[o].synth # NoCall =>
          calls[ops[o].synth].kind = "synthesizer" /\ calls[ops[o].synth].owner = o
    /\ ops[o].verif # NoCall =>
          calls[ops[o].verif].kind = "verifier" /\ calls[ops[o].verif].owner = o

SynthTaken(o) ==
    ops[o].synthReply[1] # NoCall =>
        /\ ops[o].synthReply[1] = ops[o].synth
        /\ Holds(ops[o].synthReply)
        /\ ops[o].state # "synthesizing"

(* A verdict in an operation still under verification is about to be       *)
(* published, by its runner or by the replay after a stop.                 *)
VerifTaken(o) ==
    ops[o].verifReply[1] # NoCall =>
        /\ ops[o].verifReply[1] = ops[o].verif
        /\ Holds(ops[o].verifReply)
        /\ ops[o].state = "verifying" =>
              /\ ops[o].verified
              /\ phase # "running" \/ runner[ops[o].verif].pc = "publishing"

Staged(o) ==
    /\ ops[o].verif # NoCall \/ ops[o].state = "verifying" =>
          o \in FactOps /\ ops[o].synthReply[1] # NoCall
    /\ ops[o].state = "received" => o \notin FactOps
    /\ ops[o].verified => ops[o].verifReply[1] # NoCall

OpOK(o) == Linked(o) /\ SynthTaken(o) /\ VerifTaken(o) /\ Staged(o)

Released(c) == calls[c].kind = "synthesizer" /\ ops[calls[c].owner].synth = NoCall

ReviewOK(c) ==
    IsReview(c) =>
        /\ calls[c].owner \in Ops
        /\ calls[c].kind = "verifier" => ops[calls[c].owner].verif = c
        /\ calls[c].kind = "synthesizer" /\ Unsettled(c) =>
              \/ ops[calls[c].owner].synth = c
              \/ Released(c) /\ (phase # "running" \/ runner[c].pc = "marking")
        /\ runner[c].pc \in Flying =>
              calls[c].status \in {"running", "completed"} /\ ~Recorded(c)
        /\ runner[c].pc \in Finishing => AppliedReply(c) \/ Released(c)
        /\ calls[c].status = "committed" =>
              AppliedReply(c) \/ Pointer(calls[c].owner, calls[c].kind) # c

OneSynth ==
    \A c, d \in Calls :
        /\ calls[c].kind = "synthesizer" /\ calls[d].kind = "synthesizer"
        /\ calls[c].owner = calls[d].owner /\ Unsettled(c) /\ Unsettled(d)
        => c = d

ReplyInv ==
    /\ \A o \in Ops : OpOK(o)
    /\ \A c \in Calls : ReviewOK(c)
    /\ OneSynth

(***************************************************************************)
(* Steps that leave the pointers and the recorded replies alone.           *)
(***************************************************************************)
OpKept(o) ==
    /\ ops'[o].synth = ops[o].synth /\ ops'[o].verif = ops[o].verif
    /\ ops'[o].synthReply = ops[o].synthReply
    /\ ops'[o].verifReply = ops[o].verifReply
    /\ ops'[o].verified = ops[o].verified
    /\ ops'[o].state = "synthesizing" =>
          ops[o].state = "synthesizing" \/ ops[o].synthReply[1] = NoCall
    /\ ops'[o].state = "verifying" =>
          \/ ops[o].state = "verifying"
          \/ ops[o].verif # NoCall /\ ops[o].verifReply[1] = NoCall
    /\ ops'[o].state = "received" => ops[o].state = "received"

Gentle(c) ==
    IsReview(c)' =>
        /\ calls'[c].kind = calls[c].kind /\ calls'[c].owner = calls[c].owner
        /\ Recorded(c) => /\ calls'[c].status \in Answers
                          /\ calls'[c].result = calls[c].result
        /\ Unsettled(c)' => Unsettled(c)
        /\ runner'[c].pc \in Flying =>
              calls'[c].status \in {"running", "completed"} /\ ~Recorded(c)
        /\ runner'[c].pc \in Finishing =>
              runner[c].pc \in Finishing \/ AppliedReply(c) \/ Released(c)
        /\ calls'[c].status = "committed" =>
              calls[c].status = "committed" \/ AppliedReply(c) \/ Released(c)
        /\ Released(c) /\ Unsettled(c)' =>
              phase' # "running" \/ runner'[c].pc = "marking"
        /\ calls[c].kind = "verifier" /\ Recorded(c)
              /\ ops'[calls[c].owner].state = "verifying" =>
              phase' # "running" \/ runner'[c].pc = "publishing"

(* Reviews keep their operation.                                           *)
LEMMA ReviewsStay ==
    ASSUME TypeOK, CallInv, Next, NEW c \in Calls, IsReview(c)
    PROVE  calls'[c].kind = calls[c].kind /\ calls'[c].owner = calls[c].owner
<1>1. calls[c] \in CallRecord /\ CallEffect(c) /\ calls[c].kind # "none"
  BY NextEffect DEF TypeOK, IsReview
<1>2. CASE Reduced(c)
  BY <1>1, <1>2, ZenonT(40) DEF Reduced, CallRecord, ReceiveResult, CommitResult,
     RecordTransportFailure, RejectInvalidResult, Fence, Cancel, CancelAndAdvance,
     AuthorizeRetry
<1>3. CASE Launched(c)
  BY <1>1, <1>3 DEF Launched, Launch, CallRecord
<1>4. CASE calls'[c] = ReconcileAfterStop(calls[c])
  BY <1>1, <1>4 DEF ReconcileAfterStop, CallRecord
<1>5. QED
  BY <1>1, <1>2, <1>3, <1>4 DEF CallEffect

(* What a recorded reply says of the call that gave it.                    *)
LEMMA RecordedFacts ==
    ASSUME TypeOK, ReplyInv, NEW c \in Calls, IsReview(c)
    PROVE  LET o == calls[c].owner IN
           /\ o \in Ops /\ ops[o] \in OpRecord /\ OpOK(o) /\ ReviewOK(c)
           /\ AppliedReply(c) => Recorded(c)
           /\ calls[c].kind = "synthesizer" =>
                 (Recorded(c) <=> ops[o].synthReply[1] = c)
           /\ calls[c].kind = "verifier" =>
                 (Recorded(c) <=> ops[o].verifReply[1] = c)
           /\ Recorded(c) => AppliedReply(c) /\ calls[c].status \in Answers
<1> DEFINE o == calls[c].owner
<1>1. o \in Ops /\ ops[o] \in OpRecord /\ OpOK(o) /\ ReviewOK(c) /\ c # NoCall
  BY ConstantsAssumption DEF ReplyInv, ReviewOK, TypeOK
<1>2. calls[c].kind = "synthesizer" => (Recorded(c) <=> ops[o].synthReply[1] = c)
  BY <1>1 DEF Recorded, OpOK, VerifTaken, Linked
<1>3. calls[c].kind = "verifier" => (Recorded(c) <=> ops[o].verifReply[1] = c)
  BY <1>1 DEF Recorded, OpOK, SynthTaken, Linked
<1>4. AppliedReply(c) => Recorded(c)
  BY DEF AppliedReply, Recorded, Reply
<1>5. ops[o].synthReply = <<ops[o].synthReply[1], ops[o].synthReply[2]>>
      /\ ops[o].verifReply = <<ops[o].verifReply[1], ops[o].verifReply[2]>>
  BY <1>1 DEF OpRecord, Replies
<1>6. Recorded(c) => AppliedReply(c) /\ calls[c].status \in Answers
  <2>1. ASSUME Recorded(c), calls[c].kind = "synthesizer"
        PROVE  AppliedReply(c) /\ calls[c].status \in Answers
    <3>1. ops[o].synthReply[1] = c
      BY <1>2, <2>1
    <3>2. Holds(ops[o].synthReply)
      BY <1>1, <3>1 DEF OpOK, SynthTaken
    <3>3. calls[c].status \in Answers /\ calls[c].result = ops[o].synthReply[2]
      BY <3>1, <3>2 DEF Holds
    <3>4. ops[o].synthReply = Reply(c)
      BY <1>5, <3>1, <3>3 DEF Reply
    <3>5. QED
      BY <2>1, <3>3, <3>4 DEF AppliedReply
  <2>2. ASSUME Recorded(c), calls[c].kind = "verifier"
        PROVE  AppliedReply(c) /\ calls[c].status \in Answers
    <3>1. ops[o].verifReply[1] = c
      BY <1>3, <2>2
    <3>2. Holds(ops[o].verifReply)
      BY <1>1, <3>1 DEF OpOK, VerifTaken
    <3>3. calls[c].status \in Answers /\ calls[c].result = ops[o].verifReply[2]
      BY <3>1, <3>2 DEF Holds
    <3>4. ops[o].verifReply = Reply(c)
      BY <1>5, <3>1, <3>3 DEF Reply
    <3>5. QED
      BY <2>2, <3>3, <3>4 DEF AppliedReply
  <2>3. QED
    BY <2>1, <2>2 DEF IsReview
<1>7. QED
  BY <1>1, <1>2, <1>3, <1>4, <1>6

(* Such a step keeps an operation sound if it is gentle to its calls,      *)
LEMMA KeptOp ==
    ASSUME TypeOK, CallInv, ReplyInv, Next, NEW o \in Ops, OpKept(o),
           \A c \in Calls : IsReview(c) /\ calls[c].owner = o => Gentle(c)
    PROVE  OpOK(o)'
<1>0. OpOK(o) /\ ops[o] \in OpRecord
  BY DEF ReplyInv, TypeOK
<1>1. ASSUME ops[o].synth # NoCall
      PROVE  /\ ops[o].synth \in Calls /\ IsReview(ops[o].synth) /\ Gentle(ops[o].synth)
             /\ calls'[ops[o].synth].kind = "synthesizer" /\ calls'[ops[o].synth].owner = o
             /\ calls[ops[o].synth].owner = o /\ calls[ops[o].synth].kind = "synthesizer"
  <2>1. /\ ops[o].synth \in Calls
        /\ calls[ops[o].synth].owner = o /\ calls[ops[o].synth].kind = "synthesizer"
    BY <1>0, <1>1 DEF OpRecord, OpOK, Linked
  <2>2. IsReview(ops[o].synth)
    BY <2>1 DEF IsReview
  <2>3. QED
    BY <2>1, <2>2, ReviewsStay
<1>2. ASSUME ops[o].verif # NoCall
      PROVE  /\ ops[o].verif \in Calls /\ IsReview(ops[o].verif) /\ Gentle(ops[o].verif)
             /\ calls'[ops[o].verif].kind = "verifier" /\ calls'[ops[o].verif].owner = o
             /\ calls[ops[o].verif].owner = o /\ calls[ops[o].verif].kind = "verifier"
  <2>1. /\ ops[o].verif \in Calls
        /\ calls[ops[o].verif].owner = o /\ calls[ops[o].verif].kind = "verifier"
    BY <1>0, <1>2 DEF OpRecord, OpOK, Linked
  <2>2. IsReview(ops[o].verif)
    BY <2>1 DEF IsReview
  <2>3. QED
    BY <2>1, <2>2, ReviewsStay
<1>3. Linked(o)'
  BY <1>1, <1>2 DEF Linked, OpKept
<1>4. SynthTaken(o)'
  <2> DEFINE c == ops[o].synth
  <2> SUFFICES ASSUME ops[o].synthReply[1] # NoCall
               PROVE  /\ ops'[o].synthReply[1] = ops'[o].synth
                      /\ Holds(ops[o].synthReply)'
                      /\ ops'[o].state # "synthesizing"
    BY DEF SynthTaken, OpKept
  <2>1. /\ ops[o].synthReply[1] = c /\ Holds(ops[o].synthReply)
        /\ ops[o].state # "synthesizing" /\ c # NoCall
    BY <1>0 DEF OpOK, SynthTaken
  <2>2. ops'[o].synthReply = ops[o].synthReply /\ ops'[o].synth = c
        /\ ops'[o].state # "synthesizing"
    BY <2>1 DEF OpKept
  <2>3. Recorded(c) /\ IsReview(c)'
    BY <1>1, <2>1, <2>2 DEF Recorded, IsReview
  <2>4. calls'[c].status \in Answers /\ calls'[c].result = calls[c].result
    BY <1>1, <2>1, <2>3 DEF Gentle
  <2>5. Holds(ops[o].synthReply)'
    BY <2>1, <2>2, <2>4 DEF Holds
  <2>6. QED
    BY <2>1, <2>2, <2>5
<1>5. VerifTaken(o)'
  <2> DEFINE c == ops[o].verif
  <2> SUFFICES ASSUME ops[o].verifReply[1] # NoCall
               PROVE  /\ ops'[o].verifReply[1] = ops'[o].verif
                      /\ Holds(ops[o].verifReply)'
                      /\ ops'[o].state = "verifying" =>
                            /\ ops'[o].verified
                            /\ phase' # "running" \/ runner'[ops'[o].verif].pc = "publishing"
    BY DEF VerifTaken, OpKept
  <2>1. /\ ops[o].verifReply[1] = c /\ Holds(ops[o].verifReply) /\ c # NoCall
        /\ ops[o].state = "verifying" => ops[o].verified
    BY <1>0 DEF OpOK, VerifTaken
  <2>2. /\ ops'[o].verifReply = ops[o].verifReply /\ ops'[o].verif = c
        /\ ops'[o].verified = ops[o].verified
        /\ ops'[o].state = "verifying" => ops[o].state = "verifying"
    BY <2>1 DEF OpKept
  <2>3. Recorded(c) /\ IsReview(c)'
    BY <1>2, <2>1, <2>2 DEF Recorded, IsReview
  <2>4. /\ calls'[c].status \in Answers /\ calls'[c].result = calls[c].result
        /\ ops'[o].state = "verifying" =>
              phase' # "running" \/ runner'[c].pc = "publishing"
    BY <1>2, <2>1, <2>3 DEF Gentle
  <2>5. Holds(ops[o].verifReply)'
    BY <2>1, <2>2, <2>4 DEF Holds
  <2>6. QED
    BY <2>1, <2>2, <2>4, <2>5
<1>6. Staged(o)'
  BY <1>0 DEF OpOK, Staged, OpKept
<1>7. QED
  BY <1>3, <1>4, <1>5, <1>6 DEF OpOK

(* a call if it is gentle to it,                                           *)
LEMMA GentleCall ==
    ASSUME TypeOK, ReplyInv, NEW c \in Calls, Gentle(c),
           IsReview(c) => OpKept(calls[c].owner)
    PROVE  ReviewOK(c)'
<1> SUFFICES ASSUME IsReview(c)' PROVE ReviewOK(c)'
  BY DEF ReviewOK
<1> DEFINE o == calls[c].owner
<1>1. IsReview(c) /\ calls'[c].kind = calls[c].kind /\ calls'[c].owner = o
  BY DEF Gentle, IsReview
<1>2. OpKept(o)
  BY <1>1
<1>3. /\ ReviewOK(c)
      /\ AppliedReply(c) => Recorded(c)
      /\ AppliedReply(c) => AppliedReply(c)'
  <2>1. AppliedReply(c) => Recorded(c)
    BY <1>1, RecordedFacts
  <2>2. AppliedReply(c) => AppliedReply(c)'
    BY <1>1, <1>2, <2>1 DEF AppliedReply, Reply, Gentle, OpKept
  <2>3. QED
    BY <2>1, <2>2 DEF ReplyInv
<1>4. /\ Released(c)' <=> Released(c)
      /\ Recorded(c)' <=> Recorded(c)
      /\ Pointer(calls[c].owner, calls[c].kind)' = Pointer(calls[c].owner, calls[c].kind)
  BY <1>1, <1>2 DEF Released, Recorded, OpKept, Pointer
<1>5. calls'[c].status = "committed" =>
         AppliedReply(c)' \/ Pointer(calls[c].owner, calls[c].kind)' # c
  BY <1>1, <1>3, <1>4, ConstantsAssumption DEF Gentle, ReviewOK, Released, Pointer
<1>6. runner'[c].pc \in Finishing => AppliedReply(c)' \/ Released(c)'
  BY <1>1, <1>3, <1>4 DEF Gentle, ReviewOK
<1>7. QED
  BY <1>1, <1>2, <1>3, <1>4, <1>5, <1>6 DEF Gentle, ReviewOK, OpKept

(* and everything if it is gentle to every call.                           *)
LEMMA GentleKeeps ==
    ASSUME TypeOK, CallInv, ReplyInv, Next, \A o \in Ops : OpKept(o),
           \A c \in Calls : Gentle(c)
    PROVE  ReplyInv'
<1>1. \A o \in Ops : OpOK(o)'
  BY KeptOp
<1>2. \A c \in Calls : ReviewOK(c)'
  BY GentleCall DEF ReplyInv, ReviewOK
<1>3. OneSynth'
  BY DEF ReplyInv, OneSynth, Gentle, IsReview
<1>4. QED
  BY <1>1, <1>2, <1>3 DEF ReplyInv

(* A call the step does not touch.                                         *)
Resting(c) ==
    /\ calls'[c] = calls[c]
    /\ \/ phase' # "running" /\ runner'[c].pc \in {runner[c].pc, "idle"}
       \/ phase = "running" /\ runner'[c] = runner[c]

LEMMA RestingIsGentle ==
    ASSUME TypeOK, ReplyInv, NEW c \in Calls, Resting(c),
           IsReview(c) => OpKept(calls[c].owner)
    PROVE  Gentle(c)
<1> SUFFICES ASSUME IsReview(c) PROVE Gentle(c)
  BY DEF Resting, Gentle, IsReview
<1> DEFINE o == calls[c].owner
<1>1. /\ o \in Ops /\ OpOK(o) /\ ReviewOK(c) /\ OpKept(o)
      /\ calls[c].kind = "verifier" => (Recorded(c) <=> ops[o].verifReply[1] = c)
      /\ Recorded(c) => AppliedReply(c) /\ calls[c].status \in Answers
  BY RecordedFacts
<1>2. /\ runner'[c].pc \in Flying => runner[c].pc \in Flying
      /\ runner'[c].pc \in Finishing => runner[c].pc \in Finishing
  BY DEF Resting, Flying, Finishing
<1>3. Released(c) /\ Unsettled(c)' => phase' # "running" \/ runner'[c].pc = "marking"
  BY <1>1, ConstantsAssumption DEF Resting, ReviewOK, Released, Unsettled
<1>4. calls[c].kind = "verifier" /\ Recorded(c) /\ ops'[o].state = "verifying" =>
         phase' # "running" \/ runner'[c].pc = "publishing"
  BY <1>1, ConstantsAssumption DEF Resting, OpOK, VerifTaken, OpKept
<1>5. QED
  BY <1>1, <1>2, <1>3, <1>4 DEF Gentle, ReviewOK, Resting, Unsettled

(* A call whose runner neither publishes nor marks: the last two parts of  *)
(* Gentle are about those.                                                 *)
LEMMA MovingIsGentle ==
    ASSUME TypeOK, ReplyInv, NEW c \in Calls, phase = "running",
           IsReview(c)' => IsReview(c),
           IsReview(c) => OpKept(calls[c].owner),
           runner[c].pc \notin {"marking", "publishing"},
           calls'[c].kind = calls[c].kind, calls'[c].owner = calls[c].owner,
           IsReview(c) /\ Recorded(c) => /\ calls'[c].status \in Answers
                                         /\ calls'[c].result = calls[c].result,
           Unsettled(c)' => Unsettled(c),
           IsReview(c) /\ runner'[c].pc \in Flying =>
              calls'[c].status \in {"running", "completed"} /\ ~Recorded(c),
           IsReview(c) /\ runner'[c].pc \in Finishing =>
              runner[c].pc \in Finishing \/ AppliedReply(c) \/ Released(c),
           IsReview(c) /\ calls'[c].status = "committed" =>
              calls[c].status = "committed" \/ AppliedReply(c) \/ Released(c)
    PROVE  Gentle(c)
<1> SUFFICES ASSUME IsReview(c) PROVE Gentle(c)
  BY DEF Gentle
<1> DEFINE o == calls[c].owner
<1>1. /\ o \in Ops /\ OpOK(o) /\ ReviewOK(c) /\ OpKept(o)
      /\ calls[c].kind = "verifier" => (Recorded(c) <=> ops[o].verifReply[1] = c)
  BY RecordedFacts
<1>2. ~(Released(c) /\ Unsettled(c))
  BY <1>1, ConstantsAssumption DEF ReviewOK, Released
<1>3. ~(calls[c].kind = "verifier" /\ Recorded(c) /\ ops'[o].state = "verifying")
  BY <1>1, ConstantsAssumption DEF OpOK, VerifTaken, OpKept
<1>4. QED
  BY <1>2, <1>3 DEF Gentle

(* A step of one runner in which nothing else moves.                       *)
LEMMA OneRunner ==
    ASSUME TypeOK, CallInv, ReplyInv, Next, NEW c \in Calls, Gentle(c),
           \A o \in Ops : OpKept(o), phase = "running",
           \A d \in Calls \ {c} : calls'[d] = calls[d] /\ runner'[d] = runner[d]
    PROVE  ReplyInv'
<1>1. \A d \in Calls \ {c} : Gentle(d)
  BY RestingIsGentle DEF Resting, ReplyInv, ReviewOK
<1>2. QED
  BY <1>1, GentleKeeps

(* A step in which no call moves at all, the abort of a run among them.    *)
LEMMA NobodyMoves ==
    ASSUME TypeOK, CallInv, ReplyInv, Next, \A o \in Ops : OpKept(o),
           \A d \in Calls : Resting(d)
    PROVE  ReplyInv'
<1>1. \A d \in Calls : Gentle(d)
  BY RestingIsGentle DEF ReplyInv, ReviewOK
<1>2. QED
  BY <1>1, GentleKeeps

(* An operation that is decided, or waits for the operator.                *)
LEMMA OpsKept ==
    ASSUME TypeOK
    PROVE  /\ UNCHANGED ops => \A o \in Ops : OpKept(o)
           /\ \A s \in {"committed", "rejected", "needs_attention", "abandoned"} : \A q :
                 ops' = [ops EXCEPT ![q].state = s] => \A o \in Ops : OpKept(o)
           /\ \A c, k : AfterFailure(c, k) => \A o \in Ops : OpKept(o)
           /\ \A q : Published(q) => \A o \in Ops : OpKept(o)
<1>1. UNCHANGED ops => \A o \in Ops : OpKept(o)
  BY DEF OpKept
<1>2. ASSUME NEW s \in {"committed", "rejected", "needs_attention", "abandoned"}, NEW q,
             ops' = [ops EXCEPT ![q].state = s]
      PROVE  \A o \in Ops : OpKept(o)
  BY <1>2 DEF OpKept, TypeOK, OpRecord
<1>3. ASSUME NEW c, NEW k, AfterFailure(c, k) PROVE \A o \in Ops : OpKept(o)
  BY <1>1, <1>2, <1>3 DEF AfterFailure, Exhaust
<1>4. ASSUME NEW q, Published(q) PROVE \A o \in Ops : OpKept(o)
  BY <1>2, <1>4 DEF Published
<1>5. QED
  BY <1>1, <1>2, <1>3, <1>4

(* A runner moves nothing but its call, its place and, if it is an         *)
(* Explorer's, the attempts it cancels; no step of it makes a review.      *)
LEMMA RunnerFrame ==
    ASSUME TypeOK, GuardInv, NEW c \in Calls, RunnerStep(c), ~RunAborts
    PROVE  /\ phase = "running" /\ UNCHANGED phase
           /\ \A d \in Calls \ {c} : runner'[d] = runner[d]
           /\ \A d \in Calls : calls'[d].kind = calls[d].kind
           /\ calls[c].kind # "explorer" => \A d \in Calls \ {c} : calls'[d] = calls[d]
<1>1. runner[c].pc # "idle" /\ UNCHANGED phase
  BY DEF RunnerStep, LaunchCall, LaunchRefused, AcceptReply, AgentFails, ReadStatus,
     RecordFailure, FailureRefused, CommitMain, CommitExplorer, ApplySynthesis,
     ApplyCorrect, ApplyIncorrect, ApplyAgain, RejectReply, Publish, CloseTask,
     MarkCommitted
<1>2. phase = "running"
  BY <1>1 DEF GuardInv, StoppedOK
<1>3. \A pc : Goto(c, pc) => \A d \in Calls \ {c} : runner'[d] = runner[d]
  BY DEF Goto, TypeOK
<1>4. Return(c) => \A d \in Calls \ {c} : runner'[d] = runner[d]
  BY DEF Return, TypeOK
<1>5. \A k : AfterFailure(c, k) => \A d \in Calls \ {c} : runner'[d] = runner[d]
  BY <1>3, <1>4 DEF AfterFailure
<1>6. \A d \in Calls \ {c} : runner'[d] = runner[d]
  <2>1. CASE LaunchCall(c)
    BY <2>1 DEF LaunchCall, TypeOK
  <2>2. CASE ~LaunchCall(c)
    BY <1>3, <1>4, <1>5, <2>2 DEF RunnerStep, LaunchRefused, AcceptReply, AgentFails,
       ReadStatus, RecordFailure, FailureRefused, CommitMain, CommitExplorer,
       ApplySynthesis, ApplyCorrect, ApplyIncorrect, ApplyAgain, RejectReply, Publish,
       CloseTask, MarkCommitted
  <2>3. QED
    BY <2>1, <2>2
<1>7. \A d \in Calls : calls[d] \in CallRecord
  BY DEF TypeOK
<1>8. \/ UNCHANGED calls
      \/ \E k : SetCall(c, k) /\ k.kind = calls[c].kind
      \/ CommitExplorer(c)
  <2> DEFINE Like(k) == k.kind = calls[c].kind
  <2>1. /\ Like(calls[c]) /\ Like(Launch(calls[c])) /\ Like(CommitResult(calls[c]))
        /\ Like(RecordTransportFailure(calls[c])) /\ Like(RejectInvalidResult(calls[c]))
        /\ \A n : Like(ReceiveResult(calls[c], n))
    BY <1>7, ReducerKinds
  <2> HIDE DEF Like
  <2>2. ASSUME NEW k, AfterFailure(c, k), Like(k) PROVE \E j : SetCall(c, j) /\ Like(j)
    BY <2>2 DEF AfterFailure
  <2>3. CASE RecordFailure(c) \/ RejectReply(c) \/ CommitMain(c)
    <3>1. UNCHANGED calls \/ \E j : SetCall(c, j) /\ Like(j)
      BY <2>1, <2>2, <2>3 DEF RecordFailure, RejectReply, CommitMain
    <3>2. QED
      BY <3>1 DEF Like
  <2>4. CASE Publish(c)
    <3>1. SetCall(c, calls[c]) \/ SetCall(c, CommitResult(calls[c]))
      BY <2>4 DEF Publish
    <3>2. QED
      BY <2>1, <3>1 DEF Like
  <2>5. CASE LaunchCall(c) \/ AcceptReply(c) \/ ApplyIncorrect(c) \/ MarkCommitted(c)
    <3>1. UNCHANGED calls \/ \E j : SetCall(c, j) /\ Like(j)
      BY <2>1, <2>5 DEF LaunchCall, AcceptReply, ApplyIncorrect, MarkCommitted
    <3>2. QED
      BY <3>1 DEF Like
  <2>6. CASE \/ LaunchRefused(c) \/ AgentFails(c) \/ ReadStatus(c) \/ FailureRefused(c)
             \/ ApplySynthesis(c) \/ ApplyCorrect(c) \/ ApplyAgain(c) \/ CloseTask(c)
    BY <2>6 DEF LaunchRefused, AgentFails, ReadStatus, FailureRefused, ApplySynthesis,
       ApplyCorrect, ApplyAgain, CloseTask
  <2>7. QED
    BY <2>3, <2>4, <2>5, <2>6 DEF RunnerStep
<1>9. \A d \in Calls : calls'[d].kind = calls[d].kind
  <2>1. CASE CommitExplorer(c)
    BY <1>7, <2>1, ReducerKinds DEF CommitExplorer
  <2>2. CASE ~CommitExplorer(c)
    BY <1>8, <2>2 DEF SetCall, TypeOK
  <2>3. QED
    BY <2>1, <2>2
<1>10. calls[c].kind # "explorer" => \A d \in Calls \ {c} : calls'[d] = calls[d]
  BY <1>8 DEF SetCall, TypeOK, CommitExplorer
<1>11. QED
  BY <1>1, <1>2, <1>6, <1>9, <1>10

(* Every call rests when a run is aborted.                                 *)
LEMMA AbortKeepsReplies ==
    ASSUME TypeOK, CallInv, ReplyInv, Next, RunAborts, UNCHANGED <<calls, ops>>
    PROVE  ReplyInv'
<1>1. \A d \in Calls : Resting(d)
  BY DEF RunAborts, Resting, Idle
<1>2. QED
  BY <1>1, OpsKept, NobodyMoves

(* A runner that records no reply keeps those recorded, action by action   *)
(* for a review; the others touch no review at all.                        *)
LEMMA RunnerKeepsReplies ==
    ASSUME TypeOK, CallInv, GuardInv, ReplyInv, Next, NEW c \in Calls, RunnerStep(c),
           ~ApplySynthesis(c), ~ApplyCorrect(c), ~ApplyIncorrect(c)
    PROVE  ReplyInv'
<1> DEFINE k == calls[c]
<1>1. CASE RunAborts
  <2>1. UNCHANGED <<calls, ops>>
    <3>1. phase' = "down" /\ runner[c].pc # "idle"
      BY <1>1 DEF RunAborts, RunnerStep, LaunchCall, LaunchRefused, AcceptReply, AgentFails,
         ReadStatus, RecordFailure, FailureRefused, CommitMain, CommitExplorer,
         ApplySynthesis, ApplyCorrect, ApplyIncorrect, ApplyAgain, RejectReply, Publish,
         CloseTask, MarkCommitted
    <3>2. phase = "running"
      BY <3>1 DEF GuardInv, StoppedOK
    <3>3. ~UNCHANGED phase
      BY <3>1, <3>2
    <3>4. QED
      BY <3>3 DEF RunnerStep, LaunchCall, LaunchRefused, AcceptReply, AgentFails,
         ReadStatus, RecordFailure, FailureRefused, CommitMain, CommitExplorer,
         ApplyAgain, RejectReply, Publish, CloseTask, MarkCommitted
  <2>2. QED
    BY <1>1, <2>1, AbortKeepsReplies
<1>2. CASE ~RunAborts
  <2>0. /\ phase = "running" /\ UNCHANGED phase
        /\ \A d \in Calls \ {c} : runner'[d] = runner[d]
        /\ \A d \in Calls : calls'[d].kind = calls[d].kind
        /\ k.kind # "explorer" => \A d \in Calls \ {c} : calls'[d] = calls[d]
        /\ k \in CallRecord /\ runner[c] \in RunnerRecord
    BY <1>2, RunnerFrame DEF TypeOK
  <2>1. \A o \in Ops : OpKept(o)
    BY OpsKept DEF RunnerStep, LaunchCall, LaunchRefused, AcceptReply, AgentFails,
       ReadStatus, RecordFailure, FailureRefused, CommitMain, CommitExplorer, ApplyAgain,
       RejectReply, Publish, CloseTask, MarkCommitted
  <2>2. CASE ~IsReview(c)
    <3>1. Gentle(c)
      BY <2>0, <2>2 DEF Gentle, IsReview
    <3>2. CASE k.kind # "explorer"
      BY <2>0, <2>1, <3>1, <3>2, OneRunner
    <3>3. CASE k.kind = "explorer"
      <4>1. ASSUME NEW d \in Calls, IsReview(d) PROVE Resting(d)
        <5>1. d # c /\ calls[d].kind # "explorer"
          BY <2>2, <4>1 DEF IsReview
        <5>2. calls'[d] = calls[d]
          <6>1. UNCHANGED calls \/ (\E kk : SetCall(c, kk)) \/ CommitExplorer(c)
            BY DEF RunnerStep, LaunchCall, LaunchRefused, AcceptReply, AgentFails,
               ReadStatus, RecordFailure, FailureRefused, CommitMain, AfterFailure,
               ApplyAgain, RejectReply, Publish, CloseTask, MarkCommitted
          <6>2. CASE CommitExplorer(c)
            BY <5>1, <6>2 DEF CommitExplorer, GuardInv, ExploringOK
          <6>3. QED
            BY <5>1, <6>1, <6>2 DEF SetCall, TypeOK
        <5>3. QED
          BY <2>0, <5>1, <5>2 DEF Resting
      <4>2. \A d \in Calls : Gentle(d)
        <5> SUFFICES ASSUME NEW d \in Calls PROVE Gentle(d)
          OBVIOUS
        <5>1. CASE IsReview(d)
          BY <2>1, <4>1, <5>1, RestingIsGentle DEF ReplyInv, ReviewOK
        <5>2. CASE ~IsReview(d)
          BY <2>0, <5>2 DEF Gentle, IsReview
        <5>3. QED
          BY <5>1, <5>2
      <4>3. QED
        BY <2>1, <4>2, GentleKeeps
    <3>4. QED
      BY <3>2, <3>3
  <2>3. CASE IsReview(c)
    <3> DEFINE o == k.owner
    <3>0. /\ o \in Ops /\ OpOK(o) /\ ReviewOK(c) /\ OpKept(o)
          /\ k.kind = "synthesizer" => (Recorded(c) <=> ops[o].synthReply[1] = c)
          /\ k.kind = "verifier" => (Recorded(c) <=> ops[o].verifReply[1] = c)
          /\ Recorded(c) => AppliedReply(c) /\ k.status \in Answers
      BY <2>1, <2>3, RecordedFacts
    <3>1. calls'[c].kind = k.kind /\ calls'[c].owner = o /\ k.kind \notin {"main", "explorer"}
      BY <2>3, ReviewsStay DEF IsReview
    <3> SUFFICES Gentle(c)
      BY <2>0, <2>1, <3>1, OneRunner
    <3>2. ASSUME UNCHANGED calls, runner[c].pc \notin {"marking", "publishing"},
                 runner'[c].pc \in Flying => runner[c].pc \in Flying,
                 runner'[c].pc \in Finishing => runner[c].pc \in Finishing \/ AppliedReply(c)
          PROVE  Gentle(c)
      <4>1. Recorded(c) => calls'[c].status \in Answers /\ calls'[c].result = k.result
        BY <3>0, <3>2
      <4>2. Unsettled(c)' => Unsettled(c)
        BY <3>2 DEF Unsettled
      <4>3. runner'[c].pc \in Flying =>
               calls'[c].status \in {"running", "completed"} /\ ~Recorded(c)
        BY <2>3, <3>0, <3>2 DEF ReviewOK
      <4>4. calls'[c].status = "committed" => k.status = "committed"
        BY <3>2
      <4>5. QED
        BY <2>0, <2>3, <3>0, <3>1, <3>2, <4>1, <4>2, <4>3, <4>4, MovingIsGentle
    <3>3. CASE LaunchCall(c)
      <4>1. /\ calls'[c] = Launch(k) /\ runner'[c].pc = "invoking" /\ CanLaunch(k)
            /\ runner[c].pc = "launching"
        BY <3>3 DEF LaunchCall, SetCall, TypeOK
      <4>2. calls'[c].status = "running" /\ ~Recorded(c)
        BY <2>0, <3>0, <4>1 DEF Launch, CanLaunch, Answers, CallRecord
      <4>3. Unsettled(c)
        BY <4>1 DEF CanLaunch, Unsettled, Live
      <4>4. QED
        BY <2>0, <2>3, <3>0, <3>1, <4>1, <4>2, <4>3, MovingIsGentle DEF Finishing
    <3>4. CASE LaunchRefused(c) \/ AgentFails(c) \/ ReadStatus(c)
      <4>1. /\ UNCHANGED calls
            /\ runner[c].pc \in {"launching"} \cup Flying
            /\ runner'[c].pc \in Flying => runner[c].pc \in Flying
            /\ runner'[c].pc \notin Finishing
        BY <1>2, <2>0, <3>4 DEF LaunchRefused, AgentFails, ReadStatus, Goto, Return, Idle,
           Flying, Finishing, TypeOK, RunnerRecord
      <4>2. QED
        BY <3>2, <4>1 DEF Flying
    <3>5. CASE AcceptReply(c)
      <4>0. runner[c].pc = "invoking" /\ runner[c].pc \in Flying
        BY <3>5 DEF AcceptReply, Flying
      <4>1. CASE UNCHANGED calls
        <5>1. runner'[c].pc \notin Finishing
          BY <3>5 DEF AcceptReply, Goto, Finishing, TypeOK, RunnerRecord
        <5>2. QED
          BY <3>2, <4>0, <4>1, <5>1
      <4>2. CASE SetCall(c, ReceiveResult(k, runner[c].launch)) /\ Goto(c, "returned")
        <5>1. calls'[c] = ReceiveResult(k, runner[c].launch) /\ runner'[c].pc = "returned"
          BY <4>2 DEF SetCall, Goto, TypeOK, RunnerRecord
        <5>2. k.status \in {"running", "completed"} /\ ~Recorded(c)
          BY <2>3, <3>0, <4>0 DEF ReviewOK
        <5>3. calls'[c].status = "completed" /\ Unsettled(c)
          BY <2>0, <5>1, <5>2 DEF ReceiveResult, Unsettled, Live, CallRecord
        <5>4. QED
          BY <2>0, <2>3, <3>0, <3>1, <4>0, <5>1, <5>2, <5>3, MovingIsGentle DEF Finishing, Flying
      <4>3. QED
        BY <3>5, <4>1, <4>2 DEF AcceptReply
    <3>6. ASSUME NEW kk, AfterFailure(c, kk), kk.status \in {"retry_pending", "needs_attention"},
                 runner[c].pc \in {"recording", "returned"},
                 k.status \in {"running", "completed"}, ~Recorded(c)
          PROVE  Gentle(c)
      <4>1. calls'[c] = kk /\ runner'[c].pc \notin Flying \cup Finishing
        BY <3>6 DEF AfterFailure, SetCall, Goto, Return, Idle, Flying, Finishing, TypeOK, RunnerRecord
      <4>2. calls'[c].status # "committed" /\ Unsettled(c)
        BY <3>6, <4>1 DEF Unsettled, Live
      <4>3. QED
        BY <2>0, <2>3, <3>0, <3>1, <3>6, <4>1, <4>2, MovingIsGentle
    <3>7. CASE RecordFailure(c)
      BY <2>0, <2>3, <3>0, <3>6, <3>7, ReducerKinds DEF RecordFailure, ReviewOK, Flying
    <3>8. CASE RejectReply(c)
      <4>1. /\ runner[c].pc = "returned" /\ k.status = "completed"
            /\ Awaited(c) \/ ~AppliedReply(c)
            /\ AfterFailure(c, RejectInvalidResult(k))
        BY <3>8 DEF RejectReply, CanReject
      <4>2. ASSUME Recorded(c) PROVE FALSE
        <5>1. ops[o].state = Reviewing(k.kind)
          BY <3>0, <4>1, <4>2 DEF Awaited
        <5>2. CASE k.kind = "synthesizer"
          BY <3>0, <4>2, <5>1, <5>2, ConstantsAssumption DEF OpOK, SynthTaken, Reviewing
        <5>3. CASE k.kind = "verifier"
          <6>1. ops[o].verif = c /\ ops[o].verifReply[1] = c /\ ops[o].state = "verifying"
            BY <2>3, <3>0, <4>2, <5>1, <5>3 DEF ReviewOK, Reviewing
          <6>2. QED
            BY <2>0, <3>0, <4>1, <6>1, ConstantsAssumption DEF OpOK, VerifTaken
        <5>4. QED
          BY <2>3, <5>2, <5>3 DEF IsReview
      <4>3. QED
        BY <2>0, <3>6, <4>1, <4>2, ReducerKinds
    <3>9. CASE ApplyAgain(c)
      <4>1. /\ UNCHANGED calls /\ runner[c].pc = "returned" /\ AppliedReply(c)
            /\ runner'[c].pc = "marking"
        BY <3>9 DEF ApplyAgain, Goto, TypeOK, RunnerRecord
      <4>2. QED
        BY <3>2, <4>1 DEF Flying
    <3>10. CASE CloseTask(c)
      <4>1. /\ UNCHANGED calls /\ runner[c].pc = "closing" /\ runner'[c].pc = "marking"
        BY <3>10 DEF CloseTask, Goto, TypeOK, RunnerRecord
      <4>2. QED
        BY <3>2, <4>1 DEF Flying, Finishing
    <3>11. CASE Publish(c)
      <4>1. /\ runner[c].pc = "publishing" /\ runner'[c].pc \in {"marking", "closing"}
            /\ \/ calls'[c] = k
               \/ CanReject(k) /\ calls'[c] = CommitResult(k)
            /\ ops'[o].state \in {"committed", "rejected", "needs_attention"}
        <5>1. runner[c].pc = "publishing" /\ runner'[c].pc \in {"marking", "closing"}
          BY <3>11 DEF Publish, Goto, TypeOK, RunnerRecord
        <5>2. \/ calls'[c] = k
              \/ CanReject(k) /\ calls'[c] = CommitResult(k)
          <6>1. PICK kk : /\ calls' = [calls EXCEPT ![c] = kk]
                          /\ kk = k \/ (CanReject(k) /\ kk = CommitResult(k))
            BY <3>11 DEF Publish, SetCall
          <6>2. calls'[c] = kk
            BY <6>1 DEF TypeOK
          <6>3. QED
            BY <6>1, <6>2
        <5>3. Published(o)
          BY <3>11 DEF Publish
        <5>4. ops'[o].state \in {"committed", "rejected", "needs_attention"}
          BY <3>0, <5>3 DEF Published, TypeOK, OpRecord
        <5>5. QED
          BY <5>1, <5>2, <5>4
      <4>2. /\ AppliedReply(c) \/ Released(c)
            /\ runner[c].pc \in Finishing /\ runner'[c].pc \notin Flying
        BY <2>3, <3>0, <4>1 DEF ReviewOK, Finishing, Flying
      <4>3. /\ calls'[c].result = k.result
            /\ \/ calls'[c].status = k.status
               \/ k.status = "completed" /\ calls'[c].status = "committed"
        BY <2>0, <4>1 DEF CommitResult, CanReject, CallRecord
      <4>4. ~(Released(c) /\ Unsettled(c))
        BY <2>0, <2>3, <3>0, <4>1, ConstantsAssumption DEF ReviewOK, Released
      <4>5. Unsettled(c)' => Unsettled(c)
        BY <4>3 DEF Unsettled, Live
      <4>6. QED
        BY <3>0, <3>1, <4>1, <4>2, <4>3, <4>4, <4>5 DEF Gentle, Answers
    <3>12. CASE MarkCommitted(c)
      <4>1. /\ runner[c].pc = "marking" /\ runner'[c].pc = "idle"
            /\ calls'[c] = CommitResult(k)
        BY <3>12 DEF MarkCommitted, Return, Idle, SetCall, TypeOK
      <4>2. calls'[c].status = "committed" /\ calls'[c].result = k.result
        BY <2>0, <4>1 DEF CommitResult, CallRecord
      <4>3. AppliedReply(c) \/ Released(c)
        BY <2>3, <3>0, <4>1 DEF ReviewOK, Finishing
      <4>4. ~Unsettled(c)'
        BY <4>2 DEF Unsettled, Live
      <4>5. ~(k.kind = "verifier" /\ Recorded(c) /\ ops'[o].state = "verifying")
        BY <2>0, <3>0, <4>1, ConstantsAssumption DEF OpOK, VerifTaken, OpKept
      <4>6. QED
        BY <3>0, <3>1, <4>1, <4>2, <4>3, <4>4, <4>5 DEF Gentle, Answers, Flying, Finishing
    <3>13. ~FailureRefused(c) /\ ~CommitMain(c) /\ ~CommitExplorer(c)
      BY <1>2, <3>1 DEF FailureRefused, CommitMain, CommitExplorer
    <3>14. QED
      BY <3>3, <3>4, <3>5, <3>7, <3>8, <3>9, <3>10, <3>11, <3>12, <3>13 DEF RunnerStep
  <2>4. QED
    BY <2>2, <2>3
<1>3. QED
  BY <1>1, <1>2

(* What holds of the operation whose reply is applied: it took none yet.   *)
LEMMA AwaitedFacts ==
    ASSUME TypeOK, GuardInv, ReplyInv, NEW c \in Calls, IsReview(c), Awaited(c),
           runner[c].pc = "returned"
    PROVE  LET o == calls[c].owner IN
           /\ o \in Ops /\ phase = "running"
           /\ calls[c].status = "completed"
           /\ calls[c].kind = "synthesizer" =>
                 /\ ops[o].state = "synthesizing" /\ ops[o].synth = c
                 /\ ops[o].synthReply[1] = NoCall
                 /\ ops[o].verif = NoCall /\ ops[o].verifReply[1] = NoCall
                 /\ ~ops[o].verified
           /\ calls[c].kind = "verifier" =>
                 /\ ops[o].state = "verifying" /\ ops[o].verif = c
                 /\ ops[o].verifReply[1] = NoCall
<1> DEFINE o == calls[c].owner
<1>1. /\ o \in Ops /\ OpOK(o) /\ ReviewOK(c) /\ ops[o] \in OpRecord
      /\ calls[c].status = "completed" /\ ops[o].state = Reviewing(calls[c].kind)
  BY RecordedFacts DEF Awaited, Status
<1>2. phase = "running"
  BY DEF GuardInv, StoppedOK
<1>3. CASE calls[c].kind = "synthesizer"
  <2>1. ops[o].state = "synthesizing" /\ ops[o].synthReply[1] = NoCall
    BY <1>1, <1>3 DEF Reviewing, OpOK, SynthTaken
  <2>2. ops[o].synth = c
    BY <1>1, <1>2, <1>3 DEF ReviewOK, Unsettled, Live
  <2>3. ops[o].verif = NoCall
    BY <1>1, <2>1 DEF OpOK, Staged
  <2>4. ops[o].verifReply[1] = NoCall
    BY <1>1, <2>3 DEF OpOK, VerifTaken
  <2>5. ~ops[o].verified
    BY <1>1, <2>4 DEF OpOK, Staged
  <2>6. QED
    BY <1>1, <1>2, <1>3, <2>1, <2>2, <2>3, <2>4, <2>5
<1>4. CASE calls[c].kind = "verifier"
  <2>1. ops[o].state = "verifying" /\ ops[o].verif = c
    BY <1>1, <1>4 DEF Reviewing, ReviewOK
  <2>2. ops[o].verifReply[1] = NoCall
    BY <1>1, <1>2, <2>1 DEF OpOK, VerifTaken
  <2>3. QED
    BY <1>1, <1>2, <1>4, <2>1, <2>2
<1>5. QED
  BY <1>3, <1>4 DEF IsReview

(* A step about one operation leaves the others and their reviews alone.   *)
LEMMA Elsewhere ==
    ASSUME TypeOK, CallInv, ReplyInv, Next, phase = "running", NEW o \in Ops,
           \A p \in Ops \ {o} : ops'[p] = ops[p],
           \A d \in Calls : IsReview(d)' => IsReview(d),
           \A d \in Calls : IsReview(d) /\ calls[d].owner # o =>
               calls'[d] = calls[d] /\ runner'[d] = runner[d]
    PROVE  /\ \A p \in Ops \ {o} : OpOK(p)'
           /\ \A d \in Calls : ~IsReview(d) \/ calls[d].owner # o => ReviewOK(d)'
<1>1. \A p \in Ops \ {o} : OpKept(p)
  BY DEF OpKept
<1>2. \A d \in Calls : IsReview(d) => calls[d].owner \in Ops
  BY RecordedFacts
<1>3. \A d \in Calls : IsReview(d) /\ calls[d].owner # o => Gentle(d)
  BY <1>1, <1>2, RestingIsGentle DEF Resting
<1>4. \A p \in Ops \ {o} : OpOK(p)'
  BY <1>1, <1>3, KeptOp
<1>5. ASSUME NEW d \in Calls, ~IsReview(d) \/ calls[d].owner # o PROVE ReviewOK(d)'
  <2>1. CASE IsReview(d)
    BY <1>1, <1>2, <1>3, <1>5, <2>1, GentleCall
  <2>2. CASE ~IsReview(d)
    BY <2>2 DEF ReviewOK
  <2>3. QED
    BY <2>1, <2>2
<1>6. QED
  BY <1>4, <1>5

(* A synthesizer's reply: taken, or dropped with its call released.        *)
LEMMA SynthesisKeepsReplies ==
    ASSUME TypeOK, CallInv, GuardInv, ReplyInv, Next, NEW c \in Calls, ApplySynthesis(c)
    PROVE  ReplyInv'
<1> DEFINE o == calls[c].owner
<1>1. /\ runner[c].pc = "returned" /\ calls[c].kind = "synthesizer" /\ Awaited(c)
      /\ UNCHANGED <<calls, phase>> /\ IsReview(c)
  BY DEF ApplySynthesis, IsReview
<1>2. /\ o \in Ops /\ phase = "running" /\ calls[c].status = "completed"
      /\ ops[o].state = "synthesizing" /\ ops[o].synth = c
      /\ ops[o].synthReply[1] = NoCall
      /\ ops[o].verif = NoCall /\ ops[o].verifReply[1] = NoCall
      /\ ~ops[o].verified /\ ops[o] \in OpRecord /\ OpOK(o) /\ c # NoCall
  BY <1>1, AwaitedFacts, ConstantsAssumption DEF TypeOK, ReplyInv
<1>3. /\ \A d \in Calls \ {c} : runner'[d] = runner[d]
      /\ runner'[c].pc \in Finishing /\ runner'[c].pc # "idle"
      /\ ops'[o].synth = NoCall => runner'[c].pc = "marking"
  <2>1. \A pc : Goto(c, pc) => runner'[c].pc = pc /\ \A d \in Calls \ {c} : runner'[d] = runner[d]
    BY DEF Goto, TypeOK, RunnerRecord
  <2>2. \/ Goto(c, "marking")
        \/ /\ Goto(c, "closing") \/ Goto(c, "publishing")
           /\ \E s : ops' = [ops EXCEPT ![o] = [[ops[o] EXCEPT !.synthReply = Reply(c)]
                                                  EXCEPT !.state = s]]
    BY DEF ApplySynthesis
  <2>3. ASSUME NEW s, ops' = [ops EXCEPT ![o] = [[ops[o] EXCEPT !.synthReply = Reply(c)]
                                                   EXCEPT !.state = s]]
        PROVE  ops'[o].synth # NoCall
    BY <1>2, <2>3 DEF TypeOK, OpRecord
  <2>4. CASE Goto(c, "marking")
    BY <2>1, <2>4 DEF Finishing
  <2>5. CASE Goto(c, "closing") \/ Goto(c, "publishing")
    <3>1. ops'[o].synth # NoCall
      <4>1. ~Goto(c, "marking")
        BY <2>1, <2>5
      <4>2. QED
        BY <2>2, <2>3, <4>1
    <3>2. runner'[c].pc \in {"closing", "publishing"}
          /\ \A d \in Calls \ {c} : runner'[d] = runner[d]
      BY <2>1, <2>5
    <3>3. QED
      BY <3>1, <3>2 DEF Finishing
  <2>6. QED
    BY <2>2, <2>4, <2>5
<1>4. /\ ops'[o].verif = NoCall /\ ops'[o].verifReply = ops[o].verifReply
      /\ ~ops'[o].verified
      /\ \/ /\ ops'[o].synth = NoCall /\ ops'[o].synthReply = ops[o].synthReply
            /\ ops'[o].state = "synthesizing"
         \/ /\ ops'[o].synth = c /\ ops'[o].synthReply = Reply(c)
            /\ \/ ops'[o].state = "committed"
               \/ ops'[o].state = "verifying" /\ o \in FactOps
               \/ ops'[o].state = "received" /\ o \notin FactOps
  <2>1. CASE ops' = [ops EXCEPT ![o].synth = NoCall]
    BY <1>2, <2>1 DEF TypeOK, OpRecord
  <2>2. ASSUME NEW s, ops' = [ops EXCEPT ![o] = [[ops[o] EXCEPT !.synthReply = Reply(c)]
                                                   EXCEPT !.state = s]]
        PROVE  /\ ops'[o].verif = NoCall /\ ops'[o].verifReply = ops[o].verifReply
               /\ ~ops'[o].verified
               /\ ops'[o].synth = c /\ ops'[o].synthReply = Reply(c) /\ ops'[o].state = s
    <3>1. ops'[o] = [[ops[o] EXCEPT !.synthReply = Reply(c)] EXCEPT !.state = s]
      BY <1>2, <2>2 DEF TypeOK
    <3>2. QED
      BY <1>2, <3>1 DEF OpRecord
  <2>3. \/ ops' = [ops EXCEPT ![o].synth = NoCall]
        \/ \E s : /\ ops' = [ops EXCEPT ![o] = [[ops[o] EXCEPT !.synthReply = Reply(c)]
                                                  EXCEPT !.state = s]]
                  /\ \/ s = "committed"
                     \/ s = "verifying" /\ o \in FactOps
                     \/ s = "received" /\ o \notin FactOps
    BY DEF ApplySynthesis
  <2>4. QED
    BY <2>1, <2>2, <2>3
<1>5. \A p \in Ops \ {o} : ops'[p] = ops[p]
  BY DEF ApplySynthesis, TypeOK
<1>6. /\ \A p \in Ops \ {o} : OpOK(p)'
      /\ \A d \in Calls : ~IsReview(d) \/ calls[d].owner # o => ReviewOK(d)'
  BY <1>1, <1>2, <1>3, <1>5, Elsewhere DEF IsReview
<1>7. OpOK(o)'
  <2>1. Linked(o)'
    BY <1>1, <1>2, <1>4 DEF Linked
  <2>2. SynthTaken(o)'
    <3>1. CASE ops'[o].synthReply = ops[o].synthReply
      BY <1>1, <1>2, <3>1 DEF SynthTaken
    <3>2. CASE ops'[o].synth = c /\ ops'[o].synthReply = Reply(c)
      <4>1. ops'[o].state # "synthesizing"
        BY <1>4, <3>2, <1>2
      <4>2. ops'[o].synthReply[1] = c /\ ops'[o].synthReply[2] = calls[c].result
        BY <3>2 DEF Reply
      <4>3. Holds(ops[o].synthReply)'
        BY <1>1, <1>2, <4>2 DEF Holds, Answers
      <4>4. QED
        BY <1>1, <3>2, <4>1, <4>2, <4>3 DEF SynthTaken
    <3>3. QED
      BY <1>4, <3>1, <3>2
  <2>3. VerifTaken(o)'
    <3>1. ops'[o].verifReply[1] = NoCall
      BY <1>2, <1>4
    <3>2. QED
      BY <1>1, <3>1 DEF VerifTaken
  <2>4. Staged(o)'
    <3>1. ops'[o].synth = c => ops'[o].synthReply[1] # NoCall
      BY <1>2, <1>4 DEF Reply
    <3>2. QED
      BY <1>1, <1>2, <1>4, <3>1 DEF Staged
  <2>5. QED
    BY <2>1, <2>2, <2>3, <2>4 DEF OpOK
<1>8. ASSUME NEW d \in Calls, IsReview(d), calls[d].owner = o PROVE ReviewOK(d)'
  <2>1. ReviewOK(d) /\ (AppliedReply(d) => Recorded(d))
        /\ (Recorded(d) <=> ops[o].synthReply[1] = d \/ ops[o].verifReply[1] = d)
    BY <1>8, RecordedFacts DEF Recorded
  <2>2. ~Recorded(d) /\ calls[d].kind = "synthesizer"
    BY <1>2, <1>8, <2>1, ConstantsAssumption DEF ReviewOK, IsReview
  <2>3. CASE d = c
    <3>1. AppliedReply(c)' \/ Released(c)'
      BY <1>1, <1>4 DEF AppliedReply, Released, Reply
    <3>2. QED
      BY <1>1, <1>2, <1>3, <1>4, <2>3, <3>1 DEF ReviewOK, Released, Unsettled, Flying, Finishing
  <2>4. CASE d # c
    <3>1. ~Unsettled(d)
      BY <1>1, <1>2, <1>8, <2>2, <2>4 DEF ReplyInv, OneSynth, Unsettled, Live
    <3>2. runner[d].pc \notin Finishing
      BY <1>2, <1>8, <2>1, <2>2 DEF ReviewOK, Released
    <3>3. ~Recorded(d)'
      BY <1>1, <1>2, <1>4, <1>8, <2>4, ConstantsAssumption DEF Recorded, Reply
    <3>4. Pointer(calls[d].owner, calls[d].kind)' # d
      BY <1>1, <1>4, <1>8, <2>2, <2>4, ConstantsAssumption DEF Pointer
    <3>5. QED
      BY <1>1, <1>3, <1>8, <2>1, <2>2, <2>4, <3>1, <3>2, <3>3, <3>4
      DEF ReviewOK, Unsettled, Flying
  <2>5. QED
    BY <2>3, <2>4
<1>9. OneSynth'
  BY <1>1 DEF ReplyInv, OneSynth, Unsettled
<1>10. QED
  BY <1>1, <1>6, <1>7, <1>8, <1>9 DEF ReplyInv, IsReview, ReviewOK

(* A verifier's verdict.                                                   *)
LEMMA VerdictKeepsReplies ==
    ASSUME TypeOK, CallInv, GuardInv, ReplyInv, Next, NEW c \in Calls,
           ApplyCorrect(c) \/ ApplyIncorrect(c)
    PROVE  ReplyInv'
<1> DEFINE o == calls[c].owner
<1>1. /\ runner[c].pc = "returned" /\ calls[c].kind = "verifier" /\ Awaited(c)
      /\ UNCHANGED phase /\ IsReview(c) /\ calls[c] \in CallRecord
  BY DEF ApplyCorrect, ApplyIncorrect, IsReview, TypeOK
<1>2. /\ o \in Ops /\ phase = "running" /\ calls[c].status = "completed"
      /\ ops[o].state = "verifying" /\ ops[o].verif = c
      /\ ops[o].verifReply[1] = NoCall
      /\ ops[o] \in OpRecord /\ OpOK(o) /\ c # NoCall
  BY <1>1, AwaitedFacts, ConstantsAssumption DEF TypeOK, ReplyInv
<1>3. /\ \A d \in Calls \ {c} : calls'[d] = calls[d]
      /\ calls'[c].kind = "verifier" /\ calls'[c].owner = o
      /\ calls'[c].result = calls[c].result
      /\ calls'[c].status \in {"completed", "committed"}
  <2>1. UNCHANGED calls \/ SetCall(c, CommitResult(calls[c]))
    BY DEF ApplyCorrect, ApplyIncorrect
  <2>2. CASE UNCHANGED calls
    BY <1>1, <1>2, <2>2
  <2>3. CASE SetCall(c, CommitResult(calls[c]))
    <3>1. calls'[c] = CommitResult(calls[c]) /\ \A d \in Calls \ {c} : calls'[d] = calls[d]
      BY <2>3 DEF SetCall, TypeOK
    <3>2. QED
      BY <1>1, <3>1 DEF CommitResult, CallRecord
  <2>4. QED
    BY <2>1, <2>2, <2>3
<1>4. /\ \A d \in Calls \ {c} : runner'[d] = runner[d]
      /\ runner'[c].pc \in {"publishing", "marking"}
  BY DEF ApplyCorrect, ApplyIncorrect, Goto, TypeOK, RunnerRecord
<1>5. /\ \A p \in Ops \ {o} : ops'[p] = ops[p]
      /\ ops'[o].synth = ops[o].synth /\ ops'[o].synthReply = ops[o].synthReply
      /\ ops'[o].verif = c /\ ops'[o].verifReply = Reply(c)
      /\ \/ ops'[o].state = "verifying" /\ ops'[o].verified /\ runner'[c].pc = "publishing"
         \/ ops'[o].state = "rejected"
  <2>1. CASE ApplyCorrect(c)
    <3>1. ops' = [ops EXCEPT ![o].verifReply = Reply(c), ![o].verified = TRUE]
          /\ runner'[c].pc = "publishing"
      BY <2>1 DEF ApplyCorrect, Goto, TypeOK, RunnerRecord
    <3>2. /\ \A p \in Ops \ {o} : ops'[p] = ops[p]
          /\ ops'[o] = [ops[o] EXCEPT !.verifReply = Reply(c), !.verified = TRUE]
      BY <1>2, <3>1 DEF TypeOK
    <3>3. /\ ops'[o].synth = ops[o].synth /\ ops'[o].synthReply = ops[o].synthReply
          /\ ops'[o].verif = ops[o].verif /\ ops'[o].verifReply = Reply(c)
          /\ ops'[o].state = ops[o].state /\ ops'[o].verified = TRUE
      <4> HIDE DEF o
      <4>1. QED
        BY <1>2, <3>2 DEF OpRecord
    <3>4. QED
      BY <1>2, <3>1, <3>2, <3>3
  <2>2. CASE ApplyIncorrect(c)
    <3>1. ops' = [ops EXCEPT ![o].state = "rejected", ![o].verifReply = Reply(c)]
      BY <2>2 DEF ApplyIncorrect
    <3>2. /\ \A p \in Ops \ {o} : ops'[p] = ops[p]
          /\ ops'[o] = [ops[o] EXCEPT !.state = "rejected", !.verifReply = Reply(c)]
      BY <1>2, <3>1 DEF TypeOK
    <3>3. QED
      BY <1>2, <3>2 DEF OpRecord
  <2>3. QED
    BY <2>1, <2>2
<1>6. \A d \in Calls : calls'[d].kind = calls[d].kind /\ calls'[d].owner = calls[d].owner
  BY <1>1, <1>3
<1>7. /\ \A p \in Ops \ {o} : OpOK(p)'
      /\ \A d \in Calls : ~IsReview(d) \/ calls[d].owner # o => ReviewOK(d)'
  BY <1>1, <1>2, <1>3, <1>4, <1>5, <1>6, Elsewhere DEF IsReview
<1>8. OpOK(o)'
  <2>0. calls'[c].owner = calls[c].owner
    BY <1>6
  <2>1. Linked(o)'
    <3>1. ops[o].synth # NoCall =>
             /\ ops[o].synth \in Calls
             /\ calls[ops[o].synth].kind = "synthesizer" /\ calls[ops[o].synth].owner = o
      BY <1>2 DEF OpOK, Linked, OpRecord
    <3>2. ops'[o].synth # NoCall =>
             calls'[ops'[o].synth].kind = "synthesizer" /\ calls'[ops'[o].synth].owner = o
      BY <1>5, <1>6, <3>1
    <3>3. calls'[ops'[o].verif].kind = "verifier" /\ calls'[ops'[o].verif].owner = o
      BY <1>3, <1>5
    <3>4. QED
      BY <2>0, <3>2, <3>3 DEF Linked
  <2>2. SynthTaken(o)'
    <3>1. ops[o].synthReply[1] # NoCall =>
             /\ ops[o].synth \in Calls \ {c}
             /\ ops[o].synthReply[1] = ops[o].synth /\ Holds(ops[o].synthReply)
      BY <1>1, <1>2 DEF OpOK, Linked, SynthTaken, OpRecord
    <3>2. ops'[o].state # "synthesizing"
      BY <1>5
    <3>3. QED
      BY <1>3, <1>5, <2>0, <3>1, <3>2, SMTT(40) DEF SynthTaken, Holds
  <2>3. VerifTaken(o)'
    BY <1>3, <1>5, <2>0 DEF VerifTaken, Holds, Reply, Answers
  <2>4. Staged(o)'
    BY <1>2, <1>5, <2>0 DEF Staged, OpOK, Reply
  <2>5. QED
    BY <2>1, <2>2, <2>3, <2>4 DEF OpOK
<1>9. ASSUME NEW d \in Calls, IsReview(d), calls[d].owner = o PROVE ReviewOK(d)'
  <2>1. /\ ReviewOK(d)
        /\ (Recorded(d) <=> ops[o].synthReply[1] = d \/ ops[o].verifReply[1] = d)
    BY <1>9, RecordedFacts DEF Recorded
  <2>2. CASE d = c
    <3>1. AppliedReply(c)'
      BY <1>1, <1>3, <1>5 DEF AppliedReply, Reply
    <3>2. QED
      BY <1>1, <1>2, <1>3, <1>4, <1>5, <2>2, <3>1 DEF ReviewOK, Flying
  <2>3. CASE d # c
    <3>1. calls[d].kind = "synthesizer"
      BY <1>2, <1>9, <2>1, <2>3 DEF ReviewOK, IsReview
    <3>2. /\ calls'[d] = calls[d] /\ runner'[d] = runner[d]
          /\ Released(d)' <=> Released(d)
          /\ AppliedReply(d)' <=> AppliedReply(d)
          /\ Pointer(calls[d].owner, calls[d].kind)' = Pointer(calls[d].owner, calls[d].kind)
      BY <1>3, <1>4, <1>5, <1>9, <2>3, <3>1, SMTT(40)
      DEF Released, AppliedReply, Reply, Pointer
    <3>3. Recorded(d)' => Recorded(d)
      BY <1>5, <1>9, <2>1, <2>3, <3>2 DEF Recorded, Reply
    <3>4. QED
      BY <1>1, <1>5, <1>9, <2>1, <3>1, <3>2, <3>3 DEF ReviewOK, Unsettled, IsReview
  <2>4. QED
    BY <2>2, <2>3
<1>10. OneSynth'
  <2> SUFFICES ASSUME NEW d \in Calls, NEW e \in Calls,
                      calls'[d].kind = "synthesizer", calls'[e].kind = "synthesizer",
                      calls'[d].owner = calls'[e].owner, Unsettled(d)', Unsettled(e)'
               PROVE  d = e
    BY DEF OneSynth
  <2>1. d # c /\ e # c
    BY <1>3
  <2>2. QED
    BY <1>3, <2>1 DEF ReplyInv, OneSynth, Unsettled
<1>11. QED
  BY <1>6, <1>7, <1>8, <1>9, <1>10 DEF ReplyInv, IsReview, ReviewOK

(* A step that leaves every operation and every review where it is.        *)
LEMMA ReviewsRest ==
    ASSUME TypeOK, CallInv, ReplyInv, Next, \A o \in Ops : OpKept(o),
           \A d \in Calls : IsReview(d)' => IsReview(d) /\ (Resting(d) \/ Gentle(d))
    PROVE  ReplyInv'
<1> SUFFICES ASSUME NEW d \in Calls PROVE Gentle(d)
  BY GentleKeeps
<1>1. CASE ~IsReview(d)'
  BY <1>1 DEF Gentle
<1>2. CASE IsReview(d)' /\ Resting(d)
  BY <1>2, RestingIsGentle DEF ReplyInv, ReviewOK
<1>3. QED
  BY <1>1, <1>2

(* The steps of the other kinds of calls and of the worker attempt.        *)
LEMMA OthersKeepReplies ==
    ASSUME TypeOK, CallInv, GuardInv, ReplyInv, Next,
           \/ \E c \in Calls : \/ PrepareMain(c) \/ PrepareExplorer(c)
                              \/ ContainExplorer(c) \/ ExpireExplorer(c)
           \/ \E evidence \in SUBSET (Ops \ FactOps) : AttemptEnds(evidence)
           \/ StartAttempt \/ CancelControl \/ Stop
    PROVE  ReplyInv'
<1>1. CASE Stop
  BY <1>1, AbortKeepsReplies DEF Stop
<1>2. CASE \E c \in Calls : PrepareMain(c) \/ PrepareExplorer(c)
  <2>1. PICK c \in Calls : PrepareMain(c) \/ PrepareExplorer(c)
    BY <1>2
  <2>2. /\ calls'[c].kind \in {"main", "explorer"}
        /\ \A d \in Calls \ {c} : calls'[d] = calls[d]
        /\ UNCHANGED <<ops, runner, phase>> /\ phase = "running"
    BY <2>1 DEF PrepareMain, PrepareExplorer, SetCall, PrepareCall, TypeOK
  <2>3. QED
    BY <2>2, OpsKept, ReviewsRest DEF IsReview, Resting
<1>3. CASE \E c \in Calls : ExpireExplorer(c)
  <2>1. PICK c \in Calls : ExpireExplorer(c)
    BY <1>3
  <2>2. /\ calls[c].kind = "explorer" /\ calls'[c] = Cancel(calls[c])
        /\ \A d \in Calls \ {c} : calls'[d] = calls[d]
        /\ UNCHANGED <<ops, runner, phase>> /\ phase = "running"
    BY <2>1 DEF ExpireExplorer, SetCall, GuardInv, ExploringOK, TypeOK
  <2>3. calls'[c].kind = "explorer"
    BY <2>2 DEF Cancel, TypeOK, CallRecord
  <2>4. QED
    BY <2>2, <2>3, OpsKept, ReviewsRest DEF IsReview, Resting
<1>4. CASE StartAttempt \/ \E evidence \in SUBSET (Ops \ FactOps) : AttemptEnds(evidence)
  <2>1. UNCHANGED <<calls, runner, ops, phase>> /\ phase = "running"
    BY <1>4 DEF AttemptEnds, StartAttempt
  <2>2. QED
    BY <2>1, OpsKept, ReviewsRest DEF IsReview, Resting
<1>5. CASE CancelControl
  <2>1. /\ UNCHANGED <<runner, ops, phase>> /\ phase = "running"
        /\ \A d \in Calls : calls'[d] = IF calls[d].kind = "main" /\ Status(d) \notin Settled
                                       THEN CancelAndAdvance(calls[d]) ELSE calls[d]
    BY <1>5 DEF CancelControl, OfKind
  <2>2. \A d \in Calls : calls'[d].kind = calls[d].kind
    BY <2>1, ReducerKinds DEF TypeOK
  <2>3. \A d \in Calls : IsReview(d) => calls'[d] = calls[d]
    BY <2>1 DEF IsReview
  <2>4. QED
    BY <2>1, <2>2, <2>3, OpsKept, ReviewsRest DEF IsReview, Resting
<1>6. CASE \E c \in Calls : ContainExplorer(c)
  <2>1. PICK c \in Calls : ContainExplorer(c)
    BY <1>6
  <2>2. runner[c].pc = "exhausted" /\ phase = "running" /\ UNCHANGED ops
    BY <2>1 DEF ContainExplorer, GuardInv, StoppedOK
  <2>3. CASE RunAborts /\ UNCHANGED calls
    BY <2>2, <2>3, AbortKeepsReplies
  <2>4. CASE Return(c) /\ UNCHANGED phase
    <3>1. /\ runner'[c].pc = "idle" /\ \A d \in Calls \ {c} : runner'[d] = runner[d]
      BY <2>4 DEF Return, Idle, TypeOK
    <3>2. CASE UNCHANGED calls
      <4>1. ASSUME IsReview(c) PROVE Gentle(c)
        <5>1. Recorded(c) => calls[c].status \in Answers
          BY <4>1, RecordedFacts
        <5>2. QED
          BY <2>2, <3>1, <3>2, <4>1, <5>1, OpsKept, MovingIsGentle DEF Flying, Finishing, Unsettled,
             IsReview, ReplyInv, ReviewOK
      <4>2. QED
        BY <2>2, <2>4, <3>1, <3>2, <4>1, OpsKept, ReviewsRest DEF IsReview, Resting
    <3>3. CASE c \in exploring /\ Contained(c)
      <4>1. /\ calls[c].kind = "explorer" /\ calls'[c] = Cancel(calls[c])
            /\ \A d \in Calls \ {c} : calls'[d] = calls[d]
        BY <3>3 DEF Contained, SetCall, GuardInv, ExploringOK, TypeOK
      <4>2. calls'[c].kind = "explorer"
        BY <4>1 DEF Cancel, TypeOK, CallRecord
      <4>3. QED
        BY <2>2, <2>4, <3>1, <4>1, <4>2, OpsKept, ReviewsRest DEF IsReview, Resting
    <3>4. QED
      BY <2>1, <2>2, <2>4, <3>2, <3>3 DEF ContainExplorer, RunAborts
  <2>5. QED
    BY <2>1, <2>3, <2>4 DEF ContainExplorer
<1>7. QED
  BY <1>1, <1>2, <1>3, <1>4, <1>5, <1>6

(* The run loop picks up a call.                                           *)
LEMMA PickKeepsReplies ==
    ASSUME TypeOK, CallInv, GuardInv, ReplyInv, Next, NEW c \in Calls, Pick(c)
    PROVE  ReplyInv'
<1>1. /\ phase = "running" /\ UNCHANGED <<calls, ops, phase>>
      /\ runner[c].pc = "idle" /\ runner'[c].pc \in {"returned", "launching"}
      /\ \A d \in Calls \ {c} : runner'[d] = runner[d]
  BY DEF Pick, Goto, TypeOK, RunnerRecord
<1>2. ASSUME IsReview(c) PROVE Gentle(c)
  <2>1. Recorded(c) => calls[c].status \in Answers
    BY <1>2, RecordedFacts
  <2>2. QED
    BY <1>1, <1>2, <2>1, OpsKept, MovingIsGentle DEF Flying, Finishing, Unsettled, IsReview,
       ReplyInv, ReviewOK
<1>3. QED
  BY <1>1, <1>2, OpsKept, ReviewsRest DEF IsReview, Resting

(* A late reply is only heard by a call that is still running.             *)
LEMMA LateReplyKeepsReplies ==
    ASSUME TypeOK, CallInv, GuardInv, ReplyInv, Next, NEW c \in Calls, LateReply(c)
    PROVE  ReplyInv'
<1>1. /\ phase = "running" /\ UNCHANGED <<runner, ops, phase>>
      /\ \A d \in Calls \ {c} : calls'[d] = calls[d]
      /\ calls[c] \in CallRecord
  BY DEF LateReply, SetCall, TypeOK
<1>2. PICK n : calls'[c] = ReceiveResult(calls[c], n)
  BY DEF LateReply, SetCall, TypeOK
<1>3. calls'[c].kind = calls[c].kind
  BY <1>1, <1>2, ReducerKinds
<1>4. CASE calls[c].status # "running"
  <2>1. calls'[c] = calls[c]
    BY <1>2, <1>4 DEF ReceiveResult
  <2>2. QED
    BY <1>1, <2>1, OpsKept, ReviewsRest DEF IsReview, Resting
<1>5. CASE calls[c].status = "running"
  <2>1. calls'[c].status = "completed" /\ calls'[c].owner = calls[c].owner
    BY <1>1, <1>2, <1>5 DEF ReceiveResult, CallRecord
  <2>2. ASSUME IsReview(c) PROVE Gentle(c)
    <3>1. ~Recorded(c) /\ ReviewOK(c)
      BY <1>5, <2>2, RecordedFacts DEF Answers
    <3>2. Unsettled(c)
      BY <1>5 DEF Unsettled, Live
    <3>3. Released(c) => runner[c].pc = "marking"
      BY <1>1, <2>2, <3>1, <3>2, ConstantsAssumption DEF ReviewOK, Released
    <3>4. QED
      BY <1>1, <1>3, <2>1, <3>1, <3>2, <3>3 DEF Gentle
  <2>3. QED
    BY <1>1, <1>3, <2>2, OpsKept, ReviewsRest DEF IsReview, Resting
<1>6. QED
  BY <1>4, <1>5

(* The two steps of the operator.                                          *)
LEMMA OperatorKeepsReplies ==
    ASSUME TypeOK, CallInv, GuardInv, ReplyInv, Next,
           \/ \E c \in Calls : OperatorRetry(c)
           \/ \E o \in Ops : OperatorAbandon(o)
    PROVE  ReplyInv'
<1>0. /\ phase = "running" /\ UNCHANGED <<runner, phase>>
      /\ \A d \in Calls : IsReview(d) => runner[d].pc = "idle"
  BY DEF OperatorRetry, OperatorAbandon, ControlThreadFree, IsReview
<1>1. CASE \E c \in Calls : OperatorRetry(c)
  <2>1. PICK c \in Calls : OperatorRetry(c)
    BY <1>1
  <2> DEFINE o == calls[c].owner
  <2>2. /\ calls[c] \in CallRecord /\ calls[c].status = "needs_attention"
        /\ calls'[c] = AuthorizeRetry(calls[c])
        /\ \A d \in Calls \ {c} : calls'[d] = calls[d]
        /\ RestoreOwner(c)
    BY <2>1 DEF OperatorRetry, CanAuthorize, SetCall, TypeOK
  <2>3. calls'[c].kind = calls[c].kind /\ calls'[c].owner = o
        /\ calls'[c].status = "retry_pending"
    BY <2>2 DEF AuthorizeRetry, CallRecord
  <2>4. CASE ~IsReview(c)
    <3>1. UNCHANGED ops
      BY <2>2, <2>4 DEF RestoreOwner
    <3>2. QED
      BY <1>0, <2>2, <2>3, <2>4, <3>1, OpsKept, ReviewsRest DEF IsReview, Resting
  <2>5. CASE IsReview(c)
    <3>1. /\ o \in Ops /\ OpOK(o) /\ ops[o] \in OpRecord /\ c # NoCall /\ ReviewOK(c)
          /\ ~Recorded(c)
      BY <2>2, <2>5, RecordedFacts, ConstantsAssumption DEF Answers
    <3>2. /\ Pointer(o, calls[c].kind) = c
          /\ ops' = [ops EXCEPT ![o].state = Reviewing(calls[c].kind)]
      BY <2>2, <2>5 DEF RestoreOwner
    <3>3. /\ calls[c].kind = "synthesizer" => ops[o].synthReply[1] = NoCall
          /\ calls[c].kind = "verifier" => ops[o].verif # NoCall /\ ops[o].verifReply[1] = NoCall
      <4>1. CASE calls[c].kind = "synthesizer"
        BY <3>1, <3>2, <4>1 DEF Pointer, Recorded, OpOK, SynthTaken
      <4>2. CASE calls[c].kind = "verifier"
        BY <3>1, <3>2, <4>2 DEF Pointer, Recorded, OpOK, VerifTaken
      <4>3. QED
        BY <4>1, <4>2
    <3>4. OpKept(o)
      <4>1. /\ ops'[o].synth = ops[o].synth /\ ops'[o].verif = ops[o].verif
            /\ ops'[o].synthReply = ops[o].synthReply
            /\ ops'[o].verifReply = ops[o].verifReply
            /\ ops'[o].verified = ops[o].verified
            /\ ops'[o].state = Reviewing(calls[c].kind)
        <5> HIDE DEF o
        <5>1. ops'[o] = [ops[o] EXCEPT !.state = Reviewing(calls[c].kind)]
          BY <3>1, <3>2 DEF TypeOK
        <5>2. QED
          BY <3>1, <5>1 DEF OpRecord
      <4>2. QED
        BY <2>5, <3>3, <4>1 DEF OpKept, Reviewing, IsReview
    <3>5. \A p \in Ops : OpKept(p)
      BY <3>1, <3>2, <3>4 DEF OpKept, TypeOK
    <3>6. Gentle(c)
      <4>1. Unsettled(c)
        BY <2>2 DEF Unsettled
      <4>2. ~Released(c)
        BY <3>1, <3>2 DEF Released, Pointer
      <4>3. QED
        BY <1>0, <2>3, <2>5, <3>1, <4>1, <4>2 DEF Gentle, Flying, Finishing
    <3>7. QED
      BY <1>0, <2>2, <2>3, <3>5, <3>6, <2>5, ReviewsRest DEF IsReview, Resting
  <2>6. QED
    BY <2>4, <2>5
<1>2. CASE \E o \in Ops : OperatorAbandon(o)
  <2>1. PICK o \in Ops : OperatorAbandon(o)
    BY <1>2
  <2>2. \A p \in Ops : OpKept(p)
    BY <2>1, OpsKept DEF OperatorAbandon
  <2>3. \A d \in Calls : calls'[d] = calls[d] \/ calls'[d] = Fence(calls[d], "superseded")
    BY <2>1 DEF OperatorAbandon
  <2>4. ASSUME NEW d \in Calls, calls'[d] = Fence(calls[d], "superseded")
        PROVE  /\ calls'[d].kind = calls[d].kind /\ calls'[d].owner = calls[d].owner
               /\ calls'[d].status = "superseded" /\ calls'[d].result = calls[d].result
    BY <2>4 DEF Fence, TypeOK, CallRecord
  <2>5. ASSUME NEW d \in Calls, IsReview(d), calls'[d] = Fence(calls[d], "superseded")
        PROVE  Gentle(d)
    <3>1. /\ calls[d].owner \in Ops /\ OpOK(calls[d].owner) /\ ReviewOK(d) /\ d # NoCall
          /\ calls[d].kind = "verifier" =>
                (Recorded(d) <=> ops[calls[d].owner].verifReply[1] = d)
      BY <2>5, RecordedFacts, ConstantsAssumption
    <3>2. ~(calls[d].kind = "verifier" /\ Recorded(d) /\ ops'[calls[d].owner].state = "verifying")
      BY <1>0, <2>2, <2>5, <3>1 DEF OpOK, VerifTaken, OpKept
    <3>3. ~Unsettled(d)'
      BY <2>4, <2>5 DEF Unsettled, Live
    <3>4. QED
      BY <1>0, <2>4, <2>5, <3>2, <3>3 DEF Gentle, Flying, Finishing, Answers
  <2>6. \A d \in Calls : IsReview(d)' => IsReview(d)
    BY <2>3, <2>4 DEF IsReview
  <2>7. QED
    BY <1>0, <2>2, <2>3, <2>5, <2>6, ReviewsRest DEF Resting
<1>3. QED
  BY <1>1, <1>2

(* Recovery: the reconciliation of the calls, the repeated publications    *)
(* and the end of the replay.                                              *)
LEMMA RecoveryKeepsReplies ==
    ASSUME TypeOK, CallInv, GuardInv, ReplyInv, Next,
           Recover \/ FinishRecovery \/ \E o \in Ops : ReplayPublication(o)
    PROVE  ReplyInv'
<1>0. UNCHANGED runner /\ \A d \in Calls : runner[d].pc = "idle"
  BY DEF Recover, FinishRecovery, ReplayPublication, GuardInv, StoppedOK
<1>1. CASE Recover
  <2>1. /\ phase' # "running" /\ UNCHANGED ops
        /\ \A d \in Calls : calls'[d] = ReconcileAfterStop(calls[d])
    BY <1>1 DEF Recover
  <2>2. \A d \in Calls : calls'[d].kind = calls[d].kind
    BY <2>1, ReducerKinds DEF TypeOK
  <2>3. ASSUME NEW d \in Calls, IsReview(d), LostByStop(calls[d]) PROVE Gentle(d)
    <3>1. ~Recorded(d) /\ Unsettled(d)
      BY <2>3, RecordedFacts DEF LostByStop, Answers, Unsettled, Live
    <3>2. calls'[d].owner = calls[d].owner
          /\ calls'[d].status \in {"needs_attention", "retry_pending"}
      BY <2>1, <2>3 DEF ReconcileAfterStop, TypeOK, CallRecord
    <3>3. QED
      BY <1>0, <2>1, <2>2, <3>1, <3>2 DEF Gentle, Flying, Finishing
  <2>4. ASSUME NEW d \in Calls, ~LostByStop(calls[d]) PROVE Resting(d)
    BY <1>0, <2>1, <2>4 DEF Resting, ReconcileAfterStop
  <2>5. QED
    BY <2>1, <2>2, <2>3, <2>4, OpsKept, ReviewsRest DEF IsReview
<1>2. CASE FinishRecovery
  <2>1. UNCHANGED <<calls, ops>> /\ phase = "recovering"
    BY <1>2 DEF FinishRecovery
  <2>2. ASSUME NEW d \in Calls, IsReview(d) PROVE Gentle(d)
    <3>1. /\ calls[d].owner \in Ops /\ OpOK(calls[d].owner) /\ d # NoCall
          /\ calls[d].kind = "verifier" =>
                (Recorded(d) <=> ops[calls[d].owner].verifReply[1] = d)
          /\ Recorded(d) => calls[d].status \in Answers
      BY <2>2, RecordedFacts, ConstantsAssumption
    <3>2. ~(Released(d) /\ Unsettled(d))
      BY <1>2 DEF FinishRecovery, Detached, Released, Unsettled, Status
    <3>3. ~(calls[d].kind = "verifier" /\ Recorded(d) /\ ops[calls[d].owner].state = "verifying")
      BY <1>2, <3>1 DEF FinishRecovery, OpOK, VerifTaken
    <3>4. QED
      BY <1>0, <2>1, <3>1, <3>2, <3>3 DEF Gentle, Unsettled, Flying, Finishing
  <2>3. QED
    BY <2>1, <2>2, OpsKept, ReviewsRest DEF IsReview
<1>3. CASE \E o \in Ops : ReplayPublication(o)
  <2>1. PICK o \in Ops : ReplayPublication(o)
    BY <1>3
  <2>2. phase' # "running" /\ \A p \in Ops : OpKept(p)
    BY <2>1, OpsKept DEF ReplayPublication
  <2>3. \A d \in Calls : \/ calls'[d] = calls[d]
                         \/ /\ d = ops[o].verif /\ CanReject(calls[d])
                            /\ calls'[d] = CommitResult(calls[d])
    BY <2>1 DEF ReplayPublication
  <2>4. ASSUME NEW d \in Calls, d = ops[o].verif, CanReject(calls[d]),
               calls'[d] = CommitResult(calls[d])
        PROVE  IsReview(d) /\ Gentle(d)
    <3>1. OpOK(o) /\ ops[o] \in OpRecord /\ d # NoCall
      BY ConstantsAssumption DEF ReplyInv, TypeOK
    <3>2. calls[d].kind = "verifier" /\ calls[d].owner = o /\ IsReview(d)
      BY <2>4, <3>1 DEF OpOK, Linked, IsReview
    <3>3. ops[o].verified
      BY <2>1, <2>4, <3>1 DEF ReplayPublication, OpOK, Staged
    <3>4. Recorded(d)
      BY <2>4, <3>1, <3>2, <3>3 DEF OpOK, Staged, VerifTaken, Recorded
    <3>5. AppliedReply(d)
      BY <3>2, <3>4, RecordedFacts
    <3>6. /\ calls'[d].kind = calls[d].kind /\ calls'[d].owner = calls[d].owner
          /\ calls'[d].status = "committed" /\ calls'[d].result = calls[d].result
      BY <2>4 DEF CommitResult, TypeOK, CallRecord
    <3>7. QED
      BY <1>0, <2>2, <3>2, <3>5, <3>6 DEF Gentle, Flying, Finishing, Unsettled, Live, Answers
  <2>5. ASSUME NEW d \in Calls, calls'[d] = calls[d] PROVE Resting(d)
    BY <1>0, <2>2, <2>5 DEF Resting
  <2>6. \A d \in Calls : IsReview(d)' => IsReview(d)
    BY <2>3, <2>4 DEF IsReview
  <2>7. QED
    BY <2>2, <2>3, <2>4, <2>5, <2>6, ReviewsRest
<1>4. QED
  BY <1>1, <1>2, <1>3

(* A review is prepared for an operation that has none of its kind.        *)
LEMMA PrepareKeepsReplies ==
    ASSUME TypeOK, CallInv, GuardInv, ReplyInv, Next,
           NEW c \in Calls, NEW o \in Ops, NEW kind \in {"synthesizer", "verifier"},
           PrepareReview(c, o, kind)
    PROVE  ReplyInv'
<1>1. /\ phase = "running" /\ UNCHANGED <<runner, phase>>
      /\ \A d \in Calls : calls[d].kind # "explorer" => runner[d].pc = "idle"
      /\ calls[c].kind = "none" /\ ops[o].state = Reviewing(kind)
      /\ Pointer(o, kind) = NoCall /\ c # NoCall
      /\ ops[o] \in OpRecord /\ OpOK(o)
  BY ConstantsAssumption DEF PrepareReview, ControlThreadFree, Prepared, ReplyInv, TypeOK
<1>2. /\ calls'[c] = PrepareCall(kind, o, RetryLimit)
      /\ \A d \in Calls \ {c} : calls'[d] = calls[d]
  BY DEF PrepareReview, SetCall, TypeOK
<1>3. /\ calls'[c].kind = kind /\ calls'[c].owner = o /\ calls'[c].status = "prepared"
      /\ ~IsReview(c) /\ runner'[c].pc = "idle"
  BY <1>1, <1>2 DEF PrepareCall, IsReview
<1>4. /\ \A p \in Ops \ {o} : ops'[p] = ops[p]
      /\ ops'[o].synthReply = ops[o].synthReply /\ ops'[o].verifReply = ops[o].verifReply
      /\ ops'[o].state = ops[o].state /\ ops'[o].verified = ops[o].verified
      /\ kind = "synthesizer" => ops'[o].synth = c /\ ops'[o].verif = ops[o].verif
      /\ kind = "verifier" => ops'[o].verif = c /\ ops'[o].synth = ops[o].synth
  <2>1. CASE kind = "synthesizer"
    <3>1. ops' = [ops EXCEPT ![o].synth = c]
      BY <2>1 DEF PrepareReview
    <3>2. /\ \A p \in Ops \ {o} : ops'[p] = ops[p]
          /\ ops'[o] = [ops[o] EXCEPT !.synth = c]
      BY <3>1 DEF TypeOK
    <3>3. QED
      BY <1>1, <2>1, <3>2 DEF OpRecord
  <2>2. CASE kind = "verifier"
    <3>1. ops' = [ops EXCEPT ![o].verif = c]
      BY <2>2 DEF PrepareReview
    <3>2. /\ \A p \in Ops \ {o} : ops'[p] = ops[p]
          /\ ops'[o] = [ops[o] EXCEPT !.verif = c]
      BY <3>1 DEF TypeOK
    <3>3. QED
      BY <1>1, <2>2, <3>2 DEF OpRecord
  <2>3. QED
    BY <2>1, <2>2
<1>5. ASSUME NEW d \in Calls, IsReview(d)
      PROVE  /\ d # c /\ calls'[d] = calls[d] /\ runner'[d] = runner[d]
             /\ runner[d].pc = "idle" /\ ReviewOK(d) /\ calls[d].owner \in Ops
  BY <1>1, <1>2, <1>3, <1>5 DEF IsReview, ReplyInv, ReviewOK
<1>6. \A p \in Ops \ {o} : OpKept(p)
  BY <1>4 DEF OpKept
<1>7. ASSUME NEW d \in Calls, IsReview(d), calls[d].owner # o PROVE Gentle(d)
  BY <1>1, <1>5, <1>6, <1>7, RestingIsGentle DEF Resting
<1>8. \A p \in Ops \ {o} : OpOK(p)'
  BY <1>6, <1>7, KeptOp
<1>9. /\ kind = "synthesizer" => /\ ops[o].synthReply[1] = NoCall
                                 /\ ops[o].verif = NoCall /\ ops[o].state = "synthesizing"
      /\ kind = "verifier" => ops[o].verif = NoCall /\ ops[o].state = "verifying"
      /\ ops[o].verifReply[1] = NoCall
  <2>1. CASE kind = "synthesizer"
    BY <1>1, <2>1 DEF Pointer, Reviewing, OpOK, SynthTaken, VerifTaken, Staged
  <2>2. CASE kind = "verifier"
    BY <1>1, <2>2 DEF Pointer, Reviewing, OpOK, VerifTaken
  <2>3. QED
    BY <2>1, <2>2
<1>10. OpOK(o)'
  <2>1. Linked(o)'
    <3>1. /\ ops[o].synth # NoCall =>
               calls'[ops[o].synth].kind = "synthesizer" /\ calls'[ops[o].synth].owner = o
          /\ ops[o].verif # NoCall =>
               calls'[ops[o].verif].kind = "verifier" /\ calls'[ops[o].verif].owner = o
      BY <1>1, <1>2 DEF OpOK, Linked, OpRecord
    <3>2. QED
      BY <1>3, <1>4, <3>1 DEF Linked
  <2>2. SynthTaken(o)'
    <3>1. CASE kind = "synthesizer"
      BY <1>4, <1>9, <3>1 DEF SynthTaken
    <3>2. CASE kind = "verifier"
      <4>1. ops[o].synthReply[1] # NoCall =>
               /\ ops[o].synthReply[1] = ops[o].synth /\ ops[o].synth \in Calls \ {c}
               /\ Holds(ops[o].synthReply)
        BY <1>1 DEF OpOK, Linked, SynthTaken, OpRecord
      <4>2. ops'[o].state # "synthesizing"
        BY <1>4, <1>9, <3>2
      <4>3. QED
        BY <1>2, <1>4, <3>2, <4>1, <4>2 DEF SynthTaken, Holds
    <3>3. QED
      BY <3>1, <3>2
  <2>3. VerifTaken(o)'
    BY <1>4, <1>9 DEF VerifTaken
  <2>4. Staged(o)'
    BY <1>1, <1>4, <1>9 DEF OpOK, Staged
  <2>5. QED
    BY <2>1, <2>2, <2>3, <2>4 DEF OpOK
<1>11. ASSUME NEW d \in Calls, IsReview(d), calls[d].owner = o
       PROVE  ReviewOK(d)' /\ calls[d].kind = "synthesizer"
              /\ (kind = "synthesizer" => ~Unsettled(d))
  <2>1. /\ d # c /\ calls'[d] = calls[d] /\ runner'[d].pc = "idle" /\ ReviewOK(d)
        /\ d # NoCall
    BY <1>5, <1>11, ConstantsAssumption
  <2>2. calls[d].kind = "synthesizer"
    BY <1>9, <1>11, <2>1 DEF ReviewOK, IsReview
  <2>3. /\ kind = "synthesizer" => ~Unsettled(d)
        /\ kind = "verifier" => (Unsettled(d) => ops[o].synth = d)
    BY <1>1, <1>5, <1>11, <2>1, <2>2 DEF ReviewOK, Pointer
  <2>4. calls[d].status = "committed" => AppliedReply(d)' \/ ops'[o].synth # d
    BY <1>4, <1>11, <2>1, <2>2 DEF ReviewOK, AppliedReply, Reply, Pointer
  <2>5. QED
    BY <1>4, <1>11, <2>1, <2>2, <2>3, <2>4
    DEF ReviewOK, Flying, Finishing, Unsettled, Pointer
<1>12. \A d \in Calls : ReviewOK(d)'
  <2> SUFFICES ASSUME NEW d \in Calls, IsReview(d)' PROVE ReviewOK(d)'
    BY DEF ReviewOK
  <2>1. CASE d = c
    BY <1>3, <1>4, <2>1 DEF ReviewOK, Flying, Finishing
  <2>2. CASE d # c
    <3>1. IsReview(d)
      BY <1>2, <2>2 DEF IsReview
    <3>2. CASE calls[d].owner = o
      BY <1>11, <3>1, <3>2
    <3>3. CASE calls[d].owner # o
      BY <1>5, <1>6, <1>7, <3>1, <3>3, GentleCall
    <3>4. QED
      BY <3>2, <3>3
  <2>3. QED
    BY <2>1, <2>2
<1>13. OneSynth'
  <2>1. \A d \in Calls \ {c} : ~(/\ calls'[c].kind = "synthesizer" /\ calls'[d].kind = "synthesizer"
                                  /\ calls'[c].owner = calls'[d].owner /\ Unsettled(d)')
    BY <1>2, <1>3, <1>11 DEF IsReview, Unsettled
  <2>2. QED
    BY <1>2, <2>1 DEF ReplyInv, OneSynth, Unsettled
<1>14. QED
  BY <1>8, <1>10, <1>12, <1>13 DEF ReplyInv

(* The replay links a released call to its operation again.                *)
LEMMA ReattachKeepsReplies ==
    ASSUME TypeOK, CallInv, GuardInv, ReplyInv, Next, NEW c \in Calls, ReattachOwner(c)
    PROVE  ReplyInv'
<1> DEFINE o == calls[c].owner
<1>1. /\ phase = "recovering" /\ UNCHANGED <<calls, runner, phase>>
      /\ \A d \in Calls : runner[d].pc = "idle"
      /\ calls[c].kind = "synthesizer" /\ Unsettled(c) /\ ops[o].synth = NoCall
      /\ IsReview(c) /\ c # NoCall
  BY ConstantsAssumption DEF ReattachOwner, Detached, GuardInv, StoppedOK, Unsettled, Status,
     IsReview
<1>2. o \in Ops /\ OpOK(o) /\ ops[o] \in OpRecord
  BY <1>1, RecordedFacts
<1>3. /\ \A p \in Ops \ {o} : ops'[p] = ops[p]
      /\ ops'[o].synthReply = ops[o].synthReply /\ ops'[o].verifReply = ops[o].verifReply
      /\ ops'[o].state = ops[o].state /\ ops'[o].verified = ops[o].verified
      /\ ops'[o].synth = c /\ ops'[o].verif = ops[o].verif
  <2> HIDE DEF o
  <2>1. ops' = [ops EXCEPT ![o].synth = c]
    BY DEF ReattachOwner, o
  <2>2. /\ \A p \in Ops \ {o} : ops'[p] = ops[p]
        /\ ops'[o] = [ops[o] EXCEPT !.synth = c]
    BY <1>2, <2>1 DEF TypeOK
  <2>3. QED
    BY <1>2, <2>2 DEF OpRecord
<1>4. \A p \in Ops \ {o} : OpKept(p)
  BY <1>3 DEF OpKept
<1>5. ASSUME NEW d \in Calls, IsReview(d), calls[d].owner # o PROVE Gentle(d)
  <2>1. calls[d].owner \in Ops
    BY <1>5, RecordedFacts
  <2>2. QED
    BY <1>1, <1>4, <1>5, <2>1, RestingIsGentle DEF Resting
<1>6. \A p \in Ops \ {o} : OpOK(p)'
  BY <1>4, <1>5, KeptOp
<1>7. OpOK(o)'
  <2>1. ops[o].synthReply[1] = NoCall
    BY <1>1, <1>2 DEF OpOK, SynthTaken
  <2>2. Linked(o)'
    BY <1>1, <1>2, <1>3 DEF OpOK, Linked
  <2>3. SynthTaken(o)'
    BY <1>1, <1>3, <2>1 DEF SynthTaken
  <2>4. VerifTaken(o)'
    BY <1>1, <1>2, <1>3 DEF OpOK, VerifTaken, Holds
  <2>5. Staged(o)'
    BY <1>1, <1>2, <1>3 DEF OpOK, Staged
  <2>6. QED
    BY <2>2, <2>3, <2>4, <2>5 DEF OpOK
<1>8. ASSUME NEW d \in Calls, IsReview(d) PROVE ReviewOK(d)'
  <2>1. ReviewOK(d) /\ calls[d].owner \in Ops
    BY <1>8, RecordedFacts
  <2>2. CASE calls[d].owner # o
    BY <1>4, <1>5, <1>8, <2>1, <2>2, GentleCall
  <2>3. CASE calls[d].owner = o /\ calls[d].kind = "verifier"
    <3>1. /\ AppliedReply(d)' <=> AppliedReply(d)
          /\ Pointer(calls[d].owner, calls[d].kind)' = Pointer(calls[d].owner, calls[d].kind)
      BY <1>1, <1>3, <2>3 DEF AppliedReply, Reply, Pointer
    <3>2. runner'[d].pc = "idle" /\ calls'[d] = calls[d] /\ ops'[o].verif = ops[o].verif
      BY <1>1, <1>3
    <3>3. QED
      BY <1>8, <2>1, <2>3, <3>1, <3>2 DEF ReviewOK, Flying, Finishing, Unsettled
  <2>4. CASE calls[d].owner = o /\ calls[d].kind = "synthesizer"
    <3>1. Unsettled(d) => d = c
      BY <1>1, <2>4 DEF ReplyInv, OneSynth
    <3>2. calls[d].status = "committed" => d # c
      BY <1>1 DEF Unsettled, Live
    <3>3. QED
      BY <1>1, <1>3, <2>1, <2>4, <3>1, <3>2
      DEF ReviewOK, Pointer, Flying, Finishing, Unsettled
  <2>5. QED
    BY <1>8, <2>2, <2>3, <2>4 DEF IsReview
<1>9. OneSynth'
  BY <1>1 DEF ReplyInv, OneSynth, Unsettled
<1>10. QED
  BY <1>1, <1>6, <1>7, <1>8, <1>9 DEF ReplyInv, ReviewOK, IsReview

LEMMA ReplyInductive ==
    /\ Init => ReplyInv
    /\ TypeOK /\ CallInv /\ GuardInv /\ ReplyInv /\ [Next]_vars => ReplyInv'
<1>1. ASSUME Init PROVE ReplyInv
  <2>1. \A c \in Calls : calls[c].kind = "none"
    BY <1>1 DEF Init, Absent
  <2>2. \A o \in Ops : /\ ops[o].synth = NoCall /\ ops[o].verif = NoCall
                       /\ ops[o].synthReply[1] = NoCall /\ ops[o].verifReply[1] = NoCall
                       /\ ops[o].state = "synthesizing" /\ ~ops[o].verified
    BY <1>1 DEF Init, NoReply
  <2>3. QED
    BY <2>1, <2>2 DEF ReplyInv, OpOK, Linked, SynthTaken, VerifTaken, Staged, ReviewOK,
       IsReview, OneSynth
<1>2. ASSUME TypeOK, CallInv, GuardInv, ReplyInv, Next PROVE ReplyInv'
  <2>1. ASSUME NEW c \in Calls, RunnerStep(c) PROVE ReplyInv'
    BY <1>2, <2>1, RunnerKeepsReplies, SynthesisKeepsReplies, VerdictKeepsReplies
  <2>2. ASSUME NEW c \in Calls, Pick(c) \/ LateReply(c) \/ ReattachOwner(c) PROVE ReplyInv'
    BY <1>2, <2>2, PickKeepsReplies, LateReplyKeepsReplies, ReattachKeepsReplies
  <2>3. ASSUME NEW c \in Calls, NEW o \in Ops, NEW kind \in {"synthesizer", "verifier"},
               PrepareReview(c, o, kind)
        PROVE  ReplyInv'
    BY <1>2, <2>3, PrepareKeepsReplies
  <2>4. CASE \/ \E c \in Calls : OperatorRetry(c)
             \/ \E o \in Ops : OperatorAbandon(o)
    BY <1>2, <2>4, OperatorKeepsReplies
  <2>5. CASE Recover \/ FinishRecovery \/ \E o \in Ops : ReplayPublication(o)
    BY <1>2, <2>5, RecoveryKeepsReplies
  <2>6. CASE \/ \E c \in Calls : \/ PrepareMain(c) \/ PrepareExplorer(c)
                                \/ ContainExplorer(c) \/ ExpireExplorer(c)
             \/ \E evidence \in SUBSET (Ops \ FactOps) : AttemptEnds(evidence)
             \/ StartAttempt \/ CancelControl \/ Stop
    BY <1>2, <2>6, OthersKeepReplies
  <2>7. QED
    BY <1>2, <2>1, <2>2, <2>3, <2>4, <2>5, <2>6 DEF Next
<1>3. ASSUME ReplyInv, UNCHANGED vars PROVE ReplyInv'
  BY <1>3, SMTT(40)
  DEF ReplyInv, OpOK, Linked, SynthTaken, VerifTaken, Staged, Holds, ReviewOK,
     IsReview, OneSynth, Unsettled, Released, Recorded, AppliedReply, Reply, Pointer, vars
<1>4. QED
  BY <1>1, <1>2, <1>3

(* A review's reply takes effect exactly once, whatever stops, failures,   *)
(* retries and late replies fall between its application and its commit.   *)
THEOREM RepliesAppliedOnce == Spec => []AppliedOnce
<1>1. TypeOK /\ ReplyInv => AppliedOnce
  <2> SUFFICES ASSUME TypeOK, ReplyInv PROVE AppliedOnce
    OBVIOUS
  <2>1. AppliedNeverRerun
    <3> SUFFICES ASSUME NEW c \in Calls, NEW o \in Ops,
                        c \in {ops[o].synthReply[1], ops[o].verifReply[1]}
                 PROVE  Status(c) \in Answers
      BY DEF AppliedNeverRerun, Answers
    <3>1. OpOK(o) /\ c # NoCall
      BY ConstantsAssumption DEF ReplyInv
    <3>2. QED
      BY <3>1 DEF OpOK, SynthTaken, VerifTaken, Holds, Status
  <2>2. CommittedWasApplied
    BY DEF CommittedWasApplied, ReplyInv, ReviewOK, Status
  <2>3. QED
    BY <2>1, <2>2 DEF AppliedOnce
<1>2. QED
  BY <1>1, TypesHold, CallInvHolds, GuardInductive, ReplyInductive, PTL DEF Spec

(***************************************************************************)
(* Decisions.  When an operation is committed or rejected, no reply of its *)
(* reviews is awaited any more: what is left of them is a call whose reply *)
(* was applied, which can only be committed.  For this one thread has to   *)
(* run all main and review calls.                                          *)
(***************************************************************************)
Decided(o) == ops[o].state \in {"committed", "rejected"}

OneControl ==
    \A c, d \in Calls :
        /\ calls[c].kind # "explorer" /\ runner[c].pc # "idle"
        /\ calls[d].kind # "explorer" /\ runner[d].pc # "idle"
        => c = d

OwnersOK == \A c \in Calls : IsReview(c) \/ calls[c].owner = NoOp

DoneOK(c) ==
    IsReview(c) =>
        /\ Decided(calls[c].owner) /\ Unsettled(c) =>
              calls[c].status = "completed" /\ AppliedReply(c)
        /\ runner[c].pc = "publishing" =>
              /\ AppliedReply(c) /\ ops[calls[c].owner].state \in {"received", "verifying"}
              /\ calls[c].kind = "synthesizer" => calls[c].owner \notin FactOps

ReceivedOK ==
    \A o \in Ops : ops[o].state = "received" => ops[o].synthReply[1] # NoCall

DecisionInv == OneControl /\ OwnersOK /\ ReceivedOK /\ \A c \in Calls : DoneOK(c)

(* What a step has to leave of an operation, and of a call.                *)
SameOp(o) ==
    /\ ops'[o].state = ops[o].state
    /\ ops'[o].synthReply = ops[o].synthReply /\ ops'[o].verifReply = ops[o].verifReply

Calm(c) == calls'[c] = calls[c] /\ runner'[c].pc \in {runner[c].pc, "idle"}

LEMMA CalmKeeps ==
    ASSUME NEW c \in Calls, IsReview(c), DoneOK(c), Calm(c), SameOp(calls[c].owner)
    PROVE  DoneOK(c)'
BY DEF IsReview, DoneOK, Calm, SameOp, Decided, Unsettled, AppliedReply, Reply

(* A review that runs, or whose reply is refused, is one of an operation   *)
(* that is still open.                                                     *)
LEMMA OpenFacts ==
    ASSUME TypeOK, GuardInv, ReplyInv, DecisionInv, NEW c \in Calls, IsReview(c)
    PROVE  /\ runner[c].pc \in Flying => ~Decided(calls[c].owner)
           /\ calls[c].status \in {"prepared", "retry_pending", "running", "needs_attention"}
                => ~Decided(calls[c].owner)
           /\ RejectReply(c) => ~Decided(calls[c].owner)
           /\ Awaited(c) => ~Decided(calls[c].owner)
           /\ runner[c].pc = "publishing" => ~Decided(calls[c].owner)
<1> DEFINE o == calls[c].owner
<1>1. DoneOK(c) /\ ReviewOK(c) /\ (AppliedReply(c) => Recorded(c))
  BY RecordedFacts DEF DecisionInv
<1>2. runner[c].pc \in Flying => ~Decided(o)
  BY <1>1 DEF ReviewOK, DoneOK, Unsettled, Live
<1>3. calls[c].status \in {"prepared", "retry_pending", "running", "needs_attention"}
        => ~Decided(o)
  BY <1>1 DEF DoneOK, Unsettled, Live
<1>4. Awaited(c) => ~Decided(o)
  BY DEF Awaited, Reviewing, Decided
<1>5. RejectReply(c) => ~Decided(o)
  BY <1>1, <1>4 DEF RejectReply, CanReject, DoneOK, Unsettled, Live
<1>6. runner[c].pc = "publishing" => ~Decided(o)
  BY <1>1 DEF DoneOK, Decided
<1>7. QED
  BY <1>2, <1>3, <1>4, <1>5, <1>6

(* The other reviews of an operation that is being decided by c.           *)
LEMMA OthersAnswered ==
    ASSUME TypeOK, ReplyInv, NEW c \in Calls, NEW d \in Calls \ {c},
           IsReview(c), IsReview(d), calls[d].owner = calls[c].owner, Unsettled(d),
           phase = "running", runner[d].pc = "idle",
           calls[c].kind = "synthesizer" =>
              /\ ops[calls[c].owner].synth = c
              /\ calls[c].owner \notin FactOps \/ ops[calls[c].owner].verif = NoCall
    PROVE  /\ calls[c].kind = "verifier" /\ calls[d].kind = "synthesizer"
           /\ calls[d].status = "completed" /\ AppliedReply(d)
<1> DEFINE o == calls[c].owner
<1>1. /\ o \in Ops /\ OpOK(o) /\ ReviewOK(c) /\ ReviewOK(d) /\ NoCall \notin Calls
      /\ calls[d].kind = "synthesizer" => (Recorded(d) <=> ops[o].synthReply[1] = d)
      /\ Recorded(d) => AppliedReply(d) /\ calls[d].status \in Answers
  BY RecordedFacts, ConstantsAssumption
<1>2. calls[d].kind = "synthesizer" => ops[o].synth = d
  <2>1. calls[c].kind = "verifier" => ops[o].synth # NoCall
    BY <1>1 DEF ReviewOK, OpOK, Staged, SynthTaken
  <2>2. ~Released(d)
    BY <1>1, <2>1 DEF Released, IsReview
  <2>3. QED
    BY <1>1, <2>2 DEF ReviewOK
<1>3. calls[d].kind = "verifier" => ops[o].verif = d
  BY <1>1 DEF ReviewOK
<1>4. calls[c].kind = "verifier" /\ calls[d].kind = "synthesizer"
  BY <1>1, <1>2, <1>3 DEF IsReview, ReviewOK, OpOK, Staged
<1>5. ops[o].synthReply[1] = d
  BY <1>1, <1>2, <1>4 DEF ReviewOK, OpOK, Staged, SynthTaken
<1>6. QED
  BY <1>1, <1>4, <1>5 DEF Unsettled, Live, Answers

(* A runner's step about one review leaves the others, and every other     *)
(* operation, alone; one about another call leaves all reviews alone.      *)
LEMMA RunnerAlone ==
    ASSUME TypeOK, GuardInv, DecisionInv, NEW c \in Calls, RunnerStep(c)
    PROVE  /\ runner[c].pc # "idle" /\ phase = "running"
           /\ \A d \in Calls \ {c} : IsReview(d) => Calm(d)
           /\ \A p \in Ops : p # calls[c].owner \/ ~IsReview(c) => ops'[p] = ops[p]
           /\ \A d \in Calls : calls'[d].kind = calls[d].kind /\ calls'[d].owner = calls[d].owner
<1>1. runner[c].pc # "idle"
  BY DEF RunnerStep, LaunchCall, LaunchRefused, AcceptReply, AgentFails, ReadStatus,
     RecordFailure, FailureRefused, CommitMain, CommitExplorer, ApplySynthesis,
     ApplyCorrect, ApplyIncorrect, ApplyAgain, RejectReply, Publish, CloseTask,
     MarkCommitted
<1>2. phase = "running"
  BY <1>1 DEF GuardInv, StoppedOK
<1>3. /\ \A pc : Goto(c, pc) => \A d \in Calls \ {c} : runner'[d] = runner[d]
      /\ Return(c) => \A d \in Calls \ {c} : runner'[d] = runner[d]
      /\ RunAborts => \A d \in Calls : runner'[d].pc = "idle"
  BY DEF Goto, Return, RunAborts, Idle, TypeOK
<1>4. \A d \in Calls \ {c} : runner'[d].pc \in {runner[d].pc, "idle"}
  <2>1. CASE LaunchCall(c)
    BY <2>1 DEF LaunchCall, TypeOK
  <2>2. CASE ~LaunchCall(c)
    BY <1>3, <2>2 DEF RunnerStep, LaunchRefused, AcceptReply, AgentFails, ReadStatus,
       RecordFailure, FailureRefused, CommitMain, CommitExplorer, ApplySynthesis,
       ApplyCorrect, ApplyIncorrect, ApplyAgain, RejectReply, Publish, CloseTask,
       MarkCommitted, AfterFailure
  <2>3. QED
    BY <2>1, <2>2
<1>5. \A d \in Calls : calls[d] \in CallRecord
  BY DEF TypeOK
<1>6. \/ UNCHANGED calls
      \/ \E k : SetCall(c, k) /\ k.kind = calls[c].kind /\ k.owner = calls[c].owner
      \/ CommitExplorer(c)
  <2> DEFINE Like(k) == k.kind = calls[c].kind /\ k.owner = calls[c].owner
  <2>1. /\ Like(Launch(calls[c])) /\ Like(CommitResult(calls[c]))
        /\ Like(RecordTransportFailure(calls[c])) /\ Like(RejectInvalidResult(calls[c]))
        /\ \A n : Like(ReceiveResult(calls[c], n))
    BY <1>5 DEF CallRecord, Launch, ReceiveResult, RecordTransportFailure, CommitResult,
       RejectInvalidResult
  <2> HIDE DEF Like
  <2>2. UNCHANGED calls \/ (\E k : SetCall(c, k) /\ Like(k)) \/ CommitExplorer(c)
    <3>1. ASSUME NEW k, AfterFailure(c, k), Like(k) PROVE \E j : SetCall(c, j) /\ Like(j)
      BY <3>1 DEF AfterFailure
    <3>2. CASE RecordFailure(c) \/ RejectReply(c) \/ CommitMain(c)
      BY <2>1, <3>1, <3>2 DEF RecordFailure, RejectReply, CommitMain
    <3>3. CASE Publish(c)
      <4>1. SetCall(c, calls[c]) \/ SetCall(c, CommitResult(calls[c]))
        BY <3>3 DEF Publish
      <4>2. Like(calls[c])
        BY DEF Like
      <4>3. QED
        BY <2>1, <4>1, <4>2
    <3>4. QED
      BY <2>1, <3>2, <3>3 DEF RunnerStep, LaunchCall, LaunchRefused, AcceptReply,
         AgentFails, ReadStatus, FailureRefused, ApplySynthesis, ApplyCorrect,
         ApplyIncorrect, ApplyAgain, CloseTask, MarkCommitted
  <2>3. QED
    BY <2>2 DEF Like
<1>7. CASE CommitExplorer(c)
  <2>1. ASSUME NEW d \in Calls
        PROVE  /\ calls'[d].kind = calls[d].kind /\ calls'[d].owner = calls[d].owner
               /\ d # c /\ IsReview(d) => calls'[d] = calls[d]
    <3>1. \A e \in exploring : calls[e].kind = "explorer"
      BY DEF GuardInv, ExploringOK
    <3>2. \/ calls'[d] = calls[d]
          \/ calls'[d] = CommitResult(calls[c]) /\ d = c
          \/ calls'[d] = Cancel(calls[d]) /\ d \in exploring
      BY <1>7 DEF CommitExplorer
    <3>3. QED
      BY <1>5, <3>1, <3>2 DEF CommitResult, Cancel, CallRecord, IsReview
  <2>2. UNCHANGED ops
    BY <1>7 DEF CommitExplorer
  <2>3. QED
    BY <1>1, <1>2, <1>4, <2>1, <2>2 DEF Calm
<1>8. CASE ~CommitExplorer(c)
  <2>1. /\ \A d \in Calls \ {c} : calls'[d] = calls[d]
        /\ \A d \in Calls : calls'[d].kind = calls[d].kind /\ calls'[d].owner = calls[d].owner
    BY <1>6, <1>8 DEF SetCall, TypeOK
  <2>2. ASSUME NEW p \in Ops, p # calls[c].owner \/ ~IsReview(c)
        PROVE  ops'[p] = ops[p]
    <3>1. p # calls[c].owner
      BY <2>2, ConstantsAssumption DEF DecisionInv, OwnersOK
    <3>2. ASSUME NEW k, AfterFailure(c, k), k.owner = calls[c].owner
          PROVE  ops'[p] = ops[p]
      BY <3>1, <3>2 DEF AfterFailure, Exhaust, TypeOK
    <3>3. CASE RecordFailure(c) \/ RejectReply(c) \/ CommitMain(c)
      BY <1>5, <3>2, <3>3 DEF RecordFailure, RejectReply, CommitMain, CallRecord,
         RecordTransportFailure, RejectInvalidResult
    <3>4. CASE ApplySynthesis(c) \/ ApplyCorrect(c) \/ ApplyIncorrect(c) \/ Publish(c)
      BY <3>1, <3>4 DEF ApplySynthesis, ApplyCorrect, ApplyIncorrect, Publish, Published,
         TypeOK
    <3>5. QED
      BY <1>8, <3>3, <3>4 DEF RunnerStep, LaunchCall, LaunchRefused, AcceptReply, AgentFails,
         ReadStatus, FailureRefused, ApplyAgain, CloseTask, MarkCommitted
  <2>3. QED
    BY <1>1, <1>2, <1>4, <2>1, <2>2 DEF Calm
<1>9. QED
  BY <1>7, <1>8

(* What a step must do to keep the decisions.                              *)
Faithful ==
    /\ \A d \in Calls : DoneOK(d)'
    /\ \A o \in Ops : Decided(o) => ops'[o].state = ops[o].state
    /\ ReceivedOK'

(* The failure of a review: its operation is not decided, and waits.       *)
LEMMA FailureFaithful ==
    ASSUME TypeOK, GuardInv, ReplyInv, DecisionInv, NEW c \in Calls, IsReview(c),
           RecordFailure(c) \/ RejectReply(c)
    PROVE  LET o == calls[c].owner IN
           /\ ~Decided(o)
           /\ runner'[c].pc \in {"launching", "idle"}
           /\ \/ UNCHANGED ops
              \/ ops' = [ops EXCEPT ![o].state = "needs_attention"]
<1>1. calls[c] \in CallRecord /\ runner \in [Calls -> RunnerRecord]
  BY DEF TypeOK
<1>2. PICK k : AfterFailure(c, k) /\ k.owner = calls[c].owner /\ k.kind = calls[c].kind
  <2>1. \A k \in {RecordTransportFailure(calls[c]), RejectInvalidResult(calls[c])} :
           k.owner = calls[c].owner /\ k.kind = calls[c].kind
    BY <1>1 DEF CallRecord, RecordTransportFailure, RejectInvalidResult
  <2>2. \E k \in {RecordTransportFailure(calls[c]), RejectInvalidResult(calls[c])} :
           AfterFailure(c, k)
    BY DEF RecordFailure, RejectReply
  <2>3. QED
    BY <2>1, <2>2
<1>3. runner'[c].pc \in {"launching", "idle"}
  BY <1>1, <1>2 DEF AfterFailure, Goto, Return, Idle, IsReview, RunnerRecord
<1>4. ~Decided(calls[c].owner)
  BY OpenFacts DEF RecordFailure, Flying
<1>5. UNCHANGED ops \/ ops' = [ops EXCEPT ![calls[c].owner].state = "needs_attention"]
  BY <1>2 DEF AfterFailure, Exhaust
<1>6. QED
  BY <1>3, <1>4, <1>5

(* The call whose runner moves.                                            *)
LEMMA RunnerOwn ==
    ASSUME TypeOK, GuardInv, ReplyInv, DecisionInv, NEW c \in Calls, IsReview(c),
           RunnerStep(c)
    PROVE  /\ DoneOK(c)'
           /\ Decided(calls[c].owner) => ops'[calls[c].owner].state = ops[calls[c].owner].state
           /\ ops'[calls[c].owner].state = "received" =>
                 ops'[calls[c].owner].synthReply[1] # NoCall
<1> DEFINE o == calls[c].owner
<1>1. /\ o \in Ops /\ calls'[c].owner = o /\ calls'[c].kind = calls[c].kind
      /\ ops[o] \in OpRecord /\ ops \in [Ops -> OpRecord] /\ DoneOK(c)
      /\ runner \in [Calls -> RunnerRecord] /\ calls \in [Calls -> CallRecord]
      /\ c # NoCall /\ phase = "running"
      /\ ops[o].state = "received" => ops[o].synthReply[1] # NoCall
  BY RunnerAlone, RecordedFacts, ConstantsAssumption DEF TypeOK, DecisionInv, ReceivedOK
<1>2. (AppliedReply(c) => calls[c].status \in Answers) /\ ReviewOK(c)
  BY RecordedFacts
<1>3. CASE LaunchCall(c) \/ AcceptReply(c)
  <2>1. ~Decided(o) /\ UNCHANGED ops
    BY <1>3, OpenFacts DEF LaunchCall, CanLaunch, AcceptReply, Flying
  <2>2. runner'[c].pc # "publishing"
    BY <1>1, <1>3 DEF LaunchCall, AcceptReply, Goto, RunnerRecord
  <2>3. QED
    BY <1>1, <2>1, <2>2 DEF DoneOK, Decided
<1>4. CASE \/ LaunchRefused(c) \/ AgentFails(c) \/ ReadStatus(c) \/ FailureRefused(c)
           \/ ApplyAgain(c) \/ CloseTask(c)
  <2>1. UNCHANGED <<calls, ops>>
    BY <1>4 DEF LaunchRefused, AgentFails, ReadStatus, FailureRefused, ApplyAgain,
       CloseTask
  <2>2. runner'[c].pc # "publishing"
    BY <1>1, <1>4 DEF LaunchRefused, AgentFails, ReadStatus, FailureRefused, ApplyAgain,
       CloseTask, Goto, Return, RunAborts, Idle, RunnerRecord
  <2>3. QED
    BY <1>1, <2>1, <2>2 DEF DoneOK, Decided, Unsettled, AppliedReply, Reply
<1>5. CASE RecordFailure(c) \/ RejectReply(c)
  <2>1. /\ ~Decided(o) /\ runner'[c].pc # "publishing"
        /\ UNCHANGED ops \/ ops' = [ops EXCEPT ![o].state = "needs_attention"]
    BY <1>5, FailureFaithful
  <2>2. ~Decided(o)' /\ ops'[o].synthReply = ops[o].synthReply
        /\ ops'[o].state \in {ops[o].state, "needs_attention"}
    BY <1>1, <2>1 DEF Decided, OpRecord
  <2>3. QED
    BY <1>1, <2>1, <2>2 DEF DoneOK
<1>6. CASE MarkCommitted(c)
  <2>1. UNCHANGED ops /\ calls'[c].status = "committed" /\ runner'[c].pc = "idle"
    BY <1>1, <1>6 DEF MarkCommitted, SetCall, CommitResult, Return, Idle, CallRecord
  <2>2. QED
    BY <1>1, <2>1 DEF DoneOK, Decided, Unsettled, Live
<1>7. CASE ApplySynthesis(c)
  <2>1. /\ Awaited(c) /\ UNCHANGED calls /\ calls[c].kind = "synthesizer"
        /\ calls[c].status = "completed"
    BY <1>7 DEF ApplySynthesis, Awaited, Status
  <2>2. ~Decided(o) /\ ops[o].state = "synthesizing"
    BY <2>1, OpenFacts DEF Awaited, Reviewing
  <2>3. CASE ops' = [ops EXCEPT ![o].synth = NoCall] /\ Goto(c, "marking")
    <3>1. ops'[o].state = "synthesizing" /\ runner'[c].pc # "publishing"
      BY <1>1, <2>2, <2>3 DEF OpRecord, Goto, RunnerRecord
    <3>2. QED
      BY <1>1, <2>2, <3>1 DEF DoneOK, Decided
  <2> DEFINE Took(s) == [[ops[o] EXCEPT !.synthReply = Reply(c)] EXCEPT !.state = s]
  <2>4. ASSUME NEW s, ops' = [ops EXCEPT ![o] = Took(s)]
        PROVE  ops'[o].state = s /\ ops'[o].synthReply = Reply(c)
    BY <1>1, <2>4 DEF OpRecord
  <2>5. Reply(c)' = Reply(c) /\ Reply(c)[1] = c
    BY <2>1 DEF Reply
  <2>6. CASE \E s \in {"committed", "verifying"}, pc \in {"closing", "marking"} :
                Goto(c, pc) /\ ops' = [ops EXCEPT ![o] = Took(s)]
    <3> HIDE DEF Took
    <3>0. PICK s \in {"committed", "verifying"}, pc \in {"closing", "marking"} :
             Goto(c, pc) /\ ops' = [ops EXCEPT ![o] = Took(s)]
      BY <2>6
    <3>1. runner'[c].pc # "publishing"
      BY <1>1, <3>0 DEF Goto, RunnerRecord
    <3>2. ops'[o].synthReply = Reply(c) /\ ops'[o].state = s
      BY <2>4, <3>0, Zenon
    <3>3. AppliedReply(c)'
      BY <1>1, <2>1, <2>5, <3>2 DEF AppliedReply
    <3>4. QED
      BY <1>1, <2>1, <2>2, <3>0, <3>1, <3>2, <3>3 DEF DoneOK
  <2>7. CASE /\ o \notin FactOps /\ Goto(c, "publishing")
             /\ ops' = [ops EXCEPT ![o] = Took("received")]
    <3> HIDE DEF Took
    <3>1. ops'[o].synthReply = Reply(c) /\ ops'[o].state = "received"
      BY <2>4, <2>7, Zenon
    <3>2. AppliedReply(c)'
      BY <1>1, <2>1, <2>5, <3>1 DEF AppliedReply
    <3>3. QED
      BY <1>1, <2>1, <2>2, <2>5, <2>7, <3>1, <3>2 DEF DoneOK, Decided
  <2>8. QED
    BY <1>7, <2>3, <2>6, <2>7 DEF ApplySynthesis
<1>8. CASE ApplyCorrect(c) \/ ApplyIncorrect(c)
  <2>1. /\ Awaited(c) /\ calls[c].kind = "verifier" /\ calls[c].status = "completed"
        /\ ~Decided(o) /\ ops[o].state = "verifying"
    BY <1>8, OpenFacts DEF ApplyCorrect, ApplyIncorrect, Awaited, Reviewing, Status
  <2>2. CASE ApplyCorrect(c)
    <3>1. /\ UNCHANGED calls
          /\ ops'[o].verifReply = Reply(c) /\ ops'[o].state = "verifying"
      BY <1>1, <2>1, <2>2 DEF ApplyCorrect, OpRecord
    <3>2. AppliedReply(c)'
      BY <2>1, <3>1 DEF AppliedReply, Reply
    <3>3. QED
      BY <1>1, <2>1, <3>1, <3>2 DEF DoneOK, Decided
  <2>3. CASE ApplyIncorrect(c)
    <3>1. /\ calls'[c].status = "committed" /\ ops'[o].state = "rejected"
          /\ runner'[c].pc = "marking"
      BY <1>1, <2>1, <2>3 DEF ApplyIncorrect, OpRecord, SetCall, CommitResult, CallRecord,
         Goto, RunnerRecord
    <3>2. QED
      BY <1>1, <2>1, <3>1 DEF DoneOK, Unsettled, Live
  <2>4. QED
    BY <1>8, <2>2, <2>3
<1>9. CASE Publish(c)
  <2>1. /\ runner[c].pc = "publishing" /\ AppliedReply(c) /\ ~Decided(o)
        /\ Published(o) /\ runner'[c].pc \in {"marking", "closing"}
    BY <1>1, <1>9, OpenFacts DEF Publish, DoneOK, Goto, RunnerRecord
  <2>2. \/ calls'[c].status = "committed"
        \/ calls'[c] = calls[c]
    BY <1>1, <1>9 DEF Publish, SetCall, CommitResult, CallRecord
  <2>3. /\ ops'[o].synthReply = ops[o].synthReply /\ ops'[o].verifReply = ops[o].verifReply
        /\ ops'[o].state \in {"committed", "rejected", "needs_attention"}
    BY <1>1, <2>1 DEF Published, OpRecord
  <2>4. calls'[c] = calls[c] => AppliedReply(c)'
    BY <2>1, <2>3 DEF AppliedReply, Reply
  <2>5. Unsettled(c)' => calls'[c].status = "completed" /\ AppliedReply(c)'
    BY <1>2, <2>1, <2>2, <2>4 DEF Unsettled, Live, Answers
  <2>6. QED
    BY <1>1, <2>1, <2>3, <2>5 DEF DoneOK
<1>10. CASE CommitMain(c) \/ CommitExplorer(c)
  BY <1>10 DEF CommitMain, CommitExplorer, IsReview
<1>11. QED
  BY <1>3, <1>4, <1>5, <1>6, <1>7, <1>8, <1>9, <1>10 DEF RunnerStep

(* A review whose operation is decided by another one.                     *)
LEMMA RunnerOther ==
    ASSUME TypeOK, GuardInv, ReplyInv, DecisionInv, NEW c \in Calls, IsReview(c),
           RunnerStep(c), NEW d \in Calls \ {c}, IsReview(d),
           calls[d].owner = calls[c].owner
    PROVE  DoneOK(d)'
<1> DEFINE o == calls[c].owner
<1>1. /\ o \in Ops /\ calls'[d] = calls[d] /\ runner'[d].pc = "idle"
      /\ runner[d].pc = "idle" /\ phase = "running" /\ runner[c].pc # "idle"
      /\ ops[o] \in OpRecord /\ ops \in [Ops -> OpRecord] /\ DoneOK(d)
  <2>1. /\ runner[c].pc # "idle" /\ phase = "running"
        /\ calls'[d] = calls[d] /\ runner'[d].pc \in {runner[d].pc, "idle"}
    BY RunnerAlone DEF Calm
  <2>2. runner[d].pc = "idle"
    BY <2>1 DEF DecisionInv, OneControl, IsReview
  <2>3. QED
    BY <2>1, <2>2, RecordedFacts DEF TypeOK, DecisionInv
<1>2. SUFFICES ASSUME ops'[o].state \in {"committed", "rejected"}, Unsettled(d)
               PROVE  calls[d].status = "completed" /\ AppliedReply(d)'
  BY <1>1 DEF DoneOK, Unsettled, Decided
<1>3. CASE SameOp(o)
  <2>1. calls[d].status = "completed" /\ AppliedReply(d)
    BY <1>1, <1>2, <1>3 DEF SameOp, DoneOK, Decided
  <2>2. QED
    BY <1>1, <1>3, <2>1 DEF SameOp, AppliedReply, Reply
<1>4. CASE RecordFailure(c) \/ RejectReply(c)
  <2>1. /\ ~Decided(o)
        /\ UNCHANGED ops \/ ops' = [ops EXCEPT ![o].state = "needs_attention"]
    BY <1>4, FailureFaithful
  <2>2. QED
    BY <1>1, <1>2, <2>1 DEF Decided, OpRecord
<1>5. CASE ApplySynthesis(c)
  <2>1. /\ calls[c].kind = "synthesizer" /\ ops[o].synth = c /\ ops[o].verif = NoCall
    BY <1>5, AwaitedFacts DEF ApplySynthesis
  <2>2. QED
    BY <1>1, <1>2, <2>1, OthersAnswered
<1>6. CASE ApplyCorrect(c) \/ ApplyIncorrect(c) \/ Publish(c)
  <2>1. ops'[o].synthReply = ops[o].synthReply
    BY <1>1, <1>6 DEF ApplyCorrect, ApplyIncorrect, Publish, Published, OpRecord
  <2>2. calls[c].kind = "synthesizer" => ops[o].synth = c /\ o \notin FactOps
    <3>1. ASSUME calls[c].kind = "synthesizer"
          PROVE  AppliedReply(c) /\ o \notin FactOps
      BY <1>6, <3>1 DEF ApplyCorrect, ApplyIncorrect, Publish, DecisionInv, DoneOK
    <3>2. QED
      BY <3>1, RecordedFacts, ConstantsAssumption DEF OpOK, SynthTaken
  <2>3. /\ calls[d].kind = "synthesizer" /\ calls[d].status = "completed"
        /\ AppliedReply(d)
    BY <1>1, <1>2, <2>2, OthersAnswered
  <2>4. AppliedReply(d)'
    BY <1>1, <2>1, <2>3 DEF AppliedReply, Reply
  <2>5. QED
    BY <2>3, <2>4
<1>7. CASE \/ LaunchCall(c) \/ LaunchRefused(c) \/ AcceptReply(c) \/ AgentFails(c)
           \/ ReadStatus(c) \/ FailureRefused(c) \/ CommitExplorer(c)
           \/ ApplyAgain(c) \/ CloseTask(c) \/ MarkCommitted(c)
  <2>1. UNCHANGED ops
    BY <1>7 DEF LaunchCall, LaunchRefused, AcceptReply, AgentFails, ReadStatus,
       FailureRefused, CommitExplorer, ApplyAgain, CloseTask, MarkCommitted
  <2>2. QED
    BY <1>3, <2>1 DEF SameOp
<1>8. ~CommitMain(c)
  BY DEF CommitMain, IsReview
<1>9. QED
  BY <1>4, <1>5, <1>6, <1>7, <1>8 DEF RunnerStep

LEMMA RunnerFaithful ==
    ASSUME TypeOK, GuardInv, ReplyInv, DecisionInv, NEW c \in Calls, RunnerStep(c)
    PROVE  Faithful
<1>1. /\ \A d \in Calls \ {c} : IsReview(d) => Calm(d)
      /\ \A p \in Ops : p # calls[c].owner \/ ~IsReview(c) => ops'[p] = ops[p]
      /\ \A d \in Calls : calls'[d].kind = calls[d].kind /\ calls'[d].owner = calls[d].owner
  BY RunnerAlone
<1>2. \A d \in Calls : ~IsReview(d) => DoneOK(d)'
  BY <1>1 DEF DoneOK, IsReview
<1>3. \A d \in Calls : IsReview(d) => calls[d].owner \in Ops /\ DoneOK(d)
  BY RecordedFacts DEF DecisionInv
<1>4. ASSUME NEW d \in Calls, IsReview(d) PROVE DoneOK(d)'
  <2>1. CASE d = c
    BY <1>4, <2>1, RunnerOwn
  <2>2. CASE d # c /\ (calls[d].owner # calls[c].owner \/ ~IsReview(c))
    <3>1. ops'[calls[d].owner] = ops[calls[d].owner]
      BY <1>1, <1>3, <1>4, <2>2
    <3>2. QED
      BY <1>1, <1>3, <1>4, <2>2, <3>1, CalmKeeps DEF SameOp
  <2>3. CASE d # c /\ calls[d].owner = calls[c].owner /\ IsReview(c)
    BY <1>4, <2>3, RunnerOther
  <2>4. QED
    BY <2>1, <2>2, <2>3
<1>5. ASSUME NEW o \in Ops
      PROVE  /\ Decided(o) => ops'[o].state = ops[o].state
             /\ ops'[o].state = "received" => ops'[o].synthReply[1] # NoCall
  <2>1. CASE o = calls[c].owner /\ IsReview(c)
    BY <2>1, RunnerOwn
  <2>2. CASE ~(o = calls[c].owner /\ IsReview(c))
    BY <1>1, <2>2 DEF DecisionInv, ReceivedOK
  <2>3. QED
    BY <2>1, <2>2
<1>6. QED
  BY <1>2, <1>4, <1>5 DEF Faithful, ReceivedOK

(* A step that leaves the operations, and each review, alone.              *)
LEMMA CalmFaithful ==
    ASSUME TypeOK, ReplyInv, DecisionInv,
           \A o \in Ops : SameOp(o),
           \A d \in Calls : IsReview(d)' => IsReview(d) /\ (Calm(d) \/ DoneOK(d)')
    PROVE  Faithful
<1>1. ASSUME NEW d \in Calls PROVE DoneOK(d)'
  <2>1. CASE ~IsReview(d)'
    BY <2>1 DEF DoneOK
  <2>2. CASE IsReview(d)' /\ Calm(d)
    <3>1. IsReview(d) /\ calls[d].owner \in Ops /\ DoneOK(d)
      BY <2>2, RecordedFacts DEF DecisionInv
    <3>2. QED
      BY <2>2, <3>1, CalmKeeps
  <2>3. QED
    BY <2>1, <2>2
<1>2. \A o \in Ops : Decided(o) => ops'[o].state = ops[o].state
  BY DEF SameOp
<1>3. ReceivedOK'
  BY DEF DecisionInv, ReceivedOK, SameOp
<1>4. QED
  BY <1>1, <1>2, <1>3 DEF Faithful

(* The steps of the other kinds of calls, of the worker attempt and of a   *)
(* full stop.                                                              *)
LEMMA OthersFaithful ==
    ASSUME TypeOK, CallInv, GuardInv, ReplyInv, DecisionInv, Next,
           \/ \E c \in Calls : \/ PrepareMain(c) \/ PrepareExplorer(c) \/ Pick(c)
                              \/ ContainExplorer(c) \/ ExpireExplorer(c)
           \/ \E evidence \in SUBSET (Ops \ FactOps) : AttemptEnds(evidence)
           \/ StartAttempt \/ CancelControl \/ Stop \/ Recover \/ FinishRecovery
    PROVE  Faithful
<1>0. UNCHANGED ops /\ \A o \in Ops : SameOp(o)
  BY DEF PrepareMain, PrepareExplorer, Pick, ContainExplorer, ExpireExplorer, AttemptEnds,
     StartAttempt, CancelControl, Stop, Recover, FinishRecovery, SameOp
<1>1. CASE \/ StartAttempt \/ FinishRecovery \/ Stop
           \/ \E evidence \in SUBSET (Ops \ FactOps) : AttemptEnds(evidence)
  <2>1. UNCHANGED calls /\ (UNCHANGED runner \/ RunAborts)
    BY <1>1, Zenon DEF StartAttempt, FinishRecovery, Stop, AttemptEnds
  <2>2. \A d \in Calls : runner'[d].pc \in {runner[d].pc, "idle"}
    BY <2>1 DEF RunAborts, Idle
  <2>3. QED
    BY <1>0, <2>1, <2>2, CalmFaithful DEF Calm, IsReview
<1>2. CASE \E c \in Calls : PrepareMain(c) \/ PrepareExplorer(c)
  <2>1. PICK c \in Calls : PrepareMain(c) \/ PrepareExplorer(c)
    BY <1>2
  <2>2. /\ calls'[c].kind \in {"main", "explorer"} /\ UNCHANGED runner
        /\ \A d \in Calls \ {c} : calls'[d] = calls[d]
    BY <2>1 DEF PrepareMain, PrepareExplorer, SetCall, PrepareCall, TypeOK
  <2>3. QED
    BY <1>0, <2>2, CalmFaithful DEF Calm, IsReview
<1>3. CASE \E c \in Calls : Pick(c)
  <2>1. PICK c \in Calls : Pick(c)
    BY <1>3
  <2>2. /\ UNCHANGED calls /\ \A d \in Calls \ {c} : runner'[d] = runner[d]
        /\ runner'[c].pc # "publishing"
    BY <2>1 DEF Pick, Goto, TypeOK, RunnerRecord
  <2>3. DoneOK(c)'
    BY <1>0, <2>2 DEF DecisionInv, DoneOK, IsReview, SameOp, Decided, Unsettled,
       AppliedReply, Reply
  <2>4. QED
    BY <1>0, <2>2, <2>3, CalmFaithful DEF Calm, IsReview
<1>4. CASE \E c \in Calls : ContainExplorer(c) \/ ExpireExplorer(c)
  <2>1. PICK c \in Calls : ContainExplorer(c) \/ ExpireExplorer(c)
    BY <1>4
  <2>2. /\ UNCHANGED calls \/ (calls[c].kind = "explorer" /\ SetCall(c, Cancel(calls[c])))
        /\ \A d \in Calls : runner'[d].pc \in {runner[d].pc, "idle"}
    BY <2>1 DEF ContainExplorer, ExpireExplorer, Contained, Return, RunAborts, Idle,
       GuardInv, ExploringOK, TypeOK
  <2>3. \A d \in Calls : IsReview(d)' => calls'[d] = calls[d]
    <3>1. CASE UNCHANGED calls
      BY <3>1
    <3>2. CASE calls[c].kind = "explorer" /\ SetCall(c, Cancel(calls[c]))
      <4>1. /\ \A d \in Calls \ {c} : calls'[d] = calls[d]
            /\ calls'[c].kind = "explorer"
        BY <3>2 DEF SetCall, Cancel, TypeOK, CallRecord
      <4>2. QED
        BY <4>1 DEF IsReview
    <3>3. QED
      BY <2>2, <3>1, <3>2
  <2>4. QED
    BY <1>0, <2>2, <2>3, CalmFaithful DEF Calm, IsReview
<1>5. CASE CancelControl
  <2>1. /\ UNCHANGED runner
        /\ \A d \in Calls : calls'[d] = IF calls[d].kind = "main" /\ Status(d) \notin Settled
                                       THEN CancelAndAdvance(calls[d]) ELSE calls[d]
    BY <1>5 DEF CancelControl, OfKind
  <2>2. \A d \in Calls : calls'[d].kind = calls[d].kind
    BY <2>1, ReducerKinds DEF TypeOK
  <2>3. QED
    BY <1>0, <2>1, <2>2, CalmFaithful DEF Calm, IsReview
<1>6. CASE Recover
  <2>1. /\ \A d \in Calls : calls'[d] = ReconcileAfterStop(calls[d]) /\ calls[d] \in CallRecord
        /\ UNCHANGED <<ops, runner>> /\ \A d \in Calls : runner[d].pc = "idle"
    BY <1>6 DEF Recover, GuardInv, StoppedOK, TypeOK
  <2>2. ASSUME NEW d \in Calls, IsReview(d)' PROVE IsReview(d) /\ DoneOK(d)'
    <3>1. /\ calls'[d].kind = calls[d].kind /\ calls'[d].owner = calls[d].owner
          /\ calls'[d].result = calls[d].result
          /\ \/ calls'[d].status = calls[d].status
             \/ calls[d].status \in {"prepared", "running"}
      <4>1. calls'[d] = ReconcileAfterStop(calls[d]) /\ calls[d] \in CallRecord
        BY <2>1
      <4>2. CASE LostByStop(calls[d])
        BY <4>1, <4>2 DEF ReconcileAfterStop, LostByStop, CallRecord
      <4>3. CASE ~LostByStop(calls[d])
        BY <4>1, <4>3 DEF ReconcileAfterStop
      <4>4. QED
        BY <4>2, <4>3
    <3>2. IsReview(d)
      BY <2>2, <3>1 DEF IsReview
    <3>3. Decided(calls[d].owner) => calls'[d].status = calls[d].status
      BY <3>1, <3>2, OpenFacts
    <3>4. QED
      BY <2>1, <3>1, <3>2, <3>3 DEF DecisionInv, DoneOK, Decided, Unsettled, AppliedReply,
         Reply, IsReview
  <2>3. QED
    BY <1>0, <2>2, CalmFaithful
<1>7. QED
  BY <1>1, <1>2, <1>3, <1>4, <1>5, <1>6

(* The remaining steps: a reply that comes late, a review that is prepared *)
(* and a released call that is linked to its operation again.              *)
LEMMA CallsFaithful ==
    ASSUME TypeOK, CallInv, GuardInv, ReplyInv, DecisionInv, NEW c \in Calls,
           \/ LateReply(c) \/ ReattachOwner(c)
           \/ \E o \in Ops, kind \in {"synthesizer", "verifier"} : PrepareReview(c, o, kind)
    PROVE  Faithful
<1>1. CASE LateReply(c)
  <2>1. /\ UNCHANGED <<runner, ops>> /\ \A o \in Ops : SameOp(o)
        /\ \A d \in Calls \ {c} : calls'[d] = calls[d]
        /\ calls[c] \in CallRecord
    BY <1>1 DEF LateReply, SetCall, TypeOK, SameOp
  <2>2. PICK n : calls'[c] = ReceiveResult(calls[c], n)
    BY <1>1 DEF LateReply, SetCall, TypeOK
  <2>3. CASE calls[c].status # "running"
    <3>1. calls'[c] = calls[c]
      BY <2>2, <2>3 DEF ReceiveResult
    <3>2. QED
      BY <2>1, <3>1, CalmFaithful DEF Calm, IsReview
  <2>4. CASE calls[c].status = "running"
    <3>1. calls'[c].kind = calls[c].kind /\ calls'[c].owner = calls[c].owner
      BY <2>1, <2>2, <2>4 DEF ReceiveResult, CallRecord
    <3>2. ASSUME IsReview(c)' PROVE IsReview(c) /\ DoneOK(c)'
      <4>1. IsReview(c)
        BY <3>1, <3>2 DEF IsReview
      <4>2. ~Decided(calls[c].owner) /\ runner[c].pc # "publishing"
        <5>1. ~Decided(calls[c].owner)
          BY <2>4, <4>1, OpenFacts
        <5>2. AppliedReply(c) => calls[c].status # "running"
          BY <4>1, RecordedFacts DEF Answers
        <5>3. QED
          BY <2>4, <4>1, <5>1, <5>2 DEF DecisionInv, DoneOK
      <4>3. QED
        BY <2>1, <3>1, <4>1, <4>2 DEF DoneOK, Decided
    <3>3. QED
      BY <2>1, <3>2, CalmFaithful DEF Calm, IsReview
  <2>5. QED
    BY <2>3, <2>4
<1>2. CASE ReattachOwner(c)
  <2>1. UNCHANGED <<calls, runner>> /\ \A o \in Ops : SameOp(o)
    BY <1>2 DEF ReattachOwner, SameOp, TypeOK, OpRecord
  <2>2. QED
    BY <2>1, CalmFaithful DEF Calm, IsReview
<1>3. ASSUME NEW o \in Ops, NEW kind \in {"synthesizer", "verifier"},
             PrepareReview(c, o, kind)
      PROVE  Faithful
  <2>1. /\ UNCHANGED runner /\ runner[c].pc = "idle"
        /\ calls'[c] = PrepareCall(kind, o, RetryLimit)
        /\ \A d \in Calls \ {c} : calls'[d] = calls[d]
        /\ ops[o].state = Reviewing(kind)
    BY <1>3 DEF PrepareReview, ControlThreadFree, Prepared, SetCall, TypeOK
  <2>2. \A p \in Ops : SameOp(p)
    <3>1. CASE kind = "synthesizer"
      BY <1>3, <3>1 DEF PrepareReview, SameOp, TypeOK, OpRecord
    <3>2. CASE kind = "verifier"
      BY <1>3, <3>2 DEF PrepareReview, SameOp, TypeOK, OpRecord
    <3>3. QED
      BY <3>1, <3>2
  <2>3. calls'[c].owner = o
    BY <2>1 DEF PrepareCall
  <2>4. ops'[o].state \notin {"committed", "rejected"}
    BY <2>1, <2>2 DEF SameOp, Reviewing
  <2>5. DoneOK(c)'
    BY <2>1, <2>3, <2>4 DEF DoneOK, Decided
  <2>6. ASSUME NEW d \in Calls PROVE DoneOK(d)'
    <3>1. CASE d = c
      BY <2>5, <3>1
    <3>2. CASE d # c /\ ~IsReview(d)
      BY <2>1, <3>2 DEF DoneOK, IsReview
    <3>3. CASE d # c /\ IsReview(d)
      <4>1. calls[d].owner \in Ops /\ DoneOK(d) /\ Calm(d)
        BY <2>1, <3>3, RecordedFacts DEF DecisionInv, Calm
      <4>2. QED
        BY <2>2, <3>3, <4>1, CalmKeeps
    <3>4. QED
      BY <3>1, <3>2, <3>3
  <2>7. QED
    BY <2>2, <2>6 DEF Faithful, DecisionInv, ReceivedOK, SameOp
<1>4. QED
  BY <1>1, <1>2, <1>3

(* The operator acts on operations that are open.                          *)
LEMMA OperatorFaithful ==
    ASSUME TypeOK, CallInv, GuardInv, ReplyInv, DecisionInv,
           \/ \E c \in Calls : OperatorRetry(c)
           \/ \E o \in Ops : OperatorAbandon(o)
    PROVE  Faithful
<1>0. /\ UNCHANGED runner /\ \A d \in Calls : IsReview(d) => runner[d].pc = "idle"
      /\ \A d \in Calls : IsReview(d) => calls[d].owner \in Ops /\ DoneOK(d)
      /\ ops \in [Ops -> OpRecord]
  BY RecordedFacts DEF OperatorRetry, OperatorAbandon, ControlThreadFree, IsReview, DecisionInv,
     TypeOK
<1>1. CASE \E c \in Calls : OperatorRetry(c)
  <2>1. PICK c \in Calls : OperatorRetry(c)
    BY <1>1
  <2> DEFINE o == calls[c].owner
  <2>2. /\ calls[c] \in CallRecord /\ calls[c].status = "needs_attention"
        /\ calls'[c] = AuthorizeRetry(calls[c])
        /\ \A d \in Calls \ {c} : calls'[d] = calls[d]
        /\ RestoreOwner(c)
    BY <2>1 DEF OperatorRetry, CanAuthorize, SetCall, TypeOK
  <2>3. calls'[c].kind = calls[c].kind /\ calls'[c].owner = o
    BY <2>2 DEF AuthorizeRetry, CallRecord
  <2>4. CASE ~IsReview(c)
    <3>1. UNCHANGED ops /\ \A p \in Ops : SameOp(p)
      BY <2>2, <2>4 DEF RestoreOwner, SameOp
    <3>2. QED
      BY <1>0, <2>2, <2>3, <2>4, <3>1, CalmFaithful DEF IsReview, Calm
  <2>5. CASE IsReview(c)
    <3>1. /\ o \in Ops /\ ops[o].state = "needs_attention"
          /\ ops' = [ops EXCEPT ![o].state = Reviewing(calls[c].kind)]
      BY <1>0, <2>2, <2>5 DEF RestoreOwner
    <3>2. /\ \A p \in Ops \ {o} : ops'[p] = ops[p]
          /\ ops'[o].state \in {"synthesizing", "verifying"}
      BY <1>0, <3>1 DEF OpRecord, Reviewing
    <3>3. ASSUME NEW d \in Calls PROVE DoneOK(d)'
      <4>1. calls'[d].kind = calls[d].kind /\ calls'[d].owner = calls[d].owner
        BY <2>2, <2>3
      <4>2. CASE ~IsReview(d)
        BY <4>1, <4>2 DEF DoneOK, IsReview
      <4>3. CASE IsReview(d) /\ calls[d].owner = o
        <5>1. runner'[d].pc = "idle" /\ ops'[calls'[d].owner].state \in {"synthesizing", "verifying"}
          BY <1>0, <3>2, <4>1, <4>3
        <5>2. QED
          BY <5>1 DEF DoneOK, Decided
      <4>4. CASE IsReview(d) /\ calls[d].owner # o
        <5>1. SameOp(calls[d].owner) /\ Calm(d) /\ DoneOK(d)
          BY <1>0, <2>2, <3>2, <4>4 DEF SameOp, Calm
        <5>2. QED
          BY <4>4, <5>1, CalmKeeps
      <4>5. QED
        BY <4>2, <4>3, <4>4
    <3>4. \A p \in Ops : Decided(p) => ops'[p].state = ops[p].state
      BY <3>1, <3>2 DEF Decided
    <3>5. ReceivedOK'
      BY <3>2 DEF DecisionInv, ReceivedOK
    <3>6. QED
      BY <3>3, <3>4, <3>5 DEF Faithful
  <2>6. QED
    BY <2>4, <2>5
<1>2. CASE \E o \in Ops : OperatorAbandon(o)
  <2>1. PICK o \in Ops : OperatorAbandon(o)
    BY <1>2
  <2>2. /\ ops' = [ops EXCEPT ![o].state = "abandoned"] /\ ~Decided(o)
        /\ \A d \in Calls : calls'[d] = calls[d] \/ calls'[d] = Fence(calls[d], "superseded")
    BY <2>1 DEF OperatorAbandon, Decided, FinalOpStates
  <2>3. (\A p \in Ops \ {o} : ops'[p] = ops[p]) /\ ops'[o].state = "abandoned"
    BY <1>0, <2>2 DEF OpRecord
  <2>4. ASSUME NEW d \in Calls PROVE DoneOK(d)'
    <3>1. CASE calls'[d] = calls[d] /\ ~IsReview(d)
      BY <3>1 DEF DoneOK, IsReview
    <3>2. CASE calls'[d] = calls[d] /\ IsReview(d) /\ calls[d].owner = o
      BY <1>0, <2>3, <3>2 DEF DoneOK, Decided
    <3>3. CASE calls'[d] = calls[d] /\ IsReview(d) /\ calls[d].owner # o
      <4>1. SameOp(calls[d].owner) /\ Calm(d) /\ DoneOK(d)
        BY <1>0, <2>3, <3>3 DEF SameOp, Calm
      <4>2. QED
        BY <3>3, <4>1, CalmKeeps
    <3>4. CASE calls'[d] = Fence(calls[d], "superseded")
      <4>1. calls'[d].kind = calls[d].kind /\ calls'[d].status = "superseded"
        BY <3>4 DEF Fence, TypeOK, CallRecord
      <4>2. QED
        BY <1>0, <4>1 DEF DoneOK, IsReview, Unsettled, Live
    <3>5. QED
      BY <2>2, <3>1, <3>2, <3>3, <3>4
  <2>5. \A p \in Ops : Decided(p) => ops'[p].state = ops[p].state
    BY <2>2, <2>3
  <2>6. ReceivedOK'
    BY <2>3 DEF DecisionInv, ReceivedOK
  <2>7. QED
    BY <2>4, <2>5, <2>6 DEF Faithful
<1>3. QED
  BY <1>1, <1>2

(* The replay of a publication decides an operation all of whose open      *)
(* reviews have given the recorded replies.                                *)
LEMMA ReplayFaithful ==
    ASSUME TypeOK, CallInv, GuardInv, ReplyInv, DecisionInv, NEW o \in Ops,
           ReplayPublication(o)
    PROVE  Faithful
<1>1. /\ UNCHANGED runner /\ \A d \in Calls : runner[d].pc = "idle"
      /\ OpOK(o) /\ ops[o] \in OpRecord /\ ops \in [Ops -> OpRecord] /\ ~Decided(o)
      /\ NoCall \notin Calls /\ Published(o)
      /\ \/ ops[o].state = "received"
         \/ ops[o].state \in {"verifying", "needs_attention"} /\ ops[o].verified
  BY ConstantsAssumption DEF ReplayPublication, GuardInv, StoppedOK, ReplyInv, TypeOK, Decided
<1>2. /\ \A p \in Ops \ {o} : ops'[p] = ops[p]
      /\ ops'[o].synthReply = ops[o].synthReply /\ ops'[o].verifReply = ops[o].verifReply
      /\ ops'[o].state \in {"committed", "rejected", "needs_attention"}
  BY <1>1 DEF Published, OpRecord
<1>3. /\ ops[o].synthReply[1] # NoCall
      /\ ops[o].verif # NoCall => ops[o].verifReply[1] = ops[o].verif
  <2>1. CASE ops[o].state = "received"
    BY <1>1, <2>1 DEF DecisionInv, ReceivedOK, OpOK, Staged
  <2>2. CASE ops[o].verified
    BY <1>1, <2>2 DEF OpOK, Staged, VerifTaken
  <2>3. QED
    BY <1>1, <2>1, <2>2
<1>4. ASSUME NEW d \in Calls
      PROVE  \/ calls'[d] = calls[d]
             \/ /\ calls'[d].status = "committed" /\ calls'[d].kind = calls[d].kind
                /\ calls'[d].owner = calls[d].owner
  BY DEF ReplayPublication, CommitResult, TypeOK, CallRecord
<1>5. ASSUME NEW d \in Calls, IsReview(d), calls[d].owner = o, Unsettled(d)
      PROVE  AppliedReply(d) /\ calls[d].status = "completed"
  <2>1. ReviewOK(d) /\ (Recorded(d) => AppliedReply(d) /\ calls[d].status \in Answers)
    BY <1>5, RecordedFacts
  <2>2. CASE calls[d].kind = "synthesizer"
    <3>1. ops[o].synth # NoCall
      BY <1>1, <1>3 DEF OpOK, SynthTaken, OpRecord, Replies
    <3>2. ops[o].synth = d
      BY <1>5, <2>1, <2>2, <3>1 DEF ReviewOK, Released
    <3>3. Recorded(d)
      BY <1>1, <1>3, <1>5, <3>2 DEF OpOK, SynthTaken, Recorded
    <3>4. QED
      BY <1>5, <2>1, <3>3 DEF Answers, Unsettled, Live
  <2>3. CASE calls[d].kind = "verifier"
    <3>1. ops[o].verif = d
      BY <1>5, <2>1, <2>3 DEF ReviewOK
    <3>2. Recorded(d)
      BY <1>1, <1>3, <1>5, <3>1 DEF Recorded
    <3>3. QED
      BY <1>5, <2>1, <3>2 DEF Answers, Unsettled, Live
  <2>4. QED
    BY <1>5, <2>2, <2>3 DEF IsReview
<1>6. ASSUME NEW d \in Calls, IsReview(d)' PROVE DoneOK(d)'
  <2>1. IsReview(d) /\ calls'[d].owner = calls[d].owner
    BY <1>4, <1>6 DEF IsReview
  <2>2. CASE calls'[d] # calls[d]
    BY <1>1, <1>4, <2>2 DEF DoneOK, Unsettled, Live
  <2>3. CASE calls'[d] = calls[d] /\ calls[d].owner # o
    <3>1. SameOp(calls[d].owner) /\ Calm(d) /\ DoneOK(d)
      BY <1>1, <1>2, <2>1, <2>3, RecordedFacts DEF SameOp, Calm, DecisionInv
    <3>2. QED
      BY <2>1, <3>1, CalmKeeps
  <2>4. CASE calls'[d] = calls[d] /\ calls[d].owner = o
    <3>1. AppliedReply(d)' <=> AppliedReply(d)
      BY <1>2, <2>4 DEF AppliedReply, Reply
    <3>2. Unsettled(d)' => Unsettled(d)
      BY <2>4 DEF Unsettled
    <3>3. QED
      BY <1>1, <1>5, <2>1, <2>4, <3>1, <3>2 DEF DoneOK
  <2>5. QED
    BY <2>2, <2>3, <2>4
<1>7. \A d \in Calls : DoneOK(d)'
  BY <1>6 DEF DoneOK
<1>8. (\A p \in Ops : Decided(p) => ops'[p].state = ops[p].state) /\ ReceivedOK'
  BY <1>1, <1>2 DEF DecisionInv, ReceivedOK
<1>9. QED
  BY <1>7, <1>8 DEF Faithful

(* Calls keep their kind and owner once they are prepared.                 *)
LEMMA ReducerOwners ==
    ASSUME NEW k \in CallRecord
    PROVE  /\ \A n : ReceiveResult(k, n).owner = k.owner
           /\ CommitResult(k).owner = k.owner /\ Fence(k, "superseded").owner = k.owner
           /\ Cancel(k).owner = k.owner /\ CancelAndAdvance(k).owner = k.owner
           /\ AuthorizeRetry(k).owner = k.owner /\ ReconcileAfterStop(k).owner = k.owner
BY DEF CallRecord, ReceiveResult, CommitResult, Fence, Cancel, CancelAndAdvance,
   AuthorizeRetry, ReconcileAfterStop

LEMMA OwnersStay ==
    ASSUME TypeOK, GuardInv, DecisionInv, Next
    PROVE  OwnersOK'
<1> DEFINE Kept(d) == calls'[d].kind = calls[d].kind /\ calls'[d].owner = calls[d].owner
<1>1. (\A d \in Calls : Kept(d)) => OwnersOK'
  BY DEF DecisionInv, OwnersOK, IsReview
<1>2. \A d \in Calls : calls'[d] = calls[d] => Kept(d)
  OBVIOUS
<1>3. \A d \in Calls : calls[d] \in CallRecord
  BY DEF TypeOK
<1>4. ASSUME NEW c \in Calls, NEW k, SetCall(c, k),
             k.kind = calls[c].kind, k.owner = calls[c].owner
      PROVE  \A d \in Calls : Kept(d)
  BY <1>4 DEF SetCall, TypeOK
<1> HIDE DEF Kept
<1>5. ASSUME NEW c \in Calls, RunnerStep(c) PROVE OwnersOK'
  BY <1>1, <1>5, RunnerAlone DEF Kept
<1>6. ASSUME NEW c \in Calls, NEW o \in Ops \cup {NoOp},
             NEW kind \in {"main", "explorer", "synthesizer", "verifier"},
             SetCall(c, PrepareCall(kind, o, RetryLimit)),
             kind \in {"main", "explorer"} => o = NoOp
      PROVE  OwnersOK'
  <2>1. /\ calls'[c].kind = kind /\ calls'[c].owner = o
        /\ \A d \in Calls \ {c} : calls'[d] = calls[d]
    BY <1>6 DEF SetCall, PrepareCall, TypeOK
  <2>2. QED
    BY <1>6, <2>1 DEF DecisionInv, OwnersOK, IsReview
<1>7. ASSUME NEW c \in Calls, PrepareMain(c) \/ PrepareExplorer(c) PROVE OwnersOK'
  BY <1>6, <1>7 DEF PrepareMain, PrepareExplorer
<1>8. ASSUME NEW c \in Calls, NEW o \in Ops, NEW kind \in {"synthesizer", "verifier"},
             PrepareReview(c, o, kind)
      PROVE  OwnersOK'
  BY <1>6, <1>8 DEF PrepareReview
<1>9. ASSUME NEW c \in Calls,
             Pick(c) \/ ContainExplorer(c) \/ ExpireExplorer(c) \/ OperatorRetry(c)
             \/ ReattachOwner(c) \/ LateReply(c)
      PROVE  OwnersOK'
  <2>1. \/ UNCHANGED calls
        \/ \E k \in {Cancel(calls[c]), AuthorizeRetry(calls[c])} : SetCall(c, k)
        \/ \E n : SetCall(c, ReceiveResult(calls[c], n))
    BY <1>9, Zenon DEF Pick, ContainExplorer, Contained, ExpireExplorer, OperatorRetry,
       ReattachOwner, LateReply
  <2>2. \A d \in Calls : Kept(d)
    BY <1>2, <1>3, <1>4, <2>1, ReducerKinds, ReducerOwners
  <2>3. QED
    BY <1>1, <2>2
<1>10. ASSUME NEW d \in Calls,
              \/ (\E o \in Ops : OperatorAbandon(o) \/ ReplayPublication(o))
              \/ CancelControl \/ Recover
       PROVE  Kept(d)
  <2>1. \/ calls'[d] = calls[d] \/ calls'[d] = Fence(calls[d], "superseded")
        \/ calls'[d] = CommitResult(calls[d]) \/ calls'[d] = CancelAndAdvance(calls[d])
        \/ calls'[d] = ReconcileAfterStop(calls[d])
    BY <1>10 DEF OperatorAbandon, ReplayPublication, CancelControl, Recover
  <2>2. QED
    BY <1>3, <2>1, ReducerKinds, ReducerOwners DEF Kept
<1>11. \/ \E evidence \in SUBSET (Ops \ FactOps) : AttemptEnds(evidence)
       \/ StartAttempt \/ Stop \/ FinishRecovery
       => OwnersOK'
  <2>1. \/ \E evidence \in SUBSET (Ops \ FactOps) : AttemptEnds(evidence)
        \/ StartAttempt \/ Stop \/ FinishRecovery
        => UNCHANGED calls
    BY Zenon DEF AttemptEnds, StartAttempt, Stop, FinishRecovery
  <2>2. QED
    BY <1>1, <1>2, <2>1
<1>12. QED
  BY <1>1, <1>5, <1>7, <1>8, <1>9, <1>10, <1>11 DEF Next

(* One thread runs all main and review calls.                              *)
LEMMA OneControlStays ==
    ASSUME TypeOK, CallInv, GuardInv, DecisionInv, Next
    PROVE  OneControl'
<1>1. \A d \in Calls : calls'[d].kind # "explorer" => calls[d].kind # "explorer"
  BY NextEffect, KindsStay
<1>2. CASE \E c \in Calls : Pick(c)
  <2>1. PICK c \in Calls : Pick(c)
    BY <1>2
  <2>2. /\ UNCHANGED calls /\ \A d \in Calls \ {c} : runner'[d] = runner[d]
        /\ calls[c].kind # "explorer" => ControlThreadFree
        /\ runner[c].pc = "idle"
    BY <2>1 DEF Pick, Goto, TypeOK
  <2>3. QED
    BY <2>2 DEF DecisionInv, OneControl, ControlThreadFree
<1>3. CASE ~\E c \in Calls : Pick(c)
  <2>1. ASSUME NEW c \in Calls, RunnerStep(c), NEW d \in Calls, runner'[d].pc # "idle"
        PROVE  runner[d].pc # "idle"
    <3>1. runner[c].pc # "idle"
      BY <2>1, RunnerAlone
    <3>2. ~RunAborts
      BY <2>1 DEF RunAborts, Idle
    <3>3. d # c => runner'[d] = runner[d]
      BY <2>1, <3>2, RunnerFrame
    <3>4. QED
      BY <2>1, <3>1, <3>3
  <2>2. ASSUME NEW c \in Calls, ContainExplorer(c), NEW d \in Calls, runner'[d].pc # "idle"
        PROVE  runner[d].pc # "idle"
    <3>1. ~RunAborts
      BY <2>2 DEF RunAborts, Idle
    <3>2. Return(c) /\ runner[c].pc = "exhausted"
      BY <2>2, <3>1 DEF ContainExplorer
    <3>3. QED
      BY <2>2, <3>2 DEF Return, TypeOK
  <2>3. Stop => \A d \in Calls : runner'[d].pc = "idle"
    BY DEF Stop, RunAborts, Idle
  <2>4. \/ UNCHANGED runner \/ Stop
        \/ \E c \in Calls : RunnerStep(c) \/ ContainExplorer(c)
    BY <1>3, Zenon DEF Next, PrepareMain, PrepareExplorer, ExpireExplorer, OperatorRetry,
       ReattachOwner, LateReply, PrepareReview, OperatorAbandon, ReplayPublication,
       AttemptEnds, StartAttempt, CancelControl, Recover, FinishRecovery
  <2>5. \A d \in Calls : runner'[d].pc # "idle" => runner[d].pc # "idle"
    BY <2>1, <2>2, <2>3, <2>4
  <2>6. QED
    BY <1>1, <2>5 DEF DecisionInv, OneControl
<1>4. QED
  BY <1>2, <1>3

LEMMA NextFaithful ==
    ASSUME TypeOK, CallInv, GuardInv, ReplyInv, DecisionInv, Next
    PROVE  Faithful
<1>1. ASSUME NEW c \in Calls, RunnerStep(c) PROVE Faithful
  BY <1>1, RunnerFaithful
<1>2. ASSUME NEW c \in Calls,
             \/ LateReply(c) \/ ReattachOwner(c)
             \/ \E o \in Ops, kind \in {"synthesizer", "verifier"} : PrepareReview(c, o, kind)
      PROVE  Faithful
  BY <1>2, CallsFaithful
<1>3. ASSUME NEW o \in Ops, ReplayPublication(o) PROVE Faithful
  BY <1>3, ReplayFaithful
<1>4. CASE (\E c \in Calls : OperatorRetry(c)) \/ \E o \in Ops : OperatorAbandon(o)
  BY <1>4, OperatorFaithful
<1>5. CASE \/ \E c \in Calls : \/ PrepareMain(c) \/ PrepareExplorer(c) \/ Pick(c)
                              \/ ContainExplorer(c) \/ ExpireExplorer(c)
           \/ \E evidence \in SUBSET (Ops \ FactOps) : AttemptEnds(evidence)
           \/ StartAttempt \/ CancelControl \/ Stop \/ Recover \/ FinishRecovery
  BY <1>5, OthersFaithful
<1>6. QED
  BY <1>1, <1>2, <1>3, <1>4, <1>5 DEF Next

LEMMA DecisionInductive ==
    /\ Init => DecisionInv
    /\ TypeOK /\ CallInv /\ GuardInv /\ ReplyInv /\ DecisionInv /\ [Next]_vars => DecisionInv'
<1>1. ASSUME Init PROVE DecisionInv
  <2>1. /\ \A c \in Calls : /\ calls[c].kind = "none" /\ calls[c].owner = NoOp
                            /\ runner[c].pc = "idle"
        /\ \A o \in Ops : ops[o].state = "synthesizing"
    BY <1>1 DEF Init, Absent, Idle
  <2>2. QED
    BY <2>1 DEF DecisionInv, OneControl, OwnersOK, ReceivedOK, DoneOK, IsReview
<1>2. ASSUME TypeOK, CallInv, GuardInv, ReplyInv, DecisionInv, Next PROVE DecisionInv'
  BY <1>2, NextFaithful, OwnersStay, OneControlStays DEF Faithful, DecisionInv
<1>3. ASSUME DecisionInv, UNCHANGED vars PROVE DecisionInv'
  BY <1>3 DEF DecisionInv, OneControl, OwnersOK, ReceivedOK, DoneOK, IsReview, Decided,
     Unsettled, AppliedReply, Reply, vars
<1>4. QED
  BY <1>1, <1>2, <1>3

(* A verdict or a publication is final: no later reply, retry, abandonment *)
(* or replay after a stop revises an operation that was committed or       *)
(* rejected.                                                               *)
THEOREM DispositionsStand == Spec => DispositionKept
<1> DEFINE Inv == TypeOK /\ CallInv /\ GuardInv /\ ReplyInv /\ DecisionInv
<1>1. Inv /\ [Next]_vars =>
        [\A o \in Ops : ops[o].state \in {"committed", "rejected"} =>
            ops'[o].state = ops[o].state]_vars
  BY NextFaithful DEF Faithful, Decided
<1>2. Spec => []Inv
  BY TypesHold, CallInvHolds, GuardInductive, ReplyInductive, DecisionInductive, PTL DEF Spec
<1>3. QED
  BY <1>1, <1>2, PTL DEF Spec, DispositionKept
=============================================================================
