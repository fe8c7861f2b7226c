---------------------------- MODULE LogicalCall ----------------------------
(***************************************************************************)
(* The reducer of one logical agent call                                   *)
(* (src/franta/execution_gateway/call_state.py, reduce_call).              *)
(*                                                                         *)
(* A call record carries the fields the transitions read or write:         *)
(*   kind    what is called, owner the operation whose continuation it is; *)
(*   status  the CallState, epoch the current lease epoch;                 *)
(*   fenced  the epochs that were fenced, attempt how often it launched;   *)
(*   retries and limit the persisted retry budget;                         *)
(*   result  the number of the launch whose reply was received, 0 before.  *)
(*                                                                         *)
(* Each event is a pair: a guard saying when reduce_call does not raise,   *)
(* and the record it returns.  An agent's reply is identified by the       *)
(* launch that produced it, so two replies have the same digest exactly    *)
(* when they come from the same launch.                                    *)
(***************************************************************************)
EXTENDS Naturals

NoLaunch == 0

CallStates == {"prepared", "running", "retry_pending", "completed",
               "committed", "superseded", "needs_attention", "cancelled"}

(* A call id that no call uses yet.                                        *)
Absent(nobody) ==
    [kind |-> "none", owner |-> nobody, status |-> "absent", epoch |-> 1,
     fenced |-> {}, attempt |-> 0, retries |-> 0, limit |-> 0,
     result |-> NoLaunch]

(* The call cannot be moved by its own runner any more.                    *)
Settled == {"committed", "superseded", "cancelled"}

(* The states that hold a place in the one-live-call and capacity checks.  *)
Live == {"prepared", "running", "retry_pending", "completed"}

PrepareCall(kind, owner, limit) ==
    [kind |-> kind, owner |-> owner, status |-> "prepared", epoch |-> 1,
     fenced |-> {}, attempt |-> 0, retries |-> 0, limit |-> limit,
     result |-> NoLaunch]

(* --- Launch ------------------------------------------------------------ *)
CanLaunch(k) == k.status \in {"prepared", "retry_pending"}

Launch(k) == [k EXCEPT !.status = "running", !.attempt = @ + 1]

(* --- ReceiveResult ----------------------------------------------------- *)
LeaseHeld(k, epoch) == epoch = k.epoch /\ epoch \notin k.fenced

(* Mutant of CanReceive: whoever replies first is heard. *)
CanReceiveFromAnyLease(k, epoch, launch) ==
    \/ k.status = "running"
    \/ k.status \in {"completed", "committed"} /\ k.result = launch

CanReceive(k, epoch, launch) ==
    /\ LeaseHeld(k, epoch)
    /\ \/ k.status = "running"
       \/ k.status \in {"completed", "committed"} /\ k.result = launch

ReceiveResult(k, launch) ==
    IF k.status = "running"
    THEN [k EXCEPT !.status = "completed", !.result = launch]
    ELSE k

(* --- CommitResult ------------------------------------------------------ *)
CanCommit(k) == k.status \in {"completed", "committed"}

CommitResult(k) == [k EXCEPT !.status = "committed"]

(* --- RecordTransportFailure: only the epoch is checked ----------------- *)
CanFail(k, epoch) == k.epoch = epoch

AfterRetry(k) ==
    IF k.retries + 1 <= k.limit THEN "retry_pending" ELSE "needs_attention"

RecordTransportFailure(k) ==
    [k EXCEPT !.status = AfterRetry(k), !.retries = @ + 1,
              !.fenced = @ \cup {k.epoch}, !.epoch = @ + 1]

(* --- RejectInvalidResult: the reply is dropped and the lease fenced ---- *)
CanReject(k) == k.status = "completed"

RejectInvalidResult(k) ==
    [k EXCEPT !.status = AfterRetry(k), !.retries = @ + 1,
              !.fenced = @ \cup {k.epoch}, !.epoch = @ + 1,
              !.result = NoLaunch]

(* --- Fence and Cancel: accepted from every status ---------------------- *)
Fence(k, target) ==
    [k EXCEPT !.status = target, !.fenced = @ \cup {k.epoch}]

Cancel(k) == [k EXCEPT !.status = "cancelled"]

CancelAndAdvance(k) ==
    [k EXCEPT !.status = "cancelled", !.fenced = @ \cup {k.epoch},
              !.epoch = @ + 1]

(* --- AuthorizeRetry: one more launch, and no retry after it ------------ *)
CanAuthorize(k) == k.status = "needs_attention"

AuthorizeRetry(k) == [k EXCEPT !.status = "retry_pending", !.limit = k.retries]

(* --- ReconcileAfterStop: nothing of this process survived the stop ----- *)
LostByStop(k) == k.status \in {"prepared", "running"}

ReconcileAfterStop(k) ==
    IF LostByStop(k)
    THEN [k EXCEPT !.status = IF k.retries >= k.limit THEN "needs_attention"
                                                      ELSE "retry_pending",
                   !.fenced = @ \cup {k.epoch}, !.epoch = @ + 1]
    ELSE k
=============================================================================
