------------------------ MODULE TaskLifecycleProofs ------------------------
(***************************************************************************)
(* What TaskLifecycle promises for every set of tasks, every number of     *)
(* slots, attempts, retries, operations and stops.                         *)
(***************************************************************************)
EXTENDS TaskLifecycle, FiniteSetTheorems, TLAPS

(***************************************************************************)
(* Types.                                                                  *)
(***************************************************************************)
TaskRecords ==
    [state : TaskStates, reserved : BOOLEAN,
     n : 0..MaxAttempts, retries : 0..RetryLimit,
     pending : Supplements, forced : BOOLEAN, stopped : BOOLEAN,
     outcome : Outcomes, evidence : SUBSET Ops,
     ambiguous : 0..MaxOps, reviewed : SUBSET Ops,
     digested : BOOLEAN, intent : Outcomes,
     unpublished : BOOLEAN, tail : BOOLEAN]

AttemptRecords == [state : AttemptStates, supp : Supplements]

OpRecords ==
    [state : OpStates, task : Tasks \cup {NoTask}, attempt : 0..MaxAttempts,
     kind : Kinds \cup {"none"}, chain : 0..MaxOps, request : Nat,
     review : {"none", "synthesizing", "verifying"},
     repair : BOOLEAN, refuted : BOOLEAN]

(* A repair names the Fact it is about.                                    *)
Sound(s) == s \in Supplements /\ (s.kind \in Repairs => s.cause \in Ops)

(* An operation under review, or whose review failed, names the review.    *)
Reviewed(rec) ==
    rec.state \in {"synthesizing", "verifying", "needs_attention"} =>
        rec.review # "none"

(* What the types rest on: repairs name Facts, a task that is about to be  *)
(* launched has an attempt left, and an operation that was received belongs*)
(* to an attempt of a task and to its review.                              *)
Linked ==
    /\ \A t \in Tasks :
         /\ Sound(task[t].pending)
         /\ \A k \in AttemptNos : Sound(att[t][k].supp)
         /\ task[t].state = "running" => task[t].n \in AttemptNos
    /\ at # "launch" => queue = {}
    /\ \A t \in queue : task[t].n < MaxAttempts
    /\ \A o \in Ops : op[o].state # "unused" =>
         /\ op[o].task \in Tasks
         /\ op[o].attempt \in 1..task[op[o].task].n
    /\ \A o \in Ops : Reviewed(op[o])

(* What the place of the main thread says of workers and operations: in the*)
(* loop no worker is left, a batch is launched when nothing is under       *)
(* review, and before a stop every running task has its process.           *)
Places ==
    /\ at = "loop" => alive = {}
    /\ at \in {"loop", "launch", "batch"} =>
         \A t \in Tasks : task[t].state = "running" => t \in alive
    /\ at \in {"loop", "launch"} => \A o \in Ops : op[o].state # "received"
    /\ at = "launch" =>
         \A o \in Ops :
            op[o].state \in FinalOpStates \cup {"unused", "needs_attention"}

(* A closing task has settled, and its evidence is its own.                *)
Frozen ==
    \A t \in Tasks :
        /\ task[t].intent # "none" =>
             task[t].state \in {"postprocessing", "closed"} /\ Settled(t)
        /\ task[t].evidence \subseteq OpsOf(t)

(* The inductive invariant.                                                *)
IInv ==
    /\ TypeOK /\ Linked /\ Places
    /\ OneRunningAttempt /\ ReviewsBeforeRelaunch
    /\ WorkersWithinSlots /\ RestingHoldsNoSlot
    /\ Frozen /\ EvidenceIsSound

(* Repairs that are cancelled leave a well-typed task.                     *)
LEMMA StaleTypes ==
    ASSUME NEW tasks \in [Tasks -> TaskRecords], NEW os, NEW r
    PROVE  /\ WithoutStale(tasks, os, r) \in [Tasks -> TaskRecords]
           /\ \A t \in Tasks :
                LET tk == tasks[t]
                    after == WithoutStale(tasks, os, r)[t]
                IN  /\ after.n = tk.n
                    /\ after.pending \in {tk.pending, Nothing}
                    /\ \/ after.state = tk.state /\ after.reserved = tk.reserved
                       \/ /\ tk.state \in {"revision_pending", "retry_pending"}
                          /\ after.state = "postprocessing" /\ ~after.reserved
                    /\ after.intent = tk.intent
                    /\ after.evidence = tk.evidence
                    /\ after.reviewed = tk.reviewed
<1>1. Nothing \in Supplements
  BY ConstantsAssumption DEF Nothing, Supplements, SupplementKinds
<1>2. ASSUME NEW t \in Tasks
      PROVE  /\ WithoutStale(tasks, os, r)[t] \in TaskRecords
             /\ LET tk == tasks[t]
                    after == WithoutStale(tasks, os, r)[t]
                IN  /\ after.n = tk.n
                    /\ after.pending \in {tk.pending, Nothing}
                    /\ \/ after.state = tk.state /\ after.reserved = tk.reserved
                       \/ /\ tk.state \in {"revision_pending", "retry_pending"}
                          /\ after.state = "postprocessing" /\ ~after.reserved
                    /\ after.intent = tk.intent
                    /\ after.evidence = tk.evidence
                    /\ after.reviewed = tk.reviewed
  <2>1. tasks[t] \in TaskRecords
    OBVIOUS
  <2>2. CASE ~Stale(os, tasks[t].pending, r)
    BY <2>1, <2>2 DEF WithoutStale
  <2>3. CASE /\ Stale(os, tasks[t].pending, r)
             /\ tasks[t].state \in {"revision_pending", "retry_pending"}
    <3>1. WithoutStale(tasks, os, r)[t]
            = [tasks[t] EXCEPT !.pending = Nothing, !.reserved = FALSE,
                               !.state = "postprocessing"]
      BY <2>3 DEF WithoutStale
    <3>2. QED
      BY <1>1, <2>1, <2>3, <3>1, ZenonT(40) DEF TaskRecords, TaskStates
  <2>4. CASE /\ Stale(os, tasks[t].pending, r)
             /\ tasks[t].state \notin {"revision_pending", "retry_pending"}
    <3>1. WithoutStale(tasks, os, r)[t] = [tasks[t] EXCEPT !.pending = Nothing]
      BY <2>4 DEF WithoutStale
    <3>2. QED
      BY <1>1, <2>1, <3>1 DEF TaskRecords
  <2>5. QED
    BY <2>2, <2>3, <2>4
<1>3. WithoutStale(tasks, os, r) = [t \in Tasks |-> WithoutStale(tasks, os, r)[t]]
  BY DEF WithoutStale
<1>4. QED
  BY <1>2, <1>3

(* An attempt that is lost leaves a task that rests or waits to be repeated.*)
LEMMA LossTypes ==
    ASSUME NEW tk \in TaskRecords, tk.state = "running",
           NEW s, Sound(s)
    PROVE  LET after == Interrupted(tk, s)
           IN  /\ after \in TaskRecords
               /\ Sound(tk.pending) => Sound(after.pending)
               /\ after.state \in {"retry_pending", "postprocessing"}
               /\ ~after.reserved
               /\ after.n = tk.n /\ after.intent = tk.intent
               /\ after.evidence = tk.evidence /\ after.reviewed = tk.reviewed
<1>1. CASE tk.retries < RetryLimit
  <2>1. Interrupted(tk, s) = [tk EXCEPT !.state = "retry_pending", !.reserved = FALSE,
                                        !.retries = @ + 1, !.pending = s]
    BY <1>1 DEF Interrupted, InfrastructureRetry
  <2>2. tk.retries + 1 \in 0..RetryLimit
    BY <1>1, ConstantsAssumption DEF TaskRecords
  <2>3. QED
    BY <2>1, <2>2, ZenonT(40) DEF TaskRecords, TaskStates, Sound
<1>2. CASE ~(tk.retries < RetryLimit)
  <2>1. Interrupted(tk, s) = [tk EXCEPT !.state = "postprocessing",
                                        !.reserved = FALSE, !.forced = TRUE]
    BY <1>2 DEF Interrupted
  <2>2. QED
    BY <2>1 DEF TaskRecords, TaskStates
<1>3. QED
  BY <1>1, <1>2

(* Recovery leaves no task running or launching, and gives no slot away.   *)
LEMMA ReconciledTypes ==
    ASSUME NEW tk \in TaskRecords, NEW attempts \in [AttemptNos -> AttemptRecords],
           Sound(tk.pending), \A k \in AttemptNos : Sound(attempts[k].supp),
           tk.state = "running" => tk.n \in AttemptNos
    PROVE  LET after == Reconciled(tk, attempts)
           IN  /\ after \in TaskRecords
               /\ Sound(after.pending)
               /\ after.state # "running"
               /\ after.reserved => tk.reserved
               /\ \/ after = tk
                  \/ /\ tk.state \in {"launching", "running"}
                     /\ \/ after.state = "retry_pending"
                        \/ after.state = "postprocessing" /\ ~after.reserved
               /\ after.n = tk.n /\ after.intent = tk.intent
               /\ after.evidence = tk.evidence /\ after.reviewed = tk.reviewed
<1>0. Nothing \in Supplements /\ Sound(Nothing)
  BY ConstantsAssumption DEF Nothing, Supplements, SupplementKinds, Sound, Repairs, Revisions
<1>1. CASE tk.state \notin {"launching", "running"}
  BY <1>1 DEF Reconciled
<1>2. CASE tk.state \in {"launching", "running"} /\ tk.retries < RetryLimit
  <2> DEFINE s == IF tk.n = 0 THEN Nothing ELSE attempts[tk.n].supp
  <2>1. Reconciled(tk, attempts)
          = [tk EXCEPT !.state = "retry_pending", !.retries = @ + 1, !.pending = s]
    BY <1>2 DEF Reconciled, InfrastructureRetry
  <2>2. tk.retries + 1 \in 0..RetryLimit
    BY <1>2, ConstantsAssumption DEF TaskRecords
  <2>3. tk.n = 0 \/ tk.n \in AttemptNos
    BY ConstantsAssumption DEF TaskRecords, AttemptNos
  <2>4. s \in Supplements /\ Sound(s)
    BY <1>0, <2>3 DEF Sound
  <2> HIDE DEF s
  <2>5. QED
    BY <1>2, <2>1, <2>2, <2>4 DEF TaskRecords, TaskStates
<1>3. CASE tk.state \in {"launching", "running"} /\ ~(tk.retries < RetryLimit)
  <2>1. Reconciled(tk, attempts) = [tk EXCEPT !.state = "postprocessing",
                                              !.reserved = FALSE, !.forced = TRUE]
    BY <1>3 DEF Reconciled
  <2>2. QED
    BY <1>3, <2>1 DEF TaskRecords, TaskStates
<1>4. QED
  BY <1>1, <1>2, <1>3

(* A verdict or a return asks for a repair and sends the task into a revision.*)
LEMMA RepairTypes ==
    ASSUME NEW tk \in TaskRecords, NEW o \in Ops, NEW kind \in Revisions
    PROVE  LET after == RepairRequested(tk, o, kind)
           IN  /\ after \in TaskRecords
               /\ Sound(after.pending)
               /\ after.state = "revision_pending"
               /\ after.reserved = IF tk.state = "running" THEN FALSE
                                   ELSE tk.reserved
               /\ after.n = tk.n /\ after.intent = tk.intent
               /\ after.evidence = tk.evidence /\ after.reviewed = tk.reviewed
<1> DEFINE s == Supplement(IF op[o].request < RevisionLimit
                           THEN kind ELSE "fact_concession", o)
           slot == IF tk.state = "running" THEN FALSE ELSE tk.reserved
<1>1. s \in Supplements /\ Sound(s)
  BY ConstantsAssumption
     DEF Supplement, Supplements, SupplementKinds, Sound, Ops, Revisions
<1>2. RepairRequested(tk, o, kind)
        = [tk EXCEPT !.state = "revision_pending", !.reserved = slot, !.pending = s]
  BY DEF RepairRequested
<1>3. slot \in BOOLEAN
  BY DEF TaskRecords
<1> HIDE DEF s, slot
<1>4. LET after == RepairRequested(tk, o, kind)
      IN  /\ after \in TaskRecords
          /\ Sound(after.pending)
          /\ after.state = "revision_pending"
          /\ after.reserved = slot
          /\ after.n = tk.n /\ after.intent = tk.intent
          /\ after.evidence = tk.evidence /\ after.reviewed = tk.reviewed
  BY <1>1, <1>2, <1>3 DEF TaskRecords, TaskStates
<1>5. QED
  BY <1>4 DEF slot

(* The types, stated with the records.                                     *)
LEMMA TypesAsRecords ==
    TypeOK <=> /\ task \in [Tasks -> TaskRecords]
               /\ att \in [Tasks -> [AttemptNos -> AttemptRecords]]
               /\ op \in [Ops -> OpRecords]
               /\ at \in {"loop", "launch", "batch", "failing", "down",
                         "recover"}
               /\ queue \subseteq Tasks
               /\ alive \subseteq Tasks
               /\ due \subseteq Tasks
               /\ published \subseteq Tasks
               /\ restarts \in 0..MaxRestarts
               /\ auths \in 0..MaxAuths
  BY DEF TypeOK, TaskRecords, AttemptRecords, OpRecords

(***************************************************************************)
(* Quiet steps: those that neither assign, start, end nor recover attempts,*)
(* and receive no operation.                                               *)
(***************************************************************************)
QuietTask(t) ==
    /\ task'[t].n = task[t].n
    /\ Sound(task'[t].pending)
    /\ task'[t].state = "running" <=> task[t].state = "running"
    /\ task'[t].reserved => task[t].reserved
    /\ task[t].state = "running" => task'[t].reserved = task[t].reserved
    /\ Resting(task'[t]) /\ task'[t].reserved => Resting(task[t]) \/ t = Writer
    /\ task'[t].evidence = task[t].evidence
    /\ task[t].reviewed \subseteq task'[t].reviewed
    /\ task[t].intent # "none" =>
         /\ task'[t].intent = task[t].intent
         /\ task'[t].state \in {"postprocessing", "closed"}
    /\ task[t].intent = "none" /\ task'[t].intent # "none" =>
         /\ op' = op
         /\ task'[t].state = "postprocessing" /\ Settled(t)
         /\ task'[t].intent = "normal" =>
              RejectedEvidence(t) = {} /\ ~MemoMissing(t)

QuietOp(o) ==
    \/ op'[o] = op[o]
    \/ /\ at # "launch"
       /\ op[o].state \notin FinalOpStates \cup {"unused"}
       /\ op'[o].state \notin {"unused", "received"}
       /\ op'[o].task = op[o].task /\ op'[o].attempt = op[o].attempt
       /\ op'[o].kind = op[o].kind
       /\ op[o].state = "needs_attention" =>
            op'[o].state = "abandoned" \/ at = "loop"
       /\ Reviewed(op'[o])

(* The main thread stays where it is, or fails.                            *)
QuietPlace ==
    \/ at' = at
    \/ at # "launch" /\ at' = "failing"

Quiet ==
    /\ UNCHANGED <<att, queue, alive, restarts>>
    /\ QuietPlace
    /\ task' \in [Tasks -> TaskRecords]
    /\ op' \in [Ops -> OpRecords]
    /\ due' \subseteq Tasks /\ published' \subseteq Tasks
    /\ auths' \in 0..MaxAuths
    /\ \A t \in Tasks : QuietTask(t)
    /\ \A o \in Ops : QuietOp(o)

(* The slots that are reserved are counted by the set of their tasks.      *)
LEMMA FewerReserved ==
    ASSUME \A t \in Tasks : task'[t].reserved => task[t].reserved,
           RunningCount <= MaxWorkers
    PROVE  RunningCount' <= MaxWorkers
<1> DEFINE A == {t \in Tasks : task'[t].reserved}
           B == {t \in Tasks : task[t].reserved}
<1>1. A \subseteq B /\ B \subseteq Tasks
  OBVIOUS
<1>2. IsFiniteSet(B) /\ Cardinality(B) \in Nat
  BY <1>1, ConstantsAssumption, FS_Subset, FS_CardinalityType
<1>3. IsFiniteSet(A) /\ Cardinality(A) <= Cardinality(B) /\ Cardinality(A) \in Nat
  BY <1>1, <1>2, FS_Subset, FS_CardinalityType
<1>4. RunningCount = Cardinality(B) /\ RunningCount' = Cardinality(A)
  BY DEF RunningCount
<1>5. QED
  BY <1>2, <1>3, <1>4, ConstantsAssumption

(* Quiet steps keep the invariant.                                         *)
LEMMA QuietKeeps ==
    ASSUME IInv, Quiet
    PROVE  IInv'
<1>0. TypeOK /\ Linked
  BY DEF IInv
<1>1. TypeOK'
  BY <1>0, TypesAsRecords DEF Quiet, QuietPlace, TypeOK, TaskRecords, OpRecords
<1>2. \A o \in Ops :
         /\ op'[o].state = "unused" <=> op[o].state = "unused"
         /\ op'[o].task = op[o].task /\ op'[o].attempt = op[o].attempt
         /\ op'[o].kind = op[o].kind
         /\ op[o].state \in FinalOpStates => op'[o] = op[o]
  BY DEF Quiet, QuietOp
<1>3. Linked'
  <2>1. \A t \in Tasks :
           /\ Sound(task'[t].pending)
           /\ \A k \in AttemptNos : Sound(att'[t][k].supp)
           /\ task'[t].state = "running" => task'[t].n \in AttemptNos
    BY <1>0 DEF Quiet, QuietTask, Linked
  <2>2. at' # "launch" => queue' = {}
    BY <1>0 DEF Quiet, QuietPlace, Linked
  <2>3. \A t \in queue' : task'[t].n < MaxAttempts
    BY <1>0 DEF Quiet, QuietTask, Linked, TypeOK
  <2>4. \A o \in Ops : op'[o].state # "unused" =>
           /\ op'[o].task \in Tasks
           /\ op'[o].attempt \in 1..task'[op'[o].task].n
    BY <1>0, <1>2 DEF Quiet, QuietTask, Linked
  <2>5. \A o \in Ops : Reviewed(op'[o])
    BY <1>0 DEF Quiet, QuietOp, Linked
  <2>6. QED
    BY <2>1, <2>2, <2>3, <2>4, <2>5 DEF Linked
<1>4. Places'
  BY <1>0 DEF IInv, Quiet, QuietPlace, QuietTask, QuietOp, Places, TypeOK
<1>5. OneRunningAttempt'
  <2>1. \A t \in Tasks : /\ task'[t].state = "running" <=> task[t].state = "running"
                         /\ task'[t].n = task[t].n
    BY DEF Quiet, QuietTask
  <2>2. att' = att /\ alive' = alive /\ queue' = queue /\ alive \subseteq Tasks
    BY <1>0 DEF Quiet, TypeOK
  <2>3. OneRunningAttempt
    BY DEF IInv
  <2>4. QED
    BY <2>1, <2>2, <2>3 DEF OneRunningAttempt
<1>6. ReviewsBeforeRelaunch'
  <2>1. SUFFICES ASSUME NEW t \in Tasks, NEW o \in Ops,
                        task'[t].state = "running", (o \in OpsOf(t))',
                        op'[o].attempt < task'[t].n
                 PROVE  op'[o].state \in FinalOpStates \cup {"needs_attention"}
    BY DEF ReviewsBeforeRelaunch
  <2>2. task[t].state = "running" /\ task'[t].n = task[t].n
    BY <2>1 DEF Quiet, QuietTask
  <2>3. o \in OpsOf(t) /\ op[o].attempt < task[t].n
    BY <1>2, <2>1, <2>2 DEF OpsOf
  <2>4. op[o].state \in FinalOpStates \cup {"needs_attention"}
    BY <2>2, <2>3 DEF IInv, ReviewsBeforeRelaunch
  <2>5. at # "loop"
    BY <2>2 DEF IInv, Places
  <2>6. QED
    BY <2>4, <2>5 DEF Quiet, QuietOp, FinalOpStates
<1>7. WorkersWithinSlots'
  <2>1. RunningCount' <= MaxWorkers
    BY FewerReserved DEF IInv, WorkersWithinSlots, Quiet, QuietTask
  <2>2. QED
    BY <2>1 DEF IInv, WorkersWithinSlots, Quiet, QuietTask
<1>8. RestingHoldsNoSlot'
  BY DEF IInv, RestingHoldsNoSlot, Quiet, QuietTask
<1>9. \A t \in Tasks : OpsOf(t)' = OpsOf(t) /\ (Settled(t) => Settled(t)')
  BY <1>2 DEF OpsOf, Settled
<1>10. Frozen'
  BY <1>9 DEF IInv, Frozen, Quiet, QuietTask
<1>11. EvidenceIsSound'
  <2>1. SUFFICES ASSUME NEW t \in Tasks, task'[t].intent = "normal",
                        NEW o \in task'[t].evidence, op'[o].kind # "fact"
                 PROVE  op'[o].state = "committed" \/ o \in task'[t].reviewed
    BY DEF EvidenceIsSound
  <2>2. o \in task[t].evidence /\ o \in OpsOf(t) /\ o \in Ops
    BY <2>1 DEF IInv, Frozen, OpsOf, Quiet, QuietTask
  <2>3. task[t].reviewed \subseteq task'[t].reviewed /\ op[o].kind # "fact"
    BY <1>2, <2>1, <2>2 DEF Quiet, QuietTask
  <2>4. Settled(t)
    BY <2>1 DEF IInv, Frozen, Quiet, QuietTask
  <2>5. op[o].state \in FinalOpStates /\ op'[o] = op[o]
    BY <1>2, <2>2, <2>4 DEF Settled
  <2>6. CASE task[t].intent # "none"
    <3>1. task[t].intent = "normal"
      BY <2>1, <2>6 DEF Quiet, QuietTask
    <3>2. QED
      BY <2>2, <2>3, <2>5, <3>1 DEF IInv, EvidenceIsSound
  <2>7. CASE task[t].intent = "none"
    <3>1. RejectedEvidence(t) = {}
      BY <2>1, <2>7 DEF Quiet, QuietTask
    <3>2. QED
      BY <2>2, <2>3, <2>5, <3>1 DEF RejectedEvidence, FinalOpStates
  <2>8. QED
    BY <2>6, <2>7
<1>12. QED
  BY <1>1, <1>3, <1>4, <1>5, <1>6, <1>7, <1>8, <1>10, <1>11 DEF IInv

(* A task that does not change is quiet.                                   *)
LEMMA UnchangedIsQuiet ==
    ASSUME IInv, NEW t \in Tasks, task'[t] = task[t]
    PROVE  QuietTask(t)
BY DEF IInv, Linked, Frozen, QuietTask

(* Steps that change one task.                                             *)
LEMMA OneTaskQuiet ==
    ASSUME IInv, NEW t \in Tasks, NEW tk \in TaskRecords,
           task' = [task EXCEPT ![t] = tk],
           task'[t] = tk => QuietTask(t),
           UNCHANGED <<att, op, at, queue, alive, published, restarts, auths>>,
           due' \subseteq Tasks
    PROVE  Quiet
<1>1. task \in [Tasks -> TaskRecords] /\ op \in [Ops -> OpRecords]
      /\ published \subseteq Tasks /\ auths \in 0..MaxAuths
  BY TypesAsRecords DEF IInv
<1>2. task' \in [Tasks -> TaskRecords] /\ task'[t] = tk
  BY <1>1
<1>3. \A u \in Tasks : QuietTask(u)
  <2>1. SUFFICES ASSUME NEW u \in Tasks, u # t PROVE QuietTask(u)
    BY <1>2
  <2>2. task'[u] = task[u]
    BY <1>1, <2>1
  <2>3. QED
    BY <2>2, UnchangedIsQuiet
<1>4. \A o \in Ops : QuietOp(o)
  BY DEF QuietOp
<1>5. QED
  BY <1>1, <1>2, <1>3, <1>4 DEF Quiet, QuietPlace

(* The closing of a task is quiet.                                         *)
LEMMA ClosingIsQuiet ==
    ASSUME IInv, NEW t \in Tasks, Closing(t)
    PROVE  Quiet
<1>1. /\ task \in [Tasks -> TaskRecords] /\ op \in [Ops -> OpRecords]
      /\ published \subseteq Tasks /\ auths \in 0..MaxAuths /\ due \subseteq Tasks
      /\ Sound(task[t].pending)
      /\ task[t] \in TaskRecords
  BY TypesAsRecords DEF IInv, Linked
<1>2. Nothing \in Supplements /\ Sound(Nothing)
  BY ConstantsAssumption DEF Nothing, Supplements, SupplementKinds, Sound, Repairs, Revisions
<1>3. \A k \in {"evidence_correction", "memo_correction"} :
         Supplement(k, 0) \in Supplements /\ Sound(Supplement(k, 0))
  BY ConstantsAssumption
     DEF Supplement, Supplements, SupplementKinds, Sound, Repairs, Revisions
<1>4. CASE NotYet(t)
  <2>1. \A u \in Tasks : QuietTask(u)
    BY <1>4, UnchangedIsQuiet DEF NotYet
  <2>2. QED
    BY <1>1, <1>4, <2>1 DEF NotYet, CheckDone, Quiet, QuietPlace, QuietOp
<1>5. CASE PauseClosing(t)
  <2> DEFINE tk == [task[t] EXCEPT !.state = "needs_attention"]
  <2>1. tk \in TaskRecords
    BY <1>1 DEF TaskRecords, TaskStates
  <2>2. task'[t] = tk => QuietTask(t)
    BY <1>1, <1>5 DEF PauseClosing, Undecided, QuietTask, Resting, TaskRecords
  <2>3. QED
    BY <1>1, <1>5, <2>1, <2>2, OneTaskQuiet DEF PauseClosing, SetTask, CheckDone
<1>6. CASE CloseForced(t)
  <2> DEFINE tk == [task[t] EXCEPT !.state = "postprocessing",
                                   !.intent = "interrupted"]
  <2>1. tk \in TaskRecords
    BY <1>1 DEF TaskRecords, TaskStates, Outcomes
  <2>2. task'[t] = tk => QuietTask(t)
    BY <1>1, <1>6
       DEF CloseForced, MayDecide, Undecided, SetTask, QuietTask, Resting, TaskRecords
  <2>3. QED
    BY <1>1, <1>6, <2>1, <2>2, OneTaskQuiet DEF CloseForced, SetTask
<1>7. CASE CorrectEvidence(t)
  <2> DEFINE tk == IF task[t].state = "postprocessing"
                   THEN [task[t] EXCEPT
                           !.state = "revision_pending",
                           !.pending = Supplement("evidence_correction", 0)]
                   ELSE task[t]
  <2>1. tk \in TaskRecords
    BY <1>1, <1>3 DEF TaskRecords, TaskStates
  <2>2. task'[t] = tk => QuietTask(t)
    BY <1>1, <1>3, <1>7
       DEF CorrectEvidence, MayDecide, Undecided, QuietTask, Resting, TaskRecords
  <2>3. QED
    BY <1>1, <1>7, <2>1, <2>2, OneTaskQuiet DEF CorrectEvidence, SetTask, CheckDone
<1>8. CASE CorrectMemo(t)
  <2> DEFINE tk == [task[t] EXCEPT !.state = "revision_pending",
                                   !.pending = Supplement("memo_correction", 0)]
  <2>1. tk \in TaskRecords
    BY <1>1, <1>3 DEF TaskRecords, TaskStates
  <2>2. task'[t] = tk => QuietTask(t)
    BY <1>1, <1>3, <1>8
       DEF CorrectMemo, MayDecide, Undecided, QuietTask, Resting, TaskRecords
  <2>3. QED
    BY <1>1, <1>8, <2>1, <2>2, OneTaskQuiet DEF CorrectMemo, SetTask, CheckDone
<1>9. CASE OutcomeMissing(t)
  <2> DEFINE tk == [task[t] EXCEPT !.state = "needs_attention"]
  <2>1. tk \in TaskRecords
    BY <1>1 DEF TaskRecords, TaskStates
  <2>2. task'[t] = tk => QuietTask(t)
    BY <1>1, <1>9
       DEF OutcomeMissing, MayDecide, Undecided, QuietTask, Resting, TaskRecords
  <2>3. QED
    BY <1>1, <1>9, <2>1, <2>2, OneTaskQuiet DEF OutcomeMissing, SetTask, CheckDone
<1>10. CASE CloseNormally(t)
  <2> DEFINE tk == [task[t] EXCEPT !.state = "postprocessing",
                                   !.intent = task[t].outcome]
  <2>1. tk \in TaskRecords
    BY <1>1 DEF TaskRecords, TaskStates
  <2>2. task'[t] = tk => QuietTask(t)
    BY <1>1, <1>10
       DEF CloseNormally, MayDecide, Undecided, SetTask, QuietTask, Resting, TaskRecords
  <2>3. QED
    BY <1>1, <1>10, <2>1, <2>2, OneTaskQuiet DEF CloseNormally, SetTask
<1>11. CASE PublishTask(t)
  <2>1. \A v \in BOOLEAN : LET tk == [task[t] EXCEPT !.unpublished = v]
                          IN  /\ tk \in TaskRecords
                              /\ task'[t] = tk => QuietTask(t)
    BY <1>1 DEF QuietTask, Resting, TaskRecords, IInv, Frozen
  <2>2. PICK v \in BOOLEAN : task' = [task EXCEPT ![t].unpublished = v]
    BY <1>11 DEF PublishTask
  <2> DEFINE tk == [task[t] EXCEPT !.unpublished = v]
  <2>3. /\ task' = [task EXCEPT ![t] = tk]
        /\ tk \in TaskRecords
        /\ task'[t] = tk => QuietTask(t)
    BY <2>1, <2>2
  <2> HIDE DEF tk
  <2>4. /\ task' \in [Tasks -> TaskRecords] /\ task'[t] = tk
        /\ \A u \in Tasks \ {t} : task'[u] = task[u]
    BY <1>1, <2>3
  <2>5. \A u \in Tasks : QuietTask(u)
    BY <2>3, <2>4, UnchangedIsQuiet
  <2>6. published' \subseteq Tasks /\ due' \subseteq Tasks
    BY <1>1, <1>11 DEF PublishTask, CheckDone
  <2>7. QED
    BY <1>1, <1>11, <2>4, <2>5, <2>6 DEF PublishTask, Quiet, QuietPlace, QuietOp
<1>12. CASE FinalizeClose(t)
  <2> DEFINE tk == [task[t] EXCEPT !.state = "closed", !.reserved = FALSE]
  <2>1. tk \in TaskRecords
    BY <1>1 DEF TaskRecords, TaskStates
  <2>2. task[t].state \in {"postprocessing", "closed"}
    BY <1>12 DEF FinalizeClose, IInv, Frozen
  <2>3. task'[t] = tk => QuietTask(t)
    BY <1>1, <1>12, <2>2 DEF FinalizeClose, QuietTask, Resting, TaskRecords
  <2>4. QED
    BY <1>1, <1>12, <2>1, <2>3, OneTaskQuiet DEF FinalizeClose, SetTask
<1>13. CASE CloseTail(t)
  <2> DEFINE tk == [task[t] EXCEPT !.tail = TRUE]
  <2>1. tk \in TaskRecords
    BY <1>1 DEF TaskRecords
  <2>2. task'[t] = tk => QuietTask(t)
    BY <1>1, <1>13 DEF CloseTail, QuietTask, Resting, TaskRecords
  <2>3. QED
    BY <1>1, <1>13, <2>1, <2>2, OneTaskQuiet DEF CloseTail, SetTask, CheckDone
<1>14. QED
  BY <1>4, <1>5, <1>6, <1>7, <1>8, <1>9, <1>10, <1>11, <1>12, <1>13 DEF Closing

(* The task of an operation that is not decided is not closing.            *)
LEMMA TaskOfOp ==
    ASSUME IInv, NEW o \in Ops, op[o].state \notin FinalOpStates \cup {"unused"}
    PROVE  /\ op[o].task \in Tasks
           /\ o \in OpsOf(op[o].task)
           /\ task[op[o].task].intent = "none"
<1>1. op[o].task \in Tasks /\ o \in OpsOf(op[o].task)
  BY DEF IInv, Linked, OpsOf
<1>2. ~Settled(op[o].task)
  BY <1>1 DEF Settled
<1>3. QED
  BY <1>1, <1>2 DEF IInv, Frozen

(* Steps that change one operation, and tasks at most quietly.             *)
LEMMA OneOpQuiet ==
    ASSUME IInv, NEW o \in Ops, NEW rec \in OpRecords,
           op' = [op EXCEPT ![o] = rec],
           op'[o] = rec => QuietOp(o),
           UNCHANGED <<att, queue, alive, published, restarts>>, QuietPlace,
           task' \in [Tasks -> TaskRecords], \A t \in Tasks : QuietTask(t),
           due' \subseteq Tasks, auths' \in 0..MaxAuths
    PROVE  Quiet
<1>1. op \in [Ops -> OpRecords] /\ published \subseteq Tasks
  BY TypesAsRecords DEF IInv
<1>2. op' \in [Ops -> OpRecords] /\ op'[o] = rec
  BY <1>1
<1>3. \A p \in Ops : QuietOp(p)
  <2>1. SUFFICES ASSUME NEW p \in Ops, p # o PROVE QuietOp(p)
    BY <1>2
  <2>2. op'[p] = op[p]
    BY <1>1, <2>1
  <2>3. QED
    BY <2>2 DEF QuietOp
<1>4. QED
  BY <1>1, <1>2, <1>3 DEF Quiet

(* Cancelling what is out of date is quiet.                                *)
LEMMA StaleIsQuiet ==
    ASSUME IInv, NEW os, task' = WithoutStale(task, os, FALSE)
    PROVE  task' \in [Tasks -> TaskRecords] /\ \A t \in Tasks : QuietTask(t)
<1>1. task \in [Tasks -> TaskRecords]
  BY TypesAsRecords DEF IInv
<1>2. Sound(Nothing)
  BY ConstantsAssumption
     DEF Nothing, Supplements, SupplementKinds, Sound, Repairs, Revisions
<1>3. task' \in [Tasks -> TaskRecords]
  BY <1>1, StaleTypes
<1>4. ASSUME NEW t \in Tasks
      PROVE  QuietTask(t)
  <2>1. /\ task'[t].n = task[t].n
        /\ task'[t].pending \in {task[t].pending, Nothing}
        /\ \/ task'[t].state = task[t].state /\ task'[t].reserved = task[t].reserved
           \/ /\ task[t].state \in {"revision_pending", "retry_pending"}
              /\ task'[t].state = "postprocessing" /\ ~task'[t].reserved
        /\ task'[t].intent = task[t].intent
        /\ task'[t].evidence = task[t].evidence
        /\ task'[t].reviewed = task[t].reviewed
    <3> DEFINE after == WithoutStale(task, os, FALSE)[t]
    <3>1. /\ after.n = task[t].n
          /\ after.pending \in {task[t].pending, Nothing}
          /\ \/ after.state = task[t].state /\ after.reserved = task[t].reserved
             \/ /\ task[t].state \in {"revision_pending", "retry_pending"}
                /\ after.state = "postprocessing" /\ ~after.reserved
          /\ after.intent = task[t].intent
          /\ after.evidence = task[t].evidence
          /\ after.reviewed = task[t].reviewed
      BY <1>1, StaleTypes, ZenonT(40)
    <3>2. task'[t] = after
      OBVIOUS
    <3> HIDE DEF after
    <3>3. QED
      BY <3>1, <3>2
  <2>2. Sound(task[t].pending)
        /\ (task[t].intent # "none" => task[t].state \in {"postprocessing", "closed"})
    BY DEF IInv, Linked, Frozen
  <2>3. QED
    BY <1>2, <2>1, <2>2 DEF QuietTask, Resting
<1>5. QED
  BY <1>3, <1>4

(* Operations are routed, and those without a review are decided, quietly. *)
LEMMA RoutingIsQuiet ==
    ASSUME IInv, NEW o \in Ops,
           Route(o) \/ \E verdict \in Verdicts : CommitMemo(o, verdict)
    PROVE  Quiet
<1>1. /\ task \in [Tasks -> TaskRecords] /\ op \in [Ops -> OpRecords]
      /\ auths \in 0..MaxAuths /\ due \subseteq Tasks /\ op[o] \in OpRecords
  BY TypesAsRecords DEF IInv
<1>2. op[o].state = "received" /\ at # "launch" /\ task' = task
  BY DEF Route, CommitMemo, Commits, IInv, Places
<1>3. op[o].task \in Tasks
  BY <1>2, TaskOfOp DEF FinalOpStates
<1>4. task' \in [Tasks -> TaskRecords] /\ \A t \in Tasks : QuietTask(t)
  BY <1>1, <1>2, UnchangedIsQuiet
<1>5. CASE Route(o)
  <2> DEFINE rec == [op[o] EXCEPT !.state = "synthesizing", !.review = "synthesizing"]
  <2>1. rec \in OpRecords /\ (op'[o] = rec => QuietOp(o))
    BY <1>1, <1>2 DEF OpRecords, OpStates, QuietOp, Reviewed, FinalOpStates
  <2>2. QED
    BY <1>1, <1>4, <1>5, <2>1, OneOpQuiet DEF Route, QuietPlace
<1>6. ASSUME NEW verdict \in Verdicts, CommitMemo(o, verdict)
      PROVE  Quiet
  <2> DEFINE rec == [op[o] EXCEPT !.state = verdict]
  <2>1. rec \in OpRecords /\ (op'[o] = rec => QuietOp(o))
    BY <1>1, <1>2 DEF OpRecords, OpStates, QuietOp, Reviewed, FinalOpStates, Verdicts
  <2>2. due' \subseteq Tasks
    BY <1>1, <1>3, <1>6 DEF CommitMemo, Commits, Rechecked
  <2>3. QED
    BY <1>1, <1>4, <1>6, <2>1, <2>2, OneOpQuiet DEF CommitMemo, Commits, QuietPlace
<1>7. QED
  BY <1>5, <1>6

(* A verdict never meets a running attempt of its task: the reviews of all *)
(* earlier attempts were over before this one started.                     *)
LEMMA VerdictFindsTaskIdle ==
    ASSUME IInv, NEW o \in Ops, op[o].state = "verifying", SourceTerminal(o)
    PROVE  task[op[o].task].state # "running"
<1> DEFINE t == op[o].task
<1>1. t \in Tasks /\ o \in OpsOf(t)
  BY TaskOfOp DEF FinalOpStates
<1>2. SUFFICES ASSUME task[t].state = "running" PROVE FALSE
  OBVIOUS
<1>3. op[o].attempt \in 1..task[t].n /\ task[t].n \in AttemptNos
  BY <1>1, <1>2 DEF IInv, Linked
<1>4. ~(op[o].attempt < task[t].n)
  BY <1>1, <1>2 DEF IInv, ReviewsBeforeRelaunch, FinalOpStates
<1>5. op[o].attempt = task[t].n
  BY <1>3, <1>4 DEF AttemptNos
<1>6. att[t][task[t].n].state = "running"
  BY <1>1, <1>2, <1>3 DEF IInv, OneRunningAttempt
<1>7. QED
  BY <1>5, <1>6 DEF SourceTerminal

(* A Fact that is sent back to a task without a running attempt.           *)
LEMMA SendBackIsQuiet ==
    ASSUME IInv, NEW o \in Ops, NEW kind \in Revisions, NEW ended,
           op[o].state \in {"synthesizing", "verifying"}, at # "launch",
           SendBack(o, kind, ended), QuietPlace,
           IsLatest(op, o) => task[op[o].task].state # "running"
    PROVE  Quiet
<1> DEFINE t == op[o].task
           rec == [op[o] EXCEPT !.state = "rejected", !.repair = IsLatest(op, o),
                                !.refuted = (kind = "verifier_revision")]
<1>1. /\ task \in [Tasks -> TaskRecords] /\ op \in [Ops -> OpRecords]
      /\ auths \in 0..MaxAuths /\ due \subseteq Tasks /\ op[o] \in OpRecords
  BY TypesAsRecords DEF IInv
<1>2. /\ t \in Tasks /\ task[t].intent = "none" /\ task[t] \in TaskRecords
      /\ op[o].review # "none"
  BY <1>1, TaskOfOp DEF FinalOpStates, IInv, Linked, Reviewed
<1>3. rec \in OpRecords /\ (op'[o] = rec => QuietOp(o))
  BY <1>1 DEF OpRecords, OpStates, QuietOp, Reviewed, FinalOpStates, IsLatest
<1>4. /\ op' = [op EXCEPT ![o] = rec]
      /\ UNCHANGED <<queue, alive, published, restarts, auths>>
  BY DEF SendBack
<1>5. att' = att /\ due' \subseteq Tasks
  BY <1>2 DEF SendBack
<1>6. task' \in [Tasks -> TaskRecords] /\ \A u \in Tasks : QuietTask(u)
  <2>1. CASE task' = task
    BY <1>1, <2>1, UnchangedIsQuiet
  <2> DEFINE after == RepairRequested(task[t], o, kind)
  <2>2. CASE task' = [task EXCEPT ![t] = after] /\ IsLatest(op, o)
    <3>1. /\ after \in TaskRecords
          /\ Sound(after.pending)
          /\ after.state = "revision_pending"
          /\ after.reserved = task[t].reserved
          /\ after.n = task[t].n /\ after.intent = task[t].intent
          /\ after.evidence = task[t].evidence
          /\ after.reviewed = task[t].reviewed
      BY <1>2, <2>2, RepairTypes
    <3> HIDE DEF after
    <3>2. /\ task' \in [Tasks -> TaskRecords] /\ task'[t] = after
          /\ \A u \in Tasks \ {t} : task'[u] = task[u]
      BY <1>1, <1>2, <2>2, <3>1
    <3>3. QuietTask(t)
      BY <1>2, <2>2, <3>1, <3>2 DEF QuietTask, Resting
    <3>4. QED
      BY <3>2, <3>3, UnchangedIsQuiet
  <2>3. QED
    BY <2>1, <2>2 DEF SendBack
<1> HIDE DEF rec
<1>7. QED
  BY <1>1, <1>3, <1>4, <1>5, <1>6, OneOpQuiet

(* A Fact that is returned while the attempt that submitted it, or a later *)
(* one, is running.                                                        *)
ReturnsRunning(o) ==
    /\ ReturnIdentical(o) /\ IsLatest(op, o)
    /\ task[op[o].task].state = "running"

(* All other answers of reviews are quiet.                                 *)
LEMMA ReviewIsQuiet ==
    ASSUME IInv, NEW o \in Ops, Review(o)
    PROVE  Quiet \/ ReturnsRunning(o)
<1>1. /\ task \in [Tasks -> TaskRecords] /\ op \in [Ops -> OpRecords]
      /\ auths \in 0..MaxAuths /\ due \subseteq Tasks /\ op[o] \in OpRecords
  BY TypesAsRecords DEF IInv
<1>2. op[o].state \in {"synthesizing", "verifying"} /\ at \in {"loop", "batch"}
  BY DEF Review, FactIsNew, FactIsDuplicate, PublishFact, StoreRejectsFact,
         RejectFact, ExhaustReview, Reviewable, SettleProposal, InRun,
         ReturnIdentical, ReturnBeforeVerifier
<1> DEFINE t == op[o].task
<1>3. /\ t \in Tasks /\ task[t].intent = "none" /\ task[t] \in TaskRecords
      /\ op[o].review # "none"
  BY <1>1, <1>2, TaskOfOp DEF FinalOpStates, IInv, Linked, Reviewed
<1>4. ASSUME task' = task
      PROVE  task' \in [Tasks -> TaskRecords] /\ \A u \in Tasks : QuietTask(u)
  BY <1>1, <1>4, UnchangedIsQuiet
<1>5. \A s \in OpStates \ {"unused", "received"} :
        LET rec == [op[o] EXCEPT !.state = s]
        IN  rec \in OpRecords /\ (op'[o] = rec => QuietOp(o))
  BY <1>1, <1>2, <1>3 DEF OpRecords, OpStates, QuietOp, Reviewed, FinalOpStates
<1>6. {"committed", "rejected", "needs_attention"} \subseteq OpStates \ {"unused", "received"}
  BY DEF OpStates
<1>7. CASE FactIsNew(o)
  <2> DEFINE rec == [op[o] EXCEPT !.state = "verifying", !.review = "verifying"]
  <2>1. rec \in OpRecords /\ (op'[o] = rec => QuietOp(o))
    BY <1>1, <1>2 DEF OpRecords, OpStates, QuietOp, Reviewed, FinalOpStates
  <2>2. QED
    BY <1>1, <1>4, <1>7, <2>1, OneOpQuiet DEF FactIsNew, QuietPlace
<1>8. ASSUME NEW verdict \in Verdicts, SettleProposal(o, verdict)
      PROVE  Quiet
  <2>1. due' \subseteq Tasks
    BY <1>1, <1>3, <1>8 DEF SettleProposal, Commits, Rechecked
  <2>2. QED
    BY <1>1, <1>4, <1>5, <1>6, <1>8, <2>1, OneOpQuiet
       DEF SettleProposal, Commits, Verdicts, QuietPlace
<1>9. CASE FactIsDuplicate(o) \/ PublishFact(o)
  <2> DEFINE os == [op EXCEPT ![o].state = "committed"]
  <2>1. op' = os /\ task' = WithoutStale(task, os, FALSE)
        /\ UNCHANGED <<att, at, queue, alive, published, restarts, auths>>
    BY <1>9 DEF FactIsDuplicate, PublishFact, FactCommitted
  <2>2. due' \subseteq Tasks
    BY <1>1, <1>3, <1>9 DEF FactIsDuplicate, PublishFact, Rechecked
  <2>3. task' \in [Tasks -> TaskRecords] /\ \A u \in Tasks : QuietTask(u)
    BY <2>1, StaleIsQuiet
  <2>4. QED
    BY <1>1, <1>5, <1>6, <2>1, <2>2, <2>3, OneOpQuiet DEF QuietPlace
<1>10. CASE StoreRejectsFact(o)
  BY <1>1, <1>3, <1>4, <1>5, <1>6, <1>10, OneOpQuiet DEF StoreRejectsFact, QuietPlace
<1>11. CASE RejectFact(o) \/ ReturnBeforeVerifier(o)
  <2>1. task[t].state # "running"
    BY <1>11, VerdictFindsTaskIdle DEF RejectFact, ReturnBeforeVerifier
  <2>2. QuietPlace
    BY <1>2, <1>11 DEF RejectFact, ReturnBeforeVerifier, QuietPlace
  <2>3. \E kind \in Revisions, ended \in AttemptStates : SendBack(o, kind, ended)
    BY <1>11 DEF RejectFact, ReturnBeforeVerifier, Revisions, AttemptStates
  <2>4. QED
    BY <1>2, <2>1, <2>2, <2>3, SendBackIsQuiet
<1>14. CASE ReturnIdentical(o) /\ ~ReturnsRunning(o)
  <2>1. IsLatest(op, o) => task[t].state # "running"
    BY <1>14 DEF ReturnsRunning
  <2>2. SendBack(o, "identical_rejected_bundle", "returned") /\ QuietPlace
    BY <1>14 DEF ReturnIdentical, QuietPlace
  <2>3. QED
    BY <1>2, <2>1, <2>2, SendBackIsQuiet DEF Revisions
<1>12. CASE ExhaustReview(o)
  <2>1. task' \in [Tasks -> TaskRecords] /\ \A u \in Tasks : QuietTask(u)
    <3>1. CASE task' = task
      BY <1>4, <3>1
    <3>2. CASE task[t].state = "postprocessing"
               /\ task' = [task EXCEPT ![t].state = "needs_attention"]
      <4>1. [task[t] EXCEPT !.state = "needs_attention"] \in TaskRecords
        BY <1>3 DEF TaskRecords, TaskStates
      <4>2. /\ task' \in [Tasks -> TaskRecords]
            /\ task'[t] = [task[t] EXCEPT !.state = "needs_attention"]
            /\ \A u \in Tasks \ {t} : task'[u] = task[u]
        BY <1>1, <1>3, <3>2, <4>1
      <4>3. Sound(task[t].pending)
        BY <1>3 DEF IInv, Linked
      <4>4. QuietTask(t)
        BY <1>3, <3>2, <4>2, <4>3 DEF QuietTask, Resting, TaskRecords
      <4>5. QED
        BY <4>2, <4>4, UnchangedIsQuiet
    <3>3. QED
      BY <1>12, <3>1, <3>2 DEF ExhaustReview
  <2>2. QED
    BY <1>1, <1>5, <1>6, <1>12, <2>1, OneOpQuiet DEF ExhaustReview, QuietPlace
<1>13. QED
  BY <1>7, <1>8, <1>9, <1>10, <1>11, <1>12, <1>14 DEF Review

(* What the operator and the main agent decide between batches is quiet.   *)
LEMMA DecisionsAreQuiet ==
    ASSUME IInv,
           \/ \E o \in Ops : RetryReview(o) \/ AbandonOperation(o)
           \/ \E t \in Tasks : ReviewClosure(t)
           \/ StopUnlaunched \/ StopWriter
    PROVE  Quiet
<1>1. /\ task \in [Tasks -> TaskRecords] /\ op \in [Ops -> OpRecords]
      /\ auths \in 0..MaxAuths /\ due \subseteq Tasks /\ published \subseteq Tasks
  BY TypesAsRecords DEF IInv
<1>2. at = "loop" /\ \A t \in Tasks : task[t].state # "running"
  BY DEF RetryReview, AbandonOperation, ReviewClosure, StopUnlaunched, StopWriter,
         IInv, Places
<1>3. Nothing \in Supplements /\ Sound(Nothing)
  BY ConstantsAssumption DEF Nothing, Supplements, SupplementKinds, Sound, Repairs, Revisions
<1>4. \A t \in Tasks :
         /\ Sound(task[t].pending) /\ task[t] \in TaskRecords
         /\ task[t].intent # "none" => task[t].state \in {"postprocessing", "closed"}
  BY <1>1 DEF IInv, Linked, Frozen
<1>5. ASSUME NEW o \in Ops, RetryReview(o)
      PROVE  Quiet
  <2> DEFINE rec == [op[o] EXCEPT !.state = op[o].review]
  <2>1. op[o].review \in {"none", "synthesizing", "verifying"} /\ op[o] \in OpRecords
    BY <1>1 DEF OpRecords
  <2>2. op[o].review # "none"
    BY <1>5 DEF RetryReview, IInv, Linked, Reviewed
  <2>3. rec \in OpRecords /\ (op'[o] = rec => QuietOp(o))
    BY <1>2, <1>5, <2>1, <2>2
       DEF RetryReview, OpRecords, OpStates, QuietOp, Reviewed, FinalOpStates
  <2>4. auths' \in 0..MaxAuths
    BY <1>1, <1>5, ConstantsAssumption DEF RetryReview
  <2>5. task' \in [Tasks -> TaskRecords] /\ \A t \in Tasks : QuietTask(t)
    BY <1>1, <1>5, UnchangedIsQuiet DEF RetryReview
  <2>6. QED
    BY <1>1, <1>5, <2>3, <2>4, <2>5, OneOpQuiet DEF RetryReview, QuietPlace
<1>6. ASSUME NEW o \in Ops, AbandonOperation(o)
      PROVE  Quiet
  <2> DEFINE t == op[o].task
             rec == [op[o] EXCEPT !.state = "abandoned"]
  <2>1. op[o].state \in {"synthesizing", "verifying", "needs_attention"}
        /\ op[o] \in OpRecords
    BY <1>1, <1>6 DEF AbandonOperation
  <2>2. t \in Tasks /\ task[t].intent = "none"
    BY <2>1, TaskOfOp DEF FinalOpStates
  <2>3. rec \in OpRecords /\ (op'[o] = rec => QuietOp(o))
    BY <1>2, <2>1 DEF OpRecords, OpStates, QuietOp, Reviewed, FinalOpStates
  <2>4. task' \in [Tasks -> TaskRecords] /\ \A u \in Tasks : QuietTask(u)
    <3>1. CASE task' = task
      BY <1>1, <3>1, UnchangedIsQuiet
    <3> DEFINE tk == AsksClosureReview(task[t], o)
    <3>2. CASE task' = [task EXCEPT ![t] = tk]
      <4>1. o \in 0..MaxOps
        BY ConstantsAssumption DEF Ops
      <4>2. tk \in TaskRecords
        <5>1. task[t] \in TaskRecords
          BY <1>4, <2>2
        <5> HIDE DEF t
        <5>2. QED
          BY <4>1, <5>1 DEF AsksClosureReview, TaskRecords, TaskStates
      <4>3. /\ task' \in [Tasks -> TaskRecords] /\ task'[t] = tk
            /\ \A u \in Tasks \ {t} : task'[u] = task[u]
        BY <1>1, <2>2, <3>2, <4>2
      <4>4. QuietTask(t)
        BY <1>2, <1>4, <2>2, <4>3
           DEF AsksClosureReview, QuietTask, Resting, TaskRecords
      <4>5. QED
        BY <4>3, <4>4, UnchangedIsQuiet
    <3>3. QED
      BY <1>6, <3>1, <3>2 DEF AbandonOperation
  <2>5. due' \subseteq Tasks
    BY <1>6, <2>2 DEF AbandonOperation
  <2>6. QED
    BY <1>1, <1>6, <2>3, <2>4, <2>5, OneOpQuiet DEF AbandonOperation, QuietPlace
<1>7. ASSUME NEW t \in Tasks, ReviewClosure(t)
      PROVE  Quiet
  <2> DEFINE tk == ClosureReviewed(task[t])
  <2>0. task[t].ambiguous \in 0..MaxOps /\ task[t].ambiguous # 0
    BY <1>4, <1>7 DEF ReviewClosure, TaskRecords
  <2>1. task[t].ambiguous \in Ops /\ 0 \in 0..MaxOps
    BY <2>0, ConstantsAssumption DEF Ops
  <2>2. tk \in TaskRecords
    <3>1. task[t].reviewed \cup {task[t].ambiguous} \in SUBSET Ops
      BY <1>4, <2>1 DEF TaskRecords
    <3>2. QED
      BY <1>4, <2>1, <3>1, ZenonT(40) DEF ClosureReviewed, TaskRecords, TaskStates, Outcomes
  <2>3. task'[t] = tk => QuietTask(t)
    BY <1>2, <1>4 DEF ClosureReviewed, QuietTask, Resting, TaskRecords
  <2>4. QED
    BY <1>7, <2>2, <2>3, OneTaskQuiet DEF ReviewClosure
<1>8. CASE StopUnlaunched
  <2> DEFINE stopped(t) == [task[t] EXCEPT !.state = "postprocessing",
                                           !.reserved = FALSE,
                                           !.pending = Nothing,
                                           !.forced = TRUE]
  <2>1. \A t \in Tasks : stopped(t) \in TaskRecords
    BY <1>3, <1>4, ZenonT(40) DEF TaskRecords, TaskStates
  <2>2. \A t \in Tasks : task'[t] = IF Launchable(t) THEN stopped(t) ELSE task[t]
    BY <1>8 DEF StopUnlaunched
  <2>3. task' \in [Tasks -> TaskRecords]
    BY <1>4, <1>8, <2>1 DEF StopUnlaunched
  <2>4. ASSUME NEW t \in Tasks, Launchable(t)
        PROVE  QuietTask(t)
    <3>1. task'[t] = stopped(t)
      BY <2>2, <2>4
    <3>2. QED
      BY <1>2, <1>3, <1>4, <2>4, <3>1 DEF Launchable, QuietTask, Resting, TaskRecords
  <2>5. \A t \in Tasks : QuietTask(t)
    BY <2>2, <2>4, UnchangedIsQuiet
  <2>6. due' \subseteq Tasks
    BY <1>8 DEF StopUnlaunched
  <2>7. QED
    BY <1>1, <1>8, <2>3, <2>5, <2>6 DEF StopUnlaunched, Quiet, QuietPlace, QuietOp
<1>9. CASE StopWriter
  <2>1. Writer \in Tasks /\ task[Writer].state \notin {"none", "closed"}
    BY <1>9 DEF StopWriter
  <2>2. CASE task' = [task EXCEPT ![Writer].stopped = TRUE]
    <3> DEFINE tk == [task[Writer] EXCEPT !.stopped = TRUE]
    <3>1. tk \in TaskRecords
      BY <1>4, <2>1 DEF TaskRecords
    <3>2. task'[Writer] = tk => QuietTask(Writer)
      BY <1>4, <2>1 DEF QuietTask, Resting, TaskRecords
    <3>3. due' \subseteq Tasks
      BY <1>1, <1>9, <2>1 DEF StopWriter
    <3>4. QED
      BY <1>9, <2>1, <2>2, <3>1, <3>2, <3>3, OneTaskQuiet DEF StopWriter
  <2> DEFINE tk == [task[Writer] EXCEPT !.state = "postprocessing",
                                        !.forced = TRUE, !.stopped = TRUE]
  <2>3. CASE task' = [task EXCEPT ![Writer] = tk]
    <3>1. tk \in TaskRecords
      BY <1>4, <2>1, ZenonT(40) DEF TaskRecords, TaskStates
    <3>2. task'[Writer] = tk => QuietTask(Writer)
      BY <1>2, <1>4, <2>1 DEF QuietTask, Resting, TaskRecords
    <3>3. due' \subseteq Tasks
      BY <1>1, <1>9, <2>1 DEF StopWriter
    <3>4. QED
      BY <1>9, <2>1, <2>3, <3>1, <3>2, <3>3, OneTaskQuiet DEF StopWriter
  <2>4. QED
    BY <1>9, <2>2, <2>3 DEF StopWriter
<1>10. QED
  BY <1>5, <1>6, <1>7, <1>8, <1>9

(***************************************************************************)
(* The other steps.                                                        *)
(***************************************************************************)
(* The main thread moves on, the process stops or comes back: tasks,       *)
(* attempts and operations stay.                                           *)
Moves ==
    \/ \E ts \in SUBSET Tasks : StartBatch(ts)
    \/ BatchRuns \/ BatchEnds \/ Stop \/ RunFails \/ Restart
    \/ \E t \in Tasks : ProcessGone(t)

LEMMA MovesKeep ==
    ASSUME IInv, Moves
    PROVE  IInv'
<1>1. UNCHANGED <<task, att, op>>
  BY DEF Moves, StartBatch, BatchRuns, BatchEnds, ProcessGone, Stop, RunFails, Down,
         Restart
<1>2. /\ at' \in {"loop", "launch", "batch", "failing", "down", "recover"}
      /\ queue' \subseteq Tasks /\ alive' \subseteq alive /\ due' \subseteq due
      /\ published' = published /\ auths' = auths
      /\ at' # "launch" => queue' = {}
      /\ \A t \in queue' : task[t].n < MaxAttempts
      /\ at = "loop" \/ queue' \subseteq queue
  BY DEF Moves, StartBatch, BatchRuns, BatchEnds, ProcessGone, Stop, RunFails, Down,
         Restart, IInv, Linked, TypeOK
<1>3. restarts' \in 0..MaxRestarts
  <2>1. CASE Restart
    <3>1. restarts < MaxRestarts
      BY <2>1 DEF Restart
    <3>2. QED
      BY <2>1, <3>1, ConstantsAssumption DEF Restart, IInv, TypeOK
  <2>2. CASE ~Restart
    BY <2>2 DEF Moves, StartBatch, BatchRuns, BatchEnds, ProcessGone, Stop, RunFails,
                Down, IInv, TypeOK
  <2>3. QED
    BY <2>1, <2>2
<1>4. TypeOK'
  BY <1>1, <1>2, <1>3 DEF IInv, TypeOK
<1>5. Linked'
  BY <1>1, <1>2 DEF IInv, Linked, Reviewed
<1>6. Places'
  <2>1. CASE \E ts \in SUBSET Tasks : StartBatch(ts)
    <3>1. at = "loop" /\ at' = "launch" /\ alive' = alive
          /\ \A o \in Ops : ~Reviewable(o)
      BY <2>1 DEF StartBatch
    <3>2. \A t \in Tasks : task[t].state # "running"
      BY <3>1 DEF IInv, Places
    <3>3. ASSUME NEW o \in Ops, op[o].state = "verifying"
          PROVE  FALSE
      <4>1. op[o].task \in Tasks /\ op[o].attempt \in AttemptNos
        <5>1. /\ op[o].task \in Tasks
              /\ op[o].attempt \in 1..task[op[o].task].n
              /\ task[op[o].task].n \in 0..MaxAttempts
          BY <3>3 DEF IInv, Linked, TypeOK
        <5>2. QED
          BY <5>1, ConstantsAssumption DEF AttemptNos
      <4>2. SourceTerminal(o)
        BY <3>2, <4>1 DEF SourceTerminal, IInv, OneRunningAttempt
      <4>3. QED
        BY <3>1, <3>3, <4>2 DEF Reviewable
    <3>4. \A o \in Ops :
             op[o].state \in FinalOpStates \cup {"unused", "needs_attention"}
      BY <3>1, <3>3 DEF IInv, Places, TypeOK, OpStates, FinalOpStates, Reviewable
    <3>5. QED
      BY <1>1, <3>1, <3>2, <3>4 DEF Places, FinalOpStates
  <2>2. CASE BatchRuns
    BY <1>1, <2>2 DEF BatchRuns, IInv, Places
  <2>3. CASE BatchEnds
    BY <1>1, <2>3 DEF BatchEnds, Idle, IInv, Places
  <2>4. CASE Stop \/ RunFails \/ Restart
    BY <1>1, <2>4 DEF Stop, RunFails, Down, Restart, Places
  <2>5. CASE \E t \in Tasks : ProcessGone(t)
    BY <1>1, <2>5 DEF ProcessGone, IInv, Places
  <2>6. QED
    BY <2>1, <2>2, <2>3, <2>4, <2>5 DEF Moves
<1>7. OneRunningAttempt'
  <2>1. queue' \cap alive' = {}
    BY <1>2 DEF IInv, Places, OneRunningAttempt
  <2>2. QED
    BY <1>1, <1>2, <2>1 DEF IInv, OneRunningAttempt
<1>8. ReviewsBeforeRelaunch' /\ WorkersWithinSlots' /\ RestingHoldsNoSlot'
  BY <1>1 DEF IInv, ReviewsBeforeRelaunch, OpsOf, WorkersWithinSlots, RunningCount,
              RestingHoldsNoSlot, Resting
<1>9. Frozen' /\ EvidenceIsSound'
  BY <1>1 DEF IInv, Frozen, Settled, OpsOf, EvidenceIsSound
<1>10. QED
  BY <1>4, <1>5, <1>6, <1>7, <1>8, <1>9 DEF IInv

(* Assignment gives each new task a slot of its own.                       *)
LEMMA SubmitKeeps ==
    ASSUME IInv, NEW ts \in SUBSET Tasks, Submit(ts)
    PROVE  IInv'
<1>1. /\ task \in [Tasks -> TaskRecords]
      /\ \A t \in ts : task[t].state = "none"
      /\ UNCHANGED <<att, op, at, queue, alive, due, published, restarts, auths>>
      /\ at = "loop"
  BY TypesAsRecords DEF IInv, Submit
<1> DEFINE assigned(t) == [task[t] EXCEPT !.state = "launching", !.reserved = TRUE]
<1>2. /\ \A t \in ts : assigned(t) \in TaskRecords
      /\ task' = [t \in Tasks |-> IF t \in ts THEN assigned(t) ELSE task[t]]
  BY <1>1, ZenonT(40) DEF Submit, TaskRecords, TaskStates
<1>3. task' \in [Tasks -> TaskRecords]
  BY <1>1, <1>2
<1>4. \A t \in Tasks :
         /\ task'[t].n = task[t].n /\ task'[t].pending = task[t].pending
         /\ task'[t].state = "running" <=> task[t].state = "running"
         /\ task'[t].intent = task[t].intent
         /\ task'[t].evidence = task[t].evidence
         /\ task'[t].reviewed = task[t].reviewed
         /\ \/ task'[t].state = task[t].state /\ task'[t].reserved = task[t].reserved
            \/ /\ t \in ts /\ task[t].state = "none"
               /\ task'[t].state = "launching" /\ task'[t].reserved
  BY <1>1, <1>2 DEF TaskRecords
<1>5. TypeOK'
  BY <1>1, <1>3, TypesAsRecords DEF IInv, TypeOK, TaskRecords
<1>6. Linked'
  BY <1>1, <1>4 DEF IInv, Linked, TypeOK, Reviewed
<1>7. Places' /\ OneRunningAttempt'
  BY <1>1, <1>4 DEF IInv, Places, OneRunningAttempt, TypeOK
<1>8. ReviewsBeforeRelaunch'
  BY <1>1, <1>4 DEF IInv, ReviewsBeforeRelaunch, OpsOf
<1>9. RunningCount' <= MaxWorkers
  <2> DEFINE B == {t \in Tasks : task[t].reserved}
  <2>1. IsFiniteSet(B) /\ IsFiniteSet(ts)
    BY ConstantsAssumption, FS_Subset
  <2>2. {t \in Tasks : task'[t].reserved} \subseteq B \cup ts
    BY <1>4
  <2>3. /\ IsFiniteSet(B \cup ts)
        /\ Cardinality(B \cup ts) = Cardinality(B) + Cardinality(ts)
                                      - Cardinality(B \cap ts)
    BY <2>1, FS_Union
  <2>4. IsFiniteSet(B \cap ts)
    BY <2>1, FS_Subset
  <2>5. /\ Cardinality(B) \in Nat /\ Cardinality(ts) \in Nat
        /\ Cardinality(B \cap ts) \in Nat
        /\ Cardinality({t \in Tasks : task'[t].reserved}) \in Nat
        /\ Cardinality({t \in Tasks : task'[t].reserved}) <= Cardinality(B \cup ts)
    BY <2>1, <2>2, <2>3, <2>4, FS_Subset, FS_CardinalityType
  <2>6. Cardinality(ts) + Cardinality(B) <= MaxWorkers
    BY DEF Submit, RunningCount
  <2>7. RunningCount' = Cardinality({t \in Tasks : task'[t].reserved})
    BY DEF RunningCount
  <2>8. QED
    BY <2>3, <2>5, <2>6, <2>7, ConstantsAssumption
<1>10. WorkersWithinSlots' /\ RestingHoldsNoSlot'
  BY <1>4, <1>9 DEF IInv, WorkersWithinSlots, RestingHoldsNoSlot, Resting
<1>11. Frozen' /\ EvidenceIsSound'
  BY <1>1, <1>4 DEF IInv, Frozen, Settled, OpsOf, EvidenceIsSound
<1>12. QED
  BY <1>5, <1>6, <1>7, <1>8, <1>10, <1>11 DEF IInv

(* An attempt starts in a slot, after the reviews of the earlier ones.     *)
LEMMA StartKeeps ==
    ASSUME IInv, NEW t \in Tasks, StartAttempt(t)
    PROVE  IInv'
<1> DEFINE tk == Started(task[t])
           k == task[t].n + 1
           a == [state |-> "running", supp |-> task[t].pending]
<1>1. /\ task \in [Tasks -> TaskRecords] /\ task[t] \in TaskRecords
      /\ att \in [Tasks -> [AttemptNos -> AttemptRecords]]
      /\ task[t].n \in 0..MaxAttempts /\ task[t].n < MaxAttempts
      /\ Sound(task[t].pending)
      /\ queue \subseteq Tasks /\ alive \subseteq Tasks
  BY TypesAsRecords DEF IInv, StartAttempt, Linked, TaskRecords
<1>2. /\ at = "launch" /\ t \in queue /\ Launchable(t)
      /\ task' = [task EXCEPT ![t] = tk]
      /\ att' = [att EXCEPT ![t][k] = a]
      /\ queue' = queue \ {t} /\ alive' = alive \cup {t}
      /\ UNCHANGED <<op, at, due, published, restarts, auths>>
  BY DEF StartAttempt
<1>3. k \in AttemptNos /\ k \in 0..MaxAttempts
  BY <1>1, ConstantsAssumption DEF AttemptNos
<1>4. Nothing \in Supplements /\ Sound(Nothing)
  BY ConstantsAssumption DEF Nothing, Supplements, SupplementKinds, Sound, Repairs, Revisions
<1>5. /\ tk \in TaskRecords /\ tk.state = "running" /\ tk.reserved /\ tk.n = k
      /\ tk.pending = Nothing /\ tk.intent = task[t].intent
      /\ tk.evidence = task[t].evidence /\ tk.reviewed = task[t].reviewed
  BY <1>1, <1>3, <1>4 DEF Started, TaskRecords, TaskStates
<1>6. task[t].state # "running" /\ task[t].intent = "none"
  BY <1>2 DEF Launchable, IInv, Frozen
<1>7. /\ task' \in [Tasks -> TaskRecords] /\ task'[t] = tk
      /\ \A u \in Tasks \ {t} : task'[u] = task[u]
  BY <1>1, <1>2, <1>5
<1>8. a \in AttemptRecords /\ a.state = "running" /\ a.supp = task[t].pending
  BY <1>1 DEF AttemptRecords, AttemptStates, Sound
<1> HIDE DEF a, tk
<1>9. /\ att' \in [Tasks -> [AttemptNos -> AttemptRecords]]
      /\ att'[t][k] = a
      /\ \A u \in Tasks, j \in AttemptNos :
            u # t \/ j # k => att'[u][j] = att[u][j]
  BY <1>1, <1>2, <1>3, <1>8
<1>10. TypeOK'
  BY <1>1, <1>2, <1>7, <1>9, TypesAsRecords
     DEF IInv, TypeOK, TaskRecords, AttemptRecords
<1>11. Linked'
  <2>1. \A u \in Tasks :
           /\ Sound(task'[u].pending)
           /\ \A j \in AttemptNos : Sound(att'[u][j].supp)
           /\ task'[u].state = "running" => task'[u].n \in AttemptNos
    BY <1>1, <1>3, <1>4, <1>5, <1>7, <1>8, <1>9, ZenonT(40) DEF IInv, Linked
  <2>2. \A u \in queue' : task'[u].n < MaxAttempts
    BY <1>1, <1>2, <1>7 DEF IInv, Linked
  <2>3. \A o \in Ops : op'[o].state # "unused" =>
           /\ op'[o].task \in Tasks
           /\ op'[o].attempt \in 1..task'[op'[o].task].n
    <3>1. SUFFICES ASSUME NEW o \in Ops, op[o].state # "unused"
                   PROVE  /\ op[o].task \in Tasks
                          /\ op[o].attempt \in 1..task'[op[o].task].n
      BY <1>2
    <3>2. op[o].task \in Tasks /\ op[o].attempt \in 1..task[op[o].task].n
      BY <3>1 DEF IInv, Linked
    <3>3. CASE op[o].task = t
      BY <1>1, <1>5, <1>7, <3>2, <3>3
    <3>4. CASE op[o].task # t
      BY <1>7, <3>2, <3>4
    <3>5. QED
      BY <3>2, <3>3, <3>4
  <2>4. QED
    BY <1>2, <2>1, <2>2, <2>3 DEF IInv, Linked, Reviewed
<1>12. Places'
  BY <1>2, <1>7 DEF IInv, Places
<1>13. OneRunningAttempt'
  <2>1. ASSUME NEW u \in Tasks, NEW j \in AttemptNos
        PROVE  att'[u][j].state = "running"
                 <=> task'[u].state = "running" /\ j = task'[u].n
    <3>1. CASE u # t
      BY <1>7, <1>9, <3>1 DEF IInv, OneRunningAttempt
    <3>2. CASE u = t /\ j = k
      BY <1>5, <1>7, <1>8, <1>9, <3>2
    <3>3. CASE u = t /\ j # k
      BY <1>5, <1>6, <1>7, <1>9, <3>3 DEF IInv, OneRunningAttempt
    <3>4. QED
      BY <3>1, <3>2, <3>3
  <2>2. ASSUME NEW u \in alive'
        PROVE  \E j \in AttemptNos : /\ j = task'[u].n
                                     /\ att'[u][j].state \in {"running", "returned"}
    <3>1. CASE u = t
      BY <1>3, <1>5, <1>7, <1>8, <1>9, <3>1
    <3>2. CASE u # t
      <4>1. u \in alive /\ u \in Tasks /\ task'[u] = task[u]
        BY <1>1, <1>2, <1>7, <2>2, <3>2
      <4>2. PICK j \in AttemptNos : /\ j = task[u].n
                                    /\ att[u][j].state \in {"running", "returned"}
        BY <4>1 DEF IInv, OneRunningAttempt
      <4>3. QED
        BY <1>9, <3>2, <4>1, <4>2
    <3>3. QED
      BY <3>1, <3>2
  <2>3. queue' \cap alive' = {}
    BY <1>2 DEF IInv, OneRunningAttempt
  <2>4. QED
    BY <2>1, <2>2, <2>3 DEF OneRunningAttempt
<1>14. ReviewsBeforeRelaunch'
  BY <1>2 DEF IInv, Places, ReviewsBeforeRelaunch, OpsOf
<1>15. RunningCount' <= MaxWorkers
  <2> DEFINE B == {u \in Tasks : task[u].reserved}
  <2>1. IsFiniteSet(B) /\ Cardinality(B) \in Nat
    BY ConstantsAssumption, FS_Subset, FS_CardinalityType
  <2>2. {u \in Tasks : task'[u].reserved} = B \cup {t}
    BY <1>5, <1>7
  <2>3. Cardinality(B \cup {t})
          = IF t \in B THEN Cardinality(B) ELSE Cardinality(B) + 1
    BY <2>1, FS_AddElement
  <2>4. t \in B \/ Cardinality(B) < MaxWorkers
    BY DEF StartAttempt, RunningCount
  <2>5. RunningCount = Cardinality(B) /\ RunningCount' = Cardinality(B \cup {t})
    BY <2>2 DEF RunningCount
  <2>6. Cardinality(B) <= MaxWorkers
    BY <2>5 DEF IInv, WorkersWithinSlots
  <2> HIDE DEF B
  <2>7. QED
    BY <2>1, <2>3, <2>4, <2>5, <2>6, ConstantsAssumption
<1>16. WorkersWithinSlots' /\ RestingHoldsNoSlot'
  BY <1>5, <1>7, <1>15
     DEF IInv, WorkersWithinSlots, RestingHoldsNoSlot, Resting
<1>17. Frozen' /\ EvidenceIsSound'
  BY <1>2, <1>5, <1>6, <1>7 DEF IInv, Frozen, Settled, OpsOf, EvidenceIsSound
<1>18. QED
  BY <1>10, <1>11, <1>12, <1>13, <1>14, <1>16, <1>17 DEF IInv

(* An attempt ends, normally or not, and gives its slot back.              *)
Leaves(t, s) ==
    /\ at # "loop" /\ Idle
    /\ t \in alive /\ task[t].state = "running"
    /\ s # "running"
    /\ alive' = alive \ {t}
    /\ att' = [att EXCEPT ![t][task[t].n].state = s]
    /\ task' \in [Tasks -> TaskRecords]
    /\ \A u \in Tasks \ {t} : task'[u] = task[u]
    /\ Sound(task'[t].pending)
    /\ task'[t].n = task[t].n
    /\ task'[t].state \in {"retry_pending", "postprocessing"}
    /\ ~task'[t].reserved
    /\ task'[t].intent = task[t].intent
    /\ task'[t].evidence \subseteq OpsOf(t)
    /\ due' = {t}
    /\ UNCHANGED <<op, at, queue, published, restarts, auths>>

LEMMA EndingsLeave ==
    ASSUME IInv, NEW t \in Tasks,
           AttemptFails(t) \/ \E evidence \in SUBSET Ops : EndNormally(t, evidence)
    PROVE  \E s \in AttemptStates : Leaves(t, s)
<1>1. /\ task \in [Tasks -> TaskRecords] /\ task[t] \in TaskRecords
      /\ att \in [Tasks -> [AttemptNos -> AttemptRecords]]
      /\ Sound(task[t].pending)
  BY TypesAsRecords DEF IInv, Linked
<1>2. task[t].state = "running" /\ task[t].n \in AttemptNos
  BY DEF AttemptFails, EndNormally, IInv, Linked
<1>3. CASE AttemptFails(t)
  <2> DEFINE s == LastAttempt(t).supp
             tk == Interrupted(task[t], s)
  <2>1. Sound(s)
    BY <1>2 DEF LastAttempt, IInv, Linked
  <2>2. /\ tk \in TaskRecords /\ Sound(tk.pending)
        /\ tk.state \in {"retry_pending", "postprocessing"} /\ ~tk.reserved
        /\ tk.n = task[t].n /\ tk.intent = task[t].intent
        /\ tk.evidence = task[t].evidence
    BY <1>1, <1>2, <2>1, LossTypes
  <2>3. task' = [task EXCEPT ![t] = tk]
    BY <1>3 DEF AttemptFails
  <2> HIDE DEF tk
  <2>4. /\ task' \in [Tasks -> TaskRecords] /\ task'[t] = tk
        /\ \A u \in Tasks \ {t} : task'[u] = task[u]
    BY <1>1, <2>2, <2>3
  <2>5. task[t].evidence \subseteq OpsOf(t)
    BY DEF IInv, Frozen
  <2>6. Leaves(t, "interrupted")
    BY <1>3, <2>2, <2>4, <2>5 DEF AttemptFails, Leaves
  <2>7. QED
    BY <2>6 DEF AttemptStates
<1>4. ASSUME NEW evidence \in SUBSET Ops, EndNormally(t, evidence)
      PROVE  Leaves(t, "ended")
  <2> DEFINE tk == [task[t] EXCEPT !.state = "postprocessing", !.reserved = FALSE,
                                   !.outcome = "normal", !.evidence = evidence]
  <2>1. /\ tk \in TaskRecords /\ tk.pending = task[t].pending
        /\ tk.state = "postprocessing" /\ ~tk.reserved
        /\ tk.n = task[t].n /\ tk.intent = task[t].intent
        /\ tk.evidence = evidence
    BY <1>1 DEF TaskRecords, TaskStates, Outcomes
  <2>2. task' = [task EXCEPT ![t] = tk]
    BY <1>4 DEF EndNormally
  <2> HIDE DEF tk
  <2>3. /\ task' \in [Tasks -> TaskRecords] /\ task'[t] = tk
        /\ \A u \in Tasks \ {t} : task'[u] = task[u]
    BY <1>1, <2>1, <2>2
  <2>4. QED
    BY <1>1, <1>4, <2>1, <2>3 DEF EndNormally, Leaves
<1>5. QED
  BY <1>3, <1>4 DEF AttemptStates

LEMMA LeavesKeep ==
    ASSUME IInv, NEW t \in Tasks, NEW s \in AttemptStates, Leaves(t, s)
    PROVE  IInv'
<1>1. /\ task \in [Tasks -> TaskRecords]
      /\ att \in [Tasks -> [AttemptNos -> AttemptRecords]]
      /\ task[t].n \in AttemptNos /\ task[t].state = "running"
      /\ alive \subseteq Tasks /\ queue \subseteq Tasks
  BY TypesAsRecords DEF IInv, Linked, Leaves
<1>2. /\ at # "loop" /\ s # "running"
      /\ alive' = alive \ {t} /\ due' = {t}
      /\ task' \in [Tasks -> TaskRecords]
      /\ \A u \in Tasks \ {t} : task'[u] = task[u]
      /\ Sound(task'[t].pending) /\ task'[t].n = task[t].n
      /\ task'[t].state \in {"retry_pending", "postprocessing"}
      /\ ~task'[t].reserved
      /\ task'[t].intent = task[t].intent
      /\ task'[t].evidence \subseteq OpsOf(t)
      /\ UNCHANGED <<op, at, queue, published, restarts, auths>>
  BY DEF Leaves
<1>3. /\ att' \in [Tasks -> [AttemptNos -> AttemptRecords]]
      /\ att'[t][task[t].n].state = s
      /\ \A u \in Tasks, k \in AttemptNos :
            /\ att'[u][k].supp = att[u][k].supp
            /\ u # t \/ k # task[t].n => att'[u][k] = att[u][k]
  <2>1. att' = [att EXCEPT ![t][task[t].n].state = s]
    BY DEF Leaves
  <2>2. att[t][task[t].n] \in AttemptRecords
    BY <1>1
  <2> DEFINE a == [att[t][task[t].n] EXCEPT !.state = s]
  <2>3. a \in AttemptRecords /\ a.state = s /\ a.supp = att[t][task[t].n].supp
    BY <2>2 DEF AttemptRecords
  <2>4. att' = [att EXCEPT ![t] = [att[t] EXCEPT ![task[t].n] = a]]
    BY <2>1
  <2> HIDE DEF a
  <2>5. QED
    BY <1>1, <2>3, <2>4
<1>4. task[t].intent = "none"
  BY <1>1 DEF IInv, Frozen
<1>5. TypeOK'
  BY <1>1, <1>2, <1>3, TypesAsRecords
     DEF IInv, TypeOK, TaskRecords, AttemptRecords
<1>6. Linked'
  <2>1. \A u \in Tasks :
           /\ Sound(task'[u].pending)
           /\ \A j \in AttemptNos : Sound(att'[u][j].supp)
           /\ task'[u].state = "running" => task'[u].n \in AttemptNos
    BY <1>2, <1>3 DEF IInv, Linked
  <2>2. \A u \in Tasks : task'[u].n = task[u].n
    BY <1>2
  <2>3. QED
    BY <1>1, <1>2, <2>1, <2>2 DEF IInv, Linked, Reviewed
<1>7. Places'
  BY <1>2 DEF IInv, Places
<1>8. OneRunningAttempt'
  <2>1. ASSUME NEW u \in Tasks, NEW j \in AttemptNos
        PROVE  att'[u][j].state = "running"
                 <=> task'[u].state = "running" /\ j = task'[u].n
    <3>1. CASE u # t
      BY <1>2, <1>3, <3>1, SMTT(40) DEF IInv, OneRunningAttempt
    <3>2. CASE u = t /\ j = task[t].n
      BY <1>2, <1>3, <3>2
    <3>3. CASE u = t /\ j # task[t].n
      BY <1>2, <1>3, <3>3 DEF IInv, OneRunningAttempt
    <3>4. QED
      BY <3>1, <3>2, <3>3
  <2>2. ASSUME NEW u \in alive'
        PROVE  \E j \in AttemptNos : /\ j = task'[u].n
                                     /\ att'[u][j].state \in {"running", "returned"}
    <3>1. u \in alive /\ u \in Tasks /\ u # t /\ task'[u] = task[u]
      BY <1>1, <1>2, <2>2
    <3>2. PICK j \in AttemptNos : /\ j = task[u].n
                                  /\ att[u][j].state \in {"running", "returned"}
      BY <3>1 DEF IInv, OneRunningAttempt
    <3>3. QED
      BY <1>3, <3>1, <3>2
  <2>3. queue' \cap alive' = {}
    BY <1>2 DEF IInv, OneRunningAttempt
  <2>4. QED
    BY <2>1, <2>2, <2>3 DEF OneRunningAttempt
<1>9. ReviewsBeforeRelaunch'
  <2>1. \A u \in Tasks : task'[u].state = "running" => u # t /\ task'[u] = task[u]
    BY <1>2
  <2>2. \A u \in Tasks : OpsOf(u)' = OpsOf(u)
    BY <1>2 DEF OpsOf
  <2>3. QED
    BY <1>2, <2>1, <2>2 DEF IInv, ReviewsBeforeRelaunch
<1>10. \A u \in Tasks : task'[u].reserved => task[u].reserved
  BY <1>2
<1>11. WorkersWithinSlots' /\ RestingHoldsNoSlot'
  <2>1. RunningCount' <= MaxWorkers
    BY <1>10, FewerReserved DEF IInv, WorkersWithinSlots
  <2>2. QED
    BY <1>2, <2>1 DEF IInv, WorkersWithinSlots, RestingHoldsNoSlot
<1>12. \A u \in Tasks : OpsOf(u)' = OpsOf(u) /\ Settled(u)' = Settled(u)
  BY <1>2 DEF OpsOf, Settled
<1>13. Frozen' /\ EvidenceIsSound'
  BY <1>2, <1>4, <1>12 DEF IInv, Frozen, EvidenceIsSound
<1>14. QED
  BY <1>5, <1>6, <1>7, <1>8, <1>9, <1>11, <1>13 DEF IInv

(* The return of a running attempt changes its task, its attempt and the   *)
(* Fact it returns.                                                        *)
ReturnOf(o, t, n) ==
    /\ t \in Tasks /\ t = op[o].task
    /\ n \in AttemptNos /\ n = task[t].n /\ at = "batch"
    /\ task[t] \in TaskRecords
    /\ task[t].state = "running" /\ task[t].intent = "none"
    /\ op[o].state = "synthesizing" /\ op[o].review # "none"
    /\ op[o].kind = "fact" /\ IsLatest(op, o)
    /\ UNCHANGED <<at, queue, alive, published, restarts, auths>>
    /\ due' = {}
    /\ task' \in [Tasks -> TaskRecords]
    /\ task'[t] = RepairRequested(task[t], o, "identical_rejected_bundle")
    /\ Sound(task'[t].pending)
    /\ task'[t].state = "revision_pending" /\ ~task'[t].reserved
    /\ task'[t].n = n /\ task'[t].intent = "none"
    /\ task'[t].evidence = task[t].evidence
    /\ \A u \in Tasks \ {t} : task'[u] = task[u]
    /\ op' \in [Ops -> OpRecords]
    /\ op' = [op EXCEPT ![o] = op'[o]]
    /\ op'[o] = [op[o] EXCEPT !.state = "rejected", !.repair = TRUE,
                              !.refuted = FALSE]
    /\ op'[o].state = "rejected" /\ op'[o].task = t
    /\ op'[o].attempt = op[o].attempt /\ op'[o].kind = op[o].kind
    /\ \A p \in Ops \ {o} : op'[p] = op[p]
    /\ att' \in [Tasks -> [AttemptNos -> AttemptRecords]]
    /\ att'[t][n].state = "returned"
    /\ \A u \in Tasks, k \in AttemptNos :
          /\ att'[u][k].supp = att[u][k].supp
          /\ u # t \/ k # n => att'[u][k] = att[u][k]

(* This is what such a return does.                                        *)
LEMMA ReturnFacts ==
    ASSUME IInv, NEW o \in Ops, ReturnsRunning(o)
    PROVE  \E t \in Tasks, n \in AttemptNos : ReturnOf(o, t, n)
<1> DEFINE t == op[o].task
           n == task[t].n
           tk == RepairRequested(task[t], o, "identical_rejected_bundle")
           rec == [op[o] EXCEPT !.state = "rejected", !.repair = TRUE,
                                !.refuted = FALSE]
<1>1. /\ task \in [Tasks -> TaskRecords] /\ op \in [Ops -> OpRecords]
      /\ att \in [Tasks -> [AttemptNos -> AttemptRecords]]
      /\ op[o] \in OpRecords /\ op[o].state = "synthesizing"
      /\ op[o].kind = "fact" /\ IsLatest(op, o)
      /\ at \in {"loop", "batch"} /\ task[t].state = "running"
  BY TypesAsRecords DEF IInv, ReturnsRunning, ReturnIdentical, InRun
<1>2. /\ t \in Tasks /\ task[t] \in TaskRecords /\ task[t].intent = "none"
      /\ n \in AttemptNos /\ op[o].review # "none"
  BY <1>1, TaskOfOp DEF FinalOpStates, IInv, Linked, Reviewed
<1>3. /\ op' = [op EXCEPT ![o] = rec]
      /\ task' = [task EXCEPT ![t] = tk]
      /\ att' = [att EXCEPT ![t][n].state = "returned"]
      /\ due' = {}
      /\ UNCHANGED <<at, queue, alive, published, restarts, auths>>
  BY <1>1 DEF ReturnsRunning, ReturnIdentical, SendBack
<1>4. at = "batch"
  BY <1>1, <1>2 DEF IInv, Places
<1>5. /\ tk \in TaskRecords /\ Sound(tk.pending)
      /\ tk.state = "revision_pending" /\ ~tk.reserved
      /\ tk.n = n /\ tk.intent = "none"
      /\ tk.evidence = task[t].evidence
  BY <1>1, <1>2, RepairTypes DEF Revisions
<1> HIDE DEF tk
<1>6. /\ rec \in OpRecords /\ rec.state = "rejected" /\ rec.task = t
      /\ rec.attempt = op[o].attempt /\ rec.kind = op[o].kind
  BY <1>1 DEF OpRecords, OpStates
<1>7. /\ att' \in [Tasks -> [AttemptNos -> AttemptRecords]]
      /\ att'[t][n].state = "returned"
      /\ \A u \in Tasks, k \in AttemptNos :
            /\ att'[u][k].supp = att[u][k].supp
            /\ u # t \/ k # n => att'[u][k] = att[u][k]
  <2> DEFINE a == [att[t][n] EXCEPT !.state = "returned"]
  <2>1. att[t][n] \in AttemptRecords
    BY <1>1, <1>2
  <2>2. a \in AttemptRecords /\ a.state = "returned" /\ a.supp = att[t][n].supp
    BY <2>1 DEF AttemptRecords, AttemptStates
  <2>3. att' = [att EXCEPT ![t] = [att[t] EXCEPT ![n] = a]]
    BY <1>3
  <2> HIDE DEF a, n, t
  <2>4. QED
    BY <1>1, <1>2, <2>2, <2>3
<1>8. /\ task' \in [Tasks -> TaskRecords] /\ task'[t] = tk
      /\ \A u \in Tasks \ {t} : task'[u] = task[u]
  BY <1>1, <1>2, <1>3, <1>5
<1> HIDE DEF rec
<1>9. /\ op' \in [Ops -> OpRecords] /\ op'[o] = rec
      /\ \A p \in Ops \ {o} : op'[p] = op[p]
  BY <1>1, <1>3, <1>6
<1>10. op' = [op EXCEPT ![o] = op'[o]] /\ op'[o] = [op[o] EXCEPT
          !.state = "rejected", !.repair = TRUE, !.refuted = FALSE]
  BY <1>3, <1>9 DEF rec
<1>11. task'[t] = RepairRequested(task[t], o, "identical_rejected_bundle")
  BY <1>8 DEF tk
<1>12. t = op[o].task /\ n = task[t].n
  OBVIOUS
<1> HIDE DEF t, n
<1>13. ReturnOf(o, t, n)
  BY <1>1, <1>2, <1>3, <1>4, <1>5, <1>6, <1>7, <1>8, <1>9, <1>10, <1>11, <1>12
     DEF ReturnOf
<1>14. QED
  BY <1>2, <1>13

(* A returned attempt leaves its slot, but not yet its process.            *)
LEMMA ReturnKeeps ==
    ASSUME IInv, NEW o \in Ops, ReturnsRunning(o)
    PROVE  IInv'
<1>1. PICK t \in Tasks, n \in AttemptNos : ReturnOf(o, t, n)
  BY ReturnFacts
<1>2. /\ t = op[o].task /\ n = task[t].n
      /\ at = "batch" /\ task[t] \in TaskRecords
      /\ task[t].state = "running" /\ task[t].intent = "none"
      /\ op[o].review # "none" /\ op[o].state # "unused"
      /\ alive \subseteq Tasks /\ queue \subseteq Tasks
  BY <1>1, TypesAsRecords DEF IInv, ReturnOf
<1>3. due' = {} /\ UNCHANGED <<at, queue, alive, published, restarts, auths>>
  BY <1>1 DEF ReturnOf
<1>4. /\ Sound(task'[t].pending)
      /\ task'[t].state = "revision_pending" /\ ~task'[t].reserved
      /\ task'[t].n = n /\ task'[t].intent = "none"
      /\ task'[t].evidence = task[t].evidence
  BY <1>1 DEF ReturnOf
<1>5. /\ op'[o].state = "rejected" /\ op'[o].task = t
      /\ op'[o].attempt = op[o].attempt /\ op'[o].kind = op[o].kind
  BY <1>1 DEF ReturnOf
<1>6. /\ att' \in [Tasks -> [AttemptNos -> AttemptRecords]]
      /\ att'[t][n].state = "returned"
      /\ \A u \in Tasks, k \in AttemptNos :
            /\ att'[u][k].supp = att[u][k].supp
            /\ u # t \/ k # n => att'[u][k] = att[u][k]
  BY <1>1 DEF ReturnOf
<1>7. /\ task' \in [Tasks -> TaskRecords]
      /\ \A u \in Tasks \ {t} : task'[u] = task[u]
      /\ op' \in [Ops -> OpRecords]
      /\ \A p \in Ops \ {o} : op'[p] = op[p]
  BY <1>1 DEF ReturnOf
<1>8. \A p \in Ops : /\ op'[p].task = op[p].task
                     /\ op'[p].attempt = op[p].attempt
                     /\ op'[p].kind = op[p].kind
                     /\ op'[p].state = "unused" <=> op[p].state = "unused"
  BY <1>1, <1>2, <1>5, <1>7
<1>9. \A u \in Tasks : task'[u].n = task[u].n
  BY <1>2, <1>4, <1>7
<1>10. TypeOK'
  BY <1>1, <1>3, <1>6, <1>7, TypesAsRecords
     DEF IInv, TypeOK, TaskRecords, AttemptRecords, OpRecords
<1>11. Linked'
  <2>1. \A u \in Tasks :
           /\ Sound(task'[u].pending)
           /\ \A j \in AttemptNos : Sound(att'[u][j].supp)
           /\ task'[u].state = "running" => task'[u].n \in AttemptNos
    BY <1>2, <1>4, <1>6, <1>7 DEF IInv, Linked
  <2>2. \A p \in Ops : op'[p].state # "unused" =>
           /\ op'[p].task \in Tasks
           /\ op'[p].attempt \in 1..task'[op'[p].task].n
    BY <1>8, <1>9 DEF IInv, Linked
  <2>3. \A p \in Ops : Reviewed(op'[p])
    BY <1>5, <1>7 DEF IInv, Linked, Reviewed
  <2>4. /\ at' # "launch" => queue' = {}
        /\ \A u \in queue' : task'[u].n < MaxAttempts
    BY <1>2, <1>3, <1>9 DEF IInv, Linked
  <2>5. QED
    BY <2>1, <2>2, <2>3, <2>4 DEF Linked
<1>12. Places'
  BY <1>2, <1>3, <1>4, <1>7 DEF IInv, Places
<1>13. OneRunningAttempt'
  <2>1. ASSUME NEW u \in Tasks, NEW j \in AttemptNos
        PROVE  att'[u][j].state = "running"
                 <=> task'[u].state = "running" /\ j = task'[u].n
    <3>1. CASE u # t
      BY <1>6, <1>7, <3>1, SMTT(40) DEF IInv, OneRunningAttempt
    <3>2. CASE u = t /\ j = n
      BY <1>4, <1>6, <1>7, <3>2
    <3>3. CASE u = t /\ j # n
      BY <1>2, <1>4, <1>6, <1>7, <3>3 DEF IInv, OneRunningAttempt
    <3>4. QED
      BY <3>1, <3>2, <3>3
  <2>2. ASSUME NEW u \in alive
        PROVE  \E j \in AttemptNos : /\ j = task'[u].n
                                     /\ att'[u][j].state \in {"running", "returned"}
    <3>1. CASE u = t
      BY <1>2, <1>4, <1>6, <1>7, <3>1
    <3>2. CASE u # t
      <4>1. u \in Tasks /\ task'[u] = task[u]
        BY <1>2, <1>7, <3>2
      <4>2. PICK j \in AttemptNos : /\ j = task[u].n
                                    /\ att[u][j].state \in {"running", "returned"}
        BY <4>1 DEF IInv, OneRunningAttempt
      <4>3. QED
        BY <1>6, <3>2, <4>1, <4>2
    <3>3. QED
      BY <3>1, <3>2
  <2>3. queue' \cap alive' = {} /\ alive' = alive
    BY <1>3 DEF IInv, OneRunningAttempt
  <2>4. QED
    BY <2>1, <2>2, <2>3 DEF OneRunningAttempt
<1>14. \A u \in Tasks \ {t} :
          OpsOf(u)' = OpsOf(u) /\ \A p \in OpsOf(u) : p # o /\ op'[p] = op[p]
  BY <1>2, <1>7, <1>8 DEF OpsOf
<1>15. ReviewsBeforeRelaunch'
  <2>1. \A u \in Tasks : task'[u].state = "running" => u # t /\ task'[u] = task[u]
    BY <1>4, <1>7
  <2>2. QED
    BY <1>14, <2>1 DEF IInv, ReviewsBeforeRelaunch
<1>16. \A u \in Tasks : task'[u].reserved => task[u].reserved
  BY <1>4, <1>7
<1>17. WorkersWithinSlots' /\ RestingHoldsNoSlot'
  <2>1. RunningCount' <= MaxWorkers
    BY <1>16, FewerReserved DEF IInv, WorkersWithinSlots
  <2>2. QED
    BY <1>4, <1>7, <2>1 DEF IInv, WorkersWithinSlots, RestingHoldsNoSlot, Resting
<1>18. Frozen' /\ EvidenceIsSound'
  <2>1. \A u \in Tasks : OpsOf(u)' = OpsOf(u)
    BY <1>8 DEF OpsOf
  <2>2. \A u \in Tasks : task'[u].evidence = task[u].evidence
    BY <1>4, <1>7
  <2>3. \A u \in Tasks \ {t} : Settled(u) => Settled(u)'
    BY <1>14 DEF Settled
  <2>4. Frozen'
    BY <1>4, <1>7, <1>14, <2>1, <2>2, <2>3 DEF IInv, Frozen
  <2>5. ASSUME NEW u \in Tasks, task'[u].intent = "normal", NEW p \in task'[u].evidence,
               op'[p].kind # "fact"
        PROVE  op'[p].state = "committed" \/ p \in task'[u].reviewed
    <3>1. u # t /\ task'[u] = task[u]
      BY <1>4, <1>7, <2>5
    <3>2. p \in OpsOf(u)
      BY <2>5, <3>1 DEF IInv, Frozen
    <3>3. op'[p] = op[p]
      BY <1>14, <3>1, <3>2
    <3>4. QED
      BY <2>5, <3>1, <3>3 DEF IInv, EvidenceIsSound
  <2>6. QED
    BY <2>4, <2>5 DEF EvidenceIsSound
<1>19. QED
  BY <1>10, <1>11, <1>12, <1>13, <1>15, <1>17, <1>18 DEF IInv

(* What an agent has staged is received for its running attempt.           *)
LEMMA IngestKeeps ==
    ASSUME IInv, NEW t \in Tasks, NEW o \in Ops, NEW kind \in Kinds,
           Ingest(t, o, kind)
    PROVE  IInv'
<1>1. /\ op \in [Ops -> OpRecords]
      /\ at \in {"batch", "recover"} /\ task[t].state = "running"
      /\ op[o].state = "unused"
      /\ task[t].n \in AttemptNos /\ task[t].n \in 0..MaxAttempts
      /\ Sound(LastAttempt(t).supp)
      /\ UNCHANGED <<task, att, at, queue, alive, due, published, restarts, auths>>
  BY TypesAsRecords DEF IInv, Linked, Ingest, LastAttempt, TypeOK
<1> DEFINE s == LastAttempt(t).supp
           answers == kind = "fact" /\ s.kind \in Revisions
           rec == [state |-> "received", task |-> t, attempt |-> task[t].n,
                   kind |-> kind,
                   chain |-> IF answers THEN op[s.cause].chain ELSE o,
                   request |-> IF answers THEN op[s.cause].request + 1 ELSE 0,
                   review |-> "none", repair |-> FALSE, refuted |-> FALSE]
<1>2. rec \in OpRecords
  <2>1. answers => s.cause \in Ops
    BY <1>1 DEF Sound, Repairs, Revisions
  <2>2. \A p \in Ops : op[p].chain \in 0..MaxOps /\ op[p].request \in Nat
    BY <1>1 DEF OpRecords
  <2>3. o \in 0..MaxOps
    BY ConstantsAssumption DEF Ops
  <2>4. /\ (IF answers THEN op[s.cause].chain ELSE o) \in 0..MaxOps
        /\ (IF answers THEN op[s.cause].request + 1 ELSE 0) \in Nat
    <3> HIDE DEF answers, s
    <3>1. CASE answers
      BY <2>1, <2>2, <3>1
    <3>2. CASE ~answers
      BY <2>3, <3>2
    <3>3. QED
      BY <3>1, <3>2
  <2>5. QED
    BY <1>1, <2>4 DEF OpRecords, OpStates
<1>3. op' = [op EXCEPT ![o] = rec]
  BY DEF Ingest
<1>4. rec.state = "received" /\ rec.task = t /\ rec.attempt = task[t].n
  OBVIOUS
<1> HIDE DEF rec
<1>5. /\ op' \in [Ops -> OpRecords] /\ op'[o] = rec
      /\ \A p \in Ops \ {o} : op'[p] = op[p]
  BY <1>1, <1>2, <1>3
<1>6. TypeOK'
  BY <1>1, <1>5 DEF IInv, TypeOK, OpRecords
<1>7. Linked'
  <2>1. \A p \in Ops : op'[p].state # "unused" =>
           /\ op'[p].task \in Tasks /\ op'[p].attempt \in 1..task[op'[p].task].n
    BY <1>1, <1>4, <1>5 DEF IInv, Linked, AttemptNos
  <2>2. \A p \in Ops : Reviewed(op'[p])
    BY <1>4, <1>5 DEF IInv, Linked, Reviewed
  <2>3. QED
    BY <1>1, <2>1, <2>2 DEF IInv, Linked
<1>8. Places' /\ OneRunningAttempt'
  BY <1>1 DEF IInv, Places, OneRunningAttempt
<1>9. ReviewsBeforeRelaunch'
  <2>1. SUFFICES ASSUME NEW u \in Tasks, NEW p \in Ops,
                        task[u].state = "running", op'[p].task = u,
                        op'[p].state # "unused", op'[p].attempt < task[u].n
                 PROVE  op'[p].state \in FinalOpStates \cup {"needs_attention"}
    BY <1>1 DEF ReviewsBeforeRelaunch, OpsOf
  <2>2. p # o
    BY <1>1, <1>4, <1>5, <2>1
  <2>3. QED
    BY <1>5, <2>1, <2>2 DEF IInv, ReviewsBeforeRelaunch, OpsOf
<1>10. WorkersWithinSlots' /\ RestingHoldsNoSlot'
  BY <1>1 DEF IInv, WorkersWithinSlots, RunningCount, RestingHoldsNoSlot, Resting
<1>11. \A u \in Tasks : OpsOf(u) \subseteq OpsOf(u)'
  BY <1>1, <1>5 DEF OpsOf
<1>12. Frozen'
  <2>1. ASSUME NEW u \in Tasks, task[u].intent # "none"
        PROVE  task[u].state \in {"postprocessing", "closed"} /\ Settled(u)'
    <3>1. u # t /\ task[u].state \in {"postprocessing", "closed"} /\ Settled(u)
      BY <1>1, <2>1 DEF IInv, Frozen
    <3>2. QED
      BY <1>4, <1>5, <3>1 DEF Settled, OpsOf
  <2>2. QED
    BY <1>1, <1>11, <2>1 DEF IInv, Frozen
<1>13. EvidenceIsSound'
  BY <1>1, <1>5 DEF IInv, EvidenceIsSound, Frozen, OpsOf
<1>14. QED
  BY <1>6, <1>7, <1>8, <1>9, <1>10, <1>12, <1>13 DEF IInv

(* Recovery leaves nothing running and takes no slot.                      *)
LEMMA ReconcileKeeps ==
    ASSUME IInv, Reconcile
    PROVE  IInv'
<1>1. /\ task \in [Tasks -> TaskRecords]
      /\ att \in [Tasks -> [AttemptNos -> AttemptRecords]]
      /\ at = "recover" /\ at' = "loop" /\ Idle /\ alive' = {}
      /\ due' \subseteq Tasks /\ queue = {}
      /\ UNCHANGED <<op, queue, published, restarts, auths>>
  BY TypesAsRecords DEF IInv, Reconcile, Linked
<1>2. \A t \in Tasks :
         /\ Sound(task[t].pending) /\ \A k \in AttemptNos : Sound(att[t][k].supp)
         /\ task[t].state = "running" => task[t].n \in AttemptNos
         /\ task[t].intent # "none" => task[t].state \in {"postprocessing", "closed"}
  BY DEF IInv, Linked, Frozen
<1>3. Sound(Nothing)
  BY ConstantsAssumption DEF Nothing, Supplements, SupplementKinds, Sound, Repairs, Revisions
<1> DEFINE tasks == [t \in Tasks |-> Reconciled(task[t], att[t])]
<1>4. \A t \in Tasks :
         /\ tasks[t] \in TaskRecords
         /\ Sound(tasks[t].pending)
         /\ tasks[t].state # "running"
         /\ tasks[t].reserved => task[t].reserved
         /\ \/ tasks[t] = task[t]
            \/ /\ task[t].state \in {"launching", "running"}
               /\ \/ tasks[t].state = "retry_pending"
                  \/ tasks[t].state = "postprocessing" /\ ~tasks[t].reserved
         /\ tasks[t].n = task[t].n /\ tasks[t].intent = task[t].intent
         /\ tasks[t].evidence = task[t].evidence
         /\ tasks[t].reviewed = task[t].reviewed
  <2>1. SUFFICES ASSUME NEW t \in Tasks
        PROVE LET after == Reconciled(task[t], att[t])
              IN  /\ after \in TaskRecords
                  /\ Sound(after.pending)
                  /\ after.state # "running"
                  /\ after.reserved => task[t].reserved
                  /\ \/ after = task[t]
                     \/ /\ task[t].state \in {"launching", "running"}
                        /\ \/ after.state = "retry_pending"
                           \/ after.state = "postprocessing" /\ ~after.reserved
                  /\ after.n = task[t].n /\ after.intent = task[t].intent
                  /\ after.evidence = task[t].evidence
                  /\ after.reviewed = task[t].reviewed
    OBVIOUS
  <2>2. /\ task[t] \in TaskRecords /\ att[t] \in [AttemptNos -> AttemptRecords]
        /\ Sound(task[t].pending) /\ \A k \in AttemptNos : Sound(att[t][k].supp)
        /\ task[t].state = "running" => task[t].n \in AttemptNos
    BY <1>1, <1>2
  <2>3. QED
    BY <2>2, ReconciledTypes, Zenon
<1>5. tasks \in [Tasks -> TaskRecords]
  BY <1>4
<1>6. task' = WithoutStale(tasks, op, TRUE)
  BY DEF Reconcile
<1> HIDE DEF tasks
<1>7. task' \in [Tasks -> TaskRecords]
  BY <1>5, <1>6, StaleTypes
<1>8. ASSUME NEW t \in Tasks
      PROVE  /\ task'[t].n = task[t].n
             /\ Sound(task'[t].pending)
             /\ task'[t].state # "running"
             /\ task'[t].reserved => task[t].reserved
             /\ Resting(task'[t]) /\ task'[t].reserved =>
                  Resting(task[t]) /\ task[t].reserved
             /\ task'[t].intent = task[t].intent
             /\ task[t].intent # "none" => task'[t].state = task[t].state
             /\ task'[t].evidence = task[t].evidence
             /\ task'[t].reviewed = task[t].reviewed
  <2> DEFINE after == WithoutStale(tasks, op, TRUE)[t]
  <2>1. /\ after.n = tasks[t].n
        /\ after.pending \in {tasks[t].pending, Nothing}
        /\ \/ after.state = tasks[t].state /\ after.reserved = tasks[t].reserved
           \/ /\ tasks[t].state \in {"revision_pending", "retry_pending"}
              /\ after.state = "postprocessing" /\ ~after.reserved
        /\ after.intent = tasks[t].intent
        /\ after.evidence = tasks[t].evidence
        /\ after.reviewed = tasks[t].reviewed
    BY <1>5, StaleTypes, ZenonT(40)
  <2>2. task'[t] = after
    BY <1>6
  <2> HIDE DEF after
  <2>3. QED
    BY <1>2, <1>3, <1>4, <2>1, <2>2 DEF Resting
<1>9. ASSUME NEW t \in Tasks, NEW k \in AttemptNos
      PROVE  /\ att'[t] \in [AttemptNos -> AttemptRecords]
             /\ att'[t][k].supp = att[t][k].supp
             /\ att'[t][k].state # "running"
  <2>1. att'[t] = Fenced(att[t])
    BY DEF Reconcile
  <2>2. \A j \in AttemptNos :
           /\ att[t][j] \in AttemptRecords
           /\ [att[t][j] EXCEPT !.state = "interrupted"] \in AttemptRecords
    BY <1>1 DEF AttemptRecords, AttemptStates
  <2>3. att'[t][k] = IF att[t][k].state = "running"
                     THEN [att[t][k] EXCEPT !.state = "interrupted"]
                     ELSE att[t][k]
    BY <2>1 DEF Fenced
  <2>4. QED
    BY <2>1, <2>2, <2>3 DEF Fenced, AttemptRecords
<1>10. att' \in [Tasks -> [AttemptNos -> AttemptRecords]]
  <2>1. att' = [t \in Tasks |-> Fenced(att[t])]
    BY DEF Reconcile
  <2>2. ASSUME NEW t \in Tasks
        PROVE  Fenced(att[t]) \in [AttemptNos -> AttemptRecords]
    BY <1>1 DEF Fenced, AttemptRecords, AttemptStates
  <2>3. QED
    BY <2>1, <2>2
<1>11. TypeOK'
  BY <1>1, <1>7, <1>10, TypesAsRecords
     DEF IInv, TypeOK, TaskRecords, AttemptRecords
<1>12. Linked'
  <2>1. \A t \in Tasks :
           /\ Sound(task'[t].pending)
           /\ \A k \in AttemptNos : Sound(att'[t][k].supp)
           /\ task'[t].state # "running" /\ task'[t].n = task[t].n
    BY <1>2, <1>8, <1>9
  <2>2. QED
    BY <1>1, <2>1 DEF IInv, Linked, Reviewed
<1>13. Places' /\ OneRunningAttempt'
  BY <1>1, <1>8, <1>9 DEF Idle, Places, OneRunningAttempt
<1>14. ReviewsBeforeRelaunch'
  BY <1>8 DEF ReviewsBeforeRelaunch
<1>15. WorkersWithinSlots'
  <2>1. RunningCount' <= MaxWorkers
    BY <1>8, FewerReserved DEF IInv, WorkersWithinSlots
  <2>2. QED
    BY <1>8, <2>1 DEF WorkersWithinSlots
<1>16. RestingHoldsNoSlot'
  BY <1>8 DEF IInv, RestingHoldsNoSlot
<1>17. \A t \in Tasks : OpsOf(t)' = OpsOf(t) /\ Settled(t)' = Settled(t)
  BY <1>1 DEF OpsOf, Settled
<1>18. Frozen' /\ EvidenceIsSound'
  BY <1>1, <1>2, <1>8, <1>17 DEF IInv, Frozen, EvidenceIsSound
<1>19. QED
  BY <1>11, <1>12, <1>13, <1>14, <1>15, <1>16, <1>18 DEF IInv

(***************************************************************************)
(* The theorems.                                                           *)
(***************************************************************************)
(* Every step is quiet or one of the others.                               *)
LEMMA Steps ==
    ASSUME IInv, Next
    PROVE  \/ Quiet \/ Moves \/ Reconcile
           \/ \E ts \in SUBSET Tasks : Submit(ts)
           \/ \E o \in Ops : ReturnsRunning(o)
           \/ \E t \in Tasks : StartAttempt(t) \/ \E s \in AttemptStates : Leaves(t, s)
           \/ \E t \in Tasks, o \in Ops, kind \in Kinds : Ingest(t, o, kind)
<1>1. CASE MainThread
  <2>1. CASE \/ \E ts \in SUBSET Tasks : StartBatch(ts)
             \/ BatchRuns \/ BatchEnds \/ RunFails
    BY <2>1 DEF Moves
  <2>2. CASE \E t \in Tasks : Work(t)
    BY <2>2, EndingsLeave, DecisionsAreQuiet DEF Work, Moves
  <2>3. CASE \E t \in Tasks : Closing(t)
    BY <2>3, ClosingIsQuiet
  <2>4. CASE \E o \in Ops : Review(o)
    BY <2>4, ReviewIsQuiet
  <2>5. CASE \/ \E o \in Ops : Route(o)
             \/ \E o \in Ops, verdict \in Verdicts : CommitMemo(o, verdict)
    BY <2>5, RoutingIsQuiet
  <2>6. QED
    BY <1>1, <2>1, <2>2, <2>3, <2>4, <2>5 DEF MainThread
<1>2. CASE Operator
  BY <1>2, DecisionsAreQuiet DEF Operator, Moves
<1>3. QED
  BY <1>1, <1>2 DEF Next

(* The inductive invariant holds in every reachable state.                 *)
LEMMA Invariance == Spec => []IInv
<1>1. Init => IInv
  <2>1. SUFFICES ASSUME Init PROVE IInv
    OBVIOUS
  <2>2. Nothing \in Supplements /\ Sound(Nothing)
    BY ConstantsAssumption DEF Nothing, Supplements, SupplementKinds, Sound, Repairs, Revisions
  <2>3. NewTask \in TaskRecords /\ NoAttempt \in AttemptRecords /\ NewOp \in OpRecords
    BY <2>2, ConstantsAssumption
       DEF NewTask, NoAttempt, NewOp, TaskRecords, AttemptRecords, OpRecords,
           TaskStates, AttemptStates, OpStates, Outcomes
  <2>4. /\ \A t \in Tasks : task[t] = NewTask
        /\ \A t \in Tasks, k \in AttemptNos : att[t][k] = NoAttempt
        /\ \A o \in Ops : op[o] = NewOp
        /\ at = "loop" /\ queue = {} /\ alive = {} /\ due = {} /\ published = {}
        /\ restarts = 0 /\ auths = 0
    BY <2>1 DEF Init
  <2>5. /\ NewTask.state = "none" /\ ~NewTask.reserved /\ NewTask.n = 0
        /\ NewTask.pending = Nothing /\ NewTask.intent = "none"
        /\ NewTask.evidence = {}
    BY DEF NewTask
  <2>6. NoAttempt.state = "none" /\ NoAttempt.supp = Nothing
    BY DEF NoAttempt
  <2>7. NewOp.state = "unused"
    BY DEF NewOp
  <2>8. TypeOK
    <3>1. /\ task = [t \in Tasks |-> NewTask]
          /\ att = [t \in Tasks |-> [k \in AttemptNos |-> NoAttempt]]
          /\ op = [o \in Ops |-> NewOp]
      BY <2>1 DEF Init
    <3>2. /\ task \in [Tasks -> TaskRecords]
          /\ att \in [Tasks -> [AttemptNos -> AttemptRecords]]
          /\ op \in [Ops -> OpRecords]
      BY <2>3, <3>1
    <3>3. QED
      BY <2>4, <3>2, ConstantsAssumption, TypesAsRecords
  <2>9. Linked
    BY <2>2, <2>4, <2>5, <2>6, <2>7 DEF Linked, Reviewed
  <2>10. Places /\ OneRunningAttempt /\ ReviewsBeforeRelaunch
    BY <2>4, <2>5, <2>6, <2>7 DEF Places, OneRunningAttempt, ReviewsBeforeRelaunch
  <2>11. WorkersWithinSlots /\ RestingHoldsNoSlot
    <3>1. {t \in Tasks : task[t].reserved} = {}
      BY <2>4, <2>5
    <3>2. RunningCount = 0
      BY <3>1, FS_EmptySet DEF RunningCount
    <3>3. QED
      BY <2>4, <2>5, <3>2, ConstantsAssumption
         DEF WorkersWithinSlots, RestingHoldsNoSlot
  <2>12. Frozen /\ EvidenceIsSound
    BY <2>4, <2>5 DEF Frozen, EvidenceIsSound
  <2>13. QED
    BY <2>8, <2>9, <2>10, <2>11, <2>12 DEF IInv
<1>2. IInv /\ [Next]_vars => IInv'
  <2>1. ASSUME IInv, Next PROVE IInv'
    BY <2>1, Steps, QuietKeeps, MovesKeep, ReconcileKeeps, SubmitKeeps, StartKeeps,
       LeavesKeep, IngestKeeps, ReturnKeeps
  <2>2. ASSUME IInv, UNCHANGED vars PROVE IInv'
    BY <2>2 DEF vars, IInv, TypeOK, Linked, Reviewed, Places, OneRunningAttempt,
                ReviewsBeforeRelaunch, OpsOf, WorkersWithinSlots, RunningCount,
                RestingHoldsNoSlot, Resting, Frozen, Settled, EvidenceIsSound
  <2>3. QED
    BY <2>1, <2>2
<1>3. QED
  BY <1>1, <1>2, PTL DEF Spec

(* The variables keep their types.                                         *)
THEOREM TaskTypes == Spec => []TypeOK
<1>1. IInv => TypeOK
  BY DEF IInv
<1>2. QED
  BY <1>1, Invariance, PTL

(* No two agents ever work on one task: start_task_attempt, the retries of *)
(* handle_worker_interruption and the recovery agree on the last attempt,  *)
(* which is running or was returned under its process.                     *)
THEOREM OneAgent == Spec => []OneRunningAttempt
<1>1. IInv => OneRunningAttempt
  BY DEF IInv
<1>2. QED
  BY <1>1, Invariance, PTL

(* Running tasks and reservations never exceed the limit                   *)
(* limits.max_non_verifier_workers, and every running task has its slot.   *)
THEOREM SlotsSuffice == Spec => []WorkersWithinSlots
<1>1. IInv => WorkersWithinSlots
  BY DEF IInv
<1>2. QED
  BY <1>1, Invariance, PTL

(* A task that rests has given its slot back, except the proof-writer.     *)
THEOREM RestGivesSlotBack == Spec => []RestingHoldsNoSlot
<1>1. IInv => RestingHoldsNoSlot
  BY DEF IInv
<1>2. QED
  BY <1>1, Invariance, PTL

(* _ordinary_worker_launches comes after the reviews: an attempt runs only *)
(* when the operations of the earlier ones are out of review.              *)
THEOREM ReviewsFirst == Spec => []ReviewsBeforeRelaunch
<1>1. IInv => ReviewsBeforeRelaunch
  BY DEF IInv
<1>2. QED
  BY <1>1, Invariance, PTL

(* _maybe_close_task closes no task on evidence that was rejected.         *)
THEOREM SoundEvidence == Spec => []EvidenceIsSound
<1>1. IInv => EvidenceIsSound
  BY DEF IInv
<1>2. QED
  BY <1>1, Invariance, PTL

(* What a step does to a task whose closing is decided.                    *)
StaysClosed(t) ==
    /\ task'[t].intent = task[t].intent
    /\ task'[t].n = task[t].n
    /\ task'[t].state \in {"postprocessing", "closed"}
    /\ \A o \in Ops : op'[o].task = t => op'[o] = op[o]

(* The recovery leaves a closing task as it is.                            *)
LEMMA ReconcileSparesClosing ==
    ASSUME IInv, Reconcile, NEW t \in Tasks, task[t].intent # "none"
    PROVE  StaysClosed(t)
<1>1. /\ task \in [Tasks -> TaskRecords] /\ op' = op
      /\ att \in [Tasks -> [AttemptNos -> AttemptRecords]]
      /\ task[t].state \in {"postprocessing", "closed"}
  BY TypesAsRecords DEF IInv, Reconcile, Frozen
<1> DEFINE tasks == [u \in Tasks |-> Reconciled(task[u], att[u])]
<1>2. tasks[t] = task[t]
  BY <1>1 DEF Reconciled
<1>3. task'[t] = WithoutStale(tasks, op, TRUE)[t]
  BY DEF Reconcile
<1> HIDE DEF tasks
<1>4. \/ task'[t] = task[t]
      \/ task'[t] = [task[t] EXCEPT !.pending = Nothing]
  BY <1>1, <1>2, <1>3 DEF WithoutStale
<1>5. QED
  BY <1>1, <1>4 DEF StaysClosed, TaskRecords

(* A task whose closing is decided stays so in every step.                 *)
LEMMA ClosingStays ==
    ASSUME IInv, Next, NEW t \in Tasks, task[t].intent # "none"
    PROVE  StaysClosed(t)
<1>1. /\ task[t].state \in {"postprocessing", "closed"}
      /\ \A o \in Ops : op[o].task = t => op[o].state \in FinalOpStates \cup {"unused"}
      /\ task \in [Tasks -> TaskRecords] /\ op \in [Ops -> OpRecords]
  BY TypesAsRecords DEF IInv, Frozen, Settled, OpsOf
<1>2. CASE Quiet
  <2>1. \A o \in Ops : op'[o].task = t => op'[o] = op[o]
    BY <1>1, <1>2 DEF Quiet, QuietOp
  <2>2. QED
    BY <1>2, <2>1 DEF Quiet, QuietTask, StaysClosed
<1>3. CASE Moves
  <2>1. UNCHANGED <<task, op>>
    BY <1>3 DEF Moves, StartBatch, BatchRuns, BatchEnds, ProcessGone, RunFails,
                Stop, Down, Restart
  <2>2. QED
    BY <1>1, <2>1 DEF StaysClosed
<1>4. CASE Reconcile
  BY <1>4, ReconcileSparesClosing
<1>5. ASSUME NEW ts \in SUBSET Tasks, Submit(ts) PROVE StaysClosed(t)
  <2>1. t \notin ts
    BY <1>1, <1>5 DEF Submit
  <2>2. task'[t] = task[t] /\ op' = op
    BY <1>5, <2>1 DEF Submit
  <2>3. QED
    BY <1>1, <2>2 DEF StaysClosed
<1>6. ASSUME NEW u \in Tasks, StartAttempt(u) PROVE StaysClosed(t)
  <2>1. u # t
    BY <1>1, <1>6 DEF StartAttempt, Launchable
  <2>2. task'[t] = task[t] /\ op' = op
    BY <1>1, <1>6, <2>1 DEF StartAttempt
  <2>3. QED
    BY <1>1, <2>2 DEF StaysClosed
<1>7. ASSUME NEW u \in Tasks, NEW s \in AttemptStates, Leaves(u, s)
      PROVE  StaysClosed(t)
  <2>1. u # t
    BY <1>1, <1>7 DEF Leaves
  <2>2. QED
    BY <1>1, <1>7, <2>1 DEF Leaves, StaysClosed
<1>8. ASSUME NEW u \in Tasks, NEW o \in Ops, NEW kind \in Kinds, Ingest(u, o, kind)
      PROVE  StaysClosed(t)
  <2>1. u # t /\ task' = task
    BY <1>1, <1>8 DEF Ingest
  <2>2. op'[o].task = u /\ \A p \in Ops \ {o} : op'[p] = op[p]
    BY <1>1, <1>8 DEF Ingest
  <2>3. QED
    BY <1>1, <2>1, <2>2 DEF StaysClosed
<1>9. ASSUME NEW o \in Ops, ReturnsRunning(o) PROVE StaysClosed(t)
  <2>1. op[o].task # t /\ op[o].task \in Tasks
    BY <1>1, <1>9, TaskOfOp DEF ReturnsRunning, ReturnIdentical, FinalOpStates
  <2>2. task'[t] = task[t]
    BY <1>1, <1>9, <2>1 DEF ReturnsRunning, ReturnIdentical, SendBack
  <2>3. op'[o].task = op[o].task /\ \A p \in Ops \ {o} : op'[p] = op[p]
    BY <1>1, <1>9 DEF ReturnsRunning, ReturnIdentical, SendBack, OpRecords
  <2>4. QED
    BY <1>1, <2>1, <2>2, <2>3 DEF StaysClosed
<1>10. QED
  BY <1>2, <1>3, <1>4, <1>5, <1>6, <1>7, <1>8, <1>9, Steps

(* Once _maybe_close_task has set the closing of a task, nothing starts it *)
(* again, adds to its record or changes its outcome.                       *)
THEOREM ClosingFinal == Spec => ClosingIsFinal
<1>1. ASSUME IInv, Next, NEW t \in Tasks, task[t].intent # "none"
      PROVE  StaysClosed(t)
  BY <1>1, ClosingStays
<1>2. IInv /\ [Next]_vars
        => [\A t \in Tasks : task[t].intent # "none" => StaysClosed(t)]_vars
  BY <1>1
<1>3. ClosingIsFinal
        <=> [][\A t \in Tasks : task[t].intent # "none" => StaysClosed(t)]_vars
  BY DEF ClosingIsFinal, StaysClosed
<1>4. QED
  BY <1>2, <1>3, Invariance, PTL DEF Spec

(* The recovery gives no task an outcome and no attempt another supplement.*)
LEMMA ReconcileRecords ==
    ASSUME IInv, Reconcile, NEW t \in Tasks
    PROVE  /\ task'[t].intent = task[t].intent
           /\ \A k \in AttemptNos : att'[t][k].supp = att[t][k].supp
<1>1. /\ task \in [Tasks -> TaskRecords] /\ task[t] \in TaskRecords
      /\ att \in [Tasks -> [AttemptNos -> AttemptRecords]]
  BY TypesAsRecords DEF IInv
<1>2. \A k \in AttemptNos : att'[t][k].supp = att[t][k].supp
  <2>1. att'[t] = Fenced(att[t])
    BY DEF Reconcile
  <2>2. QED
    BY <1>1, <2>1 DEF Fenced, AttemptRecords
<1> DEFINE tasks == [u \in Tasks |-> Reconciled(task[u], att[u])]
<1>3. tasks[t] \in TaskRecords /\ tasks[t].intent = task[t].intent
  <2>1. /\ att[t] \in [AttemptNos -> AttemptRecords]
        /\ Sound(task[t].pending) /\ \A k \in AttemptNos : Sound(att[t][k].supp)
        /\ task[t].state = "running" => task[t].n \in AttemptNos
    BY <1>1 DEF IInv, Linked
  <2>2. /\ Reconciled(task[t], att[t]) \in TaskRecords
        /\ Reconciled(task[t], att[t]).intent = task[t].intent
    BY <1>1, <2>1, ReconciledTypes, Zenon
  <2>3. QED
    BY <2>2
<1>4. task'[t] = WithoutStale(tasks, op, TRUE)[t]
  BY DEF Reconcile
<1> HIDE DEF tasks
<1>5. \/ task'[t] = tasks[t]
      \/ task'[t] = [tasks[t] EXCEPT !.pending = Nothing]
      \/ task'[t] = [tasks[t] EXCEPT !.pending = Nothing, !.reserved = FALSE,
                                     !.state = "postprocessing"]
  BY <1>4 DEF WithoutStale
<1>6. task'[t].intent = tasks[t].intent
  BY <1>3, <1>5 DEF TaskRecords
<1>7. QED
  BY <1>2, <1>3, <1>6

(* Decided operations stay as they are, the supplements of the attempts of *)
(* a task too, and a task gets an outcome by its closing only.             *)
LEMMA RecordsStay ==
    ASSUME IInv, Next
    PROVE  /\ \A o \in Ops : op[o].state \in FinalOpStates => op'[o] = op[o]
           /\ \A t \in Tasks, k \in AttemptNos :
                k <= task[t].n => att'[t][k].supp = att[t][k].supp
           /\ Quiet \/ \A t \in Tasks : task'[t].intent = task[t].intent
<1>1. /\ task \in [Tasks -> TaskRecords] /\ op \in [Ops -> OpRecords]
      /\ att \in [Tasks -> [AttemptNos -> AttemptRecords]]
      /\ \A t \in Tasks : task[t].n \in Nat
  BY TypesAsRecords, ConstantsAssumption DEF IInv, TaskRecords
<1>2. CASE Quiet
  BY <1>2 DEF Quiet, QuietOp
<1>3. CASE Moves
  <2>1. UNCHANGED <<task, att, op>>
    BY <1>3 DEF Moves, StartBatch, BatchRuns, BatchEnds, ProcessGone, RunFails,
                Stop, Down, Restart
  <2>2. QED
    BY <2>1
<1>4. CASE Reconcile
  <2>1. op' = op
    BY <1>4 DEF Reconcile
  <2>2. QED
    BY <1>4, <2>1, ReconcileRecords
<1>5. CASE \E ts \in SUBSET Tasks : Submit(ts)
  <2>1. /\ UNCHANGED <<att, op>>
        /\ \A t \in Tasks :
             \/ task'[t] = task[t]
             \/ task'[t] = [task[t] EXCEPT !.state = "launching",
                                          !.reserved = TRUE]
    BY <1>5 DEF Submit
  <2>2. \A t \in Tasks : task'[t].intent = task[t].intent
    BY <1>1, <2>1, ZenonT(40) DEF TaskRecords
  <2>3. QED
    BY <2>1, <2>2
<1>6. ASSUME NEW u \in Tasks, StartAttempt(u)
      PROVE  /\ op' = op
             /\ \A t \in Tasks, k \in AttemptNos :
                  k <= task[t].n => att'[t][k].supp = att[t][k].supp
             /\ \A t \in Tasks : task'[t].intent = task[t].intent
  <2>1. /\ op' = op /\ task' = [task EXCEPT ![u] = Started(task[u])]
        /\ att' = [att EXCEPT ![u] = [att[u] EXCEPT ![task[u].n + 1] =
                      [state |-> "running", supp |-> task[u].pending]]]
    BY <1>6 DEF StartAttempt
  <2>2. Started(task[u]).intent = task[u].intent
    BY <1>1 DEF Started, TaskRecords
  <2>3. ASSUME NEW t \in Tasks, NEW k \in AttemptNos, k <= task[t].n
        PROVE  att'[t][k] = att[t][k]
    <3>1. CASE t # u
      BY <1>1, <2>1, <3>1
    <3>2. CASE t = u
      <4>1. k # task[u].n + 1
        BY <1>1, <2>3, <3>2 DEF AttemptNos
      <4>2. QED
        BY <1>1, <2>1, <3>2, <4>1
    <3>3. QED
      BY <3>1, <3>2
  <2>4. QED
    BY <1>1, <2>1, <2>2, <2>3
<1>7. ASSUME NEW u \in Tasks, NEW s \in AttemptStates, Leaves(u, s)
      PROVE  /\ op' = op
             /\ \A t \in Tasks, k \in AttemptNos : att'[t][k].supp = att[t][k].supp
             /\ \A t \in Tasks : task'[t].intent = task[t].intent
  <2>1. op' = op /\ \A t \in Tasks : task'[t].intent = task[t].intent
    BY <1>7 DEF Leaves
  <2>2. att' = [att EXCEPT ![u] = [att[u] EXCEPT ![task[u].n] =
                  [att[u][task[u].n] EXCEPT !.state = s]]]
    BY <1>7 DEF Leaves
  <2>3. \A t \in Tasks, k \in AttemptNos : att'[t][k].supp = att[t][k].supp
    BY <1>1, <2>2 DEF AttemptRecords
  <2>4. QED
    BY <2>1, <2>3
<1>8. ASSUME NEW u \in Tasks, NEW p \in Ops, NEW kind \in Kinds, Ingest(u, p, kind)
      PROVE  /\ UNCHANGED <<task, att>>
             /\ \A o \in Ops : op[o].state \in FinalOpStates => op'[o] = op[o]
  <2>1. UNCHANGED <<task, att>> /\ op[p].state = "unused"
        /\ \A o \in Ops \ {p} : op'[o] = op[o]
    BY <1>1, <1>8 DEF Ingest
  <2>2. QED
    BY <2>1 DEF FinalOpStates
<1>9. ASSUME NEW o \in Ops, ReturnsRunning(o)
      PROVE  /\ \A p \in Ops : op[p].state \in FinalOpStates => op'[p] = op[p]
             /\ \A t \in Tasks, k \in AttemptNos : att'[t][k].supp = att[t][k].supp
             /\ \A t \in Tasks : task'[t].intent = task[t].intent
  <2>1. \A p \in Ops : op[p].state \in FinalOpStates => op'[p] = op[p]
    BY <1>1, <1>9 DEF ReturnsRunning, ReturnIdentical, SendBack, FinalOpStates
  <2>2. PICK t \in Tasks, n \in AttemptNos : ReturnOf(o, t, n)
    BY <1>9, ReturnFacts
  <2>3. QED
    BY <2>1, <2>2 DEF ReturnOf
<1>10. QED
  BY <1>2, <1>3, <1>4, <1>5, <1>6, <1>7, <1>8, <1>9, Steps

(* Whoever conceded closes normally only with a memo of that very attempt: *)
(* _maybe_close_task asks for it, and nothing takes it away afterwards.    *)
THEOREM MemoOfConcession == Spec => []ConcessionHasMemo
<1>1. Init => ConcessionHasMemo
  BY DEF Init, NewTask, ConcessionHasMemo
<1>2. ASSUME IInv, ConcessionHasMemo, Next
      PROVE  ConcessionHasMemo'
  <2>1. SUFFICES ASSUME NEW t \in Tasks,
                        task'[t].intent = "normal", task'[t].n > 0,
                        LastAttempt(t)'.supp.kind \in Concessions
                 PROVE  \E o \in Ops : /\ op'[o].task = t
                                       /\ op'[o].attempt = task'[t].n
                                       /\ op'[o].kind = "memo"
                                       /\ op'[o].state = "committed"
    BY DEF ConcessionHasMemo
  <2>2. task[t].n \in 0..MaxAttempts
    BY <1>2, TypesAsRecords DEF IInv, TaskRecords
  <2>3. CASE task[t].intent = "none"
    <3>1. Quiet
      BY <1>2, <2>1, <2>3, RecordsStay
    <3>2. op' = op /\ att' = att /\ task'[t].n = task[t].n /\ ~MemoMissing(t)
      BY <2>1, <2>3, <3>1 DEF Quiet, QuietTask
    <3>3. task[t].n > 0 /\ LastAttempt(t).supp.kind \in Concessions
      BY <2>1, <3>2 DEF LastAttempt
    <3>4. \E o \in AttemptOps(t) : op[o].kind = "memo" /\ op[o].state = "committed"
      BY <3>2, <3>3 DEF MemoMissing
    <3>5. QED
      BY <3>2, <3>4 DEF AttemptOps, OpsOf
  <2>4. CASE task[t].intent # "none"
    <3>1. task'[t].intent = task[t].intent /\ task'[t].n = task[t].n
      BY <1>2, <2>4, ClosingStays DEF StaysClosed
    <3>2. task[t].n \in AttemptNos
      BY <2>1, <2>2, <3>1, ConstantsAssumption DEF AttemptNos
    <3>3. LastAttempt(t).supp.kind \in Concessions
      <4>1. att'[t][task[t].n].supp = att[t][task[t].n].supp
        BY <1>2, <2>2, <3>2, RecordsStay
      <4>2. QED
        BY <2>1, <3>1, <4>1 DEF LastAttempt
    <3>4. PICK o \in Ops : /\ op[o].task = t /\ op[o].attempt = task[t].n
                           /\ op[o].kind = "memo" /\ op[o].state = "committed"
      BY <1>2, <2>1, <3>1, <3>3 DEF ConcessionHasMemo
    <3>5. op'[o] = op[o]
      BY <1>2, <3>4, RecordsStay DEF FinalOpStates
    <3>6. QED
      BY <3>1, <3>4, <3>5
  <2>5. QED
    BY <2>3, <2>4
<1>3. ASSUME ConcessionHasMemo, UNCHANGED vars
      PROVE  ConcessionHasMemo'
  BY <1>3 DEF vars, ConcessionHasMemo, LastAttempt
<1>4. IInv /\ ConcessionHasMemo /\ [Next]_vars => ConcessionHasMemo'
  BY <1>2, <1>3
<1>5. QED
  BY <1>1, <1>4, Invariance, PTL DEF Spec

(* Slots are neither exceeded nor held at rest.                            *)
THEOREM SlotsDisciplined == Spec => []SlotDiscipline
<1>1. WorkersWithinSlots /\ RestingHoldsNoSlot => SlotDiscipline
  BY DEF SlotDiscipline
<1>2. QED
  BY <1>1, SlotsSuffice, RestGivesSlotBack, PTL

(* A task that closes normally has sound evidence and the memo of its      *)
(* concession.                                                             *)
THEOREM OutcomeSound == Spec => []SoundOutcome
<1>1. EvidenceIsSound /\ ConcessionHasMemo => SoundOutcome
  BY DEF SoundOutcome
<1>2. QED
  BY <1>1, SoundEvidence, MemoOfConcession, PTL

(***************************************************************************)
(* Repairs: what the verifier asks for is bounded and not lost.            *)
(***************************************************************************)
(* What the invariant says of one task is said of any table of operations  *)
(* os and any attempts as of the task, to speak of them before and after a *)
(* step: what a supplement owes to the operation that caused it ...        *)
WarrantedOf(os, t, s) ==
    /\ s.kind \in Repairs =>
         /\ os[s.cause].repair /\ os[s.cause].task = t
         /\ s.kind \in Revisions <=> os[s.cause].request < RevisionLimit
    /\ s.kind \notin Repairs => s.cause = 0

(* ... that no repair of the chain is newer than the one that s answers ...*)
NewestOf(os, s) ==
    s.kind \in Repairs =>
        \A o \in Ops :
            os[o].repair /\ os[o].chain = os[s.cause].chain => o <= s.cause

(* ... and what Superseded, Fresh, Overtaken and RepairSurvivesRetry say.  *)
SupersededOf(os, o) ==
    \/ \E p \in Ops : p > o /\ os[p].kind = "fact" /\ os[p].chain = os[o].chain
    \/ ChainWon(os, os[o].chain)

FreshOf(as, k, o) == \A j \in 1..k : as[j].supp.cause # o

OvertakenOf(os, as, t, k) ==
    \E o \in Ops :
        /\ os[o].state # "unused" /\ os[o].task = t
        /\ os[o].repair /\ FreshOf(as, k, o)
        /\ SupersededOf(os, o) \/ os[o].request = RevisionLimit

SurvivesOf(os, as, t, k) ==
    LET s == as[k].supp
        next == as[k + 1].supp
    IN  as[k].state = "interrupted" /\ s.kind \in Revisions
        => \/ next = s
           \/ next.kind \in Repairs /\ FreshOf(as, k, next.cause)
           \/ SupersededOf(os, s.cause)
           \/ OvertakenOf(os, as, t, k)

LaunchStates == {"launching", "retry_pending", "revision_pending"}

(* The repair that an interrupted attempt was to answer is still asked for.*)
StillAskedOf(os, as, tk, t) ==
    LET s == as[tk.n].supp
    IN  /\ tk.n > 0
        /\ as[tk.n].state = "interrupted" /\ s.kind \in Revisions
        => \/ SupersededOf(os, s.cause) \/ OvertakenOf(os, as, t, tk.n)
           \/ tk.forced /\ tk.state \notin LaunchStates
           \/ /\ tk.state \in LaunchStates
              /\ \/ tk.pending = s
                 \/ /\ tk.pending.kind \in Repairs
                    /\ FreshOf(as, tk.n, tk.pending.cause)

Warrants ==
    \A t \in Tasks :
        /\ WarrantedOf(op, t, task[t].pending)
        /\ \A k \in AttemptNos : WarrantedOf(op, t, att[t][k].supp)

(* What is verified is a Fact.                                             *)
VerifiesFact(rec) ==
    rec.state = "verifying" \/ rec.review = "verifying" => rec.kind = "fact"

(* A repair chain starts with one of its Facts and stays within a task.    *)
Chains ==
    \A o \in Ops :
        /\ VerifiesFact(op[o])
        /\ op[o].repair => op[o].state = "rejected" /\ op[o].kind = "fact"
        /\ op[o].state = "unused" => op[o].kind = "none"
        /\ op[o].state # "unused" =>
             /\ \A p \in 1..(o - 1) : op[p].state # "unused"
             /\ op[o].chain \in 1..o
             /\ op[op[o].chain].task = op[o].task
             /\ op[o].request \in 0..RevisionLimit

(* Behind a repair the chain goes on with a higher request.                *)
RequestsGrow ==
    \A o, p \in Ops :
        /\ op[o].repair /\ p > o
        /\ p \in Chain(op, op[o].chain)
        => op[p].request > op[o].request

NewestAsked ==
    \A t \in Tasks :
        /\ NewestOf(op, task[t].pending)
        /\ task[t].state = "running" => NewestOf(op, att[t][task[t].n].supp)

Waits ==
    \A t \in Tasks :
        /\ StillAskedOf(op, att[t], task[t], t)
        /\ task[t].state \in {"none", "launching"} => task[t].n = 0

Survives ==
    \A t \in Tasks, k \in AttemptNos :
        k < task[t].n => SurvivesOf(op, att[t], t, k)

(* What holds of repairs, inductively under IInv.                          *)
RepairInv ==
    Warrants /\ Chains /\ RequestsGrow /\ NewestAsked /\ Waits /\ Survives

(* The verdict on o, the newest Fact of its chain, or the return of o asks *)
(* t for a repair.                                                         *)
RepairKind(o, kind) ==
    IF op[o].request < RevisionLimit THEN kind ELSE "fact_concession"

Asks(t, o) ==
    /\ op[o].task = t /\ op[o].kind = "fact" /\ IsLatest(op, o)
    /\ op[o].state \in {"synthesizing", "verifying"}
    /\ op'[o].state = "rejected" /\ op'[o].repair
    /\ task'[t].state = "revision_pending"
    /\ \E kind \in Revisions :
          task'[t].pending = Supplement(RepairKind(o, kind), o)

(* Quiet steps and returns have in common what repairs rest on.            *)
Calm ==
    /\ \A t \in Tasks :
         /\ task'[t].n = task[t].n
         /\ task'[t].state = "running" => task[t].state = "running"
         /\ \A k \in AttemptNos :
              /\ att'[t][k].supp = att[t][k].supp
              /\ att'[t][k].state = "interrupted" => att[t][k].state = "interrupted"
    /\ \A o \in Ops : QuietOp(o)

LEMMA QuietIsCalm ==
    ASSUME Quiet
    PROVE  Calm
BY DEF Quiet, QuietTask, Calm

LEMMA ReturnIsCalm ==
    ASSUME IInv, NEW o \in Ops, ReturnsRunning(o)
    PROVE  Calm
<1>1. PICK t \in Tasks, n \in AttemptNos : ReturnOf(o, t, n)
  BY ReturnFacts
<1>2. \A u \in Tasks :
         /\ task'[u].n = task[u].n
         /\ task'[u].state = "running" => task[u].state = "running"
  BY <1>1 DEF ReturnOf
<1>3. ASSUME NEW u \in Tasks, NEW k \in AttemptNos
      PROVE  /\ att'[u][k].supp = att[u][k].supp
             /\ att'[u][k].state = "interrupted" => att[u][k].state = "interrupted"
  <2>1. CASE u = t /\ k = n
    BY <1>1, <2>1 DEF ReturnOf
  <2>2. CASE u # t \/ k # n
    BY <1>1, <2>2 DEF ReturnOf
  <2>3. QED
    BY <2>1, <2>2
<1>4. QuietOp(o)
  BY <1>1 DEF ReturnOf, QuietOp, Reviewed, FinalOpStates
<1>5. \A p \in Ops \ {o} : QuietOp(p)
  BY <1>1 DEF ReturnOf, QuietOp
<1>6. QED
  BY <1>2, <1>3, <1>4, <1>5 DEF Calm

(* What a calm step does to the repair that is asked of a task: it stays,  *)
(* the task is stopped or sent back for something else, the repair is out  *)
(* of date, or another verdict or return replaces it.                      *)
KeepsRepair(t) ==
    /\ task[t].forced => task'[t].forced
    /\ task'[t].state \in {"none", "launching"} => task'[t].state = task[t].state
    /\ \/ /\ task'[t].pending = task[t].pending
          /\ task'[t].state \in LaunchStates => Launchable(t)
          /\ Launchable(t) => task'[t].state \in LaunchStates \/ task'[t].forced
       \/ /\ task'[t].pending.kind \notin Repairs /\ task'[t].pending.cause = 0
          /\ \/ task'[t].forced /\ task'[t].state \notin LaunchStates
             \/ ~task[t].forced /\ ~Launchable(t)
       \/ /\ task'[t].pending = Nothing
          /\ Stale(op', task[t].pending, FALSE)
          /\ task'[t].state \in LaunchStates => Launchable(t)
       \/ \E o \in Ops : Asks(t, o)

KeepsOp(o) ==
    /\ op'[o].chain = op[o].chain /\ op'[o].request = op[o].request
    /\ VerifiesFact(op[o]) => VerifiesFact(op'[o])
    /\ op'[o].repair => op[o].repair \/ Asks(op[o].task, o)

KeepsRepairs ==
    /\ \A t \in Tasks : KeepsRepair(t)
    /\ \A o \in Ops : KeepsOp(o)

(* Steps that leave the operations alone and change one task.              *)
LEMMA OneTaskKeepsRepairs ==
    ASSUME IInv, NEW t \in Tasks, NEW tk,
           task' = [task EXCEPT ![t] = tk], op' = op,
           task'[t] = tk => KeepsRepair(t)
    PROVE  KeepsRepairs
<1>1. task \in [Tasks -> TaskRecords]
  BY TypesAsRecords DEF IInv
<1>2. task'[t] = tk /\ \A u \in Tasks \ {t} : task'[u] = task[u]
  BY <1>1
<1>3. \A u \in Tasks : KeepsRepair(u)
  BY <1>2 DEF KeepsRepair, Launchable, LaunchStates
<1>4. \A o \in Ops : KeepsOp(o)
  BY DEF KeepsOp
<1>5. QED
  BY <1>3, <1>4 DEF KeepsRepairs

(* Steps that leave the tasks alone and change one operation.              *)
LEMMA OneOpKeepsRepairs ==
    ASSUME IInv, NEW o \in Ops, NEW rec,
           op' = [op EXCEPT ![o] = rec],
           \A t \in Tasks : KeepsRepair(t),
           op'[o] = rec => KeepsOp(o)
    PROVE  KeepsRepairs
<1>1. op \in [Ops -> OpRecords]
  BY TypesAsRecords DEF IInv
<1>2. op'[o] = rec /\ \A p \in Ops \ {o} : op'[p] = op[p]
  BY <1>1
<1>3. \A p \in Ops : KeepsOp(p)
  BY <1>2 DEF KeepsOp
<1>4. QED
  BY <1>3 DEF KeepsRepairs

LEMMA UnchangedKeepsRepair ==
    ASSUME NEW t \in Tasks, task'[t] = task[t]
    PROVE  KeepsRepair(t)
BY DEF KeepsRepair, Launchable, LaunchStates

(* The closing of a task takes no repair from it.                          *)
LEMMA ClosingKeepsRepairs ==
    ASSUME IInv, NEW t \in Tasks, Closing(t)
    PROVE  KeepsRepairs
<1>1. task \in [Tasks -> TaskRecords] /\ task[t] \in TaskRecords
  BY TypesAsRecords DEF IInv
<1>2. \A k \in {"evidence_correction", "memo_correction"} :
         Supplement(k, 0).kind \notin Repairs /\ Supplement(k, 0).cause = 0
  BY DEF Supplement, Repairs, Revisions
<1>3. CASE NotYet(t)
  <2>1. task' = task /\ op' = op
    BY <1>3 DEF NotYet
  <2>2. QED
    BY <2>1, UnchangedKeepsRepair DEF KeepsRepairs, KeepsOp
<1>4. CASE PauseClosing(t)
  <2> DEFINE tk == [task[t] EXCEPT !.state = "needs_attention"]
  <2>1. task'[t] = tk => KeepsRepair(t)
    BY <1>1, <1>4 DEF PauseClosing, Resting, KeepsRepair, Launchable, LaunchStates, TaskRecords
  <2>2. QED
    BY <1>4, <2>1, OneTaskKeepsRepairs DEF PauseClosing, SetTask
<1>5. CASE CloseForced(t)
  <2> DEFINE tk == [task[t] EXCEPT !.state = "postprocessing",
                                   !.intent = "interrupted"]
  <2>1. task'[t] = tk => KeepsRepair(t)
    <3>1. Resting(task[t])
      BY <1>5 DEF CloseForced, MayDecide
    <3>2. /\ tk.forced = task[t].forced /\ tk.pending = task[t].pending
          /\ tk.state = "postprocessing"
      BY <1>1 DEF TaskRecords
    <3> HIDE DEF tk
    <3>3. QED
      BY <3>1, <3>2 DEF Resting, KeepsRepair, Launchable, LaunchStates
  <2>2. QED
    BY <1>5, <2>1, OneTaskKeepsRepairs DEF CloseForced, SetTask
<1>6. CASE CorrectEvidence(t)
  <2> DEFINE tk == IF task[t].state = "postprocessing"
                   THEN [task[t] EXCEPT
                           !.state = "revision_pending",
                           !.pending = Supplement("evidence_correction", 0)]
                   ELSE task[t]
  <2>1. task'[t] = tk => KeepsRepair(t)
    <3>1. CASE task[t].state = "postprocessing"
      BY <1>1, <1>2, <1>6, <3>1 DEF CorrectEvidence, KeepsRepair, Launchable, LaunchStates, TaskRecords
    <3>2. CASE task[t].state # "postprocessing"
      BY <3>2, UnchangedKeepsRepair
    <3>3. QED
      BY <3>1, <3>2
  <2>2. QED
    BY <1>6, <2>1, OneTaskKeepsRepairs DEF CorrectEvidence, SetTask
<1>7. CASE CorrectMemo(t)
  <2> DEFINE tk == [task[t] EXCEPT !.state = "revision_pending",
                                   !.pending = Supplement("memo_correction", 0)]
  <2>1. task'[t] = tk => KeepsRepair(t)
    BY <1>1, <1>2, <1>7 DEF CorrectMemo, MayDecide, Resting, KeepsRepair, Launchable, LaunchStates,
                            TaskRecords
  <2>2. QED
    BY <1>7, <2>1, OneTaskKeepsRepairs DEF CorrectMemo, SetTask
<1>8. CASE OutcomeMissing(t)
  <2> DEFINE tk == [task[t] EXCEPT !.state = "needs_attention"]
  <2>1. task'[t] = tk => KeepsRepair(t)
    BY <1>1, <1>8 DEF OutcomeMissing, MayDecide, Resting, KeepsRepair, Launchable, LaunchStates,
                      TaskRecords
  <2>2. QED
    BY <1>8, <2>1, OneTaskKeepsRepairs DEF OutcomeMissing, SetTask
<1>9. CASE CloseNormally(t)
  <2> DEFINE tk == [task[t] EXCEPT !.state = "postprocessing",
                                   !.intent = task[t].outcome]
  <2>1. task'[t] = tk => KeepsRepair(t)
    BY <1>1, <1>9 DEF CloseNormally, MayDecide, Resting, KeepsRepair, Launchable, LaunchStates,
                      TaskRecords
  <2>2. QED
    BY <1>9, <2>1, OneTaskKeepsRepairs DEF CloseNormally, SetTask
<1>10. CASE FinalizeClose(t)
  <2> DEFINE tk == [task[t] EXCEPT !.state = "closed", !.reserved = FALSE]
  <2>1. task[t].state = "postprocessing"
    BY <1>10 DEF FinalizeClose, IInv, Frozen
  <2>2. task'[t] = tk => KeepsRepair(t)
    BY <1>1, <2>1 DEF KeepsRepair, Launchable, LaunchStates, TaskRecords
  <2>3. QED
    BY <1>10, <2>2, OneTaskKeepsRepairs DEF FinalizeClose, SetTask
<1>11. CASE CloseTail(t)
  <2> DEFINE tk == [task[t] EXCEPT !.tail = TRUE]
  <2>1. task'[t] = tk => KeepsRepair(t)
    BY <1>1 DEF KeepsRepair, Launchable, LaunchStates, TaskRecords
  <2>2. QED
    BY <1>11, <2>1, OneTaskKeepsRepairs DEF CloseTail, SetTask
<1>12. ASSUME NEW asks \in BOOLEAN,
              task' = [task EXCEPT ![t].unpublished = asks], op' = op
       PROVE  KeepsRepairs
  <2> DEFINE tk == [task[t] EXCEPT !.unpublished = asks]
  <2>1. task'[t] = tk => KeepsRepair(t)
    BY <1>1 DEF KeepsRepair, Launchable, LaunchStates, TaskRecords
  <2>2. QED
    BY <1>12, <2>1, OneTaskKeepsRepairs
<1>13. CASE PublishTask(t)
  BY <1>12, <1>13 DEF PublishTask
<1>14. QED
  BY <1>3, <1>4, <1>5, <1>6, <1>7, <1>8, <1>9, <1>10, <1>11, <1>13 DEF Closing

(* What is out of date goes, everything else stays.                        *)
LEMMA StaleKeepsRepairs ==
    ASSUME IInv, NEW os, os = op', task' = WithoutStale(task, os, FALSE),
           NEW t \in Tasks
    PROVE  KeepsRepair(t)
<1>1. task \in [Tasks -> TaskRecords] /\ task[t] \in TaskRecords
  BY TypesAsRecords DEF IInv
<1>0. task'[t] =
        IF ~Stale(os, task[t].pending, FALSE) THEN task[t]
        ELSE IF task[t].state \in {"revision_pending", "retry_pending"}
        THEN [task[t] EXCEPT !.pending = Nothing, !.reserved = FALSE,
                             !.state = "postprocessing"]
        ELSE [task[t] EXCEPT !.pending = Nothing]
  BY Zenon DEF WithoutStale
<1>2. CASE ~Stale(os, task[t].pending, FALSE)
  BY <1>0, <1>2, UnchangedKeepsRepair
<1>3. CASE /\ Stale(os, task[t].pending, FALSE)
           /\ task[t].state \in {"revision_pending", "retry_pending"}
  <2>1. task'[t] = [task[t] EXCEPT !.pending = Nothing, !.reserved = FALSE,
                                   !.state = "postprocessing"]
    BY <1>0, <1>3
  <2>2. /\ task'[t].pending = Nothing /\ task'[t].state = "postprocessing"
        /\ task'[t].forced = task[t].forced
    BY <1>1, <2>1 DEF TaskRecords
  <2>3. QED
    BY <1>3, <2>2 DEF KeepsRepair, Launchable, LaunchStates
<1>4. CASE /\ Stale(os, task[t].pending, FALSE)
           /\ task[t].state \notin {"revision_pending", "retry_pending"}
  <2>1. task'[t] = [task[t] EXCEPT !.pending = Nothing]
    BY <1>0, <1>4
  <2>2. /\ task'[t].pending = Nothing /\ task'[t].state = task[t].state
        /\ task'[t].forced = task[t].forced
    BY <1>1, <2>1 DEF TaskRecords
  <2>3. QED
    BY <1>4, <2>2 DEF KeepsRepair, Launchable, LaunchStates
<1>5. QED
  BY <1>2, <1>3, <1>4

(* Operations that are routed or decided at once ask for no repair.        *)
LEMMA RoutingKeepsRepairs ==
    ASSUME IInv, NEW o \in Ops,
           Route(o) \/ \E verdict \in Verdicts : CommitMemo(o, verdict)
    PROVE  KeepsRepairs
<1>1. op[o] \in OpRecords
  BY TypesAsRecords DEF IInv
<1>2. \A t \in Tasks : KeepsRepair(t)
  BY UnchangedKeepsRepair DEF Route, CommitMemo, Commits
<1>3. CASE Route(o)
  <2> DEFINE rec == [op[o] EXCEPT !.state = "synthesizing", !.review = "synthesizing"]
  <2>1. op'[o] = rec => KeepsOp(o)
    BY <1>1 DEF KeepsOp, VerifiesFact, OpRecords
  <2>2. QED
    BY <1>2, <1>3, <2>1, OneOpKeepsRepairs DEF Route
<1>4. ASSUME NEW verdict \in Verdicts, CommitMemo(o, verdict)
      PROVE  KeepsRepairs
  <2> DEFINE rec == [op[o] EXCEPT !.state = verdict]
  <2>1. op'[o] = rec => KeepsOp(o)
    BY <1>1 DEF KeepsOp, VerifiesFact, OpRecords, Verdicts
  <2>2. QED
    BY <1>2, <1>4, <2>1, OneOpKeepsRepairs DEF CommitMemo, Commits
<1>5. QED
  BY <1>3, <1>4

(* A Fact that is sent back has its task asked for a repair, if it is the  *)
(* newest of its chain.                                                    *)
LEMMA SendBackKeepsRepairs ==
    ASSUME IInv, NEW o \in Ops, NEW kind \in Revisions, NEW ended,
           op[o].state \in {"synthesizing", "verifying"}, op[o].kind = "fact",
           SendBack(o, kind, ended)
    PROVE  KeepsRepairs
<1> DEFINE t == op[o].task
           rec == [op[o] EXCEPT !.state = "rejected", !.repair = IsLatest(op, o),
                                !.refuted = (kind = "verifier_revision")]
<1>1. /\ task \in [Tasks -> TaskRecords]
      /\ op \in [Ops -> OpRecords] /\ op[o] \in OpRecords
  BY TypesAsRecords DEF IInv
<1>2. t \in Tasks /\ task[t] \in TaskRecords
  BY <1>1, TaskOfOp DEF FinalOpStates
<1>3. op' = [op EXCEPT ![o] = rec]
  BY DEF SendBack
<1>4. /\ op'[o].state = "rejected" /\ op'[o].repair = IsLatest(op, o)
      /\ op'[o].chain = op[o].chain /\ op'[o].request = op[o].request
      /\ op'[o].review = op[o].review /\ op'[o].kind = op[o].kind
  BY <1>1, <1>3 DEF OpRecords
<1>5. CASE IsLatest(op, o)
  <2> DEFINE after == RepairRequested(task[t], o, kind)
  <2>1. task' = [task EXCEPT ![t] = after]
    BY <1>5 DEF SendBack
  <2>2. after.state = "revision_pending" /\ after.forced = task[t].forced
        /\ after.pending = Supplement(RepairKind(o, kind), o)
    BY <1>2 DEF RepairRequested, RepairKind, TaskRecords
  <2> HIDE DEF after, rec
  <2>3. task'[t] = after /\ \A u \in Tasks \ {t} : task'[u] = task[u]
    BY <1>1, <1>2, <2>1
  <2>4. Asks(t, o)
    BY <1>4, <1>5, <2>2, <2>3 DEF Asks
  <2>5. KeepsRepair(t)
    BY <2>2, <2>3, <2>4 DEF KeepsRepair
  <2>6. \A u \in Tasks : KeepsRepair(u)
    BY <2>3, <2>5, UnchangedKeepsRepair
  <2>7. KeepsOp(o)
    BY <1>4, <2>4 DEF KeepsOp, VerifiesFact
  <2>8. QED
    BY <1>3, <2>6, <2>7, OneOpKeepsRepairs
<1>6. CASE ~IsLatest(op, o)
  <2>1. \A u \in Tasks : KeepsRepair(u)
    BY <1>6, UnchangedKeepsRepair DEF SendBack
  <2>2. KeepsOp(o)
    BY <1>4, <1>6 DEF KeepsOp, VerifiesFact
  <2> HIDE DEF rec
  <2>3. QED
    BY <1>3, <2>1, <2>2, OneOpKeepsRepairs
<1>7. QED
  BY <1>5, <1>6

(* A verdict or a return replaces the repair of its task by the one it     *)
(* asks for.                                                               *)
LEMMA ReviewKeepsRepairs ==
    ASSUME IInv, Chains, NEW o \in Ops, Review(o)
    PROVE  KeepsRepairs
<1>1. /\ task \in [Tasks -> TaskRecords]
      /\ op \in [Ops -> OpRecords] /\ op[o] \in OpRecords
  BY TypesAsRecords DEF IInv
<1>2. op[o].state \in {"synthesizing", "verifying"} /\ at \in {"loop", "batch"}
  BY DEF Review, FactIsNew, FactIsDuplicate, PublishFact, StoreRejectsFact,
         RejectFact, ReturnIdentical, ReturnBeforeVerifier, ExhaustReview,
         Reviewable, SettleProposal, InRun
<1> DEFINE t == op[o].task
<1>3. t \in Tasks /\ task[t] \in TaskRecords
  BY <1>1, <1>2, TaskOfOp DEF FinalOpStates
<1>4. task' = task => \A u \in Tasks : KeepsRepair(u)
  BY UnchangedKeepsRepair
<1>5. \A s \in {"committed", "rejected", "needs_attention"} :
         op'[o] = [op[o] EXCEPT !.state = s] => KeepsOp(o)
  BY <1>1 DEF KeepsOp, VerifiesFact, OpRecords
<1>6. CASE FactIsNew(o)
  <2> DEFINE rec == [op[o] EXCEPT !.state = "verifying", !.review = "verifying"]
  <2>1. op'[o] = rec => KeepsOp(o)
    BY <1>1, <1>6 DEF FactIsNew, KeepsOp, VerifiesFact, OpRecords
  <2>2. QED
    BY <1>4, <1>6, <2>1, OneOpKeepsRepairs DEF FactIsNew
<1>7. ASSUME NEW verdict \in Verdicts, SettleProposal(o, verdict)
      PROVE  KeepsRepairs
  BY <1>4, <1>5, <1>7, OneOpKeepsRepairs DEF SettleProposal, Commits, Verdicts
<1>8. CASE FactIsDuplicate(o) \/ PublishFact(o)
  <2> DEFINE rec == [op[o] EXCEPT !.state = "committed"]
         os == [op EXCEPT ![o] = rec]
  <2>1. os = op' /\ task' = WithoutStale(task, os, FALSE)
    BY <1>8 DEF FactIsDuplicate, PublishFact, FactCommitted
  <2>2. \A u \in Tasks : KeepsRepair(u)
    <3> HIDE DEF os
    <3>1. QED
      BY <2>1, StaleKeepsRepairs
  <2>3. QED
    BY <1>5, <2>1, <2>2, OneOpKeepsRepairs
<1>9. CASE StoreRejectsFact(o)
  BY <1>4, <1>5, <1>9, OneOpKeepsRepairs DEF StoreRejectsFact
<1>10. CASE RejectFact(o) \/ ReturnIdentical(o) \/ ReturnBeforeVerifier(o)
  <2>1. op[o].kind = "fact"
    BY <1>10 DEF RejectFact, ReturnIdentical, ReturnBeforeVerifier, Chains,
                 VerifiesFact
  <2>2. \E kind \in Revisions, ended \in AttemptStates : SendBack(o, kind, ended)
    BY <1>10 DEF RejectFact, ReturnIdentical, ReturnBeforeVerifier, Revisions,
                 AttemptStates
  <2>3. QED
    BY <1>2, <2>1, <2>2, SendBackKeepsRepairs
<1>11. CASE ExhaustReview(o)
  <2>1. \A u \in Tasks : KeepsRepair(u)
    <3>1. CASE task' = task
      BY <1>4, <3>1
    <3>2. CASE task[t].state = "postprocessing"
               /\ task' = [task EXCEPT ![t].state = "needs_attention"]
      <4>1. /\ task'[t] = [task[t] EXCEPT !.state = "needs_attention"]
            /\ \A u \in Tasks \ {t} : task'[u] = task[u]
        BY <1>1, <1>3, <3>2
      <4>2. KeepsRepair(t)
        <5>1. /\ task'[t].pending = task[t].pending
              /\ task'[t].forced = task[t].forced
              /\ task'[t].state = "needs_attention"
          <6> HIDE DEF t
          <6>1. QED
            BY <1>3, <4>1 DEF TaskRecords
        <5>2. QED
          BY <3>2, <5>1 DEF KeepsRepair, Launchable, LaunchStates
      <4>3. QED
        BY <4>1, <4>2, UnchangedKeepsRepair
    <3>3. QED
      BY <1>11, <3>1, <3>2 DEF ExhaustReview
  <2>2. op' = [op EXCEPT ![o] = [op[o] EXCEPT !.state = "needs_attention"]]
    BY <1>11 DEF ExhaustReview
  <2>3. QED
    BY <1>5, <2>1, <2>2, OneOpKeepsRepairs
<1>12. QED
  BY <1>6, <1>7, <1>8, <1>9, <1>10, <1>11 DEF Review

(* Who stops a task has it closed instead of repaired.                     *)
LEMMA DecisionsKeepRepairs ==
    ASSUME IInv,
           \/ \E o \in Ops : RetryReview(o) \/ AbandonOperation(o)
           \/ \E t \in Tasks : ReviewClosure(t)
           \/ StopUnlaunched \/ StopWriter
    PROVE  KeepsRepairs
<1>1. /\ task \in [Tasks -> TaskRecords] /\ op \in [Ops -> OpRecords]
  BY TypesAsRecords DEF IInv
<1>2. task' = task => \A u \in Tasks : KeepsRepair(u)
  BY UnchangedKeepsRepair
<1>3. ASSUME NEW o \in Ops, RetryReview(o)
      PROVE  KeepsRepairs
  <2> DEFINE rec == [op[o] EXCEPT !.state = op[o].review]
  <2>1. op[o] \in OpRecords
    BY <1>1
  <2>2. op'[o] = rec => KeepsOp(o)
    BY <2>1 DEF KeepsOp, VerifiesFact, OpRecords
  <2>3. QED
    BY <1>2, <1>3, <2>2, OneOpKeepsRepairs DEF RetryReview
<1>4. ASSUME NEW o \in Ops, AbandonOperation(o)
      PROVE  KeepsRepairs
  <2> DEFINE t == op[o].task
             rec == [op[o] EXCEPT !.state = "abandoned"]
  <2>1. op[o].state \in {"synthesizing", "verifying", "needs_attention"}
        /\ op[o] \in OpRecords
    BY <1>1, <1>4 DEF AbandonOperation
  <2>2. t \in Tasks
    BY <2>1, TaskOfOp DEF FinalOpStates
  <2>3. op'[o] = rec => KeepsOp(o)
    BY <2>1 DEF KeepsOp, VerifiesFact, OpRecords
  <2>4. \A u \in Tasks : KeepsRepair(u)
    <3> DEFINE tk == AsksClosureReview(task[t], o)
    <3>1. CASE task' = [task EXCEPT ![t] = tk]
      <4>1. /\ tk.pending = task[t].pending /\ tk.forced = task[t].forced
            /\ \/ tk.state = task[t].state
               \/ task[t].state = "postprocessing" /\ tk.state = "needs_attention"
        <5>1. task[t] \in TaskRecords
          BY <1>1, <2>2
        <5> HIDE DEF t
        <5>2. CASE task[t].state = "postprocessing"
          <6>1. tk = [task[t] EXCEPT !.ambiguous = o, !.state = "needs_attention"]
            BY <5>2 DEF AsksClosureReview
          <6>2. QED
            BY <5>1, <5>2, <6>1 DEF TaskRecords
        <5>3. CASE task[t].state # "postprocessing"
          <6>1. tk = [task[t] EXCEPT !.ambiguous = o, !.state = task[t].state]
            BY <5>3 DEF AsksClosureReview
          <6>2. QED
            BY <5>1, <6>1 DEF TaskRecords
        <5>4. QED
          BY <5>2, <5>3
      <4> HIDE DEF tk
      <4>2. task'[t] = tk /\ \A u \in Tasks \ {t} : task'[u] = task[u]
        BY <1>1, <2>2, <3>1
      <4>3. KeepsRepair(t)
        BY <4>1, <4>2 DEF KeepsRepair, Launchable, LaunchStates
      <4>4. QED
        BY <4>2, <4>3, UnchangedKeepsRepair
    <3>2. QED
      BY <1>2, <1>4, <3>1 DEF AbandonOperation
  <2>5. QED
    BY <1>4, <2>3, <2>4, OneOpKeepsRepairs DEF AbandonOperation
<1>5. ASSUME NEW t \in Tasks, ReviewClosure(t)
      PROVE  KeepsRepairs
  <2> DEFINE tk == ClosureReviewed(task[t])
  <2>1. /\ tk.pending = task[t].pending /\ tk.forced = task[t].forced
        /\ \/ tk.state = task[t].state
           \/ task[t].state = "needs_attention" /\ tk.state = "postprocessing"
    <3>1. task[t] \in TaskRecords
      BY <1>1
    <3> DEFINE with(state) ==
                 [task[t] EXCEPT !.reviewed = @ \cup {task[t].ambiguous},
                                 !.ambiguous = 0, !.digested = TRUE,
                                 !.outcome = "normal", !.state = state]
    <3>2. \A state : /\ with(state).pending = task[t].pending
                     /\ with(state).forced = task[t].forced
                     /\ with(state).state = state
      BY <3>1 DEF TaskRecords
    <3>3. CASE task[t].state = "needs_attention"
      <4>1. tk = with("postprocessing")
        BY <3>3 DEF ClosureReviewed
      <4> HIDE DEF with, tk
      <4>2. QED
        BY <3>2, <3>3, <4>1
    <3>4. CASE task[t].state # "needs_attention"
      <4>1. tk = with(task[t].state)
        BY <3>4 DEF ClosureReviewed
      <4> HIDE DEF with, tk
      <4>2. QED
        BY <3>2, <4>1
    <3>5. QED
      BY <3>3, <3>4
  <2> HIDE DEF tk
  <2>2. task'[t] = tk => KeepsRepair(t)
    BY <2>1 DEF KeepsRepair, Launchable, LaunchStates
  <2>3. QED
    BY <1>5, <2>2, OneTaskKeepsRepairs DEF ReviewClosure, tk
<1>6. CASE StopUnlaunched
  <2> DEFINE stopped(t) == [task[t] EXCEPT !.state = "postprocessing",
                                           !.reserved = FALSE,
                                           !.pending = Nothing,
                                           !.forced = TRUE]
  <2>1. \A t \in Tasks : task'[t] = IF Launchable(t) THEN stopped(t) ELSE task[t]
    <3>1. \A t \in Tasks :
             task'[t] = IF t \notin {u \in Tasks : Launchable(u)} THEN task[t]
                        ELSE stopped(t)
      BY <1>6, Zenon DEF StopUnlaunched
    <3> HIDE DEF stopped
    <3>2. QED
      BY <3>1
  <2>2. ASSUME NEW t \in Tasks, Launchable(t)
        PROVE  KeepsRepair(t)
    <3>1. task'[t] = stopped(t)
      BY <2>1, <2>2, Zenon
    <3>2. /\ task'[t].state = "postprocessing" /\ task'[t].pending = Nothing
          /\ task'[t].forced
      BY <1>1, <3>1 DEF TaskRecords
    <3>3. QED
      BY <3>2 DEF KeepsRepair, Launchable, LaunchStates, Nothing, Repairs, Revisions
  <2>3. \A t \in Tasks : KeepsRepair(t)
    <3> HIDE DEF stopped
    <3>1. QED
      BY <2>1, <2>2, UnchangedKeepsRepair
  <2>4. op' = op
    BY <1>6, Zenon DEF StopUnlaunched
  <2>5. QED
    BY <2>3, <2>4 DEF KeepsRepairs, KeepsOp
<1>7. CASE StopWriter
  <2>1. Writer \in Tasks /\ op' = op
    BY <1>7 DEF StopWriter
  <2>2. CASE task' = [task EXCEPT ![Writer].stopped = TRUE]
    <3> DEFINE tk == [task[Writer] EXCEPT !.stopped = TRUE]
    <3>1. task'[Writer] = tk => KeepsRepair(Writer)
      BY <1>1, <2>1 DEF KeepsRepair, Launchable, LaunchStates, TaskRecords
    <3>2. QED
      BY <2>1, <2>2, <3>1, OneTaskKeepsRepairs
  <2> DEFINE tk == [task[Writer] EXCEPT !.state = "postprocessing",
                                        !.forced = TRUE, !.stopped = TRUE]
  <2>3. CASE task' = [task EXCEPT ![Writer] = tk]
    <3>1. tk.pending = task[Writer].pending /\ tk.forced /\ tk.state = "postprocessing"
      BY <1>1, <2>1 DEF TaskRecords
    <3> HIDE DEF tk
    <3>2. task'[Writer] = tk => KeepsRepair(Writer)
      BY <3>1 DEF KeepsRepair, Launchable, LaunchStates
    <3>3. QED
      BY <2>1, <2>3, <3>2, OneTaskKeepsRepairs
  <2>4. QED
    BY <1>7, <2>2, <2>3 DEF StopWriter
<1>8. QED
  BY <1>3, <1>4, <1>5, <1>6, <1>7

(* A calm step keeps repairs as KeepsRepairs says.                         *)
LEMMA RepairSteps ==
    ASSUME IInv, Chains, Next
    PROVE  \/ Calm /\ KeepsRepairs
           \/ Moves \/ Reconcile
           \/ \E ts \in SUBSET Tasks : Submit(ts)
           \/ \E t \in Tasks : StartAttempt(t) \/ AttemptFails(t)
           \/ \E t \in Tasks, evidence \in SUBSET Ops : EndNormally(t, evidence)
           \/ \E t \in Tasks, o \in Ops, kind \in Kinds : Ingest(t, o, kind)
<1>1. CASE MainThread
  <2>1. CASE \/ \E ts \in SUBSET Tasks : StartBatch(ts)
             \/ BatchRuns \/ BatchEnds \/ RunFails
    BY <2>1 DEF Moves
  <2>2. CASE \E t \in Tasks : Work(t)
    BY <2>2, DecisionsAreQuiet, DecisionsKeepRepairs, QuietIsCalm DEF Work, Moves
  <2>3. CASE \E t \in Tasks : Closing(t)
    BY <2>3, ClosingIsQuiet, ClosingKeepsRepairs, QuietIsCalm
  <2>4. CASE \E o \in Ops : Review(o)
    BY <2>4, ReviewIsQuiet, ReviewKeepsRepairs, QuietIsCalm, ReturnIsCalm
  <2>5. CASE \/ \E o \in Ops : Route(o)
             \/ \E o \in Ops, verdict \in Verdicts : CommitMemo(o, verdict)
    BY <2>5, RoutingIsQuiet, RoutingKeepsRepairs, QuietIsCalm
  <2>6. QED
    BY <1>1, <2>1, <2>2, <2>3, <2>4, <2>5 DEF MainThread
<1>2. CASE Operator
  BY <1>2, DecisionsAreQuiet, DecisionsKeepRepairs, QuietIsCalm DEF Operator, Moves
<1>3. QED
  BY <1>1, <1>2 DEF Next

(* What is said of operations once received stays true.                    *)
Extends(os, ns) ==
    \A o \in Ops : os[o].state # "unused" =>
        /\ ns[o].state # "unused"
        /\ ns[o].task = os[o].task /\ ns[o].kind = os[o].kind
        /\ ns[o].chain = os[o].chain /\ ns[o].request = os[o].request
        /\ os[o].repair => ns[o].repair
        /\ os[o].state = "committed" => ns[o].state = "committed"

OnlyUsedFacts(os) == \A o \in Ops : os[o].kind = "fact" => os[o].state # "unused"

LEMMA SupersededStays ==
    ASSUME NEW os, NEW ns, Extends(os, ns), OnlyUsedFacts(os),
           NEW c \in Ops, os[c].state # "unused", SupersededOf(os, c)
    PROVE  SupersededOf(ns, c)
<1>1. ns[c].chain = os[c].chain
  BY DEF Extends
<1>2. CASE \E p \in Ops : p > c /\ os[p].kind = "fact" /\ os[p].chain = os[c].chain
  <2>1. PICK p \in Ops : p > c /\ os[p].kind = "fact" /\ os[p].chain = os[c].chain
    BY <1>2
  <2>2. ns[p].kind = "fact" /\ ns[p].chain = os[c].chain
    BY <2>1 DEF Extends, OnlyUsedFacts
  <2>3. QED
    BY <1>1, <2>1, <2>2 DEF SupersededOf
<1>3. CASE ChainWon(os, os[c].chain)
  <2>1. PICK p \in Chain(os, os[c].chain) : os[p].state = "committed"
    BY <1>3 DEF ChainWon
  <2>2. p \in Chain(ns, ns[c].chain) /\ ns[p].state = "committed"
    BY <1>1, <2>1 DEF Chain, Extends
  <2>3. QED
    BY <2>2 DEF SupersededOf, ChainWon
<1>4. QED
  BY <1>2, <1>3 DEF SupersededOf

LEMMA OvertakenStays ==
    ASSUME NEW os, NEW ns, Extends(os, ns), OnlyUsedFacts(os),
           NEW as, NEW bs, NEW t, NEW k \in Nat,
           \A j \in 1..k : bs[j].supp = as[j].supp,
           OvertakenOf(os, as, t, k)
    PROVE  OvertakenOf(ns, bs, t, k)
<1>1. PICK o \in Ops :
        /\ os[o].state # "unused" /\ os[o].task = t
        /\ os[o].repair /\ FreshOf(as, k, o)
        /\ SupersededOf(os, o) \/ os[o].request = RevisionLimit
  BY DEF OvertakenOf
<1>2. /\ ns[o].state # "unused" /\ ns[o].task = t /\ ns[o].repair
      /\ ns[o].request = os[o].request
  BY <1>1 DEF Extends
<1>3. FreshOf(bs, k, o)
  BY <1>1 DEF FreshOf
<1>4. SupersededOf(ns, o) \/ ns[o].request = RevisionLimit
  BY <1>1, <1>2, SupersededStays
<1>5. QED
  BY <1>2, <1>3, <1>4 DEF OvertakenOf

(* A supplement stays warranted, and names an operation that is used.      *)
LEMMA WarrantStays ==
    ASSUME NEW os, NEW ns, Extends(os, ns), NEW t, NEW s, Sound(s),
           \A o \in Ops : os[o].repair => os[o].state # "unused",
           WarrantedOf(os, t, s)
    PROVE  WarrantedOf(ns, t, s)
BY DEF WarrantedOf, Extends, Sound

LEMMA SurvivesStays ==
    ASSUME NEW os, NEW ns, Extends(os, ns), OnlyUsedFacts(os),
           NEW as, NEW bs, NEW t, NEW k \in AttemptNos,
           \A j \in 1..(k + 1) : bs[j].supp = as[j].supp,
           bs[k].state = "interrupted" => as[k].state = "interrupted",
           Sound(as[k].supp), WarrantedOf(os, t, as[k].supp),
           \A o \in Ops : os[o].repair => os[o].state # "unused",
           SurvivesOf(os, as, t, k)
    PROVE  SurvivesOf(ns, bs, t, k)
<1> DEFINE s == as[k].supp
           next == as[k + 1].supp
<1>1. k \in Nat /\ k \in 1..(k + 1) /\ k + 1 \in 1..(k + 1)
      /\ \A j \in 1..k : j \in 1..(k + 1)
  BY ConstantsAssumption DEF AttemptNos
<1>2. bs[k].supp = s /\ bs[k + 1].supp = next /\ \A j \in 1..k : bs[j].supp = as[j].supp
  BY <1>1
<1>3. SUFFICES ASSUME as[k].state = "interrupted", s.kind \in Revisions
               PROVE  \/ next = s
                      \/ next.kind \in Repairs /\ FreshOf(bs, k, next.cause)
                      \/ SupersededOf(ns, s.cause)
                      \/ OvertakenOf(ns, bs, t, k)
  BY <1>2 DEF SurvivesOf
<1>4. s.cause \in Ops /\ os[s.cause].state # "unused"
  BY <1>3 DEF Sound, WarrantedOf, Repairs, Revisions
<1>5. \/ next = s
      \/ next.kind \in Repairs /\ FreshOf(as, k, next.cause)
      \/ SupersededOf(os, s.cause)
      \/ OvertakenOf(os, as, t, k)
  BY <1>3 DEF SurvivesOf
<1>6. \A o : FreshOf(as, k, o) => FreshOf(bs, k, o)
  BY <1>2 DEF FreshOf
<1>7. CASE SupersededOf(os, s.cause)
  BY <1>4, <1>7, SupersededStays
<1>8. CASE OvertakenOf(os, as, t, k)
  BY <1>1, <1>2, <1>8, OvertakenStays
<1>9. QED
  BY <1>5, <1>6, <1>7, <1>8

(* What an unchanged or a launched attempt waits for stays asked.          *)
LEMMA StillAskedStays ==
    ASSUME NEW os, NEW ns, Extends(os, ns), OnlyUsedFacts(os),
           NEW as, NEW bs, NEW tk, NEW uk, NEW t,
           tk.n \in 0..MaxAttempts, uk.n = tk.n,
           \A j \in AttemptNos : bs[j].supp = as[j].supp,
           tk.n > 0 /\ bs[tk.n].state = "interrupted"
              => as[tk.n].state = "interrupted",
           \A j \in AttemptNos : Sound(as[j].supp) /\ WarrantedOf(os, t, as[j].supp),
           \A o \in Ops : os[o].repair => os[o].state # "unused",
           tk.forced => uk.forced,
           tk.state \notin LaunchStates => uk.state \notin LaunchStates,
           tk.state \in LaunchStates => uk.state \in LaunchStates,
           uk.pending = tk.pending,
           StillAskedOf(os, as, tk, t)
    PROVE  StillAskedOf(ns, bs, uk, t)
<1> DEFINE n == tk.n
           s == as[n].supp
<1>1. SUFFICES ASSUME n > 0, bs[n].state = "interrupted",
                      bs[n].supp.kind \in Revisions
               PROVE  \/ SupersededOf(ns, bs[n].supp.cause)
                      \/ OvertakenOf(ns, bs, t, n)
                      \/ uk.forced /\ uk.state \notin LaunchStates
                      \/ /\ uk.state \in LaunchStates
                         /\ \/ uk.pending = bs[n].supp
                            \/ /\ uk.pending.kind \in Repairs
                               /\ FreshOf(bs, n, uk.pending.cause)
  BY DEF StillAskedOf
<1>2. n \in AttemptNos /\ n \in Nat /\ \A j \in 1..n : j \in AttemptNos
  BY <1>1, ConstantsAssumption DEF AttemptNos
<1>3. bs[n].supp = s /\ as[n].state = "interrupted" /\ s.kind \in Revisions
      /\ \A j \in 1..n : bs[j].supp = as[j].supp
  BY <1>1, <1>2
<1>4. s.cause \in Ops /\ os[s.cause].state # "unused"
  BY <1>2, <1>3 DEF Sound, WarrantedOf, Repairs, Revisions
<1>5. \/ SupersededOf(os, s.cause) \/ OvertakenOf(os, as, t, n)
      \/ tk.forced /\ tk.state \notin LaunchStates
      \/ /\ tk.state \in LaunchStates
         /\ \/ tk.pending = s
            \/ tk.pending.kind \in Repairs /\ FreshOf(as, n, tk.pending.cause)
  BY <1>1, <1>3 DEF StillAskedOf
<1>6. \A o : FreshOf(as, n, o) => FreshOf(bs, n, o)
  BY <1>3 DEF FreshOf
<1>7. CASE SupersededOf(os, s.cause)
  <2>1. SupersededOf(ns, s.cause)
    <3> HIDE DEF s
    <3>1. QED
      BY <1>4, <1>7, SupersededStays
  <2>2. QED
    BY <1>3, <2>1
<1>8. CASE OvertakenOf(os, as, t, n)
  BY <1>2, <1>3, <1>8, OvertakenStays
<1> HIDE DEF n, s
<1>9. QED
  BY <1>3, <1>5, <1>6, <1>7, <1>8

(* What RepairInv says of the operations of one chain.                     *)
LEMMA ChainFacts ==
    ASSUME Chains
    PROVE  /\ OnlyUsedFacts(op)
           /\ \A o \in Ops : op[o].repair => op[o].state # "unused"
           /\ \A o, p \in Ops :
                 /\ op[o].state # "unused" /\ op[p].state # "unused"
                 /\ op[o].chain = op[p].chain
                 => op[o].task = op[p].task
BY DEF Chains, OnlyUsedFacts

(* A repair that is out of date has been superseded.                       *)
LEMMA StaleSuperseded ==
    ASSUME NEW os, NEW s, NEW r, Stale(os, s, r), s.cause \in Ops,
           r => s.kind # "fact_concession"
    PROVE  SupersededOf(os, s.cause)
<1>1. CASE ChainWon(os, os[s.cause].chain)
  BY <1>1 DEF SupersededOf
<1>2. CASE ~IsLatest(os, s.cause)
  <2>1. PICK p \in Chain(os, os[s.cause].chain) : ~(p <= s.cause)
    BY <1>2 DEF IsLatest
  <2>2. p \in Ops /\ os[p].kind = "fact" /\ os[p].chain = os[s.cause].chain
    BY <2>1 DEF Chain
  <2>3. p > s.cause
    BY <2>1, <2>2, ConstantsAssumption DEF Ops
  <2>4. QED
    BY <2>2, <2>3 DEF SupersededOf
<1>3. QED
  BY <1>1, <1>2 DEF Stale

(* No attempt has answered an operation that has no repair.                *)
LEMMA UnaskedIsFresh ==
    ASSUME Warrants, NEW t \in Tasks, NEW k \in 0..MaxAttempts,
           NEW o \in Ops, ~op[o].repair
    PROVE  FreshOf(att[t], k, o)
<1>1. SUFFICES ASSUME NEW j \in 1..k PROVE att[t][j].supp.cause # o
  BY DEF FreshOf
<1>2. j \in AttemptNos
  BY ConstantsAssumption DEF AttemptNos
<1>3. WarrantedOf(op, t, att[t][j].supp)
  BY <1>2 DEF Warrants
<1>4. o # 0
  BY ConstantsAssumption DEF Ops
<1>5. QED
  BY <1>3, <1>4 DEF WarrantedOf

(* A calm step makes a repair only of the newest Fact of a chain.          *)
LEMMA CalmOps ==
    ASSUME IInv, Chains, Calm, KeepsRepairs
    PROVE  /\ Extends(op, op')
           /\ \A o \in Ops :
                /\ op'[o].state = "unused" <=> op[o].state = "unused"
                /\ op'[o].task = op[o].task /\ op'[o].kind = op[o].kind
                /\ op'[o].chain = op[o].chain /\ op'[o].request = op[o].request
                /\ op[o].state \in FinalOpStates => op'[o] = op[o]
                /\ op'[o].repair => op[o].repair \/ Asks(op[o].task, o)
                /\ VerifiesFact(op'[o])
<1>1. ASSUME NEW o \in Ops
      PROVE  /\ op'[o].state = "unused" <=> op[o].state = "unused"
             /\ op'[o].task = op[o].task /\ op'[o].kind = op[o].kind
             /\ op'[o].chain = op[o].chain /\ op'[o].request = op[o].request
             /\ op[o].state \in FinalOpStates => op'[o] = op[o]
             /\ op'[o].repair => op[o].repair \/ Asks(op[o].task, o)
             /\ VerifiesFact(op'[o])
  <2>1. QuietOp(o) /\ KeepsOp(o) /\ VerifiesFact(op[o])
    BY DEF Calm, KeepsRepairs, Chains
  <2>2. QED
    BY <2>1 DEF QuietOp, KeepsOp
<1>2. Extends(op, op')
  BY <1>1 DEF Extends, Chains, FinalOpStates
<1>3. QED
  BY <1>1, <1>2

(* Who asks is the newest Fact of a chain of the task.                     *)
LEMMA AskerIsNewest ==
    ASSUME IInv, Chains, Calm, KeepsRepairs, NEW t \in Tasks,
           NEW o \in Ops, Asks(t, o),
           NEW p \in Ops, op'[p].repair, op[p].chain = op[o].chain
    PROVE  p <= o
<1>1. IsLatest(op, o)
  BY DEF Asks
<1>2. op[p].repair \/ Asks(op[p].task, p)
  BY CalmOps
<1>3. op[p].kind = "fact" /\ op[p].state \notin {"unused", "abandoned"}
  BY <1>2 DEF Chains, Asks
<1>4. p \in Chain(op, op[o].chain)
  BY <1>3 DEF Chain
<1>5. QED
  BY <1>1, <1>4 DEF IsLatest

LEMMA CalmWarrants ==
    ASSUME IInv, RepairInv, Calm, KeepsRepairs
    PROVE  Warrants'
<1>1. Extends(op, op')
  BY CalmOps DEF RepairInv
<1>2. \A o \in Ops : op[o].repair => op[o].state # "unused"
  BY ChainFacts DEF RepairInv
<1>3. ASSUME NEW t \in Tasks, NEW k \in AttemptNos
      PROVE  WarrantedOf(op', t, att'[t][k].supp)
  <2>1. Sound(att[t][k].supp) /\ WarrantedOf(op, t, att[t][k].supp)
    BY DEF IInv, Linked, RepairInv, Warrants
  <2>2. att'[t][k].supp = att[t][k].supp
    BY DEF Calm
  <2>3. QED
    BY <1>1, <1>2, <2>1, <2>2, WarrantStays
<1>4. ASSUME NEW t \in Tasks
      PROVE  WarrantedOf(op', t, task'[t].pending)
  <2>1. Sound(task[t].pending) /\ WarrantedOf(op, t, task[t].pending)
    BY DEF IInv, Linked, RepairInv, Warrants
  <2>2. WarrantedOf(op', t, task[t].pending)
    BY <1>1, <1>2, <2>1, WarrantStays
  <2>3. ASSUME NEW o \in Ops, Asks(t, o)
        PROVE  WarrantedOf(op', t, task'[t].pending)
    <3>1. PICK kind \in Revisions :
             task'[t].pending = Supplement(RepairKind(o, kind), o)
      BY <2>3 DEF Asks
    <3>2. /\ op'[o].repair /\ op'[o].task = t /\ op'[o].request = op[o].request
      BY <2>3, CalmOps DEF Asks, RepairInv
    <3>3. QED
      BY <3>1, <3>2 DEF WarrantedOf, Supplement, RepairKind, Repairs, Revisions
  <2>4. KeepsRepair(t)
    BY DEF KeepsRepairs
  <2>5. ASSUME task'[t].pending.kind \notin Repairs, task'[t].pending.cause = 0
        PROVE  WarrantedOf(op', t, task'[t].pending)
    BY <2>5 DEF WarrantedOf
  <2>6. Nothing.kind \notin Repairs /\ Nothing.cause = 0
    BY DEF Nothing, Repairs, Revisions
  <2>7. QED
    BY <2>2, <2>3, <2>4, <2>5, <2>6 DEF KeepsRepair
<1>5. QED
  BY <1>1, <1>3, <1>4 DEF Warrants

LEMMA CalmChains ==
    ASSUME IInv, RepairInv, Calm, KeepsRepairs
    PROVE  Chains' /\ RequestsGrow'
<1>1. ASSUME NEW o \in Ops
      PROVE  /\ VerifiesFact(op'[o])
             /\ op'[o].repair => op'[o].state = "rejected" /\ op'[o].kind = "fact"
             /\ op'[o].state = "unused" => op'[o].kind = "none"
             /\ op'[o].state # "unused" =>
                  /\ \A p \in 1..(o - 1) : op'[p].state # "unused"
                  /\ op'[o].chain \in 1..o
                  /\ op'[op'[o].chain].task = op'[o].task
                  /\ op'[o].request \in 0..RevisionLimit
  <2>1. \A p \in 1..o : p \in Ops
    BY ConstantsAssumption DEF Ops
  <2>2. \A p \in 1..(o - 1) : p \in Ops
    BY ConstantsAssumption DEF Ops
  <2>3. /\ VerifiesFact(op[o])
        /\ op[o].repair => op[o].state = "rejected" /\ op[o].kind = "fact"
        /\ op[o].state = "unused" => op[o].kind = "none"
        /\ op[o].state # "unused" =>
             /\ \A p \in 1..(o - 1) : op[p].state # "unused"
             /\ op[o].chain \in 1..o
             /\ op[op[o].chain].task = op[o].task
             /\ op[o].request \in 0..RevisionLimit
    BY DEF RepairInv, Chains
  <2>4. \A p \in Ops :
           /\ op'[p].state = "unused" <=> op[p].state = "unused"
           /\ op'[p].task = op[p].task /\ op'[p].kind = op[p].kind
           /\ op'[p].chain = op[p].chain /\ op'[p].request = op[p].request
    BY CalmOps DEF RepairInv
  <2>5. VerifiesFact(op'[o])
    BY CalmOps DEF RepairInv
  <2>6. ASSUME op'[o].repair
        PROVE  op'[o].state = "rejected" /\ op'[o].kind = "fact"
    <3>1. CASE op[o].repair
      BY <2>3, <3>1, CalmOps DEF RepairInv, FinalOpStates
    <3>2. CASE Asks(op[o].task, o)
      BY <2>4, <3>2 DEF Asks
    <3>3. QED
      BY <2>6, <3>1, <3>2, CalmOps DEF RepairInv
  <2>7. QED
    BY <2>1, <2>2, <2>3, <2>4, <2>5, <2>6
<1>2. Chains'
  BY <1>1 DEF Chains
<1>3. ASSUME NEW o \in Ops, NEW p \in Ops, op'[o].repair, p > o,
             p \in Chain(op', op'[o].chain)
      PROVE  op'[p].request > op'[o].request
  <2>1. /\ op'[p].state \notin {"unused", "abandoned"}
        /\ op'[p].kind = "fact" /\ op'[p].chain = op'[o].chain
    BY <1>3 DEF Chain
  <2>2. /\ op[p].kind = "fact" /\ op[p].chain = op[o].chain
        /\ op[p].state \notin {"unused", "abandoned"}
        /\ op'[p].request = op[p].request /\ op'[o].request = op[o].request
    BY <2>1, CalmOps DEF RepairInv, FinalOpStates
  <2>3. p \in Chain(op, op[o].chain)
    BY <2>2 DEF Chain
  <2>4. CASE op[o].repair
    BY <1>3, <2>2, <2>3, <2>4 DEF RepairInv, RequestsGrow
  <2>5. CASE Asks(op[o].task, o)
    <3>1. p <= o
      BY <2>3, <2>5 DEF Asks, IsLatest
    <3>2. QED
      BY <1>3, <3>1, ConstantsAssumption DEF Ops
  <2>6. QED
    BY <1>3, <2>4, <2>5, CalmOps DEF RepairInv
<1>4. RequestsGrow'
  BY <1>3 DEF RequestsGrow
<1>5. QED
  BY <1>2, <1>4

LEMMA CalmNewest ==
    ASSUME IInv, RepairInv, Calm, KeepsRepairs
    PROVE  NewestAsked'
<1>1. Chains /\ \A t \in Tasks :
         /\ task'[t].n = task[t].n
         /\ task'[t].state = "running" => task[t].state = "running"
         /\ \A k \in AttemptNos : att'[t][k].supp = att[t][k].supp
  BY DEF Calm, RepairInv
<1>2. \A t \in Tasks :
         /\ NewestOf(op, task[t].pending)
         /\ task[t].state = "running" => NewestOf(op, att[t][task[t].n].supp)
  BY DEF RepairInv, NewestAsked
(* A supplement stays the newest, unless its task is asked for another.    *)
<1>3. ASSUME NEW t \in Tasks, NEW s, Sound(s), WarrantedOf(op, t, s), NewestOf(op, s),
             \A o \in Ops : Asks(t, o) => o <= s.cause
      PROVE  NewestOf(op', s)
  <2>1. SUFFICES ASSUME s.kind \in Repairs, NEW o \in Ops, op'[o].repair,
                        op'[o].chain = op'[s.cause].chain
                 PROVE  o <= s.cause
    BY DEF NewestOf
  <2>2. s.cause \in Ops /\ op[s.cause].repair /\ op[s.cause].task = t
    BY <1>3, <2>1 DEF Sound, WarrantedOf
  <2>3. op[o].chain = op[s.cause].chain
    BY <1>1, <2>1, <2>2, CalmOps
  <2>4. CASE op[o].repair
    BY <1>3, <2>1, <2>3, <2>4 DEF NewestOf
  <2>5. CASE Asks(op[o].task, o)
    <3>1. op[o].state # "unused" /\ op[s.cause].state # "unused"
      BY <1>1, <2>2, <2>5, ChainFacts DEF Asks
    <3>2. op[o].task = t
      BY <1>1, <2>2, <2>3, <3>1, ChainFacts
    <3>3. QED
      BY <1>3, <2>5, <3>2
  <2>6. QED
    BY <1>1, <2>1, <2>4, <2>5, CalmOps
<1>4. ASSUME NEW t \in Tasks
      PROVE  NewestOf(op', task'[t].pending)
  <2>1. Sound(task[t].pending) /\ WarrantedOf(op, t, task[t].pending)
        /\ KeepsRepair(t)
    BY DEF IInv, Linked, RepairInv, Warrants, KeepsRepairs
  <2>2. ASSUME task'[t].pending.kind \notin Repairs
        PROVE  NewestOf(op', task'[t].pending)
    BY <2>2 DEF NewestOf
  <2>3. Nothing.kind \notin Repairs
    BY DEF Nothing, Repairs, Revisions
  <2>4. ASSUME NEW o \in Ops, Asks(t, o)
        PROVE  NewestOf(op', task'[t].pending)
    <3>1. task'[t].pending.cause = o
      BY <2>4 DEF Asks, Supplement
    <3>2. ASSUME NEW p \in Ops, op'[p].repair, op'[p].chain = op'[o].chain
          PROVE  p <= o
      <4>1. op[p].chain = op[o].chain
        BY <1>1, <3>2, CalmOps
      <4>2. QED
        BY <1>1, <2>4, <3>2, <4>1, AskerIsNewest
    <3>3. QED
      BY <3>1, <3>2 DEF NewestOf
  <2>5. CASE task'[t].pending = task[t].pending
    <3>1. CASE \E o \in Ops : Asks(t, o)
      BY <2>4, <3>1
    <3>2. CASE ~\E o \in Ops : Asks(t, o)
      <4>1. NewestOf(op', task[t].pending)
        BY <1>2, <1>3, <2>1, <3>2
      <4>2. QED
        BY <2>5, <4>1
    <3>3. QED
      BY <3>1, <3>2
  <2>6. QED
    BY <2>1, <2>2, <2>3, <2>4, <2>5 DEF KeepsRepair
<1>5. ASSUME NEW t \in Tasks, task'[t].state = "running"
      PROVE  NewestOf(op', att'[t][task'[t].n].supp)
  <2> DEFINE s == att[t][task[t].n].supp
  <2>1. task[t].state = "running" /\ task[t].n \in AttemptNos
    BY <1>1, <1>5 DEF IInv, Linked
  <2>2. Sound(s) /\ WarrantedOf(op, t, s) /\ NewestOf(op, s)
    BY <1>2, <2>1 DEF IInv, Linked, RepairInv, Warrants
  <2>3. \A o \in Ops : ~Asks(t, o)
    BY <1>5 DEF Asks
  <2>4. NewestOf(op', s)
    <3> HIDE DEF s
    <3>1. QED
      BY <1>3, <2>2, <2>3
  <2>5. QED
    BY <1>1, <2>1, <2>4
<1>6. QED
  BY <1>4, <1>5 DEF NewestAsked

(* A task that is not stopped keeps waiting for its repair, or for that of *)
(* another verdict.                                                        *)
LEMMA CalmWait ==
    ASSUME IInv, RepairInv, Calm, KeepsRepairs, NEW t \in Tasks
    PROVE  StillAskedOf(op', att'[t], task'[t], t)
<1> DEFINE n == task[t].n
           as == att[t]
           s == as[n].supp
           pending == task[t].pending
<1>0. n \in 0..MaxAttempts /\ task'[t].n = n /\ (n > 0 => n \in AttemptNos)
  <2>1. n \in 0..MaxAttempts
    BY DEF IInv, TypeOK
  <2>2. task'[t].n = n
    BY DEF Calm
  <2>3. QED
    BY <2>1, <2>2, ConstantsAssumption DEF AttemptNos
<1>1. SUFFICES ASSUME n > 0, as[n].state = "interrupted",
                      s.kind \in Revisions
               PROVE  \/ SupersededOf(op', s.cause) \/ OvertakenOf(op', as, t, n)
                      \/ task'[t].forced /\ task'[t].state \notin LaunchStates
                      \/ /\ task'[t].state \in LaunchStates
                         /\ \/ task'[t].pending = s
                            \/ /\ task'[t].pending.kind \in Repairs
                               /\ FreshOf(as, n, task'[t].pending.cause)
  <2> DEFINE bs == att'[t]
  <2>1. \A k \in AttemptNos :
           /\ bs[k].supp = as[k].supp
           /\ bs[k].state = "interrupted" => as[k].state = "interrupted"
    BY DEF Calm
  <2>2. n > 0 => n \in AttemptNos /\ \A k \in 1..n : k \in AttemptNos
    BY <1>0, ConstantsAssumption DEF AttemptNos
  <2> HIDE DEF as, bs
  <2>3. n > 0 => \A o : FreshOf(as, n, o) => FreshOf(bs, n, o)
    BY <2>1, <2>2 DEF FreshOf
  <2>4. n > 0 /\ OvertakenOf(op', as, t, n) => OvertakenOf(op', bs, t, n)
    BY <2>3 DEF OvertakenOf
  <2>5. StillAskedOf(op', bs, task'[t], t)
    <3>1. n > 0 => /\ bs[n].supp = s
                   /\ bs[n].state = "interrupted" => as[n].state = "interrupted"
      BY <2>1, <2>2
    <3>2. task'[t].n = n
      BY <1>0
    <3> HIDE DEF n, s
    <3>3. QED
      BY <1>1, <2>3, <2>4, <3>1, <3>2 DEF StillAskedOf
  <2>6. QED
    BY <2>5 DEF bs
<1>2. /\ Extends(op, op') /\ OnlyUsedFacts(op) /\ Chains /\ Warrants
      /\ \A o \in Ops : op[o].repair => op[o].state # "unused"
  BY CalmOps, ChainFacts DEF RepairInv
<1>3. n \in 0..MaxAttempts /\ n \in Nat /\ n \in AttemptNos
  BY <1>0, <1>1, ConstantsAssumption
<1>4. s.cause \in Ops /\ op[s.cause].state # "unused" /\ op[s.cause].repair
  BY <1>1, <1>2, <1>3 DEF IInv, Linked, Sound, Warrants, WarrantedOf, Repairs, Revisions
<1>5. Sound(pending) /\ WarrantedOf(op, t, pending) /\ KeepsRepair(t)
  BY <1>2 DEF IInv, Linked, Warrants, KeepsRepairs
<1>6. \/ SupersededOf(op, s.cause) \/ OvertakenOf(op, as, t, n)
      \/ task[t].forced /\ ~Launchable(t)
      \/ /\ Launchable(t)
         /\ pending = s \/ (pending.kind \in Repairs /\ FreshOf(as, n, pending.cause))
  BY <1>1 DEF RepairInv, Waits, StillAskedOf, Launchable, LaunchStates
<1>7. CASE SupersededOf(op, s.cause)
  <2>1. SupersededOf(op', s.cause)
    <3> HIDE DEF s
    <3>1. QED
      BY <1>2, <1>4, <1>7, SupersededStays
  <2>2. QED
    BY <2>1
<1>8. CASE OvertakenOf(op, as, t, n)
  <2>1. OvertakenOf(op', as, t, n)
    <3> HIDE DEF n, as
    <3>1. QED
      BY <1>2, <1>3, <1>8, OvertakenStays
  <2>2. QED
    BY <2>1
<1>9. ASSUME NEW o \in Ops, Asks(t, o)
      PROVE  /\ task'[t].state \in LaunchStates
             /\ task'[t].pending.kind \in Repairs
             /\ FreshOf(as, n, task'[t].pending.cause)
  <2>1. ~op[o].repair
    BY <1>2, <1>9 DEF Asks, Chains
  <2>2. FreshOf(as, n, o)
    BY <1>2, <1>3, <2>1, UnaskedIsFresh
  <2>3. task'[t].state = "revision_pending" /\ \E kind \in Revisions :
           task'[t].pending = Supplement(RepairKind(o, kind), o)
    BY <1>9 DEF Asks
  <2>4. QED
    BY <2>2, <2>3 DEF Supplement, RepairKind, Repairs, Revisions, LaunchStates
<1>10. CASE task[t].forced /\ ~Launchable(t)
  BY <1>5, <1>9, <1>10 DEF KeepsRepair
<1>11. CASE /\ Launchable(t)
            /\ pending = s \/ (pending.kind \in Repairs /\ FreshOf(as, n, pending.cause))
  <2>1. ASSUME Stale(op', pending, FALSE)
        PROVE  SupersededOf(op', s.cause) \/ OvertakenOf(op', as, t, n)
    <3>1. pending.cause \in Ops /\ op[pending.cause].repair
          /\ op[pending.cause].task = t
      BY <1>5, <2>1 DEF Stale, Sound, WarrantedOf
    <3>2. SupersededOf(op', pending.cause)
      <4> HIDE DEF pending
      <4>1. QED
        BY <2>1, <3>1, StaleSuperseded
    <3>3. CASE pending = s
      BY <3>2, <3>3
    <3>4. CASE FreshOf(as, n, pending.cause)
      <4>1. /\ op'[pending.cause].state # "unused" /\ op'[pending.cause].task = t
            /\ op'[pending.cause].repair
        BY <1>2, <3>1 DEF Extends
      <4> HIDE DEF pending, as, n, s
      <4>2. QED
        BY <3>1, <3>2, <3>4, <4>1 DEF OvertakenOf
    <3>5. QED
      BY <1>11, <3>3, <3>4
  <2>2. CASE /\ task'[t].pending = pending
             /\ Launchable(t) => task'[t].state \in LaunchStates \/ task'[t].forced
    <3> HIDE DEF as, n, s
    <3>1. QED
      BY <1>11, <2>2
  <2>3. CASE \/ task'[t].forced /\ task'[t].state \notin LaunchStates
             \/ ~task[t].forced /\ ~Launchable(t)
    BY <1>11, <2>3
  <2>4. QED
    BY <1>5, <1>9, <2>1, <2>2, <2>3 DEF KeepsRepair
<1>12. QED
  BY <1>6, <1>7, <1>8, <1>10, <1>11

LEMMA CalmKeepsRepairInv ==
    ASSUME IInv, RepairInv, Calm, KeepsRepairs
    PROVE  RepairInv'
<1>1. \A t \in Tasks : task'[t].n = task[t].n
  BY DEF Calm
<1>2. Waits'
  <2>1. \A t \in Tasks : StillAskedOf(op', att'[t], task'[t], t)
    BY CalmWait
  <2>2. \A t \in Tasks :
           task'[t].state \in {"none", "launching"} => task'[t].n = 0
    BY <1>1 DEF KeepsRepairs, KeepsRepair, RepairInv, Waits
  <2>3. QED
    BY <2>1, <2>2 DEF Waits
<1>3. Survives'
  <2>1. SUFFICES ASSUME NEW t \in Tasks, NEW k \in AttemptNos, k < task[t].n
                 PROVE  SurvivesOf(op', att'[t], t, k)
    BY <1>1 DEF Survives
  <2>2. /\ Sound(att[t][k].supp) /\ WarrantedOf(op, t, att[t][k].supp)
        /\ SurvivesOf(op, att[t], t, k)
    BY <2>1 DEF IInv, Linked, RepairInv, Warrants, Survives
  <2>3. /\ Extends(op, op') /\ OnlyUsedFacts(op)
        /\ \A o \in Ops : op[o].repair => op[o].state # "unused"
    BY CalmOps, ChainFacts DEF RepairInv
  <2> DEFINE as == att[t]
             bs == att'[t]
  <2>4. k + 1 \in AttemptNos /\ \A j \in 1..(k + 1) : j \in AttemptNos
    BY <2>1, ConstantsAssumption DEF AttemptNos, IInv, TypeOK
  <2>5. \A j \in 1..(k + 1) : bs[j].supp = as[j].supp
    BY <2>4 DEF Calm
  <2>6. bs[k].state = "interrupted" => as[k].state = "interrupted"
    BY DEF Calm
  <2> HIDE DEF bs
  <2>7. SurvivesOf(op', bs, t, k)
    BY <2>2, <2>3, <2>5, <2>6, SurvivesStays
  <2>8. QED
    BY <2>7 DEF bs
<1>4. QED
  BY <1>2, <1>3, CalmWarrants, CalmChains, CalmNewest DEF RepairInv

(* Steps that leave operations and attempts alone, and change of a task at *)
(* most that it is assigned.                                               *)
LEMMA AssignmentsKeepRepairInv ==
    ASSUME IInv, RepairInv, Moves \/ \E ts \in SUBSET Tasks : Submit(ts)
    PROVE  RepairInv'
<1>1. op' = op /\ att' = att
  <2>1. CASE Moves
    BY <2>1 DEF Moves, StartBatch, BatchRuns, BatchEnds, ProcessGone, RunFails,
                Stop, Down, Restart
  <2>2. CASE \E ts \in SUBSET Tasks : Submit(ts)
    BY <2>2, Zenon DEF Submit
  <2>3. QED
    BY <2>1, <2>2
<1>2. \A t \in Tasks :
         /\ task'[t].n = task[t].n /\ task'[t].pending = task[t].pending
         /\ task'[t].state = "running" <=> task[t].state = "running"
         /\ \/ task'[t] = task[t]
            \/ task[t].state = "none" /\ task'[t].state = "launching"
  <2>1. CASE Moves
    BY <2>1 DEF Moves, StartBatch, BatchRuns, BatchEnds, ProcessGone, RunFails,
                Stop, Down, Restart
  <2>2. ASSUME NEW ts \in SUBSET Tasks, Submit(ts), NEW t \in Tasks
        PROVE  /\ task'[t].n = task[t].n /\ task'[t].pending = task[t].pending
               /\ task'[t].state = "running" <=> task[t].state = "running"
               /\ \/ task'[t] = task[t]
                  \/ task[t].state = "none" /\ task'[t].state = "launching"
    <3>1. task[t] \in TaskRecords
      BY TypesAsRecords DEF IInv
    <3>2. task'[t] = IF t \in ts THEN [task[t] EXCEPT !.state = "launching",
                                                      !.reserved = TRUE]
                     ELSE task[t]
      BY <2>2, Zenon DEF Submit
    <3>3. t \in ts => task[t].state = "none"
      BY <2>2, Zenon DEF Submit
    <3>4. QED
      BY <3>1, <3>2, <3>3 DEF TaskRecords
  <2>3. QED
    BY <2>1, <2>2
<1>3. Warrants' /\ Chains' /\ RequestsGrow'
  BY <1>1, <1>2 DEF RepairInv, Warrants, Chains, RequestsGrow
<1>4. NewestAsked'
  BY <1>1, <1>2 DEF RepairInv, NewestAsked
<1>5. Survives'
  BY <1>1, <1>2 DEF RepairInv, Survives
<1>6. Waits'
  <2>1. ASSUME NEW t \in Tasks
        PROVE  StillAskedOf(op, att[t], task'[t], t)
    <3>1. CASE task'[t] = task[t]
      BY <3>1 DEF RepairInv, Waits
    <3>2. CASE task[t].state = "none"
      <4>1. task'[t].n = 0
        BY <1>2, <3>2 DEF RepairInv, Waits
      <4>2. QED
        BY <4>1 DEF StillAskedOf
    <3>3. QED
      BY <1>2, <3>1, <3>2
  <2>2. \A t \in Tasks : task'[t].state \in {"none", "launching"} => task'[t].n = 0
    BY <1>2 DEF RepairInv, Waits
  <2>3. QED
    BY <1>1, <2>1, <2>2 DEF Waits
<1>7. QED
  BY <1>3, <1>4, <1>5, <1>6 DEF RepairInv

(* Every table extends itself.                                             *)
LEMMA ExtendsItself == \A os : Extends(os, os)
BY DEF Extends

(* An attempt starts with the repair that is asked of its task.            *)
LEMMA StartKeepsRepairInv ==
    ASSUME IInv, RepairInv, NEW t \in Tasks, StartAttempt(t)
    PROVE  RepairInv'
<1> DEFINE n == task[t].n
           pending == task[t].pending
<1>1. /\ n \in 0..MaxAttempts /\ n < MaxAttempts /\ n + 1 \in AttemptNos
      /\ op' = op /\ task[t] \in TaskRecords
  <2>1. n \in 0..MaxAttempts /\ n < MaxAttempts /\ op' = op
    BY DEF IInv, TypeOK, StartAttempt, Linked
  <2>2. QED
    BY <2>1, TypesAsRecords, ConstantsAssumption DEF AttemptNos, IInv
<1>2. /\ task'[t].state = "running" /\ task'[t].n = n + 1
      /\ task'[t].pending = Nothing
      /\ \A u \in Tasks \ {t} : task'[u] = task[u]
  <2> DEFINE tk == Started(task[t])
  <2>1. tk.state = "running" /\ tk.n = n + 1 /\ tk.pending = Nothing
    BY <1>1 DEF Started, TaskRecords
  <2>2. task \in [Tasks -> TaskRecords] /\ task' = [task EXCEPT ![t] = tk]
    BY TypesAsRecords DEF IInv, StartAttempt
  <2> HIDE DEF tk
  <2>3. task'[t] = tk /\ \A u \in Tasks \ {t} : task'[u] = task[u]
    BY <2>2
  <2>4. QED
    BY <2>1, <2>3
<1>3. /\ att'[t][n + 1].supp = pending /\ att'[t][n + 1].state = "running"
      /\ \A u \in Tasks, j \in AttemptNos :
            u # t \/ j # n + 1 => att'[u][j] = att[u][j]
  <2> DEFINE a == [state |-> "running", supp |-> pending]
  <2>1. att \in [Tasks -> [AttemptNos -> AttemptRecords]]
        /\ att' = [att EXCEPT ![t][n + 1] = a]
    BY TypesAsRecords DEF IInv, StartAttempt
  <2>2. a.supp = pending /\ a.state = "running"
    OBVIOUS
  <2> HIDE DEF a
  <2>3. att'[t][n + 1] = a /\ \A u \in Tasks, j \in AttemptNos :
                                 u # t \/ j # n + 1 => att'[u][j] = att[u][j]
    BY <1>1, <2>1
  <2>4. QED
    BY <2>2, <2>3
<1>4. Launchable(t) /\ task[t].state \in LaunchStates
  BY DEF StartAttempt, Launchable, LaunchStates
<1>5. Nothing.kind \notin Repairs /\ Nothing.cause = 0
  BY DEF Nothing, Repairs, Revisions
<1>6. Sound(pending) /\ WarrantedOf(op, t, pending) /\ NewestOf(op, pending)
  BY DEF IInv, Linked, RepairInv, Warrants, NewestAsked
<1>7. Warrants'
  <2>1. ASSUME NEW u \in Tasks
        PROVE  WarrantedOf(op, u, task'[u].pending)
    <3>1. CASE u = t
      BY <1>2, <1>5, <3>1 DEF WarrantedOf
    <3>2. CASE u # t
      BY <1>2, <3>2 DEF RepairInv, Warrants
    <3>3. QED
      BY <3>1, <3>2
  <2>2. ASSUME NEW u \in Tasks, NEW j \in AttemptNos
        PROVE  WarrantedOf(op, u, att'[u][j].supp)
    <3>1. CASE u = t /\ j = n + 1
      BY <1>3, <1>6, <3>1
    <3>2. CASE u # t \/ j # n + 1
      BY <1>3, <3>2 DEF RepairInv, Warrants
    <3>3. QED
      BY <3>1, <3>2
  <2>3. QED
    BY <1>1, <2>1, <2>2 DEF Warrants
<1>8. Chains' /\ RequestsGrow'
  BY <1>1 DEF RepairInv, Chains, RequestsGrow
<1>9. NewestAsked'
  <2>1. ASSUME NEW u \in Tasks
        PROVE  /\ NewestOf(op, task'[u].pending)
               /\ task'[u].state = "running" =>
                    NewestOf(op, att'[u][task'[u].n].supp)
    <3>1. CASE u = t
      <4>1. NewestOf(op, task'[t].pending)
        BY <1>2, <1>5 DEF NewestOf
      <4>2. NewestOf(op, att'[t][task'[t].n].supp)
        BY <1>2, <1>3, <1>6
      <4>3. QED
        BY <3>1, <4>1, <4>2
    <3>2. CASE u # t
      <4>1. task'[u] = task[u] /\ (task[u].state = "running" =>
                                     att'[u][task[u].n] = att[u][task[u].n])
        BY <1>2, <1>3, <3>2 DEF IInv, Linked
      <4>2. QED
        BY <4>1 DEF RepairInv, NewestAsked
    <3>3. QED
      BY <3>1, <3>2
  <2>2. QED
    BY <1>1, <2>1 DEF NewestAsked
<1>10. /\ OnlyUsedFacts(op) /\ Extends(op, op)
       /\ \A o \in Ops : op[o].repair => op[o].state # "unused"
  BY ExtendsItself, ChainFacts DEF RepairInv
<1>11. Waits'
  <2>1. ASSUME NEW u \in Tasks
        PROVE  /\ StillAskedOf(op, att'[u], task'[u], u)
               /\ task'[u].state \in {"none", "launching"} => task'[u].n = 0
    <3>1. CASE u = t
      BY <1>2, <1>3, <3>1 DEF StillAskedOf
    <3>2. CASE u # t
      <4>1. task'[u] = task[u] /\ \A j \in AttemptNos : att'[u][j] = att[u][j]
        BY <1>2, <1>3, <3>2
      <4>2. /\ StillAskedOf(op, att[u], task[u], u) /\ task[u].n \in 0..MaxAttempts
            /\ task[u].state \in {"none", "launching"} => task[u].n = 0
            /\ \A j \in AttemptNos : Sound(att[u][j].supp)
                                     /\ WarrantedOf(op, u, att[u][j].supp)
        BY DEF RepairInv, Waits, IInv, TypeOK, Linked, Warrants
      <4>3. task[u].n > 0 => task[u].n \in AttemptNos
        BY <4>2, ConstantsAssumption DEF AttemptNos
      <4>4. StillAskedOf(op, att'[u], task[u], u)
        BY <1>10, <4>1, <4>2, <4>3, StillAskedStays
      <4>5. QED
        BY <4>1, <4>2, <4>4
    <3>3. QED
      BY <3>1, <3>2
  <2>2. QED
    BY <1>1, <2>1 DEF Waits
<1>12. Survives'
  <2>1. SUFFICES ASSUME NEW u \in Tasks, NEW k \in AttemptNos, k < task'[u].n
                 PROVE  SurvivesOf(op, att'[u], u, k)
    BY <1>1 DEF Survives
  <2>2. Sound(att[u][k].supp) /\ WarrantedOf(op, u, att[u][k].supp)
    BY DEF IInv, Linked, RepairInv, Warrants
  <2>3. k \in Nat /\ task[u].n \in 0..MaxAttempts
    BY ConstantsAssumption DEF AttemptNos, IInv, TypeOK
  <2>4. CASE u # t \/ k < n
    <3>1. k < task[u].n
      BY <1>2, <2>1, <2>4
    <3>2. \A j \in 1..(k + 1) : j \in AttemptNos /\ (u # t \/ j # n + 1)
      <4>1. k + 1 <= task[u].n /\ task[u].n <= MaxAttempts
        BY <2>3, <3>1, ConstantsAssumption
      <4>2. \A j \in 1..(k + 1) : j \in AttemptNos
        BY <2>3, <4>1, ConstantsAssumption DEF AttemptNos
      <4>3. u = t => \A j \in 1..(k + 1) : j # n + 1
        BY <2>3, <4>1
      <4>4. QED
        BY <4>2, <4>3
    <3>3. \A j \in 1..(k + 1) : att'[u][j] = att[u][j]
      BY <1>3, <3>2
    <3>4. k \in 1..(k + 1)
      BY <2>3 DEF AttemptNos
    <3>5. SurvivesOf(op, att[u], u, k)
      BY <3>1 DEF RepairInv, Survives
    <3>6. QED
      BY <1>10, <2>2, <3>3, <3>4, <3>5, SurvivesStays
  <2>5. CASE u = t /\ k = n
    <3> DEFINE s == att[t][n].supp
    <3>1. n > 0 /\ n \in AttemptNos /\ n # n + 1 /\ \A j \in 1..n : j \in AttemptNos /\ j # n + 1
      BY <1>1, <2>5, ConstantsAssumption DEF AttemptNos
    <3>2. /\ att'[t][n] = att[t][n] /\ att'[t][n + 1].supp = pending
          /\ \A j \in 1..n : att'[t][j] = att[t][j]
      BY <1>3, <3>1
    <3>3. SUFFICES ASSUME att[t][n].state = "interrupted", s.kind \in Revisions
                   PROVE  \/ pending = s
                          \/ pending.kind \in Repairs /\ FreshOf(att'[t], n, pending.cause)
                          \/ SupersededOf(op, s.cause)
                          \/ OvertakenOf(op, att'[t], t, n)
      BY <2>5, <3>2 DEF SurvivesOf
    <3>4. \/ SupersededOf(op, s.cause) \/ OvertakenOf(op, att[t], t, n)
          \/ pending = s
          \/ pending.kind \in Repairs /\ FreshOf(att[t], n, pending.cause)
      BY <1>4, <3>1, <3>3 DEF RepairInv, Waits, StillAskedOf
    <3>5. \A o : FreshOf(att[t], n, o) => FreshOf(att'[t], n, o)
      BY <3>2 DEF FreshOf
    <3>6. CASE OvertakenOf(op, att[t], t, n)
      <4>1. n \in Nat /\ \A j \in 1..n : att'[t][j].supp = att[t][j].supp
        BY <1>1, <3>2
      <4> HIDE DEF n
      <4>2. QED
        BY <1>10, <3>6, <4>1, OvertakenStays
    <3> HIDE DEF s, pending, n
    <3>7. QED
      BY <3>4, <3>5, <3>6
  <2>6. QED
    BY <1>1, <1>2, <2>1, <2>3, <2>4, <2>5
<1>13. QED
  BY <1>7, <1>8, <1>9, <1>11, <1>12 DEF RepairInv

(* What stays of an attempt that ends, and of everybody else's.            *)
LEMMA OtherAttemptsStay ==
    ASSUME IInv, RepairInv, NEW t \in Tasks, NEW s,
           task[t].state = "running",
           att' = [att EXCEPT ![t][task[t].n].state = s],
           op' = op
    PROVE  /\ task[t].n \in AttemptNos
           /\ att'[t][task[t].n].state = s
           /\ \A u \in Tasks, j \in AttemptNos :
                /\ att'[u][j].supp = att[u][j].supp
                /\ u # t \/ j # task[t].n => att'[u][j] = att[u][j]
<1>1. att \in [Tasks -> [AttemptNos -> AttemptRecords]] /\ task[t].n \in AttemptNos
  BY TypesAsRecords DEF IInv, Linked
<1> DEFINE a == [att[t][task[t].n] EXCEPT !.state = s]
<1>2. att[t][task[t].n] \in AttemptRecords
  BY <1>1
<1>3. a.state = s /\ a.supp = att[t][task[t].n].supp
  BY <1>2 DEF AttemptRecords
<1>4. att' = [att EXCEPT ![t] = [att[t] EXCEPT ![task[t].n] = a]]
  OBVIOUS
<1> HIDE DEF a
<1>5. QED
  BY <1>1, <1>3, <1>4

(* An attempt that ends leaves its repair to be asked for again, if it was *)
(* lost and may be repeated.                                               *)
LEMMA EndKeepsRepairInv ==
    ASSUME IInv, RepairInv, NEW t \in Tasks, NEW s \in {"ended", "interrupted"},
           task[t].state = "running",
           att' = [att EXCEPT ![t][task[t].n].state = s], op' = op,
           \A u \in Tasks \ {t} : task'[u] = task[u],
           task'[t].n = task[t].n,
           task'[t].state \in {"retry_pending", "postprocessing"},
           \/ s = "ended" /\ task'[t].pending = task[t].pending
           \/ /\ task'[t].pending = att[t][task[t].n].supp
              /\ task'[t].state = "retry_pending"
           \/ /\ task'[t].pending = task[t].pending
              /\ task'[t].state = "postprocessing" /\ task'[t].forced
    PROVE  RepairInv'
<1> DEFINE n == task[t].n
           supp == att[t][n].supp
<1>1. /\ n \in AttemptNos /\ att'[t][n].state = s
      /\ \A u \in Tasks, j \in AttemptNos :
           /\ att'[u][j].supp = att[u][j].supp
           /\ u # t \/ j # n => att'[u][j] = att[u][j]
  BY OtherAttemptsStay
<1>2. /\ \A u \in Tasks, j \in AttemptNos :
           Sound(att[u][j].supp) /\ WarrantedOf(op, u, att[u][j].supp)
      /\ \A u \in Tasks : /\ WarrantedOf(op, u, task[u].pending)
                          /\ NewestOf(op, task[u].pending)
                          /\ task'[u].n = task[u].n /\ task[u].n \in 0..MaxAttempts
      /\ NewestOf(op, supp)
  BY DEF IInv, TypeOK, Linked, RepairInv, Warrants, NewestAsked
<1>3. task'[t].pending \in {task[t].pending, supp}
  OBVIOUS
<1>4. Warrants'
  <2>1. \A u \in Tasks : WarrantedOf(op, u, task'[u].pending)
    BY <1>1, <1>2, <1>3
  <2>2. \A u \in Tasks, j \in AttemptNos : WarrantedOf(op, u, att'[u][j].supp)
    BY <1>1, <1>2
  <2>3. QED
    BY <2>1, <2>2 DEF Warrants
<1>5. Chains' /\ RequestsGrow'
  BY DEF RepairInv, Chains, RequestsGrow
<1>6. NewestAsked'
  <2>1. \A u \in Tasks : NewestOf(op, task'[u].pending)
    BY <1>2, <1>3
  <2>2. ASSUME NEW u \in Tasks, task'[u].state = "running"
        PROVE  NewestOf(op, att'[u][task'[u].n].supp)
    <3>1. u # t /\ task'[u] = task[u] /\ task[u].state = "running"
      BY <2>2
    <3>2. task[u].n \in AttemptNos
      BY <3>1 DEF IInv, Linked
    <3>3. NewestOf(op, att[u][task[u].n].supp)
      BY <3>1 DEF RepairInv, NewestAsked
    <3>4. QED
      BY <1>1, <3>1, <3>2, <3>3
  <2>3. QED
    BY <2>1, <2>2 DEF NewestAsked
<1>7. /\ OnlyUsedFacts(op) /\ Extends(op, op)
      /\ \A o \in Ops : op[o].repair => op[o].state # "unused"
  BY ExtendsItself, ChainFacts DEF RepairInv
<1>8. Waits'
  <2>1. ASSUME NEW u \in Tasks
        PROVE  StillAskedOf(op, att'[u], task'[u], u)
    <3>1. CASE u = t
      <4>1. CASE s = "ended"
        BY <1>1, <3>1, <4>1 DEF StillAskedOf
      <4>2. CASE task'[t].pending = supp /\ task'[t].state = "retry_pending"
        BY <1>1, <3>1, <4>2, SMTT(40) DEF StillAskedOf, LaunchStates
      <4>3. CASE task'[t].state = "postprocessing" /\ task'[t].forced
        BY <1>1, <3>1, <4>3 DEF StillAskedOf, LaunchStates
      <4>4. QED
        BY <4>1, <4>2, <4>3
    <3>2. CASE u # t
      <4>1. task'[u] = task[u] /\ \A j \in AttemptNos : att'[u][j] = att[u][j]
        BY <1>1, <3>2
      <4>2. StillAskedOf(op, att[u], task[u], u) /\ task[u].n \in 0..MaxAttempts
            /\ \A j \in AttemptNos : Sound(att[u][j].supp)
                                     /\ WarrantedOf(op, u, att[u][j].supp)
        BY <1>2 DEF RepairInv, Waits
      <4>3. task[u].n > 0 => task[u].n \in AttemptNos
        BY <4>2, ConstantsAssumption DEF AttemptNos
      <4>4. StillAskedOf(op, att'[u], task[u], u)
        BY <1>7, <4>1, <4>2, <4>3, StillAskedStays
      <4>5. QED
        BY <4>1, <4>4
    <3>3. QED
      BY <3>1, <3>2
  <2>2. \A u \in Tasks : task'[u].state \in {"none", "launching"} => task'[u].n = 0
    BY DEF RepairInv, Waits
  <2>3. QED
    BY <2>1, <2>2 DEF Waits
<1>9. Survives'
  <2>1. SUFFICES ASSUME NEW u \in Tasks, NEW k \in AttemptNos, k < task[u].n
                 PROVE  SurvivesOf(op, att'[u], u, k)
    BY <1>2 DEF Survives
  <2>2. \A j \in 1..(k + 1) : j \in AttemptNos
    BY <1>2, <2>1, ConstantsAssumption DEF AttemptNos
  <2>3. /\ \A j \in 1..(k + 1) : att'[u][j].supp = att[u][j].supp
        /\ att'[u][k] = att[u][k]
    BY <1>1, <2>1, <2>2, ConstantsAssumption DEF AttemptNos
  <2>4. SurvivesOf(op, att[u], u, k)
    BY <2>1 DEF RepairInv, Survives
  <2>5. Sound(att[u][k].supp) /\ WarrantedOf(op, u, att[u][k].supp)
    BY <1>2
  <2> DEFINE as == att[u]
             bs == att'[u]
  <2>6. /\ \A j \in 1..(k + 1) : bs[j].supp = as[j].supp
        /\ bs[k].state = "interrupted" => as[k].state = "interrupted"
        /\ SurvivesOf(op, as, u, k)
        /\ Sound(as[k].supp) /\ WarrantedOf(op, u, as[k].supp)
    BY <2>3, <2>4, <2>5
  <2> HIDE DEF as, bs
  <2>7. SurvivesOf(op, bs, u, k)
    BY <1>7, <2>6, SurvivesStays
  <2>8. QED
    BY <2>7 DEF bs
<1>10. QED
  BY <1>4, <1>5, <1>6, <1>8, <1>9 DEF RepairInv

LEMMA EndingsKeepRepairInv ==
    ASSUME IInv, RepairInv, NEW t \in Tasks,
           AttemptFails(t) \/ \E evidence \in SUBSET Ops : EndNormally(t, evidence)
    PROVE  RepairInv'
<1>1. task \in [Tasks -> TaskRecords] /\ task[t] \in TaskRecords
  BY TypesAsRecords DEF IInv
<1>2. CASE AttemptFails(t)
  <2> DEFINE tk == Interrupted(task[t], LastAttempt(t).supp)
  <2>1. /\ tk.n = task[t].n /\ tk.state \in {"retry_pending", "postprocessing"}
        /\ \/ tk.pending = LastAttempt(t).supp /\ tk.state = "retry_pending"
           \/ tk.pending = task[t].pending /\ tk.state = "postprocessing" /\ tk.forced
    <3> DEFINE s == LastAttempt(t).supp
    <3> HIDE DEF s
    <3>1. CASE task[t].retries < RetryLimit
      <4>1. tk = [task[t] EXCEPT !.state = "retry_pending", !.reserved = FALSE,
                                 !.retries = @ + 1, !.pending = s]
        BY <3>1 DEF Interrupted, InfrastructureRetry, s
      <4> HIDE DEF tk
      <4>2. tk.n = task[t].n /\ tk.state = "retry_pending" /\ tk.pending = s
        BY <1>1, <4>1 DEF TaskRecords
      <4>3. QED
        BY <4>2 DEF s
    <3>2. CASE ~(task[t].retries < RetryLimit)
      <4>1. tk = [task[t] EXCEPT !.state = "postprocessing", !.reserved = FALSE,
                                 !.forced = TRUE]
        BY <3>2 DEF Interrupted
      <4> HIDE DEF tk
      <4>2. QED
        BY <1>1, <4>1 DEF TaskRecords
    <3>3. QED
      BY <3>1, <3>2
  <2> HIDE DEF tk
  <2>2. /\ task[t].state = "running" /\ op' = op
        /\ task' = [task EXCEPT ![t] = tk]
        /\ att' = [att EXCEPT ![t][task[t].n].state = "interrupted"]
    BY <1>2 DEF AttemptFails, tk
  <2>3. task'[t] = tk /\ \A u \in Tasks \ {t} : task'[u] = task[u]
    BY <1>1, <2>2
  <2>4. QED
    BY <2>1, <2>2, <2>3, EndKeepsRepairInv DEF LastAttempt
<1>3. ASSUME NEW evidence \in SUBSET Ops, EndNormally(t, evidence)
      PROVE  RepairInv'
  <2> DEFINE tk == [task[t] EXCEPT !.state = "postprocessing", !.reserved = FALSE,
                                   !.outcome = "normal", !.evidence = evidence]
  <2>1. /\ tk.n = task[t].n /\ tk.state = "postprocessing"
        /\ tk.pending = task[t].pending
    BY <1>1 DEF TaskRecords
  <2>2. /\ task[t].state = "running" /\ op' = op
        /\ task' = [task EXCEPT ![t] = tk]
        /\ att' = [att EXCEPT ![t][task[t].n].state = "ended"]
    BY <1>3, Zenon DEF EndNormally
  <2> HIDE DEF tk
  <2>3. task'[t] = tk /\ \A u \in Tasks \ {t} : task'[u] = task[u]
    BY <1>1, <2>2
  <2>4. QED
    BY <2>1, <2>2, <2>3, EndKeepsRepairInv
<1>4. QED
  BY <1>2, <1>3

(* A Fact that is received behind a repair of its chain answers the newest *)
(* one, and counts one request more.                                       *)
LEMMA IngestKeepsRepairInv ==
    ASSUME IInv, RepairInv, NEW t \in Tasks, NEW o \in Ops, NEW kind \in Kinds,
           Ingest(t, o, kind)
    PROVE  RepairInv'
<1> DEFINE s == att[t][task[t].n].supp
           answers == kind = "fact" /\ s.kind \in Revisions
<1>1. /\ task[t].state = "running" /\ task[t].n \in AttemptNos
      /\ op[o].state = "unused" /\ (\A p \in 1..(o - 1) : op[p].state # "unused")
      /\ task' = task /\ att' = att
      /\ op \in [Ops -> OpRecords]
  BY TypesAsRecords DEF Ingest, IInv, Linked
<1> DEFINE chain == IF answers THEN op[s.cause].chain ELSE o
           request == IF answers THEN op[s.cause].request + 1 ELSE 0
           rec == [state |-> "received", task |-> t, attempt |-> task[t].n,
                   kind |-> kind, chain |-> chain, request |-> request,
                   review |-> "none", repair |-> FALSE, refuted |-> FALSE]
<1>2. op' = [op EXCEPT ![o] = rec]
  BY Zenon DEF Ingest, LastAttempt
<1>3. op'[o] = rec /\ \A p \in Ops \ {o} : op'[p] = op[p]
  BY <1>1, <1>2
<1>4. /\ op'[o].state = "received" /\ op'[o].task = t /\ op'[o].kind = kind
      /\ op'[o].review = "none" /\ ~op'[o].repair
      /\ answers => /\ op'[o].chain = op[s.cause].chain
                    /\ op'[o].request = op[s.cause].request + 1
      /\ ~answers => op'[o].chain = o /\ op'[o].request = 0
  <2>1. /\ answers => chain = op[s.cause].chain /\ request = op[s.cause].request + 1
        /\ ~answers => chain = o /\ request = 0
    <3> HIDE DEF answers, s
    <3>1. QED
      OBVIOUS
  <2> HIDE DEF chain, request, answers, s
  <2>2. /\ rec.state = "received" /\ rec.task = t /\ rec.kind = kind
        /\ rec.review = "none" /\ ~rec.repair
        /\ rec.chain = chain /\ rec.request = request
    OBVIOUS
  <2> HIDE DEF rec
  <2>3. QED
    BY <1>3, <2>1, <2>2
<1> HIDE DEF rec, chain, request
<1>5. /\ Chains /\ Warrants /\ OnlyUsedFacts(op)
      /\ \A p \in Ops : op[p].repair => op[p].state # "unused"
  BY ChainFacts DEF RepairInv
<1>6. Extends(op, op')
  BY <1>1, <1>3 DEF Extends
<1>7. Sound(s) /\ WarrantedOf(op, t, s) /\ NewestOf(op, s)
  BY <1>1, <1>5 DEF IInv, Linked, Warrants, RepairInv, NewestAsked
<1>8. ASSUME answers
      PROVE  /\ s.cause \in Ops /\ op[s.cause].repair /\ op[s.cause].task = t
             /\ op[s.cause].request < RevisionLimit
             /\ op[s.cause].state # "unused" /\ s.cause < o
  <2>0. s.kind \in Revisions
    BY <1>8
  <2> DEFINE c == s.cause
  <2> HIDE DEF s
  <2>1. /\ s.cause \in Ops /\ op[s.cause].repair /\ op[s.cause].task = t
        /\ op[s.cause].request < RevisionLimit
    BY <1>7, <2>0 DEF Sound, WarrantedOf, Repairs, Revisions
  <2>2. op[s.cause].state # "unused"
    BY <1>5, <2>1
  <2>3. \A p \in 1..(c - 1) : op[p].state # "unused"
    BY <1>5, <2>1, <2>2 DEF Chains
  <2>4. o \notin 1..(c - 1) /\ o # c
    BY <1>1, <2>2, <2>3
  <2>5. c \in Ops
    BY <2>1
  <2> HIDE DEF c
  <2>6. c < o
    BY <2>4, <2>5, ConstantsAssumption DEF Ops
  <2>7. QED
    BY <2>1, <2>2, <2>6 DEF c
<1>0. \A r : NewestOf(op, r) /\ r.kind \in Revisions =>
                \A a \in Ops : op[a].repair /\ op[a].chain = op[r.cause].chain
                                 => a <= r.cause
  BY DEF NewestOf, Repairs, Revisions
<1> HIDE DEF s
<1>9. Warrants'
  <2>1. \A u \in Tasks : WarrantedOf(op', u, task[u].pending)
    BY <1>5, <1>6, WarrantStays DEF Warrants, IInv, Linked
  <2>2. \A u \in Tasks, j \in AttemptNos : WarrantedOf(op', u, att[u][j].supp)
    BY <1>5, <1>6, WarrantStays DEF Warrants, IInv, Linked
  <2>3. QED
    BY <1>1, <2>1, <2>2 DEF Warrants
<1>10. Chains'
  <2>1. ASSUME NEW p \in Ops, p # o
        PROVE  /\ VerifiesFact(op'[p])
               /\ op'[p].repair => op'[p].state = "rejected" /\ op'[p].kind = "fact"
               /\ op'[p].state = "unused" => op'[p].kind = "none"
               /\ op'[p].state # "unused" =>
                    /\ \A q \in 1..(p - 1) : op'[q].state # "unused"
                    /\ op'[p].chain \in 1..p
                    /\ op'[op'[p].chain].task = op'[p].task
                    /\ op'[p].request \in 0..RevisionLimit
    <3>1. op'[p] = op[p]
      BY <1>3, <2>1
    <3>2. ASSUME op[p].state # "unused"
          PROVE  /\ \A q \in 1..(p - 1) : op'[q].state # "unused"
                 /\ op'[op[p].chain].task = op[p].task
      <4>1. \A q \in 1..p : q \in Ops /\ op[q].state # "unused"
        BY <1>5, <3>2, ConstantsAssumption DEF Chains, Ops
      <4>2. \A q \in 1..p : op'[q] = op[q]
        BY <1>1, <1>3, <4>1
      <4>3. \A q \in 1..(p - 1) : q \in 1..p
        BY ConstantsAssumption DEF Ops
      <4>4. op[p].chain \in 1..p /\ op[op[p].chain].task = op[p].task
        BY <1>5, <3>2 DEF Chains
      <4>5. QED
        BY <4>1, <4>2, <4>3, <4>4
    <3>3. QED
      BY <1>5, <3>1, <3>2 DEF Chains
  <2>2. \A q \in 1..(o - 1) : op'[q].state # "unused"
    <3>1. \A q \in 1..(o - 1) : q \in Ops /\ q # o
      BY ConstantsAssumption DEF Ops
    <3>2. QED
      BY <1>1, <1>3, <3>1
  <2>3. /\ op'[o].chain \in 1..o
        /\ op'[op'[o].chain].task = op'[o].task
        /\ op'[o].request \in 0..RevisionLimit
    <3>1. CASE answers
      <4> DEFINE c == s.cause
      <4>1. /\ c \in Ops /\ op[c].state # "unused" /\ op[c].task = t /\ c < o
            /\ op[c].request < RevisionLimit
        BY <1>8, <3>1
      <4>2. /\ op[c].chain \in 1..c /\ op[op[c].chain].task = t
            /\ op[c].request \in 0..RevisionLimit
        BY <1>5, <4>1 DEF Chains
      <4>3. op'[o].chain = op[c].chain /\ op'[o].request = op[c].request + 1
        BY <1>4, <3>1
      <4> HIDE DEF c
      <4>4. op[c].chain \in 1..o /\ op[c].chain \in Ops /\ op[c].chain # o
        BY <4>1, <4>2, ConstantsAssumption DEF Ops
      <4>5. op'[op[c].chain].task = t
        BY <1>3, <4>2, <4>4
      <4>6. op[c].request + 1 \in 0..RevisionLimit
        BY <4>1, <4>2, ConstantsAssumption
      <4>7. QED
        BY <1>4, <4>3, <4>4, <4>5, <4>6
    <3>2. CASE ~answers
      <4>1. op'[o].chain = o /\ op'[o].request = 0
        BY <1>4, <3>2
      <4>2. o \in 1..o /\ 0 \in 0..RevisionLimit
        BY ConstantsAssumption DEF Ops
      <4>3. QED
        BY <4>1, <4>2
    <3>3. QED
      BY <3>1, <3>2
  <2>4. VerifiesFact(op'[o])
    BY <1>4 DEF VerifiesFact
  <2>5. QED
    BY <1>4, <2>1, <2>2, <2>3, <2>4 DEF Chains
<1>11. RequestsGrow'
  <2>1. SUFFICES ASSUME NEW a \in Ops, NEW p \in Ops, op'[a].repair, p > a,
                        p \in Chain(op', op'[a].chain)
                 PROVE  op'[p].request > op'[a].request
    BY DEF RequestsGrow
  <2>2. a # o /\ op'[a] = op[a] /\ op[a].repair
    BY <1>3, <1>4, <2>1
  <2>3. op'[p].kind = "fact" /\ op'[p].chain = op[a].chain
        /\ op'[p].state \notin {"unused", "abandoned"}
    BY <2>1, <2>2 DEF Chain
  <2>4. CASE p # o
    <3>1. op'[p] = op[p] /\ p \in Chain(op, op[a].chain)
      BY <1>3, <2>3, <2>4 DEF Chain
    <3>2. QED
      BY <2>1, <2>2, <3>1 DEF RepairInv, RequestsGrow
  <2>5. CASE p = o /\ answers
    <3> DEFINE c == s.cause
    <3>1. /\ c \in Ops /\ op[c].repair /\ op[a].chain = op[c].chain
          /\ op'[p].request = op[c].request + 1
      BY <1>4, <1>8, <2>3, <2>5
    <3>2. /\ op[c].state = "rejected" /\ op[c].kind = "fact"
          /\ op[c].request \in 0..RevisionLimit
          /\ op[a].request \in 0..RevisionLimit
      BY <1>5, <2>2, <3>1 DEF Chains
    <3>3. a <= c
      BY <1>0, <1>7, <2>2, <2>5, <3>1
    <3> HIDE DEF c
    <3>4. CASE a = c
      BY <2>2, <3>1, <3>2, <3>4, ConstantsAssumption
    <3>5. CASE a # c
      <4>1. c > a
        BY <3>1, <3>3, <3>5, ConstantsAssumption DEF Ops
      <4>2. c \in Chain(op, op[a].chain)
        BY <3>1, <3>2 DEF Chain
      <4>3. op[c].request > op[a].request
        BY <2>2, <3>1, <4>1, <4>2 DEF RepairInv, RequestsGrow
      <4>4. QED
        BY <2>2, <3>1, <3>2, <4>3, ConstantsAssumption
    <3>6. QED
      BY <3>4, <3>5
  <2>6. CASE p = o /\ ~answers
    <3>1. op[a].chain = o
      BY <1>4, <2>3, <2>6
    <3>2. op[a].chain \in 1..a
      BY <1>5, <2>2 DEF Chains
    <3>3. QED
      BY <2>1, <2>6, <3>1, <3>2, ConstantsAssumption DEF Ops
  <2>7. QED
    BY <2>4, <2>5, <2>6
<1>12. NewestAsked'
  <2>1. ASSUME NEW u \in Tasks, NEW r, Sound(r), WarrantedOf(op, u, r), NewestOf(op, r)
        PROVE  NewestOf(op', r)
    <3>1. SUFFICES ASSUME r.kind \in Repairs, NEW a \in Ops, op'[a].repair,
                          op'[a].chain = op'[r.cause].chain
                   PROVE  a <= r.cause
      BY DEF NewestOf
    <3>2. r.cause \in Ops /\ op[r.cause].repair
      BY <2>1, <3>1 DEF Sound, WarrantedOf
    <3>3. op'[r.cause] = op[r.cause] /\ op'[a] = op[a]
      BY <1>1, <1>3, <1>4, <1>5, <3>1, <3>2
    <3>4. QED
      BY <2>1, <3>1, <3>3 DEF NewestOf
  <2>2. \A u \in Tasks :
           /\ Sound(task[u].pending) /\ WarrantedOf(op, u, task[u].pending)
           /\ NewestOf(op, task[u].pending)
    BY <1>5 DEF IInv, Linked, Warrants, RepairInv, NewestAsked
  <2>3. \A u \in Tasks : task[u].state = "running" =>
           /\ Sound(att[u][task[u].n].supp)
           /\ WarrantedOf(op, u, att[u][task[u].n].supp)
           /\ NewestOf(op, att[u][task[u].n].supp)
    BY <1>5 DEF IInv, Linked, Warrants, RepairInv, NewestAsked
  <2>4. /\ \A u \in Tasks : NewestOf(op', task[u].pending)
        /\ \A u \in Tasks : task[u].state = "running" =>
              NewestOf(op', att[u][task[u].n].supp)
    BY <2>1, <2>2, <2>3
  <2>5. QED
    BY <1>1, <2>4 DEF NewestAsked
<1>13. \A u \in Tasks, j \in AttemptNos :
           Sound(att[u][j].supp) /\ WarrantedOf(op, u, att[u][j].supp)
  BY <1>5 DEF IInv, Linked, Warrants
<1>14. Waits'
  <2>1. ASSUME NEW u \in Tasks
        PROVE  StillAskedOf(op', att[u], task[u], u)
    <3>1. StillAskedOf(op, att[u], task[u], u) /\ task[u].n \in 0..MaxAttempts
      BY DEF RepairInv, Waits, IInv, TypeOK
    <3>2. QED
      BY <1>5, <1>6, <1>13, <3>1, StillAskedStays
  <2>2. QED
    BY <1>1, <2>1 DEF RepairInv, Waits
<1>15. Survives'
  <2>1. SUFFICES ASSUME NEW u \in Tasks, NEW k \in AttemptNos, k < task[u].n
                 PROVE  SurvivesOf(op', att[u], u, k)
    BY <1>1 DEF Survives
  <2>2. SurvivesOf(op, att[u], u, k)
    BY <2>1 DEF RepairInv, Survives
  <2>3. QED
    BY <1>5, <1>6, <1>13, <2>2, SurvivesStays
<1>16. QED
  BY <1>9, <1>10, <1>11, <1>12, <1>14, <1>15 DEF RepairInv

(* Recovery asks again for the repair that a lost attempt was to answer,   *)
(* unless it is superfluous or the task has no retry left.                 *)
LEMMA ReconcileKeepsRepairInv ==
    ASSUME IInv, RepairInv, Reconcile
    PROVE  RepairInv'
<1>1. op' = op /\ task \in [Tasks -> TaskRecords]
  BY TypesAsRecords DEF Reconcile, IInv
<1>2. Nothing.kind \notin Repairs /\ Nothing.cause = 0
  BY DEF Nothing, Repairs, Revisions
<1>3. \A t \in Tasks, k \in AttemptNos :
         /\ att'[t][k].supp = att[t][k].supp
         /\ att[t][k].state # "running" => att'[t][k].state = att[t][k].state
  <2>1. SUFFICES ASSUME NEW t \in Tasks, NEW k \in AttemptNos
                 PROVE  /\ att'[t][k].supp = att[t][k].supp
                        /\ att[t][k].state # "running" =>
                             att'[t][k].state = att[t][k].state
    OBVIOUS
  <2>2. att'[t] = Fenced(att[t])
    BY DEF Reconcile
  <2>3. att'[t][k] = IF att[t][k].state = "running"
                     THEN [att[t][k] EXCEPT !.state = "interrupted"]
                     ELSE att[t][k]
    BY <2>2 DEF Fenced
  <2>4. att[t][k] \in AttemptRecords
    BY TypesAsRecords DEF IInv
  <2>5. QED
    BY <2>3, <2>4 DEF AttemptRecords
<1>4. /\ Chains /\ Warrants /\ OnlyUsedFacts(op) /\ Extends(op, op)
      /\ \A p \in Ops : op[p].repair => op[p].state # "unused"
      /\ \A u \in Tasks, j \in AttemptNos :
           Sound(att[u][j].supp) /\ WarrantedOf(op, u, att[u][j].supp)
  BY ChainFacts, ExtendsItself DEF RepairInv, IInv, Linked, Warrants
(* What recovery makes of one task.                                        *)
<1>5. ASSUME NEW t \in Tasks
      PROVE  \E tk \in TaskRecords :
               /\ \/ tk = task[t] /\ task[t].state \notin {"launching", "running"}
                  \/ /\ task[t].state \in {"launching", "running"}
                     /\ tk.n = task[t].n
                     /\ \/ /\ tk.state = "retry_pending"
                           /\ task[t].n = 0 => tk.pending = Nothing
                           /\ task[t].n # 0 => tk.pending = att[t][task[t].n].supp
                        \/ /\ tk.state = "postprocessing" /\ tk.forced
                           /\ tk.pending = task[t].pending
               /\ task'[t].n = tk.n /\ task'[t].forced = tk.forced
               /\ \/ /\ ~Stale(op, tk.pending, TRUE)
                     /\ task'[t].pending = tk.pending /\ task'[t].state = tk.state
                  \/ /\ Stale(op, tk.pending, TRUE) /\ task'[t].pending = Nothing
                     /\ \/ task'[t].state = "postprocessing"
                        \/ /\ task'[t].state = tk.state
                           /\ tk.state \notin {"revision_pending", "retry_pending"}
  <2> DEFINE tk == Reconciled(task[t], att[t])
  <2>1. /\ tk \in TaskRecords
        /\ \/ tk = task[t] /\ task[t].state \notin {"launching", "running"}
           \/ /\ task[t].state \in {"launching", "running"}
              /\ tk.n = task[t].n
              /\ \/ /\ tk.state = "retry_pending"
                    /\ task[t].n = 0 => tk.pending = Nothing
                    /\ task[t].n # 0 => tk.pending = att[t][task[t].n].supp
                 \/ /\ tk.state = "postprocessing" /\ tk.forced
                    /\ tk.pending = task[t].pending
    <3>0. /\ task[t] \in TaskRecords /\ att[t] \in [AttemptNos -> AttemptRecords]
          /\ Sound(task[t].pending) /\ (\A k \in AttemptNos : Sound(att[t][k].supp))
          /\ task[t].state = "running" => task[t].n \in AttemptNos
      BY TypesAsRecords DEF IInv, Linked
    <3>1. tk \in TaskRecords
      BY <3>0, ReconciledTypes, Zenon
    <3>2. CASE task[t].state \notin {"launching", "running"}
      BY <3>1, <3>2 DEF Reconciled
    <3>3. CASE task[t].state \in {"launching", "running"} /\ task[t].retries < RetryLimit
      <4> DEFINE s == IF task[t].n = 0 THEN Nothing ELSE att[t][task[t].n].supp
      <4>1. tk = [task[t] EXCEPT !.state = "retry_pending", !.retries = @ + 1,
                                 !.pending = s]
        BY <3>3 DEF Reconciled, InfrastructureRetry
      <4>2. /\ task[t].n = 0 => s = Nothing
            /\ task[t].n # 0 => s = att[t][task[t].n].supp
        OBVIOUS
      <4> HIDE DEF s, tk
      <4>3. tk.n = task[t].n /\ tk.state = "retry_pending" /\ tk.pending = s
        BY <3>0, <4>1 DEF TaskRecords
      <4>4. QED
        BY <3>1, <3>3, <4>2, <4>3
    <3>4. CASE task[t].state \in {"launching", "running"} /\ ~(task[t].retries < RetryLimit)
      <4>1. tk = [task[t] EXCEPT !.state = "postprocessing", !.reserved = FALSE,
                                 !.forced = TRUE]
        BY <3>4 DEF Reconciled
      <4> HIDE DEF tk
      <4>2. /\ tk.n = task[t].n /\ tk.state = "postprocessing" /\ tk.forced
            /\ tk.pending = task[t].pending
        BY <3>0, <4>1 DEF TaskRecords
      <4>3. QED
        BY <3>1, <3>4, <4>2
    <3>5. QED
      BY <3>2, <3>3, <3>4
  <2> DEFINE tasks == [u \in Tasks |-> Reconciled(task[u], att[u])]
  <2>2. task' = WithoutStale(tasks, op, TRUE) /\ tasks[t] = tk
    BY DEF Reconcile
  <2> HIDE DEF tasks, tk
  <2>3. task'[t] = IF ~Stale(op, tk.pending, TRUE) THEN tk
                   ELSE IF tk.state \in {"revision_pending", "retry_pending"}
                   THEN [tk EXCEPT !.pending = Nothing, !.reserved = FALSE,
                                   !.state = "postprocessing"]
                   ELSE [tk EXCEPT !.pending = Nothing]
    BY <2>2, Zenon DEF WithoutStale
  <2>4. /\ task'[t].n = tk.n /\ task'[t].forced = tk.forced
        /\ \/ /\ ~Stale(op, tk.pending, TRUE)
              /\ task'[t].pending = tk.pending /\ task'[t].state = tk.state
           \/ /\ Stale(op, tk.pending, TRUE) /\ task'[t].pending = Nothing
              /\ \/ task'[t].state = "postprocessing"
                 \/ /\ task'[t].state = tk.state
                    /\ tk.state \notin {"revision_pending", "retry_pending"}
    <3>1. CASE ~Stale(op, tk.pending, TRUE)
      BY <2>3, <3>1
    <3>2. CASE /\ Stale(op, tk.pending, TRUE)
               /\ tk.state \in {"revision_pending", "retry_pending"}
      <4>1. task'[t] = [tk EXCEPT !.pending = Nothing, !.reserved = FALSE,
                                  !.state = "postprocessing"]
        BY <2>3, <3>2
      <4>2. QED
        BY <2>1, <3>2, <4>1 DEF TaskRecords
    <3>3. CASE /\ Stale(op, tk.pending, TRUE)
               /\ tk.state \notin {"revision_pending", "retry_pending"}
      <4>1. task'[t] = [tk EXCEPT !.pending = Nothing]
        BY <2>3, <3>3
      <4>2. QED
        BY <2>1, <3>3, <4>1 DEF TaskRecords
    <3>4. QED
      BY <3>1, <3>2, <3>3
  <2>5. QED
    BY <2>1, <2>4
<1>6. ASSUME NEW t \in Tasks
      PROVE  /\ task'[t].n = task[t].n /\ task[t].n \in 0..MaxAttempts
             /\ task'[t].state # "running"
             /\ task'[t].state \in {"none", "launching"} => task'[t].n = 0
             /\ \/ task'[t].pending \in {task[t].pending, Nothing}
                \/ /\ task[t].state = "running" /\ task[t].n \in AttemptNos
                   /\ task'[t].pending = att[t][task[t].n].supp
  <2>1. /\ task[t].n \in 0..MaxAttempts
        /\ task[t].state \in {"none", "launching"} => task[t].n = 0
        /\ task[t].state = "running" => task[t].n \in AttemptNos
    BY DEF IInv, TypeOK, RepairInv, Waits, Linked
  <2>2. PICK tk \in TaskRecords :
               /\ \/ tk = task[t] /\ task[t].state \notin {"launching", "running"}
                  \/ /\ task[t].state \in {"launching", "running"}
                     /\ tk.n = task[t].n
                     /\ \/ /\ tk.state = "retry_pending"
                           /\ task[t].n = 0 => tk.pending = Nothing
                           /\ task[t].n # 0 => tk.pending = att[t][task[t].n].supp
                        \/ /\ tk.state = "postprocessing" /\ tk.forced
                           /\ tk.pending = task[t].pending
               /\ task'[t].n = tk.n /\ task'[t].forced = tk.forced
               /\ \/ /\ ~Stale(op, tk.pending, TRUE)
                     /\ task'[t].pending = tk.pending /\ task'[t].state = tk.state
                  \/ /\ Stale(op, tk.pending, TRUE) /\ task'[t].pending = Nothing
                     /\ \/ task'[t].state = "postprocessing"
                        \/ /\ task'[t].state = tk.state
                           /\ tk.state \notin {"revision_pending", "retry_pending"}
    BY <1>5
  <2>3. tk.n = task[t].n /\ task'[t].pending \in {tk.pending, Nothing}
    BY <2>2
  <2>4. /\ tk.state # "running" /\ tk.state # "launching"
        /\ tk.state = "none" => task[t].state = "none"
    BY <2>2
  <2>5. \/ tk.pending \in {task[t].pending, Nothing}
        \/ /\ task[t].state = "running"
           /\ tk.pending = att[t][task[t].n].supp
    <3>1. CASE task[t].state = "launching"
      BY <2>1, <2>2, <3>1
    <3>2. CASE task[t].state = "running"
      <4>1. task[t].n # 0
        BY <2>1, <3>2, ConstantsAssumption DEF AttemptNos
      <4>2. QED
        BY <2>2, <3>2, <4>1
    <3>3. CASE task[t].state \notin {"launching", "running"}
      BY <2>2, <3>3
    <3>4. QED
      BY <3>1, <3>2, <3>3
  <2>6. task'[t].state \in {tk.state, "postprocessing"} /\ task'[t].n = tk.n
    BY <2>2
  <2>7. QED
    BY <2>1, <2>3, <2>4, <2>5, <2>6
<1>7. Warrants'
  <2>1. ASSUME NEW t \in Tasks
        PROVE  WarrantedOf(op, t, task'[t].pending)
    <3>1. WarrantedOf(op, t, Nothing)
      BY <1>2 DEF WarrantedOf
    <3>2. QED
      BY <1>4, <1>6, <3>1 DEF Warrants
  <2>2. QED
    BY <1>1, <1>3, <1>4, <2>1 DEF Warrants
<1>8. Chains' /\ RequestsGrow'
  BY <1>1 DEF RepairInv, Chains, RequestsGrow
<1>9. NewestAsked'
  <2>1. ASSUME NEW t \in Tasks
        PROVE  NewestOf(op, task'[t].pending)
    <3>1. NewestOf(op, Nothing)
      BY <1>2 DEF NewestOf
    <3>2. QED
      BY <1>6, <3>1 DEF RepairInv, NewestAsked
  <2>2. QED
    BY <1>1, <1>6, <2>1 DEF NewestAsked
<1>10. Waits'
  <2>1. ASSUME NEW t \in Tasks
        PROVE  StillAskedOf(op, att'[t], task'[t], t)
    <3> DEFINE n == task[t].n
               s == att[t][n].supp
    <3>1. SUFFICES ASSUME n > 0, att'[t][n].state = "interrupted",
                          s.kind \in Revisions, n \in AttemptNos
                   PROVE  \/ SupersededOf(op, s.cause) \/ OvertakenOf(op, att[t], t, n)
                          \/ task'[t].forced /\ task'[t].state \notin LaunchStates
                          \/ /\ task'[t].state \in LaunchStates
                             /\ \/ task'[t].pending = s
                                \/ /\ task'[t].pending.kind \in Repairs
                                   /\ FreshOf(att[t], n, task'[t].pending.cause)
      <4>1. n > 0 => n \in AttemptNos /\ n \in Nat /\ \A j \in 1..n : j \in AttemptNos
        BY <1>6, ConstantsAssumption DEF AttemptNos
      <4>2. n > 0 => \A j \in 1..n : att'[t][j].supp = att[t][j].supp
        BY <1>3, <4>1
      <4>3. n > 0 => \A o : FreshOf(att'[t], n, o) <=> FreshOf(att[t], n, o)
        BY <4>2 DEF FreshOf
      <4>4. n > 0 /\ OvertakenOf(op, att[t], t, n) => OvertakenOf(op, att'[t], t, n)
        <5> HIDE DEF n
        <5>1. QED
          BY <1>4, <4>1, <4>2, OvertakenStays
      <4>5. n > 0 => att'[t][n].supp = s
        BY <1>3, <4>1
      <4>6. task'[t].n = n
        BY <1>6
      <4> HIDE DEF n, s
      <4>7. QED
        BY <4>1, <4>3, <4>4, <4>5, <4>6 DEF StillAskedOf
    <3>2. s.cause \in Ops /\ op[s.cause].repair
      BY <1>4, <3>1 DEF Sound, WarrantedOf, Repairs, Revisions
    <3>3. PICK tk \in TaskRecords :
               /\ \/ tk = task[t] /\ task[t].state \notin {"launching", "running"}
                  \/ /\ task[t].state \in {"launching", "running"}
                     /\ tk.n = task[t].n
                     /\ \/ /\ tk.state = "retry_pending"
                           /\ task[t].n = 0 => tk.pending = Nothing
                           /\ task[t].n # 0 => tk.pending = att[t][task[t].n].supp
                        \/ /\ tk.state = "postprocessing" /\ tk.forced
                           /\ tk.pending = task[t].pending
               /\ task'[t].n = tk.n /\ task'[t].forced = tk.forced
               /\ \/ /\ ~Stale(op, tk.pending, TRUE)
                     /\ task'[t].pending = tk.pending /\ task'[t].state = tk.state
                  \/ /\ Stale(op, tk.pending, TRUE) /\ task'[t].pending = Nothing
                     /\ \/ task'[t].state = "postprocessing"
                        \/ /\ task'[t].state = tk.state
                           /\ tk.state \notin {"revision_pending", "retry_pending"}
      BY <1>5
    <3>4. CASE task[t].state = "launching"
      BY <3>1, <3>4 DEF RepairInv, Waits
    <3>5. CASE task[t].state = "running"
      <4>1. CASE tk.state = "postprocessing" /\ tk.forced
        BY <3>3, <4>1 DEF LaunchStates
      <4>2. CASE tk.state = "retry_pending" /\ tk.pending = s
        <5>1. CASE Stale(op, s, TRUE)
          <6>1. s.kind # "fact_concession"
            BY <3>1 DEF Revisions
          <6> HIDE DEF s
          <6>2. QED
            BY <3>2, <5>1, <6>1, StaleSuperseded
        <5>2. CASE ~Stale(op, s, TRUE)
          BY <3>3, <4>2, <5>2 DEF LaunchStates
        <5>3. QED
          BY <5>1, <5>2
      <4>3. QED
        BY <3>1, <3>3, <3>5, <4>1, <4>2
    <3>6. CASE task[t].state \notin {"launching", "running"}
      <4>1. tk = task[t]
        BY <3>3, <3>6
      <4>2. att[t][n].state = "interrupted"
        BY <1>3, <3>1, <3>6 DEF IInv, OneRunningAttempt
      <4> DEFINE pending == task[t].pending
      <4>3. \/ SupersededOf(op, s.cause) \/ OvertakenOf(op, att[t], t, n)
            \/ task[t].forced /\ task[t].state \notin LaunchStates
            \/ /\ task[t].state \in LaunchStates
               /\ \/ pending = s
                  \/ pending.kind \in Repairs /\ FreshOf(att[t], n, pending.cause)
        BY <3>1, <4>2 DEF RepairInv, Waits, StillAskedOf
      <4>4. ASSUME Stale(op, pending, TRUE),
                   pending = s \/ FreshOf(att[t], n, pending.cause)
            PROVE  SupersededOf(op, s.cause) \/ OvertakenOf(op, att[t], t, n)
        <5>1. /\ pending.kind \in Repairs /\ pending.cause \in Ops
              /\ op[pending.cause].repair /\ op[pending.cause].task = t
              /\ op[pending.cause].state # "unused"
              /\ op[pending.cause].request \in 0..RevisionLimit
              /\ pending.kind \in Revisions <=>
                   op[pending.cause].request < RevisionLimit
          <6>1. Sound(pending) /\ WarrantedOf(op, t, pending)
            BY <1>4 DEF IInv, Linked, Warrants
          <6> HIDE DEF pending
          <6>2. pending.kind \in Repairs
            BY <4>4 DEF Stale
          <6>3. QED
            BY <1>4, <6>1, <6>2 DEF Sound, WarrantedOf, Chains
        <5>2. CASE pending.kind # "fact_concession"
          <6>1. SupersededOf(op, pending.cause)
            <7> HIDE DEF pending
            <7>1. QED
              BY <4>4, <5>1, <5>2, StaleSuperseded
          <6> HIDE DEF pending, s, n
          <6>2. QED
            BY <4>4, <5>1, <6>1 DEF OvertakenOf
        <5>3. CASE pending.kind = "fact_concession"
          <6>1. op[pending.cause].request = RevisionLimit
            BY <5>1, <5>3, ConstantsAssumption DEF Revisions
          <6>2. pending # s
            BY <3>1, <5>3 DEF Revisions
          <6> HIDE DEF pending, s, n
          <6>3. QED
            BY <4>4, <5>1, <6>1, <6>2 DEF OvertakenOf
        <5>4. QED
          BY <5>2, <5>3
      <4>5. CASE task[t].forced /\ task[t].state \notin LaunchStates
        BY <3>3, <4>1, <4>5 DEF LaunchStates
      <4>6. CASE /\ task[t].state \in LaunchStates
                 /\ pending = s \/ (pending.kind \in Repairs
                                    /\ FreshOf(att[t], n, pending.cause))
        <5>1. CASE Stale(op, pending, TRUE)
          BY <4>4, <4>6, <5>1
        <5>2. CASE ~Stale(op, pending, TRUE)
          <6>1. task'[t].pending = pending /\ task'[t].state = task[t].state
            BY <3>3, <4>1, <5>2
          <6> HIDE DEF s, n
          <6>2. QED
            BY <4>6, <6>1
        <5>3. QED
          BY <5>1, <5>2
      <4>7. QED
        BY <4>3, <4>5, <4>6
    <3>7. QED
      BY <3>4, <3>5, <3>6
  <2>2. QED
    BY <1>1, <1>6, <2>1 DEF Waits
<1>11. Survives'
  <2>1. SUFFICES ASSUME NEW u \in Tasks, NEW k \in AttemptNos, k < task[u].n
                 PROVE  SurvivesOf(op, att'[u], u, k)
    BY <1>1, <1>6 DEF Survives
  <2>2. \A j \in 1..(k + 1) : j \in AttemptNos
    BY <1>6, <2>1, ConstantsAssumption DEF AttemptNos
  <2>3. att[u][k].state # "running"
    BY <2>1, ConstantsAssumption DEF IInv, OneRunningAttempt, AttemptNos, TypeOK
  <2> DEFINE as == att[u]
             bs == att'[u]
  <2>4. /\ \A j \in 1..(k + 1) : bs[j].supp = as[j].supp
        /\ bs[k].state = "interrupted" => as[k].state = "interrupted"
        /\ SurvivesOf(op, as, u, k)
        /\ Sound(as[k].supp) /\ WarrantedOf(op, u, as[k].supp)
    BY <1>3, <1>4, <2>1, <2>2, <2>3 DEF RepairInv, Survives
  <2> HIDE DEF as, bs
  <2>5. SurvivesOf(op, bs, u, k)
    BY <1>4, <2>4, SurvivesStays
  <2>6. QED
    BY <2>5 DEF bs
<1>12. QED
  BY <1>7, <1>8, <1>9, <1>10, <1>11 DEF RepairInv


(* Nothing is asked before anything was submitted.                         *)
LEMMA RepairInit ==
    ASSUME Init
    PROVE  RepairInv
<1>1. /\ \A t \in Tasks : task[t] = NewTask
      /\ \A t \in Tasks, k \in AttemptNos : att[t][k] = NoAttempt
      /\ \A o \in Ops : op[o] = NewOp
  BY DEF Init
<1>2. /\ NewTask.state = "none" /\ NewTask.n = 0 /\ NewTask.pending = Nothing
      /\ NoAttempt.supp = Nothing
      /\ NewOp.state = "unused" /\ NewOp.kind = "none" /\ NewOp.review = "none"
      /\ ~NewOp.repair
      /\ Nothing.kind \notin Repairs /\ Nothing.cause = 0
  BY DEF NewTask, NoAttempt, NewOp, Nothing, Repairs, Revisions
<1>3. Warrants /\ NewestAsked
  BY <1>1, <1>2 DEF Warrants, WarrantedOf, NewestAsked, NewestOf
<1>4. Chains /\ RequestsGrow
  BY <1>1, <1>2 DEF Chains, VerifiesFact, RequestsGrow
<1>5. Waits
  BY <1>1, <1>2 DEF Waits, StillAskedOf
<1>6. Survives
  BY <1>1, <1>2, ConstantsAssumption DEF Survives, AttemptNos
<1>7. QED
  BY <1>3, <1>4, <1>5, <1>6 DEF RepairInv

LEMMA RepairInvariance == Spec => []RepairInv
<1>1. Init => RepairInv
  BY RepairInit
<1>2. ASSUME IInv, RepairInv, Next
      PROVE  RepairInv'
  <2>1. CASE Calm /\ KeepsRepairs
    BY <1>2, <2>1, CalmKeepsRepairInv
  <2>2. CASE Moves \/ \E ts \in SUBSET Tasks : Submit(ts)
    BY <1>2, <2>2, AssignmentsKeepRepairInv
  <2>3. CASE Reconcile
    BY <1>2, <2>3, ReconcileKeepsRepairInv
  <2>4. CASE \E t \in Tasks : StartAttempt(t)
    BY <1>2, <2>4, StartKeepsRepairInv
  <2>5. CASE \/ \E t \in Tasks : AttemptFails(t)
             \/ \E t \in Tasks, evidence \in SUBSET Ops : EndNormally(t, evidence)
    <3>1. \E t \in Tasks :
             AttemptFails(t) \/ \E evidence \in SUBSET Ops : EndNormally(t, evidence)
      BY <2>5
    <3>2. QED
      BY <1>2, <3>1, EndingsKeepRepairInv
  <2>6. CASE \E t \in Tasks, o \in Ops, kind \in Kinds : Ingest(t, o, kind)
    BY <1>2, <2>6, IngestKeepsRepairInv
  <2>7. Chains
    BY <1>2 DEF RepairInv
  <2>8. QED
    BY <1>2, <2>1, <2>2, <2>3, <2>4, <2>5, <2>6, <2>7, RepairSteps
<1>3. ASSUME RepairInv, UNCHANGED vars
      PROVE  RepairInv'
  <2>1. task' = task /\ att' = att /\ op' = op
    BY <1>3 DEF vars
  <2>2. QED
    BY <1>3, <2>1
       DEF RepairInv, Warrants, Chains, RequestsGrow, NewestAsked, Waits, Survives
<1>4. IInv /\ RepairInv /\ [Next]_vars => RepairInv'
  BY <1>2, <1>3
<1>5. QED
  BY <1>1, <1>4, Invariance, PTL DEF Spec

(* The verifier asks for at most RevisionLimit revisions and one concession*)
(* in a chain: the requests of its repairs differ.                         *)
LEMMA RepairsAreBounded ==
    ASSUME RepairInv
    PROVE  RepairsBounded
<1>1. SUFFICES ASSUME NEW c \in Ops
               PROVE  Cardinality({o \in Ops : op[o].chain = c /\ op[o].repair})
                        <= RevisionLimit + 1
  BY DEF RepairsBounded
<1> DEFINE S == {o \in Ops : op[o].chain = c /\ op[o].repair}
           request == [o \in S |-> op[o].request]
<1>2. \A o \in S : op[o].state = "rejected" /\ op[o].kind = "fact"
  BY DEF RepairInv, Chains
<1>3. \A o \in S : op[o].request \in 0..RevisionLimit
  BY <1>2 DEF RepairInv, Chains
<1>4. \A o, p \in S : p > o => op[p].request > op[o].request
  BY <1>2 DEF RepairInv, RequestsGrow, Chain
<1>5. \A o \in S : o \in Nat
  BY ConstantsAssumption DEF Ops
<1>6. request \in Injection(S, 0..RevisionLimit)
  <2>1. request \in [S -> 0..RevisionLimit]
    BY <1>3
  <2>2. ASSUME NEW o \in S, NEW p \in S, request[o] = request[p]
        PROVE  o = p
    BY <1>3, <1>4, <1>5, <2>2, ConstantsAssumption
  <2>3. QED
    BY <2>1, <2>2 DEF Injection, IsInjective
<1>7. /\ IsFiniteSet(0..RevisionLimit)
      /\ Cardinality(0..RevisionLimit) = RevisionLimit + 1
  BY FS_Interval, ConstantsAssumption
<1> HIDE DEF S, request
<1>8. Cardinality(S) <= RevisionLimit + 1
  BY <1>6, <1>7, FS_Injection
<1>9. QED
  BY <1>8 DEF S

(* RepairSurvivesRetry is what Survives says of each attempt.              *)
LEMMA RepairsSurvive ==
    ASSUME IInv, RepairInv
    PROVE  RepairSurvivesRetry
<1>1. SUFFICES ASSUME NEW t \in Tasks, NEW k \in AttemptNos, k < task[t].n,
                      att[t][k].state = "interrupted",
                      att[t][k].supp.kind \in Revisions
               PROVE  \/ att[t][k + 1].supp = att[t][k].supp
                      \/ /\ att[t][k + 1].supp.kind \in Repairs
                         /\ Fresh(t, k, att[t][k + 1].supp.cause)
                      \/ Superseded(att[t][k].supp.cause)
                      \/ Overtaken(t, k)
  BY DEF RepairSurvivesRetry
<1>2. \A o : Fresh(t, k, o) <=> FreshOf(att[t], k, o)
  BY DEF Fresh, FreshOf
<1>3. \A o : Superseded(o) <=> SupersededOf(op, o)
  BY DEF Superseded, SupersededOf
<1>4. Overtaken(t, k) <=> OvertakenOf(op, att[t], t, k)
  BY <1>2, <1>3 DEF Overtaken, OvertakenOf, OpsOf
<1>5. SurvivesOf(op, att[t], t, k)
  BY <1>1 DEF RepairInv, Survives
<1>6. QED
  BY <1>1, <1>2, <1>3, <1>4, <1>5 DEF SurvivesOf

(* _reject_fact_with_repair asks for a bounded number of repairs, and what *)
(* it asked for outlives the full stops and the failures of the agents: the*)
(* retry gets the repair of the interrupted attempt, unless another Fact   *)
(* made it superfluous.                                                    *)
THEOREM RepairsAlwaysKept == Spec => []RepairsKept
<1>1. IInv /\ RepairInv => RepairsKept
  BY RepairsAreBounded, RepairsSurvive DEF RepairsKept
<1>2. QED
  BY <1>1, Invariance, RepairInvariance, PTL
=============================================================================
