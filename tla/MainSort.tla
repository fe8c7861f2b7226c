------------------------------ MODULE MainSort ------------------------------
(***************************************************************************)
(* The sort between the Explorer and Franta: one call that promotes frozen *)
(* Explorer records into the memory, and the barrier behind it.            *)
(*                                                                         *)
(*   src/franta/runtime.py              the barrier, authentication, ledger*)
(*   src/franta/scheduler.py            ingestion, the task, the phase     *)
(*   src/franta/execution_gateway/skills.py  record-progress               *)
(*   src/explorer_system/main_sort/     what a submission must satisfy     *)
(*   src/explorer_system/repository.py  the ledger of exports              *)
(*                                                                         *)
(* The sorter stages progress files through the broker; a receipt binds a  *)
(* file to the launch that staged it.  Its reply is accepted only if every *)
(* file of the workspace has a receipt of the launch that replied.  Each   *)
(* promoted item is declared in the ledger, then ingested as an operation, *)
(* reviewed, and its resolution mirrored into the ledger; Franta plans     *)
(* when nothing of the sort is left open.                                  *)
(*                                                                         *)
(* An item stands for an operation or a computation.  The same item id in  *)
(* two files names two different operations.  The reply of an agent that   *)
(* names other files or sources than those it staged is a failed launch.   *)
(***************************************************************************)
EXTENDS LogicalCall, Sequences, FiniteSets

CONSTANTS
    Items,          \* operation ids a sorter may choose
    Taken,          \* ids that operations of other tasks already have
    Declared,       \* ids that an earlier sort has declared in the ledger
    MainRetryLimit, \* retry_policy.main
    MaxFiles,       \* bound: record-progress calls of all launches
    MaxCallbacks,   \* bound: callbacks on their way at one time
    MaxStops,       \* bound: full stops
    MaxOperator     \* bound: decisions of the operator

ASSUME SortConstants ==
    /\ Declared \subseteq Taken /\ Taken \subseteq Items
    /\ {MainRetryLimit, MaxFiles, MaxCallbacks, MaxStops, MaxOperator} \subseteq Nat

VARIABLES
    pc,        \* where the main thread is
    call,      \* the logical call of the sort
    claim,     \* the reply: its final file and what it says it promotes
    progress,  \* the record-progress calls, in the order they were made
    flying,    \* those whose callback is on its way
    batch,     \* the files the last authentication has read
    due,       \* promotions of the batch still to be declared
    declared,  \* the file that declared an item in the ledger
    ledger,    \* the last event of an item in the ledger
    ops,       \* the operation of the scheduler with that id
    ingested,  \* the files that were ingested
    task,      \* the sort task: running, ended, closed
    planning,  \* planning calls prepared behind this sort
    phase,     \* franta_sort or franta_run
    stops, operator

agentVars == <<claim, progress, flying>>
ledgerVars == <<declared, ledger>>
taskVars == <<ops, ingested, task>>
planVars == <<planning, phase>>
bounds == <<stops, operator>>
sortVars == <<pc, call, agentVars, batch, due, ledgerVars, taskVars, planVars,
              bounds>>

NoFile == 0
NoClaim == [final |-> NoFile, items |-> {}]
Earlier == MaxFiles + 1     \* the file of an earlier sort

FinalStates == {"committed", "rejected", "abandoned"}
Resolved == FinalStates \cup {"needs_attention"}

Up == pc # "down"
Directory == {i \in DOMAIN progress : progress[i].state \in {"staged", "receipted"}}
Finals == {i \in Directory : progress[i].final}
ItemsOf(files) == UNION {{i} \X progress[i].items : i \in files}
Mine == {x \in Items \ Taken : ops[x] # "absent"}

SortInit ==
    /\ pc = "barrier" /\ call = PrepareCall("main-sort", NoFile, MainRetryLimit)
    /\ claim = NoClaim /\ progress = <<>> /\ flying = {}
    /\ batch = {} /\ due = {}
    /\ declared = [x \in Items |-> IF x \in Declared THEN Earlier ELSE NoFile]
    /\ ledger = [x \in Items |-> IF x \in Declared THEN "committed" ELSE "none"]
    /\ ops \in [Items -> {"absent", "received", "committed"}]
    /\ \A x \in Items : /\ ops[x] = "absent" <=> x \notin Taken
                        /\ x \in Declared => ops[x] = "committed"
    /\ ingested = {} /\ task = "running"
    /\ planning = 0 /\ phase = "franta_sort"
    /\ stops = 0 /\ operator = 0

(***************************************************************************)
(* The agent and its callbacks.  _make_workspace keeps the workspace of a  *)
(* call over its launches.                                                 *)
(***************************************************************************)
LaunchSort ==
    /\ pc = "barrier" /\ phase = "franta_sort" /\ CanLaunch(call)
    /\ call' = Launch(call)
    /\ pc' = "agent" /\ claim' = NoClaim
    /\ UNCHANGED <<progress, flying, batch, due, ledgerVars, taskVars, planVars,
                   bounds>>

NextSequence ==
    1 + (IF Directory = {} THEN 0
         ELSE CHOOSE n \in {progress[i].sequence : i \in Directory} :
                  \A i \in Directory : progress[i].sequence <= n)

(* record-progress reads the directory, and writes its file later.         *)
RecordProgress(final, sound, items) ==
    /\ pc = "agent" /\ Finals = {}
    /\ Len(progress) < MaxFiles /\ Cardinality(flying) < MaxCallbacks
    /\ ~final => sound
    /\ progress' = Append(progress,
           [launch |-> call.attempt, sequence |-> NextSequence, final |-> final,
            sound |-> sound, items |-> items, state |-> "calling"])
    /\ flying' = flying \cup {Len(progress) + 1}
    /\ UNCHANGED <<pc, call, claim, batch, due, ledgerVars, taskVars, planVars,
                   bounds>>

StageFile(i) ==
    /\ i \in flying /\ progress[i].state = "calling"
    /\ progress' = [progress EXCEPT ![i].state = "staged"]
    /\ UNCHANGED <<pc, call, claim, flying, batch, due, ledgerVars, taskVars,
                   planVars, bounds>>

(* Revoking the capability of the launch does not stop a callback.         *)
AppendReceipt(i) ==
    /\ i \in flying /\ progress[i].state = "staged"
    /\ progress' = [progress EXCEPT ![i].state = "receipted"]
    /\ flying' = flying \ {i}
    /\ UNCHANGED <<pc, call, claim, batch, due, ledgerVars, taskVars, planVars,
                   bounds>>

SorterReplies(final) ==
    /\ pc = "agent" /\ final \in Finals
    /\ claim' = [final |-> final, items |-> ItemsOf(Directory)]
    /\ pc' = "check"
    /\ UNCHANGED <<call, progress, flying, batch, due, ledgerVars, taskVars,
                   planVars, bounds>>

(* With the process go its callbacks and what the main thread had in hand. *)
LeaveProcess == pc' = "down" /\ flying' = {} /\ batch' = {} /\ due' = {}

(* A launch that fails is retried by the same loop; the failure that       *)
(* exhausts the budget leaves the barrier and ends the run.                *)
FailLaunch ==
    /\ call' = RecordTransportFailure(call) /\ claim' = NoClaim
    /\ IF call'.status = "retry_pending"
       THEN pc' = "barrier" /\ batch' = {} /\ due' = {} /\ UNCHANGED flying
       ELSE LeaveProcess
    /\ UNCHANGED <<progress, ledgerVars, taskVars, planVars, bounds>>

SorterFails == pc = "agent" /\ FailLaunch

(***************************************************************************)
(* _validated_main_sort_progress: once before the reply is accepted, and   *)
(* again before it is ingested.                                            *)
(***************************************************************************)
OfThisLaunch(i) ==
    progress[i].state = "receipted" /\ progress[i].launch = call.attempt

Authentic == \A i \in Directory : OfThisLaunch(i)

Submitted == Finals = {claim.final} /\ claim.items = ItemsOf(Directory)

(* An error before the reply is accepted fails the launch; one after it    *)
(* leaves the barrier and ends the run.                                    *)
Refuse ==
    IF call.status = "completed"
    THEN /\ LeaveProcess
         /\ UNCHANGED <<call, claim, progress, ledgerVars, taskVars, planVars,
                        bounds>>
    ELSE FailLaunch

ToDeclare(files) == ItemsOf(files)

Check ==
    /\ pc = "check" /\ Authentic /\ Submitted
    /\ batch' = Directory /\ due' = ToDeclare(Directory)
    /\ pc' = "export"
    /\ UNCHANGED <<call, agentVars, ledgerVars, taskVars, planVars, bounds>>

CheckFails == pc = "check" /\ ~(Authentic /\ Submitted) /\ Refuse

(* stage_export: one transaction per item, idempotent for the same one.    *)
DeclareItem(i, x) ==
    /\ pc = "export" /\ <<i, x>> \in due /\ declared[x] \in {NoFile, i}
    /\ declared' = [declared EXCEPT ![x] = i]
    /\ ledger' = [ledger EXCEPT ![x] = IF @ = "none" THEN "received" ELSE @]
    /\ due' = due \ {<<i, x>>}
    /\ UNCHANGED <<pc, call, agentVars, batch, taskVars, planVars, bounds>>

DeclareConflicts(i, x) ==
    /\ pc = "export" /\ <<i, x>> \in due /\ declared[x] \notin {NoFile, i}
    /\ Refuse

AcceptReply ==
    /\ pc = "export" /\ due = {} /\ call.status = "running"
    /\ CanReceive(call, call.epoch, call.attempt)
    /\ call' = ReceiveResult(call, call.attempt)
    /\ pc' = "check"
    /\ UNCHANGED <<agentVars, batch, due, ledgerVars, taskVars, planVars, bounds>>

(***************************************************************************)
(* Ingestion of the batch, file by file, each in its own transaction.      *)
(***************************************************************************)
StartIngest ==
    /\ pc = "export" /\ due = {} /\ call.status = "completed"
    /\ pc' = "ingest"
    /\ UNCHANGED <<call, agentVars, batch, due, ledgerVars, taskVars, planVars,
                   bounds>>

NextFiles ==
    {i \in batch \ ingested : \A j \in batch \ ingested :
         progress[i].sequence <= progress[j].sequence}

(* ingest_progress: the sequence continues, and the evidence a final file  *)
(* names is owned by the task.                                             *)
Ingestible(i) ==
    /\ progress[i].sequence = Cardinality(ingested) + 1
    /\ progress[i].sound

(* An id of another task makes a rejected operation with an id of its own. *)
IngestFile(i) ==
    /\ pc = "ingest" /\ i \in NextFiles /\ Ingestible(i)
    /\ ops' = [x \in Items |-> IF x \in progress[i].items /\ ops[x] = "absent"
                               THEN "received" ELSE ops[x]]
    /\ ingested' = ingested \cup {i}
    /\ IF progress[i].final
       THEN task' = "ended" /\ call' = CommitResult(call)
       ELSE UNCHANGED <<task, call>>
    /\ UNCHANGED <<pc, agentVars, batch, due, ledgerVars, planVars, bounds>>

IngestRaises(i) ==
    /\ pc = "ingest" /\ i \in NextFiles /\ ~Ingestible(i)
    /\ LeaveProcess
    /\ UNCHANGED <<call, claim, progress, ledgerVars, taskVars, planVars, bounds>>

EndIngest ==
    /\ pc = "ingest" /\ batch \subseteq ingested
    /\ pc' = "settle" /\ batch' = {}
    /\ UNCHANGED <<call, agentVars, due, ledgerVars, taskVars, planVars,
                   bounds>>

(***************************************************************************)
(* The barrier: the operations settle, the ledger mirrors them.            *)
(***************************************************************************)
ResumeBarrier ==
    /\ pc = "barrier" /\ phase = "franta_sort" /\ ~CanLaunch(call)
    /\ IF call.status = "needs_attention"
       THEN LeaveProcess
       ELSE /\ pc' = IF call.status = "completed" THEN "check" ELSE "settle"
            /\ UNCHANGED <<flying, batch, due>>
    /\ UNCHANGED <<call, claim, progress, ledgerVars, taskVars, planVars, bounds>>

Review(x, state) ==
    /\ pc = "settle" /\ ops[x] = "received"
    /\ ops' = [ops EXCEPT ![x] = state]
    /\ UNCHANGED <<pc, call, agentVars, batch, due, ledgerVars, ingested, task,
                   planVars, bounds>>

(* Mutant of Downstream: a rejected promotion keeps the sort task open. *)
DownstreamCommitted == \A x \in Mine : ops[x] = "committed"

Downstream == \A x \in Mine : ops[x] \in FinalStates

CloseTask ==
    /\ pc = "settle" /\ task = "ended" /\ Downstream
    /\ task' = "closed"
    /\ UNCHANGED <<pc, call, agentVars, batch, due, ledgerVars, ops, ingested,
                   planVars, bounds>>

Settle ==
    /\ pc = "settle"
    /\ \A x \in Items : ops[x] # "received"
    /\ ~(task = "ended" /\ Downstream)
    /\ pc' = "mirror"
    /\ UNCHANGED <<call, agentVars, batch, due, ledgerVars, taskVars, planVars,
                   bounds>>

(* _reconcile_explorer_promotions looks the operation up by its id alone.  *)
(* Mutant of Resolution: an operation that needs attention counts as lost. *)
ResolutionOfUnsettled(x) ==
    IF ops[x] = "needs_attention" THEN "abandoned" ELSE ops[x]

Resolution(x) == ops[x]

Unresolved == {x \in Items : ledger[x] = "received"}
Mirrored == {x \in Unresolved : ops[x] \in Resolved}

Mirror(x) ==
    /\ pc \in {"mirror", "recover"} /\ x \in Mirrored
    /\ ledger' = [ledger EXCEPT ![x] = Resolution(x)]
    /\ UNCHANGED <<pc, call, agentVars, batch, due, declared, taskVars, planVars,
                   bounds>>

(* Mutant of BarrierOpens: the ledger alone opens the barrier. *)
BarrierOpensOnLedger == Unresolved = {}

BarrierOpens == task = "closed" /\ Unresolved = {}

(* An operation that needs attention ends the run.                         *)
Decide ==
    /\ pc = "mirror" /\ Mirrored = {}
    /\ IF ~BarrierOpens /\ \E x \in Items : ops[x] = "needs_attention"
       THEN LeaveProcess
       ELSE /\ pc' = IF BarrierOpens THEN "plan" ELSE "barrier"
            /\ UNCHANGED <<flying, batch, due>>
    /\ UNCHANGED <<call, claim, progress, ledgerVars, taskVars, planVars, bounds>>

(* _resume_main_after_sort finds the call a stopped run had prepared.      *)
Existing == planning > 0

PreparePlanning ==
    /\ pc = "plan"
    /\ planning' = IF Existing THEN planning ELSE planning + 1
    /\ pc' = "open"
    /\ UNCHANGED <<call, agentVars, batch, due, ledgerVars, taskVars, phase,
                   bounds>>

OpenFrantaRun ==
    /\ pc = "open"
    /\ phase' = "franta_run" /\ pc' = "planned"
    /\ UNCHANGED <<call, agentVars, batch, due, ledgerVars, taskVars, planning,
                   bounds>>

(***************************************************************************)
(* Full stops, restarts, and the operator, who works on a stopped project. *)
(***************************************************************************)
StopSort ==
    /\ Up /\ pc # "planned" /\ stops < MaxStops
    /\ stops' = stops + 1
    /\ LeaveProcess
    /\ claim' = IF call.status \in {"completed", "committed"} THEN claim ELSE NoClaim
    /\ UNCHANGED <<call, progress, ledgerVars, taskVars, planVars, operator>>

(* The call_attempt the attempt record was created with: no launch has it, *)
(* so the recovery of a sort that was staged whole skips every sort.       *)
AttemptRecordLaunch == 0

Start ==
    /\ pc = "down" /\ phase = "franta_sort" /\ AttemptRecordLaunch = NoLaunch
    /\ call' = ReconcileAfterStop(call)
    /\ pc' = "recover"
    /\ UNCHANGED <<agentVars, batch, due, ledgerVars, taskVars, planVars, bounds>>

Recovered ==
    /\ pc = "recover" /\ Mirrored = {}
    /\ pc' = "barrier"
    /\ UNCHANGED <<call, agentVars, batch, due, ledgerVars, taskVars, planVars,
                   bounds>>

OperatorActs == pc = "down" /\ operator < MaxOperator /\ operator' = operator + 1

AuthorizeCall ==
    /\ OperatorActs /\ CanAuthorize(call)
    /\ call' = AuthorizeRetry(call)
    /\ UNCHANGED <<pc, agentVars, batch, due, ledgerVars, taskVars, planVars,
                   stops>>

DecideOperation(x, state) ==
    /\ OperatorActs /\ ops[x] = "needs_attention"
    /\ ops' = [ops EXCEPT ![x] = state]
    /\ UNCHANGED <<pc, call, agentVars, batch, due, ledgerVars, ingested, task,
                   planVars, stops>>

MainThread ==
    \/ LaunchSort \/ Check \/ CheckFails \/ AcceptReply
    \/ \E i \in batch, x \in Items : DeclareItem(i, x) \/ DeclareConflicts(i, x)
    \/ StartIngest \/ EndIngest
    \/ \E i \in batch : IngestFile(i) \/ IngestRaises(i)
    \/ ResumeBarrier \/ CloseTask \/ Settle \/ Decide
    \/ \E x \in Items : \/ Mirror(x)
                        \/ \E s \in Resolved : Review(x, s)
    \/ PreparePlanning \/ OpenFrantaRun \/ Start \/ Recovered

AgentStep ==
    \/ \E final, sound \in BOOLEAN, items \in SUBSET Items :
           RecordProgress(final, sound, items)
    \/ \E i \in flying : StageFile(i) \/ AppendReceipt(i)
    \/ \E i \in Finals : SorterReplies(i)
    \/ SorterFails

OperatorStep ==
    \/ AuthorizeCall
    \/ \E x \in Items, s \in {"received", "abandoned"} : DecideOperation(x, s)

SortNext == MainThread \/ AgentStep \/ StopSort \/ OperatorStep

SortSpec == SortInit /\ [][SortNext]_sortVars

(* The main thread runs on, and a run that ended is resumed.               *)
FairSort == SortSpec /\ WF_sortVars(MainThread)

(***************************************************************************)
(* Properties.                                                             *)
(***************************************************************************)
(* The type of every variable; no callback without a process.              *)
SortTypes ==
    /\ pc \in {"barrier", "agent", "check", "export", "ingest", "settle",
               "mirror", "plan", "open", "planned", "down", "recover"}
    /\ call \in [kind : {"main-sort"}, owner : {NoFile}, status : CallStates,
                 epoch : Nat, fenced : SUBSET Nat, attempt : Nat, retries : Nat,
                 limit : Nat, result : Nat]
    /\ claim \in [final : Nat, items : SUBSET (Nat \X Items)]
    /\ progress \in Seq([launch : Nat, sequence : Nat, final : BOOLEAN,
                         sound : BOOLEAN, items : SUBSET Items,
                         state : {"calling", "staged", "receipted"}])
    /\ {flying, batch, ingested} \subseteq SUBSET (DOMAIN progress)
    /\ pc \in {"down", "recover"} => flying = {}
    /\ due \subseteq batch \X Items
    /\ declared \in [Items -> 0 .. Earlier]
    /\ ledger \in [Items -> {"none", "received"} \cup Resolved]
    /\ ops \in [Items -> {"absent", "received"} \cup Resolved]
    /\ task \in {"running", "ended", "closed"}
    /\ planning \in Nat /\ phase \in {"franta_sort", "franta_run"}
    /\ {stops, operator} \subseteq Nat

(* runtime.py, _verified_skill_artifacts: what is ingested was staged and  *)
(* receipted by the launch whose reply was accepted, whatever late         *)
(* callbacks, failed launches and full stops left in the workspace.        *)
OnlyAuthenticIngested ==
    \A i \in ingested : /\ progress[i].state = "receipted"
                        /\ progress[i].launch = call.result

(* runtime.py, _stage_main_sort_promotions: no operation of the sort is    *)
(* without its provenance in the ledger, declared by the file it came with.*)
ProvenanceFirst ==
    \A x \in Mine : /\ ledger[x] # "none"
                    /\ declared[x] \in ingested
                    /\ x \in progress[declared[x]].items

(* runtime.py, _reconcile_explorer_promotions: the ledger calls an item    *)
(* committed, rejected or abandoned only if its operation is, for good.    *)
LedgerTellsTruth ==
    \A x \in Items : ledger[x] \in FinalStates => ops[x] = ledger[x]

(* What the ledger of the Explorer repository says of the operations of    *)
(* Franta is true and traceable at every point where the process can stop. *)
LedgerInv == SortTypes /\ OnlyAuthenticIngested /\ ProvenanceFirst /\ LedgerTellsTruth

(* runtime.py, _run_franta_sort_barrier: planning begins when the reply is *)
(* ingested whole, its operations are decided and nothing it declared is   *)
(* open; and it begins once, also when a stop interrupts it.               *)
PlanningSeesSort ==
    planning > 0 =>
        /\ planning = 1 /\ claim.final \in ingested
        /\ {d[2] : d \in claim.items} \cap {x \in Items : ledger[x] = "received"} = {}
        /\ \A x \in Mine : ops[x] \in FinalStates

(* The accepted reply can be ingested: no callback of its launch came      *)
(* late, and its files are sound.                                          *)
StillIngestible ==
    /\ Authentic /\ Submitted
    /\ \A i \in Directory : progress[i].sound
    /\ \A i, j \in Directory : progress[i].sequence = progress[j].sequence => i = j

(* runtime.py, run: the sort does not hold the project up.  An accepted    *)
(* reply opens the Franta run, unless an operation waits for the operator. *)
SortSettles ==
    call.status = "completed" /\ StillIngestible ~>
        \/ phase = "franta_run" \/ ~StillIngestible
        \/ \E x \in Items : ops[x] = "needs_attention"

(* runtime.py, _recover_staged_main_sort_progress: "The fenced logical     *)
(* call will retry through the normal franta_sort barrier": a launch that  *)
(* staged, received its receipts and replied as it should is accepted.     *)
HonestLaunchAccepted ==
    LET own == {i \in Directory : progress[i].launch = call.attempt}
    IN (/\ pc = "check" /\ call.status = "running"
        /\ \A i \in own : OfThisLaunch(i)
        /\ claim.final \in own /\ progress[claim.final].final)
       => Authentic /\ Submitted
=============================================================================
