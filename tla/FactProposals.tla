---------------------------- MODULE FactProposals ----------------------------
(***************************************************************************)
(* The Fact proposals of one worker task: the gates that hold a proposal   *)
(* back until other proposals of the task are published, the normalization *)
(* of a dependent when a gate resolves, and the cascade that rejects every *)
(* unpublished dependent when a gate is refused (src/franta/scheduler.py). *)
(*                                                                         *)
(* A scheduler method is a series of transactions: the first one, then a   *)
(* tail (routing, resolutions, rejections, markers in the canonical        *)
(* store).  Methods run one at a time on the control thread, but the       *)
(* process may die between any two transactions: agenda holds what the     *)
(* running method still has to do, a stop forgets it, and recovery has to  *)
(* find out what was left.  The reviews' logical calls are CallLifecycle,  *)
(* the repair chain and its attempt budget TaskLifecycle.                  *)
(***************************************************************************)
EXTENDS Naturals, Sequences, FiniteSets

CONSTANTS
    TempIds,      \* bound: temporary ids the worker uses for Fact proposals
    MaxProposals, \* bound: those of them it declares
    MaxGates,     \* bound: gates of one proposal
    MaxAttempts,  \* bound: attempts of the task
    MaxStops,     \* bound: full stops of the process
    MaxOperator   \* bound: operations the operator abandons

ASSUME ProposalConstants ==
    /\ TempIds \in Nat
    /\ MaxProposals \in Nat
    /\ MaxGates \in Nat
    /\ MaxAttempts \in Nat \ {0}
    /\ MaxStops \in Nat
    /\ MaxOperator \in Nat

VARIABLES
    op,         \* the current operation of each proposal
    proposals,  \* fact_proposals: the control record of each temporary id
    mapping,    \* proposal_mappings: the ids that stand for a Fact
    store,      \* what canonical memory recorded of each temporary id
    task,       \* the task that owns the proposals
    agenda,     \* what the running method still has to do
    up,         \* the process is up
    stops, operator

proposalVars ==
    <<op, proposals, mapping, store, task, agenda, up, stops, operator>>

(* Ids are numbered in the order they are declared; a gate may name one    *)
(* that is declared later, or never.                                       *)
Props == 1 .. TempIds

NoOperation ==
    [state |-> "absent", version |-> 0, attempt |-> 0, explicit |-> {},
     body |-> {}, cited |-> {}, verified |-> FALSE, returned |-> FALSE]

Open == {"waiting_predecessors", "received", "synthesizing", "verifying",
         "needs_attention"}

Final == {"committed", "rejected", "abandoned"}

(***************************************************************************)
(* Derived state.                                                          *)
(***************************************************************************)
Is(p, state) == op[p].state = state

Declared == {p \in Props : ~Is(p, "absent")}

(* Mutant of Gates: a citation in the text holds nothing back. *)
ListedGates(o, known) == o.explicit \ known

(* _operation_fact_gate_ids, for an operation o: its gates that stand for  *)
(* no Fact yet.                                                            *)
Gates(o, known) == (o.explicit \cup o.body) \ known

OpenGates(p) == Gates(op[p], mapping)

(* The ids a citation in a statement or proof is recognized by: declared   *)
(* before, or reserved by an explicit predecessor list.                    *)
Recognized == Declared \cup UNION {op[p].cited : p \in Declared}

(* _source_attempt_is_terminal_locked *)
AttemptOver(p) == op[p].attempt < task.attempt \/ task.state # "running"

(* _ensure_fact_proposals_locked: an id that stands for a Fact is resolved. *)
Ensured(known) ==
    [p \in Props |-> IF p \in known THEN [proposals[p] EXCEPT !.state = "resolved"]
                                    ELSE proposals[p]]

Dependents(p) == {q \in Props : ~Is(q, "committed") /\ p \in OpenGates(q)}

(* The unpublished transitive closure of a refused proposal. *)
Closure(p) ==
    {q \in Props : \A S \in SUBSET Props :
        p \in S /\ (\A r \in S : Dependents(r) \subseteq S) => q \in S}

(* The proposals that still have a path to publication: the least set that *)
(* holds what is resolved or under review and every waiting proposal whose *)
(* gates are in it.                                                        *)
Publishable ==
    LET base == mapping \cup {p \in Props : proposals[p].state = "resolved"}
                        \cup {p \in Props : op[p].state \in Open
                                            /\ ~Is(p, "waiting_predecessors")}
    IN  {q \in Props : \A S \in SUBSET Props :
            base \subseteq S
            /\ (\A p \in Props : Is(p, "waiting_predecessors")
                                 /\ OpenGates(p) \subseteq S => p \in S)
            => q \in S}

(* _terminalize_unpublishable_final_fact_gates: the gates to refuse. *)
DeadGates ==
    LET gated == {p \in Props : op[p].state \in Open}
        refused == {g \in Props : proposals[g].state \in {"none", "rejected"}
                                  \/ op[g].state \in {"rejected", "abandoned"}}
        stuck == {g \in Props : proposals[g].state = "pending"} \ Publishable
    IN  (UNION {OpenGates(p) \cap refused : p \in gated})
        \cup (UNION {OpenGates(p) \cap stuck :
                        p \in {q \in gated : Is(q, "waiting_predecessors")}})

(***************************************************************************)
(* Initial state: the task's first attempt runs and has declared nothing.  *)
(***************************************************************************)
ProposalInit ==
    /\ op = [p \in Props |-> NoOperation]
    /\ proposals = [p \in Props |-> [state |-> "none", marked |-> FALSE]]
    /\ mapping = {}
    /\ store = [p \in Props |-> "none"]
    /\ task = [state |-> "running", attempt |-> 1, final |-> FALSE, repair |-> FALSE]
    /\ agenda = << >>
    /\ up = TRUE
    /\ stops = 0
    /\ operator = 0

Idle == up /\ agenda = << >>

Do(name, S) == IF S = {} THEN << >> ELSE << <<name, S>> >>

(* Closing has nothing to do for a task that is still at work. *)
Close(t) == IF t.state \in {"postprocessing", "needs_attention"}
            THEN << <<"close", {}>> >> ELSE << >>
Markers == << <<"markers", {}>> >>
Terminalize == << <<"terminalize", {}>> >>

(***************************************************************************)
(* A progress file.                                                        *)
(***************************************************************************)

(* _initialize_fact_operation *)
Initialized(p, explicit, body) ==
    LET gates == explicit \cup body
        o == [NoOperation EXCEPT !.version = 1, !.attempt = task.attempt,
                            !.explicit = explicit, !.body = body, !.cited = gates]
        barred == p \in gates \/ \E g \in gates : proposals[g].state = "rejected"
    IN  [o EXCEPT !.state = IF barred THEN "rejected"
                            ELSE IF explicit # {} \/ Gates(o, mapping) # {}
                            THEN "waiting_predecessors" ELSE "received"]

(* The attempt ends with its final receipt, or goes on. *)
Received(final) ==
    [task EXCEPT !.final = final,
                 !.state = IF final THEN "postprocessing" ELSE "running"]

(* Mutant of Fresh: an id that was only refused as a gate may be declared. *)
NotDeclared(p) == Is(p, "absent") /\ p <= Cardinality(Declared) + 1

(* An id nobody has declared or refused; ids are taken in order. *)
Fresh(p) ==
    /\ proposals[p].state = "none"
    /\ \A q \in Props : q < p => proposals[q].state # "none"

(* ingest_progress, a file that declares the proposal p; the receipt is    *)
(* durable before anything is routed.  A citation of an explicit           *)
(* predecessor adds no gate, so body leaves those out.                     *)
IngestFact(p, explicit, body, final) ==
    /\ Idle /\ task.state = "running"
    /\ Fresh(p) /\ Cardinality(Declared) < MaxProposals
    /\ body \subseteq Recognized \cup {p}
    /\ op' = [op EXCEPT ![p] = Initialized(p, explicit, body)]
    /\ proposals' = [proposals EXCEPT ![p].state = "pending"]
    /\ task' = Received(final)
    /\ LET o == op'[p]
           refused == {g \in o.cited : proposals[g].state = "rejected"}
           tail == CASE o.state = "rejected" ->
                            Do("reject", refused \ {p}) \o Do("reject", {p})
                     [] o.state = "waiting_predecessors" ->
                            Do("resolve", explicit \cap mapping)
                     [] OTHER -> Do("route", {p})
       IN  agenda' = tail \o (IF final THEN Terminalize \o Close(task') ELSE << >>)
    /\ UNCHANGED <<mapping, store, up, stops, operator>>

(* ingest_progress, a final file without a proposal *)
IngestFinal ==
    /\ Idle /\ task.state = "running"
    /\ task' = Received(TRUE)
    /\ agenda' = Terminalize \o Close(task')
    /\ UNCHANGED <<op, proposals, mapping, store, up, stops, operator>>

(***************************************************************************)
(* The tail, one transaction per step.                                     *)
(***************************************************************************)
Rest == Tail(agenda)

(* The running method takes p, one of those its next step is for. *)
Step(name, p) == up /\ agenda # << >> /\ Head(agenda)[1] = name
                    /\ p \in Head(agenda)[2]

(* What it does before it goes on with the others. *)
Then(p, before) ==
    agenda' = before \o Do(Head(agenda)[1], Head(agenda)[2] \ {p}) \o Rest

(* _route_operation *)
Route(p) ==
    /\ Step("route", p)
    /\ op' = IF ~Is(p, "received") THEN op
             ELSE [op EXCEPT ![p].state = IF OpenGates(p) = {} THEN "synthesizing"
                                           ELSE "waiting_predecessors"]
    /\ Then(p, << >>)
    /\ UNCHANGED <<proposals, mapping, store, task, up, stops, operator>>

(* resolve_temporary_predecessor: an explicit predecessor is replaced in a *)
(* new version of the operation, a citation only opens; what has no gate   *)
(* left is ready.                                                          *)
Released(g, p) ==
    LET o == op[p]
        next == [o EXCEPT !.explicit = @ \ {g},
                          !.version = IF g \in o.explicit THEN @ + 1 ELSE @]
    IN  IF o.state = "waiting_predecessors" /\ g \in o.explicit \cup o.body
        THEN [next EXCEPT !.state = IF Gates(next, mapping \cup {g}) = {}
                                    THEN "received" ELSE @]
        ELSE o

ResolveGate(g) ==
    /\ Step("resolve", g)
    /\ mapping' = mapping \cup {g}
    /\ proposals' = Ensured(mapping')
    /\ op' = [p \in Props |-> Released(g, p)]
    /\ Then(g, Do("route", {p \in Props : Is(p, "waiting_predecessors")
                                          /\ op'[p].state = "received"}))
    /\ UNCHANGED <<store, task, up, stops, operator>>

(* _reject_fact_proposal_cascade_locked, from every root in roots: their   *)
(* closures are refused, and a dependent goes back to the worker once.     *)
Cascade(roots, os, t) ==
    LET live == roots \ mapping
        hit == UNION {Closure(r) : r \in live}
        dependent == {p \in hit : \E r \in live \ {p} : p \in Closure(r)}
        back == {p \in dependent : /\ os[p].state \notin {"absent", "abandoned"}
                                   /\ ~os[p].returned}
    IN  /\ op' = [p \in Props |->
              IF p \in hit /\ os[p].state \in Open \cup {"rejected"}
              THEN [os[p] EXCEPT !.state = "rejected", !.returned = @ \/ p \in back]
              ELSE os[p]]
        /\ proposals' = [p \in Props |->
              IF p \in hit THEN [proposals[p] EXCEPT !.state = "rejected"]
                           ELSE Ensured(mapping)[p]]
        /\ task' = IF back = {} THEN t
                   ELSE [t EXCEPT !.repair = TRUE,
                           !.state = IF @ = "postprocessing" THEN "revision_pending"
                                     ELSE @]

(* reject_temporary_predecessor *)
RejectProposal(p) ==
    /\ Step("reject", p)
    /\ Cascade({p}, op, task)
    /\ Then(p, Markers)
    /\ UNCHANGED <<mapping, store, up, stops, operator>>

(* _reconcile_fact_proposal_rejection_tails: canonical memory is told of a *)
(* refusal; it will not hear of one it has published.                      *)
Unmarked == {p \in Props : /\ proposals[p].state = "rejected"
                           /\ ~proposals[p].marked
                           /\ store[p] \in {"none", "rejected"}}

TellStore(p) ==
    /\ up /\ agenda # << >> /\ Head(agenda)[1] = "markers"
    /\ p \in Unmarked
    /\ store' = [store EXCEPT ![p] = "rejected"]
    /\ agenda' = Do("marked", {p}) \o agenda
    /\ UNCHANGED <<op, proposals, mapping, task, up, stops, operator>>

Mark(p) ==
    /\ Step("marked", p)
    /\ proposals' = [proposals EXCEPT ![p].marked = TRUE]
    /\ agenda' = Rest
    /\ UNCHANGED <<op, mapping, store, task, up, stops, operator>>

AllTold ==
    /\ up /\ agenda # << >> /\ Head(agenda)[1] = "markers"
    /\ Unmarked = {}
    /\ agenda' = Rest
    /\ UNCHANGED <<op, proposals, mapping, store, task, up, stops, operator>>

(* One scan of _terminalize_unpublishable_final_fact_gates. *)
ScanGates ==
    /\ up /\ agenda # << >> /\ Head(agenda)[1] = "terminalize"
    /\ agenda' = IF DeadGates = {} THEN Rest ELSE Do("reject", DeadGates) \o agenda
    /\ UNCHANGED <<op, proposals, mapping, store, task, up, stops, operator>>

(* _maybe_close_task; completion evidence is CallLifecycle's and           *)
(* TaskLifecycle's.                                                        *)
Closed(t) ==
    LET some(states) == \E p \in Props : op[p].state \in states
    IN  CASE t.state \notin {"postprocessing", "needs_attention"} -> t
          [] some({"needs_attention"}) -> [t EXCEPT !.state = "needs_attention"]
          [] some(Open) -> t
          [] t.repair -> [t EXCEPT !.state = "revision_pending"]
          [] OTHER -> [t EXCEPT !.state = "closed"]

CloseTask ==
    /\ up /\ agenda # << >> /\ Head(agenda)[1] = "close"
    /\ task' = Closed(task)
    /\ agenda' = Rest
    /\ UNCHANGED <<op, proposals, mapping, store, up, stops, operator>>

(***************************************************************************)
(* Reviews.                                                                *)
(***************************************************************************)

(* A refused proposal may send the worker back (the repair chain decides,  *)
(* TaskLifecycle); an attempt that runs ends for it.                       *)
SentBack == {task, [task EXCEPT !.state = "revision_pending"]}

Refuse(p) ==
    /\ op' = [op EXCEPT ![p].state = "rejected"]
    /\ task' \in SentBack
    /\ agenda' = Do("reject", {p}) \o Close(task')
    /\ UNCHANGED <<proposals, mapping, store, up, stops, operator>>

(* apply_synthesizer_result: a new Fact goes to the verifier *)
FoundNew(p) ==
    /\ Idle /\ Is(p, "synthesizing")
    /\ op' = [op EXCEPT ![p].state = "verifying"]
    /\ UNCHANGED <<proposals, mapping, store, task, agenda, up, stops, operator>>

(* ... its bundle was rejected before (_return_identical_bundle_locked) *)
FoundUnchanged(p) == Idle /\ Is(p, "synthesizing") /\ Refuse(p)

(* ... it says what an existing Fact says: committed before the store has  *)
(* recorded it                                                             *)
FoundDuplicate(p) ==
    /\ Idle /\ Is(p, "synthesizing")
    /\ op' = [op EXCEPT ![p].state = "committed"]
    /\ mapping' = mapping \cup {p}
    /\ agenda' = Do("duplicate", {p})
    /\ UNCHANGED <<proposals, store, task, up, stops, operator>>

(* _record_duplicate_resolution *)
RecordDuplicate(p) ==
    /\ Step("duplicate", p)
    /\ store' = [store EXCEPT ![p] = "duplicate"]
    /\ Then(p, Do("resolve", {p}) \o Close(task))
    /\ UNCHANGED <<op, proposals, mapping, task, up, stops, operator>>

DuplicateFails(p) ==
    /\ Step("duplicate", p)
    /\ op' = [op EXCEPT ![p].state = "needs_attention"]
    /\ Then(p, << >>)
    /\ UNCHANGED <<proposals, mapping, store, task, up, stops, operator>>

(* apply_verifier_report: once the source attempt has ended *)
FoundCorrect(p) ==
    /\ Idle /\ Is(p, "verifying") /\ AttemptOver(p)
    /\ op' = [op EXCEPT ![p].verified = TRUE]
    /\ agenda' = Do("publish", {p})
    /\ UNCHANGED <<proposals, mapping, store, task, up, stops, operator>>

(* _handle_incorrect_fact *)
FoundIncorrect(p) ==
    /\ Idle /\ Is(p, "verifying") /\ AttemptOver(p) /\ ~op[p].verified
    /\ Refuse(p)

(* _publish_verified_fact, the store's part; it replays its first answer,  *)
(* and it may fail after it has committed (the projection of the record).  *)
PublishFact(p) ==
    /\ Step("publish", p)
    /\ \/ /\ store[p] \in {"none", "published"}
          /\ store' = [store EXCEPT ![p] = "published"]
          /\ \/ Then(p, Do("published", {p}))
             \/ Then(p, Do("failed", {p}))
       \/ /\ store[p] \in {"none", "rejected"}
          /\ store' = [store EXCEPT ![p] = "rejected"]
          /\ Then(p, Do("refused", {p}))
    /\ UNCHANGED <<op, proposals, mapping, task, up, stops, operator>>

FactPublished(p) ==
    /\ Step("published", p)
    /\ op' = [op EXCEPT ![p].state = "committed"]
    /\ mapping' = mapping \cup {p}
    /\ proposals' = Ensured(mapping')
    /\ Then(p, Do("resolve", {p}) \o Close(task))
    /\ UNCHANGED <<store, task, up, stops, operator>>

(* A refused publication cascades in its own transaction. *)
Refused(p) ==
    /\ Step("refused", p)
    /\ Cascade({p}, [op EXCEPT ![p].state = "rejected"], task)
    /\ Then(p, Markers \o Close(task'))
    /\ UNCHANGED <<mapping, store, up, stops, operator>>

PublicationFails(p) ==
    /\ Step("failed", p)
    /\ op' = [op EXCEPT ![p].state = "needs_attention"]
    /\ Then(p, << >>)
    /\ UNCHANGED <<proposals, mapping, store, task, up, stops, operator>>

(***************************************************************************)
(* Attempts, the operator, stops and recovery.                             *)
(***************************************************************************)

(* record_worker_interruption with retries left *)
Interrupted(t) == [t EXCEPT !.state = "retry_pending"]

(* record_worker_interruption without, record_worker_stopped: the task is  *)
(* to close once its operations are terminal.                              *)
GivenUp(t) == [t EXCEPT !.state = "postprocessing"]

WorkerEnds ==
    /\ Idle /\ task.state = "running"
    /\ \/ task' = Interrupted(task) /\ agenda' = << >>
       \/ task' = GivenUp(task) /\ agenda' = Close(task')
    /\ UNCHANGED <<op, proposals, mapping, store, up, stops, operator>>

(* start_task_attempt: a correction for refused dependents is handed over. *)
StartAttempt ==
    /\ Idle /\ task.state \in {"retry_pending", "revision_pending"}
    /\ task.attempt < MaxAttempts
    /\ task' = [task EXCEPT !.state = "running", !.attempt = @ + 1,
                   !.repair = @ /\ task.state = "retry_pending"]
    /\ UNCHANGED <<op, proposals, mapping, store, agenda, up, stops, operator>>

(* abandon_operation *)
Abandon(p) ==
    /\ Idle /\ operator < MaxOperator
    /\ op[p].state \in Open
    /\ op' = [op EXCEPT ![p].state = "abandoned"]
    /\ agenda' = Do("reject", {p}) \o Close(task)
    /\ operator' = operator + 1
    /\ UNCHANGED <<proposals, mapping, store, task, up, stops>>

Stop ==
    /\ up /\ stops < MaxStops
    /\ up' = FALSE
    /\ agenda' = << >>
    /\ stops' = stops + 1
    /\ UNCHANGED <<op, proposals, mapping, store, task, operator>>

(* Mutant of Disowned: recovery takes a rejection for finished. *)
NoneDisowned == {}

(* The rejected operations that still own their proposals. *)
Disowned == {p \in Props : Is(p, "rejected")} \ mapping

(* Mutant of FinalScan: the gates are scanned when a receipt comes only. *)
NoScan == << >>

(* The task's last progress file was final. *)
FinalScan == IF task.final THEN Terminalize ELSE << >>

(* recover: the cascade of every rejection is done again, and a worker     *)
(* that ran is interrupted; reconcile_pending_ingestion follows.           *)
Recover ==
    /\ ~up
    /\ \E t \in IF task.state = "running" THEN {Interrupted(task), GivenUp(task)}
                                          ELSE {task} :
          Cascade(Disowned, op, t)
    /\ up' = TRUE
    /\ agenda' = Do("replay", Declared) \o Markers \o FinalScan \o Close(task')
    /\ UNCHANGED <<mapping, store, stops, operator>>

(* What reconcile_pending_ingestion does for one operation. *)
Replay(p) ==
    /\ Step("replay", p)
    /\ Then(p,
         CASE Is(p, "received") -> Do("route", {p})
           [] op[p].state \in {"verifying", "needs_attention"}
              /\ op[p].verified /\ AttemptOver(p) -> Do("publish", {p})
           [] Is(p, "waiting_predecessors") ->
                Do("resolve", (op[p].explicit \cup op[p].body) \cap mapping)
                \o Do("reject", {g \in OpenGates(p) : proposals[g].state = "rejected"})
           [] p \in Disowned -> Do("reject", {p})
           [] OTHER -> << >>)
    /\ UNCHANGED <<op, proposals, mapping, store, task, up, stops, operator>>

(***************************************************************************)
(* The specification.                                                      *)
(***************************************************************************)
TailStep ==
    \/ ScanGates \/ AllTold \/ CloseTask
    \/ \E p \in Props :
          \/ Route(p) \/ ResolveGate(p) \/ RejectProposal(p) \/ TellStore(p) \/ Mark(p)
          \/ RecordDuplicate(p) \/ DuplicateFails(p)
          \/ PublishFact(p) \/ FactPublished(p) \/ Refused(p) \/ PublicationFails(p)
          \/ Replay(p)

ReviewProposal(p) ==
    \/ FoundNew(p) \/ FoundUnchanged(p) \/ FoundDuplicate(p)
    \/ FoundCorrect(p) \/ FoundIncorrect(p)

Ingest ==
    \/ IngestFinal
    \/ \E p \in Props, gates \in SUBSET Props, final \in BOOLEAN :
          /\ Cardinality(gates) <= MaxGates
          /\ \E body \in SUBSET gates : IngestFact(p, gates \ body, body, final)

ProposalNext ==
    \/ Ingest \/ TailStep \/ WorkerEnds \/ StartAttempt \/ Stop \/ Recover
    \/ \E p \in Props : ReviewProposal(p) \/ Abandon(p)

ProposalSpec == ProposalInit /\ [][ProposalNext]_proposalVars

(* The control thread finishes what it started and goes on to the reviews  *)
(* that wait (each of them moves its operation on for good); a project     *)
(* that stopped is resumed.                                                *)
ProposalFairness ==
    /\ WF_proposalVars(TailStep) /\ WF_proposalVars(Recover)
    /\ WF_proposalVars(\E p \in Props : ReviewProposal(p))

FairProposals == ProposalSpec /\ ProposalFairness

(***************************************************************************)
(* Properties.                                                             *)
(***************************************************************************)
OpRecord ==
    [state : {"absent"} \cup Open \cup Final, version : 0 .. MaxGates + 1,
     attempt : 0 .. MaxAttempts, explicit : SUBSET Props, body : SUBSET Props,
     cited : SUBSET Props, verified : BOOLEAN, returned : BOOLEAN]

StepNames == {"route", "resolve", "reject", "markers", "marked", "terminalize",
              "close", "duplicate", "publish", "published", "refused", "failed",
              "replay"}

(* Every variable holds a value of its type; an operation has no more      *)
(* versions than gates that were resolved in it.                           *)
ProposalTypes ==
    /\ op \in [Props -> OpRecord]
    /\ proposals \in [Props -> [state : {"none", "pending", "resolved", "rejected"},
                                marked : BOOLEAN]]
    /\ mapping \subseteq Props
    /\ store \in [Props -> {"none", "published", "duplicate", "rejected"}]
    /\ task \in [state : {"running", "retry_pending", "revision_pending",
                          "postprocessing", "needs_attention", "closed"},
                 attempt : 1 .. MaxAttempts, final : BOOLEAN, repair : BOOLEAN]
    /\ \A i \in DOMAIN agenda : agenda[i] \in StepNames \X SUBSET Props
    /\ up \in BOOLEAN
    /\ stops \in 0 .. MaxStops
    /\ operator \in 0 .. MaxOperator

(* No Fact reaches canonical memory before every proposal it cites, in its *)
(* predecessor list or in its text, stands for a Fact; and none of them is *)
(* refused afterwards (Design.md 4.1).                                     *)
PublishedOnResolved ==
    \A p \in Props : store[p] = "published" =>
        \A g \in op[p].cited : g \in mapping /\ proposals[g].state # "rejected"

(* A refusal reaches every dependent: whenever the process is up and has   *)
(* nothing left to do, nothing open rests on a refused proposal, nothing   *)
(* rejected owns a pending one, and canonical memory has been told,        *)
(* whichever transactions a stop has come between.                         *)
CascadeComplete ==
    Idle => \A p \in Props :
        /\ op[p].state \in Open =>
              \A g \in OpenGates(p) : proposals[g].state # "rejected"
        /\ Is(p, "rejected") => proposals[p].state # "pending"
        /\ proposals[p].state = "rejected" => proposals[p].marked \/ store[p] = "published"

(* After the task's final receipt every proposal that still waits has a    *)
(* path to publication: no gate that nobody declared, no closed cycle.     *)
FinalLeavesNoDeadGate ==
    Idle /\ task.final => \A p \in Props :
        Is(p, "waiting_predecessors") => p \in Publishable

(* No proposal is left behind a gate that cannot open. *)
NoDeadGate == ProposalTypes /\ CascadeComplete /\ FinalLeavesNoDeadGate

(* A refused proposal never stands for a Fact later, and canonical memory  *)
(* publishes nothing under its id.                                         *)
RefusedForGood ==
    [][\A p \in Props : proposals[p].state = "rejected" =>
         /\ proposals'[p].state = "rejected"
         /\ p \notin mapping'
         /\ store'[p] \in {store[p], "rejected"}]_proposalVars

Waiting == {p \in Props : Is(p, "waiting_predecessors")}

ForOperator == \E p \in Props : op[p].state \in {"needs_attention", "abandoned"}

(* What waits after the final receipt is settled: its gates resolve and it *)
(* goes on, or one is refused and it is rejected, unless a proposal of the *)
(* task is the operator's or a new attempt withdraws the receipt.          *)
WaitingSettles ==
    Waiting # {} /\ task.final ~> Waiting = {} \/ ForOperator \/ ~task.final

(* record_worker_stopped says that the operations a stopped worker left    *)
(* "continue to terminal dispositions before the task closes".             *)
StoppedSettles ==
    Waiting # {} /\ task.state = "postprocessing"
    ~> Waiting = {} \/ ForOperator \/ task.state # "postprocessing"

(* What the operator abandons takes its dependents along (Design.md 8.4). *)
AbandonedTakesDependents ==
    \A p \in Props : Idle /\ Is(p, "abandoned") =>
        \A q \in Props : p \in op[q].cited => op[q].state \notin Open
=============================================================================
