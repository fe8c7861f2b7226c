-------------------------- MODULE ExplorerRecords --------------------------
(***************************************************************************)
(* How what an Explorer worker records becomes visible, and how the        *)
(* visible records of a turn are frozen and handed to the sort of Franta.  *)
(*                                                                         *)
(*   src/explorer_system/repository.py  the append-only store              *)
(*   src/explorer_system/service.py     grants, handoffs, result checks    *)
(*   src/franta/explorer_adapter.py     the host of both                   *)
(*   src/franta/runtime.py              callbacks, receipt log, replay     *)
(*                                                                         *)
(* A worker stages a file in its outbox; the broker calls back, and under  *)
(* the lock of the scheduler the object is prepared in the store, its      *)
(* receipt is appended to the private log, and the receipt is trusted: the *)
(* three are durable one by one.  One turn is modelled: records of other   *)
(* turns enter none of the sets below.                                     *)
(***************************************************************************)
EXTENDS Integers, Sequences, FiniteSets

CONSTANTS
    Attempts,       \* attempts of the turn: <<lineage, number>>
    Ops,            \* operation ids the agents choose
    Objects,        \* what the agents may write: <<attempt, kind, operation>>
    MaxScratch,     \* explorer.max_scratch_per_attempt
    MaxPerTurn,     \* explorer.max_scratch_per_turn, of either record type
    MaxLaunch,      \* launches the retry policy and the recovery allow
    MaxCallbacks,   \* bound: callbacks on their way at one time
    MaxStops,       \* bound: full stops
    MaxWriteErrors  \* bound: writes of a receipt or of its trust that raise

RecordKinds == {"scratch", "summary"}
Kinds == RecordKinds \cup {"CAS"}

ASSUME ConstantsAssumption ==
    /\ \A a \in Attempts : a = <<a[1], a[2]>> /\ a[2] \in Nat \ {0}
    /\ \A o \in Objects : /\ o = <<o[1], o[2], o[3]>>
                          /\ o[1] \in Attempts /\ o[2] \in Kinds /\ o[3] \in Ops
    /\ {MaxScratch, MaxPerTurn, MaxLaunch, MaxCallbacks, MaxStops,
        MaxWriteErrors} \subseteq Nat

VARIABLES
    mode,       \* the process: up, down, or replaying the receipt log
    phase,      \* of the turn: open, drained, sort
    calls,      \* the call of an attempt: its state and its launches
    agents,     \* attempts whose agent process is alive
    grants,     \* the high water an attempt may read up to
    results,    \* the summary the accepted result of an attempt names
    state,      \* how far an object has come
    payload,    \* the launch that staged it, and what it cites
    evidence,   \* the CAS evidence its operations were resolved to
    writer,     \* the object inside the guarded commit tail, if any
    log,        \* the receipt log
    visible,    \* the records in the order of their visibility
    offer,      \* the frozen turn in the hands of the main thread, if any
    tasks,      \* the frozen turns that have a sort task
    runs,       \* the frozen turns that have a sort run
    begun,      \* the frozen turn the sort has begun with
    stops, errors,  \* full stops and write errors so far
    delayed     \* history: receipts whose own trust step did not happen

callVars == <<phase, calls, agents, grants, results>>
objectVars == <<state, payload, evidence, writer, log, visible, delayed>>
handoffVars == <<offer, tasks, runs, begun>>
faults == <<stops, errors>>
vars == <<mode, callVars, objectVars, handoffVars, faults>>

States == {"absent", "calling", "lost", "prepared", "logged", "shown"}
CallStates == {"none", "prepared", "running", "retry_pending", "ended"}
NoGrant == -1
NoPayload == [launch |-> 0, sources |-> {}, operations |-> {}]

Attempt(o) == o[1]
Kind(o) == o[2]
Operation(o) == o[3]
IsRecord(o) == Kind(o) \in RecordKinds

(* The rows of the store, whether a receipt makes them visible or not.     *)
Rows == {o \in Objects : state[o] \in {"prepared", "logged", "shown"}}
Shown == {visible[i] : i \in DOMAIN visible}
Logged == {log[i] : i \in DOMAIN log}

(* Attempts of one lineage run one after the other.                        *)
Earlier(a, b) == a[1] = b[1] /\ a[2] < b[2]
UpTo(a, b) == a[1] = b[1] /\ a[2] <= b[2]
(* Whether an attempt holds no process and no call that could launch one.  *)
Over(a) == calls[a].state \in {"none", "ended"} /\ a \notin agents

(* Every transition of the scheduler takes the lock the guard holds.       *)
LockFree == writer = {}
Mutating == mode = "up" /\ LockFree

Init ==
    /\ mode = "up" /\ phase = "open"
    /\ calls = [a \in Attempts |-> [state |-> "none", launch |-> 0]]
    /\ agents = {}
    /\ grants = [a \in Attempts |-> NoGrant]
    /\ results = [a \in Attempts |-> {}]
    /\ state = [o \in Objects |-> "absent"]
    /\ payload = [o \in Objects |-> NoPayload]
    /\ evidence = [o \in Objects |-> {}]
    /\ writer = {} /\ log = <<>> /\ visible = <<>>
    /\ offer = {} /\ tasks = {} /\ runs = {} /\ begun = {}
    /\ stops = 0 /\ errors = 0 /\ delayed = {}

(***************************************************************************)
(* The attempts.  Their planning is the subject of ExplorerTurns.          *)
(***************************************************************************)
(* start_attempt, first half: the grant is fetched, or created for good.   *)
Grant(a) ==
    /\ mode = "up" /\ phase = "open"
    /\ calls[a].state = "none" /\ grants[a] = NoGrant
    /\ \A b \in Attempts : Earlier(b, a) => calls[b].state = "ended" /\ Over(b)
    /\ grants' = [grants EXCEPT ![a] = Len(visible)]
    /\ UNCHANGED <<mode, phase, calls, agents, results, objectVars, handoffVars, faults>>

(* build_attempt_access_grant: what the grant of an attempt lets it read,  *)
(* the summary of its predecessor before all.                              *)
Readable(a) == {visible[i] : i \in 1 .. grants[a]}

(* start_attempt, second half: the scheduler records the attempt.          *)
Start(a) ==
    /\ Mutating /\ phase = "open"
    /\ calls[a].state = "none" /\ grants[a] # NoGrant
    /\ calls' = [calls EXCEPT ![a].state = "prepared"]
    /\ UNCHANGED <<mode, phase, agents, grants, results, objectVars, handoffVars, faults>>

Launch(a) ==
    /\ Mutating
    /\ calls[a].state \in {"prepared", "retry_pending"} /\ a \notin agents
    /\ calls' = [calls EXCEPT ![a] = [state |-> "running", launch |-> @.launch + 1]]
    /\ agents' = agents \cup {a}
    /\ UNCHANGED <<mode, phase, grants, results, objectVars, handoffVars, faults>>

(* The process ends and its capability is revoked; its callbacks go on.    *)
AgentEnds(a) ==
    /\ mode = "up" /\ a \in agents
    /\ agents' = agents \ {a}
    /\ UNCHANGED <<mode, phase, calls, grants, results, objectVars, handoffVars, faults>>

(* Mutant of Owned: a row is enough. *)
OwnedRow(a, m) == m \in Rows /\ Kind(m) = "summary" /\ Attempt(m) = a

(* The records a final response of the attempt may name as its summary.    *)
Owned(a, m) == m \in Shown /\ Kind(m) = "summary" /\ Attempt(m) = a

(* The reply passes validate_attempt_result and is accepted.               *)
Accept(a, m) ==
    /\ Mutating /\ calls[a].state = "running" /\ a \notin agents
    /\ Owned(a, m)
    /\ calls' = [calls EXCEPT ![a].state = "ended"]
    /\ results' = [results EXCEPT ![a] = {m}]
    /\ UNCHANGED <<mode, phase, agents, grants, objectVars, handoffVars, faults>>

(* What a failed launch, or one that a stop cut off, leaves of the call.   *)
AfterFailure(c) ==
    [c EXCEPT !.state = IF c.launch < MaxLaunch THEN "retry_pending" ELSE "ended"]

Fail(a) ==
    /\ Mutating /\ calls[a].state = "running" /\ a \notin agents
    /\ calls' = [calls EXCEPT ![a] = AfterFailure(@)]
    /\ UNCHANGED <<mode, phase, agents, grants, results, objectVars, handoffVars, faults>>

(* A deadline, a root candidate of a peer: the call is fenced, whatever    *)
(* its process is doing.                                                   *)
Fence(a) ==
    /\ Mutating
    /\ calls[a].state \in {"prepared", "running", "retry_pending"}
    /\ calls' = [calls EXCEPT ![a].state = "ended"]
    /\ UNCHANGED <<mode, phase, agents, grants, results, objectVars, handoffVars, faults>>

(***************************************************************************)
(* The callbacks.  An operation id is staged once per skill and attempt.   *)
(***************************************************************************)
Stage(o, sources, operations) ==
    /\ mode = "up" /\ Attempt(o) \in agents /\ state[o] = "absent"
    /\ Cardinality({c \in Objects : state[c] = "calling"}) < MaxCallbacks
    /\ sources # {} <=> Kind(o) = "summary"
    /\ operations # {} => Kind(o) = "scratch"
    /\ state' = [state EXCEPT ![o] = "calling"]
    /\ payload' = [payload EXCEPT ![o] =
           [launch |-> calls[Attempt(o)].launch,
            sources |-> sources, operations |-> operations]]
    /\ UNCHANGED <<mode, callVars, handoffVars, evidence, writer, log, visible,
                   delayed, faults>>

(* Mutant of MayWrite: the lease is compared, the state of the call is not. *)
MayWriteAfterEnd(o) == calls[Attempt(o)].launch = payload[o].launch

(* _require_current_explorer_write_locked.                                 *)
MayWrite(o) ==
    /\ calls[Attempt(o)].state = "running"
    /\ calls[Attempt(o)].launch = payload[o].launch

(* The newest evidence of an operation that an object may cite.            *)
Candidates(o, op) ==
    {c \in Rows : Kind(c) = "CAS" /\ Operation(c) = op /\ UpTo(Attempt(c), Attempt(o))}
Newest(o, op) ==
    {c \in Candidates(o, op) :
        \A d \in Candidates(o, op) : Attempt(d)[2] <= Attempt(c)[2]}
Resolved(o) == UNION {Newest(o, op) : op \in payload[o].operations}

(* Mutant of Citable: evidence only has to exist. *)
CitableUntrusted(o) ==
    /\ \A op \in payload[o].operations : Newest(o, op) # {}
    /\ \A s \in payload[o].sources : state[s] = "shown" /\ UpTo(Attempt(s), Attempt(o))

Citable(o) ==
    /\ \A op \in payload[o].operations : Newest(o, op) # {}
    /\ \A c \in Resolved(o) : state[c] = "shown"
    /\ \A s \in payload[o].sources :
           /\ Kind(s) = "scratch" /\ state[s] = "shown"
           /\ UpTo(Attempt(s), Attempt(o))

(* Scratches and summaries share their operation ids; evidence does not.   *)
Conflicting(o) ==
    \E r \in Rows : /\ IsRecord(r) /\ Attempt(r) = Attempt(o)
                    /\ Operation(r) = Operation(o)

RowsOf(a, kind) == {r \in Rows : Attempt(r) = a /\ Kind(r) = kind}

(* _prepare_record and prepare_cas_evidence, when they raise nothing.      *)
Insertable(o) ==
    /\ Citable(o)
    /\ IsRecord(o) =>
        /\ ~Conflicting(o)
        /\ Kind(o) = "scratch" => RowsOf(Attempt(o), "summary") = {}
        /\ Cardinality(RowsOf(Attempt(o), Kind(o)))
               < IF Kind(o) = "scratch" THEN MaxScratch ELSE 1
        /\ Cardinality({r \in Rows : Kind(r) = Kind(o)}) < MaxPerTurn

(* The guard is entered and the object becomes a row of the store.         *)
Prepare(o) ==
    /\ Mutating /\ state[o] = "calling"
    /\ MayWrite(o) /\ Insertable(o)
    /\ state' = [state EXCEPT ![o] = "prepared"]
    /\ evidence' = [evidence EXCEPT ![o] = Resolved(o)]
    /\ writer' = {o}
    /\ UNCHANGED <<mode, callVars, handoffVars, payload, log, visible, delayed, faults>>

(* The callback raises: its file stays in the outbox without a receipt.    *)
Refuse(o) ==
    /\ Mutating /\ state[o] = "calling"
    /\ ~(MayWrite(o) /\ Insertable(o))
    /\ state' = [state EXCEPT ![o] = "lost"]
    /\ payload' = [payload EXCEPT ![o] = NoPayload]
    /\ UNCHANGED <<mode, callVars, handoffVars, evidence, writer, log,
                   visible, delayed, faults>>

AppendReceipt(o) ==
    /\ mode = "up" /\ writer = {o} /\ state[o] = "prepared"
    /\ state' = [state EXCEPT ![o] = "logged"]
    /\ log' = Append(log, o)
    /\ UNCHANGED <<mode, callVars, handoffVars, payload, evidence, writer, visible,
                   delayed, faults>>

(* trust_receipt: a record gets the next place, evidence may be cited.     *)
TrustReceipt(o) ==
    /\ state' = [state EXCEPT ![o] = "shown"]
    /\ visible' = IF IsRecord(o) THEN Append(visible, o) ELSE visible

Trust(o) ==
    /\ mode = "up" /\ writer = {o} /\ state[o] = "logged"
    /\ TrustReceipt(o)
    /\ writer' = {}
    /\ UNCHANGED <<mode, callVars, handoffVars, payload, evidence, log, delayed, faults>>

(* The append raises: its line may have reached the log nevertheless.      *)
AppendFails(o) ==
    /\ mode = "up" /\ writer = {o} /\ state[o] = "prepared"
    /\ errors < MaxWriteErrors /\ errors' = errors + 1
    /\ \/ UNCHANGED <<state, log, delayed>>
       \/ /\ state' = [state EXCEPT ![o] = "logged"]
          /\ log' = Append(log, o) /\ delayed' = delayed \cup {o}
    /\ writer' = {}
    /\ UNCHANGED <<mode, callVars, handoffVars, payload, evidence, visible, stops>>

(* The last transaction raises: the receipt waits for the next replay.     *)
TrustFails(o) ==
    /\ mode = "up" /\ writer = {o} /\ state[o] = "logged"
    /\ errors < MaxWriteErrors /\ errors' = errors + 1
    /\ writer' = {} /\ delayed' = delayed \cup {o}
    /\ UNCHANGED <<mode, callVars, handoffVars, state, payload, evidence, log, visible, stops>>

(***************************************************************************)
(* Full stops.  The store, the log, the outbox and the scheduler survive.  *)
(***************************************************************************)
Crash ==
    /\ mode # "down" /\ stops < MaxStops /\ stops' = stops + 1
    /\ mode' = "down"
    /\ agents' = {} /\ writer' = {} /\ offer' = {}
    /\ state' = [o \in Objects |-> IF state[o] = "calling" THEN "lost" ELSE state[o]]
    /\ payload' = [o \in Objects |-> IF state[o] = "calling" THEN NoPayload ELSE payload[o]]
    /\ UNCHANGED <<phase, calls, grants, results, evidence, log, visible,
                   tasks, runs, begun, delayed, errors>>

Restart ==
    /\ mode = "down"
    /\ mode' = "replay"
    /\ UNCHANGED <<callVars, objectVars, handoffVars, faults>>

(* Mutant of Untrusted: every line of the log is applied again. *)
UntrustedAnew == DOMAIN log

(* Receipts of the log that the store does not trust yet.                  *)
Untrusted == {i \in DOMAIN log : state[log[i]] = "logged"}

ReplayReceipt ==
    /\ mode = "replay"
    /\ \E i \in Untrusted :
           /\ \A j \in Untrusted : i <= j
           /\ TrustReceipt(log[i])
    /\ UNCHANGED <<mode, callVars, handoffVars, payload, evidence, writer, log,
                   delayed, faults>>

Recover ==
    /\ mode = "replay" /\ Untrusted = {}
    /\ mode' = "up"
    /\ calls' = [a \in Attempts |-> IF calls[a].state = "running"
                                    THEN AfterFailure(calls[a]) ELSE calls[a]]
    /\ UNCHANGED <<phase, agents, grants, results, objectVars, handoffVars, faults>>

(***************************************************************************)
(* The handoff, taken by the main thread.                                  *)
(***************************************************************************)
(* Lineages end or are stopped: what is not started by then never will be. *)
Drained == \A a \in Attempts : calls[a].state \in {"none", "ended"}

Drain ==
    /\ Mutating /\ phase = "open" /\ Drained
    /\ phase' = "drained"
    /\ UNCHANGED <<mode, calls, agents, grants, results, objectVars, handoffVars, faults>>

(* create_handoff: everything visible of the turn.                         *)
Freeze ==
    /\ mode = "up" /\ phase = "drained" /\ agents = {} /\ offer = {}
    /\ offer' = {visible}
    /\ UNCHANGED <<mode, callVars, objectVars, tasks, runs, begun, faults>>

(* Both freeze_turn and prepare_main_sort_task: a task per frozen set.     *)
PrepareTask ==
    /\ Mutating /\ phase = "drained"
    /\ offer = {visible} /\ ~(offer \subseteq tasks)
    /\ tasks' = tasks \cup offer
    /\ UNCHANGED <<mode, callVars, objectVars, offer, runs, begun, faults>>

(* create_handoff_run checks the offer against the store once more.        *)
Frozen(h) == Len(h) <= Len(visible) /\ h = SubSeq(visible, 1, Len(h))

CreateRun ==
    /\ mode = "up" /\ phase = "drained"
    /\ offer # {} /\ offer \subseteq tasks /\ ~(offer \subseteq runs)
    /\ \A h \in offer : Frozen(h)
    /\ runs' = runs \cup offer
    /\ UNCHANGED <<mode, callVars, objectVars, offer, tasks, begun, faults>>

BeginSort ==
    /\ Mutating /\ phase = "drained"
    /\ offer # {} /\ offer \subseteq runs
    /\ phase' = "sort" /\ begun' = offer /\ offer' = {}
    /\ UNCHANGED <<mode, calls, agents, grants, results, objectVars, tasks, runs, faults>>

(***************************************************************************)
(* The specification.                                                      *)
(***************************************************************************)
(* What an agent may name: ids are allocated when a file is staged.        *)
StagedScratches == {o \in Objects : Kind(o) = "scratch" /\ state[o] # "absent"}
StagedOps == {Operation(o) : o \in {c \in Objects : Kind(c) = "CAS" /\ state[c] # "absent"}}

WorkerStep ==
    \/ \E a \in Attempts :
           \/ Grant(a) \/ Start(a) \/ Launch(a) \/ AgentEnds(a) \/ Fail(a) \/ Fence(a)
           \/ \E m \in Objects : Accept(a, m)
    \/ \E o \in Objects :
           \/ \E sources \in SUBSET StagedScratches, operations \in SUBSET StagedOps :
                  Stage(o, sources, operations)
           \/ Prepare(o) \/ Refuse(o) \/ AppendReceipt(o) \/ Trust(o)
           \/ AppendFails(o) \/ TrustFails(o)

Next ==
    \/ WorkerStep
    \/ Crash \/ Restart \/ ReplayReceipt \/ Recover
    \/ Drain \/ Freeze \/ PrepareTask \/ CreateRun \/ BeginSort

Spec == Init /\ [][Next]_vars

(***************************************************************************)
(* Properties.                                                             *)
(***************************************************************************)
(* The type of every variable.  Rows, receipts and visibility agree: what  *)
(* is logged has its line, and what is shown its place.                    *)
TypeOK ==
    /\ mode \in {"up", "down", "replay"}
    /\ phase \in {"open", "drained", "sort"}
    /\ calls \in [Attempts -> [state : CallStates, launch : Nat]]
    /\ agents \subseteq Attempts
    /\ grants \in [Attempts -> Nat \cup {NoGrant}]
    /\ results \in [Attempts -> SUBSET Objects]
    /\ state \in [Objects -> States]
    /\ payload \in [Objects -> [launch : Nat, sources : SUBSET Objects,
                                operations : SUBSET Ops]]
    /\ evidence \in [Objects -> SUBSET Objects]
    /\ writer \subseteq Objects
    /\ log \in Seq(Objects) /\ visible \in Seq(Objects)
    /\ {offer, tasks, runs, begun} \subseteq SUBSET Seq(Objects)
    /\ {stops, errors} \subseteq Nat /\ delayed \subseteq Objects

(* runtime.py, _record_broker_skill_result under explorer_skill_write_guard:*)
(* either the callback or the fence wins completely.  Whatever a callback  *)
(* still has in hand, the log gains no receipt of an attempt that ended.   *)
EndedIsFinal ==
    [][\A a \in Attempts : calls[a].state = "ended" =>
           \A o \in Logged' \ Logged : Attempt(o) # a]_vars

Position(o) == CHOOSE i \in DOMAIN visible : visible[i] = o

(* repository.py, _prepare_record: a visible record rests on evidence that *)
(* is trusted, and on scratches of its own lineage that became visible     *)
(* before it, also when a replay made them visible.                        *)
EvidenceStands ==
    \A o \in Shown :
        /\ \A op \in payload[o].operations :
               \E c \in evidence[o] : Kind(c) = "CAS" /\ Operation(c) = op
        /\ \A c \in evidence[o] : state[c] = "shown" /\ UpTo(Attempt(c), Attempt(o))
        /\ \A s \in payload[o].sources :
               /\ s \in Shown /\ Position(s) < Position(o)
               /\ UpTo(Attempt(s), Attempt(o))

(* alternation: the sort works on everything that was recorded.  Nothing   *)
(* that has a receipt is missing, unless its trust step was lost, and every*)
(* accepted result is there with its summary.                              *)
HandoffComplete ==
    \A h \in begun : LET given == {h[i] : i \in DOMAIN h} IN
        /\ \A o \in Logged : IsRecord(o) => o \in given \cup delayed
        /\ \A a \in Attempts : results[a] \subseteq given

(* explorer_adapter.py, start_attempt: an attempt reads, under the grant   *)
(* that was frozen for it, the summary its predecessor was accepted with.  *)
GrantCoversSummary ==
    \A a, b \in Attempts : Earlier(a, b) /\ grants[b] # NoGrant =>
        results[a] \subseteq Readable(b)

(* repository.py: visibility, frozen turns and runs only grow, and every   *)
(* frozen set is a beginning of what is visible.                           *)
Handoff == INSTANCE FrozenHandoff WITH
    Records <- {o \in Objects : IsRecord(o)}, shown <- visible, offers <- tasks

HandoffSpec == Handoff!Spec

(* scheduler.py, prepare_main_sort_task: "Create the task-bound,           *)
(* project-wide Franta sorting owner idempotently": one task per turn.     *)
OneSortTask == Cardinality(tasks) <= 1
=============================================================================
