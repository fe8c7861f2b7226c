# Franta: specifications and proofs

These TLA+ modules describe the parts of Franta whose correctness depends on
the order in which things happen: agents that answer late or never, a process
that is stopped and started again, memory that is published, referred to before
it exists, and revoked. They are checked by TLC on small instances, and the
invariants that carry the design are proved with TLAPS for instances of any
size. Paths below are relative to the repository root, seen as `src/`.

## The system

Franta runs long mathematical research projects with language-model agents. One
process owns a project. It keeps its control state in one versioned document
that every scheduler transaction replaces by compare-and-swap
(`src/franta/scheduler.py`, `_mutate`), and the mathematics in an SQLite store
(`src/franta/store.py`). Agents run as child processes. They propose; only the
scheduler writes.

| component | state | operations | talks to |
| --- | --- | --- | --- |
| logical calls (`execution_gateway/call_state.py`) | call records: status, lease epoch, fenced epochs, retry budget, reply digest | the events of `reduce_call` | scheduler |
| control loop (`runtime.py`) | one thread for main and review calls, one per Explorer and worker call | run, accept, fail, commit | transport, scheduler |
| scheduler (`scheduler.py`) | operations, tasks, attention items, halt, lineages, sprints | `prepare_*`, `accept_*`, `apply_*`, `mark_*`, operator commands | store |
| recovery (`recovery.py`) | none of its own | rewrites the control state after a full stop, then replays ingestion | scheduler, store |
| memory store (`store.py`) | memories, Fact dependencies, route links, temporary ids, pending references, deferred relations, root resolution | `apply_operation`, duplicates, rejection, abandonment, removal, `revoke_fact` | scheduler |
| tasks and worker attempts (`scheduler.py`, `attempt_budgets.py`) | task states, attempts, slots, budgets | admit, start, end, stop, reassign, close | calls, operations |
| Fact proposals (`scheduler.py`) | lineages, rejected bundles, repair chains | verify, revise, concede, publish | verifier calls, store, tasks |
| alternation (`explorer_system/alternation.py`, `phase_control`) | the phase and its deadlines | drain, sort barrier, ticks, root candidate | Explorer control, runtime |
| Explorer control (`explorer_system/control.py`, `explorer_adapter.py`) | lineages and their attempts | admit, start, expire, acknowledge, claim root, restart | calls, repository |
| Explorer repository (`explorer_system/repository.py`) | records, receipts, frozen turns, exports | prepare, trust, freeze, stage, resolve | broker, main sort |
| main sort (`runtime.py`, `explorer_system/main_sort/`) | the sort task, progress files, the ledger of exports | launch, authenticate, declare, ingest, mirror | repository, scheduler |
| sprints and trimming (`exploration_control`, `trim_category`) | sprint plan and phases, gate, category revisions | plan, launch, cancel, summarise, publish | scheduler |
| Advisor (`advisor_system/state.py`) | rounds and their status | open, accept, feedback, finalize | guidance inbox |
| human guidance (`human_guidance.py`) | inbox of answers | submit, claim | dashboard, scheduler |
| agent sessions (`execution_gateway/transport.py`, `broker.py`, `cas_process.py`) | thread ledger, audit files, capabilities, CAS processes | launch, bind, resume, revoke | calls, skills |
| read access, prompts, rendering, dashboard, CLI, evaluation | none that the rest relies on | read, format, serve | everything |

What is hard in it:

* runner threads read state, wait for an agent, and write later; the agent's
  reply may come after a failure was recorded, after a cancellation, or twice;
* a full stop may fall between any two transactions, and between the control
  state and the store, which are separate databases;
* retries are spent by failures, invalid replies and stops, and renewed by the
  operator, who may also abandon what a call was working for;
* records refer to proposals that do not exist yet, and the answer may be a
  new record, an older one, a merge, a rejection, or nothing;
* revocation removes a Fact and everything that was built on it, while other
  records wait for it;
* one decision is spread over several stores (control state, mathematics,
  Explorer repository, categories, files), written one after the other;
* the operator acts from the dashboard on what it read some time ago.

Where the correctness of each part lies:

| component | what makes it correct |
| --- | --- |
| logical calls | a lease epoch is launched at most once; only the reply of the last launch is kept; launches are paid from the budget; an applied reply is never run or applied again |
| control loop, operations | the halt flag agrees with the calls; one live main call; a disposition is never taken back; every prepared review settles or asks the operator |
| memory store | an active Fact rests on active Facts only; whatever waits for a proposal can still end; terminal ids stay terminal; the status of the root agrees with the active proofs |
| tasks and attempts | a task closes once, after all its operations; slots are released once; a stop does not consume research attempts |
| Fact proposals | every rejected proof is repaired, conceded or abandoned; a verdict reaches the attempt it is about |
| alternation, Explorer | Franta starts on a drained turn and sees all its records; one worker per lineage; a root candidate stops everything; lineages keep their allowance; a turn ends |
| Explorer repository | a visible record rests on trusted evidence; a frozen turn does not grow; an ended attempt is silent |
| main sort | only what the accepted launch staged is ingested; the ledger comes before the operations and is mirrored from them; planning sees the whole sort |
| sprints, trimming, guidance | gate, trim record, categories, sprint and root never contradict each other; a summary covers its sprint |
| Advisor | the next cycle works on what the operator chose; a report is that of the launch accepted; a command whose receipt accepts it is the feedback of its round |
| agent sessions | a conversation never splits; nothing of a revoked launch runs on |

## Modules

| module | models | used by |
| --- | --- | --- |
| `LogicalCall` | `reduce_call`: one call record, one operator per event | `CallLifecycle`, `ExplorerTurns`, `MainSort`, `SearchControl`, `AgentSessions`, `AdvisorRounds` |
| `CallLifecycle` | calls, their runners and owners: preparation to durable commit, failures, cancellation, operator, full stop and replay | `CallLifecycleMC`, `CallLifecycleProofs` |
| `MemoryStore` | the canonical store: publication, references to come, revocation, root resolution | `MemoryStoreMC`, `MemoryStoreProofs` |
| `ExplorerTurns` | phases, lineages, the pool of workers, the handoff to the sort, expiry, root candidates, full stops | `ExplorerTurnsMC`, `ExplorerTurnsProofs` |
| `ExplorerRecords` | how records of an attempt become visible and a turn is frozen and handed over | `ExplorerRecordsMC`, `ExplorerRecordsProofs` |
| `FrozenHandoff` | the abstract specification of that: what the repository promises to the sort | `ExplorerRecords` (refinement) |
| `MainSort` | the sort call, its progress files, the ledger of exports, the barrier before planning | `MainSortMC`, `ExplorerTurnsProofs` |
| `TaskLifecycle` | tasks of Franta: batches and slots, attempts, retries, revisions and concessions, completion evidence, closing, drains, full stops | `TaskLifecycleMC`, `TaskLifecycleProofs` |
| `FactProposals` | proposals that wait for proposals: gates, release, refusal and its cascade | `FactProposalsMC`, `MemoryStoreProofs` |
| `TrimControl`, `SprintState` | the reducers of the trim record and of the sprint record, a guard and a result for each | `SearchControl` |
| `SearchControl` | the assignment gate: trimming, guidance, sprints, resolution and revocation of the root | `SearchControlMC`, `SearchControlProofs` |
| `AgentSessions` | launches of one persistent conversation: thread ledger, capability, CAS processes | `AgentSessionsMC`, `AgentSessionsProofs` |
| `AdvisorContracts` | what an Advisor round binds and is checked against, as operators | `AdvisorRounds` |
| `AdvisorRounds` | the rounds of the Advisor and the desk of the operator | `AdvisorRoundsMC`, `AdvisorRoundsProofs` |

`*MC` modules are what TLC is run on; they hold the values that a
configuration cannot write, and symmetry where the system has it. `*Proofs`
modules hold the theorems: two of them take a second component with the one
they are named after, `ExplorerTurnsProofs` the sort that follows the Explorer
phase in a turn, and `MemoryStoreProofs` the proposals that reach the store; the
names of `MainSort` and `FactProposals` are chosen so that they can be extended
together with these (`SortSpec`, `ProposalSpec`). `PROJECT.json` names, for every definition that
models code, the lines it stands for. A definition whose comment says
*Mutant of D* is a plausible wrong version of `D`: putting it in the place of
`D` must break one property, which shows that the property says something about
the code.

The modules meet where the code has a narrow interface. `LogicalCall` is the
same reducer in all of them. The end of an Explorer attempt in `ExplorerTurns`
is the commit of its call in `ExplorerRecords`; the frozen turn that
`ExplorerRecords` hands over is what `MainSort` promotes; the phase that
`MainSort` opens is where the tasks of `TaskLifecycle` run; the proposals a task
declares are ordered by `FactProposals` and published by `MemoryStore`, and each
of their reviews is a call of `CallLifecycle`; root Facts that the store resolves
or revokes arrive in `SearchControl`; a drained phase opens a round of
`AdvisorRounds`, whose calls share one conversation, `AgentSessions`.

### Calls and reviews (`LogicalCall`, `CallLifecycle`)

`LogicalCall` is the reducer of `call_state.py`, one operator per event:
`Launch`, `ReceiveResult`, `RecordTransportFailure`, `RejectInvalidResult`,
`CommitResult`, `Fence`, `Cancel`, `AuthorizeRetry` and the reconciliation after
a full stop. A predicate `Can...` is what the reducer checks before it accepts
the event. A reply is the number of the launch it comes from.

`CallLifecycle` puts these records to use. `calls` is `state["calls"]`,
`runners` the local state of `_run_prepared_call` (which call it drives and with
which lease), `ops` the operations and what was applied to them, `task` the one
task whose closing depends on them, `attention` and `halt` the items of the
operator and the flag derived from them. `phase` says whether the process is
up, down, or replaying. Each transaction of the scheduler is one action; a
runner that reads state and writes in a later transaction has one action for
each (`AgentFails`, then `RecordFailure`). Full stops happen between any two.

### Memory store (`MemoryStore`)

Each operation of `store.py` is one SQLite transaction and one action:
publication of any of the five kinds of record, update, duplicate, rejection,
abandonment, removal and revocation of a Fact. `mem` holds the records,
`temps` the temporary ids, `refs` and `deferred` the references and relations
that wait for them, `links` the current support of routes, `ops` what was
recorded of each operation, `root` the root resolution. The content of records
is left out: of a payload the model keeps the ids it names and whether the code
would refuse it.

### Explorer turns (`ExplorerTurns`)

`ctl` is `phase_control`, `budget` its `attempt_budget`, `lineages` and
`attempts` are `explorer_control`, each attempt with the record of its call.
`runners` are the threads of the pool, `loop` is the place of the main thread:
in the wave, between wave and check, in the handoff under the lock of the
operator's limits, or leaving the wave with an exception. `receipts` and
`visible` are the two ends of recording: the private log and what the
repository shows. `sortTasks` are Franta's sort tasks by the cycle and the
records they sort. Franta's half is the part that alternation sees: the sort
closes, attempts are used, the tail ends, the next cycle starts.

The wave collects, plans and launches in one pass; the model lets it do these
one at a time in any order, which contains the order of the code. A lineage is
admitted only when nothing else can be planned, as in `_plan_calls`. Time is the
freedom of an attempt to expire, and of an edit of the limits to become due.

### Tasks (`TaskLifecycle`)

`task` is `state["tasks"]` with the fields that decide what happens to a task:
its state, its reservation, the number of its attempt, its retries, the pending
supplement, the outcome and the evidence its agent named, and the close intent.
`att` are the attempts and their supplements, `op` the operations in the order
of their receipt, with the repair chain a Fact belongs to and the revision
requests answered on it so far. `published` are the tasks that have a record in
the store.

Everything but the agents runs on the main thread, and `at` says where it is:
in the loop of `FrantaRuntime.run`, launching the tasks of a batch one by one
(`queue`), waiting for their processes (`alive`) while reviews go on, down, or
recovering. A handler of the scheduler often ends with
`_recheck_reference_blocked_tasks` or `_maybe_close_task`; these take several
transactions, between which a full stop may fall. `due` holds the tasks for
which they are still to be called, and everything else on the main thread waits
until `due` is empty and every received operation is routed (`Idle`).
`_maybe_close_task` and the publication it leads to are the actions of
`Closing`, one for each of its exits. `unpublished` is the attention item
`task-publication`, which a failed publication leaves until one succeeds.

A review (synthesizer, verifier, closure) is its final answer or its exhaustion;
what happens to its call on the way is the subject of `CallLifecycle`. A Fact
is reviewed by both; a `"proposal"` stands for new routes and obligations, which
only a synthesizer looks at; memos and claims go to the store at once. The
outcomes finished, progress and failed are one, `"normal"`.

A verdict waits for the end of the attempt that submitted the Fact. The return of
a Fact whose proof was refuted before (`_return_identical_bundle_locked`) does
not: `ReturnIdentical` may come while reviews go on beside a batch, and then ends
the running attempt (`"returned"`), gives its slot back and sends the task into
the revision `identical_rejected_bundle`, while the worker process is there until
the batch has cancelled it (`ProcessGone`; `runtime.py` 3909-3928). So a process
may outlive its attempt, and for that long it has no slot; `OneRunningAttempt`
says what holds of it: it belongs to the last attempt of its task, and none is
launched until it is gone. Which proofs are the same is left open: once a verdict
has refuted some Fact (`refuted`), any other may turn out to repeat it
(`MayBeRefuted`). When that is found only before the verifier starts
(`verification_bundle`, of a Fact refuted while it waited), the Fact is returned
in the same way and the `SchedulerError` raised there ends the run
(`ReturnBeforeVerifier`, `RunFails`); the operator has to start it again.

### Fact proposals (`FactProposals`)

`op`, `proposals`, `mapping` are the control records of one task's temporary
ids; `store` is what canonical memory was told of them. The ids an operation
cites are of two kinds: `explicit` predecessors, and citations in the `body`,
which count once the id is declared or reserved. `Gates` are those that stand
for no Fact yet. A method of the scheduler is a first transaction and a tail of
further ones (routing, resolutions, rejections, markers in the store): `agenda`
is that tail. A full stop forgets it, and `Recover` replays what the code looks
for: rejected operations, resolutions, and the scan of a task with its final
receipt. The end of the task makes every gate that nobody can fill
(`DeadGates`) a refusal, which cascades.

### Explorer records (`ExplorerRecords`, `FrozenHandoff`)

A worker stages an object; the broker calls back under the lock of the
scheduler, and the object is prepared in the store, its receipt appended to the
log, and the receipt trusted. These are three durable steps (`state`), and a
stop or an error may come between them; `Replay` repeats the rest from the log.
`writer` is the object inside the guarded commit tail. CAS evidence must be
trusted before a record that cites it is, and a scratch before what cites the
scratch. `grants` is the high water an attempt may read up to, frozen at its
launch. When no attempt is left open the turn is frozen (`offer`), gets a sort
task and a sort run, and the sort begins; these are separate transactions too.

`FrozenHandoff` says it without workers, receipts and stops: records are shown
one after the other, an offer is everything shown at one moment, the sort
begins once, on an offer. `ExplorerRecords` implements it with `shown` the
visible records, `offers` the turns that have a sort task and `begun` the sort.

### The main sort (`MainSort`)

`pc` is the place of the main thread between the sort barrier and the planning
call. The sorter stages progress files through the broker (`progress`, with
callbacks in `flying`), and each receipt is bound to the launch that staged the
file. Its reply is checked twice against the receipts, before it is accepted and
again before it is ingested. Promotions are declared in the ledger of the
repository (`declared`, `ledger`), then become operations (`ops`); the outcomes
of their reviews are mirrored back. A refused reply counts against the retries
of the call while it runs; after it was accepted a refusal ends the run of the
process, and the next one meets it again.

### Search control (`SearchControl`, `TrimControl`, `SprintState`)

`gate` is the assignment gate. `trim` and `sprint` are the records that the
reducers of `trim_category/control.py` and of the sprint return; those are in
`TrimControl` and `SprintState`, one guard and one result per transition, as in
the code, where the caller writes the gate. `catalog` is the store of
categories, a database of its own, so a decision reaches it and the scheduler
one after the other. A result of Main or of the Trimmer is accepted, then
applied in several transactions; `passed`, `applied` and `stored` say how far,
`due` holds the tails that closing tasks leave. `lane`, `summary` and `task` are
the workers as far as the gate looks at them: a lane runs, and then closes or
asks the operator (`LaneAsks`), after whose answer its closing goes on
(`AnswerLane`). `Rest` is the end of `run`: the gate waits or the project is
complete, planning is halted, the sprint needs attention, or every open lane
waits for the operator; lanes may be open at it. `standing` gives each active root
Fact its place in commit order, `revoked` are those revoked since, and `root` is
the outcome the scheduler keeps of them.

### Agent sessions (`AgentSessions`)

The calls of one conversation are numbered, proposals odd and finalizations
even. `audit` and `ledger` are the files that say in which thread a call ran; a
kill may tear a line (`torn`). `pc` is the place of the host in `_invoke_agent`
and the transport: deciding what to resume, launching, issuing the capability,
writing its file, running, reading the outcome, revoking. CAS requests run in
handler threads of the broker (`stage`), beside the host, until their call is
closed. Ctrl-C unwinds the `finally` clauses, a kill does not.

### Advisor rounds (`AdvisorRounds`, `AdvisorContracts`)

`AdvisorContracts` holds the pure checks: which obligations a report may offer
again and on what evidence, which choices a human may make, what assignment and
problem file follow. `AdvisorRounds` is the program around them. `round` and
`history` are `advisor_control`; `ws` is the workspace of the proposal call with
the report the agent staged; `files` are the problem files of the cycles.
`commands` and `receipts` are the feedback inbox of the dashboard, which
publishes at any time what it chose on what it had read; only the runner
consumes them, between its steps. A command line binds feedback while no runner
is up. A polling thread applies raised limits, which may reopen the phase, at
any moment when no round is open.

## What the runs check

`Leftover` reproduces a disagreement between the code and what is said of it; the
other runs have no counterexample. A property of a run that joins several
questions about one thing is a conjunction of named parts, each with a comment
of its own in the module. The type invariants of `MainSort` and `FactProposals`
are parts of the first invariant of their run; those of the other modules are
proved.

| run | instance | shows |
| --- | --- | --- |
| `Reviews` | two calls of any kind, a Fact, one retry, one stop, one authorization | `LeaseDiscipline`: a lease is launched once, a reply is that of the last launch, launches are paid for. `PlanningIsGuarded`: the halt flag agrees with the calls, one main call is live. `AppliedOnce`. `ReviewSettles`: once stops cease every prepared review settles or waits for the operator |
| `Store` | three records of all five kinds that name each other, both outcomes of the root | `ActiveFactsSupported`. `StatusesStand`: the root stands on an active proof and obligations without support are marked. `NothingStrands`: every reference and relation that waits can still end |
| `Turns` | two lineages, two workers, two cycles, a retry, an edit of the limits, one stop | `SortIsWhole`: the sort begins on a drained turn with every record that has a receipt. `CandidateStops`. `TurnReachesSort` |
| `Records` | two attempts of a lineage with evidence, scratches and a summary; two launches, two callbacks in flight, a stop, a write that raises | `EvidenceStands`: a visible record rests on trusted evidence. `GrantCoversSummary`: an attempt may read what its predecessor ended with. `EndedIsFinal`: no receipt of an attempt that has ended. `HandoffSpec`: the refinement of `FrozenHandoff` |
| `Sort` | two ids, one of which another task has; two files, two callbacks, one retry, one stop, one decision of the operator | `LedgerInv`: only authenticated files are ingested, after the ledger has them, and the ledger is right about each. `PlanningSeesSort`. `SortSettles` |
| `Slots` | two tasks, one the proof-writer, one slot, one operation, three attempts, one retry, one stop, one renewed review | `SlotDiscipline`: running tasks and reservations stay within the slots. `TaskSettles`: a task is closed with its record published, or waits for the operator or a kept slot for ever |
| `Repairs` | one task, three operations (Facts and memos), three attempts, one revision request, one retry, one stop | `OneRunningAttempt`: no two agents work on one task, also when a process outlives its attempt. `RepairsKept`: revisions stay within the budget and a retry keeps what it repairs. `SoundOutcome`: the outcome rests on sound evidence and a concession has its memo. `ClosingIsFinal` |
| `Facts` | three ids, two declared, two gates each (forward, cyclic, undeclared), two attempts, one stop, one abandonment | `PublishedOnResolved`, `NoDeadGate`: a refusal has reached every dependent, `RefusedForGood`, `WaitingSettles` |
| `Search` | a stuck report, three control calls, a sprint of two lanes beside a task, two root Facts, one stop, one decision of the operator | `SummaryCoversSprint`, `CatalogNeverBehind`, `GateStands`: gate, trim record, sprint and root agree, `SprintReachesBarrier`: running lanes reach their barrier, unless from some moment on planning is halted or a lane waits for the operator |
| `Sessions` | a proposal and a finalization, three launches each, two CAS requests, two stops, torn lines | `OneConversation`: the thread is found again and never splits, `QuietAfterRevoke`, `RevokeCompletes` |
| `Advisor` | two rounds, two launches, two stops, invalid replies, stale commands, raised limits | `AssignmentFollowsHuman`, `RoundHoldsDrain`, `ReportOfOneLaunch`, `RepeatsHaveNewEvidence`, `ReceiptMatchesBinding`, `AnsweredRoundCloses` |
| `Leftover` | one call, one kill | the finding below |

Most runs take between half a minute and two minutes with two workers; `Slots`
(719 thousand states), `Search` (994 thousand) and `Repairs` (3.5 million) take
two to three.

### Bounds

Every property is about one or two calls, records, lineages or requests and the
orders of what happens to them, so two of each and sometimes a third to stand
between them give the interesting cases. Retries and stops are bounded by one
where a second one meets the same states with a higher number; the theorems
cover the numbers. All `Max...` constants are such bounds, each a guard of the
actions that count.

* `MemoryStore`: three records allow a chain, a diamond on the root and two
  proofs of opposite outcomes; `RootConflict` takes a fourth.
* `ExplorerTurns`: a lineage has one attempt in `Turns`, to leave room
  for an edit of the limits; `AttemptLimit` = 2 with `MaxEdits` = 0 has been run
  as well. That a lineage keeps its attempts is a theorem
  (`AllowanceKept`). `MaxWorkers` stands
  for `explorer.max_workers` and for the slots of the project, which the
  configuration keeps at least as large.
* `ExplorerRecords`: the second attempt repeats the evidence of the first and
  begins from its summary; the theorems take any number of attempts and objects.
* `TaskLifecycle`: who has a slot needs two tasks and one slot, but no more than
  one operation to hold a task up; what becomes of repairs needs one task with
  an attempt before the repair, one for it, and one to repeat it, and three
  operations, two Facts and a memo being the most a chain and its concession
  use. Evidence is named in `Repairs`: an operation of an earlier attempt that
  is refused or abandoned after it was named needs one task only. The two
  revision requests of the code are one there (`LostRepair` has two); one retry is
  spent by a failure or by a stop, and the theorems take any number of them. A
  process outlives its attempt when one Fact was refuted and a second one, of the
  attempt that answers, repeats it.
* `FactProposals`: with three ids a proposal can wait for one that waits, for
  itself, for a later one, and for one nobody declares.
* `MainSort`: of the two ids one is taken, so that an operation can fail to be
  received; a second file lets items of one reply be authenticated apart.
* `SearchControl`: three control calls are a review, a trim and a selection, or a
  decision of Main in between. A sprint has as many lanes as there are slots. Two
  root Facts of opposite outcomes allow a resolution, its revocation and a
  conflict; which of several proofs inherits a resolution matters to no property,
  and the theorems cover any number of them.
* `AgentSessions`: three launches are an interrupted one, a failed one and the
  last; two CAS requests are one in a handler when the call is revoked and one
  that arrives late.
* `AdvisorRounds`: two rounds, because what a round may repeat depends on an
  earlier one. One record with two revisions tells fresh evidence from stale.
  `RetryLimit` is zero: a stopped call goes on through the operator, so that
  launches of one call differ while the instance stays small.

`CHECK_DEADLOCK FALSE`: every one of these systems may stop (all calls settled,
all ids used, the last stop).

### Fairness

Nothing is assumed of agents except that their processes end, for every one has
a time limit and is killed at it; of the operator, stops, expiry and raised
limits nothing is assumed at all.

* `CallLifecycle`: the control loop goes on taking review steps, main steps and
  steps of the replay: `run` looks at every pending call in each pass.
* `ExplorerTurns`: the same of the main thread and of each worker thread.
  `TurnReachesSort` gives up when the process goes down.
* `TaskLifecycle`, `MainSort`: the main thread takes some step when it can, for
  the loop goes round until no task is left and the checks in `due` are calls it
  makes itself. The properties give up where the operator has to act or a bound
  ends the story. `TaskSettles` requires both the closed state and the record in
  the store; a failed publication excuses a task only if its attention item
  stays, that is if no later attempt to publish succeeds.
* `FactProposals`: the method that runs takes its next step, reviews that wait
  are answered (`CallLifecycle` shows how), and a stopped process is started
  again: what waits after the final receipt has to be found by the recovery.
* `SearchControl`: the one thread that drives everything does what it can do
  (`Progress`): it resumes and enters its loop, a call that runs ends and is
  applied, lanes start and end, tails and sprint steps are taken; each is a part
  of one pass of the loop. A worker is timed, but what it leaves may wait for the
  operator, so a lane ends in closing or in asking, and nothing says that it is
  answered. Nothing is assumed of the operator: `SprintReachesBarrier` gives up
  when from some moment on planning is halted or some lane waits for him.
* `AgentSessions`: the host waits for the processes of a revoked call
  (`cas_process.py` 97), and each handler thread goes on. That the wait has a
  time limit of six seconds per process is left out: it succeeds.
* `AdvisorRounds`: a runner goes on advancing, publishes a receipt it has
  decided, and is started again after a stop; the last is the operator's part in
  a project that is to continue, and `AnsweredRoundCloses` is about such a one.

One exception to the slots is in the code: a proof-writer that is stopped while a
slot is reserved for it keeps the slot until its record is published
(`scheduler.py` 9058-9108 changes the state and leaves the reservation), so that
while publishing fails nobody else may be assigned; `SlotIsKept` names it, and `RestingHoldsNoSlot` leaves the writer out.

## What is proved

The theorems hold for every value of the constants that satisfies the named
assumptions, which TLC evaluates in each run. `PROJECT.json` lists them; those
that state a property of a run name it.

* `CallLifecycleProofs`: `TypesHold`, `LeasesAreUnique`, `RepliesAreOfLastLaunch`,
  `LaunchesArePaid`, `BudgetIsKept`, together `LeasesDisciplined`. The inductive
  invariant says of each call, on its own, how its epoch, its fenced epochs, its
  launches and its retries are related (`CallOK`), and of each runner how its
  lease is related to its call (`RunnerOK`). One lemma says that every event of
  the reducer keeps `CallOK` and moves the call forward in a sense that keeps
  every `RunnerOK`; one step per action then applies it. `EachLeaseOneLaunch`
  alone is not inductive: a launch consumes the current epoch, which must not
  have been launched before, and that is what the fenced epochs are for.
  `PlanningGuarded` adds `GuardInv`: a planning call under which a runner may
  still report a failure is running or completed, or has lost its epoch with its
  cancellation, so a late failure never revives a cancelled call. For
  `RepliesAppliedOnce`, `ReplyInv` relates each review to its operation and to
  what its runner does next: the operation points at the call whose reply it
  recorded, that call is only committed or fenced, a verdict that is recorded and
  not yet published has its runner or the replay to publish it, and an operation
  has one open synthesizer. `DispositionsStand` is an action property: nothing
  revises an operation that was committed or rejected. It needs `DecisionInv`:
  one thread runs all main and review calls, a review that is still awaited is one
  of an open operation, and what is left of a decided one is a completed call
  whose reply it took.
* `MemoryStoreProofs`: `StoreTypes` and `FactsSupported`. The strengthening says
  that predecessors of Facts are Facts, which are never deleted, and that only a
  revocation makes a Fact inactive. The heart of the proof is that the revoked set
  is closed: whatever has a predecessor in it is in it (`Descendants` is the
  least such set, and the proof uses only that it is one). `NothingEverStrands`
  needs `CausesKnown`: a relation is deferred under the id of a proposal that is
  committed from then on, so a later rejection cannot take its rows for its own.
  `StatusesAlwaysStand` needs that every resolution in the history names a Fact.
  Two action properties go with them: `TerminalIdsKept`, terminal temporary ids
  stay as they are, and `RelationsOnActiveFacts`, a relation enters an obligation
  only while its Facts are active.
* `MemoryStoreProofs`, of `FactProposals`: `ProposalTypesKept`,
  `PublishedFactsRest`, `NoProposalIsStranded`, and the action property
  `RefusalsStand`. The invariant is `ProposalInv`. `Cited` and `Mapped` say what a
  published Fact rests on: an operation that has passed its gates cites Facts
  only, and what stands for a Fact was never refused and can no longer be.
  `Controlled` ties each control record to its operation: nothing open rests on
  a refused proposal. `Agenda` says that the steps a method has left find the
  state they were planned in, at most one of them a step that must come next;
  it is stated through what a series `Holds` under a name and which proposals it
  `Aims` at, so that the proof never needs the order of an agenda. `TailsOwed`
  and `ScanOwed` say what a running process still owes and has on it: a marker, a
  refusal, the scan of a final task. A stop forgets the agenda and with it these
  two (they begin with `up`); recovery has to bring them back from the records,
  which is where `Controlled` is needed. That what waits has a path to publication
  is stated as membership in every set closed under release (`Reaches`), and
  `PublishableReaches` shows it to be the `Publishable` of the scan: a cascade
  then takes paths away from what it refuses alone (`CascadeScan`), without
  induction on their length. The steps are sorted into kinds (`StepKinds`): quiet
  ones, moves of one operation, commits, releases, declarations, and cascades, of
  which recovery is one, from the rejected operations it finds (`Disowned`).
* `ExplorerTurnsProofs`: `TurnTypes`, `OneWorker`, `AllowanceKept`,
  `CandidatesStop`, `SortAfterDrain`, `SortIsComplete`, `WholeTurnSorted`. The
  steps are first reduced to a few effects: on lineages and attempts
  (`LineageEffects`), on the pool (`PoolEffects`), on the phase
  (`ControlEffects`), on the main thread (`LoopEffects`) and on the records
  (`RecordEffects`); each invariant is then preserved effect by effect. Four
  strengthenings are needed. `Forced`: only a candidate forces a lineage to stop.
  `AttemptsOpen`: an attempt that is not over has a call the candidate can still
  cancel, else its lineage would be left in `stop_requested`. `LoopOK`: the place
  of the main thread belongs to the half of the cycle the phase is in, and no
  worker outlives its wave; without it nothing forbids a claim or a launch after
  the sort began. `RecordsOK`: while the process is up the repository shows what
  the log holds, and the sort task is there before its phase. `SortIsComplete`
  rests on `SortAfterDrain`, since a worker in flight could still write.
* `ExplorerTurnsProofs`, of `MainSort`: `LedgerAlwaysTrue`, `PlanningFollowsSort`,
  `RunOpensAfterSort`, and the action property `ResolutionsStand`. The invariant
  is `SortInv`, of four parts beside the ledger's. `CallPlace` says which states
  the call may have at each place of the main thread, that the accepted reply is
  that of the last launch, and that declarations are pending during the export
  alone. `BatchSound` says what the batch that passed the first check holds until
  it is ingested: files of the accepted launch with their receipts, one of them
  final, and every item of theirs either declared by its file already or still to
  be declared. `TaskFollows` and `PlanningFollows` order the rest: files are
  ingested behind an accepted reply, the sort task closes when no operation is
  open, and planning begins once, behind the closed task. That a receipt, once
  given, stays (`FilesGrow`) carries the batch over the callbacks that come late.
* `ExplorerRecordsProofs`: `TypesHold`, `EvidenceIsSound`, `GrantsCoverSummaries`,
  `EndedStaysSilent`, `HandoffIsComplete`, and the refinement
  `RecordsImplementHandoff`. The invariant has eight parts
  besides the types. `Located`: what has been shown and logged is what the state
  of the objects says, each once; `Guarded`: an object in the commit tail is
  durable and its attempt runs; `Waiting`: a receipt that is not trusted yet has
  its callback, or is one the replay will find; `Grounded` and `Ordered`: what a
  row cites was trusted before it; `Named` and `Granted`: an accepted summary is
  visible, and within the grant of the attempts after it; `Handed`: a frozen turn
  holds every record that has a receipt, except those whose trust step failed
  (`delayed`). For the refinement every step either
  shows one record, creates or begins the task of the frozen turn, or is a
  stutter; that no record is shown twice, and that the sort begins with a turn
  that was offered, come from the invariant.
* `TaskLifecycleProofs`: `TaskTypes`, `OneAgent`, `SlotsSuffice`,
  `RestGivesSlotBack`, `SlotsDisciplined`, `ReviewsFirst`, `SoundEvidence`,
  `MemoOfConcession`, `OutcomeSound`, `ClosingFinal`. Most steps are quiet: they
  neither assign, start nor end attempts and receive no operation (`Quiet`), and
  one lemma shows that quiet steps keep the invariant. The others are the moves
  of the main thread, the assignment, the start and the end of an attempt, its
  end by a return (`ReturnsRunning`), the receipt of an operation, and the
  recovery, with one lemma each. `OneAgent` covers the process that outlives a
  returned attempt: the batch does not end before it, so nothing of its task can
  be launched beside it. Three
  strengthenings are needed. `Places` ties operations and processes to the place
  of the main thread: in the loop no process is left, and a batch is launched
  only when nothing is under review. `Frozen`: a closing task has settled, and
  its evidence is its own, so that nothing can arrive that would undo the
  closing. `Linked`: a repair names a Fact, an operation an attempt of its task.
  From them follows that a verdict of a verifier never meets a running attempt of
  its task (`VerdictFindsTaskIdle`), though `_handle_incorrect_fact` has code for
  that. The return of a refuted proof by the synthesizer does meet one, the very
  attempt that submitted it.
  `MemoOfConcession` is proved on top of the invariant: decided operations and
  supplements never change (`RecordsStay`), so the memo that was there when the
  closing was decided stays. `RepairsAlwaysKept` has an invariant of its own,
  `RepairInv`: request numbers grow along a chain (`RequestsGrow`), which bounds
  the repairs; a pending repair is about the newest Fact of its chain
  (`NewestAsked`) and has a rejected Fact behind it (`Warrants`), rejected by a
  verdict or returned; quiet steps and returns have in common what this rests on
  (`Calm`); the repair an
  interrupted attempt left is still pending, or out of date (`Waits`,
  `Survives`). The proof attempt corrected the property. That the attempt after an
  interrupted one answers the same repair is true of the runs' instances and false
  in general: the verdict on another Fact may replace a pending repair (the
  finding `LostRepair`) and then be overtaken or conceded itself.
  `RepairSurvivesRetry` says so now.
* `AdvisorRoundsProofs`: `DrainIsHeld`, `AssignmentsFollow`, `ReceiptsMatch`,
  `ReportsAreOwn`, `RepeatsAreFresh`. Few steps touch the round, its history or
  the problem files; `StepEffect` lists the eight things they can do, and every
  part of the invariant is shown to survive each. `RoundInv` (the round belongs
  to the cycle after its history, holds the phase, and has the fields its status
  asks for) carries the others: `FiledInv` relates files, history and the reply
  under way; `DeskInv` commands, receipts and what the rounds are bound to;
  `LaunchInv` the report to the launch of the accepted reply, for which a
  workspace must be thrown away whenever the lease or the launch has moved;
  `FreshInv` the obligations to the snapshots of all earlier rounds they repeat,
  which needs that revisions only grow.
* `AgentSessionsProofs`: `ConversationIsOne`, `RevocationQuiets`, and
  `SessionIsFinal`: a session once bound is never rebound. `OneThread` is the heart
  of the invariant: one thread is all that the audits, the ledger, the session,
  the accepted replies and the running process name. It is kept because a process
  is started without a thread only while nothing of the conversation is known
  (`FreshIsFirst`), whatever lines are torn. `ScopesClosed` follows the host: from
  the revocation to the next process every unfinished request is closed, and after
  the wait none has a process.
* `SearchControlProofs`: `GateAlwaysStands`, `SummariesCoverSprints`,
  `CatalogLeads`. Gate, trim record, sprint, root, control call and categories
  change one after the other, so the invariant says what each of them may be
  while another is behind: `GateOfSprint` and `TrimCallAlone` for the gate beside
  a sprint and beside a trimmer call, `SprintAlone` and `LanesShut` for the
  workers, `WayToTrim` and `SummaryOfSprint` for the way of a sprint from its
  lanes to its summary, `CatalogCounts` for a portfolio that one database has and
  the other does not yet, and `RepliesFit` for what a result that is replayed may
  decide. Frame lemmas (`GateSteps`, `SprintChanges`, `WhereMoves` and their
  neighbours) list which steps touch which of these; each part is then preserved
  by the steps its lemma names. `standing` is a function for this proof: nothing
  can be proved of `SelectSeq`, which is defined by recursion.

Only model-checked: liveness (`ReviewSettles`, `TurnReachesSort`, `TaskSettles`,
`SortSettles`, `WaitingSettles`, `SprintReachesBarrier`, `RevokeCompletes`,
`AnsweredRoundCloses`) and everything with `ENABLED`, which the prover cannot
treat. Every safety property of a passing run is proved, the refinement of
`FrozenHandoff` included. The prover cannot do induction over data
either, so nothing is proved of what a recursive definition computes; no module
uses a `RECURSIVE` operator.

## Findings

One run reproduces a disagreement that stops the program from going on:

* `Leftover` (`execution_gateway/transport.py:911`): the capability file of a
  call is created exclusively under the logical id of the call, and only the
  `finally` clause of its launch removes it. After a kill in between, the retry
  that recovery allows finds the file and is refused before it reaches an agent,
  each time, until the retries are spent.

Further counterexamples. Each instance violates one definition, and is run with
`tlc -config <instance>.cfg <module>MC`; where it is a run's configuration with
another property, the table says so.

| instance, module | violates | at | what happens |
| --- | --- | --- | --- |
| `StopExhaustion`, `CallLifecycle` | `ExhaustionHasItem` | `recovery.py:245` | a full stop during the last allowed attempt of a review exhausts the call without an item for the operator (`Design.md:805`) |
| `ClosedTask`, `CallLifecycle` | `ClosedMeansTerminal` | `scheduler.py:2610` | rejecting the reply of a call whose operation was abandoned revives the operation after its task was closed |
| `RootConflict`, `MemoryStore` | `ConflictIsReviewed` | `store.py:2749` | after the resolving Fact of a conflict is revoked, the next proof of its side resolves the root over the active Fact of the other side (`IMPLEMENTATION.md:152`) |
| `RelinkedFact`, `MemoryStore` | `RoutesHoldNoRevokedFact` | `store.py:2517` | a Fact revoked while it waits for a route enters the current support of the route when it is published |
| `ExpiryAborts`, `ExplorerTurns` | `PeersSurvive` | `runtime.py:1987` | an attempt that expires while its failure is being recorded runs again, and collecting it ends the run of all workers (`explorer_system/program.py:190`) |
| `ReopenedHandoff`, `ExplorerTurns` | `HandoffIsFinal` | `explorer_adapter.py:935` | a stop between the creation and the start of the sort task, then a raised limit, reopens a turn that was handed over |
| `SecondSort`, `ExplorerRecords` | `OneSortTask` | `explorer_adapter.py:935` | the task is keyed by what the turn holds: a receipt whose trust was delayed becomes visible after a stop in the handoff, and the turn gets a second sort task |
| `RetriedSort`, `MainSort` | `HonestLaunchAccepted` | `runtime.py:2215` | files of an earlier launch stay in the workspace, and every file must have a receipt of the launch that replied: once a launch has staged a file and failed, no retry is accepted, whatever it does (comment at `runtime.py:4157`) |
| `LostRepair`, `TaskLifecycle` | `RepairDelivered` | `scheduler.py:7526` | two Facts of one attempt are rejected one after the other, the second verdict replaces the repair of the first, and the first is never answered (`Design.md:784`) |
| `LostConcession`, `TaskLifecycle` | `ConcessionDelivered` | `scheduler.py:6905` | unlike a revision, a pending concession asks for no fresh proposal; recovery finds its lineage closed and cancels it, though `Design.md:789` has the scheduler open a concession attempt |
| `StaleInterruption`, `TaskLifecycle` | `NormalEndCounts` | `scheduler.py:8250` | the forced outcome of exhausted retries stays when a revision asked for afterwards ends normally (`Design.md:817`: "a later successful attempt may still let the task close normally") |
| `StoppedWaits`, `FactProposals` | `StoppedSettles` | `scheduler.py:4774` | the scan for gates nobody can fill runs after a final receipt only; a stopped worker gives none, and what waits for an undeclared id waits on (docstrings at 3600 and 3662) |
| `Facts` with this invariant and `SPECIFICATION ProposalSpec`, `FactProposals` | `AbandonedTakesDependents` | `scheduler.py:10084` | a stop after an operation is abandoned and before the cascade loses the cascade: recovery replays it for rejected operations only |
| `Refused`, `SearchControl` | `AppliedNeverRefused` | `runtime.py:4274` | a result of Main that was applied before a stop, a decline of a project that has since completed, is refused when it is applied again, and its retry is spent ("idempotently, including after restart") |

Seen while modelling, and not given an instance:

* `MemoryStore`: a deferred relation whose Fact was revoked makes the
  publication of the proposal it waits for fail (`store.py:2412`).
* `TaskLifecycle`: rejected evidence of a task in `needs_attention` forces no
  revision (`scheduler.py:8324`); cancelling a stale repair takes the retry of an
  interrupted attempt with it (6927); an abandoned Fact named as evidence is
  passed over (8308); a closure review asked for after the commit of the first is
  never answered (8465).
* `FactProposals`: a duplicate is recorded as committed before the store maps it
  (6448), and keeps its scheduler mapping when the store fails to (6504-6523). A
  publication whose projection refresh raises is given to the operator, who may
  abandon an active Fact (`store.py` 5059-5081). The conflict branch of
  `resolve_temporary_predecessor` is unreachable.
* `MainSort`: `_recover_staged_main_sort_progress` is dead code
  (`runtime.py:4139`); an accepted reply can raise at every resume when a file
  names unknown evidence (`scheduler.py:5117`) or a late callback repeats a
  sequence number; the ledger looks operations up by their id alone
  (`runtime.py:2530`).
* `SearchControl`: a waiting sprint that is cancelled while Facts of its
  predecessors are under review, and then drained by the root, has no lanes and
  never ends (8903); a summarizer exhausted by a stop accepts neither retry nor
  cancellation; a category operation that was rejected and repeated by a retried
  Trimmer raises a conflict nobody catches at each resume; a portfolio that is
  committed before its trim is refused leaves the revisions apart; a stop between
  the terminal decision and the completion of the project leaves it pending
  (8990); the outcome stays unset when the first root Fact is revoked and its
  opponent stands (9230).
* `AgentSessions`: Ctrl-C leaves the process group of an agent running; rebinding
  the ledger after a torn line is lost, which costs a retry; the conflict branch
  of the session check is never taken.
* `AdvisorRounds`: a bind that fails for a passing reason gives the command a
  final "rejected" receipt, and the dashboard cannot publish another for that
  request (`runtime.py`, `consume_advisor_commands`); a failure between the report
  file and its receipt leaves a file the next call of the tool refuses.

## What is not modelled, and why

* In `CallLifecycle`: synthesis scopes, drift reconfirmation, grouped operations.
  Calls of task workers as calls: they share the reducer; what their failure or
  a stop does to the task is in `TaskLifecycle`.
* In `MemoryStore`: `apply_operation_group`, `reconcile_update_resolution`,
  `resolve_temporary_reference`, revisions of records, read projections.
* In `ExplorerTurns`: phases closed by deadlines (an older mode), the deferred
  start, the cancellation of main and trimmer calls outside `franta_run`, the
  planning call that follows the sort (`MainSort` has it), the halt that an
  exhausted Explorer call may cause before it is contained.
* In `ExplorerRecords`: quotas of bytes, search, the tools that read, the
  migration of older schemas; records of other turns.
* In `MainSort`: the contents of a promotion and the snapshot they are checked
  against; the reviews themselves, of which the outcome is any.
* In `TaskLifecycle`: operations that are invalid when they are received;
  operations inside the file that ends an attempt (taken in as an earlier file);
  an attempt that ends without its summary (it fails); resumed sessions of
  workers and their access; edits of the limits; the budget of attempts;
  admission that closes during a launch. The state `stopping` is not reached: the
  challenges that stop a running proof-writer are decided between batches. A
  closure review always gives an answer. Which proofs are the same is left open
  (see above). That `reject_temporary_predecessor` follows a return in a
  transaction of its own is in `FactProposals`. Proposals that wait are in
  `FactProposals`, sprints in `SearchControl`, the sort task in `MainSort`.
* In `FactProposals`: routes and citations in other kinds than Facts; the attempt
  budget of a repair chain (`TaskLifecycle`).
* In `SearchControl`: the blueprints of lanes and their reports; merging and
  splitting of categories; the two handlers no caller reaches,
  `accumulate_assignment_reports` and `commit_initial_trim`. Alternation is off,
  proposals carry no expected revision of the state, only the latest control call
  is kept. A stop leaves worker states as they are, which is the subject of
  `TaskLifecycle`. The transactions of the store and of the scheduler that
  resolve the root are one. So are those that revoke a root Fact: `Revoke` joins
  `store.revoke_fact` (`scheduler.py` 9131) and the transaction of the scheduler
  (9149); a stop between them, which the replay of a challenge repairs
  (7740-7785), is left out. A lane that has been answered closes or asks again;
  that it may take a further attempt first is `TaskLifecycle`.
* In `AgentSessions`: the stream parser, sandbox profiles, the spool and its
  client timeout, the six seconds a process is awaited.
* In `AdvisorRounds`: prose, kinds of evidence, files and their races with the
  dashboard beyond the inbox.
* Read access, prompts, rendering, CLI, configuration, evaluation: text, I/O or
  no state that other parts rely on. Their failures appear as the ways an attempt
  may end, a callback may fail or a value may be refused.

## What would come next

1. `Publication`: `CallLifecycle` and `MemoryStore` composed across the two
   databases, with a stop between them; abstract specification: each submitted
   operation is decided once.
2. The rest of the store: operation groups, `resolve_temporary_reference`
   (`store.py` 3076, 3949-4208), revisions of records under synthesis scopes.
3. A composition of `ExplorerTurns` with `FrozenHandoff` in place of its records,
   and of `AdvisorRounds` with `AgentSessions` in place of its launches.
4. Theorems across components: that a Fact `FactProposals` publishes is one
   `MemoryStore` grounds, from the two invariants of `MemoryStoreProofs`; and a
   turn of `ExplorerTurns` followed by its `MainSort`, whose first state is the
   drained turn that `WholeTurnSorted` describes.
