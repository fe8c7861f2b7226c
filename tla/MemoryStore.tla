---------------------------- MODULE MemoryStore ----------------------------
(***************************************************************************)
(* The canonical memory of a project (src/franta/store.py, Store): the     *)
(* dependency graph of verified Facts, the route index, the typed          *)
(* references to proposals that are not published yet, and the resolution  *)
(* of the root problem.                                                    *)
(*                                                                         *)
(* Each action is one public method: one SQLite transaction, which either  *)
(* takes effect as a whole, or finishes its operation as rejected after    *)
(* rolling back to a savepoint, or raises and changes nothing.             *)
(*                                                                         *)
(* A proposal stands for the operation that carries it and for the         *)
(* temporary id other records use to refer to it.  Replays of an operation *)
(* return the stored result and are stutters, so they are left out.        *)
(***************************************************************************)
EXTENDS Naturals, Sequences, FiniteSets

CONSTANTS
    Ids,            \* canonical memory ids
    Root,           \* the root obligation, published at bootstrap
    Proposals,      \* proposal ids, each with its operation
    Published,      \* the kinds of memory this instance publishes
    Outcomes,       \* the root resolutions a Fact may carry
    MaxPredecessors,\* bound: predecessors of one Fact
    MaxSoft,        \* bound: typed references of one payload
    MaxOperands,    \* bound: operands of one relation
    NoId            \* "no canonical id", "no relation", "no outcome"

Kinds == {"fact", "route", "memo", "claim", "obligation"}

ASSUME ConstantsAssumption ==
    /\ Root \in Ids
    /\ Published \subseteq Kinds
    /\ Outcomes \subseteq {"proved", "disproved"}
    /\ NoId \notin Ids \cup Proposals \cup Outcomes
    /\ Ids \cap Proposals = {}

VARIABLES
    mem,        \* the memories table, with the typed indexes of each record
    links,      \* the current rows of route_links: <<route, memory>>
    temps,      \* temporary_memory_ids, one row for each proposal
    refs,       \* the pending rows of pending_memory_references
    deferred,   \* the pending rows of deferred_typed_updates
    ops,        \* the disposition of each proposal's operation
    root,       \* root_resolution_state
    resolutions \* root_resolutions, in commit order

vars == <<mem, links, temps, refs, deferred, ops, root, resolutions>>

(***************************************************************************)
(* Records.                                                                *)
(***************************************************************************)
Absent == [kind |-> "none", active |-> FALSE, preds |-> {}, relations |-> {},
           unsupported |-> FALSE]

New(kind, preds) == [Absent EXCEPT !.kind = kind, !.active = TRUE, !.preds = preds]

(* _reference_requires_active *)
NeedsActive == {"fact", "claim", "obligation"}

(* The kinds the typed reference fields of a record may name.              *)
Fields(kind) ==
    CASE kind = "route" -> {"obligation", "fact", "memo", "claim"}
      [] kind = "obligation" -> {"route", "fact"}
      [] OTHER -> {"route"}

(* What an operand of a relation may be (_FACT_OR_OBLIGATION); the fields   *)
(* for supporting Facts and for the conclusion admit only one of the two.  *)
OperandKinds == {"fact", "obligation"}

(* The row of route_links for a reference: routes point at everything else. *)
Link(kind, source, target) ==
    IF kind = "route" THEN <<source, target>> ELSE <<target, source>>

Exists(i) == mem[i].kind # "none"

Facts == {i \in Ids : mem[i].kind = "fact"}

Revoked(i) == i \in Facts /\ ~mem[i].active

(***************************************************************************)
(* Typed references (_typed_reference_resolution_locked).                  *)
(***************************************************************************)
Targets == {i \in Ids : Exists(i)} \cup Proposals

Answered(t) == t \in Proposals => temps[t].state = "resolved"

Canonical(t) == IF t \in Proposals THEN temps[t].target ELSE t

(* A canonical target that may be used where these kinds are expected.     *)
Usable(i, kinds) ==
    /\ mem[i].kind \in kinds
    /\ mem[i].kind \in NeedsActive => mem[i].active

Resolves(t, kinds) == Answered(t) /\ Usable(Canonical(t), kinds)

(* A target still to come, whose reservation admits these kinds.           *)
Waits(t, kinds) ==
    /\ t \in Proposals
    /\ temps[t].state \in {"unknown", "pending"}
    /\ temps[t].kinds \cap kinds # {}

(* A target that is neither is kept as a rejected overlay of its source.   *)

(***************************************************************************)
(* Payloads.  soft is a set of typed references, relation the operands of  *)
(* the relation of an obligation ({}: none).                               *)
(***************************************************************************)
Small(S, n) == {{}} \cup {{f[i] : i \in 1..n} : f \in [1..n -> S]}

(* A canonical id in a field for another kind is a rejected overlay from   *)
(* the start, so only the fields that fit it are tried.                    *)
SoftRefs(p, kind) ==
    Small({s \in [to : Targets \ {p}, field : Fields(kind)] :
              s.to \in Ids => mem[s.to].kind = s.field}, MaxSoft)

Relations(p, kind, soft) ==
    IF kind # "obligation" THEN {{}}
    ELSE Small(Targets \ ({p} \cup {s.to : s \in soft}), MaxOperands)

(* One payload names a target in one place only.                           *)
OnePlaceEach(soft) == \A s, t \in soft : s.to = t.to => s = t

(* The ids of a reference field that name canonical memory.                *)
Named(soft) ==
    {Canonical(s.to) : s \in {t \in soft : Resolves(t.to, {t.field})}}

WaitingRefs(id, soft) ==
    {[source |-> id, temp |-> s.to, kinds |-> {s.field}, relation |-> NoId] :
        s \in {t \in soft : Waits(t.to, {t.field})}}

StatedOperands(relation) ==
    {Canonical(t) : t \in {u \in relation : Resolves(u, OperandKinds)}}

WaitingOperands(relation) == {t \in relation : Waits(t, OperandKinds)}

(* Every operand is canonical or to come: otherwise the relation is kept   *)
(* as a rejected document.                                                 *)
Sound(relation) ==
    \A t \in relation : Resolves(t, OperandKinds) \/ Waits(t, OperandKinds)

(* A relation whose operands are all canonical enters the obligation,      *)
ReadyRelation(relation) ==
    IF relation # {} /\ Sound(relation) /\ WaitingOperands(relation) = {}
    THEN {StatedOperands(relation)} ELSE {}

(* and one that waits is deferred with its references.                     *)
DeferredRelation(id, p, relation) ==
    IF Sound(relation) /\ WaitingOperands(relation) # {}
    THEN {[source |-> id, cause |-> p, stated |-> StatedOperands(relation),
           found |-> {}]}
    ELSE {}

OperandRefs(id, p, relation) ==
    {[source |-> id, temp |-> t, kinds |-> OperandKinds, relation |-> p] :
        t \in WaitingOperands(relation)}

(* _register_temporary_target_locked: a reference reserves its target for  *)
(* the kinds it expects.                                                   *)
Reserve(ts, rows) ==
    [t \in Proposals |->
        LET mine == {r \in rows : r.temp = t}
        IN  IF mine = {} THEN ts[t]
            ELSE [ts[t] EXCEPT !.state = "pending",
                               !.kinds = {k \in @ : \A r \in mine : k \in r.kinds}]]

(* The operation may take its proposal's temporary id.                     *)
Registers(p, kind) ==
    /\ kind \in temps[p].kinds
    /\ temps[p].state \notin {"rejected", "abandoned"}

(***************************************************************************)
(* _resolve_temporary_target_locked: proposal p becomes the canonical id,  *)
(* in the tables m, l, r and d of the transaction so far.  Reservations    *)
(* narrow, and only active records answer for a proposal, so every waiting *)
(* row accepts the id.                                                     *)
(***************************************************************************)
Awaiting(p, r) == {row \in r : row.temp = p}

Found(p, id, r, d) ==
    {[e EXCEPT !.found = @ \cup {id}] :
        e \in {f \in d : \E row \in Awaiting(p, r) : row.relation = f.cause}}

(* The deferred relations that waited for p only.                          *)
Ready(p, id, r, d) ==
    {e \in Found(p, id, r, d) :
        \A row \in r : row.relation = e.cause => row.temp = p}

StillDeferred(p, id, r, d) ==
    {f \in d : \A row \in Awaiting(p, r) : row.relation # f.cause}
        \cup (Found(p, id, r, d) \ Ready(p, id, r, d))

(* _materialize_deferred_document_locked raises: an operand has been       *)
(* revoked, withdrawn or removed while the relation waited.                *)
Stale(p, id, m, r, d) ==
    \E e \in Ready(p, id, r, d) :
        \/ \E i \in e.stated : m[i].kind = "fact" /\ ~m[i].active
        \/ \E i \in e.found : m[i].kind \in NeedsActive /\ ~m[i].active

Premises(source, p, id, m, r) ==
    IF m[source].kind = "obligation" /\ m[id].kind = "fact"
       /\ \E row \in Awaiting(p, r) : row.source = source /\ row.relation = NoId
    THEN {id} ELSE {}

Resolve(p, id, m, l, r, d) ==
    /\ mem' = [i \in Ids |->
                 [m[i] EXCEPT
                    !.preds = @ \cup Premises(i, p, id, m, r),
                    !.relations = @ \cup {e.stated \cup e.found :
                        e \in {f \in Ready(p, id, r, d) : f.source = i}}]]
    /\ links' = l \cup
          {Link(m[row.source].kind, row.source, id) :
              row \in {w \in Awaiting(p, r) :
                         w.relation = NoId /\ Premises(w.source, p, id, m, r) = {}}}
    /\ refs' = r \ Awaiting(p, r)
    /\ deferred' = StillDeferred(p, id, r, d)

Commit(p, id, kind, rows) ==
    /\ ops' = [ops EXCEPT ![p] = "committed"]
    /\ temps' = [Reserve(temps, rows) EXCEPT
                    ![p] = [state |-> "resolved", kinds |-> {kind}, target |-> id]]

(* Mutant of DropTarget: the waiting rows are kept. *)
DropTargetKeepRows(p, state) ==
    /\ temps' = [temps EXCEPT ![p] = [@ EXCEPT !.state = state]]
    /\ deferred' = {d \in deferred : \A r \in Awaiting(p, refs) : r.relation # d.cause}
    /\ UNCHANGED refs

(* _reject_temporary_target_locked and abandon_temporary_reference: the    *)
(* temporary id is terminal, and so is every row that waits for it.        *)
DropTarget(p, state) ==
    /\ temps' = [temps EXCEPT ![p] = [@ EXCEPT !.state = state]]
    /\ refs' = refs \ Awaiting(p, refs)
    /\ deferred' = {d \in deferred : \A r \in Awaiting(p, refs) : r.relation # d.cause}

(* The operation is finished as rejected, with its temporary id if that is *)
(* reserved for the same kind and not terminal yet.  An add whose id is    *)
(* reserved for another kind raises out of the transaction instead.        *)
Reject(p, kind, disposition, update) ==
    /\ kind \in temps[p].kinds \/ update
    /\ ops' = [ops EXCEPT ![p] = disposition]
    /\ IF Registers(p, kind) THEN DropTarget(p, "rejected")
                             ELSE UNCHANGED <<temps, refs, deferred>>
    /\ UNCHANGED <<mem, links, root, resolutions>>

(***************************************************************************)
(* The root problem.                                                       *)
(***************************************************************************)
(* _record_root_resolution_locked *)
RecordRoot(id, outcome) ==
    /\ resolutions' = Append(resolutions, <<id, outcome>>)
    /\ root' = CASE root.solution = NoId ->
                      [solution |-> id, outcome |-> outcome, status |-> "resolved"]
                 [] root.solution # NoId /\ root.outcome = outcome -> root
                 [] OTHER -> [root EXCEPT !.status = "needs_attention"]

(* The committed resolutions with this outcome that m still holds active,  *)
(* by their place in commit order.                                         *)
Standing(m, outcomes) ==
    {n \in 1..Len(resolutions) :
        m[resolutions[n][1]].active /\ resolutions[n][2] \in outcomes}

Review(m) ==
    IF Standing(m, Outcomes \ {root.outcome}) # {} THEN "needs_attention" ELSE "resolved"

(* Mutant of RefreshRoot: the solution is kept when it is revoked. *)
RefreshRootStatusOnly(m) ==
    root' = IF root.solution = NoId THEN root ELSE [root EXCEPT !.status = Review(m)]

(* _refresh_root_state_after_revocation_locked, where m is what remains:   *)
(* the earliest other proof with the same outcome replaces a revoked one.  *)
RefreshRoot(m) ==
    LET same == Standing(m, {root.outcome})
    IN  \/ root.solution = NoId /\ UNCHANGED root
        \/ /\ root.solution # NoId /\ m[root.solution].active
           /\ root' = [root EXCEPT !.status = Review(m)]
        \/ /\ root.solution # NoId /\ ~m[root.solution].active
           /\ \E n \in same :
                 /\ \A k \in same : n <= k
                 /\ root' = [root EXCEPT !.solution = resolutions[n][1],
                                        !.status = Review(m)]
        \/ /\ root.solution # NoId /\ ~m[root.solution].active /\ same = {}
           /\ root' = [solution |-> NoId, outcome |-> NoId,
                       status |-> IF Standing(m, Outcomes) # {} THEN "needs_attention"
                                                              ELSE "open"]

(***************************************************************************)
(* Initial state: bootstrap has published the root obligation.             *)
(***************************************************************************)
Init ==
    /\ mem = [i \in Ids |-> IF i = Root THEN New("obligation", {}) ELSE Absent]
    /\ links = {}
    /\ temps = [p \in Proposals |->
                  [state |-> "unknown", kinds |-> Kinds, target |-> NoId]]
    /\ refs = {}
    /\ deferred = {}
    /\ ops = [p \in Proposals |-> "open"]
    /\ root = [solution |-> NoId, outcome |-> NoId, status |-> "open"]
    /\ resolutions = << >>

(***************************************************************************)
(* Publishing (apply_operation).                                           *)
(***************************************************************************)
(* _prepare_fact_locked *)
Grounded(preds) == \A f \in preds : f \in Facts /\ mem[f].active

(* The tables before p is resolved, when p is published as id: the new     *)
(* record, its links and what it waits for.                                *)
Inserted(id, kind, preds, soft, relation) ==
    LET named == Named(soft)
        premises == IF kind = "obligation" THEN named \cap Facts ELSE {}
    IN  [mem EXCEPT ![id] = [New(kind, preds \cup premises) EXCEPT
                                !.relations = ReadyRelation(relation)]]

InsertedLinks(id, kind, soft) ==
    LET named == Named(soft)
        premises == IF kind = "obligation" THEN named \cap Facts ELSE {}
    IN  links \cup {Link(kind, id, i) : i \in named \ premises}

NewRows(id, p, soft, relation) == WaitingRefs(id, soft) \cup OperandRefs(id, p, relation)

(* One add of _dispatch_operation_locked.  Any malformed payload is        *)
(* rejected by Malformed below, one that raises in Stale as "blocked".     *)
Publish(p, id, kind, preds, soft, relation, outcome) ==
    LET m == Inserted(id, kind, preds, soft, relation)
        r == refs \cup NewRows(id, p, soft, relation)
        d == deferred \cup DeferredRelation(id, p, relation)
    IN  /\ ops[p] = "open"
        /\ ~Exists(id)
        /\ kind # "fact" => preds = {} /\ outcome = NoId
        /\ Grounded(preds)
        /\ Registers(p, kind)
        /\ IF Stale(p, id, m, r, d)
           THEN Reject(p, kind, "blocked", FALSE)
           ELSE /\ Resolve(p, id, m, InsertedLinks(id, kind, soft), r, d)
                /\ Commit(p, id, kind, NewRows(id, p, soft, relation))
                /\ IF outcome = NoId THEN UNCHANGED <<root, resolutions>>
                                     ELSE RecordRoot(id, outcome)

PublishSome(p) ==
    \E id \in Ids, kind \in Published :
        \E preds \in IF kind = "fact" THEN Small(Facts, MaxPredecessors) ELSE {{}},
           soft \in SoftRefs(p, kind),
           outcome \in IF kind = "fact" THEN Outcomes \cup {NoId} ELSE {NoId} :
            /\ OnePlaceEach(soft)
            /\ \E relation \in Relations(p, kind, soft) :
                  Publish(p, id, kind, preds, soft, relation, outcome)

(* An operation of this kind is rejected: its payload is malformed or      *)
(* stale, or its temporary id is terminal.                                 *)
Malformed(p, kind, update) ==
    /\ ops[p] = "open"
    /\ update => kind \in {"route", "obligation"}
    /\ Reject(p, kind, "rejected", update)

(* The rows a patch takes away: all deferred relations of the target when  *)
(* its relations are replaced, and the references it removes by id.        *)
Withdrawn(target, removed, replace) ==
    {row \in refs : /\ row.source = target
                    /\ IF row.relation # NoId THEN replace
                       ELSE row.temp \in removed /\ ~(row.kinds = {"fact"}
                                           /\ mem[target].kind = "obligation")}

(* _apply_patch_locked, for the update a synthesizer returned for the add  *)
(* proposal p.                                                             *)
Update(p, target, soft, relation, removed, replace) ==
    LET kind == mem[target].kind
        new == NewRows(target, p, soft, relation)
        m == [mem EXCEPT ![target].relations =
                (IF replace THEN {} ELSE @) \cup ReadyRelation(relation)]
        ended == {Link(kind, target, i) : i \in removed \cap Ids}
        l == (links \ ended) \cup {Link(kind, target, i) : i \in Named(soft)}
        r == (refs \ Withdrawn(target, removed, replace)) \cup new
        d == {e \in deferred : ~(replace /\ e.source = target)}
                \cup DeferredRelation(target, p, relation)
    IN  /\ ops[p] = "open"
        /\ kind \in {"route", "obligation"} /\ mem[target].active
        /\ Registers(p, kind)
        /\ IF Stale(p, target, m, r, d)
           THEN Reject(p, kind, "blocked", TRUE)
           ELSE /\ Resolve(p, target, m, l, r, d)
                /\ Commit(p, target, kind, new)
                /\ UNCHANGED <<root, resolutions>>

UpdateSome(p) ==
    \E target \in Ids, replace \in BOOLEAN, removed \in Small(Targets \ {p}, 1) :
        \E soft \in SoftRefs(p, mem[target].kind) :
            /\ OnePlaceEach(soft)
            /\ {s.to : s \in soft} \cap removed = {}
            /\ mem[target].kind = "obligation" => \A s \in soft : s.field = "route"
            /\ \E relation \in Relations(p, mem[target].kind, soft) :
                  Update(p, target, soft, relation, removed, replace)

(* record_duplicate_resolution: p is mapped to existing memory.  Whatever  *)
(* is wrong raises, and the transaction is rolled back.                    *)
Duplicate(p, target) ==
    LET kind == mem[target].kind
    IN  /\ ops[p] = "open"
        /\ kind \in {"fact", "route", "obligation"} /\ mem[target].active
        /\ Registers(p, kind)
        /\ ~Stale(p, target, mem, refs, deferred)
        /\ Resolve(p, target, mem, links, refs, deferred)
        /\ Commit(p, target, kind, {})
        /\ UNCHANGED <<root, resolutions>>

(* reject_temporary_reference: the proposal of a rejected Fact. *)
RejectTarget(p) ==
    /\ temps[p].state \in {"unknown", "pending"} /\ "fact" \in temps[p].kinds
    /\ DropTarget(p, "rejected")
    /\ UNCHANGED <<mem, links, ops, root, resolutions>>

(* abandon_temporary_reference: the task of a source that refers to p is   *)
(* over.                                                                   *)
AbandonTarget(p) ==
    /\ temps[p].state \in {"pending", "rejected"}
    /\ DropTarget(p, "abandoned")
    /\ UNCHANGED <<mem, links, ops, root, resolutions>>

(***************************************************************************)
(* Withdrawing, removing and revoking.                                     *)
(***************************************************************************)
LinksTo(S) == {link \in links : link[2] \in S}

(* _remove_claim_locked and _remove_obligation_locked *)
Remove(i) ==
    /\ mem[i].kind \in {"claim", "obligation"} /\ mem[i].active
    /\ i # Root
    /\ mem' = [mem EXCEPT ![i].active = FALSE]
    /\ links' = links \ LinksTo({i})
    /\ UNCHANGED <<temps, refs, deferred, ops, root, resolutions>>

(* Mutant of Descendants: only the Facts that use f directly. *)
Children(f) == {f} \cup {g \in Facts : f \in mem[g].preds}

(* _descendant_paths_locked: f and every Fact that depends on it. *)
Descendants(f) ==
    {g \in Facts : \A S \in SUBSET Facts :
        (f \in S /\ \A h \in Facts : mem[h].preds \cap S # {} => h \in S) => g \in S}

(* The active obligations that rest on a Fact revoked with f. *)
Unsupported(f) ==
    {o \in Ids : /\ mem[o].kind = "obligation" /\ mem[o].active
                 /\ \E g \in Descendants(f) : g \in mem[o].preds /\ mem[g].active}

(* revoke_fact *)
Revoke(f) ==
    LET revoked == {g \in Descendants(f) : mem[g].active}
    IN  /\ f \in Facts /\ mem[f].active
        /\ mem' = [i \in Ids |->
                     [mem[i] EXCEPT !.active = @ /\ i \notin revoked,
                                    !.unsupported = @ \/ i \in Unsupported(f)]]
        /\ links' = links \ LinksTo(revoked)
        /\ RefreshRoot(mem')
        /\ UNCHANGED <<temps, refs, deferred, ops, resolutions>>

(***************************************************************************)
(* The specification.                                                      *)
(***************************************************************************)
Next ==
    \/ \E p \in Proposals :
          \/ PublishSome(p) \/ UpdateSome(p)
          \/ \E kind \in Published, update \in BOOLEAN : Malformed(p, kind, update)
          \/ \E target \in Ids : Duplicate(p, target)
          \/ RejectTarget(p) \/ AbandonTarget(p)
    \/ \E i \in Ids : Remove(i) \/ Revoke(i)

Spec == Init /\ [][Next]_vars

(***************************************************************************)
(* Type correctness.                                                       *)
(***************************************************************************)
Record == [kind : Kinds \cup {"none"}, active : BOOLEAN, preds : SUBSET Ids,
           relations : SUBSET SUBSET Ids, unsupported : BOOLEAN]

TempStates == {"unknown", "pending", "resolved", "rejected", "abandoned"}

Temp == [state : TempStates, kinds : SUBSET Kinds, target : Ids \cup {NoId}]

Row == [source : Ids, temp : Proposals, kinds : SUBSET Kinds,
        relation : Proposals \cup {NoId}]

Document == [source : Ids, cause : Proposals, stated : SUBSET Ids, found : SUBSET Ids]

RootRecord == [solution : Ids \cup {NoId}, outcome : Outcomes \cup {NoId},
               status : {"open", "resolved", "needs_attention"}]

TypeOK ==
    /\ mem \in [Ids -> Record]
    /\ links \in SUBSET (Ids \X Ids)
    /\ temps \in [Proposals -> Temp]
    /\ refs \subseteq Row
    /\ deferred \subseteq Document
    /\ ops \in [Proposals -> {"open", "committed", "rejected", "blocked"}]
    /\ root \in RootRecord
    /\ resolutions \in Seq(Ids \X Outcomes)

(***************************************************************************)
(* Safety.                                                                 *)
(***************************************************************************)
(* Every Fact an active Fact rests on is active, so its whole proof is: a  *)
(* revocation reaches everything that was published on top of the          *)
(* challenged Fact, through Facts revoked earlier too, and nothing is      *)
(* published on a revoked Fact afterwards.                                 *)
ActiveFactsSupported ==
    \A f \in Facts : mem[f].active =>
        \A g \in mem[f].preds : g \in Facts /\ mem[g].active

(* An obligation in use that rests on a revoked Fact is marked             *)
(* unsupported, whether the Fact was named in its payload or came later as *)
(* the canonical record of a proposal the obligation waited for.           *)
UnsupportedMarked ==
    \A o \in Ids : mem[o].kind = "obligation" /\ mem[o].active =>
        \A f \in mem[o].preds : Revoked(f) => mem[o].unsupported

(* No relationship waits for an answer that cannot come: a waiting row's   *)
(* target is still to be published, for a kind the row admits.             *)
WaitingRowsCanEnd ==
    \A row \in refs :
        /\ temps[row.temp].state = "pending"
        /\ temps[row.temp].kinds \subseteq row.kinds

(* A deferred relation always waits for something: the row whose end will  *)
(* materialize or discard it exists.                                       *)
DeferredCanEnd ==
    \A d \in deferred : \E row \in refs : row.relation = d.cause

(* The tables that answer for a proposal agree: its operation is committed *)
(* exactly when its temporary id is resolved, to a record that exists.     *)
CommittedIsResolved ==
    \A p \in Proposals :
        /\ ops[p] = "committed" <=> temps[p].state = "resolved"
        /\ temps[p].state = "resolved" => Exists(temps[p].target)

(* Nothing strands in the tables of what is still to come: rows, deferred  *)
(* relations and temporary ids all have their answer or a way to get it.   *)
NothingStrands == WaitingRowsCanEnd /\ DeferredCanEnd /\ CommittedIsResolved

(* The root problem is solved by an active Fact that was verified to       *)
(* resolve it that way, and it is open only when no active Fact does:      *)
(* revocations promote a surviving alternative proof.                      *)
RootStands ==
    /\ root.solution # NoId =>
          /\ mem[root.solution].active
          /\ \E n \in 1..Len(resolutions) : resolutions[n] = <<root.solution, root.outcome>>
    /\ root.status = "resolved" => root.solution # NoId
    /\ root.status = "open" => Standing(mem, Outcomes) = {}

(* What is derived from the Facts, the status of the root and the marks of *)
(* the obligations, is right after every revocation and late reference.    *)
StatusesStand == RootStands /\ UnsupportedMarked

(* An operation that failed or a target that was given up never comes      *)
(* back: a correction needs a fresh proposal id.                           *)
TerminalIdsStay ==
    [][\A p \in Proposals :
        /\ temps[p].state \in {"rejected", "abandoned"} =>
              temps'[p].state \in {"rejected", "abandoned"}
        /\ temps[p].state = "resolved" => temps'[p] = temps[p]]_vars

(* A relation enters an obligation only while the Facts it relates are     *)
(* active, however long it waited for the rest of its operands.            *)
RelationsEnterOnActiveFacts ==
    [][\A o \in Ids : \A relation \in mem'[o].relations \ mem[o].relations :
        \A i \in relation : mem'[i].kind = "fact" => mem'[i].active]_vars

(***************************************************************************)
(* What the documentation states and the code does not keep.               *)
(***************************************************************************)
(* Design.md, 4.1: a revoked Fact is in no route's current-support list.   *)
RoutesHoldNoRevokedFact ==
    \A link \in links : ~Revoked(link[2])

(* IMPLEMENTATION.md: an opposite outcome freezes completion for review:   *)
(* the root is not resolved while active Facts prove and disprove it.      *)
ConflictIsReviewed ==
    root.status = "resolved" => Standing(mem, Outcomes \ {root.outcome}) = {}
=============================================================================
