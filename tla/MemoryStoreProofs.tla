------------------------ MODULE MemoryStoreProofs ------------------------
(***************************************************************************)
(* What canonical memory rests on: the store (MemoryStore), for every pool *)
(* of ids and proposals, every kind published and every bound on payloads; *)
(* and, at the end, the Fact proposals that reach it (FactProposals), for  *)
(* every pool of proposals and every number of attempts and stops.         *)
(*                                                                         *)
(* That an active Fact rests on active Facts is not inductive by itself:   *)
(* a revocation must find every dependent, so the predecessors of a Fact   *)
(* must be Facts, revoked ones included, and a new Fact must not be one    *)
(* that older records name already (StoreInv).                             *)
(*                                                                         *)
(* That nothing strands needs to know which rows a deferred relation waits *)
(* for: a relation is deferred under the proposal that stated it, which is *)
(* committed from then on, so no later payload shares its cause            *)
(* (TablesInv).  That the root stands needs every recorded resolution to   *)
(* be a Fact, so that withdrawing a claim or an obligation leaves it alone *)
(* (StatusInv).                                                            *)
(***************************************************************************)
EXTENDS MemoryStore, FactProposals, SequenceTheorems, FiniteSetTheorems, TLAPS

(* A resolved proposal stands for a canonical id.                          *)
ResolvedTargets == \A p \in Proposals : temps[p].state = "resolved" => temps[p].target \in Ids

(* The predecessors of a Fact are Facts, active ones if it is active.      *)
GroundedIn(m) ==
    \A f \in Ids : m[f].kind = "fact" =>
        \A g \in m[f].preds : m[g].kind = "fact" /\ (m[f].active => m[g].active)

GroundedFacts == GroundedIn(mem)

StoreInv == TypeOK /\ ResolvedTargets /\ GroundedFacts

(* What a payload may hold.                                                *)
SoftPayload == SUBSET [to : Ids \cup Proposals, field : Kinds]

(***************************************************************************)
(* Payloads.                                                               *)
(***************************************************************************)
(* A bounded choice from a set is a subset of it.                          *)
LEMMA SmallIsSubset == ASSUME NEW S, NEW n, NEW T \in Small(S, n) PROVE T \subseteq S
  <1>1. CASE T = {}
    BY <1>1
  <1>2. CASE T \in {{f[i] : i \in 1..n} : f \in [1..n -> S]}
    <2>1. PICK f \in [1..n -> S] : T = {f[i] : i \in 1..n}
      BY <1>2, Zenon
    <2>2. \A i \in 1..n : f[i] \in S
      BY <2>1, Zenon
    <2> QED BY <2>1, <2>2, Zenon
  <1> QED BY <1>1, <1>2, Zenon DEF Small

LEMMA SoftTypes ==
  ASSUME TypeOK, NEW p \in Proposals, NEW kind, NEW soft \in SoftRefs(p, kind)
  PROVE  soft \in SoftPayload
  <1>1. soft \subseteq {s \in [to : Targets \ {p}, field : Fields(kind)] :
                           s.to \in Ids => mem[s.to].kind = s.field}
    BY SmallIsSubset, Zenon DEF SoftRefs
  <1>2. Targets \subseteq Ids \cup Proposals
    BY DEF Targets
  <1>3. Fields(kind) \subseteq Kinds
    BY DEF Fields, Kinds
  <1> QED BY <1>1, <1>2, <1>3 DEF SoftPayload

LEMMA RelationTypes ==
  ASSUME NEW p, NEW kind, NEW soft, NEW relation \in Relations(p, kind, soft)
  PROVE  relation \subseteq Ids \cup Proposals
  <1>1. CASE kind # "obligation"
    BY <1>1 DEF Relations
  <1>2. CASE kind = "obligation"
    <2>1. relation \in Small(Targets \ ({p} \cup {s.to : s \in soft}), MaxOperands)
      BY <1>2, Zenon DEF Relations
    <2>2. relation \subseteq Targets
      BY <2>1, SmallIsSubset, Zenon
    <2> QED BY <2>2 DEF Targets
  <1> QED BY <1>1, <1>2

(* What a reference resolves to is a canonical id.                         *)
LEMMA CanonicalTypes ==
  ASSUME StoreInv, NEW t \in Ids \cup Proposals, NEW kinds, Resolves(t, kinds)
  PROVE  Canonical(t) \in Ids
  BY DEF StoreInv, ResolvedTargets, Resolves, Answered, Canonical

LEMMA NamedTypes ==
  ASSUME StoreInv, NEW soft \in SoftPayload
  PROVE  Named(soft) \subseteq Ids
  <1>1. \A s \in soft : Resolves(s.to, {s.field}) => Canonical(s.to) \in Ids
    BY CanonicalTypes DEF SoftPayload
  <1> QED BY <1>1 DEF Named

LEMMA StatedTypes ==
  ASSUME StoreInv, NEW relation \in SUBSET (Ids \cup Proposals)
  PROVE  StatedOperands(relation) \subseteq Ids
  <1>1. \A t \in relation : Resolves(t, OperandKinds) => Canonical(t) \in Ids
    BY CanonicalTypes
  <1> QED BY <1>1 DEF StatedOperands

LEMMA ReadyTypes ==
  ASSUME StoreInv, NEW relation \in SUBSET (Ids \cup Proposals)
  PROVE  ReadyRelation(relation) \subseteq SUBSET Ids
  BY StatedTypes DEF ReadyRelation

LEMMA DeferredTypes ==
  ASSUME StoreInv, NEW id \in Ids, NEW p \in Proposals,
         NEW relation \in SUBSET (Ids \cup Proposals)
  PROVE  DeferredRelation(id, p, relation) \subseteq Document
  BY StatedTypes DEF DeferredRelation, Document

(* Waiting rows are typed, and what they wait for is not resolved.         *)
LEMMA RowTypes ==
  ASSUME NEW id \in Ids, NEW p \in Proposals, NEW soft \in SoftPayload,
         NEW relation \in SUBSET (Ids \cup Proposals)
  PROVE  /\ NewRows(id, p, soft, relation) \subseteq Row
         /\ \A row \in NewRows(id, p, soft, relation) : temps[row.temp].state # "resolved"
  <1>1. \A s \in soft : s.to \in Ids \cup Proposals /\ s.field \in Kinds
    BY DEF SoftPayload
  <1>2. WaitingRefs(id, soft) \subseteq Row
    BY <1>1 DEF WaitingRefs, Waits, Row
  <1>3. \A row \in WaitingRefs(id, soft) : temps[row.temp].state # "resolved"
    BY DEF WaitingRefs, Waits
  <1>4. OperandRefs(id, p, relation) \subseteq Row
    BY DEF OperandRefs, WaitingOperands, Waits, Row, OperandKinds, Kinds
  <1>5. \A row \in OperandRefs(id, p, relation) : temps[row.temp].state # "resolved"
    BY DEF OperandRefs, WaitingOperands, Waits
  <1> QED BY <1>2, <1>3, <1>4, <1>5 DEF NewRows

(***************************************************************************)
(* Temporary ids.                                                          *)
(***************************************************************************)
LEMMA ReserveTypes ==
  ASSUME StoreInv, NEW rows \in SUBSET Row,
         \A row \in rows : temps[row.temp].state # "resolved"
  PROVE  /\ Reserve(temps, rows) \in [Proposals -> Temp]
         /\ \A t \in Proposals : Reserve(temps, rows)[t].state = "resolved" =>
                Reserve(temps, rows)[t].target \in Ids
  <1> DEFINE mine(t) == {r \in rows : r.temp = t}
             kept(t) == {k \in temps[t].kinds : \A r \in mine(t) : k \in r.kinds}
             reserved(t) == IF mine(t) = {} THEN temps[t]
                            ELSE [temps[t] EXCEPT !.state = "pending", !.kinds = kept(t)]
  <1>1. Reserve(temps, rows) = [t \in Proposals |-> reserved(t)]
    BY Zenon DEF Reserve
  <1>2. ASSUME NEW t \in Proposals
        PROVE  /\ reserved(t) \in Temp
               /\ reserved(t).state = "resolved" => reserved(t).target \in Ids
    <2>1. temps[t] \in Temp
      BY DEF StoreInv, TypeOK
    <2>2. temps[t].state = "resolved" => temps[t].target \in Ids
      BY DEF StoreInv, ResolvedTargets
    <2>3. kept(t) \subseteq temps[t].kinds
      OBVIOUS
    <2>4. kept(t) \in SUBSET Kinds
      BY <2>1, <2>3 DEF Temp
    <2> HIDE DEF kept
    <2> QED BY <2>1, <2>2, <2>4 DEF Temp, TempStates
  <1> HIDE DEF reserved
  <1> QED BY <1>1, <1>2

LEMMA CommitTypes ==
  ASSUME StoreInv, NEW p \in Proposals, NEW id \in Ids, NEW kind \in Kinds,
         NEW rows \in SUBSET Row, \A row \in rows : temps[row.temp].state # "resolved",
         Commit(p, id, kind, rows)
  PROVE  /\ temps' \in [Proposals -> Temp]
         /\ ops' \in [Proposals -> {"open", "committed", "rejected", "blocked"}]
         /\ ResolvedTargets'
  <1> DEFINE ts == Reserve(temps, rows)
  <1>1. /\ ts \in [Proposals -> Temp]
        /\ \A t \in Proposals : ts[t].state = "resolved" => ts[t].target \in Ids
    BY ReserveTypes
  <1>2. temps' = [ts EXCEPT ![p] = [state |-> "resolved", kinds |-> {kind}, target |-> id]]
    BY DEF Commit
  <1>3. [state |-> "resolved", kinds |-> {kind}, target |-> id] \in Temp
    BY DEF Temp, TempStates
  <1> HIDE DEF ts
  <1>4. temps' \in [Proposals -> Temp]
    BY <1>1, <1>2, <1>3
  <1>5. ResolvedTargets'
    BY <1>1, <1>2 DEF ResolvedTargets
  <1>6. ops' \in [Proposals -> {"open", "committed", "rejected", "blocked"}]
    BY DEF Commit, StoreInv, TypeOK
  <1> QED BY <1>4, <1>5, <1>6

LEMMA DropTypes ==
  ASSUME StoreInv, NEW p \in Proposals, NEW state \in {"rejected", "abandoned"},
         DropTarget(p, state)
  PROVE  /\ temps' \in [Proposals -> Temp]
         /\ refs' \subseteq Row /\ deferred' \subseteq Document
         /\ ResolvedTargets'
  <1>1. temps \in [Proposals -> Temp] /\ refs \subseteq Row /\ deferred \subseteq Document
    BY DEF StoreInv, TypeOK
  <1>2. temps' = [temps EXCEPT ![p] = [@ EXCEPT !.state = state]]
    BY DEF DropTarget
  <1>3. temps[p] \in Temp
    BY <1>1
  <1>4. [temps[p] EXCEPT !.state = state] \in Temp
    BY <1>3 DEF Temp, TempStates
  <1>5. temps' \in [Proposals -> Temp]
    BY <1>1, <1>2, <1>4
  <1>6. ResolvedTargets'
    <2> SUFFICES ASSUME NEW q \in Proposals, temps'[q].state = "resolved"
                 PROVE  temps'[q].target \in Ids
      BY DEF ResolvedTargets
    <2>1. temps'[p].state = state
      BY <1>1, <1>2, <1>3 DEF Temp
    <2>2. q # p
      BY <2>1
    <2>3. temps'[q] = temps[q]
      BY <1>1, <1>2, <2>2
    <2> QED BY <2>3 DEF StoreInv, ResolvedTargets
  <1>7. refs' \subseteq Row /\ deferred' \subseteq Document
    BY <1>1 DEF DropTarget
  <1> QED BY <1>5, <1>6, <1>7

(***************************************************************************)
(* Resolving a proposal.                                                   *)
(***************************************************************************)
LEMMA FoundTypes ==
  ASSUME NEW p, NEW id \in Ids, NEW r, NEW d \in SUBSET Document
  PROVE  /\ Found(p, id, r, d) \subseteq Document
         /\ Ready(p, id, r, d) \subseteq Document
         /\ StillDeferred(p, id, r, d) \subseteq Document
  <1>1. ASSUME NEW e \in Document
        PROVE  [e EXCEPT !.found = @ \cup {id}] \in Document
    <2>1. e.found \cup {id} \in SUBSET Ids
      BY DEF Document
    <2> QED BY <2>1 DEF Document
  <1>2. Found(p, id, r, d) \subseteq Document
    BY <1>1, Zenon DEF Found
  <1>3. Ready(p, id, r, d) \subseteq Found(p, id, r, d)
    BY Zenon DEF Ready
  <1>4. StillDeferred(p, id, r, d) \subseteq d \cup Found(p, id, r, d)
    BY Zenon DEF StillDeferred
  <1> QED BY <1>2, <1>3, <1>4

(* What resolving adds to one record.                                      *)
LEMMA ResolvedRecord ==
  ASSUME NEW rec \in Record, NEW premises \in SUBSET Ids, NEW entered \in SUBSET SUBSET Ids
  PROVE  LET new == [rec EXCEPT !.preds = @ \cup premises, !.relations = @ \cup entered]
         IN  /\ new \in Record
             /\ new.kind = rec.kind /\ new.active = rec.active
             /\ new.preds = rec.preds \cup premises
  <1>1. rec.preds \cup premises \in SUBSET Ids /\ rec.relations \cup entered \in SUBSET SUBSET Ids
    BY DEF Record
  <1> QED BY <1>1 DEF Record

LEMMA ResolveTypes ==
  ASSUME NEW p \in Proposals, NEW id \in Ids,
         NEW m \in [Ids -> Record], NEW l \in SUBSET (Ids \X Ids),
         NEW r \in SUBSET Row, NEW d \in SUBSET Document,
         Resolve(p, id, m, l, r, d)
  PROVE  /\ mem' \in [Ids -> Record]
         /\ links' \in SUBSET (Ids \X Ids)
         /\ refs' \subseteq Row /\ deferred' \subseteq Document
         /\ \A i \in Ids : /\ mem'[i].kind = m[i].kind /\ mem'[i].active = m[i].active
                           /\ m[i].kind # "obligation" => mem'[i].preds = m[i].preds
  <1> DEFINE entered(i) == {e.stated \cup e.found : e \in {f \in Ready(p, id, r, d) : f.source = i}}
             next(i) == [m[i] EXCEPT !.preds = @ \cup Premises(i, p, id, m, r),
                                     !.relations = @ \cup entered(i)]
  <1>1. mem' = [i \in Ids |-> next(i)]
    BY Zenon DEF Resolve
  <1>2. ASSUME NEW i \in Ids
        PROVE  /\ next(i) \in Record
               /\ next(i).kind = m[i].kind /\ next(i).active = m[i].active
               /\ m[i].kind # "obligation" => next(i).preds = m[i].preds
    <2>1. m[i] \in Record
      OBVIOUS
    <2>2. Premises(i, p, id, m, r) \in SUBSET Ids
      BY DEF Premises
    <2>3. entered(i) \in SUBSET SUBSET Ids
      <3>1. \A e \in Document : e.stated \cup e.found \in SUBSET Ids
        BY DEF Document
      <3>2. Ready(p, id, r, d) \subseteq Document
        BY FoundTypes
      <3> QED BY <3>1, <3>2, Zenon
    <2>4. m[i].kind # "obligation" => Premises(i, p, id, m, r) = {}
      BY DEF Premises
    <2> HIDE DEF entered
    <2>5. /\ next(i) \in Record
          /\ next(i).kind = m[i].kind /\ next(i).active = m[i].active
          /\ next(i).preds = m[i].preds \cup Premises(i, p, id, m, r)
      BY ResolvedRecord, <2>1, <2>2, <2>3
    <2> QED BY <2>4, <2>5
  <1>3. links' \in SUBSET (Ids \X Ids)
    <2>1. ASSUME NEW row \in r
          PROVE  Link(m[row.source].kind, row.source, id) \in Ids \X Ids
      BY DEF Row, Link
    <2>2. Awaiting(p, r) \subseteq r
      BY DEF Awaiting
    <2> QED BY <2>1, <2>2, Zenon DEF Resolve
  <1>4. refs' \subseteq Row
    BY DEF Resolve
  <1>5. deferred' \subseteq Document
    BY FoundTypes, Zenon DEF Resolve
  <1> HIDE DEF next
  <1> QED BY <1>1, <1>2, <1>3, <1>4, <1>5

(* Resolving leaves the dependency graph of the Facts as it is.            *)
LEMMA GraphKept ==
  ASSUME NEW m \in [Ids -> Record], GroundedIn(m), NEW n \in [Ids -> Record],
         \A i \in Ids : /\ n[i].kind = m[i].kind /\ n[i].active = m[i].active
                        /\ m[i].kind # "obligation" => n[i].preds = m[i].preds
  PROVE  GroundedIn(n)
  <1> SUFFICES ASSUME NEW f \in Ids, n[f].kind = "fact", NEW g \in n[f].preds
               PROVE  n[g].kind = "fact" /\ (n[f].active => n[g].active)
    BY DEF GroundedIn
  <1>1. m[f].kind = "fact" /\ n[f].preds = m[f].preds
    OBVIOUS
  <1>2. g \in Ids
    <2>1. n[f] \in Record
      OBVIOUS
    <2> QED BY <2>1 DEF Record
  <1>3. m[g].kind = "fact" /\ (m[f].active => m[g].active)
    BY <1>1 DEF GroundedIn
  <1> QED BY <1>2, <1>3

(***************************************************************************)
(* The root problem.                                                       *)
(***************************************************************************)
LEMMA RecordRootTypes ==
  ASSUME StoreInv, NEW id \in Ids, NEW outcome \in Outcomes, RecordRoot(id, outcome)
  PROVE  root' \in RootRecord /\ resolutions' \in Seq(Ids \X Outcomes)
  <1>1. root \in RootRecord /\ resolutions \in Seq(Ids \X Outcomes)
    BY DEF StoreInv, TypeOK
  <1>2. resolutions' \in Seq(Ids \X Outcomes)
    <2>1. <<id, outcome>> \in Ids \X Outcomes
      OBVIOUS
    <2>2. resolutions' = Append(resolutions, <<id, outcome>>)
      BY DEF RecordRoot
    <2> QED BY <1>1, <2>1, <2>2, AppendProperties
  <1>3. root' = [solution |-> id, outcome |-> outcome, status |-> "resolved"]
        \/ root' = root \/ root' = [root EXCEPT !.status = "needs_attention"]
    BY Zenon DEF RecordRoot
  <1>4. root' \in RootRecord
    BY <1>1, <1>3 DEF RootRecord
  <1> QED BY <1>2, <1>4

LEMMA RefreshRootTypes ==
  ASSUME StoreInv, NEW m, RefreshRoot(m)
  PROVE  root' \in RootRecord
  <1>1. root \in RootRecord /\ resolutions \in Seq(Ids \X Outcomes)
    BY DEF StoreInv, TypeOK
  <1>2. Review(m) \in {"resolved", "needs_attention"}
    BY DEF Review
  <1>3. CASE root' = root
    BY <1>1, <1>3
  <1>4. CASE root' = [root EXCEPT !.status = Review(m)]
    BY <1>1, <1>2, <1>4 DEF RootRecord
  <1>5. ASSUME NEW n \in Standing(m, {root.outcome}),
               root' = [root EXCEPT !.solution = resolutions[n][1], !.status = Review(m)]
        PROVE  root' \in RootRecord
    <2>1. n \in 1..Len(resolutions)
      BY DEF Standing
    <2>2. resolutions[n] \in Ids \X Outcomes
      BY <1>1, <2>1
    <2>3. resolutions[n][1] \in Ids
      BY <2>2
    <2> QED BY <1>1, <1>2, <1>5, <2>3 DEF RootRecord
  <1>6. CASE root' = [solution |-> NoId, outcome |-> NoId,
                      status |-> IF Standing(m, Outcomes) # {} THEN "needs_attention"
                                                               ELSE "open"]
    BY <1>6 DEF RootRecord
  <1> QED BY <1>3, <1>4, <1>5, <1>6, Zenon DEF RefreshRoot

(***************************************************************************)
(* The actions.                                                            *)
(***************************************************************************)
LEMMA RejectInv ==
  ASSUME StoreInv, NEW p \in Proposals, NEW kind, NEW disposition \in {"rejected", "blocked"},
         NEW update, Reject(p, kind, disposition, update)
  PROVE  StoreInv'
  <1>1. /\ temps' \in [Proposals -> Temp]
        /\ refs' \subseteq Row /\ deferred' \subseteq Document
        /\ ResolvedTargets'
    <2>1. CASE Registers(p, kind)
      <3>1. DropTarget(p, "rejected")
        BY <2>1 DEF Reject
      <3> QED BY <3>1, DropTypes
    <2>2. CASE ~Registers(p, kind)
      BY <2>2 DEF Reject, StoreInv, TypeOK, ResolvedTargets
    <2> QED BY <2>1, <2>2
  <1>2. ops' \in [Proposals -> {"open", "committed", "rejected", "blocked"}]
    BY DEF Reject, StoreInv, TypeOK
  <1>3. UNCHANGED <<mem, links, root, resolutions>>
    BY DEF Reject
  <1>4. GroundedFacts'
    BY <1>3 DEF StoreInv, GroundedFacts
  <1> QED BY <1>1, <1>2, <1>3, <1>4 DEF StoreInv, TypeOK

(* A publication that resolves p and commits, from tables m, l, r and d.   *)
LEMMA ResolveCommitInv ==
  ASSUME StoreInv, NEW p \in Proposals, NEW id \in Ids, NEW kind \in Kinds,
         NEW m \in [Ids -> Record], GroundedIn(m),
         NEW l \in SUBSET (Ids \X Ids),
         NEW r \in SUBSET Row, NEW d \in SUBSET Document,
         NEW rows \in SUBSET Row, \A row \in rows : temps[row.temp].state # "resolved",
         Resolve(p, id, m, l, r, d), Commit(p, id, kind, rows),
         root' \in RootRecord, resolutions' \in Seq(Ids \X Outcomes)
  PROVE  StoreInv'
  <1>1. /\ mem' \in [Ids -> Record]
        /\ links' \in SUBSET (Ids \X Ids)
        /\ refs' \subseteq Row /\ deferred' \subseteq Document
        /\ \A i \in Ids : /\ mem'[i].kind = m[i].kind /\ mem'[i].active = m[i].active
                          /\ m[i].kind # "obligation" => mem'[i].preds = m[i].preds
    BY ResolveTypes
  <1>2. /\ temps' \in [Proposals -> Temp]
        /\ ops' \in [Proposals -> {"open", "committed", "rejected", "blocked"}]
        /\ ResolvedTargets'
    BY CommitTypes
  <1>3. GroundedIn(mem')
    BY <1>1, GraphKept
  <1>4. GroundedFacts'
    BY <1>3 DEF GroundedFacts, GroundedIn
  <1> QED BY <1>1, <1>2, <1>4 DEF StoreInv, TypeOK

(* The record an add inserts.                                              *)
LEMMA NewRecord ==
  ASSUME NEW kind \in Kinds, NEW preds \in SUBSET Ids, NEW relations \in SUBSET SUBSET Ids
  PROVE  LET rec == [New(kind, preds) EXCEPT !.relations = relations]
         IN  rec \in Record /\ rec.kind = kind /\ rec.active /\ rec.preds = preds
  <1>1. Absent \in Record
    BY DEF Absent, Record, Kinds
  <1>2. /\ New(kind, preds) \in Record
        /\ New(kind, preds).kind = kind /\ New(kind, preds).active
        /\ New(kind, preds).preds = preds
    BY <1>1 DEF New, Record
  <1> QED BY <1>2 DEF Record

LEMMA InsertedTypes ==
  ASSUME StoreInv, NEW id \in Ids, NEW kind \in Kinds, NEW preds \in SUBSET Ids,
         NEW soft \in SoftPayload, NEW relation \in SUBSET (Ids \cup Proposals)
  PROVE  LET m == Inserted(id, kind, preds, soft, relation)
         IN  /\ m \in [Ids -> Record]
             /\ \A i \in Ids \ {id} : m[i] = mem[i]
             /\ m[id].kind = kind /\ m[id].active
             /\ kind = "fact" => m[id].preds = preds
  <1> DEFINE premises == IF kind = "obligation" THEN Named(soft) \cap Facts ELSE {}
             rec == [New(kind, preds \cup premises) EXCEPT !.relations = ReadyRelation(relation)]
  <1>1. premises \in SUBSET Ids
    BY NamedTypes
  <1>2. ReadyRelation(relation) \in SUBSET SUBSET Ids
    BY ReadyTypes
  <1>3. preds \cup premises \in SUBSET Ids
    BY <1>1
  <1>4. rec \in Record /\ rec.kind = kind /\ rec.active /\ rec.preds = preds \cup premises
    <2> DEFINE ps == preds \cup premises
               rs == ReadyRelation(relation)
    <2> HIDE DEF ps, rs
    <2>1. ps \in SUBSET Ids /\ rs \in SUBSET SUBSET Ids
      BY <1>2, <1>3 DEF ps, rs
    <2>2. LET new == [New(kind, ps) EXCEPT !.relations = rs]
          IN  new \in Record /\ new.kind = kind /\ new.active /\ new.preds = ps
      BY <2>1, NewRecord
    <2> QED BY <2>2, Zenon DEF ps, rs
  <1>5. kind = "fact" => premises = {}
    OBVIOUS
  <1>6. Inserted(id, kind, preds, soft, relation) = [mem EXCEPT ![id] = rec]
    BY Zenon DEF Inserted
  <1>7. mem \in [Ids -> Record]
    BY DEF StoreInv, TypeOK
  <1> HIDE DEF rec, premises
  <1> QED BY <1>4, <1>5, <1>6, <1>7

(* A new Fact rests on active Facts, and nothing older rests on it.        *)
LEMMA InsertedGrounded ==
  ASSUME StoreInv, NEW id \in Ids, ~Exists(id), NEW kind \in Kinds,
         NEW preds \in SUBSET Ids, Grounded(preds),
         NEW soft \in SoftPayload, NEW relation \in SUBSET (Ids \cup Proposals)
  PROVE  GroundedIn(Inserted(id, kind, preds, soft, relation))
  <1> DEFINE m == Inserted(id, kind, preds, soft, relation)
  <1>1. /\ \A i \in Ids \ {id} : m[i] = mem[i]
        /\ m[id].kind = kind /\ m[id].active
        /\ kind = "fact" => m[id].preds = preds
    BY InsertedTypes
  <1> HIDE DEF m
  <1>2. mem \in [Ids -> Record] /\ GroundedIn(mem)
    BY DEF StoreInv, TypeOK, GroundedFacts
  <1> SUFFICES ASSUME NEW f \in Ids, m[f].kind = "fact", NEW g \in m[f].preds
               PROVE  m[g].kind = "fact" /\ (m[f].active => m[g].active)
    BY Zenon DEF GroundedIn, m
  <1>3. mem[id].kind # "fact"
    BY DEF Exists
  <1>4. CASE f = id
    <2>1. g \in Ids /\ mem[g].kind = "fact" /\ mem[g].active
      BY <1>1, <1>4 DEF Grounded, Facts
    <2>2. g # id
      BY <1>3, <2>1
    <2> QED BY <1>1, <2>1, <2>2
  <1>5. CASE f # id
    <2>1. m[f] = mem[f]
      BY <1>1, <1>5
    <2>2. mem[f] \in Record
      BY <1>2
    <2>3. g \in Ids
      BY <2>1, <2>2 DEF Record
    <2>4. mem[g].kind = "fact" /\ (mem[f].active => mem[g].active)
      BY <1>2, <2>1 DEF GroundedIn
    <2>5. g # id
      BY <1>3, <2>4
    <2> QED BY <1>1, <2>1, <2>3, <2>4, <2>5
  <1> QED BY <1>4, <1>5

LEMMA LinkTypes ==
  ASSUME NEW kind, NEW i \in Ids, NEW S \in SUBSET Ids
  PROVE  {Link(kind, i, j) : j \in S} \in SUBSET (Ids \X Ids)
  BY DEF Link

LEMMA PublishInv ==
  ASSUME StoreInv, NEW p \in Proposals, NEW id \in Ids, NEW kind \in Kinds,
         NEW preds \in SUBSET Ids, NEW soft \in SoftPayload,
         NEW relation \in SUBSET (Ids \cup Proposals), NEW outcome \in Outcomes \cup {NoId},
         Publish(p, id, kind, preds, soft, relation, outcome)
  PROVE  StoreInv'
  <1> DEFINE m == Inserted(id, kind, preds, soft, relation)
             l == InsertedLinks(id, kind, soft)
             rows == NewRows(id, p, soft, relation)
             r == refs \cup rows
             d == deferred \cup DeferredRelation(id, p, relation)
  <1>1. CASE Stale(p, id, m, r, d)
    <2>1. Reject(p, kind, "blocked", FALSE)
      BY <1>1, Zenon DEF Publish
    <2> QED BY <2>1, RejectInv
  <1>2. CASE ~Stale(p, id, m, r, d)
    <2>1. /\ Resolve(p, id, m, l, r, d) /\ Commit(p, id, kind, rows)
          /\ IF outcome = NoId THEN UNCHANGED <<root, resolutions>>
                               ELSE RecordRoot(id, outcome)
      BY <1>2, Zenon DEF Publish
    <2>2. m \in [Ids -> Record]
      BY InsertedTypes
    <2>3. GroundedIn(m)
      <3>1. ~Exists(id) /\ Grounded(preds)
        BY Zenon DEF Publish
      <3> QED BY <3>1, InsertedGrounded
    <2>4. l \in SUBSET (Ids \X Ids)
      <3>1. links \in SUBSET (Ids \X Ids)
        BY DEF StoreInv, TypeOK
      <3>2. Named(soft) \in SUBSET Ids
        BY NamedTypes
      <3> QED BY <3>1, <3>2, LinkTypes DEF InsertedLinks
    <2>5. /\ rows \in SUBSET Row
          /\ \A row \in rows : temps[row.temp].state # "resolved"
      BY RowTypes
    <2>6. r \in SUBSET Row
      BY <2>5 DEF StoreInv, TypeOK
    <2>7. d \in SUBSET Document
      BY DeferredTypes DEF StoreInv, TypeOK
    <2>8. root' \in RootRecord /\ resolutions' \in Seq(Ids \X Outcomes)
      <3>1. CASE outcome = NoId
        BY <2>1, <3>1 DEF StoreInv, TypeOK
      <3>2. CASE outcome # NoId
        BY <2>1, <3>2, RecordRootTypes
      <3> QED BY <3>1, <3>2
    <2> HIDE DEF m, l, r, d, rows
    <2> QED BY <2>1, <2>2, <2>3, <2>4, <2>5, <2>6, <2>7, <2>8, ResolveCommitInv
  <1> QED BY <1>1, <1>2

LEMMA UpdateInv ==
  ASSUME StoreInv, NEW p \in Proposals, NEW target \in Ids, NEW soft \in SoftPayload,
         NEW relation \in SUBSET (Ids \cup Proposals), NEW removed, NEW replace \in BOOLEAN,
         Update(p, target, soft, relation, removed, replace)
  PROVE  StoreInv'
  <1> DEFINE kind == mem[target].kind
             new == NewRows(target, p, soft, relation)
             kept == IF replace THEN {} ELSE mem[target].relations
             m == [mem EXCEPT ![target].relations =
                     (IF replace THEN {} ELSE @) \cup ReadyRelation(relation)]
             ended == {Link(kind, target, i) : i \in removed \cap Ids}
             l == (links \ ended) \cup {Link(kind, target, i) : i \in Named(soft)}
             r == (refs \ Withdrawn(target, removed, replace)) \cup new
             d == {e \in deferred : ~(replace /\ e.source = target)}
                     \cup DeferredRelation(target, p, relation)
  <1>0. mem \in [Ids -> Record] /\ GroundedIn(mem)
    BY DEF StoreInv, TypeOK, GroundedFacts
  <1>1. CASE Stale(p, target, m, r, d)
    <2>1. Reject(p, kind, "blocked", TRUE)
      BY <1>1, Zenon DEF Update
    <2> QED BY <2>1, RejectInv
  <1>2. CASE ~Stale(p, target, m, r, d)
    <2>1. /\ Resolve(p, target, m, l, r, d) /\ Commit(p, target, kind, new)
          /\ UNCHANGED <<root, resolutions>>
      BY <1>2, Zenon DEF Update
    <2>2. kind \in Kinds
      BY DEF Update, Kinds
    <2>3. m = [mem EXCEPT ![target] = [mem[target] EXCEPT
                  !.relations = kept \cup ReadyRelation(relation)]]
      BY <1>0
    <2>4. [mem[target] EXCEPT !.relations = kept \cup ReadyRelation(relation)] \in Record
      <3>1. mem[target] \in Record
        BY <1>0
      <3>2. kept \cup ReadyRelation(relation) \in SUBSET SUBSET Ids
        BY <3>1, ReadyTypes DEF Record
      <3> HIDE DEF kept
      <3> QED BY <3>1, <3>2 DEF Record
    <2>5. m \in [Ids -> Record]
      <3> HIDE DEF m, kept
      <3> QED BY <1>0, <2>3, <2>4
    <2>6. \A i \in Ids : /\ m[i].kind = mem[i].kind /\ m[i].active = mem[i].active
                         /\ m[i].preds = mem[i].preds
      <3>1. mem[target] \in Record
        BY <1>0
      <3> HIDE DEF m, kept
      <3> QED BY <1>0, <2>3, <3>1 DEF Record
    <2>7. GroundedIn(m)
      <3> HIDE DEF m
      <3> QED BY <1>0, <2>5, <2>6, GraphKept
    <2>8. l \in SUBSET (Ids \X Ids)
      <3>1. links \in SUBSET (Ids \X Ids)
        BY DEF StoreInv, TypeOK
      <3>2. Named(soft) \in SUBSET Ids
        BY NamedTypes
      <3> QED BY <3>1, <3>2, LinkTypes
    <2>9. /\ new \in SUBSET Row
          /\ \A row \in new : temps[row.temp].state # "resolved"
      BY RowTypes
    <2>10. r \in SUBSET Row
      BY <2>9 DEF StoreInv, TypeOK
    <2>11. d \in SUBSET Document
      BY DeferredTypes DEF StoreInv, TypeOK
    <2>12. root' \in RootRecord /\ resolutions' \in Seq(Ids \X Outcomes)
      BY <2>1 DEF StoreInv, TypeOK
    <2> HIDE DEF m, l, r, d, new, kind
    <2> QED BY <2>1, <2>2, <2>5, <2>7, <2>8, <2>9, <2>10, <2>11, <2>12, ResolveCommitInv
  <1> QED BY <1>1, <1>2

LEMMA DuplicateInv ==
  ASSUME StoreInv, NEW p \in Proposals, NEW target \in Ids, Duplicate(p, target)
  PROVE  StoreInv'
  <1>1. /\ Resolve(p, target, mem, links, refs, deferred)
        /\ Commit(p, target, mem[target].kind, {})
        /\ UNCHANGED <<root, resolutions>>
        /\ mem[target].kind \in Kinds
    BY DEF Duplicate, Kinds
  <1>2. /\ mem \in [Ids -> Record] /\ links \in SUBSET (Ids \X Ids)
        /\ refs \in SUBSET Row /\ deferred \in SUBSET Document /\ GroundedIn(mem)
        /\ root' \in RootRecord /\ resolutions' \in Seq(Ids \X Outcomes)
    BY <1>1 DEF StoreInv, TypeOK, GroundedFacts
  <1>3. {} \in SUBSET Row /\ \A row \in {} : temps[row.temp].state # "resolved"
    OBVIOUS
  <1> QED BY <1>1, <1>2, <1>3, ResolveCommitInv

LEMMA DropInv ==
  ASSUME StoreInv, NEW p \in Proposals, RejectTarget(p) \/ AbandonTarget(p)
  PROVE  StoreInv'
  <1>1. PICK state \in {"rejected", "abandoned"} : DropTarget(p, state)
    BY DEF RejectTarget, AbandonTarget
  <1>2. UNCHANGED <<mem, links, ops, root, resolutions>>
    BY DEF RejectTarget, AbandonTarget
  <1>3. /\ temps' \in [Proposals -> Temp]
        /\ refs' \subseteq Row /\ deferred' \subseteq Document
        /\ ResolvedTargets'
    BY <1>1, DropTypes
  <1>4. GroundedFacts'
    BY <1>2 DEF StoreInv, GroundedFacts
  <1> QED BY <1>2, <1>3, <1>4 DEF StoreInv, TypeOK

LEMMA RemoveInv ==
  ASSUME StoreInv, NEW i \in Ids, Remove(i)
  PROVE  StoreInv'
  <1>1. mem \in [Ids -> Record] /\ GroundedIn(mem)
    BY DEF StoreInv, TypeOK, GroundedFacts
  <1>2. /\ mem' = [mem EXCEPT ![i].active = FALSE] /\ mem[i].kind # "fact"
        /\ links' \subseteq links
        /\ UNCHANGED <<temps, refs, deferred, ops, root, resolutions>>
    BY DEF Remove
  <1>3. mem[i] \in Record
    BY <1>1
  <1>4. [mem[i] EXCEPT !.active = FALSE] \in Record
    BY <1>3 DEF Record
  <1>5. mem' \in [Ids -> Record]
    BY <1>1, <1>2, <1>4
  <1>6. \A f \in Ids : /\ mem'[f].kind = mem[f].kind /\ mem'[f].preds = mem[f].preds
                       /\ mem[f].kind = "fact" => mem'[f].active = mem[f].active
    BY <1>1, <1>2, <1>3 DEF Record
  <1>7. GroundedIn(mem')
    <2> SUFFICES ASSUME NEW f \in Ids, mem'[f].kind = "fact", NEW g \in mem'[f].preds
                 PROVE  mem'[g].kind = "fact" /\ (mem'[f].active => mem'[g].active)
      BY DEF GroundedIn
    <2>1. mem[f].kind = "fact" /\ g \in mem[f].preds /\ mem'[f].active = mem[f].active
      BY <1>6
    <2>2. g \in Ids
      <3>1. mem[f] \in Record
        BY <1>1
      <3> QED BY <2>1, <3>1 DEF Record
    <2>3. mem[g].kind = "fact" /\ (mem[f].active => mem[g].active)
      BY <1>1, <2>1 DEF GroundedIn
    <2> QED BY <1>6, <2>1, <2>2, <2>3
  <1>8. GroundedFacts'
    BY <1>7 DEF GroundedFacts, GroundedIn
  <1>9. ResolvedTargets'
    BY <1>2 DEF StoreInv, ResolvedTargets
  <1> QED BY <1>2, <1>5, <1>8, <1>9 DEF StoreInv, TypeOK

(* Whoever rests on a descendant of f is a descendant of f.                *)
LEMMA DescendantsClosed ==
  ASSUME NEW f, NEW g \in Facts, NEW h \in mem[g].preds, h \in Descendants(f)
  PROVE  g \in Descendants(f)
  <1> SUFFICES ASSUME NEW S \in SUBSET Facts, f \in S,
                      \A k \in Facts : mem[k].preds \cap S # {} => k \in S
               PROVE  g \in S
    BY DEF Descendants
  <1>1. h \in S
    BY DEF Descendants
  <1> QED BY <1>1

LEMMA RevokeInv ==
  ASSUME StoreInv, NEW f \in Ids, Revoke(f)
  PROVE  StoreInv'
  <1> DEFINE revoked == {g \in Descendants(f) : mem[g].active}
             rec(i) == [mem[i] EXCEPT !.active = @ /\ i \notin revoked,
                                      !.unsupported = @ \/ i \in Unsupported(f)]
  <1>1. mem \in [Ids -> Record] /\ GroundedIn(mem)
    BY DEF StoreInv, TypeOK, GroundedFacts
  <1>2. /\ mem' = [i \in Ids |-> rec(i)]
        /\ links' \subseteq links
        /\ RefreshRoot(mem')
        /\ UNCHANGED <<temps, refs, deferred, ops, resolutions>>
    BY DEF Revoke
  <1>3. ASSUME NEW i \in Ids
        PROVE  /\ rec(i) \in Record
               /\ rec(i).kind = mem[i].kind /\ rec(i).preds = mem[i].preds
               /\ rec(i).active <=> mem[i].active /\ i \notin revoked
    <2> DEFINE active == mem[i].active /\ i \notin revoked
               unsupported == mem[i].unsupported \/ i \in Unsupported(f)
    <2>1. mem[i] \in Record
      BY <1>1
    <2>2. active \in BOOLEAN /\ unsupported \in BOOLEAN
      OBVIOUS
    <2>3. rec(i) = [mem[i] EXCEPT !.active = active, !.unsupported = unsupported]
      OBVIOUS
    <2>4. active <=> mem[i].active /\ i \notin revoked
      OBVIOUS
    <2> HIDE DEF active, unsupported, rec, revoked
    <2>5. [mem[i] EXCEPT !.active = active, !.unsupported = unsupported] \in Record
      BY <2>1, <2>2 DEF Record
    <2>6. /\ rec(i).kind = mem[i].kind /\ rec(i).preds = mem[i].preds
          /\ rec(i).active = active
      BY <2>1, <2>3 DEF Record
    <2> QED BY <2>2, <2>3, <2>4, <2>5, <2>6
  <1>4. mem' \in [Ids -> Record]
    <2> HIDE DEF rec
    <2> QED BY <1>2, <1>3
  <1>5. \A i \in Ids : /\ mem'[i].kind = mem[i].kind /\ mem'[i].preds = mem[i].preds
                       /\ mem'[i].active <=> mem[i].active /\ i \notin revoked
    <2> HIDE DEF rec, revoked
    <2> QED BY <1>2, <1>3
  <1>6. GroundedIn(mem')
    <2> SUFFICES ASSUME NEW g \in Ids, mem'[g].kind = "fact", NEW h \in mem'[g].preds
                 PROVE  mem'[h].kind = "fact" /\ (mem'[g].active => mem'[h].active)
      BY DEF GroundedIn
    <2>1. g \in Facts /\ h \in mem[g].preds
      BY <1>5 DEF Facts
    <2>2. h \in Ids
      <3>1. mem[g] \in Record
        BY <1>1
      <3> QED BY <2>1, <3>1 DEF Record
    <2>3. mem[h].kind = "fact" /\ (mem[g].active => mem[h].active)
      BY <1>1, <2>1 DEF GroundedIn, Facts
    <2>4. h \in Descendants(f) => g \in Descendants(f)
      BY <2>1, DescendantsClosed
    <2> QED BY <1>5, <2>2, <2>3, <2>4
  <1>7. GroundedFacts'
    BY <1>6 DEF GroundedFacts, GroundedIn
  <1>8. root' \in RootRecord
    BY <1>2, RefreshRootTypes
  <1>9. ResolvedTargets'
    BY <1>2 DEF StoreInv, ResolvedTargets
  <1> QED BY <1>2, <1>4, <1>7, <1>8, <1>9 DEF StoreInv, TypeOK

(***************************************************************************)
(* The invariant.                                                          *)
(***************************************************************************)
LEMMA StoreInvInit == Init => StoreInv
  <1> SUFFICES ASSUME Init PROVE StoreInv
    OBVIOUS
  <1>1. Absent \in Record /\ New("obligation", {}) \in Record
    BY DEF Absent, New, Record, Kinds
  <1>2. mem \in [Ids -> Record]
    BY <1>1 DEF Init
  <1>3. \A i \in Ids : mem[i].kind # "fact"
    <2>1. Absent.kind = "none" /\ New("obligation", {}).kind = "obligation"
      BY DEF Absent, New
    <2> QED BY <2>1 DEF Init
  <1>4. GroundedFacts
    BY <1>3 DEF GroundedFacts, GroundedIn
  <1>5. temps \in [Proposals -> Temp] /\ ResolvedTargets
    BY DEF Init, Temp, TempStates, ResolvedTargets
  <1>6. /\ links \in SUBSET (Ids \X Ids)
        /\ refs \subseteq Row /\ deferred \subseteq Document
        /\ ops \in [Proposals -> {"open", "committed", "rejected", "blocked"}]
    BY DEF Init
  <1>7. root \in RootRecord /\ resolutions \in Seq(Ids \X Outcomes)
    BY DEF Init, RootRecord
  <1> QED BY <1>2, <1>4, <1>5, <1>6, <1>7 DEF StoreInv, TypeOK

LEMMA StoreInvInductive == StoreInv /\ [Next]_vars => StoreInv'
  <1> SUFFICES ASSUME StoreInv, [Next]_vars PROVE StoreInv'
    OBVIOUS
  <1>1. ASSUME NEW p \in Proposals, PublishSome(p) PROVE StoreInv'
    <2>1. PICK id \in Ids, kind \in Published :
            \E preds \in IF kind = "fact" THEN Small(Facts, MaxPredecessors) ELSE {{}},
               soft \in SoftRefs(p, kind),
               outcome \in IF kind = "fact" THEN Outcomes \cup {NoId} ELSE {NoId} :
                \E relation \in Relations(p, kind, soft) :
                   Publish(p, id, kind, preds, soft, relation, outcome)
      BY <1>1, Zenon DEF PublishSome
    <2>2. PICK preds \in IF kind = "fact" THEN Small(Facts, MaxPredecessors) ELSE {{}},
               soft \in SoftRefs(p, kind),
               outcome \in IF kind = "fact" THEN Outcomes \cup {NoId} ELSE {NoId} :
                \E relation \in Relations(p, kind, soft) :
                   Publish(p, id, kind, preds, soft, relation, outcome)
      BY <2>1, Zenon
    <2>3. PICK relation \in Relations(p, kind, soft) :
             Publish(p, id, kind, preds, soft, relation, outcome)
      BY <2>2, Zenon
    <2>4. kind \in Kinds
      BY ConstantsAssumption
    <2>5. preds \in SUBSET Ids
      <3>1. kind = "fact" => preds \subseteq Facts
        BY SmallIsSubset
      <3> QED BY <3>1 DEF Facts
    <2>6. soft \in SoftPayload
      BY SoftTypes DEF StoreInv
    <2>7. relation \in SUBSET (Ids \cup Proposals)
      BY RelationTypes
    <2>8. outcome \in Outcomes \cup {NoId}
      OBVIOUS
    <2> QED BY <2>3, <2>4, <2>5, <2>6, <2>7, <2>8, PublishInv
  <1>2. ASSUME NEW p \in Proposals, UpdateSome(p) PROVE StoreInv'
    <2>1. PICK target \in Ids, replace \in BOOLEAN, removed \in Small(Targets \ {p}, 1) :
            \E soft \in SoftRefs(p, mem[target].kind) :
               \E relation \in Relations(p, mem[target].kind, soft) :
                  Update(p, target, soft, relation, removed, replace)
      BY <1>2, Zenon DEF UpdateSome
    <2>2. PICK soft \in SoftRefs(p, mem[target].kind) :
               \E relation \in Relations(p, mem[target].kind, soft) :
                  Update(p, target, soft, relation, removed, replace)
      BY <2>1, Zenon
    <2>3. PICK relation \in Relations(p, mem[target].kind, soft) :
             Update(p, target, soft, relation, removed, replace)
      BY <2>2, Zenon
    <2>4. soft \in SoftPayload
      BY SoftTypes DEF StoreInv
    <2>5. relation \in SUBSET (Ids \cup Proposals)
      BY RelationTypes
    <2> QED BY <2>3, <2>4, <2>5, UpdateInv
  <1>3. ASSUME NEW p \in Proposals, NEW kind, NEW update, Malformed(p, kind, update)
        PROVE  StoreInv'
    <2>1. Reject(p, kind, "rejected", update)
      BY <1>3 DEF Malformed
    <2> QED BY <2>1, RejectInv
  <1>4. CASE UNCHANGED vars
    BY <1>4 DEF vars, StoreInv, TypeOK, ResolvedTargets, GroundedFacts, GroundedIn
  <1> QED BY <1>1, <1>2, <1>3, <1>4, DuplicateInv, DropInv, RemoveInv, RevokeInv, Zenon DEF Next

(* Every reachable state is well typed.                                    *)
THEOREM StoreTypes == Spec => []TypeOK
  <1>1. StoreInv => TypeOK
    BY DEF StoreInv
  <1> QED BY <1>1, StoreInvInit, StoreInvInductive, PTL DEF Spec

(* Every Fact an active Fact rests on is active, whatever is published,    *)
(* resolved late, withdrawn or revoked, and in whatever order.             *)
THEOREM FactsSupported == Spec => []ActiveFactsSupported
  <1>1. StoreInv => ActiveFactsSupported
    <2> SUFFICES ASSUME StoreInv, NEW f \in Facts, mem[f].active, NEW g \in mem[f].preds
                 PROVE  g \in Facts /\ mem[g].active
      BY DEF ActiveFactsSupported
    <2>1. mem[f] \in Record
      BY DEF StoreInv, TypeOK, Facts
    <2>2. g \in Ids
      BY <2>1 DEF Record
    <2> QED BY <2>2 DEF StoreInv, GroundedFacts, GroundedIn, Facts
  <1> QED BY <1>1, StoreInvInit, StoreInvInductive, PTL DEF Spec

(***************************************************************************)
(* The tables of what is still to come.  A relation is deferred under the  *)
(* id of the proposal that stated it, which is committed from then on, so  *)
(* its rows are found by that id and belong to the same obligation.        *)
(***************************************************************************)
CausesKnown ==
    /\ \A e \in deferred : ops[e.cause] = "committed"
    /\ \A row \in refs :
          /\ row.relation # NoId => ops[row.relation] = "committed"
          /\ \A e \in deferred : row.relation = e.cause => row.source = e.source

TablesInv == NothingStrands /\ CausesKnown

(* A step never revives a rejected or abandoned temporary id, and never    *)
(* changes what a resolved one stands for.                                 *)
IdsKept ==
    \A p \in Proposals :
        /\ temps[p].state \in {"rejected", "abandoned"} =>
              temps'[p].state \in {"rejected", "abandoned"}
        /\ temps[p].state = "resolved" => temps'[p] = temps[p]

(* What a reservation does to a temporary id.                              *)
LEMMA ReserveFacts ==
  ASSUME StoreInv, NEW rows \in SUBSET Row, NEW t \in Proposals,
         \A row \in rows : temps[row.temp].state \in {"unknown", "pending"}
  PROVE  LET new == Reserve(temps, rows)[t] IN
         /\ (\A row \in rows : row.temp # t) => new = temps[t]
         /\ \A row \in rows : row.temp = t =>
               /\ temps[t].state \in {"unknown", "pending"} /\ new.state = "pending"
               /\ new.kinds \subseteq row.kinds /\ new.kinds \subseteq temps[t].kinds
  <1> DEFINE mine == {r \in rows : r.temp = t}
             kept == {k \in temps[t].kinds : \A r \in mine : k \in r.kinds}
  <1>1. Reserve(temps, rows)[t] =
           IF mine = {} THEN temps[t] ELSE [temps[t] EXCEPT !.state = "pending", !.kinds = kept]
    BY Zenon DEF Reserve
  <1>2. temps[t] \in Temp
    BY DEF StoreInv, TypeOK
  <1>3. \A row \in rows : row.temp = t => mine # {} /\ kept \subseteq row.kinds
    OBVIOUS
  <1>4. kept \subseteq temps[t].kinds
    OBVIOUS
  <1>5. (\A row \in rows : row.temp # t) => mine = {}
    OBVIOUS
  <1> HIDE DEF mine, kept
  <1>6. ASSUME mine # {}
        PROVE  Reserve(temps, rows)[t].state = "pending" /\ Reserve(temps, rows)[t].kinds = kept
    BY <1>1, <1>2, <1>6 DEF Temp
  <1> QED BY <1>1, <1>3, <1>4, <1>5, <1>6

(* The rows a payload leaves waiting.                                      *)
LEMMA RowFacts ==
  ASSUME NEW id \in Ids, NEW p \in Proposals, NEW soft \in SoftPayload,
         NEW relation \in SUBSET (Ids \cup Proposals)
  PROVE  /\ \A row \in NewRows(id, p, soft, relation) :
               /\ temps[row.temp].state \in {"unknown", "pending"}
               /\ row.source = id /\ row.relation \in {NoId, p}
         /\ \A e \in DeferredRelation(id, p, relation) :
               /\ e.cause = p /\ e.source = id
               /\ \E row \in NewRows(id, p, soft, relation) : row.relation = p
  <1>1. \A row \in WaitingRefs(id, soft) :
           /\ temps[row.temp].state \in {"unknown", "pending"}
           /\ row.source = id /\ row.relation = NoId
    BY DEF WaitingRefs, Waits
  <1>2. \A row \in OperandRefs(id, p, relation) :
           /\ temps[row.temp].state \in {"unknown", "pending"}
           /\ row.source = id /\ row.relation = p
    BY DEF OperandRefs, WaitingOperands, Waits
  <1>3. ASSUME NEW e \in DeferredRelation(id, p, relation)
        PROVE  /\ e.cause = p /\ e.source = id
               /\ \E row \in NewRows(id, p, soft, relation) : row.relation = p
    <2>1. e.cause = p /\ e.source = id /\ WaitingOperands(relation) # {}
      BY DEF DeferredRelation
    <2>2. PICK t : t \in WaitingOperands(relation)
      BY <2>1
    <2>3. [source |-> id, temp |-> t, kinds |-> OperandKinds, relation |-> p]
             \in NewRows(id, p, soft, relation)
      BY <2>2 DEF OperandRefs, NewRows
    <2> QED BY <2>1, <2>3
  <1> QED BY <1>1, <1>2, <1>3 DEF NewRows

(* A document that outlives the resolution of p is one it started from.    *)
LEMMA StillDeferredFacts ==
  ASSUME NEW p \in Proposals, NEW id \in Ids, NEW r \in SUBSET Row, NEW d \in SUBSET Document,
         NEW e \in StillDeferred(p, id, r, d),
         \A f \in d : \E row \in r : row.relation = f.cause
  PROVE  /\ \E f \in d : e.cause = f.cause /\ e.source = f.source
         /\ \E row \in r \ Awaiting(p, r) : row.relation = e.cause
  <1>1. CASE e \in d /\ \A row \in Awaiting(p, r) : row.relation # e.cause
    BY <1>1
  <1>2. CASE e \in Found(p, id, r, d) \ Ready(p, id, r, d)
    <2>1. PICK f \in d : e = [f EXCEPT !.found = @ \cup {id}]
      BY <1>2 DEF Found
    <2>2. e.cause = f.cause /\ e.source = f.source
      BY <2>1 DEF Document
    <2>3. \E row \in r : row.relation = e.cause /\ row.temp # p
      BY <1>2 DEF Ready
    <2> QED BY <2>2, <2>3 DEF Awaiting
  <1> QED BY <1>1, <1>2 DEF StillDeferred

(* The commit of an open proposal p as id, from tables m, r and d.         *)
LEMMA CommitTables ==
  ASSUME StoreInv, TablesInv, NEW p \in Proposals, ops[p] = "open",
         NEW id \in Ids, NEW kind \in Kinds, Registers(p, kind),
         NEW m \in [Ids -> Record], m[id].kind # "none",
         \A i \in Ids : Exists(i) => m[i].kind # "none",
         NEW l \in SUBSET (Ids \X Ids),
         NEW r \in SUBSET Row, NEW d \in SUBSET Document, NEW rows \in SUBSET Row,
         \A row \in rows : /\ temps[row.temp].state \in {"unknown", "pending"}
                           /\ row.source = id /\ row.relation \in {NoId, p},
         r \subseteq refs \cup rows,
         \A e \in d : e \in deferred \/ (e.cause = p /\ e.source = id),
         \A e \in d : \E row \in r : row.relation = e.cause,
         Resolve(p, id, m, l, r, d), Commit(p, id, kind, rows)
  PROVE  TablesInv' /\ IdsKept
  <1> DEFINE ts == Reserve(temps, rows)
  <1>0. /\ temps \in [Proposals -> Temp] /\ refs \subseteq Row /\ deferred \subseteq Document
        /\ ops \in [Proposals -> {"open", "committed", "rejected", "blocked"}]
        /\ WaitingRowsCanEnd /\ DeferredCanEnd /\ CommittedIsResolved /\ CausesKnown
    BY DEF StoreInv, TypeOK, TablesInv, NothingStrands
  <1>1. \A i \in Ids : mem'[i].kind = m[i].kind
    BY ResolveTypes
  <1>2. refs' = r \ Awaiting(p, r) /\ deferred' = StillDeferred(p, id, r, d)
    BY DEF Resolve
  <1>3. /\ ops'[p] = "committed" /\ \A q \in Proposals \ {p} : ops'[q] = ops[q]
    BY <1>0 DEF Commit
  <1>4. /\ temps'[p] = [state |-> "resolved", kinds |-> {kind}, target |-> id]
        /\ \A q \in Proposals \ {p} : temps'[q] = ts[q]
    <2>1. ts \in [Proposals -> Temp]
      BY ReserveTypes
    <2> HIDE DEF ts
    <2> QED BY <2>1 DEF Commit, ts
  <1> HIDE DEF ts
  <1>5. \A q \in Proposals :
           /\ (\A row \in rows : row.temp # q) => ts[q] = temps[q]
           /\ \A row \in rows : row.temp = q =>
                 /\ temps[q].state \in {"unknown", "pending"} /\ ts[q].state = "pending"
                 /\ ts[q].kinds \subseteq row.kinds /\ ts[q].kinds \subseteq temps[q].kinds
    BY ReserveFacts DEF ts
  <1>6. temps[p].state \notin {"resolved", "rejected", "abandoned"}
    BY <1>0 DEF CommittedIsResolved, Registers
  <1>7. WaitingRowsCanEnd'
    <2> SUFFICES ASSUME NEW row \in refs'
                 PROVE  temps'[row.temp].state = "pending" /\ temps'[row.temp].kinds \subseteq row.kinds
      BY DEF WaitingRowsCanEnd
    <2>1. row \in r /\ row.temp \in Proposals \ {p} /\ temps'[row.temp] = ts[row.temp]
      BY <1>2, <1>4 DEF Awaiting, Row
    <2>2. CASE row \in rows
      BY <1>5, <2>1, <2>2
    <2>3. CASE row \in refs
      <3>1. temps[row.temp].state = "pending" /\ temps[row.temp].kinds \subseteq row.kinds
        BY <1>0, <2>3 DEF WaitingRowsCanEnd
      <3>2. ts[row.temp] = temps[row.temp] \/ /\ ts[row.temp].state = "pending"
                                              /\ ts[row.temp].kinds \subseteq temps[row.temp].kinds
        BY <1>5, <2>1
      <3> QED BY <2>1, <3>1, <3>2
    <2> QED BY <2>1, <2>2, <2>3
  <1>8. \A e \in deferred' : /\ \E f \in d : e.cause = f.cause /\ e.source = f.source
                             /\ \E row \in refs' : row.relation = e.cause
    BY <1>2, StillDeferredFacts
  <1>9. DeferredCanEnd'
    BY <1>8 DEF DeferredCanEnd
  <1>10. CommittedIsResolved'
    <2> SUFFICES ASSUME NEW q \in Proposals
                 PROVE  /\ ops'[q] = "committed" <=> temps'[q].state = "resolved"
                        /\ temps'[q].state = "resolved" => mem'[temps'[q].target].kind # "none"
      BY DEF CommittedIsResolved, Exists
    <2>1. CASE q = p
      BY <1>1, <1>3, <1>4, <2>1 DEF Exists
    <2>2. CASE q # p
      <3>1. temps'[q] = ts[q] /\ ops'[q] = ops[q]
        BY <1>3, <1>4, <2>2
      <3>2. ts[q] = temps[q] \/ (temps[q].state # "resolved" /\ ts[q].state # "resolved")
        BY <1>5
      <3>3. temps[q].state = "resolved" => temps[q].target \in Ids /\ Exists(temps[q].target)
        BY <1>0 DEF CommittedIsResolved, StoreInv, ResolvedTargets
      <3> QED BY <1>0, <1>1, <3>1, <3>2, <3>3 DEF CommittedIsResolved, Exists
    <2> QED BY <2>1, <2>2
  <1>11. CausesKnown'
    <2>0. \A q \in Proposals : ops[q] = "committed" \/ q = p => ops'[q] = "committed"
      BY <1>3
    <2>1. ASSUME NEW f \in d PROVE ops'[f.cause] = "committed"
      <3>1. f.cause \in Proposals
        BY DEF Document
      <3>2. ops[f.cause] = "committed" \/ f.cause = p
        BY <1>0 DEF CausesKnown
      <3> QED BY <2>0, <3>1, <3>2
    <2>2. ASSUME NEW row \in r, row.relation # NoId PROVE ops'[row.relation] = "committed"
      <3>1. row.relation \in Proposals
        BY <2>2 DEF Row
      <3>2. row \in refs \/ row \in rows
        OBVIOUS
      <3>3. ops[row.relation] = "committed" \/ row.relation = p
        BY <1>0, <2>2, <3>2 DEF CausesKnown
      <3> QED BY <2>0, <3>1, <3>3
    <2>3. ASSUME NEW row \in r, NEW f \in d, row.relation = f.cause PROVE row.source = f.source
      <3>1. f.cause \in Proposals /\ f.cause # NoId
        BY ConstantsAssumption DEF Document
      <3>2. CASE row \in refs /\ f \in deferred
        BY <1>0, <2>3, <3>2 DEF CausesKnown
      <3>3. CASE row \in refs /\ f.cause = p
        BY <1>0, <2>3, <3>1, <3>3 DEF CausesKnown
      <3>4. CASE row \in rows /\ f \in deferred
        <4>1. f.cause = p
          <5>1. row.relation \in {NoId, p}
            BY <3>4
          <5> QED BY <2>3, <3>1, <5>1
        <4> QED BY <1>0, <3>4, <4>1 DEF CausesKnown
      <3>5. CASE row \in rows /\ f.source = id
        BY <3>5
      <3> QED BY <3>2, <3>3, <3>4, <3>5
    <2>4. refs' \subseteq r
      BY <1>2
    <2> QED BY <1>8, <2>1, <2>2, <2>3, <2>4 DEF CausesKnown
  <1>12. IdsKept
    <2> SUFFICES ASSUME NEW q \in Proposals
                 PROVE  /\ temps[q].state \in {"rejected", "abandoned"} =>
                              temps'[q].state \in {"rejected", "abandoned"}
                        /\ temps[q].state = "resolved" => temps'[q] = temps[q]
      BY DEF IdsKept
    <2>1. CASE q = p
      BY <1>6, <2>1
    <2>2. CASE q # p
      BY <1>4, <1>5, <2>2
    <2> QED BY <2>1, <2>2
  <1> QED BY <1>7, <1>9, <1>10, <1>11, <1>12 DEF TablesInv, NothingStrands

(* A temporary id that is not resolved is given up, with its rows.         *)
LEMMA DropTables ==
  ASSUME StoreInv, TablesInv, NEW p \in Proposals, NEW state \in {"rejected", "abandoned"},
         temps[p].state # "resolved", DropTarget(p, state), UNCHANGED mem,
         \A q \in Proposals : ops'[q] = "committed" <=> ops[q] = "committed"
  PROVE  TablesInv' /\ IdsKept
  <1>0. /\ temps \in [Proposals -> Temp] /\ refs \subseteq Row /\ deferred \subseteq Document
        /\ WaitingRowsCanEnd /\ DeferredCanEnd /\ CommittedIsResolved /\ CausesKnown
    BY DEF StoreInv, TypeOK, TablesInv, NothingStrands
  <1>1. /\ temps'[p].state = state /\ \A q \in Proposals \ {p} : temps'[q] = temps[q]
    BY <1>0 DEF DropTarget, Temp
  <1>2. /\ refs' = {row \in refs : row.temp # p}
        /\ deferred' = {e \in deferred : \A row \in Awaiting(p, refs) : row.relation # e.cause}
    BY DEF DropTarget, Awaiting
  <1>3. WaitingRowsCanEnd'
    BY <1>0, <1>1, <1>2 DEF WaitingRowsCanEnd, Row
  <1>4. DeferredCanEnd'
    BY <1>0, <1>2 DEF DeferredCanEnd, Awaiting
  <1>5. CommittedIsResolved'
    BY <1>0, <1>1 DEF CommittedIsResolved, Exists
  <1>6. CausesKnown'
    BY <1>0, <1>2 DEF CausesKnown, Row, Document
  <1>7. IdsKept
    BY <1>1 DEF IdsKept
  <1> QED BY <1>3, <1>4, <1>5, <1>6, <1>7 DEF TablesInv, NothingStrands

LEMMA RejectTables ==
  ASSUME StoreInv, TablesInv, NEW p \in Proposals, ops[p] = "open", NEW kind,
         NEW disposition \in {"rejected", "blocked"}, NEW update,
         Reject(p, kind, disposition, update)
  PROVE  TablesInv' /\ IdsKept
  <1>1. \A q \in Proposals : ops'[q] = "committed" <=> ops[q] = "committed"
    BY DEF Reject, StoreInv, TypeOK
  <1>2. temps[p].state # "resolved" /\ UNCHANGED mem
    BY DEF Reject, TablesInv, NothingStrands, CommittedIsResolved
  <1>3. CASE Registers(p, kind)
    <2>1. DropTarget(p, "rejected")
      BY <1>3 DEF Reject
    <2> QED BY <1>1, <1>2, <2>1, DropTables
  <1>4. CASE ~Registers(p, kind)
    <2>1. UNCHANGED <<temps, refs, deferred>>
      BY <1>4 DEF Reject
    <2>2. IdsKept
      BY <2>1 DEF IdsKept
    <2>3. NothingStrands'
      BY <1>1, <1>2, <2>1
      DEF TablesInv, NothingStrands, WaitingRowsCanEnd, DeferredCanEnd, CommittedIsResolved, Exists
    <2>4. CausesKnown'
      BY <1>1, <2>1 DEF TablesInv, CausesKnown, StoreInv, TypeOK, Row, Document
    <2> QED BY <2>2, <2>3, <2>4 DEF TablesInv
  <1> QED BY <1>3, <1>4

(***************************************************************************)
(* What is derived from the Facts.                                         *)
(***************************************************************************)
ResolvedByFacts == \A n \in 1..Len(resolutions) : resolutions[n][1] \in Facts

StatusInv == StatusesStand /\ ResolvedByFacts

(* The obligations of m that rest on a revoked Fact are marked.            *)
MarkedIn(m) ==
    \A o \in Ids : m[o].kind = "obligation" /\ m[o].active =>
        \A f \in m[o].preds : m[f].kind = "fact" /\ ~m[f].active => m[o].unsupported

LEMMA MarksOfMemory ==
  ASSUME mem \in [Ids -> Record]
  PROVE  UnsupportedMarked <=> MarkedIn(mem)
  <1>1. \A o \in Ids : mem[o].preds \subseteq Ids
    BY DEF Record
  <1> QED BY <1>1 DEF UnsupportedMarked, MarkedIn, Revoked, Facts

(* The Facts stay as they are.                                             *)
FactsKept ==
    \A i \in Ids : mem[i].kind = "fact" =>
        mem'[i].kind = "fact" /\ mem'[i].active = mem[i].active

(* The Fact the root rests on, and the Facts that ever resolved it.        *)
LEMMA RootFacts ==
  ASSUME StoreInv, StatusInv
  PROVE  /\ root.solution # NoId => /\ root.solution \in Facts /\ root.outcome \in Outcomes
                                   /\ mem[root.solution].active /\ root.status # "open"
         /\ \A n \in 1..Len(resolutions) : /\ resolutions[n] \in Ids \X Outcomes
                                          /\ resolutions[n][1] \in Facts
         /\ Len(resolutions) \in Nat
  <1>1. resolutions \in Seq(Ids \X Outcomes)
    BY DEF StoreInv, TypeOK
  <1>2. /\ Len(resolutions) \in Nat
        /\ \A n \in 1..Len(resolutions) : /\ resolutions[n] \in Ids \X Outcomes
                                         /\ resolutions[n][1] \in Facts
    BY <1>1 DEF StatusInv, ResolvedByFacts
  <1>3. ASSUME root.solution # NoId
        PROVE  /\ root.solution \in Facts /\ root.outcome \in Outcomes
               /\ mem[root.solution].active /\ root.status # "open"
    <2>1. PICK n \in 1..Len(resolutions) : resolutions[n] = <<root.solution, root.outcome>>
      BY <1>3 DEF StatusInv, StatusesStand, RootStands
    <2>2. mem[root.solution].active
      BY <1>3 DEF StatusInv, StatusesStand, RootStands
    <2>3. root.solution \in Facts /\ root.outcome \in Outcomes
      BY <1>2, <2>1
    <2>4. n \in Standing(mem, Outcomes)
      BY <2>1, <2>2, <2>3 DEF Standing
    <2> QED BY <2>2, <2>3, <2>4 DEF StatusInv, StatusesStand, RootStands
  <1> QED BY <1>2, <1>3

LEMMA RootKept ==
  ASSUME StoreInv, StatusInv, FactsKept, UNCHANGED <<root, resolutions>>
  PROVE  RootStands' /\ ResolvedByFacts'
  <1>1. ResolvedByFacts'
    BY DEF StatusInv, ResolvedByFacts, Facts, FactsKept
  <1>2. Standing(mem, Outcomes)' = Standing(mem, Outcomes)
    BY RootFacts DEF Standing, FactsKept, Facts
  <1>3. root.solution # NoId => mem'[root.solution].active
    BY RootFacts DEF FactsKept, Facts
  <1> QED BY <1>1, <1>2, <1>3 DEF StatusInv, StatusesStand, RootStands

LEMMA RecordedRoot ==
  ASSUME StoreInv, StatusInv, FactsKept, NEW id \in Ids, NEW outcome \in Outcomes,
         RecordRoot(id, outcome), mem'[id].kind = "fact", mem'[id].active
  PROVE  RootStands' /\ ResolvedByFacts'
  <1>1. /\ Len(resolutions') = Len(resolutions) + 1
        /\ resolutions'[Len(resolutions) + 1] = <<id, outcome>>
        /\ \A n \in 1..Len(resolutions) : resolutions'[n] = resolutions[n]
    <2>1. resolutions \in Seq(Ids \X Outcomes)
      BY DEF StoreInv, TypeOK
    <2>2. resolutions' = Append(resolutions, <<id, outcome>>)
      BY DEF RecordRoot
    <2> QED BY <2>1, <2>2
  <1>2. Len(resolutions) \in Nat
    BY RootFacts
  <1>3. ResolvedByFacts'
    <2> SUFFICES ASSUME NEW n \in 1..Len(resolutions') PROVE mem'[resolutions'[n][1]].kind = "fact"
                                                           /\ resolutions'[n][1] \in Ids
      BY DEF ResolvedByFacts, Facts
    <2>1. CASE n = Len(resolutions) + 1
      BY <1>1, <2>1
    <2>2. CASE n \in 1..Len(resolutions)
      BY <1>1, <2>2, RootFacts DEF FactsKept, Facts
    <2> QED BY <1>1, <1>2, <2>1, <2>2
  <1>4. CASE root.solution = NoId
    <2>1. root' = [solution |-> id, outcome |-> outcome, status |-> "resolved"]
      BY <1>4 DEF RecordRoot
    <2>2. Len(resolutions) + 1 \in 1..Len(resolutions')
      BY <1>1, <1>2
    <2>3. RootStands'
      BY <1>1, <2>1, <2>2, ConstantsAssumption DEF RootStands
    <2> QED BY <1>3, <2>3
  <1>5. CASE root.solution # NoId
    <2>1. /\ root'.solution = root.solution /\ root'.outcome = root.outcome
          /\ root'.status # "open"
      <3>1. root' = root \/ root' = [root EXCEPT !.status = "needs_attention"]
        BY <1>5, Zenon DEF RecordRoot
      <3>2. root \in RootRecord
        BY DEF StoreInv, TypeOK
      <3> QED BY <1>5, <3>1, <3>2, RootFacts DEF RootRecord
    <2>2. mem'[root.solution].active
      BY <1>5, RootFacts DEF FactsKept, Facts
    <2>3. PICK n \in 1..Len(resolutions) : resolutions[n] = <<root.solution, root.outcome>>
      BY <1>5 DEF StatusInv, StatusesStand, RootStands
    <2>4. n \in 1..Len(resolutions') /\ resolutions'[n] = <<root'.solution, root'.outcome>>
      BY <1>1, <1>2, <2>1, <2>3
    <2>5. RootStands'
      BY <1>5, <2>1, <2>2, <2>4 DEF RootStands
    <2> QED BY <1>3, <2>5
  <1> QED BY <1>4, <1>5

LEMMA RefreshedRoot ==
  ASSUME StoreInv, StatusInv, RefreshRoot(mem'), UNCHANGED resolutions,
         \A i \in Ids : mem'[i].kind = mem[i].kind /\ (mem'[i].active => mem[i].active)
  PROVE  RootStands' /\ ResolvedByFacts'
  <1>1. ResolvedByFacts'
    BY DEF StatusInv, ResolvedByFacts, Facts
  <1>2. root \in RootRecord
    BY DEF StoreInv, TypeOK
  <1>3. Standing(mem, Outcomes)' \subseteq Standing(mem, Outcomes)
    BY RootFacts DEF Standing
  <1>4. Standing(mem', Outcomes) = Standing(mem, Outcomes)'
    BY DEF Standing
  <1>5. Review(mem') \in {"resolved", "needs_attention"}
    BY DEF Review
  <1>6. CASE root.solution = NoId /\ UNCHANGED root
    BY <1>1, <1>3, <1>6 DEF RootStands, StatusInv, StatusesStand
  <1>7. CASE /\ root.solution # NoId /\ mem'[root.solution].active
             /\ root' = [root EXCEPT !.status = Review(mem')]
    <2>1. /\ root'.solution = root.solution /\ root'.outcome = root.outcome
          /\ root'.status = Review(mem')
      BY <1>2, <1>7 DEF RootRecord
    <2>2. RootStands'
      BY <1>5, <1>7, <2>1 DEF RootStands, StatusInv, StatusesStand
    <2> QED BY <1>1, <2>2
  <1>8. ASSUME root.solution # NoId, NEW n \in Standing(mem', {root.outcome}),
               root' = [root EXCEPT !.solution = resolutions[n][1], !.status = Review(mem')]
        PROVE  RootStands' /\ ResolvedByFacts'
    <2>1. /\ n \in 1..Len(resolutions) /\ mem'[resolutions[n][1]].active
          /\ resolutions[n][2] = root.outcome
      BY <1>8 DEF Standing
    <2>2. /\ root'.solution = resolutions[n][1] /\ root'.outcome = root.outcome
          /\ root'.status = Review(mem')
      BY <1>2, <1>8 DEF RootRecord
    <2>3. resolutions[n] = <<root'.solution, root'.outcome>> /\ root'.solution \in Ids
      BY <2>1, <2>2, RootFacts
    <2>4. RootStands'
      BY <1>5, <2>1, <2>2, <2>3, ConstantsAssumption DEF RootStands
    <2> QED BY <1>1, <2>4
  <1>9. CASE root' = [solution |-> NoId, outcome |-> NoId,
                      status |-> IF Standing(mem', Outcomes) # {} THEN "needs_attention"
                                                                  ELSE "open"]
    <2>1. /\ root'.solution = NoId
          /\ root'.status = IF Standing(mem', Outcomes) # {} THEN "needs_attention" ELSE "open"
      BY <1>9
    <2>2. RootStands'
      BY <1>4, <2>1 DEF RootStands
    <2> QED BY <1>1, <2>2
  <1> QED BY <1>6, <1>7, <1>8, <1>9, Zenon DEF RefreshRoot

(* What resolving does to one record.                                      *)
LEMMA ResolvedFields ==
  ASSUME NEW rec \in Record, NEW premises \in SUBSET Ids, NEW entered \in SUBSET SUBSET Ids
  PROVE  LET new == [rec EXCEPT !.preds = @ \cup premises, !.relations = @ \cup entered]
         IN  /\ new.kind = rec.kind /\ new.active = rec.active
             /\ new.unsupported = rec.unsupported
             /\ new.preds = rec.preds \cup premises
             /\ new.relations = rec.relations \cup entered
  BY DEF Record

LEMMA ResolveFields ==
  ASSUME NEW p \in Proposals, NEW id \in Ids,
         NEW m \in [Ids -> Record], NEW l \in SUBSET (Ids \X Ids),
         NEW r \in SUBSET Row, NEW d \in SUBSET Document,
         Resolve(p, id, m, l, r, d)
  PROVE  \A i \in Ids :
           /\ mem'[i].kind = m[i].kind /\ mem'[i].active = m[i].active
           /\ mem'[i].unsupported = m[i].unsupported
           /\ \A f \in mem'[i].preds : f \in m[i].preds \/ f = id
  <1> TAKE i \in Ids
  <1> DEFINE entered == {e.stated \cup e.found : e \in {f \in Ready(p, id, r, d) : f.source = i}}
             premises == Premises(i, p, id, m, r)
  <1>1. mem'[i] = [m[i] EXCEPT !.preds = @ \cup premises, !.relations = @ \cup entered]
    BY Zenon DEF Resolve
  <1>2. m[i] \in Record /\ premises \in SUBSET Ids /\ \A f \in premises : f = id
    BY DEF Premises
  <1>3. entered \in SUBSET SUBSET Ids
    <2>1. \A e \in Document : e.stated \cup e.found \in SUBSET Ids
      BY DEF Document
    <2>2. Ready(p, id, r, d) \subseteq Document
      BY FoundTypes
    <2> QED BY <2>1, <2>2, Zenon
  <1> HIDE DEF entered, premises
  <1>4. /\ mem'[i].kind = m[i].kind /\ mem'[i].active = m[i].active
        /\ mem'[i].unsupported = m[i].unsupported
        /\ mem'[i].preds = m[i].preds \cup premises
    BY <1>1, <1>2, <1>3, ResolvedFields
  <1> QED BY <1>2, <1>4

(* A relation that is new in a record was ready.                           *)
LEMMA ResolveRelations ==
  ASSUME NEW p \in Proposals, NEW id \in Ids,
         NEW m \in [Ids -> Record], NEW l \in SUBSET (Ids \X Ids),
         NEW r \in SUBSET Row, NEW d \in SUBSET Document,
         Resolve(p, id, m, l, r, d)
  PROVE  \A i \in Ids : \A s \in mem'[i].relations : s \in m[i].relations \/
             \E e \in Ready(p, id, r, d) : s = e.stated \cup e.found
  <1> TAKE i \in Ids
  <1> DEFINE entered == {e.stated \cup e.found : e \in {f \in Ready(p, id, r, d) : f.source = i}}
             premises == Premises(i, p, id, m, r)
  <1>1. mem'[i] = [m[i] EXCEPT !.preds = @ \cup premises, !.relations = @ \cup entered]
    BY Zenon DEF Resolve
  <1>2. \A s \in entered : \E e \in Ready(p, id, r, d) : s = e.stated \cup e.found
    BY Zenon
  <1>3. m[i] \in Record
    OBVIOUS
  <1> HIDE DEF entered, premises
  <1>4. mem'[i].relations = m[i].relations \cup entered
    BY <1>1, <1>3 DEF Record
  <1> QED BY <1>2, <1>4

LEMMA ResolveMarks ==
  ASSUME NEW p \in Proposals, NEW id \in Ids,
         NEW m \in [Ids -> Record], NEW l \in SUBSET (Ids \X Ids),
         NEW r \in SUBSET Row, NEW d \in SUBSET Document,
         Resolve(p, id, m, l, r, d), MarkedIn(m), m[id].active
  PROVE  UnsupportedMarked'
  <1> SUFFICES ASSUME NEW o \in Ids, mem'[o].kind = "obligation", mem'[o].active,
                      NEW f \in mem'[o].preds, f \in Ids, mem'[f].kind = "fact", ~mem'[f].active
               PROVE  mem'[o].unsupported
    BY DEF UnsupportedMarked, Revoked, Facts
  <1>1. \A i \in Ids : /\ mem'[i].kind = m[i].kind /\ mem'[i].active = m[i].active
                       /\ mem'[i].unsupported = m[i].unsupported
                       /\ \A g \in mem'[i].preds : g \in m[i].preds \/ g = id
    BY ResolveFields, Zenon
  <1>2. f # id /\ m[f].kind = "fact" /\ ~m[f].active
    BY <1>1
  <1> QED BY <1>1, <1>2 DEF MarkedIn

(* What the record an add inserts names.                                   *)
LEMMA InsertedFields ==
  ASSUME StoreInv, NEW id \in Ids, NEW kind \in Kinds, NEW preds \in SUBSET Ids,
         NEW soft \in SoftPayload, NEW relation \in SUBSET (Ids \cup Proposals)
  PROVE  LET m == Inserted(id, kind, preds, soft, relation)
         IN  /\ \A f \in m[id].preds : f \in preds \/ (f \in Named(soft) /\ f \in Facts)
             /\ m[id].relations = ReadyRelation(relation)
  <1> DEFINE premises == IF kind = "obligation" THEN Named(soft) \cap Facts ELSE {}
             ps == preds \cup premises
             rs == ReadyRelation(relation)
             rec == [New(kind, ps) EXCEPT !.relations = rs]
  <1>1. ps \in SUBSET Ids /\ rs \in SUBSET SUBSET Ids
    BY NamedTypes, ReadyTypes
  <1>2. \A f \in ps : f \in preds \/ (f \in Named(soft) /\ f \in Facts)
    OBVIOUS
  <1>3. Inserted(id, kind, preds, soft, relation) = [mem EXCEPT ![id] = rec]
    BY Zenon DEF Inserted
  <1>4. mem \in [Ids -> Record]
    BY DEF StoreInv, TypeOK
  <1> HIDE DEF ps, rs
  <1>5. rec.preds = ps /\ rec.relations = rs
    BY <1>1 DEF New, Absent
  <1> HIDE DEF rec
  <1>6. Inserted(id, kind, preds, soft, relation)[id] = rec
    BY <1>3, <1>4
  <1> QED BY <1>2, <1>5, <1>6, Zenon DEF rs

(* The premises of a new obligation are active Facts.                      *)
LEMMA InsertedMarked ==
  ASSUME StoreInv, StatusInv, NEW id \in Ids, ~Exists(id), NEW kind \in Kinds,
         NEW preds \in SUBSET Ids, kind # "fact" => preds = {},
         NEW soft \in SoftPayload, NEW relation \in SUBSET (Ids \cup Proposals)
  PROVE  MarkedIn(Inserted(id, kind, preds, soft, relation))
  <1> DEFINE m == Inserted(id, kind, preds, soft, relation)
  <1>1. /\ \A i \in Ids \ {id} : m[i] = mem[i]
        /\ m[id].kind = kind /\ m[id].active
    BY InsertedTypes
  <1>6. \A f \in m[id].preds : f \in preds \/ (f \in Named(soft) /\ f \in Facts)
    BY InsertedFields, Zenon
  <1> HIDE DEF m
  <1>2. mem \in [Ids -> Record] /\ MarkedIn(mem)
    BY MarksOfMemory DEF StoreInv, TypeOK, StatusInv, StatusesStand
  <1>3. \A i \in Named(soft) \cap Facts : i \in Ids \ {id} /\ mem[i].active
    BY DEF Named, Resolves, Usable, NeedsActive, Facts, Exists
  <1> SUFFICES ASSUME NEW o \in Ids, m[o].kind = "obligation", m[o].active,
                      NEW f \in m[o].preds, m[f].kind = "fact", ~m[f].active
               PROVE  m[o].unsupported
    BY DEF MarkedIn, m
  <1>4. CASE o = id
    <2>1. f \in Named(soft) \cap Facts
      BY <1>1, <1>4, <1>6
    <2> QED BY <1>1, <1>3, <2>1
  <1>5. CASE o # id
    <2>1. m[o] = mem[o] /\ f \in Ids /\ f # id
      BY <1>1, <1>2, <1>5 DEF Record
    <2> QED BY <1>1, <1>2, <2>1 DEF MarkedIn
  <1> QED BY <1>4, <1>5

(***************************************************************************)
(* The steps.                                                              *)
(***************************************************************************)
(* What enters the relations of a record relates active Facts.             *)
RelationsFresh ==
    \A o \in Ids : \A relation \in mem'[o].relations \ mem[o].relations :
        \A i \in relation : mem'[i].kind = "fact" => mem'[i].active

FullInv == StoreInv /\ TablesInv /\ StatusInv

StepKept == IdsKept /\ RelationsFresh

(* What is ready is not stale.                                             *)
LEMMA ResolveFresh ==
  ASSUME NEW p \in Proposals, NEW id \in Ids,
         NEW m \in [Ids -> Record], NEW l \in SUBSET (Ids \X Ids),
         NEW r \in SUBSET Row, NEW d \in SUBSET Document,
         Resolve(p, id, m, l, r, d), ~Stale(p, id, m, r, d),
         NEW i \in Ids, NEW s \in mem'[i].relations, s \notin m[i].relations,
         NEW j \in s, m[j].kind = "fact"
  PROVE  m[j].active
  <1>1. PICK e \in Ready(p, id, r, d) : s = e.stated \cup e.found
    BY ResolveRelations
  <1>2. j \in e.stated \/ j \in e.found
    BY <1>1
  <1> QED BY <1>2, Zenon DEF Stale, NeedsActive

LEMMA StatedActive ==
  ASSUME NEW relation, NEW s \in ReadyRelation(relation), NEW j \in s
  PROVE  Exists(j) /\ (mem[j].kind = "fact" => mem[j].active)
  <1>1. s = StatedOperands(relation)
    BY DEF ReadyRelation
  <1>2. PICK t \in relation : Resolves(t, OperandKinds) /\ j = Canonical(t)
    BY <1>1 DEF StatedOperands
  <1> QED BY <1>2 DEF Resolves, Usable, OperandKinds, NeedsActive, Exists

(* A commit, from tables m, r and d that hold what the payload adds.       *)
LEMMA CommitFull ==
  ASSUME FullInv, NEW p \in Proposals, ops[p] = "open",
         NEW id \in Ids, NEW kind \in Kinds, Registers(p, kind),
         NEW m \in [Ids -> Record], m[id].kind # "none", m[id].active,
         \A i \in Ids : Exists(i) => m[i].kind = mem[i].kind /\ m[i].active = mem[i].active,
         \A i \in Ids : \A s \in m[i].relations \ mem[i].relations :
            \A j \in s : Exists(j) /\ (mem[j].kind = "fact" => mem[j].active),
         MarkedIn(m),
         NEW l \in SUBSET (Ids \X Ids),
         NEW r \in SUBSET Row, NEW d \in SUBSET Document, NEW rows \in SUBSET Row,
         \A row \in rows : /\ temps[row.temp].state \in {"unknown", "pending"}
                           /\ row.source = id /\ row.relation \in {NoId, p},
         r \subseteq refs \cup rows,
         \A e \in d : e \in deferred \/ (e.cause = p /\ e.source = id),
         \A e \in d : \E row \in r : row.relation = e.cause,
         Resolve(p, id, m, l, r, d), ~Stale(p, id, m, r, d), Commit(p, id, kind, rows),
         \/ UNCHANGED <<root, resolutions>>
         \/ m[id].kind = "fact" /\ \E outcome \in Outcomes : RecordRoot(id, outcome)
  PROVE  TablesInv' /\ StatusInv' /\ StepKept
  <1>0. StoreInv /\ TablesInv /\ StatusInv
    BY DEF FullInv
  <1>1. TablesInv' /\ IdsKept
    <2>1. \A i \in Ids : Exists(i) => m[i].kind # "none"
      BY DEF Exists
    <2> QED BY <1>0, <2>1, CommitTables
  <1>2. \A i \in Ids : mem'[i].kind = m[i].kind /\ mem'[i].active = m[i].active
    BY ResolveTypes, ZenonT(40)
  <1>3. UnsupportedMarked'
    BY ResolveMarks
  <1>4. FactsKept
    BY <1>2 DEF FactsKept, Exists
  <1>5. RootStands' /\ ResolvedByFacts'
    <2>1. CASE UNCHANGED <<root, resolutions>>
      BY <1>0, <1>4, <2>1, RootKept
    <2>2. ASSUME m[id].kind = "fact", NEW outcome \in Outcomes, RecordRoot(id, outcome)
          PROVE  RootStands' /\ ResolvedByFacts'
      <3>1. mem'[id].kind = "fact" /\ mem'[id].active
        BY <1>2, <2>2
      <3> QED BY <1>0, <1>4, <2>2, <3>1, RecordedRoot
    <2> QED BY <2>1, <2>2
  <1>6. RelationsFresh
    <2> SUFFICES ASSUME NEW o \in Ids, NEW s \in mem'[o].relations, s \notin mem[o].relations,
                        NEW j \in s, mem'[j].kind = "fact"
                 PROVE  mem'[j].active
      BY DEF RelationsFresh
    <2>1. j \in Ids
      <3>1. mem' \in [Ids -> Record]
        BY ResolveTypes
      <3> QED BY <3>1 DEF Record
    <2>2. m[j].kind = "fact" /\ mem'[j].active = m[j].active
      BY <1>2, <2>1
    <2>3. CASE s \in m[o].relations
      <3>1. Exists(j) /\ (mem[j].kind = "fact" => mem[j].active)
        BY <2>3
      <3> QED BY <2>1, <2>2, <3>1
    <2>4. CASE s \notin m[o].relations
      <3>1. m[j].active
        BY <2>2, <2>4, ResolveFresh
      <3> QED BY <2>2, <3>1
    <2> QED BY <2>3, <2>4
  <1> QED BY <1>1, <1>3, <1>5, <1>6 DEF StatusInv, StatusesStand, StepKept

(* Whatever leaves the memory and the root alone keeps what is derived.    *)
LEMMA MemoryKept ==
  ASSUME FullInv, UNCHANGED <<mem, root, resolutions>>
  PROVE  StatusInv' /\ RelationsFresh
  <1>1. RelationsFresh
    BY DEF RelationsFresh
  <1>2. FactsKept
    BY DEF FactsKept
  <1>3. UnsupportedMarked'
    BY DEF FullInv, StatusInv, StatusesStand, UnsupportedMarked, Revoked, Facts
  <1> QED BY <1>1, <1>2, <1>3, RootKept DEF FullInv, StatusInv, StatusesStand

LEMMA RejectFull ==
  ASSUME FullInv, NEW p \in Proposals, ops[p] = "open", NEW kind,
         NEW disposition \in {"rejected", "blocked"}, NEW update,
         Reject(p, kind, disposition, update)
  PROVE  TablesInv' /\ StatusInv' /\ StepKept
  <1>1. UNCHANGED <<mem, root, resolutions>>
    BY DEF Reject
  <1>2. TablesInv' /\ IdsKept
    BY RejectTables DEF FullInv
  <1> QED BY <1>1, <1>2, MemoryKept DEF StepKept

LEMMA DropFull ==
  ASSUME FullInv, NEW p \in Proposals, RejectTarget(p) \/ AbandonTarget(p)
  PROVE  TablesInv' /\ StatusInv' /\ StepKept
  <1>1. PICK state \in {"rejected", "abandoned"} : DropTarget(p, state)
    BY DEF RejectTarget, AbandonTarget
  <1>2. UNCHANGED <<mem, links, ops, root, resolutions>> /\ temps[p].state # "resolved"
    BY DEF RejectTarget, AbandonTarget
  <1>3. TablesInv' /\ IdsKept
    BY <1>1, <1>2, DropTables DEF FullInv
  <1> QED BY <1>2, <1>3, MemoryKept DEF StepKept

LEMMA PublishFull ==
  ASSUME FullInv, NEW p \in Proposals, NEW id \in Ids, NEW kind \in Kinds,
         NEW preds \in SUBSET Ids, NEW soft \in SoftPayload,
         NEW relation \in SUBSET (Ids \cup Proposals),
         NEW outcome \in Outcomes \cup {NoId},
         Publish(p, id, kind, preds, soft, relation, outcome)
  PROVE  TablesInv' /\ StatusInv' /\ StepKept
  <1> DEFINE m == Inserted(id, kind, preds, soft, relation)
             l == InsertedLinks(id, kind, soft)
             rows == NewRows(id, p, soft, relation)
             r == refs \cup rows
             d == deferred \cup DeferredRelation(id, p, relation)
  <1>0. /\ StoreInv /\ TablesInv /\ StatusInv
        /\ refs \subseteq Row /\ deferred \subseteq Document /\ links \in SUBSET (Ids \X Ids)
        /\ DeferredCanEnd
    BY DEF FullInv, StoreInv, TypeOK, TablesInv, NothingStrands
  <1>1. /\ ops[p] = "open" /\ ~Exists(id) /\ Registers(p, kind)
        /\ kind # "fact" => preds = {} /\ outcome = NoId
    BY Zenon DEF Publish
  <1>2. CASE Stale(p, id, m, r, d)
    <2>1. Reject(p, kind, "blocked", FALSE)
      BY <1>2, Zenon DEF Publish
    <2> QED BY <1>1, <2>1, RejectFull
  <1>3. CASE ~Stale(p, id, m, r, d)
    <2>1. /\ Resolve(p, id, m, l, r, d) /\ Commit(p, id, kind, rows)
          /\ IF outcome = NoId THEN UNCHANGED <<root, resolutions>>
                               ELSE RecordRoot(id, outcome)
      BY <1>3, Zenon DEF Publish
    <2>2. /\ m \in [Ids -> Record] /\ \A i \in Ids \ {id} : m[i] = mem[i]
          /\ m[id].kind = kind /\ m[id].active
      BY <1>0, InsertedTypes
    <2>3. MarkedIn(m)
      BY <1>0, <1>1, InsertedMarked
    <2>4. m[id].relations = ReadyRelation(relation)
      BY <1>0, InsertedFields
    <2>5. /\ rows \in SUBSET Row
          /\ \A row \in rows : /\ temps[row.temp].state \in {"unknown", "pending"}
                                /\ row.source = id /\ row.relation \in {NoId, p}
      BY RowTypes, RowFacts
    <2>6. \A e \in DeferredRelation(id, p, relation) :
             /\ e.cause = p /\ e.source = id /\ \E row \in rows : row.relation = p
      BY RowFacts
    <2>7. r \in SUBSET Row /\ r \subseteq refs \cup rows
      BY <1>0, <2>5
    <2>8. d \in SUBSET Document
      BY <1>0, DeferredTypes
    <2>9. l \in SUBSET (Ids \X Ids)
      <3>1. Named(soft) \in SUBSET Ids
        BY <1>0, NamedTypes
      <3> QED BY <1>0, <3>1, LinkTypes DEF InsertedLinks
    <2>10. \A e \in d : e \in deferred \/ (e.cause = p /\ e.source = id)
      BY <2>6
    <2>11. \A e \in d : \E row \in r : row.relation = e.cause
      BY <1>0, <2>6 DEF DeferredCanEnd
    <2>12. \/ UNCHANGED <<root, resolutions>>
           \/ m[id].kind = "fact" /\ \E o \in Outcomes : RecordRoot(id, o)
      BY <1>1, <2>1, <2>2
    <2>13. ASSUME NEW i \in Ids, NEW s \in m[i].relations \ mem[i].relations, NEW j \in s
           PROVE  Exists(j) /\ (mem[j].kind = "fact" => mem[j].active)
      <3>1. i = id /\ s \in ReadyRelation(relation)
        BY <2>2, <2>4, <2>13
      <3> QED BY <3>1, StatedActive
    <2>14. m[id].kind # "none"
      BY <2>2 DEF Kinds
    <2>15. \A i \in Ids : Exists(i) => m[i].kind = mem[i].kind /\ m[i].active = mem[i].active
      BY <1>1, <2>2
    <2>16. Resolve(p, id, m, l, r, d) /\ Commit(p, id, kind, rows)
      BY <2>1
    <2> HIDE DEF m, l, r, d, rows
    <2>17. ops[p] = "open" /\ Registers(p, kind)
      BY <1>1
    <2>18. m \in [Ids -> Record] /\ m[id].active
      BY <2>2
    <2>19. \A i \in Ids : \A s \in m[i].relations \ mem[i].relations :
              \A j \in s : Exists(j) /\ (mem[j].kind = "fact" => mem[j].active)
      BY <2>13
    <2>20. CASE UNCHANGED <<root, resolutions>>
      BY <1>3, <2>3, <2>5, <2>7, <2>8, <2>9, <2>10, <2>11, <2>14, <2>15, <2>16,
         <2>17, <2>18, <2>19, <2>20, CommitFull
    <2>21. CASE m[id].kind = "fact" /\ \E o \in Outcomes : RecordRoot(id, o)
      BY <1>3, <2>3, <2>5, <2>7, <2>8, <2>9, <2>10, <2>11, <2>14, <2>15, <2>16,
         <2>17, <2>18, <2>19, <2>21, CommitFull
    <2> QED BY <2>12, <2>20, <2>21
  <1> QED BY <1>2, <1>3

LEMMA UpdateFull ==
  ASSUME FullInv, NEW p \in Proposals, NEW target \in Ids, NEW soft \in SoftPayload,
         NEW relation \in SUBSET (Ids \cup Proposals), NEW removed, NEW replace \in BOOLEAN,
         Update(p, target, soft, relation, removed, replace)
  PROVE  TablesInv' /\ StatusInv' /\ StepKept
  <1> DEFINE kind == mem[target].kind
             new == NewRows(target, p, soft, relation)
             kept == IF replace THEN {} ELSE mem[target].relations
             m == [mem EXCEPT ![target].relations =
                     (IF replace THEN {} ELSE @) \cup ReadyRelation(relation)]
             ended == {Link(kind, target, i) : i \in removed \cap Ids}
             l == (links \ ended) \cup {Link(kind, target, i) : i \in Named(soft)}
             r == (refs \ Withdrawn(target, removed, replace)) \cup new
             d == {e \in deferred : ~(replace /\ e.source = target)}
                     \cup DeferredRelation(target, p, relation)
  <1>0. /\ StoreInv /\ TablesInv /\ StatusInv
        /\ mem \in [Ids -> Record]
        /\ refs \subseteq Row /\ deferred \subseteq Document /\ links \in SUBSET (Ids \X Ids)
        /\ DeferredCanEnd /\ CausesKnown
    BY DEF FullInv, StoreInv, TypeOK, TablesInv, NothingStrands
  <1>1. /\ ops[p] = "open" /\ Registers(p, kind)
        /\ kind \in {"route", "obligation"} /\ mem[target].active
    BY Zenon DEF Update
  <1>2. CASE Stale(p, target, m, r, d)
    <2>1. Reject(p, kind, "blocked", TRUE)
      BY <1>2, Zenon DEF Update
    <2> QED BY <1>1, <2>1, RejectFull
  <1>3. CASE ~Stale(p, target, m, r, d)
    <2>1. /\ Resolve(p, target, m, l, r, d) /\ Commit(p, target, kind, new)
          /\ UNCHANGED <<root, resolutions>>
      BY <1>3, Zenon DEF Update
    <2>2. m = [mem EXCEPT ![target] = [mem[target] EXCEPT
                  !.relations = kept \cup ReadyRelation(relation)]]
      BY <1>0
    <2>3. kept \cup ReadyRelation(relation) \in SUBSET SUBSET Ids
      <3>1. mem[target] \in Record
        BY <1>0
      <3> QED BY <1>0, <3>1, ReadyTypes DEF Record
    <2>4. kept \subseteq mem[target].relations
      OBVIOUS
    <2>5. /\ m \in [Ids -> Record]
          /\ m[target].relations = kept \cup ReadyRelation(relation)
          /\ \A i \in Ids \ {target} : m[i] = mem[i]
          /\ \A i \in Ids : /\ m[i].kind = mem[i].kind /\ m[i].active = mem[i].active
                            /\ m[i].preds = mem[i].preds
                            /\ m[i].unsupported = mem[i].unsupported
      <3> DEFINE rs == kept \cup ReadyRelation(relation)
                 rec == [mem[target] EXCEPT !.relations = rs]
      <3>1. mem[target] \in Record /\ rs \in SUBSET SUBSET Ids
        BY <1>0, <2>3
      <3> HIDE DEF m, kept, rs
      <3>2. /\ rec \in Record /\ rec.kind = mem[target].kind
            /\ rec.active = mem[target].active /\ rec.preds = mem[target].preds
            /\ rec.unsupported = mem[target].unsupported /\ rec.relations = rs
        BY <3>1 DEF Record
      <3>3. m = [mem EXCEPT ![target] = rec]
        BY <2>2 DEF rs
      <3> HIDE DEF rec
      <3>4. m[target].relations = rs
        BY <1>0, <3>2, <3>3
      <3>5. /\ m \in [Ids -> Record] /\ \A i \in Ids \ {target} : m[i] = mem[i]
            /\ \A i \in Ids : /\ m[i].kind = mem[i].kind /\ m[i].active = mem[i].active
                              /\ m[i].preds = mem[i].preds
                              /\ m[i].unsupported = mem[i].unsupported
        BY <1>0, <3>2, <3>3
      <3> QED BY <3>4, <3>5 DEF rs
    <2>6. MarkedIn(m)
      <3>1. MarkedIn(mem)
        BY <1>0, MarksOfMemory DEF StatusInv, StatusesStand
      <3>2. \A i \in Ids : mem[i].preds \subseteq Ids
        BY <1>0 DEF Record
      <3> HIDE DEF m
      <3> QED BY <2>5, <3>1, <3>2 DEF MarkedIn
    <2>7. /\ new \in SUBSET Row
          /\ \A row \in new : /\ temps[row.temp].state \in {"unknown", "pending"}
                               /\ row.source = target /\ row.relation \in {NoId, p}
      BY RowTypes, RowFacts
    <2>8. \A e \in DeferredRelation(target, p, relation) :
             /\ e.cause = p /\ e.source = target /\ \E row \in new : row.relation = p
      BY RowFacts
    <2>9. r \in SUBSET Row /\ r \subseteq refs \cup new
      BY <1>0, <2>7
    <2>10. d \in SUBSET Document
      BY <1>0, DeferredTypes
    <2>11. l \in SUBSET (Ids \X Ids)
      <3>1. links \in SUBSET (Ids \X Ids)
        BY <1>0
      <3>2. Named(soft) \in SUBSET Ids
        BY <1>0, NamedTypes
      <3> QED BY <3>1, <3>2, LinkTypes
    <2>12. \A e \in d : e \in deferred \/ (e.cause = p /\ e.source = target)
      BY <2>8
    <2>13. ASSUME NEW e \in d PROVE \E row \in r : row.relation = e.cause
      <3>1. CASE e \in DeferredRelation(target, p, relation)
        BY <2>8, <3>1
      <3>2. CASE e \in deferred /\ ~(replace /\ e.source = target)
        <4>1. PICK row \in refs : row.relation = e.cause
          BY <1>0, <3>2 DEF DeferredCanEnd
        <4>2. row.source = e.source /\ row.relation # NoId
          BY <1>0, <3>2, <4>1, ConstantsAssumption DEF CausesKnown, Document
        <4>3. row \notin Withdrawn(target, removed, replace)
          BY <3>2, <4>2 DEF Withdrawn
        <4> QED BY <4>1, <4>3
      <3> QED BY <2>13, <3>1, <3>2
    <2>14. ASSUME NEW i \in Ids, NEW s \in m[i].relations \ mem[i].relations, NEW j \in s
           PROVE  Exists(j) /\ (mem[j].kind = "fact" => mem[j].active)
      <3>1. s \in ReadyRelation(relation)
        <4> HIDE DEF m, kept
        <4>1. i = target
          BY <2>5, <2>14
        <4> QED BY <2>4, <2>5, <2>14, <4>1
      <3> QED BY <3>1, StatedActive
    <2>15. m[target].kind # "none" /\ m[target].active /\ kind \in Kinds
      BY <1>1, <2>5 DEF Kinds
    <2>16. \A i \in Ids : Exists(i) => m[i].kind = mem[i].kind /\ m[i].active = mem[i].active
      BY <2>5
    <2> HIDE DEF m, l, r, d, new, kind
    <2> QED BY <1>1, <1>3, <2>1, <2>5, <2>6, <2>7, <2>9, <2>10, <2>11, <2>12, <2>13, <2>14,
               <2>15, <2>16, CommitFull
  <1> QED BY <1>2, <1>3

LEMMA DuplicateFull ==
  ASSUME FullInv, NEW p \in Proposals, NEW target \in Ids, Duplicate(p, target)
  PROVE  TablesInv' /\ StatusInv' /\ StepKept
  <1> DEFINE kind == mem[target].kind
  <1>1. /\ ops[p] = "open" /\ Registers(p, kind) /\ ~Stale(p, target, mem, refs, deferred)
        /\ Resolve(p, target, mem, links, refs, deferred) /\ Commit(p, target, kind, {})
        /\ UNCHANGED <<root, resolutions>>
        /\ kind \in Kinds /\ mem[target].kind # "none" /\ mem[target].active
    BY DEF Duplicate, Kinds
  <1>2. /\ mem \in [Ids -> Record] /\ links \in SUBSET (Ids \X Ids)
        /\ refs \in SUBSET Row /\ deferred \in SUBSET Document
    BY DEF FullInv, StoreInv, TypeOK
  <1>3. MarkedIn(mem)
    BY <1>2, MarksOfMemory DEF FullInv, StatusInv, StatusesStand
  <1>4. \A e \in deferred : \E row \in refs : row.relation = e.cause
    BY DEF FullInv, TablesInv, NothingStrands, DeferredCanEnd
  <1>5. /\ {} \in SUBSET Row /\ refs \subseteq refs \cup {}
        /\ \A row \in {} : /\ temps[row.temp].state \in {"unknown", "pending"}
                            /\ row.source = target /\ row.relation \in {NoId, p}
    OBVIOUS
  <1>6. \A i \in Ids : \A s \in mem[i].relations \ mem[i].relations :
            \A j \in s : Exists(j) /\ (mem[j].kind = "fact" => mem[j].active)
    OBVIOUS
  <1> HIDE DEF kind
  <1> QED BY <1>1, <1>2, <1>3, <1>4, <1>5, <1>6, CommitFull

LEMMA RemoveFull ==
  ASSUME FullInv, NEW i \in Ids, Remove(i)
  PROVE  TablesInv' /\ StatusInv' /\ StepKept
  <1>1. /\ mem \in [Ids -> Record] /\ mem[i] \in Record
        /\ mem' = [mem EXCEPT ![i].active = FALSE] /\ mem[i].kind # "fact"
        /\ UNCHANGED <<temps, refs, deferred, ops, root, resolutions>>
    BY DEF Remove, FullInv, StoreInv, TypeOK
  <1>2. \A o \in Ids : /\ mem'[o].kind = mem[o].kind /\ mem'[o].preds = mem[o].preds
                       /\ mem'[o].relations = mem[o].relations
                       /\ mem'[o].unsupported = mem[o].unsupported
                       /\ mem'[o].active => mem[o].active
                       /\ mem[o].kind = "fact" => mem'[o].active = mem[o].active
    BY <1>1 DEF Record
  <1>3. TablesInv'
    <2>1. \A p \in Proposals : temps[p].state = "resolved" => temps[p].target \in Ids
      BY DEF FullInv, StoreInv, ResolvedTargets
    <2>2. NothingStrands'
      BY <1>1, <1>2, <2>1 DEF FullInv, TablesInv, NothingStrands, WaitingRowsCanEnd,
                              DeferredCanEnd, CommittedIsResolved, Exists
    <2> QED BY <1>1, <2>2 DEF FullInv, TablesInv, CausesKnown
  <1>4. StepKept
    BY <1>1, <1>2 DEF StepKept, IdsKept, RelationsFresh
  <1>5. UnsupportedMarked'
    BY <1>2 DEF FullInv, StatusInv, StatusesStand, UnsupportedMarked, Revoked, Facts
  <1>6. FactsKept
    BY <1>2 DEF FactsKept
  <1> QED BY <1>1, <1>3, <1>4, <1>5, <1>6, RootKept DEF FullInv, StatusInv, StatusesStand

(* What a revocation does to one record.                                   *)
LEMMA RevokeFields ==
  ASSUME StoreInv, NEW f \in Ids, Revoke(f)
  PROVE  \A i \in Ids :
           /\ mem'[i].kind = mem[i].kind /\ mem'[i].preds = mem[i].preds
           /\ mem'[i].relations = mem[i].relations
           /\ mem'[i].active <=>
                 mem[i].active /\ i \notin {g \in Descendants(f) : mem[g].active}
           /\ mem'[i].unsupported <=> mem[i].unsupported \/ i \in Unsupported(f)
  <1> TAKE i \in Ids
  <1> DEFINE active == mem[i].active /\ i \notin {g \in Descendants(f) : mem[g].active}
             unsupported == mem[i].unsupported \/ i \in Unsupported(f)
  <1>1. mem[i] \in Record
    BY DEF StoreInv, TypeOK
  <1>2. active \in BOOLEAN /\ unsupported \in BOOLEAN
    OBVIOUS
  <1>3. mem'[i] = [mem[i] EXCEPT !.active = active, !.unsupported = unsupported]
    BY Zenon DEF Revoke
  <1>4. /\ active <=> mem[i].active /\ i \notin {g \in Descendants(f) : mem[g].active}
        /\ unsupported <=> mem[i].unsupported \/ i \in Unsupported(f)
    OBVIOUS
  <1> HIDE DEF active, unsupported
  <1>5. /\ mem'[i].kind = mem[i].kind /\ mem'[i].preds = mem[i].preds
        /\ mem'[i].relations = mem[i].relations
        /\ mem'[i].active = active /\ mem'[i].unsupported = unsupported
    BY <1>1, <1>2, <1>3 DEF Record
  <1> QED BY <1>2, <1>4, <1>5, Zenon

LEMMA RevokeFull ==
  ASSUME FullInv, NEW f \in Ids, Revoke(f)
  PROVE  TablesInv' /\ StatusInv' /\ StepKept
  <1> DEFINE revoked == {g \in Descendants(f) : mem[g].active}
  <1>0. StoreInv /\ TablesInv /\ StatusInv
    BY DEF FullInv
  <1>1. RefreshRoot(mem') /\ UNCHANGED <<temps, refs, deferred, ops, resolutions>>
    BY Zenon DEF Revoke
  <1>2. \A i \in Ids : /\ mem'[i].kind = mem[i].kind /\ mem'[i].preds = mem[i].preds
                       /\ mem'[i].relations = mem[i].relations
                       /\ mem'[i].active <=> mem[i].active /\ i \notin revoked
                       /\ mem'[i].unsupported <=> mem[i].unsupported \/ i \in Unsupported(f)
    BY <1>0, RevokeFields
  <1> HIDE DEF revoked
  <1>3. TablesInv'
    <2>1. \A p \in Proposals : temps[p].state = "resolved" => temps[p].target \in Ids
      BY <1>0 DEF StoreInv, ResolvedTargets
    <2>2. NothingStrands'
      BY <1>0, <1>1, <1>2, <2>1 DEF TablesInv, NothingStrands, WaitingRowsCanEnd,
                                    DeferredCanEnd, CommittedIsResolved, Exists
    <2> QED BY <1>0, <1>1, <2>2 DEF TablesInv, CausesKnown
  <1>4. StepKept
    BY <1>1, <1>2 DEF StepKept, IdsKept, RelationsFresh
  <1>5. UnsupportedMarked'
    <2> SUFFICES ASSUME NEW o \in Ids, mem'[o].kind = "obligation", mem'[o].active,
                        NEW g \in mem'[o].preds, g \in Ids, mem'[g].kind = "fact", ~mem'[g].active
                 PROVE  mem'[o].unsupported
      BY DEF UnsupportedMarked, Revoked, Facts
    <2>1. /\ mem[o].kind = "obligation" /\ mem[o].active /\ g \in mem[o].preds
          /\ mem[g].kind = "fact"
      BY <1>2
    <2>2. CASE ~mem[g].active
      <3>1. mem[o].unsupported
        BY <1>0, <2>1, <2>2 DEF StatusInv, StatusesStand, UnsupportedMarked, Revoked, Facts
      <3> QED BY <1>2, <3>1
    <2>3. CASE mem[g].active
      <3>1. g \in revoked
        BY <1>2, <2>3
      <3>2. o \in Unsupported(f)
        BY <2>1, <3>1 DEF Unsupported, revoked
      <3> QED BY <1>2, <3>2
    <2> QED BY <2>2, <2>3
  <1>6. RootStands' /\ ResolvedByFacts'
    BY <1>0, <1>1, <1>2, RefreshedRoot
  <1> QED BY <1>3, <1>4, <1>5, <1>6 DEF StatusInv, StatusesStand

(***************************************************************************)
(* The invariant of the tables, the root and the marks.                    *)
(***************************************************************************)
LEMMA FullInvInit == Init => FullInv
  <1> SUFFICES ASSUME Init PROVE FullInv
    OBVIOUS
  <1>1. StoreInv
    BY StoreInvInit
  <1>2. TablesInv
    BY DEF Init, TablesInv, NothingStrands, WaitingRowsCanEnd, DeferredCanEnd,
           CommittedIsResolved, CausesKnown
  <1>3. Len(resolutions) = 0
    BY DEF Init
  <1>4. RootStands /\ ResolvedByFacts
    BY <1>3 DEF Init, RootStands, ResolvedByFacts, Standing
  <1>5. \A i \in Ids : mem[i].preds = {}
    BY DEF Init, New, Absent
  <1> QED BY <1>1, <1>2, <1>4, <1>5 DEF FullInv, StatusInv, StatusesStand, UnsupportedMarked

LEMMA FullStep == FullInv /\ [Next]_vars => TablesInv' /\ StatusInv' /\ StepKept
  <1> SUFFICES ASSUME FullInv, [Next]_vars PROVE TablesInv' /\ StatusInv' /\ StepKept
    OBVIOUS
  <1>0. StoreInv /\ TypeOK
    BY DEF FullInv, StoreInv
  <1>1. ASSUME NEW p \in Proposals, PublishSome(p) PROVE TablesInv' /\ StatusInv' /\ StepKept
    <2>1. PICK id \in Ids, kind \in Published :
            \E preds \in IF kind = "fact" THEN Small(Facts, MaxPredecessors) ELSE {{}},
               soft \in SoftRefs(p, kind),
               outcome \in IF kind = "fact" THEN Outcomes \cup {NoId} ELSE {NoId} :
                \E relation \in Relations(p, kind, soft) :
                   Publish(p, id, kind, preds, soft, relation, outcome)
      BY <1>1, Zenon DEF PublishSome
    <2>2. PICK preds \in IF kind = "fact" THEN Small(Facts, MaxPredecessors) ELSE {{}},
               soft \in SoftRefs(p, kind),
               outcome \in IF kind = "fact" THEN Outcomes \cup {NoId} ELSE {NoId} :
                \E relation \in Relations(p, kind, soft) :
                   Publish(p, id, kind, preds, soft, relation, outcome)
      BY <2>1, Zenon
    <2>3. PICK relation \in Relations(p, kind, soft) :
             Publish(p, id, kind, preds, soft, relation, outcome)
      BY <2>2, Zenon
    <2>4. kind \in Kinds
      BY ConstantsAssumption
    <2>5. preds \in SUBSET Ids
      <3>1. kind = "fact" => preds \subseteq Facts
        BY SmallIsSubset
      <3> QED BY <3>1 DEF Facts
    <2>6. soft \in SoftPayload
      BY <1>0, SoftTypes
    <2>7. relation \in SUBSET (Ids \cup Proposals)
      BY RelationTypes
    <2>8. outcome \in Outcomes \cup {NoId}
      OBVIOUS
    <2> QED BY <2>3, <2>4, <2>5, <2>6, <2>7, <2>8, PublishFull
  <1>2. ASSUME NEW p \in Proposals, UpdateSome(p) PROVE TablesInv' /\ StatusInv' /\ StepKept
    <2>1. PICK target \in Ids, replace \in BOOLEAN, removed \in Small(Targets \ {p}, 1) :
            \E soft \in SoftRefs(p, mem[target].kind) :
               \E relation \in Relations(p, mem[target].kind, soft) :
                  Update(p, target, soft, relation, removed, replace)
      BY <1>2, Zenon DEF UpdateSome
    <2>2. PICK soft \in SoftRefs(p, mem[target].kind) :
               \E relation \in Relations(p, mem[target].kind, soft) :
                  Update(p, target, soft, relation, removed, replace)
      BY <2>1, Zenon
    <2>3. PICK relation \in Relations(p, mem[target].kind, soft) :
             Update(p, target, soft, relation, removed, replace)
      BY <2>2, Zenon
    <2>4. soft \in SoftPayload
      BY <1>0, SoftTypes
    <2>5. relation \in SUBSET (Ids \cup Proposals)
      BY RelationTypes
    <2> QED BY <2>3, <2>4, <2>5, UpdateFull
  <1>3. ASSUME NEW p \in Proposals, NEW kind, NEW update, Malformed(p, kind, update)
        PROVE  TablesInv' /\ StatusInv' /\ StepKept
    <2>1. Reject(p, kind, "rejected", update) /\ ops[p] = "open"
      BY <1>3 DEF Malformed
    <2> QED BY <2>1, RejectFull
  <1>4. CASE UNCHANGED vars
    <2>1. UNCHANGED <<mem, temps, refs, deferred, ops, root, resolutions>>
      BY <1>4 DEF vars
    <2>2. TablesInv' /\ IdsKept
      BY <2>1 DEF FullInv, TablesInv, NothingStrands, WaitingRowsCanEnd, DeferredCanEnd,
                  CommittedIsResolved, CausesKnown, Exists, IdsKept
    <2> QED BY <2>1, <2>2, MemoryKept DEF StepKept
  <1> QED BY <1>1, <1>2, <1>3, <1>4, DuplicateFull, DropFull, RemoveFull, RevokeFull, Zenon DEF Next

LEMMA FullInvInductive == FullInv /\ [Next]_vars => FullInv'
  BY FullStep, StoreInvInductive DEF FullInv

(* Rows, deferred relations and temporary ids all have their answer or a   *)
(* way to get it, whatever is published, patched, rejected or abandoned,   *)
(* and in whatever order.                                                  *)
THEOREM NothingEverStrands == Spec => []NothingStrands
  <1>1. FullInv => NothingStrands
    BY DEF FullInv, TablesInv
  <1> QED BY <1>1, FullInvInit, FullInvInductive, PTL DEF Spec

(* The root is solved by an active Fact that was verified to resolve it,   *)
(* and every obligation in use that rests on a revoked Fact is marked.     *)
THEOREM StatusesAlwaysStand == Spec => []StatusesStand
  <1>1. FullInv => StatusesStand
    BY DEF FullInv, StatusInv
  <1> QED BY <1>1, FullInvInit, FullInvInductive, PTL DEF Spec

(* A temporary id that was given up is never used again, and a resolved    *)
(* one stands for the same record for ever.                                *)
THEOREM TerminalIdsKept == Spec => TerminalIdsStay
  <1>1. FullInv /\ [Next]_vars => [IdsKept]_vars
    BY FullStep DEF StepKept
  <1>2. [IdsKept]_vars => [\A p \in Proposals :
        /\ temps[p].state \in {"rejected", "abandoned"} =>
              temps'[p].state \in {"rejected", "abandoned"}
        /\ temps[p].state = "resolved" => temps'[p] = temps[p]]_vars
    BY DEF IdsKept
  <1> QED BY <1>1, <1>2, FullInvInit, FullInvInductive, PTL DEF Spec, TerminalIdsStay

(* A relation that enters an obligation relates Facts that are active at   *)
(* that moment, however long it waited for its other operands.             *)
THEOREM RelationsOnActiveFacts == Spec => RelationsEnterOnActiveFacts
  <1>1. FullInv /\ [Next]_vars => [RelationsFresh]_vars
    BY FullStep DEF StepKept
  <1>2. [RelationsFresh]_vars => [\A o \in Ids :
        \A relation \in mem'[o].relations \ mem[o].relations :
           \A i \in relation : mem'[i].kind = "fact" => mem'[i].active]_vars
    BY DEF RelationsFresh
  <1> QED BY <1>1, <1>2, FullInvInit, FullInvInductive, PTL DEF Spec, RelationsEnterOnActiveFacts

(***************************************************************************)
(*                                                                         *)
(* Fact proposals.                                                         *)
(*                                                                         *)
(* That nothing is stranded is not inductive: a stop may come between any  *)
(* two transactions of a refusal, so the invariant says what a running     *)
(* process still has on its agenda (TailsOwed, ScanOwed), that each step   *)
(* on it finds the state it was planned in (Agenda), and that recovery     *)
(* finds every refusal that lost its agenda (Controlled).  That published  *)
(* Facts rest needs that what stands for a Fact was never refused (Mapped) *)
(* and that what has passed its gates rests on Facts alone (Cited).        *)
(*                                                                         *)
(* A path to publication is taken as membership in every set that what is  *)
(* based and what waits for it close (Reaches): a set can be shown closed  *)
(* without counting the steps that reach a member.                         *)
(***************************************************************************)

(***************************************************************************)
(* Agendas.                                                                *)
(***************************************************************************)
(* The steps an agenda is made of: a name and the proposals it is for.     *)
AgendaSteps == StepNames \X SUBSET Props

(* What a series of steps holds under a name.                              *)
Holds(a, name) == \E i \in DOMAIN a : a[i][1] = name

(* The proposals a series of steps is for, under one name.                 *)
Aims(a, name) == UNION {a[i][2] : i \in {j \in DOMAIN a : a[j][1] = name}}

(* The steps a method takes at once, each for one proposal.                *)
AtOnce == {"publish", "published", "refused", "failed", "duplicate", "marked"}

(* A series without a step that is taken at once.                          *)
Plain(a) == a \in Seq(AgendaSteps) /\ \A n \in AtOnce : ~Holds(a, n)

(* What two series hold together.                                          *)
LEMMA JoinedSteps ==
    ASSUME NEW a \in Seq(AgendaSteps), NEW b \in Seq(AgendaSteps), NEW n
    PROVE  /\ a \o b \in Seq(AgendaSteps)
           /\ Holds(a \o b, n) <=> Holds(a, n) \/ Holds(b, n)
           /\ Aims(a \o b, n) = Aims(a, n) \cup Aims(b, n)
<1>1. /\ a \o b \in Seq(AgendaSteps) /\ Len(a \o b) = Len(a) + Len(b)
      /\ \A i \in 1 .. Len(a) : (a \o b)[i] = a[i]
      /\ \A i \in 1 .. Len(b) : (a \o b)[Len(a) + i] = b[i]
      /\ \A i \in 1 .. Len(a) + Len(b) :
            (a \o b)[i] = IF i <= Len(a) THEN a[i] ELSE b[i - Len(a)]
      /\ Len(a) \in Nat /\ Len(b) \in Nat
      /\ DOMAIN a = 1 .. Len(a) /\ DOMAIN b = 1 .. Len(b)
      /\ DOMAIN (a \o b) = 1 .. Len(a) + Len(b)
  BY ConcatProperties
<1>2. ASSUME NEW i \in DOMAIN (a \o b)
      PROVE  \/ i \in DOMAIN a /\ (a \o b)[i] = a[i]
             \/ i - Len(a) \in DOMAIN b /\ (a \o b)[i] = b[i - Len(a)]
  BY <1>1
<1>3. /\ \A i \in DOMAIN a : i \in DOMAIN (a \o b) /\ (a \o b)[i] = a[i]
      /\ \A i \in DOMAIN b : Len(a) + i \in DOMAIN (a \o b) /\ (a \o b)[Len(a) + i] = b[i]
  BY <1>1
<1> DEFINE c == a \o b
<1>4. /\ \A i \in DOMAIN c : (\E j \in DOMAIN a : c[i] = a[j]) \/ (\E j \in DOMAIN b : c[i] = b[j])
      /\ \A j \in DOMAIN a : \E i \in DOMAIN c : c[i] = a[j]
      /\ \A j \in DOMAIN b : \E i \in DOMAIN c : c[i] = b[j]
  BY <1>2, <1>3
<1> HIDE DEF c
<1>5. Holds(c, n) <=> Holds(a, n) \/ Holds(b, n)
  BY <1>4 DEF Holds
<1>6. Aims(c, n) = Aims(a, n) \cup Aims(b, n)
  <2>1. ASSUME NEW p
        PROVE  /\ p \in Aims(c, n) <=> \E i \in DOMAIN c : c[i][1] = n /\ p \in c[i][2]
               /\ p \in Aims(a, n) <=> \E i \in DOMAIN a : a[i][1] = n /\ p \in a[i][2]
               /\ p \in Aims(b, n) <=> \E i \in DOMAIN b : b[i][1] = n /\ p \in b[i][2]
    BY DEF Aims
  <2>2. QED
    BY <1>4, <2>1
<1>7. QED
  BY <1>1, <1>5, <1>6 DEF c

(* A series of one step.                                                   *)
LEMMA OneStep ==
    ASSUME NEW n \in StepNames, NEW S \in SUBSET Props, NEW m
    PROVE  /\ << <<n, S>> >> \in Seq(AgendaSteps)
           /\ Holds(<< <<n, S>> >>, m) <=> m = n
           /\ Aims(<< <<n, S>> >>, m) = IF m = n THEN S ELSE {}
<1> DEFINE a == << <<n, S>> >>
<1>1. a \in Seq(AgendaSteps) /\ DOMAIN a = {1} /\ a[1] = <<n, S>>
  BY DEF AgendaSteps
<1>2. a[1][1] = n /\ a[1][2] = S
  BY <1>1
<1> HIDE DEF a
<1>3. Holds(a, m) <=> m = n
  BY <1>1, <1>2 DEF Holds
<1>4. Aims(a, m) = IF m = n THEN S ELSE {}
  BY <1>1, <1>2 DEF Aims
<1>5. QED
  BY <1>1, <1>3, <1>4 DEF a

(* The empty series.                                                       *)
LEMMA NoStep ==
    ASSUME NEW m
    PROVE  /\ << >> \in Seq(AgendaSteps) /\ ~Holds(<< >>, m)
           /\ Aims(<< >>, m) = {}
  BY DEF Holds, Aims

(* The series the methods are made of.                                     *)
LEMMA DoSteps ==
    ASSUME NEW n \in StepNames, NEW S \in SUBSET Props, NEW m
    PROVE  /\ Do(n, S) \in Seq(AgendaSteps)
           /\ Holds(Do(n, S), m) <=> m = n /\ S # {}
           /\ Aims(Do(n, S), m) = IF m = n THEN S ELSE {}
<1>1. CASE S = {}
  BY <1>1, NoStep DEF Do
<1>2. CASE S # {}
  BY <1>2, OneStep DEF Do
<1>3. QED
  BY <1>1, <1>2

(* The series that markers and the scan are planned as.                    *)
LEMMA PlainSteps ==
    ASSUME NEW m
    PROVE  /\ Markers \in Seq(AgendaSteps) /\ (Holds(Markers, m) <=> m = "markers")
           /\ Terminalize \in Seq(AgendaSteps)
           /\ (Holds(Terminalize, m) <=> m = "terminalize")
           /\ Aims(Markers, m) = {} /\ Aims(Terminalize, m) = {}
<1>1. "markers" \in StepNames /\ "terminalize" \in StepNames /\ {} \in SUBSET Props
  BY DEF StepNames
<1>2. QED
  BY <1>1, OneStep DEF Markers, Terminalize

(* The series that ends a task.                                            *)
LEMMA CloseSteps ==
    ASSUME NEW t, NEW m
    PROVE  /\ Close(t) \in Seq(AgendaSteps) /\ (Holds(Close(t), m) => m = "close")
           /\ Aims(Close(t), m) = {}
<1>1. "close" \in StepNames /\ {} \in SUBSET Props
  BY DEF StepNames
<1>2. CASE Close(t) = << <<"close", {}>> >>
  BY <1>1, <1>2, OneStep
<1>3. CASE Close(t) = << >>
  BY <1>3, NoStep
<1>4. QED
  BY <1>2, <1>3 DEF Close

(* The step a method takes next, and the rest.                             *)
LEMMA FirstStep ==
    ASSUME NEW a \in Seq(AgendaSteps), a # << >>, NEW n
    PROVE  /\ Head(a) \in AgendaSteps /\ Tail(a) \in Seq(AgendaSteps)
           /\ Holds(a, n) <=> Head(a)[1] = n \/ Holds(Tail(a), n)
           /\ Aims(a, n) = (IF Head(a)[1] = n THEN Head(a)[2] ELSE {})
                              \cup Aims(Tail(a), n)
<1>1. /\ Len(a) \in Nat /\ Len(a) > 0 /\ DOMAIN a = 1 .. Len(a) /\ Head(a) = a[1]
      /\ Tail(a) \in Seq(AgendaSteps) /\ Len(Tail(a)) = Len(a) - 1
      /\ \A i \in 1 .. Len(Tail(a)) : Tail(a)[i] = a[i + 1]
      /\ DOMAIN Tail(a) = 1 .. Len(a) - 1
  BY HeadTailProperties
<1>2. Head(a) \in AgendaSteps
  BY <1>1
<1> DEFINE b == Tail(a)
           h == Head(a)
<1>3. /\ \A i \in DOMAIN a : a[i] = h \/ (\E j \in DOMAIN b : a[i] = b[j])
      /\ \E i \in DOMAIN a : a[i] = h
      /\ \A j \in DOMAIN b : \E i \in DOMAIN a : a[i] = b[j]
  <2>1. ASSUME NEW i \in DOMAIN a, i # 1 PROVE i - 1 \in DOMAIN b /\ b[i - 1] = a[i]
    BY <1>1, <2>1
  <2>2. ASSUME NEW j \in DOMAIN b PROVE j + 1 \in DOMAIN a /\ b[j] = a[j + 1]
    BY <1>1
  <2>3. 1 \in DOMAIN a /\ a[1] = h
    BY <1>1
  <2>4. QED
    BY <2>1, <2>2, <2>3
<1> HIDE DEF b, h
<1>4. Holds(a, n) <=> h[1] = n \/ Holds(b, n)
  BY <1>3 DEF Holds
<1>5. Aims(a, n) = (IF h[1] = n THEN h[2] ELSE {}) \cup Aims(b, n)
  <2>1. ASSUME NEW p
        PROVE  /\ p \in Aims(a, n) <=> \E i \in DOMAIN a : a[i][1] = n /\ p \in a[i][2]
               /\ p \in Aims(b, n) <=> \E i \in DOMAIN b : b[i][1] = n /\ p \in b[i][2]
    BY DEF Aims
  <2>2. QED
    BY <1>3, <2>1
<1>6. QED
  BY <1>1, <1>2, <1>4, <1>5 DEF b, h

(* Steps at once are put first.                                            *)
LEMMA PutFirst ==
    ASSUME NEW n \in StepNames, NEW p \in Props, NEW b \in Seq(AgendaSteps),
           NEW c \in Seq(AgendaSteps)
    PROVE  LET a == Do(n, {p}) \o b \o c
           IN  /\ a \in Seq(AgendaSteps) /\ a # << >> /\ Head(a) = <<n, {p}>>
               /\ Tail(a) = b \o c
<1> DEFINE d == << <<n, {p}>> >>
           a == (d \o b) \o c
<1>1. /\ d \in Seq(AgendaSteps) /\ Len(d) = 1 /\ d[1] = <<n, {p}>>
      /\ Do(n, {p}) \o b \o c = a
  <2>1. {p} # {} /\ <<n, {p}>> \in AgendaSteps
    BY DEF AgendaSteps
  <2>2. Do(n, {p}) = d
    BY <2>1 DEF Do
  <2>3. d \in Seq(AgendaSteps) /\ Len(d) = 1 /\ d[1] = <<n, {p}>>
    BY DEF AgendaSteps
  <2>4. QED
    <3> HIDE DEF d
    <3>1. QED
      BY <2>2, <2>3
<1>2. /\ a = d \o (b \o c) /\ b \o c \in Seq(AgendaSteps) /\ a \in Seq(AgendaSteps)
      /\ Len(a) = 1 + Len(b \o c) /\ Len(b \o c) \in Nat
      /\ a[1] = d[1] /\ \A i \in 1 .. Len(b \o c) : a[1 + i] = (b \o c)[i]
  <2>1. a = d \o (b \o c) /\ b \o c \in Seq(AgendaSteps) /\ a \in Seq(AgendaSteps)
    <3> HIDE DEF d
    <3>1. QED
      BY <1>1, ConcatAssociative, ConcatProperties
  <2>2. /\ Len(d \o (b \o c)) = Len(d) + Len(b \o c) /\ Len(b \o c) \in Nat
        /\ \A i \in 1 .. Len(d) + Len(b \o c) :
              (d \o (b \o c))[i] = IF i <= Len(d) THEN d[i] ELSE (b \o c)[i - Len(d)]
    <3> DEFINE e == b \o c
    <3> HIDE DEF d, e
    <3>1. Len(e) \in Nat
      BY <2>1, LenProperties DEF e
    <3>2. QED
      BY <1>1, <2>1, <3>1, ConcatProperties DEF e
  <2> HIDE DEF d, a
  <2>3. QED
    <3> DEFINE e == b \o c
    <3> HIDE DEF e
    <3>1. \A i \in 1 .. Len(e) : 1 + i \in 1 .. 1 + Len(e) /\ ~(1 + i <= 1) /\ (1 + i) - 1 = i
      BY <2>2 DEF e
    <3>2. QED
      BY <1>1, <2>1, <2>2, <3>1 DEF e
<1>3. a # << >> /\ Head(a) = <<n, {p}>>
  <2> HIDE DEF d, a
  <2>1. QED
    BY <1>1, <1>2, HeadTailProperties, EmptySeq
<1>4. Tail(a) = b \o c
  <2> HIDE DEF d, a
  <2>1. /\ Tail(a) \in Seq(AgendaSteps) /\ Len(Tail(a)) = Len(a) - 1
        /\ \A i \in 1 .. Len(Tail(a)) : Tail(a)[i] = a[i + 1]
    BY <1>2, <1>3, HeadTailProperties
  <2> DEFINE e == b \o c
  <2> HIDE DEF e
  <2>2. Len(Tail(a)) = Len(e) /\ Len(e) \in Nat /\ e \in Seq(AgendaSteps)
    BY <1>2, <2>1 DEF e
  <2>3. \A i \in 1 .. Len(e) : Tail(a)[i] = e[i]
    BY <1>2, <2>1, <2>2 DEF e
  <2>4. Tail(a) = e
    BY <2>1, <2>2, <2>3, SeqEqual
  <2>5. QED
    BY <2>4 DEF e
<1>5. QED
  <2> HIDE DEF d, a
  <2>1. QED
    BY <1>1, <1>2, <1>3, <1>4

(***************************************************************************)
(* The inductive invariant.                                                *)
(***************************************************************************)
(* An operation a reviewer or the operator may still decide.               *)
UnderReview == {"verifying", "needs_attention"}

(* What an operation is once its gates are open.                           *)
Passed == {"received", "synthesizing", "verifying", "needs_attention", "committed"}

(* An operation that passed its gates rests on Facts.                      *)
Cited ==
    \A p \in Props :
        /\ op[p].cited \subseteq op[p].explicit \cup op[p].body \cup mapping
        /\ op[p].state \in Passed => OpenGates(p) = {}
        /\ store[p] = "published" => op[p].cited \subseteq mapping
        /\ op[p].version + Cardinality(op[p].explicit) <= MaxGates + 1

(* What stands for a Fact was not refused, and no cascade reaches it.      *)
Mapped ==
    \A p \in Props :
        /\ p \in mapping => /\ proposals[p].state # "rejected"
                            /\ op[p].state \in {"committed", "needs_attention", "abandoned"}
                            /\ op[p].state = "needs_attention" => ~op[p].verified
                            /\ OpenGates(p) = {}
        /\ store[p] = "duplicate" => p \in mapping
        /\ op[p].verified => op[p].state \in UnderReview \cup Final

(* The control record of a proposal goes with its operation, and what is   *)
(* open rests on nothing refused.                                          *)
Controlled ==
    \A p \in Props :
        /\ proposals[p].state = "none" =>
               Is(p, "absent") /\ store[p] = "none" /\ p \notin mapping
        /\ op[p].state \in Open =>
               /\ proposals[p].state # "rejected"
               /\ \A g \in OpenGates(p) : proposals[g].state # "rejected"

(* A step that is taken at once finds the state it was planned in.         *)
Fits(n, p) ==
    /\ n \in {"publish", "published", "refused", "failed"} =>
           op[p].state \in UnderReview /\ op[p].verified
    /\ n \in {"published", "failed"} => store[p] = "published"
    /\ n = "duplicate" => p \in mapping /\ Is(p, "committed") /\ ~op[p].verified

(* At most the next step is one that is taken at once, and it fits.        *)
Planned(a) ==
    \/ Plain(a)
    \/ \E n \in AtOnce, p \in Props :
          /\ Fits(n, p)
          /\ a # << >> /\ Head(a) = <<n, {p}>> /\ Plain(Tail(a))

(* What the agenda holds: only what is a Fact is to be resolved.           *)
Agenda ==
    /\ agenda \in Seq(AgendaSteps)
    /\ Aims(agenda, "resolve") \subseteq mapping
    /\ Planned(agenda)

(* What is left to do for a refusal is on the agenda.                      *)
Owed(p) ==
    /\ Is(p, "rejected") /\ proposals[p].state = "pending" =>
           p \in Aims(agenda, "reject")
    /\ proposals[p].state = "rejected" =>
           proposals[p].marked \/ store[p] = "published" \/ Holds(agenda, "markers")

(* A running process has everything it owes on its agenda.                 *)
TailsOwed == up => \A p \in Props : Owed(p)

(* The proposals with a path to publication, if those in X had one.        *)
Based(X) ==
    X \cup mapping \cup {p \in Props : proposals[p].state = "resolved"}
      \cup {p \in Props : op[p].state \in Open /\ ~Is(p, "waiting_predecessors")}

(* A set that whatever waits for members of it alone joins.                *)
ClosedFrom(X, S) ==
    /\ Based(X) \subseteq S
    /\ \A p \in Props : Is(p, "waiting_predecessors") /\ OpenGates(p) \subseteq S => p \in S

(* A proposal has a path to publication: it is in every such set.          *)
Reaches(X, p) == \A S \in SUBSET Props : ClosedFrom(X, S) => p \in S

(* After the scan, whatever waits has a path, or waits for a proposal that *)
(* the agenda is about to refuse.                                          *)
WaitingReach ==
    \A p \in Props : Is(p, "waiting_predecessors") =>
                         Reaches(Aims(agenda, "reject"), p)

(* A final task has been scanned, or the scan is on the agenda.            *)
ScanOwed == up /\ task.final /\ ~Holds(agenda, "terminalize") => WaitingReach

(* The invariant that every step keeps.                                    *)
ProposalInv ==
    /\ ProposalTypes /\ Cited /\ Mapped /\ Controlled /\ Agenda /\ TailsOwed /\ ScanOwed

(***************************************************************************)
(* What a step does to the agenda.                                         *)
(***************************************************************************)
(* A step taken at once was planned for one proposal; the rest is plain.   *)
LEMMA AtHead ==
    ASSUME Agenda, NEW n, NEW p, Step(n, p)
    PROVE  /\ Plain(Rest) /\ n \in StepNames /\ p \in Props
           /\ Head(agenda)[2] \subseteq Props
           /\ n \in AtOnce => Head(agenda)[2] = {p} /\ Fits(n, p)
<1>1. agenda \in Seq(AgendaSteps) /\ agenda # << >> /\ Head(agenda)[1] = n
      /\ p \in Head(agenda)[2]
  BY DEF Agenda, Step
<1>2. Head(agenda) \in AgendaSteps /\ Rest \in Seq(AgendaSteps)
  BY <1>1, FirstStep DEF Rest
<1>3. n \in StepNames /\ Head(agenda)[2] \subseteq Props
  BY <1>1, <1>2 DEF AgendaSteps
<1>4. CASE Plain(agenda)
  <2>1. Plain(Rest)
    BY <1>1, <1>2, <1>4, FirstStep DEF Plain, Rest
  <2>2. n \notin AtOnce
    BY <1>1, <1>4, FirstStep DEF Plain
  <2>3. QED
    BY <1>1, <1>3, <2>1, <2>2
<1>5. CASE \E m \in AtOnce, q \in Props :
               Fits(m, q) /\ Head(agenda) = <<m, {q}>> /\ Plain(Tail(agenda))
  <2>1. PICK m \in AtOnce, q \in Props :
               Fits(m, q) /\ Head(agenda) = <<m, {q}>> /\ Plain(Tail(agenda))
    BY <1>5
  <2>2. m = n /\ q = p
    BY <1>1, <2>1
  <2>3. QED
    BY <1>1, <1>3, <2>1, <2>2 DEF Rest
<1>6. QED
  BY <1>4, <1>5 DEF Agenda, Planned

(* What is left when a method has taken p.                                 *)
LEMMA AfterStep ==
    ASSUME Agenda, NEW n, NEW p, Step(n, p), NEW b \in Seq(AgendaSteps), Then(p, b), NEW m
    PROVE  /\ agenda' \in Seq(AgendaSteps)
           /\ Aims(agenda', m) = Aims(b, m) \cup Aims(Rest, m)
                  \cup (IF m = n THEN Head(agenda)[2] \ {p} ELSE {})
           /\ Holds(b, m) \/ Holds(Rest, m) => Holds(agenda', m)
           /\ Holds(agenda', m) => \/ Holds(b, m) \/ Holds(Rest, m)
                                   \/ m = n /\ n \notin AtOnce
           /\ Aims(agenda, m) = Aims(Rest, m)
                  \cup (IF m = n THEN Head(agenda)[2] ELSE {})
           /\ Holds(agenda, m) <=> m = n \/ Holds(Rest, m)
<1> DEFINE S == Head(agenda)[2] \ {p}
           d == Do(n, S)
<1>1. /\ Plain(Rest) /\ n \in StepNames /\ S \in SUBSET Props
      /\ n \in AtOnce => S = {}
  BY AtHead
<1>2. Rest \in Seq(AgendaSteps) /\ agenda' = b \o d \o Rest
  BY <1>1 DEF Plain, Then, Step
<1>3. /\ d \in Seq(AgendaSteps)
      /\ Holds(d, m) <=> m = n /\ S # {}
      /\ Aims(d, m) = IF m = n THEN S ELSE {}
  <2> HIDE DEF S
  <2>1. QED
    BY <1>1, DoSteps
<1> HIDE DEF d
<1>4. /\ b \o d \in Seq(AgendaSteps)
      /\ Holds(b \o d, m) <=> Holds(b, m) \/ Holds(d, m)
      /\ Aims(b \o d, m) = Aims(b, m) \cup Aims(d, m)
  BY <1>3, JoinedSteps
<1>5. /\ agenda' \in Seq(AgendaSteps)
      /\ Holds(agenda', m) <=> Holds(b \o d, m) \/ Holds(Rest, m)
      /\ Aims(agenda', m) = Aims(b \o d, m) \cup Aims(Rest, m)
  BY <1>2, <1>4, JoinedSteps
<1>6. /\ Aims(agenda, m) = Aims(Rest, m) \cup (IF m = n THEN Head(agenda)[2] ELSE {})
      /\ Holds(agenda, m) <=> m = n \/ Holds(Rest, m)
  BY FirstStep DEF Agenda, Step, Rest
<1>7. QED
  BY <1>1, <1>3, <1>4, <1>5, <1>6

(***************************************************************************)
(* What a cascade reaches.                                                 *)
(***************************************************************************)
(* The closure of a refusal holds its root and every dependent, and        *)
(* nothing that passed its gates.                                          *)
LEMMA ClosureHolds ==
    ASSUME NEW r \in Props
    PROVE  /\ Closure(r) \subseteq Props /\ r \in Closure(r)
           /\ \A q \in Closure(r) : Dependents(q) \subseteq Closure(r)
           /\ \A q \in Closure(r) : q = r \/ OpenGates(q) # {}
<1>1. Closure(r) \subseteq Props /\ r \in Closure(r)
  BY DEF Closure
<1>2. ASSUME NEW q \in Closure(r), NEW d \in Dependents(q)
      PROVE  d \in Closure(r)
  <2>1. d \in Props
    BY DEF Dependents
  <2>2. ASSUME NEW S \in SUBSET Props, r \in S, \A x \in S : Dependents(x) \subseteq S
        PROVE  d \in S
    <3>1. q \in S
      BY <2>2 DEF Closure
    <3>2. QED
      BY <2>2, <3>1
  <2>3. QED
    BY <2>1, <2>2 DEF Closure
<1>3. ASSUME NEW q \in Closure(r), q # r
      PROVE  OpenGates(q) # {}
  <2> DEFINE S == {r} \cup {x \in Props : OpenGates(x) # {}}
  <2>1. S \in SUBSET Props /\ r \in S
    OBVIOUS
  <2>2. ASSUME NEW x \in S PROVE Dependents(x) \subseteq S
    BY DEF Dependents
  <2>3. q \in S
    <3> HIDE DEF S
    <3>1. QED
      BY <2>1, <2>2 DEF Closure
  <2>4. QED
    BY <1>3, <2>3
<1>4. QED
  BY <1>1, <1>2, <1>3

(* Those a cascade refuses. *)
Hit(roots) == UNION {Closure(r) : r \in roots \ mapping}

(* A cascade refuses its roots and their dependents, and spares what       *)
(* stands for a Fact.                                                      *)
LEMMA HitHolds ==
    ASSUME Mapped, NEW roots \in SUBSET Props
    PROVE  /\ Hit(roots) \subseteq Props /\ roots \subseteq Hit(roots) \cup mapping
           /\ \A q \in Hit(roots) : Dependents(q) \subseteq Hit(roots)
           /\ Hit(roots) \cap mapping = {}
<1>1. \A r \in roots \ mapping :
         /\ Closure(r) \subseteq Props /\ r \in Closure(r)
         /\ \A q \in Closure(r) : Dependents(q) \subseteq Closure(r)
         /\ \A q \in Closure(r) : q \notin mapping
  BY ClosureHolds DEF Mapped
<1>2. QED
  BY <1>1 DEF Hit

(***************************************************************************)
(* Types.                                                                  *)
(***************************************************************************)
(* The states of an operation.                                             *)
OpStates == {"absent"} \cup Open \cup Final

(* The control record of a proposal.                                       *)
Control == [state : {"none", "pending", "resolved", "rejected"}, marked : BOOLEAN]

(* The task of the proposals.                                              *)
TaskRecord ==
    [state : {"running", "retry_pending", "revision_pending",
              "postprocessing", "needs_attention", "closed"},
     attempt : 1 .. MaxAttempts, final : BOOLEAN, repair : BOOLEAN]

(* The types of what the steps change.                                     *)
DataTypes ==
    /\ op \in [Props -> OpRecord] /\ proposals \in [Props -> Control]
    /\ mapping \subseteq Props
    /\ store \in [Props -> {"none", "published", "duplicate", "rejected"}]
    /\ task \in TaskRecord

(* The type invariant is these types and those of the bounded counters.    *)
LEMMA TypesOfData ==
    /\ ProposalTypes => DataTypes
    /\ DataTypes /\ agenda \in Seq(AgendaSteps) /\ up \in BOOLEAN
       /\ stops \in 0 .. MaxStops /\ operator \in 0 .. MaxOperator => ProposalTypes
<1>1. ProposalTypes => DataTypes
  BY DEF ProposalTypes, DataTypes, Control, TaskRecord
<1>2. agenda \in Seq(AgendaSteps) => \A i \in DOMAIN agenda : agenda[i] \in StepNames \X SUBSET Props
  BY DEF AgendaSteps
<1>3. QED
  BY <1>1, <1>2 DEF ProposalTypes, DataTypes, Control, TaskRecord

(* A new state of one operation.                                           *)
LEMMA StateSet ==
    ASSUME op \in [Props -> OpRecord], NEW p \in Props, NEW s \in OpStates,
           NEW next, next = [op EXCEPT ![p].state = s]
    PROVE  /\ next \in [Props -> OpRecord] /\ next[p].state = s
           /\ \A q \in Props : q # p => next[q] = op[q]
           /\ next[p].explicit = op[p].explicit /\ next[p].body = op[p].body
           /\ next[p].cited = op[p].cited /\ next[p].version = op[p].version
           /\ next[p].verified = op[p].verified /\ next[p].attempt = op[p].attempt
           /\ next[p].returned = op[p].returned
<1>1. op[p] \in OpRecord
  OBVIOUS
<1>2. [op[p] EXCEPT !.state = s] \in OpRecord
  BY <1>1 DEF OpRecord, OpStates
<1>3. next[p] = [op[p] EXCEPT !.state = s] /\ \A q \in Props : q # p => next[q] = op[q]
  OBVIOUS
<1>4. next = [op EXCEPT ![p] = [op[p] EXCEPT !.state = s]]
  OBVIOUS
<1>5. next \in [Props -> OpRecord]
  BY <1>2, <1>4
<1>6. QED
  BY <1>1, <1>3, <1>5 DEF OpRecord

(* The control records once the ids of known stand for Facts.              *)
LEMMA EnsuredSet ==
    ASSUME proposals \in [Props -> Control], NEW known \in SUBSET Props
    PROVE  /\ Ensured(known) \in [Props -> Control]
           /\ \A q \in Props :
                 /\ Ensured(known)[q].marked = proposals[q].marked
                 /\ q \in known => Ensured(known)[q].state = "resolved"
                 /\ q \notin known => Ensured(known)[q] = proposals[q]
<1>1. ASSUME NEW q \in Props
      PROVE  /\ [proposals[q] EXCEPT !.state = "resolved"] \in Control
             /\ [proposals[q] EXCEPT !.state = "resolved"].marked = proposals[q].marked
             /\ [proposals[q] EXCEPT !.state = "resolved"].state = "resolved"
  <2>1. proposals[q] \in Control
    OBVIOUS
  <2>2. QED
    BY <2>1 DEF Control
<1>2. QED
  BY <1>1 DEF Ensured

(* A cascade, record by record.                                            *)
LEMMA CascadeSets ==
    ASSUME DataTypes, NEW roots \in SUBSET Props, NEW os \in [Props -> OpRecord],
           NEW t \in TaskRecord, Cascade(roots, os, t)
    PROVE  /\ op' \in [Props -> OpRecord] /\ proposals' \in [Props -> Control]
           /\ task' \in TaskRecord /\ task'.final = t.final
           /\ \A q \in Props :
                 /\ op'[q].explicit = os[q].explicit /\ op'[q].body = os[q].body
                 /\ op'[q].cited = os[q].cited /\ op'[q].version = os[q].version
                 /\ op'[q].verified = os[q].verified
                 /\ q \in Hit(roots) /\ os[q].state \in Open \cup {"rejected"} =>
                        op'[q].state = "rejected"
                 /\ ~(q \in Hit(roots) /\ os[q].state \in Open \cup {"rejected"}) =>
                        op'[q] = os[q]
                 /\ proposals'[q].marked = proposals[q].marked
                 /\ q \in Hit(roots) => proposals'[q].state = "rejected"
                 /\ q \notin Hit(roots) => proposals'[q] = Ensured(mapping)[q]
<1> DEFINE live == roots \ mapping
           hit == UNION {Closure(r) : r \in live}
           dependent == {p \in hit : \E r \in live \ {p} : p \in Closure(r)}
           back == {p \in dependent : /\ os[p].state \notin {"absent", "abandoned"}
                                      /\ ~os[p].returned}
<1>0. hit = Hit(roots)
  BY DEF Hit
<1>1. /\ op' = [p \in Props |->
              IF p \in hit /\ os[p].state \in Open \cup {"rejected"}
              THEN [os[p] EXCEPT !.state = "rejected", !.returned = @ \/ p \in back]
              ELSE os[p]]
      /\ proposals' = [p \in Props |->
              IF p \in hit THEN [proposals[p] EXCEPT !.state = "rejected"]
                           ELSE Ensured(mapping)[p]]
      /\ task' = IF back = {} THEN t
                 ELSE [t EXCEPT !.repair = TRUE,
                         !.state = IF @ = "postprocessing" THEN "revision_pending"
                                   ELSE @]
  BY DEF Cascade
<1> HIDE DEF back, hit
<1>2. ASSUME NEW q \in Props
      PROVE  LET r == [os[q] EXCEPT !.state = "rejected", !.returned = @ \/ q \in back]
             IN  /\ r \in OpRecord /\ r.state = "rejected"
                 /\ r.explicit = os[q].explicit /\ r.body = os[q].body
                 /\ r.cited = os[q].cited /\ r.version = os[q].version
                 /\ r.verified = os[q].verified
  <2>1. os[q] \in OpRecord
    OBVIOUS
  <2>2. (os[q].returned \/ q \in back) \in BOOLEAN
    OBVIOUS
  <2>3. QED
    BY <2>1, <2>2 DEF OpRecord, Final
<1>3. ASSUME NEW q \in Props
      PROVE  LET r == [proposals[q] EXCEPT !.state = "rejected"]
             IN  r \in Control /\ r.state = "rejected" /\ r.marked = proposals[q].marked
  <2>1. proposals[q] \in Control
    BY DEF DataTypes
  <2>2. QED
    BY <2>1 DEF Control
<1>4. task' \in TaskRecord /\ task'.final = t.final
  BY <1>1 DEF TaskRecord
<1>5. Ensured(mapping) \in [Props -> Control]
      /\ \A q \in Props : Ensured(mapping)[q].marked = proposals[q].marked
  BY EnsuredSet DEF DataTypes
<1>6. op' \in [Props -> OpRecord] /\ proposals' \in [Props -> Control]
  BY <1>1, <1>2, <1>3, <1>5
<1>7. ASSUME NEW q \in Props
      PROVE  /\ op'[q].explicit = os[q].explicit /\ op'[q].body = os[q].body
             /\ op'[q].cited = os[q].cited /\ op'[q].version = os[q].version
             /\ op'[q].verified = os[q].verified
             /\ q \in hit /\ os[q].state \in Open \cup {"rejected"} =>
                    op'[q].state = "rejected"
             /\ ~(q \in hit /\ os[q].state \in Open \cup {"rejected"}) => op'[q] = os[q]
  BY <1>1, <1>2
<1>8. ASSUME NEW q \in Props
      PROVE  /\ proposals'[q].marked = proposals[q].marked
             /\ q \in hit => proposals'[q].state = "rejected"
             /\ q \notin hit => proposals'[q] = Ensured(mapping)[q]
  BY <1>1, <1>3, <1>5
<1>9. QED
  BY <1>0, <1>4, <1>6, <1>7, <1>8

(***************************************************************************)
(* What the steps do to the data.                                          *)
(***************************************************************************)
(* What the invariant says of the records, the agenda aside.               *)
DataInv == DataTypes /\ Cited /\ Mapped /\ Controlled

(* What all steps but a declaration and a resolution have in common.       *)
Careful ==
    /\ mapping \subseteq mapping'
    /\ \A q \in Props :
          /\ op'[q].explicit = op[q].explicit /\ op'[q].body = op[q].body
          /\ op'[q].cited = op[q].cited /\ op'[q].version = op[q].version
          /\ op'[q].state \in Passed => op[q].state \in Passed
          /\ op'[q].state \in Open => op[q].state \in Open \/ q \in mapping
          /\ Is(q, "absent") => op'[q].state = "absent"
          /\ op'[q].verified => op'[q].state \in UnderReview \cup Final
          /\ q \in mapping' =>
                /\ q \in mapping \/ op[q].state \in Passed
                /\ proposals'[q].state # "rejected"
                /\ op'[q].state \in {"committed", "needs_attention", "abandoned"}
                /\ op'[q].state = "needs_attention" => ~op'[q].verified
          /\ store'[q] = "published" => store[q] = "published" \/ op[q].state \in Passed
          /\ store'[q] = "duplicate" => q \in mapping'
          /\ proposals'[q].state = "none" =>
                proposals[q].state = "none" /\ store'[q] = store[q] /\ q \notin mapping'
          /\ proposals'[q].state = "rejected" =>
                \/ proposals[q].state = "rejected"
                \/ /\ op'[q].state \notin Open
                   /\ \A r \in Props : q \in OpenGates(r) => op'[r].state \notin Open

(* A careful step keeps what the invariant says of the records.            *)
LEMMA CarefulKeeps ==
    ASSUME DataInv, Careful
    PROVE  Cited' /\ Mapped' /\ Controlled'
<1>1. \A q \in Props : /\ OpenGates(q)' \subseteq OpenGates(q)
                       /\ op'[q].explicit = op[q].explicit /\ op'[q].body = op[q].body
  BY DEF Careful, OpenGates, Gates
<1>2. Cited'
  <2> SUFFICES ASSUME NEW p \in Props
               PROVE  /\ op'[p].cited \subseteq op'[p].explicit \cup op'[p].body \cup mapping'
                      /\ op'[p].state \in Passed => OpenGates(p)' = {}
                      /\ store'[p] = "published" => op'[p].cited \subseteq mapping'
                      /\ op'[p].version + Cardinality(op'[p].explicit) <= MaxGates + 1
    BY DEF Cited
  <2>1. /\ op'[p].cited \subseteq op'[p].explicit \cup op'[p].body \cup mapping'
        /\ op'[p].state \in Passed => OpenGates(p)' = {}
        /\ op'[p].version + Cardinality(op'[p].explicit) <= MaxGates + 1
    BY <1>1 DEF DataInv, Cited, Careful
  <2>2. op[p].state \in Passed => op[p].cited \subseteq mapping
    BY DEF DataInv, Cited, OpenGates, Gates
  <2>3. store'[p] = "published" => op'[p].cited \subseteq mapping'
    BY <2>2 DEF DataInv, Cited, Careful
  <2>4. QED
    BY <2>1, <2>3
<1>3. Mapped'
  <2> SUFFICES ASSUME NEW p \in Props
               PROVE  /\ p \in mapping' =>
                            /\ proposals'[p].state # "rejected"
                            /\ op'[p].state \in {"committed", "needs_attention", "abandoned"}
                            /\ op'[p].state = "needs_attention" => ~op'[p].verified
                            /\ OpenGates(p)' = {}
                      /\ store'[p] = "duplicate" => p \in mapping'
                      /\ op'[p].verified => op'[p].state \in UnderReview \cup Final
    BY DEF Mapped
  <2>1. p \in mapping' => OpenGates(p)' = {}
    BY <1>1 DEF DataInv, Cited, Mapped, Careful
  <2>2. QED
    BY <2>1 DEF Careful
<1>4. Controlled'
  <2> SUFFICES ASSUME NEW p \in Props
               PROVE  /\ proposals'[p].state = "none" =>
                            op'[p].state = "absent" /\ store'[p] = "none" /\ p \notin mapping'
                      /\ op'[p].state \in Open =>
                            /\ proposals'[p].state # "rejected"
                            /\ \A g \in OpenGates(p)' : proposals'[g].state # "rejected"
    BY DEF Controlled, Is
  <2>1. proposals'[p].state = "none" =>
            op'[p].state = "absent" /\ store'[p] = "none" /\ p \notin mapping'
    BY DEF DataInv, Controlled, Careful, Is
  <2>2. ASSUME op'[p].state \in Open
        PROVE  proposals'[p].state # "rejected"
    <3>1. CASE op[p].state \in Open
      BY <2>2, <3>1 DEF DataInv, Controlled, Careful
    <3>2. CASE p \in mapping
      BY <3>2 DEF Careful
    <3>3. QED
      BY <2>2, <3>1, <3>2 DEF Careful
  <2>3. ASSUME op'[p].state \in Open, NEW g \in OpenGates(p)'
        PROVE  proposals'[g].state # "rejected"
    <3>1. g \in OpenGates(p) /\ g \in Props
      BY <1>1 DEF OpenGates, Gates, DataInv, DataTypes, OpRecord
    <3>2. op[p].state \in Open
      BY <2>3, <3>1 DEF Careful, DataInv, Mapped
    <3>3. proposals[g].state # "rejected"
      BY <3>1, <3>2 DEF DataInv, Controlled
    <3>4. QED
      BY <2>3, <3>1, <3>3 DEF Careful
  <2>4. QED
    BY <2>1, <2>2, <2>3
<1>5. QED
  BY <1>2, <1>3, <1>4

(* Steps that leave the operations and the mapping alone.                  *)
LEMMA QuietCareful ==
    ASSUME DataInv, UNCHANGED <<op, mapping>>,
           \A q \in Props :
              /\ proposals'[q].state = proposals[q].state
              /\ store'[q] = "published" =>
                     store[q] = "published" \/ op[q].state \in Passed
              /\ store'[q] = "duplicate" => q \in mapping
              /\ proposals[q].state = "none" => store'[q] = store[q]
    PROVE  Careful
BY DEF Careful, DataInv, Mapped, Controlled, Is

(* A new state of one operation.                                           *)
LEMMA MoveCareful ==
    ASSUME DataInv, NEW p \in Props, NEW s \in OpStates,
           op' = [op EXCEPT ![p].state = s], UNCHANGED <<proposals, mapping, store>>,
           task' \in TaskRecord,
           ~Is(p, "absent"), s \in Passed => op[p].state \in Passed,
           s \in Open => op[p].state \in Open \/ p \in mapping,
           op[p].verified => s \in UnderReview \cup Final,
           p \in mapping => /\ s \in {"needs_attention", "abandoned"}
                            /\ s = "needs_attention" => ~op[p].verified
    PROVE  Careful /\ DataTypes'
<1>1. /\ op' \in [Props -> OpRecord] /\ op'[p].state = s
      /\ \A q \in Props : q # p => op'[q] = op[q]
      /\ op'[p].explicit = op[p].explicit /\ op'[p].body = op[p].body
      /\ op'[p].cited = op[p].cited /\ op'[p].version = op[p].version
      /\ op'[p].verified = op[p].verified
  BY StateSet DEF DataInv, DataTypes
<1>2. DataTypes'
  BY <1>1 DEF DataInv, DataTypes
<1>3. Careful
  BY <1>1 DEF Careful, DataInv, Mapped, Controlled, Is
<1>4. QED
  BY <1>2, <1>3

(* One transaction of a cascade.                                           *)
LEMMA CascadeCareful ==
    ASSUME DataInv, NEW roots \in SUBSET Props, NEW os \in [Props -> OpRecord],
           NEW t \in TaskRecord, Cascade(roots, os, t), UNCHANGED <<mapping, store>>,
           \A q \in Props :
              /\ os[q].explicit = op[q].explicit /\ os[q].body = op[q].body
              /\ os[q].cited = op[q].cited /\ os[q].version = op[q].version
              /\ os[q].verified = op[q].verified
              /\ \/ os[q].state = op[q].state
                 \/ q \in roots \ mapping /\ os[q].state = "rejected"
                    /\ op[q].state \in Open
    PROVE  Careful /\ DataTypes' /\ task'.final = t.final
<1>0. DataTypes
  BY DEF DataInv
<1>a. /\ op' \in [Props -> OpRecord] /\ proposals' \in [Props -> Control]
      /\ task' \in TaskRecord /\ task'.final = t.final
      /\ \A q \in Props :
            /\ op'[q].explicit = os[q].explicit /\ op'[q].body = os[q].body
            /\ op'[q].cited = os[q].cited /\ op'[q].version = os[q].version
            /\ op'[q].verified = os[q].verified
            /\ q \in Hit(roots) /\ os[q].state \in Open \cup {"rejected"} =>
                   op'[q].state = "rejected"
            /\ ~(q \in Hit(roots) /\ os[q].state \in Open \cup {"rejected"}) =>
                   op'[q] = os[q]
            /\ q \in Hit(roots) => proposals'[q].state = "rejected"
            /\ q \notin Hit(roots) => proposals'[q] = Ensured(mapping)[q]
  BY <1>0, CascadeSets, ZenonT(60)
<1> DEFINE H == Hit(roots)
<1>1. /\ op' \in [Props -> OpRecord] /\ proposals' \in [Props -> Control]
      /\ task' \in TaskRecord /\ task'.final = t.final
      /\ \A q \in Props :
            /\ op'[q].explicit = os[q].explicit /\ op'[q].body = os[q].body
            /\ op'[q].cited = os[q].cited /\ op'[q].version = os[q].version
            /\ op'[q].verified = os[q].verified
            /\ q \in H /\ os[q].state \in Open \cup {"rejected"} =>
                   op'[q].state = "rejected"
            /\ ~(q \in H /\ os[q].state \in Open \cup {"rejected"}) =>
                   op'[q] = os[q]
            /\ q \in H => proposals'[q].state = "rejected"
            /\ q \notin H => proposals'[q] = Ensured(mapping)[q]
  BY <1>a
<1>2. /\ H \subseteq Props /\ roots \subseteq H \cup mapping
      /\ \A q \in H : Dependents(q) \subseteq H
      /\ H \cap mapping = {}
  BY HitHolds DEF DataInv
<1>3. \A q \in Props : /\ q \in mapping => Ensured(mapping)[q].state = "resolved"
                       /\ q \notin mapping => Ensured(mapping)[q] = proposals[q]
  BY EnsuredSet DEF DataInv, DataTypes
<1> HIDE DEF H
<1>4. \A q \in Props : op'[q].state \in Open => op[q].state = op'[q].state /\ q \notin H
  BY <1>1, <1>2 DEF Open
<1>5. \A q \in Props : op'[q].state = op[q].state
                       \/ (op'[q].state = "rejected" /\ q \in H /\ op[q].state \in Open)
  <2> SUFFICES ASSUME NEW q \in Props
               PROVE  op'[q].state = op[q].state
                      \/ (op'[q].state = "rejected" /\ q \in H /\ op[q].state \in Open)
    OBVIOUS
  <2>1. CASE os[q].state = op[q].state
    BY <1>1, <2>1
  <2>2. CASE q \in roots \ mapping /\ os[q].state = "rejected" /\ op[q].state \in Open
    BY <1>1, <1>2, <2>2
  <2>3. QED
    BY <2>1, <2>2
<1>6. ASSUME NEW q \in Props, proposals'[q].state = "rejected", proposals[q].state # "rejected"
      PROVE  /\ op'[q].state \notin Open
             /\ \A r \in Props : q \in OpenGates(r) => op'[r].state \notin Open
  <2>1. q \in H
    BY <1>1, <1>3, <1>6
  <2>2. ASSUME NEW r \in Props, q \in OpenGates(r), op'[r].state \in Open
        PROVE  FALSE
    <3>1. ~Is(r, "committed")
      BY <1>4, <2>2 DEF Is, Open
    <3>2. r \in H
      BY <1>2, <2>1, <2>2, <3>1 DEF Dependents
    <3>3. QED
      BY <1>4, <2>2, <3>2
  <2>3. QED
    BY <1>4, <2>1, <2>2
<1>7. ASSUME NEW q \in Props, q \in mapping'
      PROVE  /\ q \in mapping /\ proposals'[q].state # "rejected"
             /\ op'[q].state \in {"committed", "needs_attention", "abandoned"}
             /\ op'[q].state = "needs_attention" => ~op'[q].verified
  <2>1. q \in mapping /\ q \notin H /\ proposals'[q].state = "resolved"
    BY <1>1, <1>2, <1>3, <1>7
  <2>2. op'[q].state = op[q].state /\ op'[q].verified = op[q].verified
    BY <1>1, <1>5, <2>1
  <2>3. QED
    BY <2>1, <2>2 DEF DataInv, Mapped
<1>8. ASSUME NEW q \in Props
      PROVE  /\ op'[q].state \in Passed => op[q].state \in Passed
             /\ op'[q].state \in Open => op[q].state \in Open
             /\ Is(q, "absent") => op'[q].state = "absent"
             /\ op'[q].verified => op'[q].state \in UnderReview \cup Final
             /\ store'[q] = "duplicate" => q \in mapping'
             /\ proposals'[q].state = "none" =>
                   proposals[q].state = "none" /\ q \notin mapping'
  <2>1. op'[q].verified = op[q].verified
    BY <1>1
  <2>2. /\ op'[q].state \in Passed => op[q].state \in Passed
        /\ op'[q].state \in Open => op[q].state \in Open
        /\ Is(q, "absent") => op'[q].state = "absent"
        /\ op'[q].verified => op'[q].state \in UnderReview \cup Final
    BY <1>5, <2>1 DEF DataInv, Mapped, Passed, Open, UnderReview, Final, Is
  <2>3. proposals'[q].state = "none" => proposals[q].state = "none" /\ q \notin mapping'
    BY <1>1, <1>3
  <2>4. store'[q] = "duplicate" => q \in mapping'
    BY DEF DataInv, Mapped
  <2>5. QED
    BY <2>2, <2>3, <2>4
<1>9. Careful
  <2>1. \A q \in Props : /\ op'[q].explicit = op[q].explicit /\ op'[q].body = op[q].body
                         /\ op'[q].cited = op[q].cited /\ op'[q].version = op[q].version
    BY <1>1
  <2>2. QED
    BY <1>6, <1>7, <1>8, <2>1 DEF Careful
<1>10. DataTypes'
  BY <1>1 DEF DataInv, DataTypes
<1>11. QED
  BY <1>1, <1>9, <1>10

(* Steps that leave the operations alone.                                  *)
QuietStep ==
    \/ ScanGates \/ AllTold \/ CloseTask \/ WorkerEnds \/ StartAttempt \/ IngestFinal \/ Stop
    \/ \E p \in Props : \/ TellStore(p) \/ Mark(p) \/ RecordDuplicate(p) \/ PublishFact(p)
                        \/ Replay(p)

(* A quiet step is careful.                                                *)
LEMMA QuietSteps ==
    ASSUME DataInv, Agenda, QuietStep
    PROVE  Careful /\ DataTypes'
<1>0. DataTypes /\ task.attempt \in 1 .. MaxAttempts /\ MaxAttempts \in Nat
  BY ProposalConstants DEF DataInv, DataTypes, TaskRecord
<1>1. CASE ScanGates \/ AllTold \/ Stop
  <2>1. UNCHANGED <<op, proposals, mapping, store, task>>
    BY <1>1 DEF ScanGates, AllTold, Stop
  <2>2. QED
    BY <1>0, <2>1, QuietCareful DEF DataTypes, DataInv, Mapped
<1>2. CASE CloseTask \/ WorkerEnds \/ StartAttempt \/ IngestFinal
  <2>1. UNCHANGED <<op, proposals, mapping, store>>
    BY <1>2 DEF CloseTask, WorkerEnds, StartAttempt, IngestFinal
  <2>2. task' \in TaskRecord
    <3>1. task \in TaskRecord
      BY <1>0 DEF DataTypes
    <3>2. CASE CloseTask
      BY <3>1, <3>2 DEF CloseTask, Closed, TaskRecord
    <3>3. CASE WorkerEnds
      BY <3>1, <3>3 DEF WorkerEnds, Interrupted, GivenUp, TaskRecord
    <3>4. CASE StartAttempt
      <4>1. task.attempt + 1 \in 1 .. MaxAttempts
        BY <1>0, <3>4 DEF StartAttempt
      <4>2. (task.repair /\ task.state = "retry_pending") \in BOOLEAN
        OBVIOUS
      <4>3. QED
        BY <3>1, <3>4, <4>1, <4>2 DEF StartAttempt, TaskRecord
    <3>5. CASE IngestFinal
      BY <3>1, <3>5 DEF IngestFinal, Received, TaskRecord
    <3>6. QED
      BY <1>2, <3>2, <3>3, <3>4, <3>5
  <2>3. QED
    BY <1>0, <2>1, <2>2, QuietCareful DEF DataTypes, DataInv, Mapped
<1>3. ASSUME NEW p \in Props, TellStore(p) PROVE Careful /\ DataTypes'
  <2>1. /\ UNCHANGED <<op, proposals, mapping, task>> /\ proposals[p].state = "rejected"
        /\ store' = [store EXCEPT ![p] = "rejected"]
    BY <1>3 DEF TellStore, Unmarked
  <2>2. QED
    BY <1>0, <2>1, QuietCareful DEF DataTypes, DataInv, Mapped
<1>4. ASSUME NEW p \in Props, Mark(p) PROVE Careful /\ DataTypes'
  <2>1. /\ UNCHANGED <<op, store, mapping, task>>
        /\ proposals' = [proposals EXCEPT ![p].marked = TRUE]
    BY <1>4 DEF Mark
  <2>2. /\ [proposals[p] EXCEPT !.marked = TRUE] \in Control
        /\ [proposals[p] EXCEPT !.marked = TRUE].state = proposals[p].state
    <3>1. proposals[p] \in Control
      BY <1>0 DEF DataTypes
    <3>2. QED
      BY <3>1 DEF Control
  <2>3. proposals' = [proposals EXCEPT ![p] = [proposals[p] EXCEPT !.marked = TRUE]]
    BY <2>1
  <2>4. /\ proposals' \in [Props -> Control]
        /\ \A q \in Props : proposals'[q].state = proposals[q].state
    BY <1>0, <2>2, <2>3 DEF DataTypes
  <2>5. QED
    BY <1>0, <2>1, <2>4, QuietCareful DEF DataTypes, DataInv, Mapped
<1>5. ASSUME NEW p \in Props, RecordDuplicate(p) PROVE Careful /\ DataTypes'
  <2>1. /\ UNCHANGED <<op, proposals, mapping, task>>
        /\ store' = [store EXCEPT ![p] = "duplicate"]
    BY <1>5 DEF RecordDuplicate
  <2>2. Fits("duplicate", p)
    BY <1>5, AtHead DEF RecordDuplicate, AtOnce
  <2>3. p \in mapping /\ proposals[p].state # "none"
    BY <2>2 DEF Fits, DataInv, Controlled
  <2>4. QED
    BY <1>0, <2>1, <2>3, QuietCareful DEF DataTypes, DataInv, Mapped
<1>6. ASSUME NEW p \in Props, PublishFact(p) PROVE Careful /\ DataTypes'
  <2>1. /\ UNCHANGED <<op, proposals, mapping, task>>
        /\ \/ store' = [store EXCEPT ![p] = "published"]
           \/ store' = [store EXCEPT ![p] = "rejected"]
    BY <1>6 DEF PublishFact
  <2>2. Fits("publish", p)
    BY <1>6, AtHead DEF PublishFact, AtOnce
  <2>3. op[p].state \in Passed /\ proposals[p].state # "none"
    BY <2>2 DEF Fits, UnderReview, Passed, DataInv, Controlled, Is
  <2>4. QED
    BY <1>0, <2>1, <2>3, QuietCareful DEF DataTypes, DataInv, Mapped
<1>7. ASSUME NEW p \in Props, Replay(p) PROVE Careful /\ DataTypes'
  <2>1. UNCHANGED <<op, proposals, mapping, store, task>>
    BY <1>7 DEF Replay
  <2>2. QED
    BY <1>0, <2>1, QuietCareful DEF DataTypes, DataInv, Mapped
<1>8. QED
  BY <1>1, <1>2, <1>3, <1>4, <1>5, <1>6, <1>7 DEF QuietStep

(* Steps that give one operation a new state.                              *)
MoveStep(p) ==
    \/ Route(p) \/ FoundNew(p) \/ FoundUnchanged(p) \/ FoundIncorrect(p)
    \/ DuplicateFails(p) \/ PublicationFails(p) \/ Abandon(p)

(* A move of one operation is careful.                                     *)
LEMMA MoveSteps ==
    ASSUME DataInv, Agenda, NEW p \in Props, MoveStep(p)
    PROVE  Careful /\ DataTypes' /\ task'.final = task.final
<1>0. DataTypes /\ Mapped /\ Cited /\ task \in TaskRecord
  BY DEF DataInv, DataTypes
<1>1. /\ task' \in TaskRecord /\ task'.final = task.final
      /\ UNCHANGED <<proposals, mapping, store>>
  BY <1>0 DEF MoveStep, Route, FoundNew, FoundUnchanged, FoundIncorrect, Refuse, SentBack,
     DuplicateFails, PublicationFails, Abandon, TaskRecord
<1>2. CASE op' = op
  <2>1. DataTypes'
    BY <1>0, <1>1, <1>2 DEF DataTypes
  <2>2. QED
    BY <1>0, <1>1, <1>2, <2>1, QuietCareful DEF Mapped
<1>3. CASE op' # op
  <2>1. PICK s \in OpStates :
           /\ op' = [op EXCEPT ![p].state = s]
           /\ \/ op[p].state = "received" /\ s = "synthesizing"
              \/ op[p].state = "synthesizing" /\ s \in {"verifying", "rejected"}
              \/ op[p].state = "verifying" /\ s = "rejected"
              \/ Fits("duplicate", p) /\ s = "needs_attention"
              \/ Fits("failed", p) /\ s = "needs_attention"
              \/ op[p].state \in Open /\ s = "abandoned"
    <3>1. CASE Route(p)
      <4>1. Is(p, "received") => OpenGates(p) = {}
        BY <1>0 DEF Cited, Passed, Is
      <4>2. Is(p, "received") /\ op' = [op EXCEPT ![p].state = "synthesizing"]
        BY <1>3, <3>1, <4>1 DEF Route
      <4>3. QED
        BY <4>2 DEF Is, OpStates, Open
    <3>2. CASE FoundNew(p) \/ FoundUnchanged(p) \/ FoundIncorrect(p) \/ Abandon(p)
      BY <3>2 DEF FoundNew, FoundUnchanged, FoundIncorrect, Abandon, Refuse, Is, OpStates,
         Open, Final
    <3>3. CASE DuplicateFails(p)
      <4>1. Fits("duplicate", p)
        BY <3>3, AtHead DEF DuplicateFails, AtOnce
      <4>2. QED
        BY <3>3, <4>1 DEF DuplicateFails, OpStates, Open
    <3>4. CASE PublicationFails(p)
      <4>1. Fits("failed", p)
        BY <3>4, AtHead DEF PublicationFails, AtOnce
      <4>2. QED
        BY <3>4, <4>1 DEF PublicationFails, OpStates, Open
    <3>5. QED
      BY <3>1, <3>2, <3>3, <3>4 DEF MoveStep
  <2>2. /\ ~Is(p, "absent") /\ s \in Passed => op[p].state \in Passed
        /\ s \in Open => op[p].state \in Open \/ p \in mapping
    BY <2>1 DEF Fits, Is, Open, Passed, UnderReview
  <2>3. /\ ~Is(p, "absent")
        /\ op[p].verified => s \in UnderReview \cup Final
    BY <1>0, <2>1 DEF Fits, Is, Open, UnderReview, Final, Mapped
  <2>4. p \in mapping => /\ s \in {"needs_attention", "abandoned"}
                         /\ s = "needs_attention" => ~op[p].verified
    BY <1>0, <2>1 DEF Fits, Is, Mapped, UnderReview
  <2>5. s \in Passed => op[p].state \in Passed
    BY <2>1 DEF Fits, Is, Open, Passed, UnderReview
  <2>6. Careful /\ DataTypes'
    BY <1>1, <2>1, <2>2, <2>3, <2>4, <2>5, MoveCareful
  <2>7. QED
    BY <1>1, <2>6
<1>4. QED
  BY <1>2, <1>3

(* Steps that refuse proposals in a cascade.                               *)
CascadeStep == Recover \/ \E p \in Props : RejectProposal(p) \/ Refused(p)

(* ... with the roots of each.                                             *)
CascadeOf(roots) ==
    /\ UNCHANGED <<mapping, store>>
    /\ \E os \in [Props -> OpRecord], t \in TaskRecord :
          /\ Cascade(roots, os, t) /\ t.final = task.final
          /\ \A q \in Props :
                /\ os[q].explicit = op[q].explicit /\ os[q].body = op[q].body
                /\ os[q].cited = op[q].cited /\ os[q].version = op[q].version
                /\ os[q].verified = op[q].verified
                /\ \/ os[q].state = op[q].state
                   \/ q \in roots \ mapping /\ os[q].state = "rejected"
                      /\ op[q].state \in Open

(* The steps that refuse are cascades from their roots.                    *)
LEMMA CascadeSteps ==
    ASSUME DataInv, Agenda
    PROVE  /\ Recover => CascadeOf(Disowned) /\ Disowned \subseteq Props
           /\ \A p \in Props : RejectProposal(p) \/ Refused(p) => CascadeOf({p})
<1>0. DataTypes /\ op \in [Props -> OpRecord] /\ task \in TaskRecord
  BY DEF DataInv, DataTypes
<1>1. ASSUME Recover PROVE CascadeOf(Disowned) /\ Disowned \subseteq Props
  <2>1. PICK t \in IF task.state = "running" THEN {Interrupted(task), GivenUp(task)}
                                             ELSE {task} : Cascade(Disowned, op, t)
    BY <1>1 DEF Recover
  <2>2. t \in TaskRecord /\ t.final = task.final
    BY <1>0, <2>1 DEF Interrupted, GivenUp, TaskRecord
  <2>3. UNCHANGED <<mapping, store>>
    BY <1>1 DEF Recover
  <2>4. CascadeOf(Disowned)
    BY <1>0, <2>1, <2>2, <2>3 DEF CascadeOf
  <2>5. QED
    BY <2>4 DEF Disowned
<1>2. ASSUME NEW p \in Props, RejectProposal(p) PROVE CascadeOf({p})
  <2>1. Cascade({p}, op, task) /\ UNCHANGED <<mapping, store>>
    BY <1>2 DEF RejectProposal
  <2>2. QED
    BY <1>0, <2>1 DEF CascadeOf
<1>3. ASSUME NEW p \in Props, Refused(p) PROVE CascadeOf({p})
  <2> DEFINE os == [op EXCEPT ![p].state = "rejected"]
  <2>1. Cascade({p}, os, task) /\ UNCHANGED <<mapping, store>>
    BY <1>3 DEF Refused
  <2>2. Fits("refused", p)
    BY <1>3, AtHead DEF Refused, AtOnce
  <2>3. p \notin mapping /\ op[p].state \in Open
    BY <2>2 DEF Fits, UnderReview, Open, DataInv, Mapped
  <2>4. /\ os \in [Props -> OpRecord] /\ os[p].state = "rejected"
        /\ \A q \in Props : q # p => os[q] = op[q]
        /\ os[p].explicit = op[p].explicit /\ os[p].body = op[p].body
        /\ os[p].cited = op[p].cited /\ os[p].version = op[p].version
        /\ os[p].verified = op[p].verified
    <3>1. "rejected" \in OpStates
      BY DEF OpStates, Final
    <3>2. os = [op EXCEPT ![p].state = "rejected"]
      OBVIOUS
    <3> HIDE DEF os
    <3>3. QED
      BY <1>0, <3>1, <3>2, StateSet
  <2> HIDE DEF os
  <2>5. \A q \in Props :
                /\ os[q].explicit = op[q].explicit /\ os[q].body = op[q].body
                /\ os[q].cited = op[q].cited /\ os[q].version = op[q].version
                /\ os[q].verified = op[q].verified
                /\ \/ os[q].state = op[q].state
                   \/ q \in {p} \ mapping /\ os[q].state = "rejected"
                      /\ op[q].state \in Open
    BY <2>3, <2>4
  <2>6. QED
    BY <1>0, <2>1, <2>4, <2>5 DEF CascadeOf
<1>4. QED
  BY <1>1, <1>2, <1>3

(* A cascade is careful.                                                   *)
LEMMA CascadesCareful ==
    ASSUME DataInv, NEW roots \in SUBSET Props, CascadeOf(roots)
    PROVE  Careful /\ DataTypes' /\ task'.final = task.final
<1>1. PICK os \in [Props -> OpRecord], t \in TaskRecord :
          /\ Cascade(roots, os, t) /\ t.final = task.final
          /\ \A q \in Props :
                /\ os[q].explicit = op[q].explicit /\ os[q].body = op[q].body
                /\ os[q].cited = op[q].cited /\ os[q].version = op[q].version
                /\ os[q].verified = op[q].verified
                /\ \/ os[q].state = op[q].state
                   \/ q \in roots \ mapping /\ os[q].state = "rejected"
                      /\ op[q].state \in Open
  BY DEF CascadeOf
<1>2. UNCHANGED <<mapping, store>>
  BY DEF CascadeOf
<1>3. QED
  BY <1>1, <1>2, CascadeCareful, ZenonT(60)

(* A Fact the verifier confirmed.                                          *)
LEMMA CorrectCareful ==
    ASSUME DataInv, NEW p \in Props, FoundCorrect(p)
    PROVE  Careful /\ DataTypes' /\ task' = task
<1>0. DataTypes /\ op[p] \in OpRecord /\ Is(p, "verifying")
  BY DEF DataInv, DataTypes, FoundCorrect
<1>1. op' = [op EXCEPT ![p].verified = TRUE] /\ UNCHANGED <<proposals, mapping, store, task>>
  BY DEF FoundCorrect
<1> DEFINE r == [op[p] EXCEPT !.verified = TRUE]
<1>2. r \in OpRecord /\ r.state = op[p].state /\ r.explicit = op[p].explicit
      /\ r.body = op[p].body /\ r.cited = op[p].cited /\ r.version = op[p].version
  BY <1>0 DEF OpRecord
<1>3. op' = [op EXCEPT ![p] = r] /\ op'[p] = r
  BY <1>0, <1>1 DEF DataTypes
<1> HIDE DEF r
<1>4. op' \in [Props -> OpRecord] /\ \A q \in Props : q # p => op'[q] = op[q]
  BY <1>0, <1>2, <1>3 DEF DataTypes
<1>5. DataTypes'
  BY <1>0, <1>1, <1>4 DEF DataTypes
<1>6. p \notin mapping
  BY <1>0 DEF DataInv, Mapped, Is
<1>7. Careful
  BY <1>0, <1>1, <1>2, <1>3, <1>4, <1>6
     DEF Careful, DataInv, Mapped, Controlled, UnderReview, Is
<1>8. QED
  BY <1>1, <1>5, <1>7

(* A Fact that is committed, as a duplicate or published.                  *)
LEMMA CommitCareful ==
    ASSUME DataInv, NEW p \in Props, op' = [op EXCEPT ![p].state = "committed"],
           mapping' = mapping \cup {p}, UNCHANGED <<store, task>>,
           proposals' = proposals \/ proposals' = Ensured(mapping'),
           op[p].state \in Open, op[p].state \in Passed
    PROVE  Careful /\ DataTypes'
<1>0. DataTypes /\ op \in [Props -> OpRecord] /\ "committed" \in OpStates
      /\ mapping' \in SUBSET Props
  BY DEF DataInv, DataTypes, OpStates, Final
<1>1. /\ op' \in [Props -> OpRecord] /\ op'[p].state = "committed"
      /\ \A q \in Props : q # p => op'[q] = op[q]
      /\ op'[p].explicit = op[p].explicit /\ op'[p].body = op[p].body
      /\ op'[p].cited = op[p].cited /\ op'[p].version = op[p].version
      /\ op'[p].verified = op[p].verified
  <2>1. PICK s \in OpStates : s = "committed" /\ op' = [op EXCEPT ![p].state = s]
    BY <1>0
  <2>2. QED
    BY <1>0, <2>1, StateSet
<1>2. /\ proposals' \in [Props -> Control]
      /\ \A q \in Props :
            /\ q \notin mapping' => proposals'[q] = proposals[q]
            /\ q \in mapping' => proposals'[q].state \in {"resolved", proposals[q].state}
  <2>1. CASE proposals' = proposals
    BY <1>0, <2>1 DEF DataTypes
  <2>2. CASE proposals' = Ensured(mapping')
    BY <1>0, <2>2, EnsuredSet DEF DataTypes
  <2>3. QED
    BY <2>1, <2>2
<1>3. DataTypes'
  BY <1>0, <1>1, <1>2 DEF DataTypes
<1>4. /\ proposals[p].state \notin {"none", "rejected"}
      /\ \A q \in mapping : proposals[q].state \notin {"none", "rejected"}
  BY <1>0 DEF DataInv, Controlled, Mapped, Is, Open, DataTypes
<1>5. ASSUME NEW q \in Props
      PROVE  /\ proposals'[q].state = "none" => proposals[q].state = "none" /\ q \notin mapping'
             /\ proposals'[q].state = "rejected" =>
                    proposals[q].state = "rejected" /\ q \notin mapping'
  BY <1>2, <1>4
<1>6. ASSUME NEW q \in Props
      PROVE  /\ op'[q].state \in Passed => op[q].state \in Passed
             /\ op'[q].state \in Open => op[q].state \in Open
             /\ Is(q, "absent") => op'[q].state = "absent"
             /\ op'[q].verified => op'[q].state \in UnderReview \cup Final
             /\ q \in mapping' =>
                   /\ q \in mapping \/ op[q].state \in Passed
                   /\ op'[q].state \in {"committed", "needs_attention", "abandoned"}
                   /\ op'[q].state = "needs_attention" => ~op'[q].verified
  <2>1. CASE q = p
    BY <1>1, <2>1 DEF Is, Open, Final
  <2>2. CASE q # p
    BY <1>1, <2>2 DEF DataInv, Mapped, Is
  <2>3. QED
    BY <2>1, <2>2
<1>7. \A q \in Props : /\ op'[q].explicit = op[q].explicit /\ op'[q].body = op[q].body
                       /\ op'[q].cited = op[q].cited /\ op'[q].version = op[q].version
  BY <1>1
<1>8. Careful
  BY <1>5, <1>6, <1>7 DEF Careful, DataInv, Mapped
<1>9. QED
  BY <1>3, <1>8

(* Committing a proposal is careful: it has passed its gates.              *)
LEMMA CommitSteps ==
    ASSUME DataInv, Agenda, NEW p \in Props, FoundDuplicate(p) \/ FactPublished(p)
    PROVE  /\ Careful /\ DataTypes' /\ task' = task
           /\ op[p].state \in Open \ {"waiting_predecessors"}
<1>1. CASE FoundDuplicate(p)
  BY <1>1, CommitCareful DEF FoundDuplicate, Is, Open, Passed
<1>2. CASE FactPublished(p)
  <2>1. Fits("published", p)
    BY <1>2, AtHead DEF FactPublished, AtOnce
  <2>2. op[p].state \in Open \ {"waiting_predecessors"} /\ op[p].state \in Passed
    BY <2>1 DEF Fits, UnderReview, Open, Passed
  <2>3. QED
    BY <1>2, <2>2, CommitCareful DEF FactPublished
<1>3. QED
  BY <1>1, <1>2

(* A resolution, operation by operation.                                   *)
LEMMA ReleasedSet ==
    ASSUME DataInv, NEW g \in mapping, NEW p \in Props
    PROVE  LET r == Released(g, p)
           IN  /\ r \in OpRecord /\ r.body = op[p].body /\ r.cited = op[p].cited
               /\ r.explicit \in {op[p].explicit, op[p].explicit \ {g}}
               /\ r.version + Cardinality(r.explicit) <= MaxGates + 1
               /\ r.verified = op[p].verified
               /\ \/ r.state = op[p].state
                  \/ /\ op[p].state = "waiting_predecessors" /\ r.state = "received"
                     /\ OpenGates(p) = {}
<1> DEFINE o == op[p]
           next == [o EXCEPT !.explicit = @ \ {g},
                             !.version = IF g \in o.explicit THEN @ + 1 ELSE @]
           last == [next EXCEPT !.state = IF Gates(next, mapping \cup {g}) = {}
                                          THEN "received" ELSE @]
<1>1. /\ o \in OpRecord /\ o.version + Cardinality(o.explicit) <= MaxGates + 1
      /\ MaxGates \in Nat /\ o.version \in 0 .. MaxGates + 1 /\ o.explicit \in SUBSET Props
  BY ProposalConstants DEF DataInv, DataTypes, Cited, OpRecord
<1>2. IsFiniteSet(o.explicit) /\ Cardinality(o.explicit) \in Nat
  <2>1. IsFiniteSet(Props)
    BY ProposalConstants, FS_Interval DEF Props
  <2>2. QED
    BY <1>1, <2>1, FS_Subset, FS_CardinalityType
<1>3. Released(g, p) = IF o.state = "waiting_predecessors" /\ g \in o.explicit \cup o.body
                       THEN last ELSE o
  BY DEF Released
<1>4. CASE o.state = "waiting_predecessors" /\ g \in o.explicit \cup o.body
  <2> DEFINE v == IF g \in o.explicit THEN o.version + 1 ELSE o.version
             x == o.explicit \ {g}
  <2>1. v \in Nat /\ v + Cardinality(x) <= MaxGates + 1 /\ v \in 0 .. MaxGates + 1
    <3>1. CASE g \in o.explicit
      <4>1. Cardinality(x) = Cardinality(o.explicit) - 1 /\ Cardinality(x) \in Nat
        BY <1>2, <3>1, FS_RemoveElement, FS_CardinalityType
      <4>2. v = o.version + 1
        BY <3>1
      <4> HIDE DEF v, x, o
      <4>3. QED
        BY <1>1, <1>2, <4>1, <4>2
    <3>2. CASE g \notin o.explicit
      <4>1. x = o.explicit /\ v = o.version
        BY <3>2
      <4> HIDE DEF v, x, o
      <4>2. QED
        BY <1>1, <1>2, <4>1
    <3>3. QED
      BY <3>1, <3>2
  <2> HIDE DEF v, x
  <2>2. /\ next \in OpRecord /\ next.version = v /\ next.explicit = x /\ next.state = o.state
        /\ next.body = o.body /\ next.cited = o.cited /\ next.verified = o.verified
    <3>1. next = [o EXCEPT !.explicit = x, !.version = v]
      BY DEF v, x
    <3>2. x \in SUBSET Props
      BY <1>1 DEF x
    <3>3. QED
      BY <1>1, <2>1, <3>1, <3>2 DEF OpRecord
  <2>3. Gates(next, mapping \cup {g}) = OpenGates(p)
    BY <2>2 DEF Gates, OpenGates, x
  <2> HIDE DEF next
  <2>4. /\ last \in OpRecord /\ last.version = v /\ last.explicit = x
        /\ last.body = o.body /\ last.cited = o.cited /\ last.verified = o.verified
        /\ last.state = IF OpenGates(p) = {} THEN "received" ELSE o.state
    <3>1. last = [next EXCEPT !.state = IF OpenGates(p) = {} THEN "received" ELSE next.state]
      BY <2>3
    <3>2. "received" \in {"absent"} \cup Open \cup Final
      BY DEF Open
    <3> HIDE DEF last
    <3>3. QED
      BY <2>2, <3>1, <3>2 DEF OpRecord
  <2> HIDE DEF last
  <2>5. QED
    BY <1>3, <1>4, <2>1, <2>4 DEF x
<1>5. CASE ~(o.state = "waiting_predecessors" /\ g \in o.explicit \cup o.body)
  BY <1>1, <1>3, <1>5
<1>6. QED
  BY <1>4, <1>5

(* What is resolved stands for a Fact already.                             *)
LEMMA ResolvesMapped ==
    ASSUME DataInv, Agenda, NEW g, Step("resolve", g)
    PROVE  g \in mapping
<1>1. agenda \in Seq(AgendaSteps) /\ agenda # << >>
      /\ Head(agenda)[1] = "resolve" /\ g \in Head(agenda)[2]
  BY DEF Agenda, Step
<1>2. g \in Aims(agenda, "resolve")
  BY <1>1, FirstStep
<1>3. QED
  BY <1>2 DEF Agenda

(* What resolving a gate changes: the control record, and what waited.     *)
LEMMA ResolveKeeps ==
    ASSUME DataInv, Agenda, NEW g \in Props, ResolveGate(g)
    PROVE  /\ DataInv' /\ task' = task /\ mapping' = mapping
           /\ \A p \in Props :
                 /\ OpenGates(p)' = OpenGates(p)
                 /\ \/ op'[p].state = op[p].state
                    \/ op[p].state = "waiting_predecessors" /\ op'[p].state = "received"
                 /\ p \notin mapping => proposals'[p] = proposals[p]
                 /\ p \in mapping => proposals'[p].state = "resolved"
                 /\ proposals'[p].marked = proposals[p].marked
<1>0. DataTypes /\ g \in mapping
  BY ResolvesMapped DEF DataInv, ResolveGate
<1>1. /\ mapping' = mapping /\ UNCHANGED <<store, task>>
      /\ proposals' = Ensured(mapping) /\ op' = [p \in Props |-> Released(g, p)]
  <2>1. mapping' = mapping \cup {g} /\ proposals' = Ensured(mapping')
    BY DEF ResolveGate
  <2>2. mapping' = mapping
    BY <1>0, <2>1
  <2>3. QED
    BY <2>1, <2>2 DEF ResolveGate
<1>2. \A p \in Props :
         /\ op'[p] \in OpRecord /\ op'[p].body = op[p].body /\ op'[p].cited = op[p].cited
         /\ op'[p].explicit \in {op[p].explicit, op[p].explicit \ {g}}
         /\ op'[p].version + Cardinality(op'[p].explicit) <= MaxGates + 1
         /\ op'[p].verified = op[p].verified
         /\ \/ op'[p].state = op[p].state
            \/ /\ op[p].state = "waiting_predecessors" /\ op'[p].state = "received"
               /\ OpenGates(p) = {}
  BY <1>0, <1>1, ReleasedSet
<1>3. /\ proposals' \in [Props -> Control]
      /\ \A p \in Props :
            /\ p \notin mapping => proposals'[p] = proposals[p]
            /\ p \in mapping => proposals'[p].state = "resolved"
            /\ proposals'[p].marked = proposals[p].marked
  BY <1>0, <1>1, EnsuredSet DEF DataTypes
<1>4. DataTypes'
  BY <1>0, <1>1, <1>2, <1>3 DEF DataTypes
<1>5. \A p \in Props : OpenGates(p)' = OpenGates(p)
  BY <1>0, <1>1, <1>2 DEF OpenGates, Gates
<1>6. Cited'
  <2> SUFFICES ASSUME NEW p \in Props
               PROVE  /\ op'[p].cited \subseteq op'[p].explicit \cup op'[p].body \cup mapping'
                      /\ op'[p].state \in Passed => OpenGates(p)' = {}
                      /\ store'[p] = "published" => op'[p].cited \subseteq mapping'
                      /\ op'[p].version + Cardinality(op'[p].explicit) <= MaxGates + 1
    BY DEF Cited
  <2>1. op'[p].cited \subseteq op'[p].explicit \cup op'[p].body \cup mapping'
    BY <1>0, <1>1, <1>2 DEF DataInv, Cited
  <2>2. op'[p].state \in Passed => OpenGates(p)' = {}
    BY <1>2, <1>5 DEF DataInv, Cited, Passed
  <2>3. QED
    BY <1>1, <1>2, <2>1, <2>2 DEF DataInv, Cited
<1>7. Mapped'
  <2>1. ASSUME NEW p \in Props
        PROVE  /\ p \in mapping' =>
                     /\ proposals'[p].state # "rejected"
                     /\ op'[p].state \in {"committed", "needs_attention", "abandoned"}
                     /\ op'[p].state = "needs_attention" => ~op'[p].verified
                     /\ OpenGates(p)' = {}
               /\ store'[p] = "duplicate" => p \in mapping'
               /\ op'[p].verified => op'[p].state \in UnderReview \cup Final
    <3>1. /\ op'[p].verified = op[p].verified /\ OpenGates(p)' = OpenGates(p)
          /\ p \in mapping => proposals'[p].state = "resolved"
          /\ \/ op'[p].state = op[p].state
             \/ op[p].state = "waiting_predecessors"
      BY <1>2, <1>3, <1>5
    <3>2. "waiting_predecessors" \notin UnderReview \cup Final
      BY DEF UnderReview, Final
    <3>3. QED
      BY <1>1, <3>1, <3>2 DEF DataInv, Mapped
  <2>2. QED
    BY <2>1 DEF Mapped
<1>8. Controlled'
  <2>1. \A p \in Props : OpenGates(p) \subseteq Props
    BY <1>0 DEF DataTypes, OpRecord, OpenGates, Gates
  <2>2. \A p \in Props : proposals'[p].state = "rejected" => proposals[p].state = "rejected"
    BY <1>3
  <2>3. \A p \in Props : op'[p].state \in Open => op[p].state \in Open
    BY <1>2 DEF Open
  <2>4. ASSUME NEW p \in Props, op'[p].state \in Open
        PROVE  /\ proposals'[p].state # "rejected"
               /\ \A h \in OpenGates(p)' : proposals'[h].state # "rejected"
    BY <1>5, <2>1, <2>2, <2>3, <2>4 DEF DataInv, Controlled
  <2>5. ASSUME NEW p \in Props, proposals'[p].state = "none"
        PROVE  op'[p].state = "absent" /\ store'[p] = "none" /\ p \notin mapping'
    BY <1>1, <1>2, <1>3, <2>5 DEF DataInv, Controlled, Is
  <2>6. QED
    BY <2>4, <2>5 DEF Controlled, Is
<1>9. QED
  BY <1>1, <1>2, <1>3, <1>4, <1>5, <1>6, <1>7, <1>8 DEF DataInv

(* A declaration: the new operation and what holds it back.                *)
LEMMA InitializedSet ==
    ASSUME DataInv, NEW p \in Props, NEW explicit \in SUBSET Props, NEW body \in SUBSET Props,
           Cardinality(explicit) \in Nat, Cardinality(explicit) <= MaxGates
    PROVE  LET r == Initialized(p, explicit, body)
           IN  /\ r \in OpRecord /\ r.explicit = explicit /\ r.body = body
               /\ r.cited = explicit \cup body /\ r.version = 1 /\ ~r.verified
               /\ r.state \in {"rejected", "waiting_predecessors", "received"}
               /\ r.state # "rejected" =>
                      \A g \in explicit \cup body : g # p /\ proposals[g].state # "rejected"
               /\ r.state = "received" => (explicit \cup body) \ mapping = {}
<1> DEFINE gates == explicit \cup body
           o == [NoOperation EXCEPT !.version = 1, !.attempt = task.attempt,
                                    !.explicit = explicit, !.body = body, !.cited = gates]
           barred == p \in gates \/ \E g \in gates : proposals[g].state = "rejected"
           s == IF barred THEN "rejected"
                ELSE IF explicit # {} \/ Gates(o, mapping) # {}
                THEN "waiting_predecessors" ELSE "received"
           r == [o EXCEPT !.state = s]
<1>1. r = Initialized(p, explicit, body)
  BY DEF Initialized
<1>2. /\ task.attempt \in 0 .. MaxAttempts /\ 1 \in 0 .. MaxGates + 1
      /\ 0 \in 0 .. MaxAttempts /\ 0 \in 0 .. MaxGates + 1
  <2>1. task \in TaskRecord /\ MaxGates \in Nat /\ MaxAttempts \in Nat
    BY ProposalConstants DEF DataInv, DataTypes
  <2>2. task.attempt \in 1 .. MaxAttempts
    BY <2>1 DEF TaskRecord
  <2>3. QED
    BY <2>1, <2>2
<1>3. NoOperation \in OpRecord /\ NoOperation.verified = FALSE
  BY <1>2 DEF NoOperation, OpRecord
<1>4. /\ o \in OpRecord /\ o.version = 1 /\ o.explicit = explicit /\ o.body = body
      /\ o.cited = gates /\ ~o.verified
  <2>1. gates \in SUBSET Props
    OBVIOUS
  <2>2. PICK n \in OpRecord, c \in SUBSET Props : n = NoOperation /\ c = gates
    BY <1>3, <2>1
  <2>3. o = [n EXCEPT !.version = 1, !.attempt = task.attempt,
                      !.explicit = explicit, !.body = body, !.cited = c]
    BY <2>2
  <2> HIDE DEF gates, o
  <2>4. /\ o \in OpRecord /\ o.version = 1 /\ o.explicit = explicit /\ o.body = body
        /\ o.cited = c /\ o.verified = n.verified
    BY <1>2, <2>2, <2>3 DEF OpRecord
  <2>5. QED
    BY <1>3, <2>2, <2>4
<1> HIDE DEF o
<1>5. Gates(o, mapping) = gates \ mapping
  BY <1>4 DEF Gates
<1>6. /\ s \in {"rejected", "waiting_predecessors", "received"}
      /\ s # "rejected" => ~barred
      /\ s = "received" => gates \ mapping = {}
  BY <1>5
<1>7. s \in {"absent"} \cup Open \cup Final
  BY <1>6 DEF Open, Final
<1>8. r \in OpRecord /\ r.explicit = explicit /\ r.body = body /\ r.cited = gates
      /\ r.version = 1 /\ ~r.verified /\ r.state = s
  <2> HIDE DEF s
  <2>1. QED
    BY <1>4, <1>7 DEF OpRecord
<1>9. QED
  <2> HIDE DEF s, r
  <2>1. QED
    BY <1>1, <1>6, <1>8

(* What ingesting a declaration changes: one operation and its record.     *)
LEMMA IngestKeeps ==
    ASSUME DataInv, NEW p \in Props, NEW explicit \in SUBSET Props, NEW body \in SUBSET Props,
           Cardinality(explicit) \in Nat, Cardinality(explicit) <= MaxGates,
           NEW final \in BOOLEAN, IngestFact(p, explicit, body, final)
    PROVE  /\ DataInv' /\ mapping' = mapping /\ task'.final = final
           /\ \A q \in Props : q # p => op'[q] = op[q] /\ proposals'[q] = proposals[q]
           /\ proposals'[p].state = "pending"
           /\ op'[p] = Initialized(p, explicit, body)
<1>0. DataTypes /\ proposals[p].state = "none"
  BY DEF DataInv, IngestFact, Fresh
<1>1. Is(p, "absent") /\ store[p] = "none" /\ p \notin mapping
  BY <1>0 DEF DataInv, Controlled
<1> DEFINE r == Initialized(p, explicit, body)
<1>2. /\ op' = [op EXCEPT ![p] = r] /\ proposals' = [proposals EXCEPT ![p].state = "pending"]
      /\ task' = Received(final) /\ UNCHANGED <<mapping, store>>
  BY DEF IngestFact
<1>3. /\ r \in OpRecord /\ r.explicit = explicit /\ r.body = body
      /\ r.cited = explicit \cup body /\ r.version = 1 /\ ~r.verified
      /\ r.state \in {"rejected", "waiting_predecessors", "received"}
      /\ r.state # "rejected" =>
             \A g \in explicit \cup body : g # p /\ proposals[g].state # "rejected"
      /\ r.state = "received" => (explicit \cup body) \ mapping = {}
  BY InitializedSet
<1> HIDE DEF r
<1>4. op' \in [Props -> OpRecord] /\ op'[p] = r /\ \A q \in Props : q # p => op'[q] = op[q]
  BY <1>0, <1>2, <1>3 DEF DataTypes
<1>5. /\ proposals' \in [Props -> Control] /\ proposals'[p].state = "pending"
      /\ \A q \in Props : q # p => proposals'[q] = proposals[q]
  <2>1. /\ [proposals[p] EXCEPT !.state = "pending"] \in Control
        /\ [proposals[p] EXCEPT !.state = "pending"].state = "pending"
    <3>1. proposals[p] \in Control
      BY <1>0 DEF DataTypes
    <3>2. QED
      BY <3>1 DEF Control
  <2>2. proposals' = [proposals EXCEPT ![p] = [proposals[p] EXCEPT !.state = "pending"]]
    BY <1>2
  <2>3. QED
    BY <1>0, <2>1, <2>2 DEF DataTypes
<1>6. task' \in TaskRecord /\ task'.final = final
  BY <1>0, <1>2 DEF DataTypes, TaskRecord, Received
<1>7. DataTypes'
  BY <1>0, <1>2, <1>4, <1>5, <1>6 DEF DataTypes
<1>8. OpenGates(p)' = (explicit \cup body) \ mapping
      /\ \A q \in Props : q # p => OpenGates(q)' = OpenGates(q)
  BY <1>2, <1>3, <1>4 DEF OpenGates, Gates
<1>9. Cited'
  <2>1. ASSUME NEW q \in Props
        PROVE  /\ op'[q].cited \subseteq op'[q].explicit \cup op'[q].body \cup mapping'
               /\ op'[q].state \in Passed => OpenGates(q)' = {}
               /\ store'[q] = "published" => op'[q].cited \subseteq mapping'
               /\ op'[q].version + Cardinality(op'[q].explicit) <= MaxGates + 1
    <3>1. CASE q = p
      <4>1. 1 + Cardinality(explicit) <= MaxGates + 1
        BY ProposalConstants
      <4>2. r.version + Cardinality(r.explicit) <= MaxGates + 1
        BY <1>3, <4>1
      <4>3. QED
        BY <1>1, <1>2, <1>3, <1>4, <1>8, <3>1, <4>2 DEF Passed
    <3>2. CASE q # p
      BY <1>2, <1>4, <1>8, <3>2 DEF DataInv, Cited
    <3>3. QED
      BY <3>1, <3>2
  <2>2. QED
    BY <2>1 DEF Cited
<1>10. Mapped'
  BY <1>1, <1>2, <1>3, <1>4, <1>5, <1>8 DEF DataInv, Mapped
<1>11. Controlled'
  <2>1. ASSUME NEW q \in Props, op'[q].state \in Open
        PROVE  /\ proposals'[q].state # "rejected"
               /\ \A g \in OpenGates(q)' : proposals'[g].state # "rejected"
    <3>1. CASE q = p
      BY <1>3, <1>4, <1>5, <1>8, <2>1, <3>1 DEF Open
    <3>2. CASE q # p
      <4>1. OpenGates(q) \subseteq Props
        BY <1>0 DEF DataTypes, OpRecord, OpenGates, Gates
      <4>2. QED
        BY <1>4, <1>5, <1>8, <2>1, <3>2, <4>1 DEF DataInv, Controlled
    <3>3. QED
      BY <3>1, <3>2
  <2>2. ASSUME NEW q \in Props, proposals'[q].state = "none"
        PROVE  op'[q].state = "absent" /\ store'[q] = "none" /\ q \notin mapping'
    BY <1>2, <1>4, <1>5, <2>2 DEF DataInv, Controlled, Is
  <2>3. QED
    BY <2>1, <2>2 DEF Controlled, Is
<1>12. QED
  BY <1>2, <1>4, <1>5, <1>6, <1>7, <1>9, <1>10, <1>11 DEF DataInv, r

(* The steps of the specification, by what they do to the data.            *)
DeclareStep(p, explicit, body, final) ==
    /\ Cardinality(explicit) \in Nat /\ Cardinality(explicit) <= MaxGates
    /\ IngestFact(p, explicit, body, final)

(* Every step is of one of these kinds.                                    *)
LEMMA StepKinds ==
    ASSUME ProposalNext
    PROVE  \/ QuietStep \/ CascadeStep
           \/ \E p \in Props : \/ MoveStep(p) \/ FoundCorrect(p) \/ FoundDuplicate(p)
                               \/ FactPublished(p) \/ ResolveGate(p)
           \/ \E p \in Props, explicit \in SUBSET Props, body \in SUBSET Props,
                 final \in BOOLEAN : DeclareStep(p, explicit, body, final)
<1>1. CASE Ingest
  <2>1. CASE IngestFinal
    BY <2>1 DEF QuietStep
  <2>2. ASSUME NEW p \in Props, NEW gates \in SUBSET Props, NEW final \in BOOLEAN,
               Cardinality(gates) <= MaxGates, NEW body \in SUBSET gates,
               IngestFact(p, gates \ body, body, final)
        PROVE  DeclareStep(p, gates \ body, body, final)
    <3>1. IsFiniteSet(Props)
      BY ProposalConstants, FS_Interval DEF Props
    <3>2. IsFiniteSet(gates)
      BY <3>1, FS_Subset
    <3>3. /\ IsFiniteSet(gates \ body) /\ Cardinality(gates \ body) <= Cardinality(gates)
          /\ Cardinality(gates) \in Nat
      BY <3>2, FS_Subset, FS_CardinalityType
    <3>4. Cardinality(gates \ body) \in Nat
      BY <3>3, FS_CardinalityType
    <3>5. MaxGates \in Nat
      BY ProposalConstants
    <3>6. QED
      BY <2>2, <3>3, <3>4, <3>5 DEF DeclareStep
  <2>3. ASSUME NEW p \in Props, NEW gates \in SUBSET Props, NEW final \in BOOLEAN,
               Cardinality(gates) <= MaxGates, NEW body \in SUBSET gates,
               IngestFact(p, gates \ body, body, final)
        PROVE  \E q \in Props, explicit \in SUBSET Props, b \in SUBSET Props,
                  f \in BOOLEAN : DeclareStep(q, explicit, b, f)
    <3>1. gates \ body \in SUBSET Props /\ body \in SUBSET Props
      OBVIOUS
    <3>2. QED
      BY <2>2, <2>3, <3>1
  <2>4. QED
    BY <1>1, <2>1, <2>3 DEF Ingest
<1>2. CASE TailStep
  BY <1>2 DEF TailStep, QuietStep, CascadeStep, MoveStep
<1>3. CASE WorkerEnds \/ StartAttempt \/ Stop
  BY <1>3 DEF QuietStep
<1>4. CASE Recover
  BY <1>4 DEF CascadeStep
<1>5. CASE \E p \in Props : ReviewProposal(p) \/ Abandon(p)
  BY <1>5 DEF ReviewProposal, MoveStep
<1>6. QED
  BY <1>1, <1>2, <1>3, <1>4, <1>5 DEF ProposalNext

(* No step breaks what is known of the data.                               *)
LEMMA DataKept ==
    ASSUME DataInv, Agenda, ProposalNext
    PROVE  DataInv'
<1>1. CASE Careful /\ DataTypes'
  BY <1>1, CarefulKeeps DEF DataInv
<1>2. CASE QuietStep
  BY <1>1, <1>2, QuietSteps
<1>3. CASE CascadeStep
  BY <1>1, <1>3, CascadeSteps, CascadesCareful DEF CascadeStep
<1>4. ASSUME NEW p \in Props, MoveStep(p) PROVE DataInv'
  BY <1>1, <1>4, MoveSteps
<1>5. ASSUME NEW p \in Props, FoundCorrect(p) PROVE DataInv'
  BY <1>1, <1>5, CorrectCareful
<1>6. ASSUME NEW p \in Props, FoundDuplicate(p) \/ FactPublished(p) PROVE DataInv'
  BY <1>1, <1>6, CommitSteps
<1>7. ASSUME NEW p \in Props, ResolveGate(p) PROVE DataInv'
  BY <1>7, ResolveKeeps
<1>8. ASSUME NEW p \in Props, NEW explicit \in SUBSET Props, NEW body \in SUBSET Props,
             NEW final \in BOOLEAN, DeclareStep(p, explicit, body, final)
      PROVE  DataInv'
  BY <1>8, IngestKeeps DEF DeclareStep
<1>9. QED
  BY <1>2, <1>3, <1>4, <1>5, <1>6, <1>7, <1>8, StepKinds

(***************************************************************************)
(* What the steps do to the agenda.                                        *)
(***************************************************************************)
(* Two plain series are plain together.                                    *)
LEMMA PlainJoined ==
    ASSUME NEW a, NEW b, Plain(a), Plain(b)
    PROVE  Plain(a \o b)
BY JoinedSteps DEF Plain

(* What two plain series hold together.                                    *)
LEMMA JoinedPlain ==
    ASSUME NEW a, NEW b, Plain(a), Plain(b)
    PROVE  /\ Plain(a \o b)
           /\ \A n : Aims(a \o b, n) = Aims(a, n) \cup Aims(b, n)
           /\ \A n : Holds(a, n) \/ Holds(b, n) => Holds(a \o b, n)
<1>1. a \in Seq(AgendaSteps) /\ b \in Seq(AgendaSteps)
  BY DEF Plain
<1>2. QED
  BY <1>1, PlainJoined, JoinedSteps

(* The plain series the methods plan.                                      *)
LEMMA PlainParts ==
    /\ Plain(<< >>) /\ Plain(Markers) /\ Plain(Terminalize) /\ Plain(FinalScan)
    /\ \A t : Plain(Close(t))
    /\ \A n \in StepNames \ AtOnce, S \in SUBSET Props : Plain(Do(n, S))
<1>1. Plain(<< >>)
  BY NoStep DEF Plain
<1>2. Plain(Markers) /\ Plain(Terminalize)
  BY PlainSteps DEF Plain, AtOnce
<1>3. \A t : Plain(Close(t))
  BY CloseSteps DEF Plain, AtOnce
<1>4. \A n \in StepNames \ AtOnce, S \in SUBSET Props : Plain(Do(n, S))
  BY DoSteps DEF Plain
<1>5. QED
  BY <1>1, <1>2, <1>3, <1>4 DEF FinalScan

(* The names of the steps that are not taken at once.                      *)
LEMMA NamesOfSteps ==
    /\ {"route", "resolve", "reject", "markers", "terminalize", "close", "replay"}
           = StepNames \ AtOnce
    /\ AtOnce \subseteq StepNames
BY DEF StepNames, AtOnce

(* A plain agenda that resolves Facts only is an agenda.                   *)
LEMMA PlainAgenda ==
    ASSUME Plain(agenda'), Aims(agenda', "resolve") \subseteq mapping'
    PROVE  Agenda'
BY DEF Agenda, Planned, Plain

(* The parts of a step.                                                    *)
LEMMA NameOfStep ==
    ASSUME NEW n, NEW S PROVE <<n, S>>[1] = n /\ <<n, S>>[2] = S
OBVIOUS

(* A step that is taken at once, before a plain rest.                      *)
LEMMA FirstAgenda ==
    ASSUME NEW n \in AtOnce, NEW p \in Props, NEW b, NEW c, Plain(b), Plain(c),
           agenda' = Do(n, {p}) \o b \o c, Fits(n, p)',
           Aims(b, "resolve") \subseteq mapping', Aims(c, "resolve") \subseteq mapping'
    PROVE  Agenda'
<1>1. b \in Seq(AgendaSteps) /\ c \in Seq(AgendaSteps) /\ n \in StepNames
  BY NamesOfSteps DEF Plain
<1>2. /\ agenda' \in Seq(AgendaSteps) /\ agenda' # << >> /\ Head(agenda') = <<n, {p}>>
      /\ Tail(agenda') = b \o c
  <2> DEFINE a == Do(n, {p}) \o b \o c
  <2>1. /\ a \in Seq(AgendaSteps) /\ a # << >> /\ Head(a) = <<n, {p}>>
        /\ Tail(a) = b \o c
    BY <1>1, PutFirst
  <2> HIDE DEF a
  <2>2. agenda' = a
    BY DEF a
  <2>3. QED
    BY <2>1, <2>2
<1>3. Plain(b \o c) /\ Aims(b \o c, "resolve") \subseteq mapping'
  <2>1. Plain(b \o c)
    BY PlainJoined
  <2>2. Aims(b \o c, "resolve") = Aims(b, "resolve") \cup Aims(c, "resolve")
    BY <1>1, JoinedSteps
  <2>3. QED
    BY <2>1, <2>2
<1>4. Head(agenda')[1] # "resolve"
  <2>1. Head(agenda')[1] = <<n, {p}>>[1]
    BY <1>2
  <2>2. Head(agenda')[1] = n
    BY <2>1, NameOfStep
  <2>3. n # "resolve"
    BY DEF AtOnce
  <2>4. QED
    BY <2>2, <2>3
<1>5. Aims(agenda', "resolve") \subseteq mapping'
  <2>1. PICK a : a = agenda'
    OBVIOUS
  <2>2. Aims(a, "resolve") = (IF Head(a)[1] = "resolve" THEN Head(a)[2] ELSE {})
                                \cup Aims(Tail(a), "resolve")
    BY <1>2, <2>1, FirstStep
  <2>3. QED
    BY <1>2, <1>3, <1>4, <2>1, <2>2
<1>6. QED
  BY <1>2, <1>3, <1>5 DEF Agenda, Planned

(* What is left when the next step was taken.                              *)
LEMMA RestPlain ==
    ASSUME Agenda, agenda # << >>
    PROVE  /\ Plain(Rest) /\ Aims(Rest, "resolve") \subseteq mapping
           /\ Head(agenda)[1] \notin AtOnce => Plain(agenda)
<1>1. /\ agenda \in Seq(AgendaSteps) /\ Rest \in Seq(AgendaSteps)
      /\ \A n : Holds(Rest, n) => Holds(agenda, n)
      /\ Aims(Rest, "resolve") \subseteq Aims(agenda, "resolve")
  BY FirstStep DEF Agenda, Rest
<1>2. Plain(agenda) => Plain(Rest)
  BY <1>1 DEF Plain
<1>3. Plain(Rest)
  BY <1>2 DEF Agenda, Planned, Rest
<1>4. Head(agenda)[1] \notin AtOnce => Plain(agenda)
  BY DEF Agenda, Planned
<1>5. QED
  BY <1>1, <1>3, <1>4 DEF Agenda

(* A method that goes on plainly.                                          *)
LEMMA ThenPlain ==
    ASSUME Agenda, NEW n, NEW p, Step(n, p), NEW b, Plain(b), Then(p, b),
           Aims(b, "resolve") \subseteq mapping', mapping \subseteq mapping'
    PROVE  Agenda'
<1>1. b \in Seq(AgendaSteps)
  BY DEF Plain
<1>2. /\ agenda' \in Seq(AgendaSteps)
      /\ \A m : Holds(agenda', m) =>
             Holds(b, m) \/ Holds(Rest, m) \/ (m = n /\ n \notin AtOnce)
      /\ Aims(agenda', "resolve") \subseteq
             Aims(b, "resolve") \cup Aims(agenda, "resolve")
  BY <1>1, AfterStep
<1>3. Plain(Rest)
  BY AtHead
<1>4. Plain(agenda')
  BY <1>2, <1>3 DEF Plain
<1>5. Aims(agenda', "resolve") \subseteq mapping'
  BY <1>2 DEF Agenda
<1>6. QED
  BY <1>4, <1>5, PlainAgenda

(* ... and one that goes on with a step at once.                           *)
LEMMA ThenFirst ==
    ASSUME Agenda, NEW n, NEW p, Step(n, p), NEW m \in AtOnce, NEW q \in Props,
           Then(p, Do(m, {q})), Fits(m, q)', mapping \subseteq mapping'
    PROVE  Agenda'
<1>1. /\ Plain(Rest) /\ n \in StepNames /\ Head(agenda)[2] \subseteq Props
      /\ n \in AtOnce => Head(agenda)[2] = {p}
  BY AtHead
<1>2. Aims(Rest, "resolve") \subseteq mapping
  BY RestPlain DEF Step
<1> DEFINE S == Head(agenda)[2] \ {p}
           b == Do(n, S)
<1>3. agenda' = Do(m, {q}) \o b \o Rest
  BY DEF Then, Step
<1>4. Plain(b) /\ Aims(b, "resolve") \subseteq mapping
  <2>1. CASE n \in AtOnce
    <3>1. b = << >>
      BY <1>1, <2>1 DEF Do
    <3>2. QED
      BY <3>1, PlainParts, NoStep
  <2>2. CASE n \notin AtOnce
    <3>1. S \in SUBSET Props
      BY <1>1
    <3>2. Aims(b, "resolve") = IF n = "resolve" THEN S ELSE {}
      <4> HIDE DEF S
      <4>1. QED
        BY <1>1, <3>1, DoSteps, NamesOfSteps
    <3>3. Plain(b)
      <4> HIDE DEF S
      <4>1. QED
        BY <1>1, <2>2, <3>1, PlainParts
    <3>4. n = "resolve" => S \subseteq Aims(agenda, "resolve")
      BY FirstStep DEF Agenda, Step
    <3>5. QED
      BY <3>2, <3>3, <3>4 DEF Agenda
  <2>3. QED
    BY <2>1, <2>2
<1> HIDE DEF b
<1>5. QED
  BY <1>1, <1>2, <1>3, <1>4, FirstAgenda

(* A step at once as all there is.                                         *)
LEMMA AloneFirst ==
    ASSUME NEW n \in AtOnce, NEW p \in Props, agenda' = Do(n, {p}), Fits(n, p)'
    PROVE  Agenda'
<1>1. n \in StepNames
  BY NamesOfSteps
<1> DEFINE d == Do(n, {p})
           e == d \o << >> \o << >>
<1>2. d \in Seq(AgendaSteps)
  BY <1>1, DoSteps
<1>3. d \o << >> \o << >> = d
  <2> HIDE DEF d
  <2>1. QED
    BY <1>2, ConcatEmptySeq
<1>4. agenda' = Do(n, {p}) \o << >> \o << >>
  BY <1>3
<1>5. Plain(<< >>) /\ Aims(<< >>, "resolve") = {}
  BY PlainParts, NoStep
<1>6. QED
  BY <1>4, <1>5, FirstAgenda

(* An agenda that a method starts with.                                    *)
LEMMA StartsPlain ==
    ASSUME NEW a, NEW b, Plain(a), Plain(b), agenda' = a \o b,
           Aims(a, "resolve") \subseteq mapping', Aims(b, "resolve") \subseteq mapping'
    PROVE  Agenda'
<1>1. Plain(a \o b)
  BY PlainJoined
<1>2. Aims(a \o b, "resolve") = Aims(a, "resolve") \cup Aims(b, "resolve")
  BY JoinedSteps DEF Plain
<1>3. QED
  BY <1>1, <1>2, PlainAgenda

(* Two series that resolve gates.                                          *)
LEMMA ResolveClose ==
    ASSUME NEW p \in Props, NEW t
    PROVE  LET a == Do("resolve", {p}) \o Close(t)
           IN  Plain(a) /\ Aims(a, "resolve") = {p} /\ Aims(a, "reject") = {}
<1> DEFINE b == Do("resolve", {p})
           c == Close(t)
<1>1. "resolve" \in StepNames \ AtOnce /\ {p} \in SUBSET Props
  BY NamesOfSteps
<1>2. Plain(b) /\ Aims(b, "resolve") = {p} /\ Aims(b, "reject") = {}
  BY <1>1, PlainParts, DoSteps
<1>3. Plain(c) /\ Aims(c, "resolve") = {} /\ Aims(c, "reject") = {}
  BY PlainParts, CloseSteps
<1> HIDE DEF b, c
<1>4. Plain(b \o c)
  BY <1>2, <1>3, PlainJoined
<1>5. \A n : Aims(b \o c, n) = Aims(b, n) \cup Aims(c, n)
  BY <1>2, <1>3, JoinedSteps DEF Plain
<1>6. Aims(b \o c, "resolve") = {p} /\ Aims(b \o c, "reject") = {}
  BY <1>2, <1>3, <1>5
<1>7. QED
  BY <1>4, <1>6 DEF b, c

(* What recovery plans for resolved and refused control records.           *)
LEMMA ResolveReject ==
    ASSUME NEW S \in SUBSET Props, NEW T \in SUBSET Props
    PROVE  LET a == Do("resolve", S) \o Do("reject", T)
           IN  Plain(a) /\ Aims(a, "resolve") = S /\ Aims(a, "reject") = T
<1> DEFINE b == Do("resolve", S)
           c == Do("reject", T)
<1>1. "resolve" \in StepNames \ AtOnce /\ "reject" \in StepNames \ AtOnce
  BY NamesOfSteps
<1>2. Plain(b) /\ Aims(b, "resolve") = S /\ Aims(b, "reject") = {}
  BY <1>1, PlainParts, DoSteps
<1>3. Plain(c) /\ Aims(c, "resolve") = {} /\ Aims(c, "reject") = T
  BY <1>1, PlainParts, DoSteps
<1> HIDE DEF b, c
<1>4. Plain(b \o c)
  BY <1>2, <1>3, PlainJoined
<1>5. \A n : Aims(b \o c, n) = Aims(b, n) \cup Aims(c, n)
  BY <1>2, <1>3, JoinedSteps DEF Plain
<1>6. Aims(b \o c, "resolve") = S /\ Aims(b \o c, "reject") = T
  BY <1>2, <1>3, <1>5
<1>7. QED
  BY <1>4, <1>6 DEF b, c

(* What holds the operations back are proposals of the task.               *)
LEMMA GatesAreProps ==
    ASSUME DataTypes
    PROVE  /\ \A p \in Props : /\ op[p].explicit \subseteq Props /\ op[p].body \subseteq Props
                               /\ op[p].cited \subseteq Props /\ OpenGates(p) \subseteq Props
           /\ DeadGates \subseteq Props
<1>1. \A p \in Props : op[p] \in OpRecord
  BY DEF DataTypes
<1>2. \A p \in Props : /\ op[p].explicit \subseteq Props /\ op[p].body \subseteq Props
                       /\ op[p].cited \subseteq Props
  BY <1>1 DEF OpRecord
<1>3. \A p \in Props : OpenGates(p) \subseteq Props
  BY <1>2 DEF OpenGates, Gates
<1>4. ASSUME NEW g \in DeadGates PROVE g \in Props
  <2>1. \E p \in Props : g \in OpenGates(p)
    BY <1>4 DEF DeadGates
  <2>2. QED
    BY <1>3, <2>1
<1>5. QED
  BY <1>2, <1>3, <1>4

(* A quiet step leaves an agenda.                                          *)
LEMMA QuietAgenda ==
    ASSUME DataInv, DataInv', Agenda, QuietStep
    PROVE  Agenda'
<1>0. DataTypes /\ {"resolve", "reject", "route"} \subseteq StepNames \ AtOnce
  BY NamesOfSteps DEF DataInv
<1>1. CASE ScanGates
  <2>1. Head(agenda)[1] = "terminalize" /\ agenda # << >> /\ mapping' = mapping
    BY <1>1 DEF ScanGates
  <2>2. Plain(agenda) /\ Plain(Rest) /\ Aims(Rest, "resolve") \subseteq mapping
    BY <2>1, RestPlain DEF AtOnce
  <2>3. CASE agenda' = Rest
    BY <2>1, <2>2, <2>3, PlainAgenda
  <2>4. CASE agenda' = Do("reject", DeadGates) \o agenda
    <3>1. /\ Plain(Do("reject", DeadGates)) /\ Aims(Do("reject", DeadGates), "resolve") = {}
      BY <1>0, GatesAreProps, PlainParts, DoSteps
    <3>2. Aims(agenda, "resolve") \subseteq mapping'
      BY <2>1 DEF Agenda
    <3>3. QED
      BY <2>2, <2>4, <3>1, <3>2, StartsPlain
  <2>5. QED
    BY <1>1, <2>3, <2>4 DEF ScanGates
<1>2. CASE AllTold \/ CloseTask \/ \E p \in Props : Mark(p)
  <2>1. agenda # << >> /\ agenda' = Rest /\ mapping' = mapping
    BY <1>2 DEF AllTold, CloseTask, Mark, Step
  <2>2. QED
    BY <2>1, RestPlain, PlainAgenda
<1>3. CASE WorkerEnds \/ StartAttempt \/ Stop
  <2>1. agenda' = << >> \/ \E t : agenda' = Close(t)
    BY <1>3 DEF WorkerEnds, StartAttempt, Stop, Idle
  <2>2. CASE agenda' = << >>
    BY <2>2, PlainParts, PlainAgenda, NoStep
  <2>3. ASSUME NEW t, agenda' = Close(t) PROVE Agenda'
    BY <2>3, PlainParts, PlainAgenda, CloseSteps
  <2>4. QED
    BY <2>1, <2>2, <2>3
<1>4. CASE IngestFinal
  <2>1. PICK t : agenda' = Terminalize \o Close(t)
    BY <1>4 DEF IngestFinal
  <2>2. QED
    BY <2>1, PlainParts, StartsPlain, CloseSteps, PlainSteps
<1>5. ASSUME NEW p \in Props, TellStore(p) PROVE Agenda'
  <2>1. /\ Head(agenda)[1] = "markers" /\ agenda # << >> /\ mapping' = mapping
        /\ agenda' = Do("marked", {p}) \o agenda
    BY <1>5 DEF TellStore
  <2>2. Plain(agenda) /\ agenda \in Seq(AgendaSteps) /\ Aims(agenda, "resolve") \subseteq mapping'
    BY <2>1, RestPlain DEF AtOnce, Agenda
  <2>3. "marked" \in AtOnce /\ Fits("marked", p)' /\ "marked" \in StepNames
    BY DEF AtOnce, Fits, StepNames
  <2> DEFINE d == Do("marked", {p})
  <2>4. d \in Seq(AgendaSteps)
    BY <2>3, DoSteps
  <2>5. d \o << >> \o agenda = d \o agenda
    <3> HIDE DEF d
    <3>1. QED
      BY <2>4, ConcatEmptySeq
  <2>6. agenda' = Do("marked", {p}) \o << >> \o agenda
    BY <2>1, <2>5
  <2>7. Plain(<< >>) /\ Aims(<< >>, "resolve") = {}
    BY PlainParts, NoStep
  <2>8. QED
    BY <2>2, <2>3, <2>6, <2>7, FirstAgenda
<1>6. ASSUME NEW p \in Props, RecordDuplicate(p) PROVE Agenda'
  <2>1. Fits("duplicate", p)
    BY <1>6, AtHead DEF RecordDuplicate, AtOnce
  <2>2. /\ Step("duplicate", p) /\ mapping' = mapping
        /\ Then(p, Do("resolve", {p}) \o Close(task))
    BY <1>6 DEF RecordDuplicate
  <2>3. /\ Plain(Do("resolve", {p}) \o Close(task))
        /\ Aims(Do("resolve", {p}) \o Close(task), "resolve") = {p}
    BY ResolveClose
  <2>4. p \in mapping
    BY <2>1 DEF Fits
  <2>5. QED
    BY <2>2, <2>3, <2>4, ThenPlain
<1>7. ASSUME NEW p \in Props, PublishFact(p) PROVE Agenda'
  <2>1. Fits("publish", p)
    BY <1>7, AtHead DEF PublishFact, AtOnce
  <2>2. /\ Step("publish", p) /\ UNCHANGED <<op, mapping>>
        /\ \/ store'[p] = "published" /\ Then(p, Do("published", {p}))
           \/ store'[p] = "published" /\ Then(p, Do("failed", {p}))
           \/ Then(p, Do("refused", {p}))
    BY <1>0, <1>7 DEF PublishFact, DataTypes
  <2>3. {"published", "failed", "refused"} \subseteq AtOnce
    BY DEF AtOnce
  <2>4. Fits("refused", p)' /\ (store'[p] = "published" => Fits("published", p)' /\ Fits("failed", p)')
    BY <2>1, <2>2 DEF Fits
  <2>5. CASE store'[p] = "published" /\ Then(p, Do("published", {p}))
    BY <2>2, <2>3, <2>4, <2>5, ThenFirst
  <2>6. CASE store'[p] = "published" /\ Then(p, Do("failed", {p}))
    BY <2>2, <2>3, <2>4, <2>6, ThenFirst
  <2>7. CASE Then(p, Do("refused", {p}))
    BY <2>2, <2>3, <2>4, <2>7, ThenFirst
  <2>8. QED
    BY <2>2, <2>5, <2>6, <2>7
<1>8. ASSUME NEW p \in Props, Replay(p) PROVE Agenda'
  <2>1. Step("replay", p) /\ UNCHANGED <<op, store, mapping>>
    BY <1>8 DEF Replay
  <2> DEFINE ready == (op[p].explicit \cup op[p].body) \cap mapping
             lost == {g \in OpenGates(p) : proposals[g].state = "rejected"}
  <2>2. \/ Then(p, Do("route", {p})) \/ Then(p, Do("reject", {p})) \/ Then(p, << >>)
        \/ op[p].state \in UnderReview /\ op[p].verified /\ Then(p, Do("publish", {p}))
        \/ Then(p, Do("resolve", ready) \o Do("reject", lost))
    BY <1>8 DEF Replay, UnderReview
  <2>3. ready \in SUBSET Props /\ lost \in SUBSET Props /\ ready \subseteq mapping
    BY <1>0, GatesAreProps
  <2> HIDE DEF ready, lost
  <2>4. CASE Then(p, Do("route", {p})) \/ Then(p, Do("reject", {p}))
    BY <1>0, <2>1, <2>4, ThenPlain, PlainParts, DoSteps
  <2>5. CASE Then(p, << >>)
    BY <2>1, <2>5, ThenPlain, PlainParts, NoStep
  <2>6. CASE op[p].state \in UnderReview /\ op[p].verified /\ Then(p, Do("publish", {p}))
    <3>1. "publish" \in AtOnce /\ Fits("publish", p)'
      BY <2>1, <2>6 DEF AtOnce, Fits
    <3>2. QED
      BY <2>1, <2>6, <3>1, ThenFirst
  <2>7. CASE Then(p, Do("resolve", ready) \o Do("reject", lost))
    <3>1. /\ Plain(Do("resolve", ready) \o Do("reject", lost))
          /\ Aims(Do("resolve", ready) \o Do("reject", lost), "resolve") = ready
      BY <2>3, ResolveReject
    <3>2. QED
      BY <2>1, <2>3, <2>7, <3>1, ThenPlain
  <2>8. QED
    BY <2>2, <2>4, <2>5, <2>6, <2>7
<1>9. QED
  BY <1>1, <1>2, <1>3, <1>4, <1>5, <1>6, <1>7, <1>8 DEF QuietStep

(* What a refused declaration plans.                                       *)
LEMMA RejectClose ==
    ASSUME NEW p \in Props, NEW t
    PROVE  LET a == Do("reject", {p}) \o Close(t)
           IN  Plain(a) /\ Aims(a, "resolve") = {} /\ Aims(a, "reject") = {p}
<1> DEFINE b == Do("reject", {p})
           c == Close(t)
<1>1. Plain(b) /\ Aims(b, "resolve") = {} /\ Aims(b, "reject") = {p}
  <2>1. "reject" \in StepNames \ AtOnce /\ {p} \in SUBSET Props
    BY NamesOfSteps
  <2>2. Plain(b)
    BY <2>1, PlainParts
  <2>3. \A m : Aims(b, m) = IF m = "reject" THEN {p} ELSE {}
    BY <2>1, DoSteps
  <2>4. QED
    BY <2>2, <2>3
<1>2. Plain(c) /\ Aims(c, "resolve") = {} /\ Aims(c, "reject") = {}
  BY PlainParts, CloseSteps
<1> HIDE DEF b, c
<1>3. /\ Plain(b \o c) /\ Aims(b \o c, "resolve") = {}
      /\ Aims(b \o c, "reject") = {p}
  BY <1>1, <1>2, JoinedPlain
<1>4. QED
  BY <1>3 DEF b, c

(* A move of one operation leaves an agenda.                               *)
LEMMA MoveAgenda ==
    ASSUME DataInv, DataInv', Agenda, NEW p \in Props, MoveStep(p)
    PROVE  Agenda'
<1>1. mapping' = mapping
  BY MoveSteps DEF MoveStep, Route, FoundNew, FoundUnchanged, FoundIncorrect, Refuse,
     DuplicateFails, PublicationFails, Abandon
<1>2. CASE Route(p) \/ DuplicateFails(p) \/ PublicationFails(p)
  <2>1. PICK n : Step(n, p) /\ Then(p, << >>)
    BY <1>2 DEF Route, DuplicateFails, PublicationFails
  <2>2. QED
    BY <1>1, <2>1, ThenPlain, PlainParts, NoStep
<1>3. CASE FoundNew(p)
  <2>1. agenda' = << >>
    BY <1>3 DEF FoundNew, Idle
  <2>2. QED
    BY <2>1, PlainParts, PlainAgenda, NoStep
<1>4. CASE FoundUnchanged(p) \/ FoundIncorrect(p) \/ Abandon(p)
  <2>1. PICK t : agenda' = Do("reject", {p}) \o Close(t)
    BY <1>4 DEF FoundUnchanged, FoundIncorrect, Refuse, Abandon
  <2>2. QED
    BY <2>1, RejectClose, PlainAgenda
<1>5. QED
  BY <1>2, <1>3, <1>4 DEF MoveStep

(* The series of a cascade.                                                *)
LEMMA MarkersClose ==
    ASSUME NEW t
    PROVE  LET a == Markers \o Close(t)
           IN  /\ Plain(a) /\ Holds(a, "markers")
               /\ Aims(a, "resolve") = {} /\ Aims(a, "reject") = {}
<1> DEFINE b == Markers
           c == Close(t)
<1>1. /\ Plain(b) /\ Aims(b, "resolve") = {} /\ Aims(b, "reject") = {}
      /\ Holds(b, "markers")
  BY PlainParts, PlainSteps
<1>2. Plain(c) /\ Aims(c, "resolve") = {} /\ Aims(c, "reject") = {}
  BY PlainParts, CloseSteps
<1> HIDE DEF b, c
<1>3. Plain(b \o c)
  BY <1>1, <1>2, JoinedPlain
<1>4. \A n : /\ Aims(b \o c, n) = Aims(b, n) \cup Aims(c, n)
             /\ Holds(b, n) => Holds(b \o c, n)
  BY <1>1, <1>2, JoinedPlain
<1>5. /\ Aims(b \o c, "resolve") = {} /\ Aims(b \o c, "reject") = {}
      /\ Holds(b \o c, "markers")
  BY <1>1, <1>2, <1>4
<1>6. QED
  BY <1>3, <1>5 DEF b, c

(* What recovery has to do.                                                *)
LEMMA RecoverySteps ==
    ASSUME NEW t
    PROVE  LET a == Do("replay", Declared) \o Markers \o FinalScan \o Close(t)
           IN  /\ Plain(a) /\ Holds(a, "markers")
               /\ task.final => Holds(a, "terminalize")
               /\ Aims(a, "resolve") = {} /\ Aims(a, "reject") = {}
<1> DEFINE b == Do("replay", Declared)
           c == Markers
           d == FinalScan
           e == Close(t)
<1>1. Plain(b) /\ Aims(b, "resolve") = {} /\ Aims(b, "reject") = {}
  <2>1. "replay" \in StepNames \ AtOnce /\ Declared \in SUBSET Props
    BY NamesOfSteps DEF Declared
  <2>2. QED
    BY <2>1, PlainParts, DoSteps
<1>2. /\ Plain(c) /\ Aims(c, "resolve") = {} /\ Aims(c, "reject") = {}
      /\ Holds(c, "markers")
  BY PlainParts, PlainSteps
<1>3. /\ Plain(d) /\ Aims(d, "resolve") = {} /\ Aims(d, "reject") = {}
      /\ task.final => Holds(d, "terminalize")
  BY PlainParts, PlainSteps, NoStep DEF FinalScan
<1>4. Plain(e) /\ Aims(e, "resolve") = {} /\ Aims(e, "reject") = {}
  BY PlainParts, CloseSteps
<1> HIDE DEF b, c, d, e
<1>5. /\ Plain(b \o c) /\ Holds(b \o c, "markers")
      /\ Aims(b \o c, "resolve") = {} /\ Aims(b \o c, "reject") = {}
  BY <1>1, <1>2, JoinedPlain
<1> DEFINE f == b \o c
<1> HIDE DEF f
<1>6. /\ Plain(f \o d) /\ Holds(f \o d, "markers")
      /\ task.final => Holds(f \o d, "terminalize")
      /\ Aims(f \o d, "resolve") = {} /\ Aims(f \o d, "reject") = {}
  BY <1>3, <1>5, JoinedPlain DEF f
<1> DEFINE g == f \o d
<1> HIDE DEF g
<1>7. /\ Plain(g \o e) /\ Holds(g \o e, "markers")
      /\ task.final => Holds(g \o e, "terminalize")
      /\ Aims(g \o e, "resolve") = {} /\ Aims(g \o e, "reject") = {}
  BY <1>4, <1>6, JoinedPlain DEF g
<1>8. QED
  BY <1>7 DEF b, c, d, e, f, g

(* A cascade leaves an agenda.                                             *)
LEMMA CascadeAgenda ==
    ASSUME DataInv, DataInv', Agenda, CascadeStep
    PROVE  Agenda'
<1>1. CASE Recover
  <2>1. PICK t : agenda' = Do("replay", Declared) \o Markers \o FinalScan \o Close(t)
    BY <1>1 DEF Recover
  <2>2. QED
    BY <2>1, RecoverySteps, PlainAgenda
<1>2. ASSUME NEW p \in Props, RejectProposal(p) PROVE Agenda'
  <2>1. Step("reject", p) /\ Then(p, Markers) /\ mapping' = mapping
    BY <1>2 DEF RejectProposal
  <2>2. Plain(Markers) /\ Aims(Markers, "resolve") = {}
    BY PlainParts, PlainSteps
  <2>3. QED
    BY <2>1, <2>2, ThenPlain
<1>3. ASSUME NEW p \in Props, Refused(p) PROVE Agenda'
  <2>1. PICK t : Step("refused", p) /\ Then(p, Markers \o Close(t)) /\ mapping' = mapping
    BY <1>3 DEF Refused
  <2>2. Plain(Markers \o Close(t)) /\ Aims(Markers \o Close(t), "resolve") = {}
    BY MarkersClose
  <2>3. QED
    BY <2>1, <2>2, ThenPlain
<1>4. QED
  BY <1>1, <1>2, <1>3 DEF CascadeStep

(* The series of a declaration.                                            *)
LEMMA DeclareSeries ==
    ASSUME DataInv, NEW p \in Props, NEW explicit \in SUBSET Props, NEW body \in SUBSET Props,
           NEW final \in BOOLEAN, DeclareStep(p, explicit, body, final)
    PROVE  /\ Plain(agenda') /\ Aims(agenda', "resolve") \subseteq mapping
           /\ op'[p].state = "rejected" => p \in Aims(agenda', "reject")
           /\ final => Holds(agenda', "terminalize")
<1> DEFINE o == op'[p]
           refused == {g \in o.cited : proposals[g].state = "rejected"}
           tail == CASE o.state = "rejected" ->
                            Do("reject", refused \ {p}) \o Do("reject", {p})
                     [] o.state = "waiting_predecessors" ->
                            Do("resolve", explicit \cap mapping)
                     [] OTHER -> Do("route", {p})
           end == IF final THEN Terminalize \o Close(task') ELSE << >>
<1>1. agenda' = tail \o end
  BY DEF DeclareStep, IngestFact
<1>2. refused \subseteq Props
  <2>1. o = Initialized(p, explicit, body)
    BY IngestKeeps DEF DeclareStep
  <2>2. o.cited = explicit \cup body
    BY <2>1, InitializedSet DEF DeclareStep
  <2>3. QED
    BY <2>2
<1>3. {"reject", "resolve", "route"} \subseteq StepNames \ AtOnce
  BY NamesOfSteps
<1> HIDE DEF refused
<1>4. /\ Plain(tail) /\ Aims(tail, "resolve") \subseteq mapping
      /\ o.state = "rejected" => p \in Aims(tail, "reject")
  <2>1. CASE o.state = "rejected"
    <3> DEFINE b == Do("reject", refused \ {p})
               c == Do("reject", {p})
    <3>1. /\ Plain(b) /\ Aims(b, "resolve") = {}
          /\ Plain(c) /\ Aims(c, "resolve") = {} /\ Aims(c, "reject") = {p}
      BY <1>2, <1>3, PlainParts, DoSteps
    <3>2. tail = b \o c
      BY <2>1
    <3> HIDE DEF b, c, tail
    <3>3. /\ Plain(b \o c) /\ Aims(b \o c, "resolve") = {}
          /\ p \in Aims(b \o c, "reject")
      BY <3>1, JoinedPlain
    <3>4. QED
      BY <3>2, <3>3
  <2>2. CASE o.state = "waiting_predecessors"
    <3>1. tail = Do("resolve", explicit \cap mapping)
      BY <2>2
    <3>2. /\ Plain(Do("resolve", explicit \cap mapping))
          /\ Aims(Do("resolve", explicit \cap mapping), "resolve") = explicit \cap mapping
      BY <1>3, PlainParts, DoSteps
    <3> HIDE DEF tail
    <3>3. QED
      BY <2>2, <3>1, <3>2
  <2>3. CASE o.state \notin {"rejected", "waiting_predecessors"}
    <3>1. tail = Do("route", {p})
      BY <2>3
    <3>2. Plain(Do("route", {p})) /\ Aims(Do("route", {p}), "resolve") = {}
      BY <1>3, PlainParts, DoSteps
    <3> HIDE DEF tail
    <3>3. QED
      BY <2>3, <3>1, <3>2
  <2>4. QED
    BY <2>1, <2>2, <2>3
<1>5. /\ Plain(end) /\ Aims(end, "resolve") = {}
      /\ final => Holds(end, "terminalize")
  <2>1. CASE final
    <3> DEFINE b == Terminalize
               c == Close(task')
    <3>1. /\ Plain(b) /\ Aims(b, "resolve") = {} /\ Holds(b, "terminalize")
          /\ Plain(c) /\ Aims(c, "resolve") = {}
      BY PlainParts, PlainSteps, CloseSteps
    <3>2. end = b \o c
      BY <2>1
    <3> HIDE DEF b, c, end
    <3>3. QED
      BY <3>1, <3>2, JoinedPlain
  <2>2. CASE ~final
    <3>1. end = << >>
      BY <2>2
    <3> HIDE DEF end
    <3>2. QED
      BY <2>2, <3>1, PlainParts, NoStep
  <2>3. QED
    BY <2>1, <2>2
<1> HIDE DEF tail, end
<1>6. /\ Plain(tail \o end) /\ Aims(tail \o end, "resolve") \subseteq mapping
      /\ o.state = "rejected" => p \in Aims(tail \o end, "reject")
      /\ final => Holds(tail \o end, "terminalize")
  BY <1>4, <1>5, JoinedPlain
<1>7. QED
  BY <1>1, <1>6

(* No step breaks what is known of the agenda.                             *)
LEMMA AgendaKept ==
    ASSUME DataInv, Agenda, ProposalNext
    PROVE  Agenda'
<1>0. DataInv'
  BY DataKept
<1>1. ASSUME NEW p \in Props, FoundCorrect(p) PROVE Agenda'
  <2>1. op'[p].state = "verifying" /\ op'[p].verified
    <3>1. op[p] \in OpRecord /\ op \in [Props -> OpRecord] /\ op[p].state = "verifying"
      BY <1>1 DEF DataInv, DataTypes, FoundCorrect, Is
    <3>2. op'[p] = [op[p] EXCEPT !.verified = TRUE]
      BY <1>1, <3>1 DEF FoundCorrect
    <3>3. QED
      BY <3>1, <3>2 DEF OpRecord
  <2>2. "publish" \in AtOnce /\ Fits("publish", p)'
    BY <2>1 DEF AtOnce, Fits, UnderReview
  <2>3. QED
    BY <1>1, <2>2, AloneFirst DEF FoundCorrect
<1>2. ASSUME NEW p \in Props, FoundDuplicate(p) PROVE Agenda'
  <2>1. /\ mapping' = mapping \cup {p} /\ op[p].state = "synthesizing"
        /\ agenda' = Do("duplicate", {p}) /\ op' = [op EXCEPT ![p].state = "committed"]
    BY <1>2 DEF FoundDuplicate, Is
  <2>2. op'[p].state = "committed" /\ op'[p].verified = op[p].verified
    <3>1. op[p] \in OpRecord /\ op \in [Props -> OpRecord]
      BY DEF DataInv, DataTypes
    <3>2. op'[p] = [op[p] EXCEPT !.state = "committed"]
      BY <2>1, <3>1
    <3>3. QED
      BY <3>1, <3>2 DEF OpRecord
  <2>3. ~op[p].verified
    BY <2>1 DEF DataInv, Mapped, UnderReview, Final
  <2>4. "duplicate" \in AtOnce /\ Fits("duplicate", p)'
    BY <2>1, <2>2, <2>3 DEF AtOnce, Fits, Is
  <2>5. QED
    BY <2>1, <2>4, AloneFirst
<1>3. ASSUME NEW p \in Props, FactPublished(p) PROVE Agenda'
  <2>1. /\ Step("published", p) /\ mapping' = mapping \cup {p}
        /\ Then(p, Do("resolve", {p}) \o Close(task))
    BY <1>3 DEF FactPublished
  <2>2. /\ Plain(Do("resolve", {p}) \o Close(task))
        /\ Aims(Do("resolve", {p}) \o Close(task), "resolve") = {p}
    BY ResolveClose
  <2>3. QED
    BY <2>1, <2>2, ThenPlain
<1>4. ASSUME NEW p \in Props, ResolveGate(p) PROVE Agenda'
  <2>1. PICK S \in SUBSET Props : Step("resolve", p) /\ Then(p, Do("route", S))
    BY <1>4 DEF ResolveGate
  <2>2. mapping' = mapping
    BY <1>4, ResolveKeeps
  <2>3. Plain(Do("route", S)) /\ Aims(Do("route", S), "resolve") = {}
    BY NamesOfSteps, PlainParts, DoSteps
  <2>4. QED
    BY <2>1, <2>2, <2>3, ThenPlain
<1>5. ASSUME NEW p \in Props, NEW explicit \in SUBSET Props, NEW body \in SUBSET Props,
             NEW final \in BOOLEAN, DeclareStep(p, explicit, body, final)
      PROVE  Agenda'
  <2>1. mapping' = mapping
    BY <1>5 DEF DeclareStep, IngestFact
  <2>2. QED
    BY <1>5, <2>1, DeclareSeries, PlainAgenda
<1>6. ASSUME NEW p \in Props, MoveStep(p) PROVE Agenda'
  BY <1>0, <1>6, MoveAgenda
<1>7. CASE QuietStep \/ CascadeStep
  BY <1>0, <1>7, QuietAgenda, CascadeAgenda
<1>8. QED
  BY <1>1, <1>2, <1>3, <1>4, <1>5, <1>6, <1>7, StepKinds

(***************************************************************************)
(* What a step leaves on the agenda.                                       *)
(***************************************************************************)
(* The steps that stay on an agenda until they are taken.                  *)
Kept == {"markers", "terminalize"}

(* Nothing that a refusal or the final receipt asks for is forgotten.      *)
Grows ==
    /\ Aims(agenda, "reject") \subseteq Aims(agenda', "reject")
    /\ \A m \in Kept : Holds(agenda, m) => Holds(agenda', m)

(* Nothing is lost from an empty agenda.                                   *)
LEMMA IdleGrows ==
    ASSUME agenda = << >>
    PROVE  Grows
BY NoStep DEF Grows

(* A step replaced by others loses itself alone.                           *)
LEMMA ThenGrows ==
    ASSUME Agenda, NEW n, NEW p, Step(n, p), NEW b \in Seq(AgendaSteps), Then(p, b)
    PROVE  /\ n \notin Kept \cup {"reject"} => Grows
           /\ Aims(b, "reject") \subseteq Aims(agenda', "reject")
           /\ \A m : Holds(b, m) => Holds(agenda', m)
           /\ Aims(agenda, "reject") \subseteq Aims(agenda', "reject") \cup {p}
           /\ \A m \in Kept : m # n /\ Holds(agenda, m) => Holds(agenda', m)
<1>1. \A m : /\ Aims(agenda', m) = Aims(b, m) \cup Aims(Rest, m)
                    \cup (IF m = n THEN Head(agenda)[2] \ {p} ELSE {})
             /\ Holds(b, m) \/ Holds(Rest, m) => Holds(agenda', m)
             /\ Aims(agenda, m) = Aims(Rest, m)
                    \cup (IF m = n THEN Head(agenda)[2] ELSE {})
             /\ Holds(agenda, m) <=> m = n \/ Holds(Rest, m)
  BY AfterStep
<1>2. /\ Aims(agenda', "reject") = Aims(b, "reject") \cup Aims(Rest, "reject")
                    \cup (IF "reject" = n THEN Head(agenda)[2] \ {p} ELSE {})
      /\ Aims(agenda, "reject") = Aims(Rest, "reject")
                    \cup (IF "reject" = n THEN Head(agenda)[2] ELSE {})
  BY <1>1
<1>3. /\ Aims(b, "reject") \subseteq Aims(agenda', "reject")
      /\ Aims(agenda, "reject") \subseteq Aims(agenda', "reject") \cup {p}
      /\ n # "reject" => Aims(agenda, "reject") \subseteq Aims(agenda', "reject")
  BY <1>2
<1>4. /\ \A m : Holds(b, m) => Holds(agenda', m)
      /\ \A m : m # n /\ Holds(agenda, m) => Holds(agenda', m)
  BY <1>1
<1>5. QED
  BY <1>3, <1>4 DEF Grows

(* A step that is over loses itself alone.                                 *)
LEMMA RestGrows ==
    ASSUME Agenda, agenda # << >>, agenda' = Rest
    PROVE  /\ Head(agenda)[1] \notin Kept \cup {"reject"} => Grows
           /\ Head(agenda)[1] # "reject" =>
                  Aims(agenda, "reject") = Aims(agenda', "reject")
           /\ \A m : m # Head(agenda)[1] /\ Holds(agenda, m) => Holds(agenda', m)
<1>1. \A m : /\ Holds(agenda, m) <=> Head(agenda)[1] = m \/ Holds(agenda', m)
             /\ Aims(agenda, m) = (IF Head(agenda)[1] = m THEN Head(agenda)[2] ELSE {})
                                     \cup Aims(agenda', m)
  BY FirstStep DEF Agenda, Rest
<1>2. QED
  BY <1>1 DEF Grows

(* Nothing is lost when steps are put in front.                            *)
LEMMA BeforeGrows ==
    ASSUME Agenda, NEW a \in Seq(AgendaSteps), agenda' = a \o agenda
    PROVE  Grows /\ Aims(agenda', "reject") = Aims(a, "reject") \cup Aims(agenda, "reject")
<1>1. \A m : /\ Holds(agenda', m) <=> Holds(a, m) \/ Holds(agenda, m)
             /\ Aims(agenda', m) = Aims(a, m) \cup Aims(agenda, m)
  BY JoinedSteps DEF Agenda
<1>2. QED
  BY <1>1 DEF Grows

(* The steps of the series that methods go on with.                        *)
LEMMA SeriesTypes ==
    /\ << >> \in Seq(AgendaSteps) /\ Markers \in Seq(AgendaSteps)
    /\ \A n \in StepNames, S \in SUBSET Props : Do(n, S) \in Seq(AgendaSteps)
    /\ \A p \in Props : \A t : Do("resolve", {p}) \o Close(t) \in Seq(AgendaSteps)
    /\ \A S \in SUBSET Props, T \in SUBSET Props :
           Do("resolve", S) \o Do("reject", T) \in Seq(AgendaSteps)
    /\ \A t : Markers \o Close(t) \in Seq(AgendaSteps)
<1>1. << >> \in Seq(AgendaSteps) /\ Markers \in Seq(AgendaSteps)
  BY NoStep, PlainSteps
<1>2. \A n \in StepNames, S \in SUBSET Props : Do(n, S) \in Seq(AgendaSteps)
  BY DoSteps
<1>3. \A p \in Props : \A t : Do("resolve", {p}) \o Close(t) \in Seq(AgendaSteps)
  BY ResolveClose DEF Plain
<1>4. \A S \in SUBSET Props, T \in SUBSET Props :
           Do("resolve", S) \o Do("reject", T) \in Seq(AgendaSteps)
  BY ResolveReject DEF Plain
<1>5. \A t : Markers \o Close(t) \in Seq(AgendaSteps)
  BY MarkersClose DEF Plain
<1>6. QED
  BY <1>1, <1>2, <1>3, <1>4, <1>5

(* The steps that keep all of it.                                          *)
LEMMA QuietGrows ==
    ASSUME DataInv, Agenda
    PROVE  /\ CloseTask \/ WorkerEnds \/ StartAttempt \/ IngestFinal => Grows
           /\ \A p \in Props :
                 (TellStore(p) \/ Mark(p) \/ RecordDuplicate(p) \/ PublishFact(p)
                  \/ Replay(p)) => Grows
<1>1. CASE CloseTask
  BY <1>1, RestGrows DEF CloseTask, Kept
<1>2. CASE WorkerEnds \/ StartAttempt \/ IngestFinal
  BY <1>2, IdleGrows DEF WorkerEnds, StartAttempt, IngestFinal, Idle
<1>3. ASSUME NEW p \in Props, TellStore(p) PROVE Grows
  <2>1. Do("marked", {p}) \in Seq(AgendaSteps) /\ agenda' = Do("marked", {p}) \o agenda
    BY <1>3, SeriesTypes, NamesOfSteps DEF TellStore, AtOnce
  <2>2. QED
    BY <2>1, BeforeGrows
<1>4. ASSUME NEW p \in Props, Mark(p) PROVE Grows
  BY <1>4, RestGrows DEF Mark, Step, Kept
<1>5. ASSUME NEW p \in Props, RecordDuplicate(p) PROVE Grows
  <2>1. Step("duplicate", p) /\ Then(p, Do("resolve", {p}) \o Close(task))
    BY <1>5 DEF RecordDuplicate
  <2>2. PICK b \in Seq(AgendaSteps) : Then(p, b)
    BY <2>1, SeriesTypes
  <2>3. QED
    BY <2>1, <2>2, ThenGrows DEF Kept
<1>6. ASSUME NEW p \in Props, PublishFact(p) PROVE Grows
  <2>1. PICK m \in {"published", "failed", "refused"} :
            Step("publish", p) /\ Then(p, Do(m, {p}))
    BY <1>6 DEF PublishFact
  <2>2. Do(m, {p}) \in Seq(AgendaSteps)
    BY SeriesTypes DEF StepNames
  <2>3. QED
    BY <2>1, <2>2, ThenGrows DEF Kept
<1>7. ASSUME NEW p \in Props, Replay(p) PROVE Grows
  <2> DEFINE ready == (op[p].explicit \cup op[p].body) \cap mapping
             lost == {g \in OpenGates(p) : proposals[g].state = "rejected"}
  <2>1. \/ \E m \in {"route", "reject", "publish"} : Then(p, Do(m, {p}))
        \/ Then(p, << >>)
        \/ Then(p, Do("resolve", ready) \o Do("reject", lost))
    BY <1>7 DEF Replay
  <2>2. ready \in SUBSET Props /\ lost \in SUBSET Props
    BY GatesAreProps DEF DataInv
  <2> HIDE DEF ready, lost
  <2>3. \A m \in {"route", "reject", "publish"} : Do(m, {p}) \in Seq(AgendaSteps)
    BY SeriesTypes DEF StepNames
  <2>4. PICK b \in Seq(AgendaSteps) : Then(p, b)
    BY <2>1, <2>2, <2>3, SeriesTypes
  <2>5. Step("replay", p)
    BY <1>7 DEF Replay
  <2>6. QED
    BY <2>4, <2>5, ThenGrows DEF Kept
<1>8. QED
  BY <1>1, <1>2, <1>3, <1>4, <1>5, <1>6, <1>7

(* These steps lose nothing from the agenda.                               *)
LEMMA StepGrows ==
    ASSUME DataInv, Agenda, NEW p \in Props,
           \/ MoveStep(p) \/ FoundCorrect(p) \/ FoundDuplicate(p) \/ FactPublished(p)
           \/ ResolveGate(p) \/ Refused(p)
           \/ \E explicit \in SUBSET Props, body \in SUBSET Props, final \in BOOLEAN :
                 DeclareStep(p, explicit, body, final)
    PROVE  Grows
<1>1. CASE \/ FoundNew(p) \/ FoundUnchanged(p) \/ FoundIncorrect(p) \/ Abandon(p)
           \/ FoundCorrect(p) \/ FoundDuplicate(p)
           \/ \E explicit \in SUBSET Props, body \in SUBSET Props, final \in BOOLEAN :
                 DeclareStep(p, explicit, body, final)
  <2>1. agenda = << >>
    BY <1>1 DEF FoundNew, FoundUnchanged, FoundIncorrect, Abandon, FoundCorrect,
       FoundDuplicate, DeclareStep, IngestFact, Idle
  <2>2. QED
    BY <2>1, IdleGrows
<1>2. CASE \/ Route(p) \/ DuplicateFails(p) \/ PublicationFails(p) \/ FactPublished(p)
           \/ ResolveGate(p) \/ Refused(p)
  <2>1. \E n \in {"route", "duplicate", "failed", "published", "resolve", "refused"},
           b \in Seq(AgendaSteps) : Step(n, p) /\ Then(p, b)
    <3>1. CASE Route(p)
      BY <3>1, SeriesTypes DEF Route
    <3>2. CASE DuplicateFails(p)
      BY <3>2, SeriesTypes DEF DuplicateFails
    <3>3. CASE PublicationFails(p)
      BY <3>3, SeriesTypes DEF PublicationFails
    <3>4. CASE FactPublished(p)
      <4>1. Step("published", p) /\ Then(p, Do("resolve", {p}) \o Close(task))
        BY <3>4 DEF FactPublished
      <4>2. QED
        BY <4>1, SeriesTypes
    <3>5. CASE ResolveGate(p)
      <4>1. PICK S \in SUBSET Props : Step("resolve", p) /\ Then(p, Do("route", S))
        BY <3>5 DEF ResolveGate
      <4>2. Do("route", S) \in Seq(AgendaSteps)
        BY SeriesTypes, NamesOfSteps
      <4>3. QED
        BY <4>1, <4>2
    <3>6. CASE Refused(p)
      <4>1. PICK t : Step("refused", p) /\ Then(p, Markers \o Close(t))
        BY <3>6 DEF Refused
      <4>2. QED
        BY <4>1, SeriesTypes
    <3>7. QED
      BY <1>2, <3>1, <3>2, <3>3, <3>4, <3>5, <3>6
  <2>2. PICK n \in {"route", "duplicate", "failed", "published", "resolve", "refused"},
             b \in Seq(AgendaSteps) : Step(n, p) /\ Then(p, b)
    BY <2>1
  <2>3. n \notin Kept \cup {"reject"}
    BY DEF Kept
  <2>4. QED
    BY <2>2, <2>3, ThenGrows
<1>3. QED
  BY <1>1, <1>2 DEF MoveStep

(***************************************************************************)
(* What a cascade leaves owed.                                             *)
(***************************************************************************)
(* What a cascade does to each proposal, reached or not.                   *)
LEMMA CascadeFacts ==
    ASSUME DataInv, NEW roots \in SUBSET Props, CascadeOf(roots)
    PROVE  /\ Hit(roots) \subseteq Props /\ roots \subseteq Hit(roots) \cup mapping
           /\ \A q \in Hit(roots) : Dependents(q) \subseteq Hit(roots)
           /\ UNCHANGED <<mapping, store>> /\ task'.final = task.final
           /\ \A q \in Props :
                 /\ q \in Hit(roots) => /\ proposals'[q].state = "rejected"
                                        /\ op'[q].state \notin Open
                 /\ q \notin Hit(roots) =>
                       /\ op'[q].state = op[q].state
                       /\ \/ proposals'[q].state = proposals[q].state
                          \/ q \in mapping /\ proposals'[q].state = "resolved"
                 /\ proposals'[q].marked = proposals[q].marked
                 /\ op'[q].state \in {op[q].state, "rejected"}
                 /\ OpenGates(q)' = OpenGates(q)
<1> DEFINE H == Hit(roots)
<1>1. PICK os \in [Props -> OpRecord], t \in TaskRecord :
          /\ Cascade(roots, os, t) /\ t.final = task.final
          /\ \A q \in Props :
                /\ os[q].explicit = op[q].explicit /\ os[q].body = op[q].body
                /\ os[q].cited = op[q].cited /\ os[q].version = op[q].version
                /\ os[q].verified = op[q].verified
                /\ \/ os[q].state = op[q].state
                   \/ q \in roots \ mapping /\ os[q].state = "rejected"
                      /\ op[q].state \in Open
  BY DEF CascadeOf
<1>2. UNCHANGED <<mapping, store>>
  BY DEF CascadeOf
<1>3. DataTypes /\ Mapped
  BY DEF DataInv
<1>4. /\ H \subseteq Props /\ roots \subseteq H \cup mapping
      /\ \A q \in H : Dependents(q) \subseteq H
  BY <1>3, HitHolds
<1>a. /\ task'.final = t.final
      /\ \A q \in Props :
            /\ op'[q].explicit = os[q].explicit /\ op'[q].body = os[q].body
            /\ q \in Hit(roots) /\ os[q].state \in Open \cup {"rejected"} =>
                   op'[q].state = "rejected"
            /\ ~(q \in Hit(roots) /\ os[q].state \in Open \cup {"rejected"}) =>
                   op'[q] = os[q]
            /\ proposals'[q].marked = proposals[q].marked
            /\ q \in Hit(roots) => proposals'[q].state = "rejected"
            /\ q \notin Hit(roots) => proposals'[q] = Ensured(mapping)[q]
  BY <1>1, <1>3, CascadeSets, ZenonT(60)
<1>5. /\ task'.final = t.final
      /\ \A q \in Props :
            /\ op'[q].explicit = os[q].explicit /\ op'[q].body = os[q].body
            /\ q \in H /\ os[q].state \in Open \cup {"rejected"} =>
                   op'[q].state = "rejected"
            /\ ~(q \in H /\ os[q].state \in Open \cup {"rejected"}) =>
                   op'[q] = os[q]
            /\ proposals'[q].marked = proposals[q].marked
            /\ q \in H => proposals'[q].state = "rejected"
            /\ q \notin H => proposals'[q] = Ensured(mapping)[q]
  BY <1>a
<1>6. \A q \in Props : /\ q \in mapping => Ensured(mapping)[q].state = "resolved"
                       /\ q \notin mapping => Ensured(mapping)[q] = proposals[q]
  BY <1>3, EnsuredSet DEF DataTypes
<1> HIDE DEF H
<1>7. ASSUME NEW q \in Props
      PROVE  /\ q \in H => proposals'[q].state = "rejected" /\ op'[q].state \notin Open
             /\ q \notin H => \/ proposals'[q].state = proposals[q].state
                              \/ q \in mapping /\ proposals'[q].state = "resolved"
             /\ proposals'[q].marked = proposals[q].marked
  <2>1. "rejected" \notin Open
    BY DEF Open
  <2>2. q \in H => op'[q].state \notin Open
    BY <1>5, <2>1
  <2>3. QED
    BY <1>5, <1>6, <2>2
<1>8. ASSUME NEW q \in Props
      PROVE  /\ q \notin H => op'[q].state = op[q].state
             /\ op'[q].state \in {op[q].state, "rejected"}
  <2>1. q \notin H => op'[q] = os[q]
    BY <1>5
  <2>2. q \in roots \ mapping => q \in H
    BY <1>4
  <2>3. op'[q].state = "rejected" \/ op'[q] = os[q]
    BY <1>5
  <2>4. QED
    BY <1>1, <2>1, <2>2, <2>3
<1>9. \A q \in Props : OpenGates(q)' = OpenGates(q)
  BY <1>1, <1>2, <1>5 DEF OpenGates, Gates
<1>10. QED
  BY <1>1, <1>2, <1>4, <1>5, <1>7, <1>8, <1>9 DEF H

(* When what is owed stays on the agenda.                                  *)
LEMMA OwedKept ==
    ASSUME TailsOwed, up, Aims(agenda, "reject") \subseteq Aims(agenda', "reject"),
           Holds(agenda, "markers") => Holds(agenda', "markers"),
           \A q \in Props :
              /\ op'[q].state = "rejected" /\ proposals'[q].state = "pending" =>
                     \/ op[q].state = "rejected" /\ proposals[q].state = "pending"
                     \/ q \in Aims(agenda', "reject")
              /\ proposals'[q].state = "rejected" =>
                     \/ /\ proposals[q].state = "rejected"
                        /\ proposals[q].marked => proposals'[q].marked
                        /\ store[q] = "published" => store'[q] = "published"
                     \/ Holds(agenda', "markers")
    PROVE  TailsOwed'
BY DEF TailsOwed, Owed, Is

(* A quiet step leaves what is owed on the agenda.                         *)
LEMMA QuietOwed ==
    ASSUME DataInv, Agenda, TailsOwed, QuietStep
    PROVE  TailsOwed'
<1>0. DataTypes
  BY DEF DataInv
<1>1. CASE Stop
  BY <1>1 DEF Stop, TailsOwed
<1>2. CASE ScanGates
  <2>1. /\ Aims(agenda, "reject") \subseteq Aims(agenda', "reject")
        /\ Holds(agenda, "markers") => Holds(agenda', "markers")
    <3>1. CASE agenda' = Rest
      BY <1>2, <3>1, RestGrows DEF ScanGates, Kept
    <3>2. CASE agenda' = Do("reject", DeadGates) \o agenda
      <4>1. Do("reject", DeadGates) \in Seq(AgendaSteps)
        BY <1>0, SeriesTypes, NamesOfSteps, GatesAreProps
      <4>2. QED
        BY <3>2, <4>1, BeforeGrows DEF Grows, Kept
    <3>3. QED
      BY <1>2, <3>1, <3>2 DEF ScanGates
  <2>2. UNCHANGED <<op, proposals, store>> /\ up
    BY <1>2 DEF ScanGates
  <2>3. QED
    BY <2>1, <2>2, OwedKept
<1>3. CASE AllTold
  <2>1. /\ agenda # << >> /\ agenda' = Rest /\ Head(agenda)[1] = "markers" /\ up
        /\ Unmarked = {} /\ UNCHANGED <<op, proposals, mapping, store, up>>
    BY <1>3 DEF AllTold
  <2>2. Aims(agenda', "reject") = Aims(agenda, "reject")
    BY <2>1, RestGrows
  <2>3. ASSUME NEW q \in Props
        PROVE  /\ op'[q].state = "rejected" /\ proposals'[q].state = "pending" =>
                      q \in Aims(agenda', "reject")
               /\ proposals'[q].state = "rejected" =>
                      proposals'[q].marked \/ store'[q] = "published"
    <3>1. op'[q].state = "rejected" /\ proposals'[q].state = "pending" =>
              q \in Aims(agenda', "reject")
      BY <2>1, <2>2 DEF TailsOwed, Owed, Is
    <3>2. ASSUME proposals[q].state = "rejected", ~proposals[q].marked
          PROVE  store[q] = "published"
      <4>1. store[q] \notin {"none", "rejected"}
        BY <2>1, <3>2 DEF Unmarked
      <4>2. store[q] # "duplicate"
        BY <3>2 DEF DataInv, Mapped
      <4>3. QED
        BY <1>0, <4>1, <4>2 DEF DataTypes
    <3>3. QED
      BY <2>1, <3>1, <3>2
  <2>4. QED
    BY <2>3 DEF TailsOwed, Owed, Is
<1>4. CASE CloseTask \/ WorkerEnds \/ StartAttempt \/ IngestFinal
  <2>1. UNCHANGED <<op, proposals, store>> /\ up
    BY <1>4 DEF CloseTask, WorkerEnds, StartAttempt, IngestFinal, Idle
  <2>2. Grows
    BY <1>4, QuietGrows
  <2>3. QED
    BY <2>1, <2>2, OwedKept DEF Grows, Kept
<1>5. ASSUME NEW p \in Props,
             TellStore(p) \/ Mark(p) \/ RecordDuplicate(p) \/ PublishFact(p) \/ Replay(p)
      PROVE  TailsOwed'
  <2>1. Grows /\ op' = op /\ up
    <3>1. Grows
      BY <1>5, QuietGrows
    <3>2. op' = op /\ up
      BY <1>5 DEF TellStore, Mark, RecordDuplicate, PublishFact, Replay, Step
    <3>3. QED
      BY <3>1, <3>2
  <2>2. \A q \in Props : /\ proposals'[q].state = proposals[q].state
                         /\ proposals[q].marked => proposals'[q].marked
    <3>1. CASE proposals' = proposals
      BY <3>1
    <3>2. CASE proposals' = [proposals EXCEPT ![p].marked = TRUE]
      <4>1. proposals[p] \in Control /\ proposals \in [Props -> Control]
        BY <1>0 DEF DataTypes
      <4>2. proposals'[p] = [proposals[p] EXCEPT !.marked = TRUE]
            /\ \A q \in Props : q # p => proposals'[q] = proposals[q]
        BY <3>2, <4>1
      <4>3. proposals'[p].state = proposals[p].state /\ proposals'[p].marked
        BY <4>1, <4>2 DEF Control
      <4>4. QED
        BY <4>2, <4>3
    <3>3. QED
      BY <1>5, <3>1, <3>2 DEF TellStore, Mark, RecordDuplicate, PublishFact, Replay
  <2>3. \A q \in Props : proposals[q].state = "rejected" /\ store[q] = "published" =>
            store'[q] = "published"
    <3>1. store \in [Props -> {"none", "published", "duplicate", "rejected"}]
      BY <1>0 DEF DataTypes
    <3>2. CASE store' = store
      BY <3>2
    <3>3. CASE TellStore(p)
      BY <3>1, <3>3 DEF TellStore, Unmarked
    <3>4. CASE PublishFact(p)
      BY <3>1, <3>4 DEF PublishFact
    <3>5. CASE RecordDuplicate(p)
      <4>1. Fits("duplicate", p)
        BY <3>5, AtHead DEF RecordDuplicate, AtOnce
      <4>2. proposals[p].state # "rejected" /\ store' = [store EXCEPT ![p] = "duplicate"]
        BY <3>5, <4>1 DEF Fits, DataInv, Mapped, RecordDuplicate
      <4>3. QED
        BY <3>1, <4>2
    <3>6. QED
      BY <1>5, <3>2, <3>3, <3>4, <3>5 DEF Mark, Replay
  <2>4. QED
    BY <2>1, <2>2, <2>3, OwedKept DEF Grows, Kept
<1>6. QED
  BY <1>1, <1>2, <1>3, <1>4, <1>5 DEF QuietStep

(* A cascade puts what it owes on the agenda.                              *)
LEMMA CascadeOwed ==
    ASSUME DataInv, Agenda, TailsOwed, CascadeStep
    PROVE  TailsOwed'
<1>1. CASE Recover
  <2>1. CascadeOf(Disowned) /\ Disowned \in SUBSET Props
    BY <1>1, CascadeSteps
  <2>2. PICK t : agenda' = Do("replay", Declared) \o Markers \o FinalScan \o Close(t)
    BY <1>1 DEF Recover
  <2>3. Holds(agenda', "markers")
    BY <2>2, RecoverySteps
  <2>4. ASSUME NEW q \in Props, op'[q].state = "rejected", proposals'[q].state = "pending"
        PROVE  FALSE
    <3>1. q \notin Hit(Disowned)
      BY <2>1, <2>4, CascadeFacts
    <3>2. op[q].state = "rejected"
      BY <2>1, <2>4, <3>1, CascadeFacts
    <3>3. q \notin mapping
      BY <3>2 DEF DataInv, Mapped
    <3>4. q \in Disowned
      BY <3>2, <3>3 DEF Disowned, Is
    <3>5. QED
      BY <2>1, <3>1, <3>3, <3>4, CascadeFacts
  <2>5. QED
    BY <2>3, <2>4 DEF TailsOwed, Owed, Is
<1>2. ASSUME NEW p \in Props, RejectProposal(p) \/ Refused(p) PROVE TailsOwed'
  <2>1. CascadeOf({p}) /\ {p} \in SUBSET Props
    BY <1>2, CascadeSteps
  <2>2. PICK n \in {"reject", "refused"}, b \in Seq(AgendaSteps) :
            Step(n, p) /\ Then(p, b) /\ Holds(b, "markers")
    <3>1. CASE RejectProposal(p)
      BY <3>1, SeriesTypes, PlainSteps DEF RejectProposal
    <3>2. CASE Refused(p)
      <4>1. PICK t : Step("refused", p) /\ Then(p, Markers \o Close(t))
        BY <3>2 DEF Refused
      <4>2. Markers \o Close(t) \in Seq(AgendaSteps) /\ Holds(Markers \o Close(t), "markers")
        BY SeriesTypes, MarkersClose
      <4>3. QED
        BY <4>1, <4>2
    <3>3. QED
      BY <1>2, <3>1, <3>2
  <2>3. /\ Holds(agenda', "markers")
        /\ Aims(agenda, "reject") \subseteq Aims(agenda', "reject") \cup {p}
    BY <2>2, ThenGrows
  <2>4. ASSUME NEW q \in Props, op'[q].state = "rejected", proposals'[q].state = "pending"
        PROVE  q \in Aims(agenda', "reject")
    <3>1. q \notin Hit({p})
      BY <2>1, <2>4, CascadeFacts
    <3>2. op[q].state = "rejected" /\ (proposals[q].state = "pending" \/ q \in mapping)
      BY <2>1, <2>4, <3>1, CascadeFacts
    <3>3. q \notin mapping
      BY <3>2 DEF DataInv, Mapped
    <3>4. q # p
      BY <2>1, <3>1, <3>3, CascadeFacts
    <3>5. q \in Aims(agenda, "reject")
      BY <2>2, <3>2, <3>3 DEF TailsOwed, Owed, Is, Step
    <3>6. QED
      BY <2>3, <3>4, <3>5
  <2>5. QED
    BY <2>3, <2>4 DEF TailsOwed, Owed, Is
<1>3. QED
  BY <1>1, <1>2 DEF CascadeStep

(* No step forgets what is owed for a refusal.                             *)
LEMMA TailsKept ==
    ASSUME DataInv, Agenda, TailsOwed, ProposalNext
    PROVE  TailsOwed'
<1>0. DataTypes
  BY DEF DataInv
<1>1. ASSUME NEW p \in Props, MoveStep(p) PROVE TailsOwed'
  <2>1. Grows
    BY <1>1, StepGrows
  <2>2. UNCHANGED <<proposals, store>> /\ up
    BY <1>1 DEF MoveStep, Route, FoundNew, FoundUnchanged, FoundIncorrect, Refuse,
       DuplicateFails, PublicationFails, Abandon, Idle, Step
  <2>3. ASSUME NEW q \in Props, op'[q].state = "rejected"
        PROVE  op[q].state = "rejected" \/ q \in Aims(agenda', "reject")
    <3>1. CASE FoundUnchanged(p) \/ FoundIncorrect(p)
      <4>1. PICK t : /\ agenda' = Do("reject", {p}) \o Close(t)
                     /\ op' = [op EXCEPT ![p].state = "rejected"]
        BY <3>1 DEF FoundUnchanged, FoundIncorrect, Refuse
      <4>2. q # p => op'[q] = op[q]
        BY <1>0, <4>1 DEF DataTypes
      <4>3. p \in Aims(agenda', "reject")
        BY <4>1, RejectClose
      <4>4. QED
        BY <2>3, <4>2, <4>3
    <3>2. CASE ~(FoundUnchanged(p) \/ FoundIncorrect(p))
      <4>1. op' = op \/ \E s \in OpStates : s # "rejected" /\ op' = [op EXCEPT ![p].state = s]
        BY <1>1, <3>2 DEF MoveStep, Route, FoundNew, DuplicateFails, PublicationFails,
           Abandon, OpStates, Open, Final
      <4>2. CASE op' = op
        BY <2>3, <4>2
      <4>3. ASSUME NEW s \in OpStates, s # "rejected", op' = [op EXCEPT ![p].state = s]
            PROVE  op[q].state = "rejected"
        <5>1. op'[p].state = s /\ \A r \in Props : r # p => op'[r] = op[r]
          BY <1>0, <4>3, StateSet DEF DataTypes
        <5>2. QED
          BY <2>3, <4>3, <5>1
      <4>4. QED
        BY <4>1, <4>2, <4>3
    <3>3. QED
      BY <3>1, <3>2
  <2>4. QED
    BY <2>1, <2>2, <2>3, OwedKept DEF Grows, Kept
<1>2. ASSUME NEW p \in Props, FoundCorrect(p) PROVE TailsOwed'
  <2>1. Grows
    BY <1>2, StepGrows
  <2>2. UNCHANGED <<proposals, store>> /\ up /\ op' = [op EXCEPT ![p].verified = TRUE]
    BY <1>2 DEF FoundCorrect, Idle
  <2>3. \A q \in Props : op'[q].state = op[q].state
    <3>1. op[p] \in OpRecord /\ op \in [Props -> OpRecord]
      BY <1>0 DEF DataTypes
    <3>2. op'[p] = [op[p] EXCEPT !.verified = TRUE] /\ \A q \in Props : q # p => op'[q] = op[q]
      BY <2>2, <3>1
    <3>3. op'[p].state = op[p].state
      BY <3>1, <3>2 DEF OpRecord
    <3>4. QED
      BY <3>2, <3>3
  <2>4. QED
    BY <2>1, <2>2, <2>3, OwedKept DEF Grows, Kept
<1>3. ASSUME NEW p \in Props, FoundDuplicate(p) \/ FactPublished(p) PROVE TailsOwed'
  <2>1. Grows
    BY <1>3, StepGrows
  <2>2. /\ UNCHANGED store /\ up /\ op' = [op EXCEPT ![p].state = "committed"]
        /\ mapping' = mapping \cup {p}
        /\ proposals' = proposals \/ proposals' = Ensured(mapping')
    BY <1>3 DEF FoundDuplicate, FactPublished, Idle, Step
  <2>3. \A q \in Props : op'[q].state \in {"committed", op[q].state}
    <3>1. op[p] \in OpRecord /\ op \in [Props -> OpRecord]
      BY <1>0 DEF DataTypes
    <3>2. op'[p] = [op[p] EXCEPT !.state = "committed"]
          /\ \A q \in Props : q # p => op'[q] = op[q]
      BY <2>2, <3>1
    <3>3. op'[p].state = "committed"
      BY <3>1, <3>2 DEF OpRecord
    <3>4. QED
      BY <3>2, <3>3
  <2>4. mapping' \in SUBSET Props
    BY <1>0, <2>2 DEF DataTypes
  <2>5. \A q \in Props : proposals'[q] = proposals[q] \/ proposals'[q].state = "resolved"
    BY <1>0, <2>2, <2>4, EnsuredSet DEF DataTypes
  <2>6. QED
    BY <2>1, <2>2, <2>3, <2>5, OwedKept DEF Grows, Kept
<1>4. ASSUME NEW p \in Props, ResolveGate(p) PROVE TailsOwed'
  <2>1. Grows
    BY <1>4, StepGrows
  <2>2. UNCHANGED store /\ up
    BY <1>4 DEF ResolveGate, Step
  <2>3. \A q \in Props :
           /\ op'[q].state \in {op[q].state, "received"}
           /\ proposals'[q] = proposals[q] \/ proposals'[q].state = "resolved"
    BY <1>4, ResolveKeeps
  <2>4. QED
    BY <2>1, <2>2, <2>3, OwedKept DEF Grows, Kept
<1>5. ASSUME NEW p \in Props, NEW explicit \in SUBSET Props, NEW body \in SUBSET Props,
             NEW final \in BOOLEAN, DeclareStep(p, explicit, body, final)
      PROVE  TailsOwed'
  <2>1. Grows
    BY <1>5, StepGrows
  <2>2. UNCHANGED store /\ up
    BY <1>5 DEF DeclareStep, IngestFact, Idle
  <2>3. /\ \A q \in Props : q # p => op'[q] = op[q] /\ proposals'[q] = proposals[q]
        /\ proposals'[p].state = "pending"
    BY <1>5, IngestKeeps DEF DeclareStep
  <2>4. op'[p].state = "rejected" => p \in Aims(agenda', "reject")
    BY <1>5, DeclareSeries
  <2>5. \A q \in Props :
           /\ op'[q].state = "rejected" /\ proposals'[q].state = "pending" =>
                  \/ op[q].state = "rejected" /\ proposals[q].state = "pending"
                  \/ q \in Aims(agenda', "reject")
           /\ proposals'[q].state = "rejected" => proposals'[q] = proposals[q]
    BY <2>3, <2>4
  <2>6. QED
    BY <2>1, <2>2, <2>5, OwedKept DEF Grows, Kept
<1>6. CASE QuietStep \/ CascadeStep
  BY <1>6, QuietOwed, CascadeOwed
<1>7. QED
  BY <1>1, <1>2, <1>3, <1>4, <1>5, <1>6, StepKinds

(***************************************************************************)
(* Paths to publication.                                                   *)
(***************************************************************************)
(* A proposal waits for its gates.                                         *)
Held(p) == Is(p, "waiting_predecessors")

(* A step keeps the paths, but for the proposals of H that it refuses.     *)
LEMMA PathsKept ==
    ASSUME DataTypes, DataTypes', WaitingReach, NEW H \in SUBSET Props,
           \A p \in Props :
              /\ p \in Based(Aims(agenda, "reject")) =>
                     p \in Based(Aims(agenda, "reject"))' \cup H
              /\ Held(p) => Held(p)' \/ p \in Based(Aims(agenda, "reject"))' \cup H
              /\ OpenGates(p)' \subseteq OpenGates(p)
              /\ Held(p) /\ OpenGates(p) \cap H # {} => p \in H
              /\ Held(p)' => Held(p) /\ p \notin H,
           Aims(agenda, "reject") \subseteq Props
    PROVE  WaitingReach'
<1> DEFINE old == Based(Aims(agenda, "reject"))
           new == Based(Aims(agenda, "reject"))'
<1>1. \A p \in Props :
              /\ p \in old => p \in new \cup H
              /\ Held(p) => Held(p)' \/ p \in new \cup H
              /\ OpenGates(p)' \subseteq OpenGates(p)
              /\ Held(p) /\ OpenGates(p) \cap H # {} => p \in H
              /\ Held(p)' => Held(p) /\ p \notin H
  OBVIOUS
<1>2. old \subseteq Props
  BY DEF Based, DataTypes
<1>3. ASSUME NEW p \in Props, Held(p)', NEW S \in SUBSET Props, new \subseteq S,
             \A r \in Props : Held(r)' /\ OpenGates(r)' \subseteq S => r \in S
      PROVE  p \in S
  <2> DEFINE T == S \cup H
  <2>1. old \subseteq T
    <3> HIDE DEF old, new
    <3>1. QED
      BY <1>1, <1>2, <1>3
  <2>2. ASSUME NEW r \in Props, Held(r), OpenGates(r) \subseteq T
        PROVE  r \in T
    <3> HIDE DEF old, new
    <3>1. CASE OpenGates(r) \cap H # {}
      BY <1>1, <2>2, <3>1
    <3>2. CASE OpenGates(r) \cap H = {}
      <4>1. OpenGates(r)' \subseteq S
        BY <1>1, <2>2, <3>2
      <4>2. CASE Held(r)'
        BY <1>3, <4>1, <4>2
      <4>3. CASE r \in new \cup H
        BY <1>3, <4>3
      <4>4. QED
        BY <1>1, <2>2, <4>2, <4>3
    <3>3. QED
      BY <3>1, <3>2
  <2>3. Reaches(Aims(agenda, "reject"), p) /\ p \notin H
    BY <1>1, <1>3 DEF WaitingReach, Held
  <2>4. p \in T
    <3>1. T \in SUBSET Props
      OBVIOUS
    <3>2. ClosedFrom(Aims(agenda, "reject"), T)
      <4> HIDE DEF T
      <4>1. QED
        BY <2>1, <2>2 DEF ClosedFrom, Held
    <3> HIDE DEF T
    <3>3. QED
      BY <2>3, <3>1, <3>2 DEF Reaches
  <2>5. QED
    BY <2>3, <2>4
<1>4. ASSUME NEW p \in Props, Held(p)', NEW S \in SUBSET Props,
             ClosedFrom(Aims(agenda, "reject"), S)'
      PROVE  p \in S
  <2>1. /\ new \subseteq S
        /\ \A r \in Props : Held(r)' /\ OpenGates(r)' \subseteq S => r \in S
    BY <1>4 DEF ClosedFrom, Held
  <2> HIDE DEF new
  <2>2. QED
    BY <1>3, <1>4, <2>1
<1>5. \A p \in Props : Held(p)' => Reaches(Aims(agenda, "reject"), p)'
  BY <1>4 DEF Reaches
<1>6. QED
  BY <1>5 DEF WaitingReach, Held

(* The least set of the scan, by its paths.                                *)
LEMMA PublishableReaches ==
    \A q \in Props : q \in Publishable <=> Reaches({}, q)
BY DEF Publishable, Reaches, ClosedFrom, Based

(* A scan that finds nothing leaves no proposal without a path.            *)
LEMMA ScanFindsAll ==
    ASSUME DataTypes, DeadGates = {}, NEW p \in Props, Held(p)
    PROVE  p \in Publishable
<1> DEFINE refused == {g \in Props : proposals[g].state \in {"none", "rejected"}
                                     \/ op[g].state \in {"rejected", "abandoned"}}
           stuck == {g \in Props : proposals[g].state = "pending"} \ Publishable
<1>1. OpenGates(p) \subseteq Props
  BY GatesAreProps
<1>2. op[p].state \in Open
  BY DEF Held, Is, Open
<1>3. OpenGates(p) \cap refused = {} /\ OpenGates(p) \cap stuck = {}
  BY <1>2 DEF DeadGates, Held
<1>4. ASSUME NEW g \in OpenGates(p)
      PROVE  g \in Props /\ (proposals[g].state = "resolved" \/ g \in Publishable)
  <2>1. g \in Props /\ proposals[g] \in Control
    BY <1>1 DEF DataTypes
  <2>2. proposals[g].state \notin {"none", "rejected"}
    BY <1>3, <2>1
  <2>3. proposals[g].state = "pending" => g \in Publishable
    BY <1>3, <2>1
  <2>4. proposals[g].state \in {"none", "pending", "resolved", "rejected"}
    BY <2>1 DEF Control
  <2>5. QED
    BY <2>1, <2>2, <2>3, <2>4
<1>5. ASSUME NEW S \in SUBSET Props, ClosedFrom({}, S)
      PROVE  p \in S
  <2>1. \A g \in OpenGates(p) : g \in S
    BY <1>4, <1>5, PublishableReaches DEF Reaches, ClosedFrom, Based
  <2>2. OpenGates(p) \subseteq S
    BY <2>1
  <2>3. QED
    BY <1>5, <2>2 DEF ClosedFrom, Held
<1>6. QED
  BY <1>5, PublishableReaches DEF Reaches

(* When the paths of what waits are kept: with the agenda growing, and     *)
(* nothing refused.                                                        *)
LEMMA GrownPaths ==
    ASSUME DataTypes, DataTypes', Agenda, WaitingReach, mapping \subseteq mapping',
           Aims(agenda, "reject") \subseteq Aims(agenda', "reject"),
           \A p \in Props :
              /\ OpenGates(p)' \subseteq OpenGates(p)
              /\ Held(p)' => Held(p)
              /\ proposals[p].state = "resolved" => proposals'[p].state = "resolved"
              /\ op[p].state \in Open => \/ op'[p].state \in Open /\ (Held(p) \/ ~Held(p)')
                                         \/ p \in mapping' \cup Aims(agenda', "reject")
    PROVE  WaitingReach'
<1>1. Aims(agenda, "reject") \subseteq Props
  BY DEF Agenda, Aims, AgendaSteps
<1>3. ASSUME NEW p \in Props, p \in Based(Aims(agenda, "reject"))
      PROVE  p \in Based(Aims(agenda, "reject"))'
  BY <1>3 DEF Based, Held
<1>4. ASSUME NEW p \in Props, Held(p)
      PROVE  Held(p)' \/ p \in Based(Aims(agenda, "reject"))'
  <2>1. op[p].state \in Open
    BY <1>4 DEF Held, Is, Open
  <2>2. QED
    BY <1>4, <2>1 DEF Based, Held
<1> DEFINE H == {}
<1>5. /\ H \in SUBSET Props
      /\ \A p \in Props :
              /\ p \in Based(Aims(agenda, "reject")) =>
                     p \in Based(Aims(agenda, "reject"))' \cup H
              /\ Held(p) => Held(p)' \/ p \in Based(Aims(agenda, "reject"))' \cup H
              /\ OpenGates(p)' \subseteq OpenGates(p)
              /\ Held(p) /\ OpenGates(p) \cap H # {} => p \in H
              /\ Held(p)' => Held(p) /\ p \notin H
  BY <1>3, <1>4
<1> HIDE DEF H
<1>6. QED
  BY <1>1, <1>5, PathsKept

(* ... and with a cascade.                                                 *)
LEMMA CascadePaths ==
    ASSUME DataInv, DataInv', Agenda, WaitingReach, NEW roots \in SUBSET Props, CascadeOf(roots),
           Aims(agenda, "reject") \subseteq Aims(agenda', "reject") \cup roots
    PROVE  WaitingReach'
<1> DEFINE H == Hit(roots)
<1>0. DataTypes /\ DataTypes' /\ Mapped
  BY DEF DataInv
<1>a. /\ Hit(roots) \subseteq Props /\ roots \subseteq Hit(roots) \cup mapping
      /\ \A q \in Hit(roots) : Dependents(q) \subseteq Hit(roots)
      /\ UNCHANGED <<mapping, store>>
      /\ \A q \in Props :
            /\ q \in Hit(roots) => /\ proposals'[q].state = "rejected"
                                   /\ op'[q].state \notin Open
            /\ q \notin Hit(roots) =>
                  /\ op'[q].state = op[q].state
                  /\ \/ proposals'[q].state = proposals[q].state
                     \/ q \in mapping /\ proposals'[q].state = "resolved"
            /\ op'[q].state \in {op[q].state, "rejected"}
            /\ OpenGates(q)' = OpenGates(q)
  BY CascadeFacts
<1>1. /\ H \subseteq Props /\ roots \subseteq H \cup mapping
      /\ \A q \in H : Dependents(q) \subseteq H
      /\ mapping' = mapping
      /\ \A q \in Props :
            /\ q \in H => op'[q].state \notin Open
            /\ q \notin H =>
                  /\ op'[q].state = op[q].state
                  /\ \/ proposals'[q].state = proposals[q].state
                     \/ q \in mapping /\ proposals'[q].state = "resolved"
            /\ op'[q].state \in {op[q].state, "rejected"}
            /\ OpenGates(q)' = OpenGates(q)
  BY <1>a
<1> HIDE DEF H
<1>2. Aims(agenda, "reject") \subseteq Props
  BY DEF Agenda, Aims, AgendaSteps
<1>3. ASSUME NEW p \in Props, p \in Based(Aims(agenda, "reject"))
      PROVE  p \in Based(Aims(agenda, "reject"))' \cup H
  <2>1. CASE p \in H
    BY <2>1
  <2>2. CASE p \in Aims(agenda, "reject") /\ p \notin H
    BY <1>1, <2>2 DEF Based
  <2>3. CASE (p \in mapping \/ proposals[p].state = "resolved") /\ p \notin H
    BY <1>1, <2>3 DEF Based
  <2>4. CASE op[p].state \in Open /\ ~Is(p, "waiting_predecessors") /\ p \notin H
    BY <1>1, <2>4 DEF Based, Is
  <2>5. QED
    BY <1>3, <2>1, <2>2, <2>3, <2>4 DEF Based
<1>4. ASSUME NEW p \in Props
      PROVE  /\ Held(p) => Held(p)' \/ p \in H
             /\ Held(p)' => Held(p) /\ p \notin H
  BY <1>1 DEF Held, Is, Open
<1>5. ASSUME NEW p \in Props, Held(p), OpenGates(p) \cap H # {}
      PROVE  p \in H
  <2>1. PICK g \in OpenGates(p) : g \in H
    BY <1>5
  <2>2. p \in Dependents(g)
    BY <1>5 DEF Dependents, Held, Is
  <2>3. QED
    BY <1>1, <2>1, <2>2
<1>6. \A p \in Props :
              /\ p \in Based(Aims(agenda, "reject")) =>
                     p \in Based(Aims(agenda, "reject"))' \cup H
              /\ Held(p) => Held(p)' \/ p \in Based(Aims(agenda, "reject"))' \cup H
              /\ OpenGates(p)' \subseteq OpenGates(p)
              /\ Held(p) /\ OpenGates(p) \cap H # {} => p \in H
              /\ Held(p)' => Held(p) /\ p \notin H
  BY <1>1, <1>3, <1>4, <1>5
<1>7. QED
  BY <1>0, <1>1, <1>2, <1>6, PathsKept

(* A quiet step leaves every path to publication.                          *)
LEMMA QuietScan ==
    ASSUME DataInv, DataInv', Agenda, ScanOwed, QuietStep
    PROVE  ScanOwed'
<1>0. DataTypes /\ DataTypes' /\ task \in TaskRecord
  BY DEF DataInv, DataTypes
<1>1. CASE Stop
  BY <1>1 DEF Stop, ScanOwed
<1>2. CASE IngestFinal
  <2>1. PICK t : agenda' = Terminalize \o Close(t)
    BY <1>2 DEF IngestFinal
  <2>2. Plain(Terminalize) /\ Plain(Close(t)) /\ Holds(Terminalize, "terminalize")
    BY PlainParts, PlainSteps
  <2> DEFINE b == Terminalize
             c == Close(t)
  <2>3. Plain(b) /\ Plain(c) /\ Holds(b, "terminalize") /\ agenda' = b \o c
    BY <2>1, <2>2
  <2> HIDE DEF b, c
  <2>4. Holds(agenda', "terminalize")
    BY <2>3, JoinedPlain
  <2>5. QED
    BY <2>4 DEF ScanOwed
<1>3. CASE ScanGates
  <2>1. /\ agenda # << >> /\ Head(agenda)[1] = "terminalize" /\ up
        /\ UNCHANGED <<op, proposals, mapping, store, task, up>>
    BY <1>3 DEF ScanGates
  <2>2. CASE DeadGates # {}
    <3>1. agenda' = Do("reject", DeadGates) \o agenda /\ Holds(agenda, "terminalize")
      BY <1>3, <2>1, <2>2, FirstStep DEF ScanGates, Agenda
    <3>2. Do("reject", DeadGates) \in Seq(AgendaSteps)
      BY <1>0, SeriesTypes, NamesOfSteps, GatesAreProps
    <3>3. Holds(agenda', "terminalize")
      BY <3>1, <3>2, BeforeGrows DEF Grows, Kept
    <3>4. QED
      BY <3>3 DEF ScanOwed
  <2>3. CASE DeadGates = {}
    <3>1. \A p \in Props : Held(p) => Reaches({}, p)
      BY <1>0, <2>3, ScanFindsAll, PublishableReaches
    <3>2. ASSUME NEW p \in Props, Held(p), NEW S \in SUBSET Props,
                 ClosedFrom(Aims(agenda, "reject"), S)'
          PROVE  p \in S
      <4>1. ClosedFrom({}, S)
        BY <2>1, <3>2 DEF ClosedFrom, Based, Is, OpenGates, Gates
      <4>2. QED
        BY <3>1, <3>2, <4>1 DEF Reaches
    <3>3. \A p \in Props : Held(p)' => Reaches(Aims(agenda, "reject"), p)'
      BY <2>1, <3>2 DEF Reaches, Held, Is
    <3>4. QED
      BY <3>3 DEF ScanOwed, WaitingReach, Held
  <2>4. QED
    BY <2>2, <2>3
<1>4. ASSUME up, UNCHANGED <<op, mapping>>, task'.final = task.final,
             \A p \in Props : proposals'[p].state = proposals[p].state,
             Aims(agenda, "reject") \subseteq Aims(agenda', "reject"),
             Holds(agenda, "terminalize") => Holds(agenda', "terminalize")
      PROVE  ScanOwed'
  <2>1. ASSUME WaitingReach PROVE WaitingReach'
    <3>1. \A p \in Props : OpenGates(p)' = OpenGates(p) /\ (Held(p)' <=> Held(p))
      BY <1>4 DEF OpenGates, Gates, Held, Is
    <3>2. QED
      BY <1>0, <1>4, <2>1, <3>1, GrownPaths
  <2>2. QED
    BY <1>4, <2>1 DEF ScanOwed
<1>5. CASE AllTold
  <2>1. /\ agenda # << >> /\ agenda' = Rest /\ Head(agenda)[1] = "markers" /\ up
        /\ UNCHANGED <<op, proposals, mapping, store, up, task>>
    BY <1>5 DEF AllTold
  <2>2. /\ Aims(agenda', "reject") = Aims(agenda, "reject")
        /\ Holds(agenda, "terminalize") => Holds(agenda', "terminalize")
    BY <2>1, RestGrows
  <2>3. QED
    BY <1>4, <2>1, <2>2
<1>6. CASE CloseTask \/ WorkerEnds \/ StartAttempt
  <2>1. UNCHANGED <<op, proposals, mapping>> /\ up
    BY <1>6 DEF CloseTask, WorkerEnds, StartAttempt, Idle
  <2>2. task'.final = task.final
    <3>1. CASE CloseTask
      BY <1>0, <3>1 DEF CloseTask, Closed, TaskRecord
    <3>2. CASE WorkerEnds
      BY <1>0, <3>2 DEF WorkerEnds, Interrupted, GivenUp, TaskRecord
    <3>3. CASE StartAttempt
      BY <1>0, <3>3 DEF StartAttempt, TaskRecord
    <3>4. QED
      BY <1>6, <3>1, <3>2, <3>3
  <2>3. Grows
    BY <1>6, QuietGrows
  <2>4. QED
    BY <1>4, <2>1, <2>2, <2>3 DEF Grows, Kept
<1>7. ASSUME NEW p \in Props,
             TellStore(p) \/ Mark(p) \/ RecordDuplicate(p) \/ PublishFact(p) \/ Replay(p)
      PROVE  ScanOwed'
  <2>1. Grows
    BY <1>7, QuietGrows
  <2>2. UNCHANGED <<op, mapping, task>> /\ up
    BY <1>7 DEF TellStore, Mark, RecordDuplicate, PublishFact, Replay, Step
  <2>3. \A q \in Props : proposals'[q].state = proposals[q].state
    <3>1. CASE proposals' = proposals
      BY <3>1
    <3>2. CASE proposals' = [proposals EXCEPT ![p].marked = TRUE]
      <4>1. proposals[p] \in Control /\ proposals \in [Props -> Control]
        BY <1>0 DEF DataTypes
      <4>2. proposals'[p] = [proposals[p] EXCEPT !.marked = TRUE]
            /\ \A q \in Props : q # p => proposals'[q] = proposals[q]
        BY <3>2, <4>1
      <4>3. proposals'[p].state = proposals[p].state
        BY <4>1, <4>2 DEF Control
      <4>4. QED
        BY <4>2, <4>3
    <3>3. QED
      BY <1>7, <3>1, <3>2 DEF TellStore, Mark, RecordDuplicate, PublishFact, Replay
  <2>4. QED
    BY <1>4, <2>1, <2>2, <2>3 DEF Grows, Kept
<1>8. QED
  BY <1>1, <1>2, <1>3, <1>5, <1>6, <1>7 DEF QuietStep

(* A cascade takes paths from what it is about to refuse alone.            *)
LEMMA CascadeScan ==
    ASSUME DataInv, DataInv', Agenda, ScanOwed, CascadeStep
    PROVE  ScanOwed'
<1>1. CASE Recover
  <2>1. PICK t : agenda' = Do("replay", Declared) \o Markers \o FinalScan \o Close(t)
    BY <1>1 DEF Recover
  <2>2. task.final => Holds(agenda', "terminalize")
    BY <2>1, RecoverySteps
  <2>3. CascadeOf(Disowned) /\ Disowned \in SUBSET Props
    BY <1>1, CascadeSteps
  <2>4. task'.final = task.final
    BY <2>3, CascadesCareful
  <2>5. QED
    BY <2>2, <2>4 DEF ScanOwed
<1>2. ASSUME NEW p \in Props, RejectProposal(p) \/ Refused(p) PROVE ScanOwed'
  <2>1. CascadeOf({p}) /\ {p} \in SUBSET Props
    BY <1>2, CascadeSteps
  <2>2. PICK n \in {"reject", "refused"}, b \in Seq(AgendaSteps) : Step(n, p) /\ Then(p, b)
    <3>1. CASE RejectProposal(p)
      BY <3>1, SeriesTypes DEF RejectProposal
    <3>2. CASE Refused(p)
      <4>1. PICK t : Step("refused", p) /\ Then(p, Markers \o Close(t))
        BY <3>2 DEF Refused
      <4>2. QED
        BY <4>1, SeriesTypes
    <3>3. QED
      BY <1>2, <3>1, <3>2
  <2>3. /\ Aims(agenda, "reject") \subseteq Aims(agenda', "reject") \cup {p}
        /\ Holds(agenda, "terminalize") => Holds(agenda', "terminalize")
    BY <2>2, ThenGrows DEF Kept
  <2>4. task'.final = task.final
    BY <2>1, CascadesCareful
  <2>5. ASSUME WaitingReach PROVE WaitingReach'
    BY <2>1, <2>3, <2>5, CascadePaths
  <2>6. up
    BY <2>2 DEF Step
  <2>7. QED
    BY <2>3, <2>4, <2>5, <2>6 DEF ScanOwed
<1>3. QED
  BY <1>1, <1>2 DEF CascadeStep

(* What a step does that gives one operation a new state.                  *)
LEMMA MoveKinds ==
    ASSUME DataInv, Agenda, NEW p \in Props, MoveStep(p)
    PROVE  \/ op' = op
           \/ \E s \in {"synthesizing", "verifying", "needs_attention"} :
                 op' = [op EXCEPT ![p].state = s]
           \/ /\ \E s \in {"rejected", "abandoned"} : op' = [op EXCEPT ![p].state = s]
              /\ p \in Aims(agenda', "reject")
<1>1. CASE Route(p)
  <2>1. Is(p, "received") => OpenGates(p) = {}
    BY DEF DataInv, Cited, Passed, Is
  <2>2. QED
    BY <1>1, <2>1 DEF Route
<1>2. CASE FoundNew(p) \/ DuplicateFails(p) \/ PublicationFails(p)
  BY <1>2 DEF FoundNew, DuplicateFails, PublicationFails
<1>3. CASE FoundUnchanged(p) \/ FoundIncorrect(p) \/ Abandon(p)
  <2>1. PICK t : agenda' = Do("reject", {p}) \o Close(t)
    BY <1>3 DEF FoundUnchanged, FoundIncorrect, Refuse, Abandon
  <2>2. p \in Aims(agenda', "reject")
    BY <2>1, RejectClose
  <2>3. \E s \in {"rejected", "abandoned"} : op' = [op EXCEPT ![p].state = s]
    BY <1>3 DEF FoundUnchanged, FoundIncorrect, Refuse, Abandon
  <2>4. QED
    BY <2>2, <2>3
<1>4. QED
  BY <1>1, <1>2, <1>3 DEF MoveStep

(* Once the final receipt has been scanned, whatever waits keeps a path.   *)
LEMMA ScanKept ==
    ASSUME DataInv, Agenda, ScanOwed, ProposalNext
    PROVE  ScanOwed'
<1>0. DataInv' /\ DataTypes /\ DataTypes'
  BY DataKept DEF DataInv
<1>1. ASSUME up, Grows, task'.final = task.final, WaitingReach => WaitingReach'
      PROVE  ScanOwed'
  BY <1>1 DEF ScanOwed, Grows, Kept
<1>2. ASSUME NEW p \in Props, MoveStep(p) PROVE ScanOwed'
  <2>1. Grows /\ task'.final = task.final /\ Careful
    BY <1>2, StepGrows, MoveSteps
  <2>2. UNCHANGED <<proposals, mapping>> /\ up
    BY <1>2 DEF MoveStep, Route, FoundNew, FoundUnchanged, FoundIncorrect, Refuse,
       DuplicateFails, PublicationFails, Abandon, Idle, Step
  <2>3. \A q \in Props : OpenGates(q)' \subseteq OpenGates(q)
    BY <2>1 DEF Careful, OpenGates, Gates
  <2>4. \A q \in Props :
           /\ Held(q)' => Held(q)
           /\ op[q].state \in Open => \/ op'[q].state \in Open /\ (Held(q) \/ ~Held(q)')
                                      \/ q \in Aims(agenda', "reject")
    <3>1. CASE op' = op
      BY <3>1 DEF Held, Is
    <3>2. ASSUME NEW s \in {"synthesizing", "verifying", "needs_attention"},
                 op' = [op EXCEPT ![p].state = s]
          PROVE  \A q \in Props :
                    /\ Held(q)' => Held(q)
                    /\ op[q].state \in Open => op'[q].state \in Open /\ (Held(q) \/ ~Held(q)')
      <4>1. s \in OpStates /\ s \in Open /\ s # "waiting_predecessors"
        BY DEF OpStates, Open
      <4>2. op'[p].state = s /\ \A q \in Props : q # p => op'[q] = op[q]
        BY <1>0, <3>2, <4>1, StateSet DEF DataTypes
      <4>3. QED
        BY <4>1, <4>2 DEF Held, Is
    <3>3. ASSUME NEW s \in {"rejected", "abandoned"}, op' = [op EXCEPT ![p].state = s],
                 p \in Aims(agenda', "reject")
          PROVE  \A q \in Props :
                    /\ Held(q)' => Held(q)
                    /\ op[q].state \in Open => \/ op'[q].state \in Open /\ (Held(q) \/ ~Held(q)')
                                               \/ q \in Aims(agenda', "reject")
      <4>1. s \in OpStates /\ s # "waiting_predecessors"
        BY DEF OpStates, Final
      <4>2. op'[p].state = s /\ \A q \in Props : q # p => op'[q] = op[q]
        BY <1>0, <3>3, <4>1, StateSet DEF DataTypes
      <4>3. QED
        BY <3>3, <4>1, <4>2 DEF Held, Is
    <3>4. QED
      BY <1>2, <3>1, <3>2, <3>3, MoveKinds
  <2>5. WaitingReach => WaitingReach'
    BY <1>0, <2>1, <2>2, <2>3, <2>4, GrownPaths DEF Grows
  <2>6. QED
    BY <1>1, <2>1, <2>2, <2>5
<1>3. ASSUME NEW p \in Props, FoundCorrect(p) PROVE ScanOwed'
  <2>1. Grows /\ task' = task /\ Careful
    BY <1>3, StepGrows, CorrectCareful
  <2>2. UNCHANGED <<proposals, mapping>> /\ up /\ op' = [op EXCEPT ![p].verified = TRUE]
    BY <1>3 DEF FoundCorrect, Idle
  <2>3. \A q \in Props : OpenGates(q)' \subseteq OpenGates(q)
    BY <2>1 DEF Careful, OpenGates, Gates
  <2>4. \A q \in Props : op'[q].state = op[q].state
    <3>1. op[p] \in OpRecord /\ op \in [Props -> OpRecord]
      BY <1>0 DEF DataTypes
    <3>2. op'[p] = [op[p] EXCEPT !.verified = TRUE] /\ \A q \in Props : q # p => op'[q] = op[q]
      BY <2>2, <3>1
    <3>3. op'[p].state = op[p].state
      BY <3>1, <3>2 DEF OpRecord
    <3>4. QED
      BY <3>2, <3>3
  <2>5. \A q \in Props : Held(q)' <=> Held(q)
    BY <2>4 DEF Held, Is
  <2>6. WaitingReach => WaitingReach'
    BY <1>0, <2>1, <2>2, <2>3, <2>4, <2>5, GrownPaths DEF Grows
  <2>7. QED
    BY <1>1, <2>1, <2>2, <2>6
<1>4. ASSUME NEW p \in Props, FoundDuplicate(p) \/ FactPublished(p) PROVE ScanOwed'
  <2>1. Grows /\ task' = task /\ Careful
    BY <1>4, StepGrows, CommitSteps
  <2>2. /\ up /\ op' = [op EXCEPT ![p].state = "committed"] /\ mapping' = mapping \cup {p}
        /\ proposals' = proposals \/ proposals' = Ensured(mapping')
    BY <1>4 DEF FoundDuplicate, FactPublished, Idle, Step
  <2>3. \A q \in Props : OpenGates(q)' \subseteq OpenGates(q)
    BY <2>1 DEF Careful, OpenGates, Gates
  <2>4. op'[p].state = "committed" /\ \A q \in Props : q # p => op'[q] = op[q]
    <3>1. op[p] \in OpRecord /\ op \in [Props -> OpRecord]
      BY <1>0 DEF DataTypes
    <3>2. op'[p] = [op[p] EXCEPT !.state = "committed"]
          /\ \A q \in Props : q # p => op'[q] = op[q]
      BY <2>2, <3>1
    <3>3. op'[p].state = "committed"
      BY <3>1, <3>2 DEF OpRecord
    <3>4. QED
      BY <3>2, <3>3
  <2>5. \A q \in Props :
           /\ Held(q)' => Held(q)
           /\ op[q].state \in Open => \/ op'[q].state \in Open /\ (Held(q) \/ ~Held(q)')
                                      \/ q \in mapping'
    BY <2>2, <2>4 DEF Held, Is
  <2>6. \A q \in Props : proposals[q].state = "resolved" => proposals'[q].state = "resolved"
    <3>1. mapping' \in SUBSET Props
      BY <1>0, <2>2 DEF DataTypes
    <3>2. QED
      BY <1>0, <2>2, <3>1, EnsuredSet DEF DataTypes
  <2>7. WaitingReach => WaitingReach'
    BY <1>0, <2>1, <2>2, <2>3, <2>5, <2>6, GrownPaths DEF Grows
  <2>8. QED
    BY <1>1, <2>1, <2>2, <2>7
<1>5. ASSUME NEW p \in Props, ResolveGate(p) PROVE ScanOwed'
  <2>1. Grows /\ up
    BY <1>5, StepGrows DEF ResolveGate, Step
  <2>2. /\ task' = task /\ mapping' = mapping
        /\ \A q \in Props :
              /\ OpenGates(q)' = OpenGates(q)
              /\ \/ op'[q].state = op[q].state
                 \/ op[q].state = "waiting_predecessors" /\ op'[q].state = "received"
              /\ q \notin mapping => proposals'[q] = proposals[q]
              /\ q \in mapping => proposals'[q].state = "resolved"
    BY <1>5, ResolveKeeps
  <2>3. \A q \in Props :
           /\ Held(q)' => Held(q)
           /\ op[q].state \in Open => op'[q].state \in Open /\ (Held(q) \/ ~Held(q)')
           /\ proposals[q].state = "resolved" => proposals'[q].state = "resolved"
    BY <2>2 DEF Held, Is, Open
  <2>4. WaitingReach => WaitingReach'
    BY <1>0, <2>1, <2>2, <2>3, GrownPaths DEF Grows
  <2>5. QED
    BY <1>1, <2>1, <2>2, <2>4
<1>6. ASSUME NEW p \in Props, NEW explicit \in SUBSET Props, NEW body \in SUBSET Props,
             NEW final \in BOOLEAN, DeclareStep(p, explicit, body, final)
      PROVE  ScanOwed'
  <2>1. task'.final = final /\ (final => Holds(agenda', "terminalize"))
    BY <1>6, IngestKeeps, DeclareSeries DEF DeclareStep
  <2>2. QED
    BY <2>1 DEF ScanOwed
<1>7. CASE QuietStep \/ CascadeStep
  BY <1>0, <1>7, QuietScan, CascadeScan
<1>8. QED
  BY <1>2, <1>3, <1>4, <1>5, <1>6, <1>7, StepKinds

(***************************************************************************)
(* The theorems.                                                           *)
(***************************************************************************)
(* The invariant, its parts on the records taken together.                 *)
LEMMA InvParts ==
    ProposalInv <=> /\ ProposalTypes /\ DataInv /\ Agenda /\ TailsOwed /\ ScanOwed
BY TypesOfData DEF ProposalInv, DataInv

(* Whether the process is up, and the bounds.                              *)
LEMMA CountersKept ==
    ASSUME ProposalTypes, ProposalNext
    PROVE  up' \in BOOLEAN /\ stops' \in 0 .. MaxStops /\ operator' \in 0 .. MaxOperator
<1>1. /\ up \in BOOLEAN /\ stops \in 0 .. MaxStops /\ operator \in 0 .. MaxOperator
      /\ MaxStops \in Nat /\ MaxOperator \in Nat
  BY ProposalConstants DEF ProposalTypes
<1>2. CASE Stop
  <2>1. up' = FALSE /\ stops < MaxStops /\ stops' = stops + 1 /\ operator' = operator
    BY <1>2 DEF Stop
  <2>2. stops' \in 0 .. MaxStops
    BY <1>1, <2>1
  <2>3. QED
    BY <1>1, <2>1, <2>2
<1>3. ASSUME NEW p \in Props, Abandon(p)
      PROVE  UNCHANGED <<up, stops>> /\ operator' \in 0 .. MaxOperator
  <2>1. UNCHANGED <<up, stops>> /\ operator < MaxOperator /\ operator' = operator + 1
    BY <1>3 DEF Abandon
  <2>2. QED
    BY <1>1, <2>1
<1>4. CASE Recover
  BY <1>1, <1>4 DEF Recover
<1>5. CASE TailStep
  <2>1. UNCHANGED <<up, stops, operator>>
    BY <1>5 DEF TailStep, ScanGates, AllTold, CloseTask, Route, ResolveGate, RejectProposal,
       TellStore, Mark, RecordDuplicate, DuplicateFails, PublishFact, FactPublished, Refused,
       PublicationFails, Replay
  <2>2. QED
    BY <1>1, <2>1
<1>6. CASE Ingest \/ WorkerEnds \/ StartAttempt
  <2>1. UNCHANGED <<up, stops, operator>>
    BY <1>6 DEF Ingest, IngestFinal, IngestFact, WorkerEnds, StartAttempt
  <2>2. QED
    BY <1>1, <2>1
<1>7. ASSUME NEW p \in Props, ReviewProposal(p)
      PROVE  UNCHANGED <<up, stops, operator>>
  BY <1>7 DEF ReviewProposal, FoundNew, FoundUnchanged, FoundDuplicate, FoundCorrect,
     FoundIncorrect, Refuse
<1>8. QED
  BY <1>1, <1>2, <1>3, <1>4, <1>5, <1>6, <1>7 DEF ProposalNext

(* Initially nothing is declared and nothing is owed.                      *)
LEMMA ProposalInvInit ==
    ProposalInit => ProposalInv
<1> SUFFICES ASSUME ProposalInit PROVE ProposalInv
  OBVIOUS
<1>1. /\ \A p \in Props : op[p] = NoOperation
      /\ \A p \in Props : proposals[p] = [state |-> "none", marked |-> FALSE]
      /\ \A p \in Props : store[p] = "none"
      /\ mapping = {} /\ agenda = << >> /\ up /\ ~task.final /\ task.state = "running"
  BY DEF ProposalInit
<1>2. /\ MaxGates \in Nat /\ MaxAttempts \in Nat \ {0} /\ MaxStops \in Nat
      /\ MaxOperator \in Nat
  BY ProposalConstants
<1>3. /\ NoOperation \in OpRecord /\ NoOperation.state = "absent" /\ NoOperation.cited = {}
      /\ NoOperation.explicit = {} /\ NoOperation.body = {} /\ NoOperation.version = 0
      /\ ~NoOperation.verified
  BY <1>2 DEF NoOperation, OpRecord
<1>4. DataTypes
  <2>1. op \in [Props -> OpRecord]
    BY <1>3 DEF ProposalInit
  <2>2. proposals \in [Props -> Control]
    BY DEF ProposalInit, Control
  <2>3. task \in TaskRecord
    BY <1>2 DEF ProposalInit, TaskRecord
  <2>4. QED
    BY <2>1, <2>2, <2>3 DEF ProposalInit, DataTypes
<1>5. ProposalTypes
  <2>1. agenda \in Seq(AgendaSteps)
    BY <1>1
  <2>2. up \in BOOLEAN /\ stops \in 0 .. MaxStops /\ operator \in 0 .. MaxOperator
    BY <1>2 DEF ProposalInit
  <2>3. QED
    BY <1>4, <2>1, <2>2, TypesOfData
<1>6. Cited
  <2>1. Cardinality({}) = 0
    BY FS_EmptySet
  <2>2. \A p \in Props : op[p].version + Cardinality(op[p].explicit) <= MaxGates + 1
    <3>1. \A p \in Props : op[p].version = 0 /\ op[p].explicit = {}
      BY <1>1, <1>3
    <3>2. 0 + 0 <= MaxGates + 1
      BY <1>2
    <3>3. QED
      BY <2>1, <3>1, <3>2
  <2>3. \A p \in Props : OpenGates(p) = {} /\ op[p].cited = {}
    BY <1>1, <1>3 DEF OpenGates, Gates
  <2>4. QED
    BY <2>2, <2>3 DEF Cited
<1>7. Mapped
  BY <1>1, <1>3 DEF Mapped
<1>8. Controlled
  BY <1>1, <1>3 DEF Controlled, Is, Open
<1>9. Agenda
  BY <1>1, PlainParts, NoStep DEF Agenda, Planned
<1>10. TailsOwed
  BY <1>1, <1>3 DEF TailsOwed, Owed, Is
<1>11. ScanOwed
  BY <1>1 DEF ScanOwed
<1>12. QED
  BY <1>5, <1>6, <1>7, <1>8, <1>9, <1>10, <1>11 DEF ProposalInv

(* Every step keeps the invariant.                                         *)
LEMMA ProposalInvNext ==
    ProposalInv /\ [ProposalNext]_proposalVars => ProposalInv'
<1>1. ASSUME ProposalInv, ProposalNext PROVE ProposalInv'
  <2>1. ProposalTypes /\ DataInv /\ Agenda /\ TailsOwed /\ ScanOwed
    BY <1>1, InvParts
  <2>2. DataInv' /\ Agenda' /\ TailsOwed' /\ ScanOwed'
    BY <1>1, <2>1, DataKept, AgendaKept, TailsKept, ScanKept
  <2>3. ProposalTypes'
    <3>1. DataTypes' /\ agenda' \in Seq(AgendaSteps)
      BY <2>2 DEF DataInv, Agenda
    <3>2. up' \in BOOLEAN /\ stops' \in 0 .. MaxStops /\ operator' \in 0 .. MaxOperator
      BY <1>1, <2>1, CountersKept
    <3>3. (DataTypes /\ agenda \in Seq(AgendaSteps) /\ up \in BOOLEAN
             /\ stops \in 0 .. MaxStops /\ operator \in 0 .. MaxOperator => ProposalTypes)'
      BY TypesOfData, PTL
    <3>4. QED
      BY <3>1, <3>2, <3>3
  <2>4. QED
    BY <2>2, <2>3 DEF ProposalInv, DataInv
<1>2. ASSUME ProposalInv, UNCHANGED proposalVars PROVE ProposalInv'
  <2>1. /\ op' = op /\ proposals' = proposals /\ mapping' = mapping /\ store' = store
        /\ task' = task /\ agenda' = agenda /\ up' = up /\ stops' = stops
        /\ operator' = operator
    BY <1>2 DEF proposalVars
  <2>2. \A p \in Props : OpenGates(p)' = OpenGates(p)
    BY <2>1 DEF OpenGates, Gates
  <2>3. ProposalTypes' /\ Cited' /\ Mapped' /\ Controlled'
    BY <1>2, <2>1, <2>2 DEF ProposalInv, ProposalTypes, Cited, Mapped, Controlled, Is
  <2>4. \A n, p : Fits(n, p)' <=> Fits(n, p)
    BY <2>1 DEF Fits, Is
  <2>5. Agenda'
    BY <1>2, <2>1, <2>4 DEF ProposalInv, Agenda, Planned
  <2>6. TailsOwed'
    BY <1>2, <2>1 DEF ProposalInv, TailsOwed, Owed, Is
  <2>7. \A X, S : ClosedFrom(X, S)' <=> ClosedFrom(X, S)
    BY <2>1, <2>2 DEF ClosedFrom, Based, Is
  <2>8. ScanOwed'
    BY <1>2, <2>1, <2>7 DEF ProposalInv, ScanOwed, WaitingReach, Reaches, Is
  <2>9. QED
    BY <2>3, <2>5, <2>6, <2>8 DEF ProposalInv
<1>3. QED
  BY <1>1, <1>2

(* The invariant always holds.                                             *)
LEMMA ProposalInvHolds ==
    ProposalSpec => []ProposalInv
<1>1. QED
  BY ProposalInvInit, ProposalInvNext, PTL DEF ProposalSpec

(* Operations, control records, markers, the task and the agenda of the    *)
(* method under way keep their types, across full stops (recover).         *)
THEOREM ProposalTypesKept == ProposalSpec => []ProposalTypes
<1>1. ProposalInv => ProposalTypes
  BY DEF ProposalInv
<1>2. QED
  BY <1>1, ProposalInvHolds, PTL

(* What reaches canonical memory rests on Facts: publish_verified_fact     *)
(* only follows a report that _route_operation let through, and no cascade *)
(* takes a Fact back.                                                      *)
THEOREM PublishedFactsRest ==
    ProposalSpec => []PublishedOnResolved
<1>1. ASSUME ProposalInv PROVE PublishedOnResolved
  <2>1. DataTypes /\ Cited /\ Mapped
    BY <1>1, TypesOfData DEF ProposalInv
  <2>2. ASSUME NEW p \in Props, store[p] = "published", NEW g \in op[p].cited
        PROVE  g \in mapping /\ proposals[g].state # "rejected"
    <3>1. g \in mapping /\ g \in Props
      BY <2>1, <2>2, GatesAreProps DEF Cited
    <3>2. QED
      BY <2>1, <3>1 DEF Mapped
  <2>3. QED
    BY <2>2 DEF PublishedOnResolved
<1>2. QED
  BY <1>1, ProposalInvHolds, PTL

(* Whenever the process is up and no method is under way, no proposal is   *)
(* left behind a gate that cannot open, whichever transactions of          *)
(* reject_temporary_predecessor, of the scan of                            *)
(* _terminalize_unpublishable_final_fact_gates and of recover a stop has   *)
(* come between.                                                           *)
THEOREM NoProposalIsStranded ==
    ProposalSpec => []NoDeadGate
<1>1. ASSUME ProposalInv PROVE NoDeadGate
  <2>1. ProposalTypes /\ DataTypes /\ Controlled /\ TailsOwed /\ ScanOwed
    BY <1>1, TypesOfData DEF ProposalInv
  <2>2. CASE ~Idle
    BY <2>1, <2>2 DEF NoDeadGate, CascadeComplete, FinalLeavesNoDeadGate
  <2>3. CASE Idle
    <3>1. up /\ agenda = << >>
      BY <2>3 DEF Idle
    <3>2. /\ Aims(agenda, "reject") = {} /\ ~Holds(agenda, "markers")
          /\ ~Holds(agenda, "terminalize")
      BY <3>1, NoStep
    <3>3. CascadeComplete
      BY <2>1, <3>1, <3>2 DEF CascadeComplete, Controlled, TailsOwed, Owed
    <3>4. ASSUME task.final, NEW p \in Props, Is(p, "waiting_predecessors")
          PROVE  p \in Publishable
      <4>1. Reaches({}, p)
        BY <2>1, <3>1, <3>2, <3>4 DEF ScanOwed, WaitingReach
      <4>2. QED
        BY <4>1, PublishableReaches
    <3>5. QED
      BY <2>1, <3>3, <3>4 DEF NoDeadGate, FinalLeavesNoDeadGate
  <2>4. QED
    BY <2>2, <2>3
<1>2. QED
  BY <1>1, ProposalInvHolds, PTL

(* What a step does to a refused proposal.                                 *)
LEMMA RefusalStands ==
    ASSUME ProposalInv, ProposalNext, NEW p \in Props, proposals[p].state = "rejected"
    PROVE  /\ proposals'[p].state = "rejected" /\ p \notin mapping'
           /\ store'[p] \in {store[p], "rejected"}
<1>0. ProposalTypes /\ DataTypes /\ DataInv /\ Agenda /\ p \notin mapping
  BY InvParts DEF DataInv, Mapped
<1>1. DataInv'
  BY <1>0, DataKept
<1>2. ASSUME proposals'[p].state = "rejected" PROVE p \notin mapping'
  BY <1>1, <1>2 DEF DataInv, Mapped
<1>3. store \in [Props -> {"none", "published", "duplicate", "rejected"}]
  BY <1>0 DEF DataTypes
<1>4. op[p].state \notin Open
  BY <1>0 DEF DataInv, Controlled
<1>5. CASE QuietStep
  <2>1. ASSUME NEW q \in Props, TellStore(q) \/ Mark(q)
        PROVE  /\ proposals'[p].state = "rejected"
               /\ store'[p] \in {store[p], "rejected"}
    <3>1. CASE TellStore(q)
      BY <1>3, <3>1 DEF TellStore
    <3>2. CASE Mark(q)
      <4>1. proposals[q] \in Control /\ proposals \in [Props -> Control]
        BY <1>0 DEF DataTypes
      <4>2. proposals'[q] = [proposals[q] EXCEPT !.marked = TRUE]
            /\ \A r \in Props : r # q => proposals'[r] = proposals[r]
        BY <3>2, <4>1 DEF Mark
      <4>3. proposals'[q].state = proposals[q].state
        BY <4>1, <4>2 DEF Control
      <4>4. QED
        BY <3>2, <4>2, <4>3 DEF Mark
    <3>3. QED
      BY <2>1, <3>1, <3>2
  <2>2. ASSUME NEW q \in Props, RecordDuplicate(q) \/ PublishFact(q)
        PROVE  /\ proposals' = proposals /\ store'[p] = store[p]
    <3>1. CASE RecordDuplicate(q)
      <4>1. Fits("duplicate", q)
        BY <1>0, <3>1, AtHead DEF RecordDuplicate, AtOnce
      <4>2. q # p
        BY <1>0, <4>1 DEF Fits
      <4>3. QED
        BY <1>3, <3>1, <4>2 DEF RecordDuplicate
    <3>2. CASE PublishFact(q)
      <4>1. Fits("publish", q)
        BY <1>0, <3>2, AtHead DEF PublishFact, AtOnce
      <4>2. q # p
        BY <1>4, <4>1 DEF Fits, UnderReview, Open
      <4>3. QED
        BY <1>3, <3>2, <4>2 DEF PublishFact
    <3>3. QED
      BY <2>2, <3>1, <3>2
  <2>3. ASSUME \/ ScanGates \/ AllTold \/ CloseTask \/ WorkerEnds \/ StartAttempt
               \/ IngestFinal \/ Stop \/ \E q \in Props : Replay(q)
        PROVE  proposals' = proposals /\ store'[p] = store[p]
    <3>1. ASSUME NEW q \in Props, Replay(q) PROVE UNCHANGED <<proposals, store>>
      BY <3>1 DEF Replay
    <3>2. CASE ScanGates \/ AllTold \/ CloseTask \/ WorkerEnds
      BY <3>2 DEF ScanGates, AllTold, CloseTask, WorkerEnds
    <3>3. CASE StartAttempt \/ IngestFinal \/ Stop
      BY <3>3 DEF StartAttempt, IngestFinal, Stop
    <3>4. QED
      BY <2>3, <3>1, <3>2, <3>3
  <2>4. QED
    BY <1>2, <1>5, <2>1, <2>2, <2>3 DEF QuietStep
<1>6. CASE CascadeStep
  <2>1. \E roots \in SUBSET Props : CascadeOf(roots)
    <3>1. Recover => CascadeOf(Disowned) /\ Disowned \in SUBSET Props
      BY <1>0, CascadeSteps
    <3>2. ASSUME NEW q \in Props, RejectProposal(q) \/ Refused(q)
          PROVE  CascadeOf({q}) /\ {q} \in SUBSET Props
      BY <1>0, <3>2, CascadeSteps
    <3>3. QED
      BY <1>6, <3>1, <3>2 DEF CascadeStep
  <2>2. PICK roots \in SUBSET Props : CascadeOf(roots)
    BY <2>1
  <2>3. /\ store' = store /\ p \in Hit(roots) => proposals'[p].state = "rejected"
        /\ p \notin Hit(roots) => \/ proposals'[p].state = proposals[p].state
                                 \/ p \in mapping
    BY <1>0, <2>2, CascadeFacts
  <2>4. QED
    BY <1>0, <1>2, <2>2, <2>3, CascadeFacts
<1>7. ASSUME NEW q \in Props, MoveStep(q) \/ FoundCorrect(q)
      PROVE  UNCHANGED <<proposals, store>>
  BY <1>7 DEF MoveStep, Route, FoundNew, FoundUnchanged, FoundIncorrect, Refuse,
     DuplicateFails, PublicationFails, Abandon, FoundCorrect
<1>8. ASSUME NEW q \in Props, FoundDuplicate(q) \/ FactPublished(q)
      PROVE  store' = store /\ proposals'[p] = proposals[p]
  <2>1. q # p
    BY <1>0, <1>4, <1>8, CommitSteps
  <2>2. /\ store' = store /\ mapping' = mapping \cup {q}
        /\ proposals' = proposals \/ proposals' = Ensured(mapping')
    BY <1>8 DEF FoundDuplicate, FactPublished
  <2>3. p \notin mapping' /\ mapping' \in SUBSET Props
    BY <1>0, <2>1, <2>2 DEF DataTypes
  <2>4. QED
    BY <1>0, <2>2, <2>3, EnsuredSet DEF DataTypes
<1>9. ASSUME NEW q \in Props, ResolveGate(q)
      PROVE  store' = store /\ proposals'[p] = proposals[p]
  BY <1>0, <1>9, ResolveKeeps DEF ResolveGate
<1>10. ASSUME NEW q \in Props, NEW explicit \in SUBSET Props, NEW body \in SUBSET Props,
              NEW final \in BOOLEAN, DeclareStep(q, explicit, body, final)
       PROVE  store' = store /\ proposals'[p] = proposals[p]
  <2>1. proposals[q].state = "none" /\ store' = store
    BY <1>10 DEF DeclareStep, IngestFact, Fresh
  <2>2. q # p
    BY <2>1
  <2>3. QED
    BY <1>0, <1>10, <2>1, <2>2, IngestKeeps DEF DeclareStep
<1>11. QED
  BY <1>2, <1>5, <1>6, <1>7, <1>8, <1>9, <1>10, StepKinds

(* A refusal is for good: once reject_temporary_predecessor has refused a  *)
(* proposal, no resolution makes it stand for a Fact, and canonical memory *)
(* records nothing but a rejection under its id.                           *)
THEOREM RefusalsStand ==
    ProposalSpec => RefusedForGood
<1> DEFINE Stands ==
        \A p \in Props : proposals[p].state = "rejected" =>
            /\ proposals'[p].state = "rejected"
            /\ p \notin mapping'
            /\ store'[p] \in {store[p], "rejected"}
<1>1. ASSUME ProposalInv, [ProposalNext]_proposalVars PROVE [Stands]_proposalVars
  <2>1. CASE ProposalNext
    BY <1>1, <2>1, RefusalStands
  <2>2. CASE UNCHANGED proposalVars
    BY <2>2
  <2>3. QED
    BY <1>1, <2>1, <2>2
<1>2. QED
  BY <1>1, ProposalInvHolds, PTL DEF ProposalSpec, RefusedForGood

=============================================================================
