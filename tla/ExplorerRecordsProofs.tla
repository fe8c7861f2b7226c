----------------------- MODULE ExplorerRecordsProofs -----------------------
(***************************************************************************)
(* Proofs about ExplorerRecords, for every set of attempts and objects and *)
(* every limit.                                                            *)
(***************************************************************************)
EXTENDS ExplorerRecords, TLAPS

(* A sequence that grows keeps what it had.                                *)
LEMMA AppendKeeps ==
    ASSUME NEW S, NEW s \in Seq(S), NEW e \in S
    PROVE  /\ Append(s, e) \in Seq(S)
           /\ Len(Append(s, e)) = Len(s) + 1
           /\ DOMAIN Append(s, e) = DOMAIN s \cup {Len(s) + 1}
           /\ \A i \in DOMAIN s : Append(s, e)[i] = s[i]
           /\ Append(s, e)[Len(s) + 1] = e
           /\ {Append(s, e)[i] : i \in DOMAIN Append(s, e)}
                  = {s[i] : i \in DOMAIN s} \cup {e}
  <1>1. /\ Append(s, e) \in Seq(S)
        /\ Len(Append(s, e)) = Len(s) + 1
        /\ DOMAIN Append(s, e) = 1 .. (Len(s) + 1)
        /\ DOMAIN s = 1 .. Len(s) /\ Len(s) \in Nat
        /\ \A i \in 1 .. Len(s) : Append(s, e)[i] = s[i]
        /\ Append(s, e)[Len(s) + 1] = e
    OBVIOUS
  <1>2. 1 .. (Len(s) + 1) = (1 .. Len(s)) \cup {Len(s) + 1}
    BY <1>1
  <1> QED
    BY <1>1, <1>2

(***************************************************************************)
(* Type correctness.                                                       *)
(***************************************************************************)
LEMMA TypeInit == Init => TypeOK
  BY DEF Init, TypeOK, States, CallStates, NoGrant, NoPayload

LEMMA FailureIsState ==
    ASSUME NEW c \in [state : CallStates, launch : Nat]
    PROVE  AfterFailure(c) \in [state : CallStates, launch : Nat]
  BY DEF AfterFailure, CallStates

LEMMA TypeOfAttempts ==
    ASSUME TypeOK, NEW a \in Attempts,
           \/ Grant(a) \/ Start(a) \/ Launch(a) \/ AgentEnds(a) \/ Fail(a) \/ Fence(a)
           \/ \E m \in Objects : Accept(a, m)
    PROVE  TypeOK'
  <1> USE DEF TypeOK, callVars, objectVars, handoffVars, faults, CallStates
  <1>1. CASE Grant(a)
    BY <1>1 DEF Grant
  <1>2. CASE Start(a)
    BY <1>2 DEF Start
  <1>3. CASE Launch(a)
    BY <1>3 DEF Launch
  <1>4. CASE AgentEnds(a)
    BY <1>4 DEF AgentEnds
  <1>5. CASE Fail(a)
    BY <1>5, FailureIsState DEF Fail
  <1>6. CASE Fence(a)
    BY <1>6 DEF Fence
  <1>7. ASSUME NEW m \in Objects, Accept(a, m) PROVE TypeOK'
    <2>1. results' \in [Attempts -> SUBSET Objects]
      BY <1>7 DEF Accept
    <2>2. calls' \in [Attempts -> [state : CallStates, launch : Nat]]
      <3>1. calls' = [calls EXCEPT ![a].state = "ended"]
        BY <1>7 DEF Accept
      <3> QED
        BY <3>1
    <2> QED
      BY <1>7, <2>1, <2>2 DEF Accept
  <1> QED
    BY <1>1, <1>2, <1>3, <1>4, <1>5, <1>6, <1>7

LEMMA TrustKeepsTypes ==
    ASSUME TypeOK, NEW o \in Objects, TrustReceipt(o)
    PROVE  /\ state' \in [Objects -> States]
           /\ visible' \in Seq(Objects)
  BY AppendKeeps DEF TypeOK, TrustReceipt, States

LEMMA TypeOfObjects ==
    ASSUME TypeOK, NEW o \in Objects,
           \/ \E sources \in SUBSET StagedScratches, operations \in SUBSET StagedOps :
                  Stage(o, sources, operations)
           \/ Prepare(o) \/ Refuse(o) \/ AppendReceipt(o) \/ Trust(o)
           \/ AppendFails(o) \/ TrustFails(o)
    PROVE  TypeOK'
  <1> USE DEF TypeOK, callVars, objectVars, handoffVars, faults, States
  <1>1. ASSUME NEW sources \in SUBSET StagedScratches, NEW operations \in SUBSET StagedOps,
               Stage(o, sources, operations)
        PROVE  TypeOK'
    <2>1. Attempt(o) \in Attempts
      BY ConstantsAssumption DEF Attempt
    <2>2. sources \subseteq Objects /\ operations \subseteq Ops
      BY ConstantsAssumption DEF StagedScratches, StagedOps, Operation
    <2> QED
      BY <1>1, <2>1, <2>2 DEF Stage
  <1>2. CASE Prepare(o)
    <2>1. Resolved(o) \subseteq Objects
      BY DEF Resolved, Newest, Candidates, Rows
    <2> QED
      BY <1>2, <2>1 DEF Prepare
  <1>3. CASE Refuse(o)
    BY <1>3 DEF Refuse, NoPayload
  <1>4. CASE AppendReceipt(o)
    BY <1>4, AppendKeeps DEF AppendReceipt
  <1>5. CASE Trust(o)
    BY <1>5, TrustKeepsTypes DEF Trust
  <1>6. CASE AppendFails(o)
    <2>1. {stops', errors'} \subseteq Nat
      BY <1>6 DEF AppendFails
    <2>2. /\ state' \in [Objects -> States] /\ log' \in Seq(Objects)
          /\ delayed' \subseteq Objects
      <3>1. CASE UNCHANGED <<state, log, delayed>>
        BY <3>1
      <3>2. CASE /\ state' = [state EXCEPT ![o] = "logged"]
                 /\ log' = Append(log, o) /\ delayed' = delayed \cup {o}
        BY <3>2, AppendKeeps
      <3> QED
        BY <1>6, <3>1, <3>2 DEF AppendFails
    <2> QED
      BY <1>6, <2>1, <2>2 DEF AppendFails
  <1>7. CASE TrustFails(o)
    <2>1. {stops', errors'} \subseteq Nat
      BY <1>7 DEF TrustFails
    <2> QED
      BY <1>7, <2>1 DEF TrustFails
  <1> QED
    BY <1>1, <1>2, <1>3, <1>4, <1>5, <1>6, <1>7

LEMMA TypeOfStops ==
    ASSUME TypeOK, Crash \/ Restart \/ ReplayReceipt \/ Recover
    PROVE  TypeOK'
  <1> USE DEF TypeOK, callVars, objectVars, handoffVars, faults
  <1>1. CASE Crash
    <2>1. {stops', errors'} \subseteq Nat
      BY <1>1 DEF Crash
    <2>2. state' \in [Objects -> States]
      BY <1>1 DEF Crash, States
    <2>3. payload' \in [Objects -> [launch : Nat, sources : SUBSET Objects,
                                   operations : SUBSET Ops]]
      BY <1>1 DEF Crash, NoPayload
    <2> QED
      BY <1>1, <2>1, <2>2, <2>3 DEF Crash
  <1>2. CASE Restart
    BY <1>2 DEF Restart
  <1>3. CASE ReplayReceipt
    <2>1. PICK i \in DOMAIN log : TrustReceipt(log[i])
      BY <1>3 DEF ReplayReceipt, Untrusted
    <2>2. log[i] \in Objects
      BY <2>1
    <2> QED
      BY <1>3, <2>1, <2>2, TrustKeepsTypes DEF ReplayReceipt
  <1>4. CASE Recover
    BY <1>4, FailureIsState DEF Recover
  <1> QED
    BY <1>1, <1>2, <1>3, <1>4

LEMMA TypeOfHandoff ==
    ASSUME TypeOK, Drain \/ Freeze \/ PrepareTask \/ CreateRun \/ BeginSort
    PROVE  TypeOK'
  BY DEF TypeOK, callVars, objectVars, handoffVars, faults, Drain, Freeze, PrepareTask,
         CreateRun, BeginSort

LEMMA TypeStep == TypeOK /\ [Next]_vars => TypeOK'
  <1> SUFFICES ASSUME TypeOK, [Next]_vars PROVE TypeOK'
    OBVIOUS
  <1>1. CASE UNCHANGED vars
    BY <1>1 DEF vars, callVars, objectVars, handoffVars, faults, TypeOK
  <1>2. CASE WorkerStep
    BY <1>2, TypeOfAttempts, TypeOfObjects DEF WorkerStep
  <1> QED
    BY <1>1, <1>2, TypeOfStops, TypeOfHandoff DEF Next

(* The call, receipt and visibility records keep their types.              *)
THEOREM TypesHold == Spec => []TypeOK
  BY TypeInit, TypeStep, PTL DEF Spec

(***************************************************************************)
(* The inductive invariant.  Its parts say where an object can be found,   *)
(* whom the guard admits, which receipts wait for their trust, what a row  *)
(* rests on, and what grants, results and frozen turns may count on.       *)
(***************************************************************************)
Located ==
    /\ \A o \in Shown : IsRecord(o)
    /\ \A o \in Objects : IsRecord(o) => (o \in Shown <=> state[o] = "shown")
    /\ \A i, j \in DOMAIN visible : visible[i] = visible[j] => i = j
    /\ Logged = {o \in Objects : state[o] \in {"logged", "shown"}}

Guarded ==
    /\ mode # "up" => writer = {}
    /\ \A o \in writer : /\ state[o] \in {"prepared", "logged"}
                         /\ calls[Attempt(o)].state = "running"

Waiting == \A o \in Objects : state[o] = "logged" => o \in writer \cup delayed \/ mode # "up"

Grounded ==
    \A o \in Rows :
        /\ \A op \in payload[o].operations :
               \E c \in evidence[o] : Kind(c) = "CAS" /\ Operation(c) = op
        /\ \A c \in evidence[o] : state[c] = "shown" /\ UpTo(Attempt(c), Attempt(o))
        /\ \A x \in payload[o].sources :
               Kind(x) = "scratch" /\ state[x] = "shown" /\ UpTo(Attempt(x), Attempt(o))

Ordered ==
    \A i \in DOMAIN visible : \A x \in payload[visible[i]].sources :
        \E j \in DOMAIN visible : j < i /\ visible[j] = x

Named ==
    \A a \in Attempts : /\ results[a] \subseteq Shown
                        /\ results[a] # {} => calls[a].state = "ended"

Granted ==
    \A a, b \in Attempts : Earlier(a, b) /\ grants[b] # NoGrant =>
        /\ calls[a].state = "ended"
        /\ grants[b] \in 0 .. Len(visible)
        /\ results[a] \subseteq {visible[i] : i \in 1 .. grants[b]}

RangeOf(h) == {h[i] : i \in DOMAIN h}

Handed ==
    /\ phase = "open" => offer = {} /\ tasks = {}
    /\ phase # "open" => Drained
    /\ phase # "sort" => begun = {}
    /\ runs \subseteq tasks /\ begun \subseteq tasks
    /\ \A h, k \in offer : h = k
    /\ \A h \in offer \cup tasks :
           /\ \A o \in Logged : IsRecord(o) => o \in RangeOf(h) \cup delayed
           /\ \A a \in Attempts : results[a] \subseteq RangeOf(h)

Inv == /\ TypeOK
       /\ Located /\ Guarded /\ Waiting /\ Grounded
       /\ Ordered /\ Named /\ Granted /\ Handed

LEMMA InvInit == Init => Inv
  <1> SUFFICES ASSUME Init PROVE Inv
    OBVIOUS
  <1>1. DOMAIN visible = {} /\ DOMAIN log = {} /\ Shown = {} /\ Logged = {} /\ Rows = {}
    BY DEF Init, Shown, Logged, Rows
  <1> QED
    BY <1>1, TypeInit DEF Init, Inv, Located, Guarded, Waiting, Grounded, Ordered,
       Named, Granted, Handed, Drained

(* Steps of attempts, of the recovery and of the handoff move no object.   *)
LEMMA AttemptFrame ==
    ASSUME NEW a \in Attempts,
           \/ Grant(a) \/ Start(a) \/ Launch(a) \/ AgentEnds(a) \/ Fail(a) \/ Fence(a)
           \/ \E m \in Objects : Accept(a, m)
    PROVE  mode = "up" /\ UNCHANGED <<mode, phase, objectVars, handoffVars, faults>>
  BY DEF Grant, Start, Launch, AgentEnds, Fail, Fence, Accept, Mutating

LEMMA HandoffFrame ==
    ASSUME Drain \/ Freeze \/ PrepareTask \/ CreateRun \/ BeginSort
    PROVE  mode = "up" /\ UNCHANGED <<mode, calls, agents, grants, results, objectVars>>
  BY DEF Drain, Freeze, PrepareTask, CreateRun, BeginSort, Mutating, callVars

ObjectStep(o) ==
    \/ \E sources \in SUBSET StagedScratches, operations \in SUBSET StagedOps :
           Stage(o, sources, operations)
    \/ Prepare(o) \/ Refuse(o) \/ AppendReceipt(o) \/ Trust(o)
    \/ AppendFails(o) \/ TrustFails(o)

LEMMA ObjectFrame ==
    ASSUME NEW o \in Objects, ObjectStep(o)
    PROVE  mode = "up" /\ UNCHANGED <<mode, callVars, handoffVars>>
  BY DEF ObjectStep, Stage, Prepare, Refuse, AppendReceipt, Trust, AppendFails,
         TrustFails, Mutating

(* The kinds of step, for the proofs that look at some of them only.       *)
LEMMA Steps ==
    ASSUME [Next]_vars
    PROVE  \/ \E a \in Attempts :
                 \/ Grant(a) \/ Start(a) \/ Launch(a) \/ AgentEnds(a) \/ Fail(a) \/ Fence(a)
                 \/ \E m \in Objects : Accept(a, m)
           \/ \E o \in Objects : ObjectStep(o)
           \/ Crash \/ Restart \/ ReplayReceipt \/ Recover
           \/ Drain \/ Freeze \/ PrepareTask \/ CreateRun \/ BeginSort
           \/ UNCHANGED vars
  BY DEF Next, WorkerStep, ObjectStep

(***************************************************************************)
(* What a step may do to the objects: nothing, show one that is logged, or *)
(* let one come closer to being shown.                                     *)
(***************************************************************************)
StandStill == UNCHANGED <<state, payload, evidence, log, visible, delayed>>

ShowOne ==
    \E o \in Objects : /\ state[o] = "logged" /\ TrustReceipt(o)
                      /\ UNCHANGED <<payload, evidence, log, delayed>>

ComeCloser ==
    /\ visible' = visible /\ delayed \subseteq delayed'
    /\ \A x \in Objects : state'[x] = "shown" <=> state[x] = "shown"
    /\ \A x \in Rows : x \in Rows' /\ payload'[x] = payload[x] /\ evidence'[x] = evidence[x]
    /\ \A x \in Rows' \ Rows : /\ Citable(x) /\ evidence'[x] = Resolved(x)
                               /\ payload'[x] = payload[x]
    /\ \/ /\ log' = log
          /\ \A x \in Objects : state'[x] = "logged" <=> state[x] = "logged"
       \/ \E o \in writer : /\ mode = "up" /\ state[o] = "prepared"
                            /\ log' = Append(log, o)
                            /\ state' = [state EXCEPT ![o] = "logged"]

LEMMA ObjectChange ==
    ASSUME TypeOK, NEW o \in Objects, ObjectStep(o)
    PROVE  StandStill \/ ShowOne \/ ComeCloser
  <1> USE DEF TypeOK, States
  <1>1. ASSUME NEW sources \in SUBSET StagedScratches, NEW operations \in SUBSET StagedOps,
               Stage(o, sources, operations)
        PROVE  ComeCloser
    <2>1. Rows' = Rows /\ o \notin Rows
      BY <1>1 DEF Stage, Rows
    <2> QED
      BY <1>1, <2>1 DEF Stage, ComeCloser, Rows
  <1>2. CASE Prepare(o)
    <2>1. Rows' = Rows \cup {o} /\ o \notin Rows
      BY <1>2 DEF Prepare, Rows
    <2>2. Citable(o)
      BY <1>2 DEF Prepare, Insertable
    <2> QED
      BY <1>2, <2>1, <2>2 DEF Prepare, ComeCloser, Rows
  <1>3. CASE Refuse(o)
    <2>1. Rows' = Rows /\ o \notin Rows
      BY <1>3 DEF Refuse, Rows
    <2> QED
      BY <1>3, <2>1 DEF Refuse, ComeCloser, Rows
  <1>4. CASE AppendReceipt(o)
    <2>1. Rows' = Rows
      BY <1>4 DEF AppendReceipt, Rows
    <2> QED
      BY <1>4, <2>1 DEF AppendReceipt, ComeCloser, Rows
  <1>5. CASE Trust(o)
    BY <1>5 DEF Trust, ShowOne
  <1>6. CASE AppendFails(o) /\ UNCHANGED <<state, log, delayed>>
    BY <1>6 DEF AppendFails, StandStill
  <1>7. CASE AppendFails(o) /\ ~UNCHANGED <<state, log, delayed>>
    <2>1. /\ state' = [state EXCEPT ![o] = "logged"]
          /\ log' = Append(log, o) /\ delayed' = delayed \cup {o}
      BY <1>7 DEF AppendFails
    <2>2. Rows' = Rows
      BY <1>7, <2>1 DEF AppendFails, Rows
    <2> QED
      BY <1>7, <2>1, <2>2 DEF AppendFails, ComeCloser, Rows
  <1>8. CASE TrustFails(o)
    BY <1>8 DEF TrustFails, ComeCloser, Rows
  <1> QED
    BY <1>1, <1>2, <1>3, <1>4, <1>5, <1>6, <1>7, <1>8 DEF ObjectStep

LEMMA Change ==
    ASSUME TypeOK, [Next]_vars
    PROVE  StandStill \/ ShowOne \/ ComeCloser
  <1>1. ASSUME NEW a \in Attempts,
               \/ Grant(a) \/ Start(a) \/ Launch(a) \/ AgentEnds(a) \/ Fail(a) \/ Fence(a)
               \/ \E m \in Objects : Accept(a, m)
        PROVE  StandStill
    BY <1>1, AttemptFrame DEF StandStill, objectVars
  <1>2. CASE Crash
    <2>1. Rows' = Rows /\ \A x \in Rows : state[x] # "calling"
      BY <1>2 DEF Crash, Rows, TypeOK
    <2> QED
      BY <1>2, <2>1 DEF Crash, ComeCloser, Rows, TypeOK
  <1>3. CASE Restart \/ Recover \/ UNCHANGED vars
    BY <1>3 DEF Restart, Recover, vars, objectVars, StandStill
  <1>4. CASE ReplayReceipt
    <2>1. PICK i \in DOMAIN log : state[log[i]] = "logged" /\ TrustReceipt(log[i])
      BY <1>4 DEF ReplayReceipt, Untrusted
    <2>2. log[i] \in Objects
      BY <2>1 DEF TypeOK
    <2> QED
      BY <1>4, <2>1, <2>2 DEF ReplayReceipt, ShowOne
  <1>5. CASE Drain \/ Freeze \/ PrepareTask \/ CreateRun \/ BeginSort
    BY <1>5, HandoffFrame DEF StandStill, objectVars
  <1> QED
    BY <1>1, <1>2, <1>3, <1>4, <1>5, Steps, ObjectChange

(* Showing an object gives a record the next place, and evidence none.     *)
LEMMA Showing ==
    ASSUME TypeOK, Located, NEW o \in Objects, state[o] = "logged", TrustReceipt(o)
    PROVE  /\ \A x \in Objects : state'[x] = IF x = o THEN "shown" ELSE state[x]
           /\ ~IsRecord(o) => visible' = visible
           /\ IsRecord(o) => visible' = Append(visible, o) /\ o \notin Shown
           /\ Shown' = IF IsRecord(o) THEN Shown \cup {o} ELSE Shown
           /\ Rows' = Rows
  <1>1. /\ \A x \in Objects : state'[x] = IF x = o THEN "shown" ELSE state[x]
        /\ ~IsRecord(o) => visible' = visible
        /\ IsRecord(o) => visible' = Append(visible, o) /\ o \notin Shown
    BY DEF TypeOK, TrustReceipt, Located
  <1>2. Shown' = IF IsRecord(o) THEN Shown \cup {o} ELSE Shown
    <2>1. CASE IsRecord(o)
      <3>1. visible' = Append(visible, o) /\ visible \in Seq(Objects)
        BY <1>1, <2>1 DEF TypeOK
      <3> QED
        BY <2>1, <3>1, AppendKeeps DEF Shown
    <2>2. CASE ~IsRecord(o)
      BY <1>1, <2>2 DEF Shown
    <2> QED
      BY <2>1, <2>2
  <1>3. Rows' = Rows
    BY <1>1 DEF Rows
  <1> QED
    BY <1>1, <1>2, <1>3

(* Places are never taken back.                                            *)
LEMMA PlacesStay ==
    ASSUME Inv, [Next]_vars
    PROVE  /\ DOMAIN visible \subseteq DOMAIN visible'
           /\ \A i \in DOMAIN visible : visible'[i] = visible[i]
           /\ Len(visible) <= Len(visible') /\ Len(visible) \in Nat
           /\ Shown \subseteq Shown'
           /\ \A x \in Objects : state[x] = "shown" => state'[x] = "shown"
  <1>0. visible \in Seq(Objects)
    BY DEF Inv, TypeOK
  <1>1. CASE ShowOne
    <2>1. PICK o \in Objects : state[o] = "logged" /\ TrustReceipt(o)
      BY <1>1 DEF ShowOne
    <2>2. CASE IsRecord(o)
      <3>1. visible' = Append(visible, o) /\ Shown' = Shown \cup {o}
        BY <2>1, <2>2, Showing DEF Inv
      <3>2. \A x \in Objects : state'[x] = IF x = o THEN "shown" ELSE state[x]
        BY <2>1, Showing DEF Inv
      <3> QED
        BY <1>0, <3>1, <3>2, AppendKeeps
    <2>3. CASE ~IsRecord(o)
      <3>1. visible' = visible /\ Shown' = Shown
        BY <2>1, <2>3, Showing DEF Inv
      <3>2. \A x \in Objects : state'[x] = IF x = o THEN "shown" ELSE state[x]
        BY <2>1, Showing DEF Inv
      <3> QED
        BY <1>0, <3>1, <3>2
    <2> QED
      BY <2>2, <2>3
  <1>2. CASE StandStill \/ ComeCloser
    BY <1>0, <1>2 DEF StandStill, ComeCloser, Shown
  <1> QED
    BY <1>1, <1>2, Change DEF Inv

(***************************************************************************)
(* Every part of the invariant is kept.                                    *)
(***************************************************************************)
LEMMA LocatedKept == Inv /\ [Next]_vars => Located'
  <1> SUFFICES ASSUME Inv, [Next]_vars PROVE Located'
    OBVIOUS
  <1> USE DEF Inv
  <1>0. visible \in Seq(Objects) /\ log \in Seq(Objects)
    BY DEF TypeOK
  <1>1. CASE StandStill
    BY <1>1 DEF StandStill, Located, Shown, Logged
  <1>2. CASE ShowOne
    <2>1. PICK o \in Objects : /\ state[o] = "logged" /\ TrustReceipt(o)
                              /\ log' = log
      BY <1>2 DEF ShowOne
    <2>2. /\ \A x \in Objects : state'[x] = IF x = o THEN "shown" ELSE state[x]
          /\ ~IsRecord(o) => visible' = visible
          /\ IsRecord(o) => visible' = Append(visible, o) /\ o \notin Shown
          /\ Shown' = IF IsRecord(o) THEN Shown \cup {o} ELSE Shown
      BY <2>1, Showing
    <2>3. \A i, j \in DOMAIN visible' : visible'[i] = visible'[j] => i = j
      <3>1. CASE IsRecord(o)
        <4>1. \A i \in DOMAIN visible : visible[i] # o
          BY <2>2, <3>1 DEF Shown
        <4> QED
          BY <1>0, <2>2, <3>1, <4>1, AppendKeeps DEF Located
      <3> QED
        BY <2>2, <3>1 DEF Located
    <2>4. Logged' = {x \in Objects : state'[x] \in {"logged", "shown"}}
      BY <2>1, <2>2 DEF Located, Logged
    <2> QED
      BY <2>2, <2>3, <2>4 DEF Located
  <1>3. CASE ComeCloser
    <2>1. Logged' = {x \in Objects : state'[x] \in {"logged", "shown"}}
      <3>1. CASE /\ log' = log
                 /\ \A x \in Objects : state'[x] = "logged" <=> state[x] = "logged"
        BY <1>3, <3>1 DEF ComeCloser, Located, Logged
      <3>2. ASSUME NEW o \in writer, state[o] = "prepared", log' = Append(log, o),
                   state' = [state EXCEPT ![o] = "logged"]
            PROVE  Logged' = {x \in Objects : state'[x] \in {"logged", "shown"}}
        <4>1. o \in Objects
          BY DEF TypeOK
        <4>2. Logged' = Logged \cup {o}
          BY <1>0, <3>2, <4>1, AppendKeeps DEF Logged
        <4> QED
          BY <3>2, <4>1, <4>2 DEF Located, TypeOK
      <3> QED
        BY <1>3, <3>1, <3>2 DEF ComeCloser
    <2> QED
      BY <1>3, <2>1 DEF ComeCloser, Located, Shown
  <1> QED
    BY <1>1, <1>2, <1>3, Change

LEMMA AttemptOf == \A o \in Objects : Attempt(o) \in Attempts
  BY ConstantsAssumption DEF Attempt

LEMMA GuardedKept == Inv /\ [Next]_vars => Guarded'
  <1> SUFFICES ASSUME Inv, [Next]_vars PROVE Guarded'
    OBVIOUS
  <1> USE DEF Inv, Guarded
  <1>1. ASSUME NEW a \in Attempts,
               \/ Grant(a) \/ Start(a) \/ Launch(a) \/ AgentEnds(a) \/ Fail(a) \/ Fence(a)
               \/ \E m \in Objects : Accept(a, m)
        PROVE  Guarded'
    <2>1. writer' = writer /\ state' = state /\ mode' = mode
      BY <1>1, AttemptFrame DEF objectVars
    <2>2. writer = {} \/ calls' = calls
      BY <1>1 DEF Grant, Start, Launch, AgentEnds, Fail, Fence, Accept, Mutating, LockFree
    <2> QED
      BY <2>1, <2>2
  <1>2. ASSUME NEW o \in Objects, ObjectStep(o) PROVE Guarded'
    <2>1. mode = "up" /\ mode' = mode /\ calls' = calls
      BY <1>2, ObjectFrame DEF callVars
    <2>2. \/ writer' = writer /\ \A x \in writer : state'[x] \in {"prepared", "logged"}
          \/ writer' = {}
          \/ writer' = {o} /\ state'[o] = "prepared" /\ calls[Attempt(o)].state = "running"
      BY <1>2 DEF ObjectStep, Stage, Prepare, Refuse, AppendReceipt, Trust, AppendFails,
         TrustFails, TypeOK, MayWrite
    <2> QED
      BY <2>1, <2>2
  <1>3. CASE Crash \/ Restart \/ ReplayReceipt \/ Recover \/ UNCHANGED vars
    BY <1>3 DEF Crash, Restart, ReplayReceipt, Recover, vars, callVars, objectVars
  <1>4. CASE Drain \/ Freeze \/ PrepareTask \/ CreateRun \/ BeginSort
    BY <1>4, HandoffFrame DEF objectVars
  <1> QED
    BY <1>1, <1>2, <1>3, <1>4, Steps

LEMMA WaitingKept == Inv /\ [Next]_vars => Waiting'
  <1> SUFFICES ASSUME Inv, [Next]_vars PROVE Waiting'
    OBVIOUS
  <1> USE DEF Inv, Waiting
  <1>1. ASSUME NEW a \in Attempts,
               \/ Grant(a) \/ Start(a) \/ Launch(a) \/ AgentEnds(a) \/ Fail(a) \/ Fence(a)
               \/ \E m \in Objects : Accept(a, m)
        PROVE  Waiting'
    BY <1>1, AttemptFrame DEF objectVars
  <1>2. ASSUME NEW o \in Objects, ObjectStep(o) PROVE Waiting'
    <2>1. mode = "up" /\ mode' = mode
      BY <1>2, ObjectFrame
    <2>2. CASE Prepare(o) \/ Refuse(o) \/ Trust(o) \/ TrustFails(o) \/ AppendReceipt(o)
      BY <2>1, <2>2 DEF Prepare, Refuse, Trust, TrustFails, AppendReceipt, TrustReceipt, TypeOK,
         Mutating, LockFree
    <2>3. CASE AppendFails(o)
      BY <2>1, <2>3 DEF AppendFails, TypeOK
    <2>4. CASE \E sources \in SUBSET StagedScratches, operations \in SUBSET StagedOps :
                   Stage(o, sources, operations)
      BY <2>1, <2>4 DEF Stage, TypeOK
    <2> QED
      BY <1>2, <2>2, <2>3, <2>4 DEF ObjectStep
  <1>3. CASE Crash \/ Restart \/ ReplayReceipt \/ UNCHANGED vars
    BY <1>3 DEF Crash, Restart, ReplayReceipt, vars, objectVars
  <1>4. CASE Recover
    <2>1. \A o \in Objects : state[o] # "logged"
      BY <1>4 DEF Recover, Untrusted, Located, Logged
    <2> QED
      BY <1>4, <2>1 DEF Recover, objectVars
  <1>5. CASE Drain \/ Freeze \/ PrepareTask \/ CreateRun \/ BeginSort
    BY <1>5, HandoffFrame DEF objectVars
  <1> QED
    BY <1>1, <1>2, <1>3, <1>4, <1>5, Steps

(* What an object may be built on, it is built on.                         *)
LEMMA CitedIsGround ==
    ASSUME NEW o \in Objects, Citable(o)
    PROVE  /\ \A op \in payload[o].operations :
                  \E c \in Resolved(o) : Kind(c) = "CAS" /\ Operation(c) = op
           /\ \A c \in Resolved(o) : state[c] = "shown" /\ UpTo(Attempt(c), Attempt(o))
           /\ \A x \in payload[o].sources :
                  Kind(x) = "scratch" /\ state[x] = "shown" /\ UpTo(Attempt(x), Attempt(o))
  BY DEF Citable, Resolved, Newest, Candidates

LEMMA GroundedKept == Inv /\ [Next]_vars => Grounded'
  <1> SUFFICES ASSUME Inv, [Next]_vars PROVE Grounded'
    OBVIOUS
  <1> USE DEF Inv
  <1>0. \A x \in Objects : state[x] = "shown" => state'[x] = "shown"
    BY PlacesStay
  <1>1. \A o \in Rows : evidence[o] \subseteq Objects /\ payload[o].sources \subseteq Objects
    BY DEF TypeOK, Rows
  <1>2. CASE StandStill
    BY <1>2 DEF StandStill, Grounded, Rows
  <1>3. CASE ShowOne
    <2>1. Rows' = Rows /\ payload' = payload /\ evidence' = evidence
      BY <1>3, Showing DEF ShowOne
    <2> QED
      BY <1>0, <1>1, <2>1 DEF Grounded
  <1>4. CASE ComeCloser
    <2> SUFFICES ASSUME NEW o \in Rows'
                 PROVE  /\ \A op \in payload'[o].operations :
                               \E c \in evidence'[o] : Kind(c) = "CAS" /\ Operation(c) = op
                        /\ \A c \in evidence'[o] :
                               state'[c] = "shown" /\ UpTo(Attempt(c), Attempt(o))
                        /\ \A x \in payload'[o].sources :
                               /\ Kind(x) = "scratch" /\ state'[x] = "shown"
                               /\ UpTo(Attempt(x), Attempt(o))
      BY DEF Grounded
    <2>1. CASE o \in Rows
      <3>1. payload'[o] = payload[o] /\ evidence'[o] = evidence[o]
        BY <1>4, <2>1 DEF ComeCloser
      <3> QED
        BY <1>0, <1>1, <2>1, <3>1 DEF Grounded
    <2>2. CASE o \notin Rows
      <3>1. /\ Citable(o) /\ evidence'[o] = Resolved(o) /\ payload'[o] = payload[o]
            /\ o \in Objects
        BY <1>4, <2>2 DEF ComeCloser, Rows
      <3>2. Resolved(o) \subseteq Objects /\ payload[o].sources \subseteq Objects
        BY <3>1 DEF Resolved, Newest, Candidates, Rows, TypeOK
      <3> QED
        BY <1>0, <3>1, <3>2, CitedIsGround
    <2> QED
      BY <2>1, <2>2
  <1> QED
    BY <1>2, <1>3, <1>4, Change

LEMMA OrderedKept == Inv /\ [Next]_vars => Ordered'
  <1> SUFFICES ASSUME Inv, [Next]_vars PROVE Ordered'
    OBVIOUS
  <1> USE DEF Inv
  <1>0. visible \in Seq(Objects) /\ \A i \in DOMAIN visible : visible[i] \in Objects
    BY DEF TypeOK
  <1>1. \A i \in DOMAIN visible : visible[i] \in Rows
    BY <1>0 DEF Located, Shown, Rows
  <1>2. CASE StandStill
    BY <1>2 DEF StandStill, Ordered
  <1>3. CASE ShowOne
    <2>1. PICK o \in Objects : /\ state[o] = "logged" /\ TrustReceipt(o)
                              /\ payload' = payload
      BY <1>3 DEF ShowOne
    <2>2. CASE ~IsRecord(o)
      BY <2>1, <2>2, Showing DEF Ordered
    <2>3. CASE IsRecord(o)
      <3>1. visible' = Append(visible, o)
        BY <2>1, <2>3, Showing
      <3>2. \A x \in payload[o].sources : \E j \in DOMAIN visible : visible[j] = x
        <4>1. o \in Rows
          BY <2>1 DEF Rows
        <4>2. \A x \in payload[o].sources : x \in Objects /\ IsRecord(x) /\ state[x] = "shown"
          BY <4>1, <2>1 DEF Grounded, TypeOK, IsRecord, RecordKinds
        <4> QED
          BY <4>2 DEF Located, Shown
      <3>3. \A j \in DOMAIN visible : j < Len(visible) + 1
        BY <1>0
      <3> QED
        BY <1>0, <2>1, <3>1, <3>2, <3>3, AppendKeeps DEF Ordered
    <2> QED
      BY <2>2, <2>3
  <1>4. CASE ComeCloser
    <2>1. \A i \in DOMAIN visible : payload'[visible[i]] = payload[visible[i]]
      BY <1>1, <1>4 DEF ComeCloser
    <2> QED
      BY <1>4, <2>1 DEF ComeCloser, Ordered
  <1> QED
    BY <1>2, <1>3, <1>4, Change

(* Calls end for good, and a result is never taken back.                   *)
LEMMA EndIsFinal ==
    ASSUME TypeOK, [Next]_vars, NEW a \in Attempts, calls[a].state = "ended"
    PROVE  calls'[a].state = "ended" /\ results'[a] = results[a]
  <1>1. ASSUME NEW b \in Attempts,
               \/ Grant(b) \/ Start(b) \/ Launch(b) \/ AgentEnds(b) \/ Fail(b) \/ Fence(b)
               \/ \E m \in Objects : Accept(b, m)
        PROVE  calls'[a].state = "ended" /\ results'[a] = results[a]
    <2>1. CASE Grant(b) \/ AgentEnds(b)
      BY <2>1 DEF Grant, AgentEnds
    <2>2. CASE Start(b)
      BY <2>2 DEF Start, TypeOK
    <2>3. CASE Launch(b)
      BY <2>3 DEF Launch, TypeOK
    <2>4. CASE Fail(b)
      BY <2>4 DEF Fail, TypeOK
    <2>5. CASE Fence(b)
      BY <2>5 DEF Fence, TypeOK
    <2>6. CASE \E m \in Objects : Accept(b, m)
      BY <2>6 DEF Accept, TypeOK
    <2> QED
      BY <1>1, <2>1, <2>2, <2>3, <2>4, <2>5, <2>6
  <1>2. ASSUME NEW o \in Objects, ObjectStep(o)
        PROVE  calls'[a].state = "ended" /\ results'[a] = results[a]
    BY <1>2, ObjectFrame DEF callVars
  <1>3. CASE Crash \/ Restart \/ ReplayReceipt \/ UNCHANGED vars
    BY <1>3 DEF Crash, Restart, ReplayReceipt, vars, callVars
  <1>4. CASE Recover
    BY <1>4 DEF Recover
  <1>5. CASE Drain \/ Freeze \/ PrepareTask \/ CreateRun \/ BeginSort
    BY <1>5, HandoffFrame
  <1> QED
    BY <1>1, <1>2, <1>3, <1>4, <1>5, Steps

(* Only an acceptance names a result, and only a grant moves a grant.      *)
LEMMA ResultsMove ==
    ASSUME [Next]_vars
    PROVE  /\ results' = results \/ \E a \in Attempts, m \in Objects : Accept(a, m)
           /\ grants' = grants \/ \E a \in Attempts : Grant(a)
  <1>1. ASSUME NEW a \in Attempts,
               \/ Grant(a) \/ Start(a) \/ Launch(a) \/ AgentEnds(a) \/ Fail(a) \/ Fence(a)
               \/ \E m \in Objects : Accept(a, m)
        PROVE  /\ results' = results \/ \E m \in Objects : Accept(a, m)
               /\ grants' = grants \/ Grant(a)
    BY <1>1 DEF Grant, Start, Launch, AgentEnds, Fail, Fence, Accept
  <1>2. ASSUME NEW o \in Objects, ObjectStep(o)
        PROVE  results' = results /\ grants' = grants
    BY <1>2, ObjectFrame DEF callVars
  <1>3. CASE Crash \/ Restart \/ ReplayReceipt \/ Recover \/ UNCHANGED vars
    BY <1>3 DEF Crash, Restart, ReplayReceipt, Recover, vars, callVars
  <1>4. CASE Drain \/ Freeze \/ PrepareTask \/ CreateRun \/ BeginSort
    BY <1>4, HandoffFrame
  <1> QED
    BY <1>1, <1>2, <1>3, <1>4, Steps

LEMMA NamedKept == Inv /\ [Next]_vars => Named'
  <1> SUFFICES ASSUME Inv, [Next]_vars PROVE Named'
    OBVIOUS
  <1> USE DEF Inv
  <1>0. Shown \subseteq Shown'
    BY PlacesStay
  <1>1. CASE results' = results
    <2>1. \A a \in Attempts : results[a] # {} => calls'[a].state = "ended"
      BY EndIsFinal DEF Named
    <2> QED
      BY <1>0, <1>1, <2>1 DEF Named
  <1>2. ASSUME NEW a \in Attempts, NEW m \in Objects, Accept(a, m) PROVE Named'
    <2>1. /\ results' = [results EXCEPT ![a] = {m}]
          /\ calls' = [calls EXCEPT ![a].state = "ended"]
          /\ m \in Shown
      BY <1>2 DEF Accept, Owned
    <2>2. \A b \in Attempts : results'[b] = IF b = a THEN {m} ELSE results[b]
      BY <2>1 DEF TypeOK
    <2>3. \A b \in Attempts : calls'[b].state = IF b = a THEN "ended" ELSE calls[b].state
      BY <2>1 DEF TypeOK
    <2> QED
      BY <1>0, <2>1, <2>2, <2>3 DEF Named
  <1> QED
    BY <1>1, <1>2, ResultsMove

LEMMA GrantedKept == Inv /\ [Next]_vars => Granted'
  <1> SUFFICES ASSUME Inv, [Next]_vars,
                      NEW a \in Attempts, NEW b \in Attempts,
                      Earlier(a, b), grants'[b] # NoGrant
               PROVE  /\ calls'[a].state = "ended"
                      /\ grants'[b] \in 0 .. Len(visible')
                      /\ results'[a] \subseteq {visible'[i] : i \in 1 .. grants'[b]}
    BY DEF Granted
  <1> USE DEF Inv
  <1>0. /\ Len(visible) \in Nat /\ Len(visible') \in Nat /\ Len(visible) <= Len(visible')
        /\ DOMAIN visible = 1 .. Len(visible)
        /\ \A i \in DOMAIN visible : visible'[i] = visible[i]
    <2>1. visible' \in Seq(Objects) /\ visible \in Seq(Objects)
      BY TypeStep DEF TypeOK
    <2> QED
      BY <2>1, PlacesStay
  <1>1. CASE grants'[b] = grants[b]
    <2>1. /\ calls[a].state = "ended" /\ grants[b] \in 0 .. Len(visible)
          /\ results[a] \subseteq {visible[i] : i \in 1 .. grants[b]}
      BY <1>1 DEF Granted
    <2>2. calls'[a].state = "ended" /\ results'[a] = results[a]
      BY <2>1, EndIsFinal
    <2>3. \A i \in 1 .. grants[b] : visible'[i] = visible[i]
      BY <1>0, <2>1
    <2> QED
      BY <1>0, <1>1, <2>1, <2>2, <2>3
  <1>2. CASE grants'[b] # grants[b]
    <2>1. PICK c \in Attempts : Grant(c)
      BY <1>2, ResultsMove
    <2>2. c = b
      BY <1>2, <2>1 DEF Grant, TypeOK
    <2>3. /\ grants'[b] = Len(visible) /\ calls[a].state = "ended"
          /\ calls' = calls /\ results' = results /\ visible' = visible
      BY <2>1, <2>2 DEF Grant, TypeOK, objectVars
    <2>4. results[a] \subseteq {visible[i] : i \in 1 .. Len(visible)}
      BY <1>0 DEF Named, Shown
    <2> QED
      BY <1>0, <2>3, <2>4
  <1> QED
    BY <1>1, <1>2

(* A drained turn stays drained: nothing is launched, recorded or accepted.*)
LEMMA DrainedIsQuiet ==
    ASSUME Inv, [Next]_vars, Drained
    PROVE  phase # "open" => Drained' /\ Logged' = Logged /\ results' = results
  <1> SUFFICES ASSUME phase # "open"
               PROVE  Drained' /\ Logged' = Logged /\ results' = results
    OBVIOUS
  <1> USE DEF Inv
  <1>0. writer = {}
    BY AttemptOf DEF Guarded, Drained, TypeOK
  <1>1. Logged' = Logged
    BY <1>0, Change DEF StandStill, ShowOne, ComeCloser, Logged
  <1>2. results' = results
    BY ResultsMove DEF Accept, Drained
  <1>3. Drained'
    <2>1. ASSUME NEW a \in Attempts,
                 \/ Grant(a) \/ Start(a) \/ Launch(a) \/ AgentEnds(a) \/ Fail(a) \/ Fence(a)
                 \/ \E m \in Objects : Accept(a, m)
          PROVE  Drained'
      BY <2>1 DEF Grant, Start, Launch, AgentEnds, Fail, Fence, Accept, Drained
    <2>2. ASSUME NEW o \in Objects, ObjectStep(o) PROVE Drained'
      BY <2>2, ObjectFrame DEF callVars, Drained
    <2>3. CASE Crash \/ Restart \/ ReplayReceipt \/ UNCHANGED vars
      BY <2>3 DEF Crash, Restart, ReplayReceipt, vars, callVars, Drained
    <2>4. CASE Recover
      BY <2>4 DEF Recover, Drained
    <2>5. CASE Drain \/ Freeze \/ PrepareTask \/ CreateRun \/ BeginSort
      BY <2>5, HandoffFrame DEF Drained
    <2> QED
      BY <2>1, <2>2, <2>3, <2>4, <2>5, Steps
  <1> QED
    BY <1>1, <1>2, <1>3

(* What a frozen set has to hold.                                          *)
Complete(h) ==
    /\ \A o \in Logged : IsRecord(o) => o \in RangeOf(h) \cup delayed
    /\ \A a \in Attempts : results[a] \subseteq RangeOf(h)

LEMMA CompleteStays ==
    ASSUME Inv, [Next]_vars, phase # "open", NEW h, Complete(h)
    PROVE  Complete(h)'
  <1>1. Drained
    BY DEF Inv, Handed
  <1>2. Logged' = Logged /\ results' = results
    BY <1>1, DrainedIsQuiet
  <1>3. delayed \subseteq delayed'
    BY Change DEF Inv, StandStill, ShowOne, ComeCloser
  <1> QED
    BY <1>2, <1>3 DEF Complete

(* Outside a commit tail, what is visible is complete.                     *)
LEMMA VisibleIsComplete ==
    ASSUME Inv, mode = "up", phase # "open"
    PROVE  Complete(visible)
  <1> USE DEF Inv
  <1>1. writer = {}
    BY AttemptOf DEF Guarded, Drained, TypeOK, Handed
  <1>2. \A o \in Logged : IsRecord(o) => o \in RangeOf(visible) \cup delayed
    BY <1>1 DEF Located, Waiting, Shown, RangeOf
  <1> QED
    BY <1>2 DEF Complete, Named, Shown, RangeOf

LEMMA HandedKept == Inv /\ [Next]_vars => Handed'
  <1> SUFFICES ASSUME Inv, [Next]_vars PROVE Handed'
    OBVIOUS
  <1>0. /\ phase = "open" => offer = {} /\ tasks = {}
        /\ phase # "open" => Drained
        /\ phase # "sort" => begun = {}
        /\ runs \subseteq tasks /\ begun \subseteq tasks
        /\ \A h, k \in offer : h = k
        /\ \A h \in offer \cup tasks : phase # "open" /\ Complete(h)
    BY DEF Inv, Handed, Complete
  <1>1. \A h \in offer \cup tasks : Complete(h)'
    BY <1>0, CompleteStays
  <1>2. phase # "open" => Drained'
    BY <1>0, DrainedIsQuiet
  <1>3. CASE UNCHANGED <<phase, handoffVars>>
    BY <1>0, <1>1, <1>2, <1>3 DEF handoffVars, Handed, Complete
  <1>4. CASE Drain
    BY <1>0, <1>1, <1>4 DEF Drain, handoffVars, Handed, Complete, Drained
  <1>5. CASE Freeze
    <2>1. PICK h : h = visible
      OBVIOUS
    <2>2. mode = "up" /\ phase # "open"
      BY <1>5 DEF Freeze
    <2>3. Complete(h)
      BY <2>1, <2>2, VisibleIsComplete
    <2>4. Complete(h)'
      BY <2>2, <2>3, CompleteStays
    <2>5. offer' = {h} /\ UNCHANGED <<phase, tasks, runs, begun>>
      BY <1>5, <2>1 DEF Freeze, callVars
    <2> QED
      BY <1>0, <1>1, <1>2, <2>2, <2>4, <2>5 DEF Handed, Complete
  <1>6. CASE PrepareTask
    BY <1>0, <1>1, <1>2, <1>6 DEF PrepareTask, callVars, Handed, Complete
  <1>7. CASE CreateRun
    BY <1>0, <1>1, <1>2, <1>7 DEF CreateRun, callVars, Handed, Complete
  <1>8. CASE BeginSort
    BY <1>0, <1>1, <1>2, <1>8 DEF BeginSort, Handed, Complete
  <1>9. CASE Crash
    BY <1>0, <1>1, <1>2, <1>9 DEF Crash, Handed, Complete
  <1>10. ASSUME NEW a \in Attempts,
                \/ Grant(a) \/ Start(a) \/ Launch(a) \/ AgentEnds(a) \/ Fail(a) \/ Fence(a)
                \/ \E m \in Objects : Accept(a, m)
         PROVE  UNCHANGED <<phase, handoffVars>>
    BY <1>10, AttemptFrame
  <1>11. ASSUME NEW o \in Objects, ObjectStep(o)
         PROVE  UNCHANGED <<phase, handoffVars>>
    BY <1>11, ObjectFrame DEF callVars
  <1>12. CASE Restart \/ ReplayReceipt \/ Recover \/ UNCHANGED vars
    BY <1>3, <1>12 DEF Restart, ReplayReceipt, Recover, vars, callVars
  <1> QED
    BY <1>3, <1>4, <1>5, <1>6, <1>7, <1>8, <1>9, <1>10, <1>11, <1>12, Steps

LEMMA InvStep == Inv /\ [Next]_vars => Inv'
  BY TypeStep, LocatedKept, GuardedKept, WaitingKept, GroundedKept, OrderedKept,
     NamedKept, GrantedKept, HandedKept DEF Inv

LEMMA InvHolds == Spec => []Inv
  BY InvInit, InvStep, PTL DEF Spec

(***************************************************************************)
(* The properties.                                                         *)
(***************************************************************************)
LEMMA PlaceOf ==
    ASSUME Located, NEW i \in DOMAIN visible
    PROVE  Position(visible[i]) = i
  BY DEF Located, Position

LEMMA InvGivesEvidence == Inv => EvidenceStands
  <1> SUFFICES ASSUME Inv, NEW o \in Shown
               PROVE  /\ \A op \in payload[o].operations :
                             \E c \in evidence[o] : Kind(c) = "CAS" /\ Operation(c) = op
                      /\ \A c \in evidence[o] :
                             state[c] = "shown" /\ UpTo(Attempt(c), Attempt(o))
                      /\ \A x \in payload[o].sources :
                             /\ x \in Shown /\ Position(x) < Position(o)
                             /\ UpTo(Attempt(x), Attempt(o))
    BY DEF EvidenceStands
  <1> USE DEF Inv
  <1>1. PICK i \in DOMAIN visible : visible[i] = o
    BY DEF Shown
  <1>2. o \in Rows
    <2>1. o \in Objects /\ IsRecord(o)
      BY <1>1 DEF TypeOK, Located
    <2> QED
      BY <2>1 DEF Located, Rows
  <1>3. ASSUME NEW x \in payload[o].sources
        PROVE  x \in Shown /\ Position(x) < Position(o)
    <2>1. PICK j \in DOMAIN visible : j < i /\ visible[j] = x
      BY <1>1 DEF Ordered
    <2> QED
      BY <1>1, <2>1, PlaceOf DEF Shown
  <1> QED
    BY <1>2, <1>3 DEF Grounded

(* A visible record rests on trusted evidence and on scratches of its own  *)
(* lineage that were visible before it, through every stop and replay.     *)
THEOREM EvidenceIsSound == Spec => []EvidenceStands
  BY InvHolds, InvGivesEvidence, PTL

(* The sort begins with every record that has a receipt, save those whose  *)
(* trust step was lost, and with the summary of every accepted attempt.    *)
THEOREM HandoffIsComplete == Spec => []HandoffComplete
  <1>1. Inv => HandoffComplete
    BY DEF Inv, Handed, HandoffComplete, RangeOf
  <1> QED
    BY <1>1, InvHolds, PTL

(* An attempt may read the summary its predecessor was accepted with.      *)
THEOREM GrantsCoverSummaries == Spec => []GrantCoversSummary
  <1>1. Inv => GrantCoversSummary
    BY DEF Inv, Granted, GrantCoversSummary, Readable
  <1> QED
    BY <1>1, InvHolds, PTL

(* No receipt of an attempt is logged after its call has ended.            *)
THEOREM EndedStaysSilent == Spec => EndedIsFinal
  <1>1. ASSUME Inv, [Next]_vars, NEW a \in Attempts, calls[a].state = "ended",
               NEW o \in Logged' \ Logged
        PROVE  Attempt(o) # a
    <2>1. PICK w \in writer : log' = Append(log, w)
      BY <1>1, Change DEF Inv, StandStill, ShowOne, ComeCloser, Logged
    <2>2. Logged' = Logged \cup {w}
      BY <2>1, AppendKeeps DEF Inv, TypeOK, Logged
    <2> QED
      BY <1>1, <2>1, <2>2 DEF Inv, Guarded
  <1>2. Inv /\ [Next]_vars =>
            [\A a \in Attempts : calls[a].state = "ended" =>
                 \A o \in Logged' \ Logged : Attempt(o) # a]_vars
    BY <1>1
  <1> QED
    BY <1>2, InvHolds, PTL DEF Spec, EndedIsFinal

(***************************************************************************)
(* The refinement: every step shows a record, makes an offer, begins the   *)
(* sort, or is none of the abstract specification's business.              *)
(***************************************************************************)
LEMMA ShowOneRefines ==
    ASSUME Inv, ShowOne, UNCHANGED <<tasks, begun>>
    PROVE  [Handoff!Next]_(Handoff!hvars)
  <1>1. PICK o \in Objects : state[o] = "logged" /\ TrustReceipt(o)
    BY DEF ShowOne
  <1>2. CASE IsRecord(o)
    <2>1. visible' = Append(visible, o) /\ o \notin Shown
      BY <1>1, <1>2, Showing DEF Inv
    <2>2. Handoff!Show(o)
      BY <2>1 DEF Handoff!Show, Handoff!Shown, Shown
    <2> QED
      BY <1>2, <2>2 DEF Handoff!Next
  <1>3. CASE ~IsRecord(o)
    BY <1>1, <1>3, Showing DEF Inv, Handoff!hvars
  <1> QED
    BY <1>2, <1>3

LEMMA StepRefines == Inv /\ [Next]_vars => [Handoff!Next]_(Handoff!hvars)
  <1> SUFFICES ASSUME Inv, [Next]_vars PROVE [Handoff!Next]_(Handoff!hvars)
    OBVIOUS
  <1>1. ASSUME UNCHANGED <<tasks, begun>> PROVE [Handoff!Next]_(Handoff!hvars)
    <2>1. CASE StandStill \/ ComeCloser
      BY <1>1, <2>1 DEF StandStill, ComeCloser, Handoff!hvars
    <2> QED
      BY <1>1, <2>1, ShowOneRefines, Change DEF Inv
  <1>2. CASE PrepareTask
    <2>1. tasks' = tasks \cup {visible} /\ begun = {} /\ UNCHANGED <<visible, begun>>
      BY <1>2 DEF PrepareTask, objectVars, Inv, Handed
    <2> QED
      BY <2>1 DEF Handoff!Next, Handoff!Offer
  <1>3. CASE BeginSort
    <2>1. PICK h \in offer : offer = {h}
      BY <1>3 DEF BeginSort, Inv, Handed
    <2>2. h \in tasks /\ begun = {} /\ begun' = {h} /\ UNCHANGED <<visible, tasks>>
      BY <1>3, <2>1 DEF BeginSort, objectVars, Inv, Handed
    <2> QED
      BY <2>2 DEF Handoff!Next, Handoff!Begin
  <1>4. CASE Drain \/ Freeze \/ CreateRun
    BY <1>1, <1>4 DEF Drain, Freeze, CreateRun, handoffVars
  <1>5. ASSUME NEW a \in Attempts,
               \/ Grant(a) \/ Start(a) \/ Launch(a) \/ AgentEnds(a) \/ Fail(a) \/ Fence(a)
               \/ \E m \in Objects : Accept(a, m)
        PROVE  UNCHANGED <<tasks, begun>>
    BY <1>5, AttemptFrame DEF handoffVars
  <1>6. ASSUME NEW o \in Objects, ObjectStep(o) PROVE UNCHANGED <<tasks, begun>>
    BY <1>6, ObjectFrame DEF handoffVars
  <1>7. CASE Crash \/ Restart \/ ReplayReceipt \/ Recover \/ UNCHANGED vars
    BY <1>1, <1>7 DEF Crash, Restart, ReplayReceipt, Recover, vars, handoffVars
  <1> QED
    BY <1>1, <1>2, <1>3, <1>4, <1>5, <1>6, <1>7, Steps

(* The repository implements the frozen handoff: visibility only grows, an *)
(* offer is what was visible at one moment, and the sort begins once.      *)
THEOREM RecordsImplementHandoff == Spec => HandoffSpec
  <1>1. Init => Handoff!Init
    BY DEF Init, Handoff!Init
  <1> QED
    BY <1>1, StepRefines, InvHolds, PTL DEF Spec, HandoffSpec, Handoff!Spec
=============================================================================
