------------------------ MODULE AgentSessionsProofs ------------------------
(***************************************************************************)
(* What holds of one persistent conversation for any number of calls,      *)
(* launches, stops and CAS requests.                                       *)
(***************************************************************************)
EXTENDS AgentSessions, FiniteSetTheorems, TLAPS

(***************************************************************************)
(* The inductive invariant.                                                *)
(***************************************************************************)
MaybeThreads == AllThreads \cup {NoThread}

CallRecords ==
    [kind : {"none", "advisor"}, owner : {"none"},
     status : CallStates \cup {"absent"}, epoch : Nat, fenced : SUBSET Nat,
     attempt : 0..MaxLaunches, retries : Nat, limit : Nat, result : Nat]

AuditRecords == [active : BOOLEAN, seen : SUBSET AllThreads, latest : MaybeThreads]

Stages == Ended \cup Busy \cup {"dispatched", "ran", "checked"}

(* TypeOK with the records of the calls and of the audits as wholes.       *)
Types ==
    /\ host \in {"up", "down"}
    /\ calls \in [Calls -> CallRecords]
    /\ spoke \in [Calls -> MaybeThreads]
    /\ audit \in [Calls -> AuditRecords]
    /\ {ledger, session, arg, thread} \subseteq MaybeThreads
    /\ torn \subseteq Files /\ capfiles \subseteq Calls
    /\ pc \in Steps /\ cur \in Calls \cup {NoCall}
    /\ outcome \in {"none", "fresh", "resume", "reported", "reply", "failed"}
    /\ stage \in [Requests -> Stages]
    /\ closed \subseteq Requests
    /\ stops \in 0..MaxStops

(* Only a host that is up is anywhere, and the call it is with is its own. *)
InLaunch ==
    /\ pc # "idle" => host = "up" /\ cur \in Calls
    /\ pc = "decided" => Launchable(cur) /\ calls[cur].attempt < MaxLaunches
    /\ pc \notin {"idle", "decided"} =>
         calls[cur].status = "running" /\ calls[cur].attempt > 0

(* The thread t is all that the audits, the ledger, the session, the       *)
(* accepted replies and the running process name.                          *)
OnlyNames(t) ==
    /\ \A c \in Calls :
         /\ audit[c].seen \subseteq {t}
         /\ audit[c].latest \in {t, NoThread}
         /\ spoke[c] \in {t, NoThread}
    /\ {ledger, session, arg, thread} \subseteq {t, NoThread}

OneThread == \E t \in AllThreads : OnlyNames(t)

(* Nothing of the conversation is known yet ...                            *)
Unnamed ==
    /\ \A c \in Calls :
         audit[c].seen = {} /\ audit[c].latest = NoThread /\ spoke[c] = NoThread
    /\ ledger = NoThread /\ session = NoThread

(* ... whenever a process is about to be started without a thread.         *)
FreshIsFirst ==
    /\ pc \in {"decided", "launched", "issued"} /\ outcome # "resume" => Unnamed
    /\ pc \in {"filed", "begun"} /\ arg = NoThread => Unnamed

(* A process has a thread, and exactly the done calls name theirs; the     *)
(* session is bound no earlier than the ledger.                            *)
ThreadsKnown ==
    /\ pc = "running" \/ outcome \in {"reported", "reply"} => thread # NoThread
    /\ \A c \in Calls : spoke[c] # NoThread <=> Done(c)
    /\ session # NoThread => ledger # NoThread

(* From the revocation to the next process every request that has not come *)
(* to an end is closed; once the wait is over none has a process.          *)
ScopesClosed ==
    /\ pc \notin {"running", "exited", "ended", "recorded"} =>
         \A r \in Requests : stage[r] \notin Ended => r \in closed
    /\ pc \notin {"running", "exited", "ended", "recorded", "closing"} =>
         \A r \in Requests : stage[r] \notin Busy

IInv == Types /\ InLaunch /\ OneThread /\ FreshIsFirst /\ ThreadsKnown /\ ScopesClosed

(***************************************************************************)
(* The threads and the calls.                                              *)
(***************************************************************************)
LEMMA ThreadNumbers ==
    /\ NoThread \notin AllThreads
    /\ MaxCalls * MaxLaunches \in Nat /\ MaxCalls * MaxLaunches > 0
    /\ 1 \in AllThreads
    /\ \A c \in Calls, a \in 1..MaxLaunches : (c - 1) * MaxLaunches + a \in AllThreads
<1>1. MaxCalls \in Nat /\ MaxCalls > 0 /\ MaxLaunches \in Nat /\ MaxLaunches > 0
  BY BoundsAssumption
<1>2. MaxCalls * MaxLaunches \in Nat /\ MaxCalls * MaxLaunches > 0
  BY <1>1
<1>3. ASSUME NEW c \in Calls, NEW a \in 1..MaxLaunches
      PROVE  (c - 1) * MaxLaunches + a \in AllThreads
  <2>1. c - 1 \in Nat /\ MaxCalls - c \in Nat
    BY <1>1 DEF Calls
  <2>2. (c - 1) * MaxLaunches \in Nat /\ (MaxCalls - c) * MaxLaunches \in Nat
    BY <1>1, <2>1
  <2>3. (c - 1) * MaxLaunches + MaxLaunches + (MaxCalls - c) * MaxLaunches
          = MaxCalls * MaxLaunches
    BY <1>1, <2>1 DEF Calls
  <2>4. QED
    BY <1>1, <1>2, <2>2, <2>3 DEF AllThreads
<1>4. QED
  BY <1>2, <1>3 DEF NoThread, AllThreads

(* What each event of call_state.py leaves in the record of a call.        *)
LEMMA CallEvents ==
    ASSUME NEW k \in CallRecords
    PROVE  /\ k.attempt < MaxLaunches =>
                /\ Launch(k) \in CallRecords
                /\ Launch(k).status = "running"
                /\ Launch(k).attempt = k.attempt + 1
           /\ \A n \in Nat :
                /\ ReceiveResult(k, n) \in CallRecords
                /\ k.status = "running" => ReceiveResult(k, n).status = "completed"
           /\ CommitResult(k) \in CallRecords
           /\ CommitResult(k).status = "committed"
           /\ RecordTransportFailure(k) \in CallRecords
           /\ RecordTransportFailure(k).status \in {"retry_pending", "needs_attention"}
           /\ RejectInvalidResult(k) \in CallRecords
           /\ RejectInvalidResult(k).status \in {"retry_pending", "needs_attention"}
           /\ AuthorizeRetry(k) \in CallRecords
           /\ AuthorizeRetry(k).status = "retry_pending"
           /\ ReconcileAfterStop(k) \in CallRecords
           /\ ReconcileAfterStop(k).status \in {"completed", "committed"}
                <=> k.status \in {"completed", "committed"}
<1>1. \A n \in Nat : n + 1 \in Nat /\ \A F \in SUBSET Nat : F \cup {n} \in SUBSET Nat
  OBVIOUS
<1>2. \A s \in {"retry_pending", "needs_attention", "completed", "committed", "running"} :
         s \in CallStates
  BY DEF CallStates
<1>3. k.attempt < MaxLaunches => k.attempt + 1 \in 0..MaxLaunches
  BY BoundsAssumption DEF CallRecords
<1>4. /\ k.attempt < MaxLaunches =>
           /\ Launch(k) \in CallRecords
           /\ Launch(k).status = "running"
           /\ Launch(k).attempt = k.attempt + 1
  BY <1>2, <1>3 DEF Launch, CallRecords
<1>5. ASSUME NEW n \in Nat
      PROVE  /\ ReceiveResult(k, n) \in CallRecords
             /\ k.status = "running" => ReceiveResult(k, n).status = "completed"
  BY <1>2 DEF ReceiveResult, CallRecords
<1>6. CommitResult(k) \in CallRecords /\ CommitResult(k).status = "committed"
  BY <1>2 DEF CommitResult, CallRecords
<1>7. AfterRetry(k) \in {"retry_pending", "needs_attention"}
  BY DEF AfterRetry
<1>8. /\ RecordTransportFailure(k) \in CallRecords
      /\ RecordTransportFailure(k).status = AfterRetry(k)
  BY <1>1, <1>2, <1>7 DEF RecordTransportFailure, CallRecords
<1>9. RejectInvalidResult(k) \in CallRecords /\ RejectInvalidResult(k).status = AfterRetry(k)
  BY <1>1, <1>2, <1>7 DEF RejectInvalidResult, CallRecords, NoLaunch
<1>10. AuthorizeRetry(k) \in CallRecords /\ AuthorizeRetry(k).status = "retry_pending"
  BY <1>2 DEF AuthorizeRetry, CallRecords
<1>11. /\ ReconcileAfterStop(k) \in CallRecords
       /\ ReconcileAfterStop(k).status \in {"completed", "committed"}
            <=> k.status \in {"completed", "committed"}
  <2>1. CASE ~LostByStop(k)
    BY <2>1 DEF ReconcileAfterStop
  <2>2. CASE LostByStop(k)
    <3> DEFINE s == IF k.retries >= k.limit THEN "needs_attention" ELSE "retry_pending"
               fenced == k.fenced \cup {k.epoch}
               epoch == k.epoch + 1
    <3>1. s \in {"retry_pending", "needs_attention"} /\ s \in CallStates
      BY <1>2
    <3>2. fenced \in SUBSET Nat /\ epoch \in Nat
      BY DEF CallRecords
    <3>3. ReconcileAfterStop(k) = [k EXCEPT !.status = s, !.fenced = fenced,
                                            !.epoch = epoch]
      BY <2>2 DEF ReconcileAfterStop
    <3> HIDE DEF s, fenced, epoch
    <3>4. ReconcileAfterStop(k) \in CallRecords /\ ReconcileAfterStop(k).status = s
      BY <3>1, <3>2, <3>3 DEF CallRecords
    <3>5. QED
      BY <2>2, <3>1, <3>4 DEF LostByStop
  <2>3. QED
    BY <2>1, <2>2
<1>12. QED
  BY <1>4, <1>5, <1>6, <1>7, <1>8, <1>9, <1>10, <1>11

(* What the lines of an audit say of the thread stays among the threads.   *)
LEMMA AuditLines ==
    ASSUME NEW a \in AuditRecords
    PROVE  /\ Latest(a) \in MaybeThreads
           /\ a.seen # {} => Latest(a) \in a.seen
           /\ a.seen = {} => Latest(a) = a.latest
           /\ AuditStarted(a) \in AuditRecords
           /\ \/ AuditStarted(a) = a
              \/ AuditStarted(a).seen = {} /\ AuditStarted(a).latest = Latest(a)
           /\ \A t \in MaybeThreads :
                /\ AuditShows(a, t) \in AuditRecords
                /\ AuditShows(a, t).latest = a.latest
                /\ \/ AuditShows(a, t).seen = a.seen
                   \/ t # NoThread /\ AuditShows(a, t).seen = a.seen \cup {t}
<1>1. a.seen # {} => Latest(a) \in a.seen
  BY DEF Latest
<1>2. a.seen = {} => Latest(a) = a.latest
  BY DEF Latest
<1>3. Latest(a) \in MaybeThreads
  BY <1>1, <1>2 DEF AuditRecords, MaybeThreads
<1>4. /\ AuditStarted(a) \in AuditRecords
      /\ \/ AuditStarted(a) = a
         \/ AuditStarted(a).seen = {} /\ AuditStarted(a).latest = Latest(a)
  BY <1>3 DEF AuditStarted, AuditRecords
<1>5. ASSUME NEW t \in MaybeThreads
      PROVE  /\ AuditShows(a, t) \in AuditRecords
             /\ AuditShows(a, t).latest = a.latest
             /\ \/ AuditShows(a, t).seen = a.seen
                \/ t # NoThread /\ AuditShows(a, t).seen = a.seen \cup {t}
  <2>1. CASE a.active /\ t # NoThread
    <3>1. AuditShows(a, t) = [a EXCEPT !.seen = a.seen \cup {t}]
      BY <2>1 DEF AuditShows
    <3>2. QED
      BY <2>1, <3>1 DEF AuditRecords, MaybeThreads
  <2>2. CASE ~(a.active /\ t # NoThread)
    BY <2>2 DEF AuditShows
  <2>3. QED
    BY <2>1, <2>2
<1>6. QED
  BY <1>1, <1>2, <1>3, <1>4, <1>5

(* While one thread is all that is named, recovery finds it or nothing ... *)
LEMMA RecoveryFinds ==
    ASSUME Types, NEW t \in AllThreads, OnlyNames(t)
    PROVE  /\ Recovered \in {t, NoThread}
           /\ ledger # NoThread => Recovered = ledger
           /\ Recovered = NoThread =>
                /\ ledger = NoThread
                /\ \A c \in Calls : audit[c].seen = {} /\ audit[c].latest = NoThread
           /\ \A c \in Calls : ~Contradicts(audit[c])
           /\ Evidence \subseteq {t}
<1>1. \A c \in Calls : audit[c] \in AuditRecords
  BY DEF Types
<1>2. \A c \in Calls : Latest(audit[c]) \in {t, NoThread}
  BY <1>1, AuditLines DEF OnlyNames
<1>3. Evidence \subseteq {t}
  BY <1>2 DEF Evidence
<1>4. ASSUME NEW S, S \subseteq {t}
      PROVE  /\ Cardinality(S) <= 1
             /\ S # {} => S = {t} /\ Cardinality(S) = 1
             /\ S = {} => Cardinality(S) = 0
  BY <1>4, FS_EmptySet, FS_Singleton
<1>5. \A c \in Calls : ~Contradicts(audit[c])
  BY <1>4 DEF OnlyNames, Contradicts
<1>6. ledger # NoThread => Recovered = ledger
  BY DEF Recovered
<1>7. CASE ledger # NoThread
  BY <1>3, <1>5, <1>6, <1>7 DEF OnlyNames
<1>8. CASE ledger = NoThread /\ Evidence # {}
  <2>1. Evidence = {t} /\ Recoverable
    BY <1>3, <1>4, <1>5, <1>8 DEF Recoverable
  <2>2. Recovered = t
    BY <1>8, <2>1 DEF Recovered
  <2>3. QED
    BY <1>3, <1>5, <1>8, <2>2, ThreadNumbers
<1>9. CASE ledger = NoThread /\ Evidence = {}
  <2>1. Recovered = NoThread
    BY <1>4, <1>9 DEF Recovered, Recoverable
  <2>2. \A c \in Calls : Latest(audit[c]) = NoThread
    BY <1>9 DEF Evidence
  <2>3. \A c \in Calls : audit[c].seen = {}
    BY <1>1, <2>2, AuditLines, ThreadNumbers DEF AuditRecords
  <2>4. \A c \in Calls : audit[c].latest = NoThread
    BY <1>1, <2>2, <2>3, AuditLines
  <2>5. QED
    BY <1>3, <1>5, <1>9, <2>1, <2>3, <2>4
<1>10. QED
  BY <1>7, <1>8, <1>9

(***************************************************************************)
(* The steps.                                                              *)
(***************************************************************************)
(* What an append does to the files, whether or not it is lost.            *)
LEMMA AuditAppends ==
    ASSUME Types, NEW c \in Calls, NEW a \in AuditRecords, AppendAudit(c, a)
    PROVE  /\ audit' \in [Calls -> AuditRecords]
           /\ audit'[c] \in {audit[c], a}
           /\ \A d \in Calls \ {c} : audit'[d] = audit[d]
           /\ torn' \subseteq Files
BY DEF Types, AppendAudit

LEMMA LedgerAppends ==
    ASSUME Types, NEW t \in MaybeThreads, AppendLedger(t)
    PROVE  /\ ledger' \in {ledger, t}
           /\ torn' \subseteq Files
BY DEF Types, AppendLedger

LEMMA RebindAppends ==
    ASSUME Types, OneThread, RebindLedger
    PROVE  /\ ledger' \in {ledger, Recovered} \cap MaybeThreads
           /\ ledger # NoThread => ledger' = ledger
           /\ torn' \subseteq Files
<1>1. PICK t \in AllThreads : OnlyNames(t)
  BY DEF OneThread
<1>2. Recovered \in MaybeThreads /\ ledger \in MaybeThreads
  BY <1>1, RecoveryFinds DEF MaybeThreads, Types
<1>3. CASE ledger = NoThread /\ Recovered # NoThread
  BY <1>2, <1>3, LedgerAppends DEF RebindLedger
<1>4. CASE ~(ledger = NoThread /\ Recovered # NoThread)
  BY <1>2, <1>4 DEF RebindLedger, Types
<1>5. QED
  BY <1>3, <1>4

(* A step outside a launch changes the record of one call.                 *)
LEMMA OneCall ==
    ASSUME calls \in [Calls -> CallRecords], NEW c \in Calls,
           NEW k \in CallRecords, calls' = [calls EXCEPT ![c] = k]
    PROVE  /\ calls' \in [Calls -> CallRecords]
           /\ calls'[c] = k
           /\ \A d \in Calls \ {c} : calls'[d] = calls[d]
OBVIOUS

LEMMA TypesKept ==
    ASSUME IInv, Next
    PROVE  Types'
<1> USE DEF Types, runVars, sessionVars, casVars, Steps
<1>1. calls \in [Calls -> CallRecords] /\ audit \in [Calls -> AuditRecords]
  BY DEF IInv
<1>2. NoThread \in MaybeThreads /\ NoCall \in Calls \cup {NoCall}
  BY DEF MaybeThreads
<1>3. ASSUME NEW c \in Calls, Prepare(c)
      PROVE  Types'
  <2>1. PrepareCall("advisor", "none", RetryLimit) \in CallRecords
    BY BoundsAssumption DEF PrepareCall, CallRecords, CallStates, NoLaunch
  <2>2. QED
    BY <1>3, <2>1, OneCall DEF IInv, Prepare
<1>4. ASSUME NEW c \in Calls, Decide(c)
      PROVE  Types'
  BY <1>4, RebindAppends DEF IInv, Decide
<1>5. ASSUME NEW c \in Calls, Commit(c)
      PROVE  Types'
  <2>1. /\ CommitResult(calls[c]) \in CallRecords
        /\ RejectInvalidResult(calls[c]) \in CallRecords
    BY <1>1, CallEvents
  <2>2. /\ calls' \in [Calls -> CallRecords]
        /\ host' \in {"up", "down"} /\ spoke' \in [Calls -> MaybeThreads]
    BY <1>2, <1>5, <2>1 DEF IInv, Commit, StopsOn
  <2>3. /\ {ledger', session'} \subseteq MaybeThreads
        /\ torn' \subseteq Files
    BY <1>5, RebindAppends DEF IInv, Commit
  <2>4. QED
    BY <1>5, <2>2, <2>3 DEF IInv, Commit
<1>6. ASSUME NEW c \in Calls, Authorize(c)
      PROVE  Types'
  BY <1>1, <1>6, CallEvents, OneCall DEF IInv, Authorize
<1>7. CASE MarkRunning
  <2>1. cur \in Calls /\ calls[cur].attempt < MaxLaunches
    BY <1>7 DEF IInv, InLaunch, MarkRunning
  <2>2. Launch(calls[cur]) \in CallRecords
    BY <1>1, <2>1, CallEvents
  <2>3. QED
    BY <1>7, <2>1, <2>2, OneCall DEF IInv, MarkRunning
<1>8. CASE Issue
  BY <1>8 DEF IInv, Issue
<1>9. CASE WriteCapability
  BY <1>2, <1>9 DEF IInv, InLaunch, WriteCapability
<1>10. CASE Begin
  <2>1. cur \in Calls
    BY <1>10 DEF IInv, InLaunch, Begin
  <2>2. AuditStarted(audit[cur]) \in AuditRecords
    BY <1>1, <2>1, AuditLines
  <2>3. QED
    BY <1>10, <2>1, <2>2, AuditAppends DEF IInv, Begin
<1>11. CASE Spawn
  <2>1. cur \in Calls /\ calls[cur].attempt \in 1..MaxLaunches
    BY <1>1, <1>11, BoundsAssumption DEF IInv, InLaunch, Spawn, CallRecords
  <2>2. FreshThread \in AllThreads
    BY <2>1, ThreadNumbers DEF FreshThread
  <2>3. QED
    BY <1>11, <2>2 DEF IInv, Spawn, MaybeThreads
<1>12. CASE Report
  <2>1. cur \in Calls /\ thread \in MaybeThreads
    BY <1>12 DEF IInv, InLaunch, Report
  <2>2. AuditShows(audit[cur], thread) \in AuditRecords
    BY <1>1, <2>1, AuditLines
  <2>3. QED
    BY <1>12, <2>1, <2>2, AuditAppends DEF IInv, Report
<1>13. ASSUME NEW how \in {"reply", "failed"}, Exit(how)
       PROVE  Types'
  BY <1>13 DEF IInv, Exit
<1>14. CASE EndAudit
  <2>1. cur \in Calls /\ arg \in MaybeThreads
    BY <1>14 DEF IInv, InLaunch, EndAudit
  <2>2. AuditShows(audit[cur], arg) \in AuditRecords
    BY <1>1, <2>1, AuditLines
  <2>3. QED
    BY <1>14, <2>1, <2>2, AuditAppends DEF IInv, EndAudit
<1>15. CASE RecordThread
  <2>1. arg \in MaybeThreads
    BY DEF IInv
  <2>2. QED
    BY <1>15, <2>1, LedgerAppends DEF IInv, RecordThread
<1>16. CASE Break
  <2>1. cur \in Calls /\ arg \in MaybeThreads
    BY <1>16 DEF IInv, InLaunch, Break
  <2>2. AuditShows(audit[cur], arg) \in AuditRecords
    BY <1>1, <2>1, AuditLines
  <2>3. QED
    BY <1>16, <2>1, <2>2, AuditAppends DEF IInv, Break
<1>17. ASSUME NEW r \in Requests, Dispatch(r) \/ CasStart(r) \/ CasFinish(r) \/ CasStage(r)
       PROVE  Types'
  <2>1. /\ \E s \in Stages : stage' = [stage EXCEPT ![r] = s]
        /\ closed' \subseteq Requests
    <3>1. /\ {"dispatched", "ran", "checked", "refused", "running", "versioning",
              "staged"} \subseteq Stages
      BY DEF Stages, Ended, Busy
    <3>2. QED
      BY <1>17, <3>1 DEF IInv, Dispatch, CasStart, CasFinish, CasStage
  <2>2. QED
    BY <1>17, <2>1 DEF IInv, Dispatch, CasStart, CasFinish, CasStage
<1>18. CASE Revoke \/ AwaitProcesses
  BY <1>18 DEF IInv, Revoke, AwaitProcesses
<1>19. CASE Accept
  <2>1. cur \in Calls
    BY <1>19 DEF IInv, InLaunch, Accept
  <2>2. ReceiveResult(calls[cur], calls[cur].attempt) \in CallRecords
    <3>1. calls[cur] \in CallRecords /\ calls[cur].attempt \in Nat
      BY <1>1, <2>1, BoundsAssumption DEF CallRecords
    <3>2. QED
      BY <3>1, CallEvents
  <2>3. QED
    BY <1>2, <1>19, <2>1, <2>2, OneCall DEF IInv, Accept, Leave
<1>20. CASE FailLaunch
  <2>1. cur \in Calls
    BY <1>20 DEF IInv, InLaunch, FailLaunch
  <2>2. RecordTransportFailure(calls[cur]) \in CallRecords
    BY <1>1, <2>1, CallEvents
  <2>3. QED
    BY <1>2, <1>20, <2>1, <2>2, OneCall DEF IInv, FailLaunch, Leave, StopsOn
<1>21. CASE Kill \/ Interrupt
  <2>1. /\ stage' \in [Requests -> Stages] /\ stops' \in 0..MaxStops
    BY <1>21, BoundsAssumption
       DEF IInv, Kill, Interrupt, ForgetProcess, Stages, Ended
  <2>2. torn' \subseteq Files
    <3>1. Writing \subseteq Files
      BY DEF IInv, InLaunch, Writing, Files
    <3>2. QED
      BY <1>21, <3>1 DEF IInv, Kill, Interrupt
  <2>3. QED
    BY <1>2, <1>21, <2>1, <2>2 DEF IInv, Kill, Interrupt, ForgetProcess, Leave
<1>22. CASE Resume
  <2>1. \A c \in Calls : ReconcileAfterStop(calls[c]) \in CallRecords
    BY <1>1, CallEvents
  <2>2. QED
    BY <1>22, <2>1 DEF IInv, Resume
<1>23. QED
  BY <1>3, <1>4, <1>5, <1>6, <1>7, <1>8, <1>9, <1>10, <1>11, <1>12, <1>13, <1>14,
     <1>15, <1>16, <1>17, <1>18, <1>19, <1>20, <1>21, <1>22
     DEF Next, LaunchStep, CasStep

(* A launch stays with the call it was decided for.                        *)
LEMMA InLaunchKept ==
    ASSUME IInv, Next
    PROVE  InLaunch'
<1> USE DEF runVars, sessionVars, casVars, Launchable
<1>1. calls \in [Calls -> CallRecords] /\ host \in {"up", "down"}
  BY DEF IInv, Types
<1>2. CASE pc' = "idle"
  BY <1>2 DEF InLaunch
<1>3. ASSUME pc = "idle", pc' # "idle"
      PROVE  InLaunch'
  <2>1. PICK c \in Calls : Decide(c)
    BY <1>3 DEF Next, Prepare, Commit, Authorize, LaunchStep, MarkRunning, Issue,
                WriteCapability, Begin, Spawn, Report, EndAudit, RecordThread, Break,
                Exit, Dispatch, CasStep, CasStart, CasFinish, CasStage, Revoke,
                AwaitProcesses, Accept, FailLaunch, Kill, Interrupt, ForgetProcess,
                Leave, Resume
  <2>2. host' = "up" /\ cur' = c /\ pc' = "decided" /\ calls' = calls
    BY <1>3, <2>1 DEF Decide
  <2>3. QED
    BY <2>1, <2>2 DEF InLaunch, Decide
<1>4. ASSUME pc # "idle", pc' # "idle"
      PROVE  InLaunch'
  <2>1. host = "up" /\ cur \in Calls
    BY <1>4 DEF IInv, InLaunch
  <2>2. CASE MarkRunning
    <3>1. /\ Launch(calls[cur]).status = "running"
          /\ Launch(calls[cur]).attempt = calls[cur].attempt + 1
          /\ calls[cur].attempt \in Nat
      <4>1. calls[cur] \in CallRecords /\ calls[cur].attempt < MaxLaunches
        BY <1>1, <2>1, <2>2 DEF IInv, InLaunch, MarkRunning
      <4>2. calls[cur].attempt \in Nat
        BY <4>1, BoundsAssumption DEF CallRecords
      <4>3. QED
        BY <4>1, <4>2, CallEvents
    <3>2. calls'[cur] = Launch(calls[cur])
      BY <1>1, <2>1, <2>2 DEF MarkRunning
    <3>3. QED
      BY <1>4, <2>1, <2>2, <3>1, <3>2 DEF InLaunch, MarkRunning
  <2>3. ASSUME ~MarkRunning
        PROVE  /\ host' = host /\ cur' = cur /\ calls' = calls
               /\ pc' = pc \/ pc \notin {"idle", "decided"}
               /\ pc' # "decided" \/ pc = "decided"
    <3>1. /\ \A c \in Calls : ~Prepare(c) /\ ~Decide(c) /\ ~Commit(c) /\ ~Authorize(c)
          /\ ~Resume
      BY <1>4, <2>1 DEF Prepare, Decide, Commit, Authorize, Resume
    <3>2. ~Accept /\ ~FailLaunch /\ ~Kill /\ ~Interrupt
      BY <1>4 DEF Accept, FailLaunch, Kill, Interrupt, ForgetProcess, Leave
    <3>3. QED
      BY <2>3, <3>1, <3>2
         DEF Next, LaunchStep, Issue, WriteCapability, Begin, Spawn, Report, EndAudit,
             RecordThread, Break, Exit, Dispatch, CasStep, CasStart, CasFinish,
             CasStage, Revoke, AwaitProcesses
  <2>4. CASE ~MarkRunning
    BY <1>4, <2>1, <2>3, <2>4 DEF IInv, InLaunch
  <2>5. QED
    BY <2>2, <2>4
<1>5. QED
  BY <1>2, <1>3, <1>4

(* The audits after a line about the thread t.                             *)
LEMMA AuditNames ==
    ASSUME Types, NEW t \in AllThreads, OnlyNames(t), NEW c \in Calls,
           NEW x \in {t, NoThread},
           \/ AppendAudit(c, AuditStarted(audit[c]))
           \/ AppendAudit(c, AuditShows(audit[c], x))
    PROVE  \A d \in Calls :
             /\ audit'[d].seen \subseteq {t}
             /\ audit'[d].latest \in {t, NoThread}
<1>1. audit[c] \in AuditRecords /\ x \in MaybeThreads
  BY DEF Types, MaybeThreads
<1>2. /\ audit[c].seen \subseteq {t} /\ audit[c].latest \in {t, NoThread}
      /\ Latest(audit[c]) \in {t, NoThread}
  BY <1>1, AuditLines DEF OnlyNames
<1>3. ASSUME NEW a \in AuditRecords, AppendAudit(c, a), a.seen \subseteq {t},
             a.latest \in {t, NoThread}
      PROVE  \A d \in Calls :
               audit'[d].seen \subseteq {t} /\ audit'[d].latest \in {t, NoThread}
  BY <1>3, AuditAppends DEF OnlyNames
<1>4. CASE AppendAudit(c, AuditStarted(audit[c]))
  <2>1. /\ AuditStarted(audit[c]) \in AuditRecords
        /\ AuditStarted(audit[c]).seen \subseteq {t}
        /\ AuditStarted(audit[c]).latest \in {t, NoThread}
    BY <1>1, <1>2, AuditLines
  <2>2. QED
    BY <1>3, <1>4, <2>1
<1>5. CASE AppendAudit(c, AuditShows(audit[c], x))
  <2>1. /\ AuditShows(audit[c], x) \in AuditRecords
        /\ AuditShows(audit[c], x).seen \subseteq {t}
        /\ AuditShows(audit[c], x).latest \in {t, NoThread}
    BY <1>1, <1>2, AuditLines
  <2>2. QED
    BY <1>3, <1>5, <2>1
<1>6. QED
  BY <1>4, <1>5

(* A fresh thread is only ever started where nothing names another.        *)
LEMMA OneThreadKept ==
    ASSUME IInv, Next
    PROVE  OneThread'
<1> USE DEF runVars, sessionVars, casVars
<1>1. PICK t \in AllThreads : OnlyNames(t)
  BY DEF IInv, OneThread
<1>2. /\ Types /\ OneThread /\ Recovered \in {t, NoThread}
      /\ {ledger, session, arg, thread} \subseteq {t, NoThread}
  BY <1>1, RecoveryFinds DEF IInv, OnlyNames
<1>3. CASE Spawn /\ arg = NoThread
  <2>1. cur \in Calls /\ calls[cur].attempt \in 1..MaxLaunches
    BY <1>3, BoundsAssumption DEF IInv, Types, InLaunch, Spawn, CallRecords
  <2>2. FreshThread \in AllThreads
    BY <2>1, ThreadNumbers DEF FreshThread
  <2>3. Unnamed
    BY <1>3 DEF IInv, FreshIsFirst, Spawn
  <2>4. thread' = FreshThread
    BY <1>3 DEF Spawn
  <2> DEFINE u == FreshThread
  <2>5. ASSUME NEW v, v = thread', v \in AllThreads
        PROVE  OnlyNames(v)'
    BY <1>3, <2>3, <2>5 DEF OnlyNames, Unnamed, Spawn
  <2>6. QED
    BY <2>2, <2>4, <2>5 DEF OneThread
<1>4. CASE ~(Spawn /\ arg = NoThread)
  <2>1. \/ audit' = audit
        \/ \A d \in Calls : audit'[d].seen \subseteq {t} /\ audit'[d].latest \in {t, NoThread}
    <3>1. CASE Begin \/ Report \/ EndAudit \/ Break
      <4>1. cur \in Calls
        BY <3>1 DEF IInv, InLaunch, Begin, Report, EndAudit, Break
      <4>2. \/ AppendAudit(cur, AuditStarted(audit[cur]))
            \/ AppendAudit(cur, AuditShows(audit[cur], thread))
            \/ AppendAudit(cur, AuditShows(audit[cur], arg))
        BY <3>1 DEF Begin, Report, EndAudit, Break
      <4>3. QED
        BY <1>1, <1>2, <4>1, <4>2, AuditNames
    <3>2. CASE ~(Begin \/ Report \/ EndAudit \/ Break)
      BY <3>2 DEF Next, Prepare, Decide, Commit, Authorize, LaunchStep, MarkRunning,
                  Issue, WriteCapability, Spawn, RecordThread, Exit, Dispatch, CasStep,
                  CasStart, CasFinish, CasStage, Revoke, AwaitProcesses, Accept,
                  FailLaunch, Kill, Interrupt, ForgetProcess, Resume
    <3>3. QED
      BY <3>1, <3>2
  <2>2. \A d \in Calls : spoke'[d] \in {t, NoThread}
    <3>1. CASE spoke' = spoke
      BY <1>1, <3>1 DEF OnlyNames
    <3>2. CASE Accept \/ \E c \in Calls : Commit(c)
      <4>1. spoke \in [Calls -> MaybeThreads]
        BY <1>2 DEF Types
      <4>2. QED
        BY <1>1, <1>2, <3>2, <4>1 DEF OnlyNames, Accept, Commit
    <3>3. QED
      BY <3>1, <3>2
         DEF Next, Prepare, Decide, Authorize, LaunchStep, MarkRunning, Issue,
             WriteCapability, Begin, Spawn, Report, EndAudit, RecordThread, Break, Exit,
             Dispatch, CasStep, CasStart, CasFinish, CasStage, Revoke, AwaitProcesses,
             FailLaunch, Kill, Interrupt, ForgetProcess, Resume
  <2>3. ledger' \in {t, NoThread}
    <3>1. CASE ledger' = ledger
      BY <1>2, <3>1
    <3>2. CASE RebindLedger
      BY <1>2, <3>2, RebindAppends
    <3>3. CASE RecordThread
      BY <1>2, <3>3 DEF RecordThread, AppendLedger
    <3>4. QED
      BY <3>1, <3>2, <3>3
         DEF Next, Prepare, Decide, Commit, Authorize, LaunchStep, MarkRunning, Issue,
             WriteCapability, Begin, Spawn, Report, EndAudit, Break, Exit,
             Dispatch, CasStep, CasStart, CasFinish, CasStage, Revoke, AwaitProcesses,
             Accept, FailLaunch, Kill, Interrupt, ForgetProcess, Resume
  <2>4. session' \in {t, NoThread}
    <3>1. CASE session' = session
      BY <1>2, <3>1
    <3>2. CASE \E c \in Calls : Commit(c)
      BY <1>2, <2>3, <3>2 DEF Commit
    <3>3. QED
      BY <3>1, <3>2
         DEF Next, Prepare, Decide, Authorize, LaunchStep, MarkRunning, Issue,
             WriteCapability, Begin, Spawn, Report, EndAudit, RecordThread, Break, Exit,
             Dispatch, CasStep, CasStart, CasFinish, CasStage, Revoke, AwaitProcesses,
             Accept, FailLaunch, Kill, Interrupt, ForgetProcess, Resume
  <2>5. {arg', thread'} \subseteq {t, NoThread}
    BY <1>2, <1>4
       DEF Next, Prepare, Decide, Commit, Authorize, LaunchStep, MarkRunning, Issue,
           WriteCapability, Begin, Spawn, Report, EndAudit, RecordThread, Break, Exit,
           Dispatch, CasStep, CasStart, CasFinish, CasStage, Revoke, AwaitProcesses,
           Accept, FailLaunch, Kill, Interrupt, ForgetProcess, Leave, Resume
  <2>6. OnlyNames(t)'
    BY <1>1, <2>1, <2>2, <2>3, <2>4, <2>5 DEF OnlyNames
  <2>7. QED
    BY <2>6 DEF OneThread
<1>5. QED
  BY <1>3, <1>4

(* Decide starts afresh only a conversation of which nothing is known.     *)
LEMMA FreshIsFirstKept ==
    ASSUME IInv, Next
    PROVE  FreshIsFirst'
<1> USE DEF runVars, sessionVars, casVars
<1>1. PICK t \in AllThreads : OnlyNames(t)
  BY DEF IInv, OneThread
<1>2. ASSUME NEW c \in Calls, Decide(c), pc' = "decided", outcome' # "resume"
      PROVE  Unnamed'
  <2>1. Types /\ ThreadsKnown
    BY DEF IInv
  <2>2. ~SessionRefused(c) /\ ~Resumes /\ RebindLedger
    <3>1. pc = "idle"
      BY <1>2 DEF Decide
    <3>2. QED
      BY <1>2, <3>1 DEF Decide
  <2>3. Recovered = NoThread
    BY <2>2 DEF Resumes
  <2>4. ledger = NoThread /\ session = NoThread /\ \A d \in Calls : ~Done(d)
    BY <1>1, <2>1, <2>2, <2>3, RecoveryFinds DEF SessionRefused
  <2>5. \A d \in Calls : /\ audit[d].seen = {} /\ audit[d].latest = NoThread
                         /\ spoke[d] = NoThread
    BY <1>1, <2>1, <2>3, <2>4, RecoveryFinds DEF ThreadsKnown
  <2>6. ledger' = ledger
    BY <2>2, <2>3 DEF RebindLedger
  <2>7. QED
    BY <1>2, <2>4, <2>5, <2>6 DEF Unnamed, Decide
<1>3. ASSUME Begin, Unnamed
      PROVE  Unnamed'
  <2>1. cur \in Calls /\ Types
    BY <1>3 DEF IInv, InLaunch, Begin
  <2>2. audit[cur] \in AuditRecords /\ audit[cur].seen = {} /\ audit[cur].latest = NoThread
    BY <1>3, <2>1 DEF Types, Unnamed
  <2>3. /\ AuditStarted(audit[cur]) \in AuditRecords
        /\ AuditStarted(audit[cur]).seen = {}
        /\ AuditStarted(audit[cur]).latest = NoThread
    BY <2>2, AuditLines
  <2>4. \A d \in Calls : audit'[d].seen = {} /\ audit'[d].latest = NoThread
    BY <1>3, <2>1, <2>2, <2>3, AuditAppends DEF Begin, Unnamed
  <2>5. QED
    BY <1>3, <2>4 DEF Unnamed, Begin
<1>4. ASSUME UNCHANGED <<audit, spoke, ledger, session>>, Unnamed
      PROVE  Unnamed'
  BY <1>4 DEF Unnamed
<1>5. ASSUME pc' \in {"decided", "launched", "issued"}, outcome' # "resume"
      PROVE  Unnamed'
  <2>1. CASE \E c \in Calls : Decide(c)
    BY <1>2, <1>5, <2>1 DEF Decide
  <2>2. ASSUME ~ \E c \in Calls : Decide(c)
        PROVE  /\ pc \in {"decided", "launched", "issued"} /\ outcome' = outcome
               /\ UNCHANGED <<audit, spoke, ledger, session>>
    BY <1>5, <2>2
       DEF Next, Prepare, Commit, Authorize, LaunchStep, MarkRunning, Issue,
           WriteCapability, Begin, Spawn, Report, EndAudit, RecordThread, Break, Exit,
           Dispatch, CasStep, CasStart, CasFinish, CasStage, Revoke, AwaitProcesses,
           Accept, FailLaunch, Kill, Interrupt, ForgetProcess, Leave, Resume
  <2>3. QED
    BY <1>4, <1>5, <2>1, <2>2 DEF IInv, FreshIsFirst
<1>6. ASSUME pc' \in {"filed", "begun"}, arg' = NoThread
      PROVE  Unnamed'
  <2>1. CASE WriteCapability
    <3>1. pc = "issued" /\ outcome # "resume"
      BY <1>6, <2>1 DEF WriteCapability, InvokeRefused
    <3>2. Unnamed
      BY <3>1 DEF IInv, FreshIsFirst
    <3>3. QED
      BY <1>4, <2>1, <3>2 DEF WriteCapability
  <2>2. CASE Begin
    BY <1>3, <1>6, <2>2 DEF IInv, FreshIsFirst, Begin
  <2>3. ASSUME ~WriteCapability, ~Begin
        PROVE  /\ pc \in {"filed", "begun"} /\ arg' = arg
               /\ UNCHANGED <<audit, spoke, ledger, session>>
    BY <1>6, <2>3
       DEF Next, Prepare, Decide, Commit, Authorize, LaunchStep, MarkRunning, Issue,
           Spawn, Report, EndAudit, RecordThread, Break, Exit,
           Dispatch, CasStep, CasStart, CasFinish, CasStage, Revoke, AwaitProcesses,
           Accept, FailLaunch, Kill, Interrupt, ForgetProcess, Leave, Resume
  <2>4. QED
    BY <1>4, <1>6, <2>1, <2>2, <2>3 DEF IInv, FreshIsFirst
<1>7. QED
  BY <1>5, <1>6 DEF FreshIsFirst

(* A reply is accepted with the thread that gave it, and unbound with its  *)
(* rejection.                                                              *)
LEMMA ThreadsKnownKept ==
    ASSUME IInv, Next
    PROVE  ThreadsKnown'
<1> USE DEF runVars, sessionVars, casVars, Done
<1>1. calls \in [Calls -> CallRecords] /\ spoke \in [Calls -> MaybeThreads]
  BY DEF IInv, Types
<1>2. PICK t \in AllThreads : OnlyNames(t)
  BY DEF IInv, OneThread
<1>3. pc' = "running" \/ outcome' \in {"reported", "reply"} => thread' # NoThread
  <2>1. CASE Spawn
    <3>1. cur \in Calls /\ calls[cur].attempt \in 1..MaxLaunches
      BY <2>1, BoundsAssumption DEF IInv, Types, InLaunch, Spawn, CallRecords
    <3>2. FreshThread # NoThread
      BY <3>1, ThreadNumbers DEF FreshThread
    <3>3. QED
      BY <2>1, <3>2 DEF Spawn
  <2>2. CASE ~Spawn
    BY <2>2
       DEF IInv, ThreadsKnown, Next, Prepare, Decide, Commit, Authorize, LaunchStep,
           MarkRunning, Issue, WriteCapability, Begin, Report, EndAudit, RecordThread,
           Break, Exit, Dispatch, CasStep, CasStart, CasFinish, CasStage, Revoke,
           AwaitProcesses, Accept, FailLaunch, Kill, Interrupt, ForgetProcess, Leave,
           Resume
  <2>3. QED
    BY <2>1, <2>2
<1>4. session' # NoThread => ledger' # NoThread
  <2>1. CASE session' = session /\ ledger' = ledger
    BY <2>1 DEF IInv, ThreadsKnown
  <2>2. CASE \E c \in Calls : Decide(c) \/ Commit(c)
    BY <2>2, RebindAppends DEF IInv, ThreadsKnown, Decide, Commit
  <2>3. CASE RecordThread
    BY <2>3 DEF IInv, ThreadsKnown, RecordThread, AppendLedger
  <2>4. QED
    BY <2>1, <2>2, <2>3
       DEF Next, Prepare, Authorize, LaunchStep, MarkRunning, Issue,
           WriteCapability, Begin, Spawn, Report, EndAudit, Break, Exit,
           Dispatch, CasStep, CasStart, CasFinish, CasStage, Revoke, AwaitProcesses,
           Accept, FailLaunch, Kill, Interrupt, ForgetProcess, Resume
<1>5. ASSUME NEW c \in Calls
      PROVE  spoke'[c] # NoThread <=> Done(c)'
  <2>1. spoke[c] # NoThread <=> Done(c)
    BY DEF IInv, ThreadsKnown
  <2>2. CASE calls' = calls /\ spoke' = spoke
    BY <2>1, <2>2
  <2>3. CASE \E d \in Calls : Prepare(d) \/ Authorize(d)
    <3>1. PICK d \in Calls : Prepare(d) \/ Authorize(d)
      BY <2>3
    <3>2. calls[d].status \notin {"completed", "committed"}
      BY <3>1 DEF Prepare, Authorize, CanAuthorize
    <3>3. calls'[d].status \notin {"completed", "committed"}
      BY <1>1, <3>1, CallEvents DEF Prepare, Authorize, PrepareCall
    <3>4. spoke' = spoke /\ \A e \in Calls \ {d} : calls'[e] = calls[e]
      BY <1>1, <3>1 DEF Prepare, Authorize
    <3>5. QED
      BY <2>1, <3>2, <3>3, <3>4
  <2>4. CASE \E d \in Calls : Commit(d)
    <3>1. PICK d \in Calls : Commit(d)
      BY <2>4
    <3>2. calls[d].status = "completed" /\ spoke[d] # NoThread
      BY <3>1 DEF IInv, ThreadsKnown, Commit
    <3>3. \A e \in Calls \ {d} : calls'[e] = calls[e] /\ spoke'[e] = spoke[e]
      BY <1>1, <3>1 DEF Commit
    <3>4. \/ calls'[d] = CommitResult(calls[d]) /\ spoke' = spoke
          \/ calls'[d] = RejectInvalidResult(calls[d]) /\ spoke'[d] = NoThread
      BY <1>1, <3>1 DEF Commit
    <3>5. spoke'[d] # NoThread <=> calls'[d].status \in {"completed", "committed"}
      BY <1>1, <3>2, <3>4, CallEvents
    <3>6. QED
      BY <2>1, <3>3, <3>5
  <2>5. CASE MarkRunning \/ Accept \/ FailLaunch
    <3>1. cur \in Calls /\ calls[cur] \in CallRecords /\ calls[cur].attempt \in Nat
      BY <1>1, <2>5, BoundsAssumption
         DEF IInv, InLaunch, MarkRunning, Accept, FailLaunch, CallRecords
    <3>2. calls[cur].status \notin {"completed", "committed"}
      BY <2>5 DEF IInv, InLaunch, MarkRunning, Accept, FailLaunch, Launchable
    <3>3. \A e \in Calls \ {cur} : calls'[e] = calls[e] /\ spoke'[e] = spoke[e]
      BY <1>1, <2>5, <3>1 DEF MarkRunning, Accept, FailLaunch
    <3>4. CASE Accept
      <4>1. calls[cur].status = "running" /\ thread # NoThread
        BY <3>4 DEF IInv, InLaunch, ThreadsKnown, Accept
      <4>2. calls'[cur].status = "completed" /\ spoke'[cur] = thread
        BY <1>1, <3>1, <3>4, <4>1, CallEvents DEF Accept
      <4>3. QED
        BY <2>1, <3>3, <4>1, <4>2
    <3>5. CASE MarkRunning \/ FailLaunch
      <4>1. calls'[cur] \in {Launch(calls[cur]), RecordTransportFailure(calls[cur])}
        BY <1>1, <3>1, <3>5 DEF MarkRunning, FailLaunch
      <4>2. calls'[cur].status \notin {"completed", "committed"}
        <5>1. Launch(calls[cur]).status = "running"
          BY <3>1 DEF Launch, CallRecords
        <5>2. QED
          BY <3>1, <4>1, <5>1, CallEvents
      <4>3. spoke' = spoke
        BY <3>5 DEF MarkRunning, FailLaunch
      <4>4. QED
        BY <2>1, <3>2, <3>3, <4>2, <4>3
    <3>6. QED
      BY <2>5, <3>4, <3>5
  <2>6. CASE Resume
    <3>1. calls'[c] = ReconcileAfterStop(calls[c]) /\ spoke' = spoke
      BY <2>6 DEF Resume
    <3>2. QED
      BY <1>1, <2>1, <3>1, CallEvents
  <2>7. QED
    BY <2>2, <2>3, <2>4, <2>5, <2>6
       DEF Next, Decide, LaunchStep, Issue, WriteCapability, Begin, Spawn, Report,
           EndAudit, RecordThread, Break, Exit, Dispatch, CasStep, CasStart, CasFinish,
           CasStage, Revoke, AwaitProcesses, Kill, Interrupt, ForgetProcess
<1>6. QED
  BY <1>3, <1>4, <1>5 DEF ThreadsKnown

(* The scope of a revoked launch stays closed until the next process.      *)
LEMMA ScopesClosedKept ==
    ASSUME IInv, Next
    PROVE  ScopesClosed'
<1> USE DEF runVars, sessionVars, casVars
<1> DEFINE Apart == {"running", "exited", "ended", "recorded"}
<1>1. stage \in [Requests -> Stages] /\ pc \in Steps
  BY DEF IInv, Types
<1>2. ScopesClosed
  BY DEF IInv
<1>3. CASE Kill \/ Interrupt
  BY <1>3 DEF Kill, Interrupt, ForgetProcess, ScopesClosed, Ended, Busy
<1>4. CASE Revoke
  <2>1. /\ \A r \in Requests : stage[r] \notin Ended => r \in closed'
        /\ stage' = stage /\ pc' = "closing"
    BY <1>4 DEF Revoke
  <2>2. QED
    BY <2>1 DEF ScopesClosed
<1>5. CASE AwaitProcesses
  <2>1. \A r \in Requests : stage[r] \notin Busy
    BY <1>2, <1>5 DEF AwaitProcesses, Quieted, ScopesClosed, Ended, Busy
  <2>2. QED
    BY <1>2, <1>5, <2>1 DEF AwaitProcesses, ScopesClosed
<1>6. ASSUME NEW r \in Requests, Dispatch(r)
      PROVE  ScopesClosed'
  BY <1>6 DEF Dispatch, ScopesClosed
<1>7. ASSUME NEW r \in Requests, CasStart(r) \/ CasFinish(r) \/ CasStage(r)
      PROVE  ScopesClosed'
  <2>1. /\ pc' = pc /\ closed' = closed
        /\ \A q \in Requests \ {r} : stage'[q] = stage[q]
    BY <1>1, <1>7 DEF CasStart, CasFinish, CasStage
  <2>2. stage[r] \notin Ended
    BY <1>7 DEF CasStart, CasFinish, CasStage, Ended, Busy
  <2>3. r \in closed => stage'[r] \notin Busy
    BY <1>1, <1>7 DEF CasStart, CasFinish, CasStage, ScopeOpen, Busy
  <2>4. QED
    BY <1>2, <2>1, <2>2, <2>3 DEF ScopesClosed
<1>8. CASE UNCHANGED casVars
  <2>1. pc' \in {"running", "exited", "ended", "recorded", "closing"}
          \/ pc \notin {"running", "exited", "ended", "recorded", "closing"}
          \/ AwaitProcesses \/ Kill \/ Interrupt
    BY <1>8
       DEF Next, Prepare, Decide, Commit, Authorize, LaunchStep, MarkRunning, Issue,
           WriteCapability, Begin, Spawn, Report, EndAudit, RecordThread, Break, Exit,
           Dispatch, CasStep, CasStart, CasFinish, CasStage, Revoke,
           Accept, FailLaunch, Leave, Resume
  <2>2. pc' \in Apart \/ pc \notin Apart \/ Revoke \/ Kill \/ Interrupt
    BY <1>8
       DEF Next, Prepare, Decide, Commit, Authorize, LaunchStep, MarkRunning, Issue,
           WriteCapability, Begin, Spawn, Report, EndAudit, RecordThread, Break, Exit,
           Dispatch, CasStep, CasStart, CasFinish, CasStage, AwaitProcesses,
           Accept, FailLaunch, Leave, Resume
  <2>3. QED
    BY <1>2, <1>3, <1>4, <1>5, <1>8, <2>1, <2>2 DEF ScopesClosed
<1>9. QED
  BY <1>3, <1>4, <1>5, <1>6, <1>7, <1>8
     DEF Next, Prepare, Decide, Commit, Authorize, LaunchStep, MarkRunning, Issue,
         WriteCapability, Begin, Spawn, Report, EndAudit, RecordThread, Break, Exit,
         CasStep, Accept, FailLaunch, Resume

LEMMA Invariance == Spec => []IInv
<1>1. Init => IInv
  <2>1. SUFFICES ASSUME Init PROVE IInv
    OBVIOUS
  <2>2. Absent("none") \in CallRecords /\ Absent("none").status = "absent"
    BY BoundsAssumption DEF Absent, CallRecords, NoLaunch
  <2>3. NewAudit \in AuditRecords
    BY DEF NewAudit, AuditRecords, MaybeThreads
  <2>4. /\ \A c \in Calls : /\ calls[c] = Absent("none") /\ audit[c] = NewAudit
                            /\ spoke[c] = NoThread
        /\ ledger = NoThread /\ session = NoThread
        /\ arg = NoThread /\ thread = NoThread
    BY <2>1 DEF Init
  <2>5. Types
    <3>1. /\ calls = [c \in Calls |-> Absent("none")]
          /\ audit = [c \in Calls |-> NewAudit]
          /\ spoke = [c \in Calls |-> NoThread]
          /\ stage = [r \in Requests |-> "unused"]
          /\ host = "up" /\ torn = {} /\ capfiles = {} /\ pc = "idle" /\ cur = NoCall
          /\ outcome = "none" /\ closed = {} /\ stops = 0
      BY <2>1 DEF Init
    <3>2. /\ calls \in [Calls -> CallRecords] /\ audit \in [Calls -> AuditRecords]
          /\ spoke \in [Calls -> MaybeThreads] /\ stage \in [Requests -> Stages]
      BY <2>2, <2>3, <3>1 DEF MaybeThreads, Stages, Ended
    <3>3. QED
      BY <2>4, <3>1, <3>2, BoundsAssumption DEF Types, MaybeThreads, Steps
  <2>6. InLaunch
    BY <2>1 DEF Init, InLaunch
  <2>7. OneThread
    <3>1. OnlyNames(1)
      BY <2>4 DEF OnlyNames, NewAudit
    <3>2. QED
      BY <3>1, ThreadNumbers DEF OneThread
  <2>8. FreshIsFirst /\ ScopesClosed
    BY <2>1 DEF Init, FreshIsFirst, ScopesClosed, Ended, Busy
  <2>9. ThreadsKnown
    BY <2>1, <2>2, <2>4 DEF Init, ThreadsKnown, Done
  <2>10. QED
    BY <2>5, <2>6, <2>7, <2>8, <2>9 DEF IInv
<1>2. IInv /\ [Next]_vars => IInv'
  <2>1. ASSUME IInv, Next PROVE IInv'
    BY <2>1, TypesKept, InLaunchKept, OneThreadKept, FreshIsFirstKept,
       ThreadsKnownKept, ScopesClosedKept DEF IInv
  <2>2. ASSUME IInv, UNCHANGED vars PROVE IInv'
    BY <2>2 DEF vars, IInv, Types, InLaunch, Launchable, OneThread, OnlyNames,
                FreshIsFirst, Unnamed, ThreadsKnown, Done, ScopesClosed
  <2>3. QED
    BY <2>1, <2>2
<1>3. QED
  BY <1>1, <1>2, PTL DEF Spec

(***************************************************************************)
(* Theorems.                                                               *)
(***************************************************************************)
(* _advisor_session_resume never starts a second conversation: whatever    *)
(* stops, kills and torn lines come between, the ledger and the audits     *)
(* name one thread, the bound session is found again, and every accepted   *)
(* reply came from it.                                                     *)
THEOREM ConversationIsOne == Spec => []OneConversation
<1>1. ASSUME IInv PROVE OneConversation
  <2>1. PICK t \in AllThreads : OnlyNames(t)
    BY <1>1 DEF IInv, OneThread
  <2>2. Types /\ ThreadsKnown
    BY <1>1 DEF IInv
  <2>3. TypeOK
    BY <2>2 DEF Types, TypeOK, CallRecords, AuditRecords, MaybeThreads, Stages
  <2>4. SessionSurvives
    <3>1. SUFFICES ASSUME session # NoThread
                   PROVE  /\ Recovered = session
                          /\ \A c \in Calls : Done(c) => spoke[c] = session
      BY DEF SessionSurvives
    <3>2. session = t /\ ledger = t
      BY <2>1, <2>2, <3>1 DEF OnlyNames, ThreadsKnown
    <3>3. Recovered = t
      BY <2>1, <2>2, <3>2, RecoveryFinds, ThreadNumbers
    <3>4. QED
      BY <2>1, <2>2, <3>2, <3>3 DEF OnlyNames, ThreadsKnown
  <2>5. OneThreadTrace
    <3>1. /\ \A c \in Calls : ~Contradicts(audit[c])
          /\ (Evidence \cup {ledger}) \ {NoThread} \subseteq {t}
      BY <2>1, <2>2, RecoveryFinds DEF OnlyNames
    <3>2. Cardinality((Evidence \cup {ledger}) \ {NoThread}) <= 1
      <4>1. \/ (Evidence \cup {ledger}) \ {NoThread} = {}
            \/ (Evidence \cup {ledger}) \ {NoThread} = {t}
        BY <3>1
      <4>2. QED
        BY <4>1, FS_EmptySet, FS_Singleton, SMTT(40)
    <3>3. QED
      BY <3>1, <3>2 DEF OneThreadTrace
  <2>6. QED
    BY <2>3, <2>4, <2>5 DEF OneConversation
<1>2. QED
  BY <1>1, Invariance, PTL

(* cas_process.py: once revoke has returned no CAS process of the launch   *)
(* runs, although its handler threads may still be between two runs.       *)
THEOREM RevocationQuiets == Spec => []QuietAfterRevoke
<1>1. IInv => QuietAfterRevoke
  BY DEF IInv, ScopesClosed, QuietAfterRevoke
<1>2. QED
  BY <1>1, Invariance, PTL

(* advisor_control.session_id is bound once: no later proposal, and no     *)
(* recovery of the ledger, binds another thread.                           *)
BoundForGood == [][session # NoThread => session' = session]_vars

(* Once it holds a thread, no step changes the session.                    *)
THEOREM SessionIsFinal == Spec => BoundForGood
<1>1. ASSUME IInv, Next, session # NoThread
      PROVE  session' = session
  <2>1. PICK t \in AllThreads : OnlyNames(t)
    BY <1>1 DEF IInv, OneThread
  <2>2. ledger # NoThread
    BY <1>1 DEF IInv, ThreadsKnown
  <2>3. CASE \E c \in Calls : Commit(c)
    <3>1. session = t /\ ledger = t
      BY <1>1, <2>1, <2>2 DEF OnlyNames
    <3>2. QED
      BY <2>3, <3>1, RebindAppends, <1>1 DEF Commit, IInv, sessionVars
  <2>4. QED
    BY <1>1, <2>3
       DEF Next, Prepare, Decide, Authorize, LaunchStep, MarkRunning, Issue,
           WriteCapability, Begin, Spawn, Report, EndAudit, RecordThread, Break, Exit,
           Dispatch, CasStep, CasStart, CasFinish, CasStage, Revoke, AwaitProcesses,
           Accept, FailLaunch, Kill, Interrupt, ForgetProcess, Resume, sessionVars
<1>2. IInv /\ [Next]_vars => [session # NoThread => session' = session]_vars
  BY <1>1
<1>3. QED
  BY <1>2, Invariance, PTL DEF Spec, BoundForGood
=============================================================================
