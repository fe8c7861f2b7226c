--------------------------- MODULE AgentSessions ---------------------------
(***************************************************************************)
(* One persistent agent conversation: the launches of its calls            *)
(* (src/franta/execution_gateway/transport.py, runtime.py _invoke_agent),  *)
(* the broker capability and the CAS processes a launch owns (broker.py,   *)
(* cas_process.py, skills.py execute_cas), and how the thread of the       *)
(* conversation is found again (_advisor_session_resume, and for Main      *)
(* _main_session_resume, which differs only in having no bound session).   *)
(*                                                                         *)
(* The calls of the conversation are numbered; odd ones are proposals,     *)
(* whose commit binds the session, even ones finalizations.  One host      *)
(* process runs them one at a time, and may be interrupted (Ctrl-C, which  *)
(* unwinds) or killed (which does not) between any two steps; killing it   *)
(* in the middle of an append leaves a torn line, and the next append to   *)
(* that file is lost with it.  A thread is a number, 0 for none.  What an  *)
(* agent writes to its workspace is not modelled here.                     *)
(***************************************************************************)
EXTENDS LogicalCall, FiniteSets

CONSTANTS MaxCalls,     \* bound: calls of the conversation
          MaxLaunches,  \* bound: launches of one call
          MaxStops,     \* bound: how often the host is stopped from outside
          RetryLimit,   \* retries.main_transport
          Requests      \* CAS requests an agent may send

ASSUME BoundsAssumption ==
    /\ MaxCalls \in Nat \ {0}
    /\ MaxLaunches \in Nat \ {0}
    /\ MaxStops \in Nat
    /\ RetryLimit \in Nat

Calls == 1..MaxCalls
NoThread == 0
NoCall == 0

VARIABLES
    host,      \* "up" while a runner holds the project lock
    calls,     \* the scheduler's call records, by number
    spoke,     \* the thread that gave the accepted reply of a call
    audit,     \* calls/<id>.jsonl: what its lines say about the thread
    ledger,    \* the last readable binding of the thread ledger
    torn,      \* files whose last line a kill left incomplete
    session,   \* advisor_control.session_id
    capfiles,  \* calls with a file in broker-capabilities/
    pc, cur,   \* where the host is, and with which call
    arg,       \* the thread the agent was asked to resume
    thread,    \* the thread the agent process runs in
    outcome,   \* how the process ended
    stage,     \* how far each CAS request has come
    closed,    \* requests whose call has been revoked
    stops      \* bound: outside stops so far

sessionVars == <<ledger, torn, session>>
runVars == <<pc, cur, arg, thread, outcome>>
casVars == <<stage, closed>>
vars == <<host, calls, spoke, audit, ledger, torn, session, capfiles, pc, cur,
          arg, thread, outcome, stage, closed, stops>>

IsProposal(c) == c % 2 = 1
LedgerFile == 0     \* the ledger among the files, which calls name
Files == Calls \cup {LedgerFile}

(* --- The private audit of a call --------------------------------------- *)
NewAudit == [active |-> FALSE, seen |-> {}, latest |-> NoThread]

Contradicts(a) == Cardinality(a.seen) > 1

(* The thread one audit file shows: its last launch that showed any. *)
Latest(a) == IF a.seen = {} THEN a.latest ELSE CHOOSE t \in a.seen : TRUE

AuditStarted(a) ==
    IF Contradicts(a) THEN a
    ELSE [active |-> TRUE, seen |-> {}, latest |-> Latest(a)]

AuditShows(a, t) ==
    IF a.active /\ t # NoThread THEN [a EXCEPT !.seen = @ \cup {t}] ELSE a

(* Appending after a torn line loses the appended line as well. *)
AppendAudit(c, a) ==
    /\ audit' = IF c \in torn THEN audit ELSE [audit EXCEPT ![c] = a]
    /\ torn' = torn \ {c}

AppendLedger(t) ==
    /\ ledger' = IF LedgerFile \in torn THEN ledger ELSE t
    /\ torn' = torn \ {LedgerFile}

Evidence == {Latest(audit[c]) : c \in Calls} \ {NoThread}

(* What recover_thread_binding can tell: a thread, or NoThread. *)
Recoverable ==
    /\ \A c \in Calls : ~Contradicts(audit[c])
    /\ Cardinality(Evidence) = 1

Recovered ==
    IF ledger # NoThread THEN ledger
    ELSE IF Recoverable THEN CHOOSE t \in Evidence : TRUE
    ELSE NoThread

Conflicting ==
    ledger = NoThread /\ ( \/ \E c \in Calls : Contradicts(audit[c])
                           \/ Cardinality(Evidence) > 1 )

Done(c) == calls[c].status \in {"completed", "committed"}
Launchable(c) == calls[c].status \in {"prepared", "retry_pending"}

(* --- States ------------------------------------------------------------ *)
Steps == {"idle", "decided", "launched", "issued", "filed", "begun",
          "running", "exited", "ended", "recorded", "closing", "quiet"}

(* A capability is live from issue until the revocation starts. *)
Bound == {"issued", "filed", "begun", "running", "exited", "ended", "recorded"}

Ended == {"unused", "staged", "refused"}
Busy == {"running", "versioning"}

Init ==
    /\ host = "up"
    /\ calls = [c \in Calls |-> Absent("none")]
    /\ spoke = [c \in Calls |-> NoThread]
    /\ audit = [c \in Calls |-> NewAudit]
    /\ ledger = NoThread
    /\ torn = {}
    /\ session = NoThread
    /\ capfiles = {}
    /\ pc = "idle"
    /\ cur = NoCall
    /\ arg = NoThread
    /\ thread = NoThread
    /\ outcome = "none"
    /\ stage = [r \in Requests |-> "unused"]
    /\ closed = {}
    /\ stops = 0

AllThreads == 1..(MaxCalls * MaxLaunches)

(* --- Preparing and admitting a call ------------------------------------ *)
Prepare(c) ==
    /\ host = "up" /\ pc = "idle"
    /\ calls[c].status = "absent"
    /\ \A d \in Calls : d < c => calls[d].status = "committed"
    /\ calls' = [calls EXCEPT ![c] = PrepareCall("advisor", "none", RetryLimit)]
    /\ UNCHANGED <<host, spoke, audit, sessionVars, capfiles, runVars, casVars,
                   stops>>

(* _advisor_session_resume: resume the one thread, or fail closed.         *)
SessionRefused(c) ==
    \/ ledger # NoThread /\ session # NoThread /\ ledger # session
    \/ Conflicting
    \/ /\ Recovered = NoThread
       /\ (\E d \in Calls : Done(d)) \/ session # NoThread \/ c # 1
    \/ Recovered # NoThread /\ session # NoThread /\ Recovered # session

(* Mutant of Resumes: only a bound session is resumed. *)
ResumesBound == session # NoThread

Resumes == Recovered # NoThread

RebindLedger ==
    IF ledger = NoThread /\ Recovered # NoThread THEN AppendLedger(Recovered)
    ELSE UNCHANGED <<ledger, torn>>

Decide(c) ==
    /\ host = "up" /\ pc = "idle"
    /\ Launchable(c)
    /\ calls[c].attempt < MaxLaunches
    /\ IF SessionRefused(c)
       THEN /\ host' = "down"
            /\ UNCHANGED <<ledger, torn, pc, cur, outcome>>
       ELSE /\ RebindLedger
            /\ pc' = "decided" /\ cur' = c
            /\ outcome' = IF Resumes THEN "resume" ELSE "fresh"
            /\ UNCHANGED host
    /\ UNCHANGED <<calls, spoke, audit, session, capfiles, arg, thread, casVars,
                   stops>>

MarkRunning ==
    /\ pc = "decided"
    /\ calls' = [calls EXCEPT ![cur] = Launch(@)]
    /\ pc' = "launched"
    /\ UNCHANGED <<host, spoke, audit, sessionVars, capfiles, cur, arg, thread,
                   outcome, casVars, stops>>

(* --- One launch: broker.issue and CodexTransport.invoke ----------------- *)
Issue ==
    /\ pc = "launched"
    /\ pc' = "issued"
    /\ UNCHANGED <<host, calls, spoke, audit, sessionVars, capfiles, cur, arg,
                   thread, outcome, casVars, stops>>

(* Raised before the process exists: nothing but the revocation follows. *)
InvokeRefused ==
    \/ outcome = "resume" /\ ledger = NoThread
    \/ cur \in capfiles

WriteCapability ==
    /\ pc = "issued"
    /\ IF InvokeRefused
       THEN /\ pc' = "recorded" /\ outcome' = "failed"
            /\ UNCHANGED <<capfiles, arg>>
       ELSE /\ pc' = "filed"
            /\ arg' = IF outcome = "resume" THEN ledger ELSE NoThread
            /\ capfiles' = capfiles \cup {cur}
            /\ outcome' = "none"
    /\ UNCHANGED <<host, calls, spoke, audit, sessionVars, cur, thread, casVars,
                   stops>>

Begin ==
    /\ pc = "filed"
    /\ AppendAudit(cur, AuditStarted(audit[cur]))
    /\ pc' = "begun"
    /\ UNCHANGED <<host, calls, spoke, ledger, session, capfiles, cur, arg,
                   thread, outcome, casVars, stops>>

(* A fresh conversation gets a thread no process has had. *)
FreshThread == (cur - 1) * MaxLaunches + calls[cur].attempt

Spawn ==
    /\ pc = "begun"
    /\ thread' = IF arg # NoThread THEN arg ELSE FreshThread
    /\ pc' = "running"
    /\ UNCHANGED <<host, calls, spoke, audit, sessionVars, capfiles, cur, arg,
                   outcome, casVars, stops>>

(* The reader thread hears of the thread, and files the event. *)
Report ==
    /\ pc = "running" /\ outcome = "none"
    /\ AppendAudit(cur, AuditShows(audit[cur], thread))
    /\ outcome' = "reported"
    /\ UNCHANGED <<host, calls, spoke, ledger, session, capfiles, pc, cur, arg,
                   thread, casVars, stops>>

(* _run returned: a reply, or a timeout, a cancellation, bad output or a    *)
(* bad status.  The transport now goes by the thread it heard of, else by   *)
(* the argument.  The capability file goes before call_ended is written.    *)
Exit(how) ==
    /\ pc = "running"
    /\ how = "reply" => outcome = "reported"
    /\ arg' = IF outcome = "reported" THEN thread ELSE arg
    /\ outcome' = how
    /\ pc' = "exited"
    /\ capfiles' = capfiles \ {cur}
    /\ UNCHANGED <<host, calls, spoke, audit, sessionVars, cur, thread,
                   casVars, stops>>

EndAudit ==
    /\ pc = "exited"
    /\ AppendAudit(cur, AuditShows(audit[cur], arg))
    /\ pc' = "ended"
    /\ UNCHANGED <<host, calls, spoke, ledger, session, capfiles, cur, arg,
                   thread, outcome, casVars, stops>>

RecordThread ==
    /\ pc = "ended"
    /\ IF arg # NoThread THEN AppendLedger(arg) ELSE UNCHANGED <<ledger, torn>>
    /\ pc' = "recorded"
    /\ UNCHANGED <<host, calls, spoke, audit, session, capfiles, cur, arg,
                   thread, outcome, casVars, stops>>

(* _run raised: the process could not be started or talked to.  call_ended  *)
(* names the thread asked for, and the ledger is not written.               *)
Break ==
    /\ pc \in {"begun", "running"}
    /\ AppendAudit(cur, AuditShows(audit[cur], arg))
    /\ capfiles' = capfiles \ {cur}
    /\ outcome' = "failed"
    /\ pc' = "recorded"
    /\ UNCHANGED <<host, calls, spoke, ledger, session, cur, arg, thread,
                   casVars, stops>>

(* --- CAS requests of the running agent --------------------------------- *)
(* dispatch looks the capability up once, then works without it.           *)
Dispatch(r) ==
    /\ pc = "running"
    /\ stage[r] \in Ended
    /\ stage' = [stage EXCEPT ![r] = "dispatched"]
    /\ closed' = closed \ {r}
    /\ UNCHANGED <<host, calls, spoke, audit, sessionVars, capfiles, runVars,
                   stops>>

ScopeOpen(r) == r \notin closed

(* run: check, and start the process and register it under one lock; the    *)
(* first run is the computation, the second asks for the version.           *)
CasStart(r) ==
    /\ stage[r] \in {"dispatched", "ran"}
    /\ stage' = [stage EXCEPT ![r] =
                    IF ~ScopeOpen(r) THEN "refused"
                    ELSE IF @ = "dispatched" THEN "running" ELSE "versioning"]
    /\ UNCHANGED <<host, calls, spoke, audit, sessionVars, capfiles, runVars,
                   closed, stops>>

(* Mutant of CasFinish: closing the scope does not end its processes. *)
CasFinishOpen(r) ==
    /\ stage[r] \in Busy /\ ScopeOpen(r)
    /\ stage' = [stage EXCEPT ![r] = IF @ = "running" THEN "ran" ELSE "checked"]
    /\ UNCHANGED <<host, calls, spoke, audit, sessionVars, capfiles, runVars,
                   closed, stops>>

(* The process ended, and its group was cleaned up; a closed scope or a      *)
(* passed deadline discards what it wrote.                                   *)
CasFinish(r) ==
    /\ stage[r] \in Busy
    /\ \E onTime \in BOOLEAN :
          stage' = [stage EXCEPT ![r] =
                       IF ~onTime \/ ~ScopeOpen(r) THEN "refused"
                       ELSE IF @ = "running" THEN "ran" ELSE "checked"]
    /\ UNCHANGED <<host, calls, spoke, audit, sessionVars, capfiles, runVars,
                   closed, stops>>

(* After the last check nothing stops the record from being staged. *)
CasStage(r) ==
    /\ stage[r] = "checked"
    /\ stage' = [stage EXCEPT ![r] = "staged"]
    /\ UNCHANGED <<host, calls, spoke, audit, sessionVars, capfiles, runVars,
                   closed, stops>>

(* --- Revocation -------------------------------------------------------- *)
(* The capability is forgotten, and the scope of the call closes. *)
Revoke ==
    /\ pc = "recorded"
    /\ closed' = closed \cup {r \in Requests : stage[r] \notin Ended}
    /\ pc' = "closing"
    /\ UNCHANGED <<host, calls, spoke, audit, sessionVars, capfiles, cur, arg,
                   thread, outcome, stage, stops>>

(* Mutant of Quieted: the first process to finish ends the wait. *)
QuietedByOne == Cardinality({r \in closed : stage[r] \in Busy}) <= 1

Quieted == \A r \in closed : stage[r] \notin Busy

AwaitProcesses ==
    /\ pc = "closing"
    /\ Quieted
    /\ pc' = "quiet"
    /\ UNCHANGED <<host, calls, spoke, audit, sessionVars, capfiles, cur, arg,
                   thread, outcome, casVars, stops>>

Leave == /\ pc' = "idle" /\ cur' = NoCall
         /\ arg' = NoThread /\ thread' = NoThread /\ outcome' = "none"

Accept ==
    /\ pc = "quiet" /\ outcome = "reply"
    /\ CanReceive(calls[cur], calls[cur].epoch, calls[cur].attempt)
    /\ calls' = [calls EXCEPT ![cur] = ReceiveResult(@, @.attempt)]
    /\ spoke' = [spoke EXCEPT ![cur] = thread]
    /\ Leave
    /\ UNCHANGED <<host, audit, sessionVars, capfiles, casVars, stops>>

(* Retry, or stop and wait for the operator. *)
StopsOn(k) == IF k.status = "needs_attention" THEN "down" ELSE "up"

FailLaunch ==
    /\ pc = "quiet" /\ outcome = "failed"
    /\ calls' = [calls EXCEPT ![cur] = RecordTransportFailure(@)]
    /\ host' = StopsOn(calls'[cur])
    /\ Leave
    /\ UNCHANGED <<spoke, audit, sessionVars, capfiles, casVars, stops>>

(* --- Committing the accepted reply ------------------------------------- *)
(* A proposal binds the session, which the ledger must name by then.        *)
Commit(c) ==
    /\ host = "up" /\ pc = "idle"
    /\ calls[c].status = "completed"
    /\ IF IsProposal(c)
       THEN /\ RebindLedger
            /\ IF /\ ~Conflicting
                  /\ ledger' # NoThread
                  /\ session \in {NoThread, ledger'}
               THEN /\ session' = ledger'
                    /\ calls' = [calls EXCEPT ![c] = CommitResult(@)]
                    /\ UNCHANGED <<host, spoke>>
               ELSE /\ calls' = [calls EXCEPT ![c] = RejectInvalidResult(@)]
                    /\ spoke' = [spoke EXCEPT ![c] = NoThread]
                    /\ host' = StopsOn(calls'[c])
                    /\ UNCHANGED session
       ELSE /\ calls' = [calls EXCEPT ![c] = CommitResult(@)]
            /\ UNCHANGED <<host, spoke, ledger, torn, session>>
    /\ UNCHANGED <<audit, capfiles, runVars, casVars, stops>>

(* --- Stops, resumption and the operator -------------------------------- *)
(* The file whose line is being written at a step. *)
Writing == IF pc \in {"filed", "running", "exited"} THEN {cur}
           ELSE IF pc = "ended" THEN {LedgerFile} ELSE {}

ForgetProcess ==
    /\ host' = "down"
    /\ Leave
    /\ stage' = [r \in Requests |-> "unused"]
    /\ closed' = {}
    /\ stops' = stops + 1

(* SIGKILL or power loss: nothing is unwound. *)
Kill ==
    /\ host = "up" /\ stops < MaxStops
    /\ ForgetProcess
    /\ \E line \in SUBSET Writing : torn' = torn \cup line
    /\ UNCHANGED <<calls, spoke, audit, ledger, session, capfiles>>

(* Ctrl-C: the finally clauses run; between the capability file and the      *)
(* first audit line there is no clause yet.                                  *)
Interrupt ==
    /\ host = "up" /\ stops < MaxStops
    /\ pc \in Bound
    /\ ForgetProcess
    /\ capfiles' = IF pc = "filed" THEN capfiles ELSE capfiles \ {cur}
    /\ UNCHANGED <<calls, spoke, audit, sessionVars>>

(* start_services clears the socket and the spool, and nothing else; then   *)
(* recover fences the calls that were live.                                 *)
Resume ==
    /\ host = "down"
    /\ \A c \in Calls : calls[c].status # "needs_attention"
    /\ host' = "up"
    /\ calls' = [c \in Calls |-> ReconcileAfterStop(calls[c])]
    /\ UNCHANGED <<spoke, audit, sessionVars, capfiles, runVars, casVars, stops>>

Authorize(c) ==
    /\ host = "down"
    /\ CanAuthorize(calls[c])
    /\ calls' = [calls EXCEPT ![c] = AuthorizeRetry(@)]
    /\ UNCHANGED <<host, spoke, audit, sessionVars, capfiles, runVars, casVars,
                   stops>>

LaunchStep == \/ MarkRunning \/ Issue \/ WriteCapability \/ Begin \/ Spawn
              \/ Report \/ EndAudit \/ RecordThread \/ Break
              \/ \E how \in {"reply", "failed"} : Exit(how)

CasStep == \E r \in Requests : CasStart(r) \/ CasFinish(r) \/ CasStage(r)

Next ==
    \/ \E c \in Calls : Prepare(c) \/ Decide(c) \/ Commit(c) \/ Authorize(c)
    \/ LaunchStep
    \/ \E r \in Requests : Dispatch(r)
    \/ CasStep
    \/ Revoke \/ AwaitProcesses \/ Accept \/ FailLaunch
    \/ Kill \/ Interrupt \/ Resume

Spec == Init /\ [][Next]_vars

(* The handler threads of the broker and the unwinding host keep running.   *)
FairSpec == Spec /\ WF_vars(AwaitProcesses)
                 /\ \A r \in Requests : WF_vars(CasStart(r) \/ CasFinish(r))

(* --- Properties --------------------------------------------------------- *)
(* Every piece of the state stays among the values the code can leave.     *)
TypeOK ==
    /\ host \in {"up", "down"}
    /\ \A c \in Calls :
          /\ calls[c].status \in CallStates \cup {"absent"}
          /\ calls[c].attempt \in 0..MaxLaunches
          /\ audit[c].active \in BOOLEAN
          /\ audit[c].seen \subseteq AllThreads
          /\ audit[c].latest \in AllThreads \cup {NoThread}
    /\ spoke \in [Calls -> AllThreads \cup {NoThread}]
    /\ {ledger, session, arg, thread} \subseteq AllThreads \cup {NoThread}
    /\ torn \subseteq Files /\ capfiles \subseteq Calls
    /\ pc \in Steps /\ cur \in Calls \cup {NoCall}
    /\ outcome \in {"none", "fresh", "resume", "reported", "reply", "failed"}
    /\ stage \in [Requests -> Ended \cup Busy \cup {"dispatched", "ran", "checked"}]
    /\ closed \subseteq Requests
    /\ stops \in 0..MaxStops

(* However often the host is stopped or killed, a conversation bound to a   *)
(* session can always be found again, and every accepted reply of it came   *)
(* from that one thread: the bound session is the thread that recovery of   *)
(* the ledger and the audits names.                                         *)
SessionSurvives ==
    session # NoThread =>
        /\ Recovered = session
        /\ \A c \in Calls : Done(c) => spoke[c] = session

(* The ledger and the audits of all calls never name two threads, so        *)
(* recovering the binding never fails for ambiguity.                        *)
OneThreadTrace ==
    /\ \A c \in Calls : ~Contradicts(audit[c])
    /\ Cardinality((Evidence \cup {ledger}) \ {NoThread}) <= 1

(* A conversation has one thread, which is known wherever it is looked up.  *)
OneConversation == TypeOK /\ SessionSurvives /\ OneThreadTrace

(* Once the revocation of a launch has returned, no CAS process started for *)
(* it is running or can be started any more, although requests of it may    *)
(* still be in a handler thread.                                            *)
QuietAfterRevoke ==
    pc \in {"quiet", "idle", "decided", "launched", "issued", "filed", "begun"} =>
        \A r \in Requests : stage[r] \notin Busy

(* A revocation that waits for CAS processes returns: the handlers let go   *)
(* of a closed scope, or the host is stopped.                               *)
RevokeCompletes == pc = "closing" ~> pc # "closing"

(* README.md:113 says that resume uses persisted state and recovers         *)
(* interrupted work: a relaunch of an interrupted call gets to its agent.   *)
InterruptedCallLaunches == pc = "issued" => cur \notin capfiles
=============================================================================
