--------------------------- MODULE AdvisorRounds ----------------------------
(***************************************************************************)
(* The Advisor rounds of a project and the desk of its operator:           *)
(* advisor_system/state.py and program.py, their host in scheduler.py and  *)
(* runtime.py, the workspace an agent stages its report in, the problem    *)
(* file of the next cycle, and the dashboard's feedback inbox              *)
(* (dashboard_commands.py), whose commands only the runner consumes.       *)
(*                                                                         *)
(* A runner makes one step at a time and may stop between any two; a       *)
(* polling thread of it applies raised attempt limits at any time.  The    *)
(* dashboard publishes whenever it likes, on what it read before; the      *)
(* command line binds feedback only while no runner is up.  One record     *)
(* stands for the latest Advisor call: earlier ones are committed.         *)
(***************************************************************************)
EXTENDS LogicalCall, AdvisorContracts

CONSTANTS MaxRounds,    \* bound: rounds opened
          MaxLaunches,  \* bound: launches of one call
          MaxStops,     \* bound: stops of the runner
          RetryLimit    \* retries.main_transport

ASSUME BoundsAssumption ==
    /\ MaxRounds \in Nat \ {0}
    /\ MaxLaunches \in Nat \ {0}
    /\ MaxStops \in Nat
    /\ RetryLimit \in Nat
    /\ MaxRevision \in Nat
    /\ ObligationCount \in Nat \ {0}

VARIABLES
    host,      \* "up" while a runner holds the project lock
    phase,     \* "research", or "drain" for franta_drain
    cycle,     \* phase_control.cycle
    mem,       \* the revision of each record
    round,     \* advisor_control.active
    history,   \* advisor_control.history
    call,      \* the latest Advisor call
    reply,     \* its accepted reply
    ws,        \* the workspace of a proposal call
    pc,        \* where the runner is
    files,     \* problem-cycle files written, by target cycle
    commands,  \* published feedback commands, by request
    receipts,  \* their receipts
    verdict,   \* a receipt about to be published
    stops      \* bound: stops so far

roundVars == <<phase, cycle, mem, round, history, files>>
callVars == <<call, reply, ws>>
deskVars == <<commands, receipts, verdict>>
vars == <<host, phase, cycle, mem, round, history, call, reply, ws, pc, files,
          commands, receipts, verdict, stops>>

Requests == 1..MaxRounds
Cycles == 1..MaxRounds + 1
Nothing == <<>>

NoRound == [status |-> "idle", snapshot |-> [m \in Memories |-> 0],
            newer |-> [m \in Memories |-> 0], launch |-> NoLaunch,
            request |-> 0, offers |-> {}, choices |-> Nothing]

(* The report an agent staged, and the launch it staged it in. *)
NoReport == [launch |-> NoLaunch, request |-> 0, offers |-> {}]

(* generation: the lease and launch the directory was made for. *)
NoWorkspace == [exists |-> FALSE, generation |-> <<0, 0>>, report |-> NoReport]

(* A reply that failed its validation, kept until it is rejected. *)
Invalid == <<[kind |-> "invalid", statement |-> RootText]>>

NoVerdict == [request |-> 0, status |-> "none"]

Index == Len(history) + 1
Proposing == round.status = "proposing"
Finalizing == round.status = "finalizing"
Free == host = "up" /\ pc = "loop" /\ verdict = NoVerdict

Init ==
    /\ host = "up" /\ pc = "loop" /\ stops = 0
    /\ phase = "research" /\ cycle = 1
    /\ mem = [m \in Memories |-> 0]
    /\ round = NoRound /\ history = <<>>
    /\ call = Absent("none") /\ reply = Nothing /\ ws = NoWorkspace
    /\ files = [c \in Cycles |-> Nothing]
    /\ commands = [q \in Requests |-> Nothing]
    /\ receipts = [q \in Requests |-> "none"]
    /\ verdict = NoVerdict

(* --- The turns around a round ------------------------------------------ *)
(* Research revises what is remembered. *)
Learn(m) ==
    /\ Free /\ phase = "research"
    /\ mem[m] < MaxRevision /\ cycle <= MaxRounds
    /\ mem' = [mem EXCEPT ![m] = @ + 1]
    /\ UNCHANGED <<host, phase, cycle, round, history, files, callVars, pc,
                   deskVars, stops>>

EndTurn ==
    /\ Free /\ phase = "research" /\ cycle <= MaxRounds
    /\ phase' = "drain"
    /\ UNCHANGED <<host, cycle, mem, round, history, files, callVars, pc,
                   deskVars, stops>>

(* Mutant of MayReopen: a bound round does not hold the drain. *)
MayAlwaysReopen == TRUE

MayReopen == round.status = "idle"

(* A raised limit, applied by whichever thread ticks first. *)
Reopen ==
    /\ host = "up" /\ phase = "drain"
    /\ MayReopen
    /\ phase' = "research"
    /\ UNCHANGED <<host, cycle, mem, round, history, files, callVars, pc,
                   deskVars, stops>>

(* prepare_advisor_proposal, under the attempt-limit lock with the snapshot. *)
OpenRound ==
    /\ Free /\ phase = "drain" /\ round.status = "idle"
    /\ Index = cycle
    /\ HasProblem(history, cycle)
    /\ ~Regressed(history, mem)
    /\ round' = [NoRound EXCEPT !.status = "proposing", !.snapshot = mem,
                                !.newer = Freshness(history, mem)]
    /\ call' = PrepareCall("advisor-proposal", "none", RetryLimit)
    /\ reply' = Nothing /\ ws' = NoWorkspace
    /\ UNCHANGED <<host, phase, cycle, mem, history, files, pc, deskVars, stops>>

(* --- The workspace of a proposal --------------------------------------- *)
NextGeneration == <<call.epoch, call.attempt + 1>>

(* Mutant of Reusable: whatever is there is used again. *)
ReusableAnyway == ws.exists

Reusable == ws.exists /\ ws.generation = NextGeneration

Executable == /\ Free
              /\ Proposing \/ Finalizing
              /\ CanLaunch(call) /\ call.attempt < MaxLaunches

(* _advisor_workspace: a directory of an older launch is retired.  The      *)
(* generation is recorded after the directory is made, so a stop can leave  *)
(* a directory that no record vouches for.                                  *)
Materialize ==
    /\ Executable /\ Proposing
    /\ ~Reusable
    /\ \E recorded \in BOOLEAN :
          /\ ws' = [exists |-> TRUE, report |-> NoReport,
                    generation |-> IF recorded THEN NextGeneration ELSE <<0, 0>>]
          /\ recorded \/ stops < MaxStops
          /\ host' = IF recorded THEN "up" ELSE "down"
          /\ stops' = IF recorded THEN stops ELSE stops + 1
    /\ UNCHANGED <<roundVars, call, reply, pc, deskVars>>

(* --- One launch -------------------------------------------------------- *)
LaunchAdvisor ==
    /\ Executable
    /\ Proposing => Reusable
    /\ call' = Launch(call)
    /\ pc' = "running"
    /\ UNCHANGED <<host, roundVars, reply, ws, deskVars, stops>>

(* The selection_report skill: a valid report, once per workspace. *)
Stage ==
    /\ pc = "running" /\ Proposing
    /\ ws.report = NoReport
    /\ \E offers \in kSubset(ObligationCount, Obligations(history)),
          q \in 1..Index :
          /\ ValidReport(history, round.newer, offers)
          /\ ws' = [ws EXCEPT !.report = [launch |-> call.attempt, request |-> q,
                                          offers |-> offers]]
    /\ UNCHANGED <<host, roundVars, call, reply, pc, deskVars, stops>>

(* _validated_advisor_report: exactly one report, with this launch's receipt. *)
OwnReport == ws.report.launch = call.attempt /\ ws.report.launch # NoLaunch

Claims == IF Proposing THEN {Nothing} ELSE Answers(round.offers)

Acceptable(claim) == IF Proposing THEN OwnReport
                     ELSE Follows(claim, round.choices)

Accept ==
    /\ pc = "running"
    /\ \E claim \in Claims :
          /\ Acceptable(claim)
          /\ reply' = claim
    /\ call' = ReceiveResult(call, call.attempt)
    /\ pc' = "loop"
    /\ UNCHANGED <<host, roundVars, ws, deskVars, stops>>

(* Retry, or stop and wait for the operator. *)
AfterFailure(k) ==
    /\ call' = k
    /\ host' = IF k.status = "needs_attention" THEN "down" ELSE "up"

RetireWorkspace == ws' = IF Proposing THEN NoWorkspace ELSE ws

(* An invalid reply is kept as the result and then rejected. *)
AcceptInvalid ==
    /\ pc = "running"
    /\ Proposing \/ \E claim \in Claims : ~Acceptable(claim)
    /\ reply' = Invalid
    /\ call' = ReceiveResult(call, call.attempt)
    /\ pc' = "rejecting"
    /\ UNCHANGED <<host, roundVars, ws, deskVars, stops>>

RejectReply ==
    /\ pc = "rejecting"
    /\ AfterFailure(RejectInvalidResult(call))
    /\ RetireWorkspace
    /\ reply' = Nothing
    /\ pc' = "loop"
    /\ UNCHANGED <<roundVars, deskVars, stops>>

FailLaunch ==
    /\ pc = "running"
    /\ AfterFailure(RecordTransportFailure(call))
    /\ RetireWorkspace
    /\ pc' = "loop"
    /\ UNCHANGED <<roundVars, reply, deskVars, stops>>

(* --- Committing -------------------------------------------------------- *)
UsedRequests == {history[k].request : k \in DOMAIN history}

CommitProposal ==
    /\ Free /\ Proposing /\ call.status = "completed"
    /\ IF /\ reply # Invalid
          /\ OwnReport /\ ws.report.request \notin UsedRequests
       THEN /\ round' = [round EXCEPT !.status = "waiting",
                                      !.launch = ws.report.launch,
                                      !.request = ws.report.request,
                                      !.offers = ws.report.offers]
            /\ call' = CommitResult(call)
            /\ pc' = "loop"
       ELSE /\ pc' = "rejecting"
            /\ UNCHANGED <<round, call>>
    /\ UNCHANGED <<host, phase, cycle, mem, history, files, reply, ws, deskVars,
                   stops>>

PrepareFinalize ==
    /\ Free /\ phase = "drain" /\ round.status = "ready"
    /\ round' = [round EXCEPT !.status = "finalizing"]
    /\ call' = PrepareCall("advisor-finalize", "none", RetryLimit)
    /\ reply' = Nothing
    /\ UNCHANGED <<host, phase, cycle, mem, history, files, ws, pc, deskVars,
                   stops>>

FollowedReply == call.status = "completed" /\ Follows(reply, round.choices)

(* The file comes first and never changes once it is there. *)
WriteProblemFile ==
    /\ Free /\ Finalizing /\ call.status = "completed"
    /\ IF FollowedReply /\ files[cycle + 1] \in {Nothing, ProblemText(reply)}
       THEN /\ files' = [files EXCEPT ![cycle + 1] = ProblemText(reply)]
            /\ pc' = "filed"
       ELSE /\ pc' = "rejecting"
            /\ UNCHANGED files
    /\ UNCHANGED <<host, phase, cycle, mem, round, history, callVars, deskVars,
                   stops>>

(* One transaction: the assignment, the end of the drain, the next cycle. *)
CommitAssignment ==
    /\ pc = "filed"
    /\ IF phase = "drain" /\ Follows(reply, round.choices)
       THEN /\ history' = Append(history,
                   [snapshot |-> round.snapshot, request |-> round.request,
                    offers |-> round.offers, choices |-> round.choices,
                    subproblems |-> reply])
            /\ round' = NoRound
            /\ call' = CommitResult(call)
            /\ reply' = Nothing
            /\ phase' = "research" /\ cycle' = cycle + 1
            /\ pc' = "loop"
       ELSE /\ pc' = "rejecting"
            /\ UNCHANGED <<phase, cycle, round, history, call, reply>>
    /\ UNCHANGED <<host, mem, files, ws, deskVars, stops>>

(* --- Feedback ---------------------------------------------------------- *)
(* The round a request belongs to, active or closed. *)
Closed(q) == {k \in DOMAIN history : history[k].request = q}

ChoicesOf(q) ==
    IF round.request = q THEN round.choices
    ELSE IF Closed(q) # {} THEN history[CHOOSE k \in Closed(q) : TRUE].choices
    ELSE Nothing

OffersOf(q) ==
    IF round.request = q THEN round.offers
    ELSE IF Closed(q) # {} THEN history[CHOOSE k \in Closed(q) : TRUE].offers
    ELSE {}

CanBind(q, answer) ==
    /\ round.status = "waiting" /\ round.request = q
    /\ answer \in Answers(round.offers)

Bind(answer) ==
    round' = [round EXCEPT !.status = "ready", !.choices = answer]

(* The command line: no runner is up. *)
SubmitByHand(answer) ==
    /\ host = "down"
    /\ CanBind(round.request, answer)
    /\ Bind(answer)
    /\ UNCHANGED <<host, phase, cycle, mem, history, files, callVars, pc,
                   deskVars, stops>>

(* A page of the dashboard found the round waiting, now or long ago. *)
Publish(q, answer) ==
    /\ commands[q] = Nothing
    /\ answer \in Answers(OffersOf(q))
    /\ commands' = [commands EXCEPT ![q] = answer]
    /\ UNCHANGED <<host, roundVars, callVars, pc, receipts, verdict, stops>>

Pending(q) == commands[q] # Nothing /\ receipts[q] = "none"

(* Mutant of Outcome: that somebody answered is good enough. *)
OutcomeAnswered(q) ==
    IF ChoicesOf(q) # Nothing \/ CanBind(q, commands[q]) THEN "accepted"
    ELSE "rejected"

(* submit_advisor_feedback: bound now, bound before, or refused. *)
Outcome(q) ==
    IF ChoicesOf(q) = commands[q] \/ CanBind(q, commands[q]) THEN "accepted"
    ELSE "rejected"

(* Any failure of the binding, the host's own included, is a rejection. *)
Consume(q) ==
    /\ Free /\ Pending(q)
    /\ \/ /\ verdict' = [request |-> q, status |-> Outcome(q)]
          /\ IF CanBind(q, commands[q]) THEN Bind(commands[q])
                                        ELSE UNCHANGED round
       \/ /\ CanBind(q, commands[q])
          /\ verdict' = [request |-> q, status |-> "rejected"]
          /\ UNCHANGED round
    /\ UNCHANGED <<host, phase, cycle, mem, history, files, callVars, pc, commands,
                   receipts, stops>>

PublishReceipt ==
    /\ verdict # NoVerdict
    /\ receipts' = [receipts EXCEPT ![verdict.request] = verdict.status]
    /\ verdict' = NoVerdict
    /\ UNCHANGED <<host, roundVars, callVars, pc, commands, stops>>

(* --- Stops, resumption and the operator -------------------------------- *)
(* Nothing to do but wait for the human: run returns. *)
Rest ==
    /\ Free /\ round.status = "waiting"
    /\ \A q \in Requests : ~Pending(q)
    /\ host' = "down"
    /\ UNCHANGED <<roundVars, callVars, pc, deskVars, stops>>

Stop ==
    /\ host = "up" /\ stops < MaxStops
    /\ host' = "down" /\ pc' = "loop" /\ verdict' = NoVerdict
    /\ stops' = stops + 1
    /\ UNCHANGED <<roundVars, callVars, commands, receipts>>

Resume ==
    /\ host = "down" /\ call.status # "needs_attention"
    /\ host' = "up"
    /\ call' = ReconcileAfterStop(call)
    /\ UNCHANGED <<roundVars, reply, ws, pc, deskVars, stops>>

Authorize ==
    /\ host = "down" /\ CanAuthorize(call) /\ call.attempt < MaxLaunches
    /\ call' = AuthorizeRetry(call)
    /\ UNCHANGED <<host, roundVars, reply, ws, pc, deskVars, stops>>

(* The runner's own steps on an open round. *)
Advance == \/ Materialize \/ LaunchAdvisor \/ Stage \/ Accept \/ AcceptInvalid
           \/ RejectReply \/ FailLaunch \/ CommitProposal \/ PrepareFinalize
           \/ WriteProblemFile \/ CommitAssignment

Desk == \/ \E q \in Requests : \E answer \in Answers(OffersOf(q)) :
              Publish(q, answer)
        \/ \E answer \in Answers(round.offers) : SubmitByHand(answer)
        \/ \E q \in Requests : Consume(q)
        \/ PublishReceipt

Next == \/ \E m \in Memories : Learn(m)
        \/ EndTurn \/ Reopen \/ OpenRound
        \/ Advance \/ Desk
        \/ Rest \/ Stop \/ Resume \/ Authorize

Spec == Init /\ [][Next]_vars

(* The runner keeps working, is started again, and a receipt gets written. *)
FairSpec == Spec /\ WF_vars(Advance) /\ WF_vars(PublishReceipt)
                 /\ WF_vars(Resume)

(* --- Properties --------------------------------------------------------- *)
(* Every piece of the state stays among the values the code can leave.     *)
TypeOK ==
    /\ host \in {"up", "down"} /\ phase \in {"research", "drain"}
    /\ cycle \in Cycles /\ mem \in Snapshots
    /\ round.status \in {"idle", "proposing", "waiting", "ready", "finalizing"}
    /\ round.snapshot \in Snapshots /\ round.request \in Requests \cup {0}
    /\ Len(history) <= MaxRounds
    /\ call.status \in CallStates \cup {"absent"}
    /\ ws.report.launch \in 0..MaxLaunches
    /\ pc \in {"loop", "running", "rejecting", "filed"}
    /\ verdict.status \in {"none", "accepted", "rejected"}
    /\ \A q \in Requests : receipts[q] \in {"none", "accepted", "rejected"}
    /\ stops \in 0..MaxStops

(* Every closed round left exactly the problem its operator chose: choices  *)
(* in their order, of what the report offered or the operator wrote; and    *)
(* the problem file of a cycle, which is written before the transaction and *)
(* can never be replaced, says the same, also when the transaction is still *)
(* to come or the process stopped before it.                                *)
AssignmentFollowsHuman ==
    /\ \A k \in DOMAIN history :
          /\ history[k].subproblems = history[k].choices
          /\ history[k].choices \in Answers(history[k].offers)
          /\ files[k + 1] = EffectiveProblem(history, k + 1)
    /\ \A c \in Cycles : c > Index /\ files[c] # Nothing =>
          /\ Finalizing /\ c = Index + 1
          /\ files[c] = ProblemText(round.choices)

(* An open round holds the drain of its cycle, however the limits are       *)
(* raised meanwhile, and the cycle that runs has exactly one problem: there *)
(* are as many closed rounds as cycles before it.                           *)
RoundHoldsDrain ==
    /\ round.status # "idle" => phase = "drain"
    /\ cycle = Index /\ HasProblem(history, cycle)

(* The report an operator sees comes from the launch whose reply was        *)
(* accepted, and no launch finds the report of an earlier one where it      *)
(* stages its own, whatever was left by failures, stops and rejections.     *)
ReportOfOneLaunch ==
    /\ round.status = "waiting" => round.launch = call.result
    /\ pc = "running" /\ Proposing =>
          ws.report.launch \in {NoLaunch, call.attempt}

(* An obligation that repeats earlier assignments rests on records that     *)
(* have all been revised since every snapshot those assignments were        *)
(* chosen on: the compressed proof of freshness says no more than that.     *)
RepeatsHaveNewEvidence ==
    \A o \in round.offers : \A k \in o.repeats, m \in o.evidence :
        history[k].snapshot[m] < round.snapshot[m]

(* A command with an accepted receipt is the feedback of its round, also    *)
(* when it is replayed after a stop or after the round was closed.          *)
ReceiptMatchesBinding ==
    \A q \in Requests : receipts[q] = "accepted" => ChoicesOf(q) = commands[q]

(* Feedback that was bound leads to the assignment of the next cycle, or to *)
(* a call that needs the operator, with a runner that is started again.     *)
AnsweredRoundCloses ==
    round.status = "ready" ~>
        round.status = "idle" \/ call.status = "needs_attention"
=============================================================================
