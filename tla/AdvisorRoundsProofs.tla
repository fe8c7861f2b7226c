------------------------ MODULE AdvisorRoundsProofs ------------------------
(***************************************************************************)
(* What AdvisorRounds promises for every number of rounds, records, texts, *)
(* launches and stops.                                                     *)
(*                                                                         *)
(* Few steps touch the round, its history or the problem files; StepEffect *)
(* lists what they can do, and each part of the inductive invariant is     *)
(* shown to survive each of these effects.                                 *)
(***************************************************************************)
EXTENDS AdvisorRounds, SequenceTheorems, WellFoundedInduction, TLAPS

(* --- Sequences of any values ------------------------------------------- *)
IsSequence(s) == \E S : s \in Seq(S)

LEMMA AppendFacts ==
    ASSUME NEW s, IsSequence(s), NEW e
    PROVE  /\ Len(s) \in Nat /\ DOMAIN s = 1..Len(s)
           /\ IsSequence(Append(s, e))
           /\ Len(Append(s, e)) = Len(s) + 1
           /\ DOMAIN Append(s, e) = 1..Len(s) + 1
           /\ \A i \in 1..Len(s) : Append(s, e)[i] = s[i]
           /\ Append(s, e)[Len(s) + 1] = e
<1>1. PICK S : s \in Seq(S)
  BY DEF IsSequence
<1>2. s \in Seq(S \cup {e})
  BY <1>1
<1>3. /\ Append(s, e) \in Seq(S \cup {e})
      /\ Len(Append(s, e)) = Len(s) + 1
      /\ \A i \in 1..Len(s) : Append(s, e)[i] = s[i]
      /\ Append(s, e)[Len(s) + 1] = e
  BY <1>2, AppendProperties
<1>4. /\ Len(s) \in Nat /\ DOMAIN s = 1..Len(s)
      /\ DOMAIN Append(s, e) = 1..Len(s) + 1
  BY <1>2, <1>3
<1>5. IsSequence(Append(s, e))
  BY <1>3 DEF IsSequence
<1>6. QED
  BY <1>3, <1>4, <1>5

(* --- The parts of the inductive invariant ------------------------------ *)
RoundFields == {"status", "snapshot", "newer", "launch", "request", "offers",
                "choices"}

Statuses == {"idle", "proposing", "waiting", "ready", "finalizing"}

(* Round and history are what they look like.                              *)
Shape == /\ IsSequence(history)
         /\ DOMAIN round = RoundFields /\ round.status \in Statuses
         /\ DOMAIN files = Cycles

(* RoundHoldsDrain and the room for the file of the next cycle.            *)
Held == /\ cycle = Len(history) + 1
        /\ phase = "drain" => cycle <= MaxRounds
        /\ round.status # "idle" => phase = "drain"

(* What a status says of the request and the choices of the round.         *)
Asked ==
    /\ round.status \in {"idle", "proposing"} => round.request = 0
    /\ round.status \in {"idle", "proposing", "waiting"} =>
          round.choices = Nothing
    /\ round.status \in {"ready", "finalizing"} =>
          round.choices \in Answers(round.offers)
    /\ round.status \in {"waiting", "ready", "finalizing"} =>
          round.request \notin UsedRequests

(* --- What a step can do to the rounds ---------------------------------- *)
Quiet == UNCHANGED <<phase, cycle, round, history, files>>

Turns == /\ \/ phase = "research" /\ cycle <= MaxRounds /\ phase' = "drain"
            \/ round.status = "idle" /\ phase' = "research"
         /\ UNCHANGED <<cycle, round, history, files>>

Opens == /\ phase = "drain" /\ round.status = "idle"
         /\ round' = [NoRound EXCEPT !.status = "proposing", !.snapshot = mem,
                                     !.newer = Freshness(history, mem)]
         /\ ws' = NoWorkspace
         /\ UNCHANGED <<phase, cycle, history, files>>

Reports == /\ Proposing /\ call.status = "completed"
           /\ OwnReport /\ ws.report.request \notin UsedRequests
           /\ round' = [round EXCEPT !.status = "waiting",
                                     !.launch = ws.report.launch,
                                     !.request = ws.report.request,
                                     !.offers = ws.report.offers]
           /\ UNCHANGED <<phase, cycle, history, files>>

Binds == /\ round.status = "waiting"
         /\ \E answer \in Answers(round.offers) :
               round' = [round EXCEPT !.status = "ready", !.choices = answer]
         /\ UNCHANGED <<phase, cycle, history, files>>

Finalizes == /\ round.status = "ready"
             /\ round' = [round EXCEPT !.status = "finalizing"]
             /\ UNCHANGED <<phase, cycle, history, files>>

Files == /\ Finalizing /\ Follows(reply, round.choices)
         /\ files' = [files EXCEPT ![cycle + 1] = ProblemText(reply)]
         /\ UNCHANGED <<phase, cycle, round, history, reply>>

Closing == [snapshot |-> round.snapshot, request |-> round.request,
            offers |-> round.offers, choices |-> round.choices,
            subproblems |-> reply]

Closes == /\ pc = "filed" /\ phase = "drain" /\ Follows(reply, round.choices)
          /\ history' = Append(history, Closing)
          /\ round' = NoRound
          /\ phase' = "research" /\ cycle' = cycle + 1
          /\ pc' = "loop"
          /\ UNCHANGED files

Effect == \/ Quiet \/ Turns \/ Opens \/ Reports \/ Binds \/ Finalizes \/ Files
          \/ Closes

LEMMA StepEffect == [Next]_vars => Effect
<1> SUFFICES ASSUME [Next]_vars PROVE Effect
  OBVIOUS
<1>1. CASE Advance
  <2>1. CASE CommitProposal
    BY <2>1 DEF CommitProposal, Effect, Quiet, Reports
  <2>2. CASE PrepareFinalize
    BY <2>2 DEF PrepareFinalize, Effect, Finalizes
  <2>3. CASE WriteProblemFile
    BY <2>3 DEF WriteProblemFile, FollowedReply, callVars, Effect, Quiet, Files
  <2>4. CASE CommitAssignment
    BY <2>4 DEF CommitAssignment, Effect, Quiet, Closes, Closing
  <2>5. QED
    BY <1>1, <2>1, <2>2, <2>3, <2>4
    DEF Advance, Materialize, LaunchAdvisor, Stage, Accept, AcceptInvalid,
        RejectReply, FailLaunch, roundVars, Effect, Quiet
<1>2. CASE Desk
  <2>1. ASSUME NEW answer \in Answers(round.offers), SubmitByHand(answer)
        PROVE  Effect
    BY <2>1 DEF SubmitByHand, CanBind, Bind, Effect, Binds
  <2>2. ASSUME NEW q \in Requests, Consume(q) PROVE Effect
    BY <2>2 DEF Consume, CanBind, Bind, Effect, Binds, Quiet
  <2>3. QED
    BY <1>2, <2>1, <2>2 DEF Desk, Publish, PublishReceipt, roundVars, Effect, Quiet
<1>3. CASE EndTurn \/ Reopen
  BY <1>3 DEF EndTurn, Reopen, MayReopen, Effect, Turns
<1>4. CASE OpenRound
  BY <1>4 DEF OpenRound, Effect, Opens
<1>5. CASE (\E m \in Memories : Learn(m)) \/ Rest \/ Stop \/ Resume \/ Authorize
  BY <1>5 DEF Learn, Rest, Stop, Resume, Authorize, roundVars, Effect, Quiet
<1>6. CASE UNCHANGED vars
  BY <1>6 DEF vars, Effect, Quiet
<1>7. QED
  BY <1>1, <1>2, <1>3, <1>4, <1>5, <1>6 DEF Next

(* --- Shape, the drain and what a round knows --------------------------- *)
RoundInv == Shape /\ Held /\ Asked

LEMMA AnswersAreNotNothing ==
    ASSUME NEW offers, NEW a \in Answers(offers)
    PROVE  a # Nothing
<1>1. PICK n \in 1..MaxChoices : a \in [1..n -> ChoicesFor(offers)]
  BY DEF Answers
<1>2. DOMAIN a = 1..n /\ 1 \in 1..n
  BY <1>1 DEF MaxChoices
<1>3. QED
  BY <1>2 DEF Nothing

LEMMA RoundInvInit == Init => RoundInv
<1> SUFFICES ASSUME Init PROVE RoundInv
  OBVIOUS
<1>1. IsSequence(history) /\ Len(history) = 0
  <2>1. history \in Seq({}) /\ Len(history) = 0
    BY DEF Init
  <2>2. QED
    BY <2>1 DEF IsSequence
<1>2. Shape
  BY <1>1 DEF Init, Shape, NoRound, RoundFields, Statuses
<1>3. Held
  BY <1>1 DEF Init, Held, NoRound
<1>4. Asked
  BY DEF Init, Asked, NoRound
<1>5. QED
  BY <1>2, <1>3, <1>4 DEF RoundInv

LEMMA ShapeKept == RoundInv /\ Effect => Shape'
<1> SUFFICES ASSUME RoundInv, Effect PROVE Shape'
  OBVIOUS
<1> USE DEF RoundInv, Shape
<1>1. CASE Closes
  BY <1>1, AppendFacts DEF Closes, NoRound, RoundFields, Statuses
<1>2. CASE Opens
  BY <1>2 DEF Opens, NoRound, RoundFields, Statuses
<1>3. CASE Quiet \/ Turns
  BY <1>3 DEF Quiet, Turns
<1>4. CASE Reports
  BY <1>4 DEF Reports, RoundFields, Statuses
<1>5. CASE Binds
  BY <1>5 DEF Binds, RoundFields, Statuses
<1>6. CASE Finalizes \/ Files
  BY <1>6 DEF Finalizes, Files, RoundFields, Statuses
<1>7. QED
  BY <1>1, <1>2, <1>3, <1>4, <1>5, <1>6 DEF Effect

LEMMA HeldKept == RoundInv /\ Effect => Held'
<1> SUFFICES ASSUME RoundInv, Effect PROVE Held'
  OBVIOUS
<1> USE DEF RoundInv, Shape, Held
<1>1. CASE Closes
  BY <1>1, AppendFacts DEF Closes, NoRound
<1>2. CASE Opens
  BY <1>2 DEF Opens, NoRound
<1>3. CASE Quiet \/ Turns
  BY <1>3 DEF Quiet, Turns
<1>4. CASE Reports \/ Binds \/ Finalizes \/ Files
  BY <1>4 DEF Reports, Binds, Finalizes, Files, Proposing, RoundFields
<1>5. QED
  BY <1>1, <1>2, <1>3, <1>4 DEF Effect

LEMMA AskedKept == RoundInv /\ Effect => Asked'
<1> SUFFICES ASSUME RoundInv, Effect PROVE Asked'
  OBVIOUS
<1> USE DEF RoundInv, Shape, Asked, Statuses, RoundFields
<1>1. CASE Closes
  BY <1>1 DEF Closes, NoRound
<1>2. CASE Opens
  BY <1>2 DEF Opens, NoRound
<1>3. CASE Quiet \/ Turns \/ Files
  BY <1>3 DEF Quiet, Turns, Files, UsedRequests
<1>4. CASE Reports
  BY <1>4 DEF Reports, Proposing, UsedRequests
<1>5. CASE Binds
  BY <1>5 DEF Binds, UsedRequests
<1>6. CASE Finalizes
  BY <1>6 DEF Finalizes, UsedRequests
<1>7. QED
  BY <1>1, <1>2, <1>3, <1>4, <1>5, <1>6 DEF Effect

LEMMA RoundInvKept == RoundInv /\ [Next]_vars => RoundInv'
  BY StepEffect, ShapeKept, HeldKept, AskedKept DEF RoundInv

LEMMA RoundInvHolds == Spec => []RoundInv
  BY RoundInvInit, RoundInvKept, PTL DEF Spec

(* An open round holds the drain of its cycle, and the cycle has a problem. *)
THEOREM DrainIsHeld == Spec => []RoundHoldsDrain
<1>1. RoundInv => RoundHoldsDrain
  <2> SUFFICES ASSUME RoundInv PROVE RoundHoldsDrain
    OBVIOUS
  <2>1. Len(history) \in Nat /\ DOMAIN history = 1..Len(history)
    BY AppendFacts DEF RoundInv, Shape
  <2>2. QED
    BY <2>1 DEF RoundInv, Held, RoundHoldsDrain, HasProblem, Index
<1>2. QED
  BY <1>1, RoundInvHolds, PTL

(* --- The problem of a cycle -------------------------------------------- *)
(* Between the file and the transaction, the file holds the reply.         *)
FiledReply ==
    pc = "filed" => Finalizing /\ files[cycle + 1] = ProblemText(reply)

LEMMA FiledStep ==
    [Next]_vars /\ pc' = "filed" => reply' = reply /\ (pc = "filed" \/ Files)
<1> SUFFICES ASSUME [Next]_vars, pc' = "filed"
             PROVE  reply' = reply /\ (pc = "filed" \/ Files)
  OBVIOUS
<1>1. CASE Advance
  <2>1. CASE WriteProblemFile
    BY <2>1 DEF WriteProblemFile, FollowedReply, callVars, Files
  <2>2. CASE CommitAssignment \/ CommitProposal \/ PrepareFinalize
    BY <2>2 DEF CommitAssignment, CommitProposal, PrepareFinalize, Free
  <2>3. QED
    BY <1>1, <2>1, <2>2
    DEF Advance, Materialize, LaunchAdvisor, Stage, Accept, AcceptInvalid,
        RejectReply, FailLaunch, Executable, Free
<1>2. CASE Desk
  BY <1>2 DEF Desk, Publish, PublishReceipt, SubmitByHand, Consume, callVars
<1>3. CASE EndTurn \/ Reopen \/ OpenRound
  BY <1>3 DEF EndTurn, Reopen, OpenRound, Free, callVars
<1>4. CASE (\E m \in Memories : Learn(m)) \/ Rest \/ Stop \/ Resume \/ Authorize
  BY <1>4 DEF Learn, Rest, Stop, Resume, Authorize, callVars
<1>5. CASE UNCHANGED vars
  BY <1>5 DEF vars
<1>6. QED
  BY <1>1, <1>2, <1>3, <1>4, <1>5 DEF Next

FiledInv == FiledReply /\ AssignmentFollowsHuman

(* The cycle after an open round is one of the cycles.                     *)
LEMMA RoomForFile ==
    ASSUME RoundInv
    PROVE  /\ cycle \in Nat /\ cycle = Index
           /\ DOMAIN history = 1..Len(history) /\ Len(history) \in Nat
           /\ (round.status # "idle" => cycle + 1 \in Cycles)
<1>1. Len(history) \in Nat /\ DOMAIN history = 1..Len(history)
  BY AppendFacts DEF RoundInv, Shape
<1>2. QED
  BY <1>1, BoundsAssumption DEF RoundInv, Held, Index, Cycles

LEMMA FiledReplyKept == RoundInv /\ FiledReply /\ [Next]_vars => FiledReply'
<1> SUFFICES ASSUME RoundInv, FiledReply, [Next]_vars, pc' = "filed"
             PROVE  Finalizing' /\ files'[cycle' + 1] = ProblemText(reply')
  BY DEF FiledReply
<1>1. reply' = reply /\ (pc = "filed" \/ Files)
  BY FiledStep
<1>2. CASE Files
  <2>1. cycle + 1 \in DOMAIN files
    BY <1>2, RoomForFile DEF Files, Finalizing, RoundInv, Shape
  <2>2. QED
    BY <1>1, <1>2, <2>1 DEF Files, Finalizing
<1>3. CASE pc = "filed" /\ ~Files
  <2>1. Finalizing /\ files[cycle + 1] = ProblemText(reply) /\ phase = "drain"
    BY <1>3 DEF FiledReply, RoundInv, Held, Finalizing
  <2>2. Quiet
    BY <1>3, <2>1, StepEffect
    DEF Effect, Turns, Opens, Reports, Binds, Finalizes, Closes, Finalizing,
        Proposing
  <2>3. QED
    BY <1>1, <2>1, <2>2 DEF Quiet, Finalizing
<1>4. QED
  BY <1>1, <1>2, <1>3

LEMMA AssignmentKept ==
    RoundInv /\ FiledInv /\ Effect => AssignmentFollowsHuman'
<1> SUFFICES ASSUME RoundInv, FiledInv, Effect PROVE AssignmentFollowsHuman'
  OBVIOUS
<1>0. /\ cycle \in Nat /\ cycle = Index
      /\ DOMAIN history = 1..Len(history) /\ Len(history) \in Nat
      /\ round.status # "idle" => cycle + 1 \in Cycles
  BY RoomForFile
<1> USE DEF FiledInv, AssignmentFollowsHuman
<1>1. CASE Quiet \/ Turns
  BY <1>1 DEF Quiet, Turns, Index, Finalizing
<1>2. CASE Opens \/ Reports \/ Binds \/ Finalizes
  <2>1. ~Finalizing /\ UNCHANGED <<history, files>>
    BY <1>2 DEF Opens, Reports, Binds, Finalizes, Proposing, Finalizing
  <2>2. QED
    BY <2>1 DEF Index
<1>3. CASE Files
  <2>1. /\ Finalizing /\ reply = round.choices /\ cycle + 1 \in Cycles
        /\ UNCHANGED <<cycle, round, history>>
        /\ files' = [files EXCEPT ![cycle + 1] = ProblemText(reply)]
    BY <1>0, <1>3 DEF Files, Follows, Finalizing
  <2>2. \A c \in Cycles : files'[c] = IF c = cycle + 1 THEN ProblemText(reply)
                                                       ELSE files[c]
    BY <2>1 DEF RoundInv, Shape
  <2>3. \A k \in DOMAIN history : k + 1 \in Cycles /\ k + 1 # cycle + 1
    BY <1>0, <2>1, BoundsAssumption DEF Cycles, Index
  <2>4. QED
    BY <1>0, <2>1, <2>2, <2>3 DEF Index, Finalizing
<1>4. CASE Closes
  <2>0. PICK n \in Nat : n = Len(history)
    BY <1>0
  <2>1. /\ Finalizing /\ files[cycle + 1] = ProblemText(reply)
        /\ reply = round.choices /\ round.choices \in Answers(round.offers)
    BY <1>4 DEF Closes, FiledReply, Follows, RoundInv, Asked, Finalizing
  <2>2. /\ history' = Append(history, Closing) /\ files' = files
        /\ DOMAIN history' = 1..n + 1 /\ Len(history') = n + 1
        /\ \A k \in 1..n : history'[k] = history[k]
        /\ history'[n + 1] = Closing
    BY <1>4, <2>0, AppendFacts DEF Closes, RoundInv, Shape
  <2>3. ASSUME NEW k \in 1..n
        PROVE  /\ history'[k].subproblems = history'[k].choices
               /\ history'[k].choices \in Answers(history'[k].offers)
               /\ files'[k + 1] = EffectiveProblem(history, k + 1)'
    <3>1. files[k + 1] = EffectiveProblem(history, k + 1) /\ k + 1 # 1 /\ k + 1 - 1 = k
      BY <1>0, <2>0
    <3>2. QED
      BY <1>0, <2>0, <2>2, <3>1 DEF EffectiveProblem
  <2>4. /\ history'[n + 1].subproblems = history'[n + 1].choices
        /\ history'[n + 1].choices \in Answers(history'[n + 1].offers)
        /\ files'[n + 1 + 1] = EffectiveProblem(history, n + 1 + 1)'
    <3>1. n + 1 + 1 # 1 /\ n + 1 + 1 - 1 = n + 1 /\ cycle = n + 1
      BY <1>0, <2>0 DEF Index
    <3>2. /\ history'[n + 1].subproblems = reply
          /\ history'[n + 1].choices = round.choices
          /\ history'[n + 1].offers = round.offers
      BY <2>2 DEF Closing
    <3>3. EffectiveProblem(history, n + 1 + 1)' = ProblemText(reply)
      BY <3>1, <3>2 DEF EffectiveProblem
    <3>4. files'[n + 1 + 1] = ProblemText(reply)
      BY <2>1, <2>2, <3>1
    <3>5. QED
      BY <2>1, <3>2, <3>3, <3>4
  <2>5. \A c \in Cycles : c > Index' => files'[c] = Nothing
    BY <1>0, <2>0, <2>1, <2>2 DEF Index, Cycles
  <2>6. ASSUME NEW k \in DOMAIN history'
        PROVE  /\ history'[k].subproblems = history'[k].choices
               /\ history'[k].choices \in Answers(history'[k].offers)
               /\ files'[k + 1] = EffectiveProblem(history, k + 1)'
    <3>1. k \in 1..n \/ k = n + 1
      BY <1>0, <2>0, <2>2
    <3>2. QED
      BY <2>3, <2>4, <3>1
  <2>7. QED
    BY <2>5, <2>6
<1>5. QED
  BY <1>1, <1>2, <1>3, <1>4 DEF Effect

LEMMA FiledInvHolds == Spec => [](RoundInv /\ FiledInv)
<1>1. Init => FiledInv
  <2> SUFFICES ASSUME Init PROVE FiledInv
    OBVIOUS
  <2>1. DOMAIN history = {} /\ \A c \in Cycles : files[c] = Nothing
    BY DEF Init
  <2>2. QED
    BY <2>1 DEF Init, FiledInv, FiledReply, AssignmentFollowsHuman
<1>2. RoundInv /\ FiledInv /\ [Next]_vars => FiledInv'
  BY FiledReplyKept, AssignmentKept, StepEffect DEF FiledInv
<1>3. QED
  BY <1>1, <1>2, RoundInvInit, RoundInvKept, PTL DEF Spec

(* Every cycle works on what its operator chose, and the problem file says  *)
(* so before, during and after the transaction that closes the round.       *)
THEOREM AssignmentsFollow == Spec => []AssignmentFollowsHuman
<1>1. RoundInv /\ FiledInv => AssignmentFollowsHuman
  BY DEF FiledInv
<1>2. QED
  BY <1>1, FiledInvHolds, PTL

(* --- Receipts ----------------------------------------------------------- *)
(* A command whose acceptance is known, from a receipt or a verdict.       *)
Honoured(q) == commands[q] # Nothing /\ ChoicesOf(q) = commands[q]

DeskInv ==
    /\ DOMAIN commands = Requests /\ DOMAIN receipts = Requests
    /\ \A q \in Requests : receipts[q] = "accepted" => Honoured(q)
    /\ verdict.status = "accepted" =>
          verdict.request \in Requests /\ Honoured(verdict.request)

(* Choices that were bound stay, also when their round is closed.          *)
LEMMA ChoicesStay ==
    ASSUME RoundInv, FiledReply, Effect, NEW q \in Requests,
           ChoicesOf(q) # Nothing
    PROVE  ChoicesOf(q)' = ChoicesOf(q)
<1>1. CASE Quiet \/ Turns \/ Files
  <2>1. UNCHANGED <<round, history>>
    BY <1>1 DEF Quiet, Turns, Files
  <2>2. Closed(q)' = Closed(q)
    BY <2>1 DEF Closed
  <2>3. QED
    BY <2>1, <2>2 DEF ChoicesOf
<1>2. CASE Opens \/ Reports \/ Binds \/ Finalizes
  <2>1. UNCHANGED history /\ Closed(q)' = Closed(q)
    BY <1>2 DEF Opens, Reports, Binds, Finalizes, Closed
  <2>2. CASE round.request = q
    <3>1. Finalizes
      BY <1>2, <2>2 DEF Opens, Reports, Binds, ChoicesOf, RoundInv, Asked,
                        Proposing, Requests
    <3>2. QED
      BY <2>2, <3>1 DEF Finalizes, ChoicesOf, RoundInv, Shape, RoundFields
  <2>3. CASE round.request # q
    <3>1. Closed(q) # {}
      BY <2>3 DEF ChoicesOf
    <3>2. q \in UsedRequests
      BY <3>1 DEF Closed, UsedRequests
    <3>3. round'.request # q
      <4>1. CASE Opens
        BY <4>1 DEF Opens, NoRound, Requests
      <4>2. CASE Reports
        BY <3>2, <4>2 DEF Reports, RoundInv, Shape, RoundFields
      <4>3. CASE Binds
        BY <2>3, <4>3 DEF Binds, RoundInv, Shape, RoundFields
      <4>4. CASE Finalizes
        BY <2>3, <4>4 DEF Finalizes, RoundInv, Shape, RoundFields
      <4>5. QED
        BY <1>2, <4>1, <4>2, <4>3, <4>4
    <3>4. QED
      BY <2>1, <2>3, <3>1, <3>3 DEF ChoicesOf
  <2>4. QED
    BY <2>2, <2>3
<1>3. CASE Closes
  <2>0. PICK n \in Nat : n = Len(history) /\ DOMAIN history = 1..n
    BY RoomForFile
  <2>1. /\ DOMAIN history' = 1..n + 1 /\ history'[n + 1] = Closing
        /\ \A k \in 1..n : history'[k] = history[k]
        /\ round'.request # q
    BY <1>3, <2>0, AppendFacts DEF Closes, RoundInv, Shape, NoRound, Requests
  <2>2. CASE round.request = q
    <3>1. round.request \notin UsedRequests
      BY <1>3 DEF Closes, FiledReply, Finalizing, RoundInv, Asked
    <3>2. Closed(q)' = {n + 1}
      BY <2>0, <2>1, <2>2, <3>1 DEF Closed, UsedRequests, Closing
    <3>3. history'[n + 1].choices = round.choices
      BY <2>1 DEF Closing
    <3>4. (CHOOSE k \in {n + 1} : TRUE) = n + 1
      OBVIOUS
    <3>5. QED
      BY <2>1, <2>2, <3>2, <3>3, <3>4 DEF ChoicesOf
  <2>3. CASE round.request # q
    <3>1. Closed(q)' = Closed(q)
      BY <2>0, <2>1, <2>3 DEF Closed, Closing
    <3>2. Closed(q) # {} /\ Closed(q) \subseteq 1..n
      BY <2>0, <2>3 DEF ChoicesOf, Closed
    <3>3. PICK k \in Closed(q) : k = CHOOSE i \in Closed(q) : TRUE
      BY <3>2
    <3>4. QED
      BY <2>1, <2>3, <3>1, <3>2, <3>3 DEF ChoicesOf
  <2>4. QED
    BY <2>2, <2>3
<1>4. QED
  BY <1>1, <1>2, <1>3 DEF Effect

(* A published command is never changed.                                   *)
LEMMA CommandsStay ==
    ASSUME [Next]_vars, DeskInv
    PROVE  /\ DOMAIN commands' = Requests
           /\ \A q \in Requests : commands[q] # Nothing => commands'[q] = commands[q]
<1>1. ASSUME NEW q \in Requests, NEW answer, Publish(q, answer)
      PROVE  /\ DOMAIN commands' = Requests
             /\ \A p \in Requests : commands[p] # Nothing => commands'[p] = commands[p]
  BY <1>1 DEF Publish, DeskInv
<1>2. CASE UNCHANGED commands
  BY <1>2 DEF DeskInv
<1>3. UNCHANGED commands \/ \E q \in Requests, answer \in UNION {Answers(OffersOf(p)) : p \in Requests} : Publish(q, answer)
  BY DEF Next, vars, deskVars, Advance, Desk, Materialize, LaunchAdvisor, Stage,
         Accept, AcceptInvalid, RejectReply, FailLaunch, CommitProposal,
         PrepareFinalize, WriteProblemFile, CommitAssignment, SubmitByHand,
         Consume, PublishReceipt, Learn, EndTurn, Reopen, OpenRound, Rest, Stop,
         Resume, Authorize
<1>4. QED
  BY <1>1, <1>2, <1>3

LEMMA HonouredStays ==
    ASSUME RoundInv, FiledReply, DeskInv, [Next]_vars, NEW q \in Requests,
           Honoured(q)
    PROVE  Honoured(q)'
  BY ChoicesStay, CommandsStay, StepEffect DEF Honoured

LEMMA DeskInvKept ==
    RoundInv /\ FiledReply /\ DeskInv /\ [Next]_vars => DeskInv'
<1> SUFFICES ASSUME RoundInv, FiledReply, DeskInv, [Next]_vars PROVE DeskInv'
  OBVIOUS
<1>1. DOMAIN commands' = Requests
  BY CommandsStay
<1>2. \A q \in Requests : Honoured(q) => Honoured(q)'
  BY HonouredStays
<1>3. CASE UNCHANGED <<receipts, verdict>>
  BY <1>1, <1>2, <1>3 DEF DeskInv
<1>4. CASE Stop
  BY <1>1, <1>2, <1>4 DEF Stop, DeskInv, NoVerdict
<1>5. CASE PublishReceipt
  BY <1>1, <1>2, <1>5 DEF PublishReceipt, DeskInv, NoVerdict
<1>6. ASSUME NEW q \in Requests, Consume(q) PROVE DeskInv'
  <2>1. UNCHANGED <<history, commands, receipts>> /\ commands[q] # Nothing
    BY <1>6 DEF Consume, Pending
  <2>2. CASE verdict' = [request |-> q, status |-> "rejected"]
    BY <1>1, <1>2, <2>1, <2>2 DEF DeskInv
  <2>3. CASE CanBind(q, commands[q]) /\ Bind(commands[q])
             /\ verdict' = [request |-> q, status |-> Outcome(q)]
    <3>1. Honoured(q)'
      BY <2>1, <2>3 DEF CanBind, Bind, Honoured, ChoicesOf, RoundInv, Shape,
                        RoundFields
    <3>2. QED
      BY <1>1, <1>2, <2>1, <2>3, <3>1 DEF DeskInv
  <2>4. CASE ~CanBind(q, commands[q]) /\ UNCHANGED round
             /\ verdict' = [request |-> q, status |-> Outcome(q)]
    <3>1. Outcome(q) = "accepted" => Honoured(q)
      BY <2>1, <2>4 DEF Outcome, Honoured
    <3>2. QED
      BY <1>1, <1>2, <2>1, <2>4, <3>1 DEF DeskInv
  <2>5. QED
    BY <1>6, <2>2, <2>3, <2>4 DEF Consume
<1>7. UNCHANGED <<receipts, verdict>> \/ Stop \/ PublishReceipt
      \/ \E q \in Requests : Consume(q)
  BY DEF Next, vars, deskVars, Advance, Desk, Materialize, LaunchAdvisor, Stage,
         Accept, AcceptInvalid, RejectReply, FailLaunch, CommitProposal,
         PrepareFinalize, WriteProblemFile, CommitAssignment, SubmitByHand,
         Publish, Learn, EndTurn, Reopen, OpenRound, Rest, Resume, Authorize
<1>8. QED
  BY <1>3, <1>4, <1>5, <1>6, <1>7

(* A receipt that says accepted is the feedback of its round, for ever.     *)
THEOREM ReceiptsMatch == Spec => []ReceiptMatchesBinding
<1>1. Init => DeskInv
  BY DEF Init, DeskInv, NoVerdict
<1>2. (RoundInv /\ FiledInv) /\ DeskInv /\ [Next]_vars => DeskInv'
  BY DeskInvKept DEF FiledInv
<1>3. DeskInv => ReceiptMatchesBinding
  BY DEF DeskInv, ReceiptMatchesBinding, Honoured
<1>4. QED
  BY <1>1, <1>2, <1>3, FiledInvHolds, PTL DEF Spec

(* --- The report of a launch --------------------------------------------- *)
CallFields == {"kind", "owner", "status", "epoch", "fenced", "attempt",
               "retries", "limit", "result"}

LaunchInv ==
    /\ DOMAIN ws = {"exists", "generation", "report"}
    /\ DOMAIN call = CallFields
    /\ ws.report.launch \in {NoLaunch, ws.generation[2]}
    /\ pc = "running" =>
          /\ host = "up" /\ call.status = "running"
          /\ Proposing \/ Finalizing
          /\ Proposing => ws.generation[2] = call.attempt
    /\ pc = "filed" => host = "up"
    /\ pc = "rejecting" => host = "up" /\ (Proposing \/ Finalizing)
    /\ call.status = "completed" => call.result = call.attempt
    /\ round.status = "waiting" =>
          call.status = "committed" /\ round.launch = call.result

LEMMA LaunchInvInit == Init => LaunchInv
  BY DEF Init, LaunchInv, NoWorkspace, NoReport, Absent, CallFields, NoRound,
         NoLaunch

LEMMA LaunchInvKept == RoundInv /\ FiledReply /\ LaunchInv /\ [Next]_vars => LaunchInv'
<1> SUFFICES ASSUME RoundInv, FiledReply, LaunchInv, [Next]_vars PROVE LaunchInv'
  OBVIOUS
<1> USE DEF LaunchInv
<1>1. CASE Materialize
  BY <1>1 DEF Materialize, Executable, Free, roundVars, NoReport, Proposing,
              Finalizing, NextGeneration
<1>2. CASE LaunchAdvisor
  BY <1>2 DEF LaunchAdvisor, Executable, Free, roundVars, CanLaunch, Launch,
              CallFields, Reusable, NextGeneration, Proposing, Finalizing
<1>3. CASE Stage
  BY <1>3 DEF Stage, roundVars, Proposing, Finalizing
<1>4. CASE Accept
  BY <1>4 DEF Accept, roundVars, ReceiveResult, CallFields, Proposing, Finalizing
<1>5. CASE AcceptInvalid
  BY <1>5 DEF AcceptInvalid, roundVars, ReceiveResult, CallFields, Proposing,
              Finalizing
<1>6. CASE RejectReply
  BY <1>6 DEF RejectReply, AfterFailure, RetireWorkspace, NoWorkspace, NoReport,
              RejectInvalidResult, AfterRetry, roundVars, CallFields, Proposing,
              Finalizing
<1>7. CASE FailLaunch
  BY <1>7 DEF FailLaunch, AfterFailure, RetireWorkspace, NoWorkspace, NoReport,
              RecordTransportFailure, AfterRetry, roundVars, CallFields,
              Proposing, Finalizing
<1>8. CASE CommitProposal
  BY <1>8 DEF CommitProposal, Free, OwnReport, CommitResult, CallFields,
              Proposing, Finalizing, RoundInv, Shape, RoundFields
<1>9. CASE PrepareFinalize
  BY <1>9 DEF PrepareFinalize, Free, PrepareCall, CallFields, Proposing,
              Finalizing, RoundInv, Shape, RoundFields
<1>10. CASE WriteProblemFile
  BY <1>10 DEF WriteProblemFile, Free, callVars, Proposing, Finalizing
<1>11. CASE CommitAssignment
  <2>1. Finalizing
    BY <1>11 DEF CommitAssignment, FiledReply
  <2>2. QED
    BY <1>11, <2>1 DEF CommitAssignment, CommitResult, CallFields, NoRound,
                       Proposing, Finalizing
<1>12. CASE OpenRound
  BY <1>12 DEF OpenRound, Free, PrepareCall, CallFields, NoWorkspace, NoReport,
               NoRound, Proposing, Finalizing
<1>13. CASE Resume
  BY <1>13 DEF Resume, roundVars, ReconcileAfterStop, LostByStop, CallFields,
               Proposing, Finalizing
<1>14. CASE Authorize
  BY <1>14 DEF Authorize, roundVars, CanAuthorize, AuthorizeRetry, CallFields,
               Proposing, Finalizing
<1>15. CASE Desk
  <2>1. /\ UNCHANGED <<call, ws, pc, host>>
        /\ round' = round \/ Binds
    BY <1>15 DEF Desk, Publish, PublishReceipt, SubmitByHand, Consume, CanBind,
                 Bind, Binds, callVars, roundVars
  <2>2. CASE Binds
    BY <2>1, <2>2 DEF Binds, Proposing, Finalizing, RoundInv, Shape, RoundFields
  <2>3. CASE round' = round
    BY <2>1, <2>3 DEF Proposing, Finalizing
  <2>4. QED
    BY <2>1, <2>2, <2>3
<1>16. CASE (\E m \in Memories : Learn(m)) \/ EndTurn \/ Reopen \/ Rest \/ Stop
  BY <1>16 DEF Learn, EndTurn, Reopen, Rest, Stop, Free, callVars, roundVars,
               Proposing, Finalizing
<1>17. CASE UNCHANGED vars
  BY <1>17 DEF vars, Proposing, Finalizing
<1>18. QED
  BY <1>1, <1>2, <1>3, <1>4, <1>5, <1>6, <1>7, <1>8, <1>9, <1>10, <1>11, <1>12,
     <1>13, <1>14, <1>15, <1>16, <1>17 DEF Next, Advance

(* An operator sees the report of the launch whose reply was accepted.      *)
THEOREM ReportsAreOwn == Spec => []ReportOfOneLaunch
<1>1. (RoundInv /\ FiledInv) /\ LaunchInv /\ [Next]_vars => LaunchInv'
  BY LaunchInvKept DEF FiledInv
<1>2. LaunchInv => ReportOfOneLaunch
  BY DEF LaunchInv, ReportOfOneLaunch
<1>3. QED
  BY <1>1, <1>2, LaunchInvInit, FiledInvHolds, PTL DEF Spec

(* --- The freshness of evidence ------------------------------------------ *)
(* A bounded set of numbers has a largest element, which Max returns.      *)
LEMMA MaxIsMember ==
    ASSUME NEW n \in Nat, NEW S \in SUBSET (0..n), S # {}
    PROVE  Max(S) \in S
<1> DEFINE T == {n - x : x \in S}
           Less == {ss \in Nat \X Nat : ss[1] < ss[2]}
<1>0. ASSUME NEW x \in S
      PROVE  x \in Nat /\ x <= n /\ n - x \in Nat
  <2>1. x \in 0..n
    OBVIOUS
  <2>2. QED
    BY <2>1
<1>1. IsWellFoundedOn(Less, Nat)
  BY NatLessThanWellFounded DEF OpToRel
<1>2. T \subseteq Nat /\ T # {}
  <2>1. PICK x \in S : TRUE
    OBVIOUS
  <2>2. n - x \in T
    BY <2>1
  <2>3. QED
    BY <1>0, <2>2
<1>3. PICK t \in T : \A y \in T : ~(<<y, t>> \in Less)
  <2> HIDE DEF T, Less
  <2>1. QED
    BY <1>1, <1>2, WFMin
<1>4. PICK x \in S : t = n - x
  OBVIOUS
<1>5. \A y \in S : x >= y
  <2> SUFFICES ASSUME NEW y \in S PROVE x >= y
    OBVIOUS
  <2>1. n - y \in T /\ n - y \in Nat /\ n - x \in Nat
    BY <1>0, <1>4
  <2>2. ~(n - y < n - x)
    BY <1>3, <1>4, <2>1
  <2>3. x \in Nat /\ y \in Nat /\ x <= n /\ y <= n
    BY <1>0
  <2>4. QED
    BY <2>2, <2>3
<1>6. QED
  BY <1>4, <1>5 DEF Max

(* What Freshness names is an advisor that saw less of the record.         *)
LEMMA FreshnessNames ==
    ASSUME NEW h, IsSequence(h), NEW snapshot, NEW m \in Memories,
           Freshness(h, snapshot)[m] # 0
    PROVE  /\ Freshness(h, snapshot)[m] \in DOMAIN h
           /\ h[Freshness(h, snapshot)[m]].snapshot[m] < snapshot[m]
<1> DEFINE S == {0} \cup Older(h, snapshot, m)
<1>1. Len(h) \in Nat /\ DOMAIN h = 1..Len(h)
  BY AppendFacts
<1>2. S \in SUBSET (0..Len(h)) /\ S # {}
  BY <1>1 DEF Older
<1>3. Max(S) \in S
  <2> HIDE DEF S
  <2>1. QED
    BY <1>1, <1>2, MaxIsMember
<1>4. Freshness(h, snapshot)[m] = Max(S)
  BY DEF Freshness
<1>5. QED
  BY <1>3, <1>4 DEF Older

NatSnapshots == [Memories -> Nat]

SoundRepeat(o) ==
    /\ o.repeats \subseteq DOMAIN history
    /\ \A k \in o.repeats, m \in o.evidence :
          history[k].snapshot[m] < round.snapshot[m]

FreshInv ==
    /\ mem \in NatSnapshots
    /\ \A k \in DOMAIN history :
          /\ history[k].snapshot \in NatSnapshots
          /\ \A m \in Memories : history[k].snapshot[m] <= mem[m]
    /\ \A j, k \in DOMAIN history : \A m \in Memories :
          j <= k => history[j].snapshot[m] <= history[k].snapshot[m]
    /\ round.status # "idle" =>
          /\ round.snapshot \in NatSnapshots
          /\ \A m \in Memories : round.snapshot[m] <= mem[m]
          /\ \A k \in DOMAIN history, m \in Memories :
                history[k].snapshot[m] <= round.snapshot[m]
          /\ round.newer = Freshness(history, round.snapshot)
    /\ Proposing => \A o \in ws.report.offers : SoundRepeat(o)
    /\ \A o \in round.offers : SoundRepeat(o)

(* What the compressed proof lets pass is fresh for every assignment that   *)
(* is repeated: catalogs never show less of a record than they did.         *)
LEMMA FreshReportsAreSound ==
    ASSUME RoundInv, FreshInv, Proposing,
           NEW offers \in SUBSET Obligations(history),
           ValidReport(history, round.newer, offers)
    PROVE  \A o \in offers : SoundRepeat(o)
<1> SUFFICES ASSUME NEW o \in offers PROVE SoundRepeat(o)
  OBVIOUS
<1>1. o.repeats \subseteq DOMAIN history /\ o.evidence \subseteq Memories
  BY DEF Obligations
<1>2. IsSequence(history) /\ DOMAIN history = 1..Len(history) /\ Len(history) \in Nat
  BY AppendFacts DEF RoundInv, Shape
<1>3. ASSUME NEW k \in o.repeats, NEW m \in o.evidence
      PROVE  history[k].snapshot[m] < round.snapshot[m]
  <2> DEFINE j == round.newer[m]
  <2>1. j # 0 /\ k <= j
    BY DEF ValidReport, FreshEvidence
  <2>2. j = Freshness(history, round.snapshot)[m] /\ m \in Memories
        /\ k \in DOMAIN history
    BY <1>1 DEF FreshInv, Proposing
  <2>3. j \in DOMAIN history /\ history[j].snapshot[m] < round.snapshot[m]
    BY <1>2, <2>1, <2>2, FreshnessNames
  <2>4. history[k].snapshot[m] <= history[j].snapshot[m]
    BY <2>1, <2>2, <2>3 DEF FreshInv
  <2>5. /\ history[k].snapshot[m] \in Nat /\ history[j].snapshot[m] \in Nat
        /\ round.snapshot[m] \in Nat
    BY <2>2, <2>3 DEF FreshInv, NatSnapshots, Proposing
  <2>6. QED
    BY <2>3, <2>4, <2>5
<1>4. QED
  BY <1>1, <1>3 DEF SoundRepeat

(* Only research changes what is remembered, and it only adds.             *)
LEMMA MemoryGrows ==
    ASSUME FreshInv, [Next]_vars
    PROVE  /\ mem' \in NatSnapshots
           /\ \A m \in Memories : mem[m] <= mem'[m]
           /\ mem' = mem \/ Quiet
<1>1. CASE \E m \in Memories : Learn(m)
  BY <1>1 DEF Learn, FreshInv, NatSnapshots, Quiet
<1>2. CASE UNCHANGED mem
  BY <1>2 DEF FreshInv, NatSnapshots
<1>3. QED
  BY <1>1, <1>2
  DEF Next, vars, deskVars, roundVars, Advance, Desk, Materialize,
      LaunchAdvisor, Stage, Accept, AcceptInvalid, RejectReply, FailLaunch,
      CommitProposal, PrepareFinalize, WriteProblemFile, CommitAssignment,
      SubmitByHand, Publish, Consume, PublishReceipt, EndTurn, Reopen, OpenRound,
      Rest, Stop, Resume, Authorize

(* A staged report stays, is discarded, or is staged and valid.            *)
LEMMA ReportStep ==
    ASSUME [Next]_vars
    PROVE  \/ ws'.report = ws.report
           \/ ws'.report.offers = {}
           \/ /\ Proposing /\ Quiet
              /\ ws'.report.offers \in SUBSET Obligations(history)
              /\ ValidReport(history, round.newer, ws'.report.offers)
<1>1. CASE Stage
  <2>1. PICK offers \in kSubset(ObligationCount, Obligations(history)),
             q \in 1..Index :
          /\ ValidReport(history, round.newer, offers)
          /\ ws' = [ws EXCEPT !.report = [launch |-> call.attempt, request |-> q,
                                          offers |-> offers]]
    BY <1>1 DEF Stage
  <2>2. offers \in SUBSET Obligations(history)
    BY DEF kSubset
  <2>3. ws'.report = ws.report \/ ws'.report.offers = offers
    BY <2>1
  <2>4. Proposing /\ Quiet
    BY <1>1 DEF Stage, roundVars, Quiet
  <2>5. QED
    BY <2>1, <2>2, <2>3, <2>4
<1>2. CASE Materialize \/ RejectReply \/ FailLaunch \/ OpenRound
  BY <1>2 DEF Materialize, RejectReply, FailLaunch, OpenRound, RetireWorkspace,
              NoWorkspace, NoReport
<1>3. CASE UNCHANGED ws
  BY <1>3
<1>4. QED
  BY <1>1, <1>2, <1>3
  DEF Next, vars, callVars, Advance, Desk, LaunchAdvisor, Accept, AcceptInvalid,
      CommitProposal, PrepareFinalize, WriteProblemFile, CommitAssignment,
      SubmitByHand, Publish, Consume, PublishReceipt, EndTurn, Reopen, Learn,
      Rest, Stop, Resume, Authorize

LEMMA FreshInvInit == Init => FreshInv
<1> SUFFICES ASSUME Init PROVE FreshInv
  OBVIOUS
<1>1. DOMAIN history = {} /\ mem \in NatSnapshots
  BY DEF Init, NatSnapshots
<1>2. QED
  BY <1>1 DEF Init, FreshInv, NoRound, Proposing

LEMMA FreshInvKept == RoundInv /\ FiledReply /\ FreshInv /\ [Next]_vars => FreshInv'
<1> SUFFICES ASSUME RoundInv, FiledReply, FreshInv, [Next]_vars PROVE FreshInv'
  OBVIOUS
<1>0. /\ Effect /\ DOMAIN history = 1..Len(history) /\ Len(history) \in Nat
      /\ mem' \in NatSnapshots /\ \A m \in Memories : mem[m] <= mem'[m]
      /\ mem' = mem \/ Quiet
  BY StepEffect, MemoryGrows, RoomForFile
<1>1. CASE Quiet
  <2>1. UNCHANGED <<round, history>> /\ Proposing' = Proposing
    BY <1>1 DEF Quiet, Proposing
  <2>2. \A o : SoundRepeat(o)' = SoundRepeat(o)
    BY <2>1 DEF SoundRepeat
  <2>3. Proposing => \A o \in ws'.report.offers : SoundRepeat(o)
    BY ReportStep, FreshReportsAreSound DEF FreshInv
  <2>4. \A k \in DOMAIN history, m \in Memories : history[k].snapshot[m] <= mem'[m]
    BY <1>0 DEF FreshInv, NatSnapshots
  <2>5. round.status # "idle" =>
            \A m \in Memories : round.snapshot[m] <= mem'[m]
    BY <1>0 DEF FreshInv, NatSnapshots
  <2>6. QED
    BY <1>0, <2>1, <2>2, <2>3, <2>4, <2>5 DEF FreshInv
<1>2. CASE (Turns \/ Files \/ Finalizes \/ Binds) /\ ~Quiet
  <2>1. /\ UNCHANGED history /\ mem' = mem
        /\ (ws'.report = ws.report \/ ws'.report.offers = {})
    BY <1>0, <1>2, ReportStep DEF Turns, Files, Finalizes, Binds
  <2>2. /\ round'.snapshot = round.snapshot /\ round'.newer = round.newer
        /\ round'.offers = round.offers
        /\ (round'.status # "idle" => round.status # "idle")
        /\ (Proposing' => Proposing)
    BY <1>2 DEF Turns, Files, Finalizes, Binds, Proposing, RoundInv, Shape,
                RoundFields
  <2>3. \A o : SoundRepeat(o)' = SoundRepeat(o)
    BY <2>1, <2>2 DEF SoundRepeat
  <2>4. QED
    BY <2>1, <2>2, <2>3 DEF FreshInv
<1>3. CASE Opens /\ ~Quiet
  <2>1. /\ UNCHANGED history /\ mem' = mem
        /\ round'.snapshot = mem /\ round'.newer = Freshness(history, mem)
        /\ round'.offers = {} /\ ws'.report.offers = {}
    BY <1>0, <1>3 DEF Opens, NoRound, NoWorkspace, NoReport
  <2>2. \A m \in Memories : mem[m] <= mem[m]
    BY DEF FreshInv, NatSnapshots
  <2>3. QED
    BY <2>1, <2>2 DEF FreshInv
<1>4. CASE Reports /\ ~Quiet
  <2>1. /\ UNCHANGED history /\ mem' = mem
        /\ round'.snapshot = round.snapshot /\ round'.newer = round.newer
        /\ round'.offers = ws.report.offers
        /\ Proposing /\ ~Proposing' /\ round.status # "idle"
    BY <1>0, <1>4 DEF Reports, Proposing, RoundInv, Shape, RoundFields
  <2>2. \A o : SoundRepeat(o)' = SoundRepeat(o)
    BY <2>1 DEF SoundRepeat
  <2>3. QED
    BY <2>1, <2>2 DEF FreshInv
<1>5. CASE Closes /\ ~Quiet
  <2>0. PICK n \in Nat : n = Len(history) /\ DOMAIN history = 1..n
    BY <1>0
  <2>1. /\ DOMAIN history' = 1..n + 1 /\ history'[n + 1].snapshot = round.snapshot
        /\ \A k \in 1..n : history'[k] = history[k]
        /\ round' = NoRound /\ mem' = mem /\ round.status # "idle"
    BY <1>0, <1>5, <2>0, AppendFacts
    DEF Closes, Closing, RoundInv, Shape, FiledReply, Finalizing
  <2>2. round'.status = "idle" /\ round'.offers = {} /\ ~Proposing'
    BY <2>1 DEF NoRound, Proposing
  <2>3. \A k \in 1..n + 1 : k \in 1..n \/ k = n + 1
    OBVIOUS
  <2>4. \A k \in DOMAIN history' :
          /\ history'[k].snapshot \in NatSnapshots
          /\ \A m \in Memories : history'[k].snapshot[m] <= mem[m]
    BY <2>0, <2>1, <2>3 DEF FreshInv
  <2>5. \A j, k \in DOMAIN history' : \A m \in Memories :
          j <= k => history'[j].snapshot[m] <= history'[k].snapshot[m]
    <3> SUFFICES ASSUME NEW j \in 1..n + 1, NEW k \in 1..n + 1,
                        NEW m \in Memories, j <= k
                 PROVE  history'[j].snapshot[m] <= history'[k].snapshot[m]
      BY <2>1
    <3>1. CASE k \in 1..n
      <4>1. j \in 1..n
        BY <2>0, <3>1
      <4>2. history[j].snapshot[m] <= history[k].snapshot[m]
        BY <2>0, <3>1, <4>1 DEF FreshInv
      <4>3. QED
        BY <2>1, <3>1, <4>1, <4>2
    <3>2. CASE k = n + 1 /\ j \in 1..n
      <4>1. history[j].snapshot[m] <= round.snapshot[m]
        BY <2>0, <2>1, <3>2 DEF FreshInv
      <4>2. QED
        BY <2>1, <3>2, <4>1
    <3>3. CASE k = n + 1 /\ j = n + 1
      BY <2>1, <3>3 DEF FreshInv, NatSnapshots
    <3>4. QED
      BY <2>3, <3>1, <3>2, <3>3
  <2>6. QED
    BY <1>0, <2>1, <2>2, <2>4, <2>5 DEF FreshInv
<1>6. QED
  BY <1>0, <1>1, <1>2, <1>3, <1>4, <1>5 DEF Effect

(* A repeated obligation rests on records that are newer than every         *)
(* assignment it repeats, for any number of rounds.                         *)
THEOREM RepeatsAreFresh == Spec => []RepeatsHaveNewEvidence
<1>1. (RoundInv /\ FiledInv) /\ FreshInv /\ [Next]_vars => FreshInv'
  BY FreshInvKept DEF FiledInv
<1>2. FreshInv => RepeatsHaveNewEvidence
  BY DEF FreshInv, SoundRepeat, RepeatsHaveNewEvidence
<1>3. QED
  BY <1>1, <1>2, FreshInvInit, FiledInvHolds, PTL DEF Spec
=============================================================================
