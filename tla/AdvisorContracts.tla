-------------------------- MODULE AdvisorContracts --------------------------
(***************************************************************************)
(* What an Advisor round binds and what it is checked against              *)
(* (src/advisor_system/contracts.py and state.py, pure functions).         *)
(*                                                                         *)
(* Texts are model values.  A memory snapshot is a function from records   *)
(* to revisions, 0 for a record the catalog does not have.  An obligation  *)
(* is known by its statement, so a report is a set of obligations; the     *)
(* prose of a report, the instructions of the operator and the digests are *)
(* left out, because each value here is compared as a whole.  The history  *)
(* is the sequence of the completed rounds, and round k is Advisor k of    *)
(* research cycle k, whose assignment is for cycle k + 1.                  *)
(***************************************************************************)
EXTENDS Naturals, Sequences, FiniteSets, FiniteSetsExt, Functions

CONSTANTS Memories,         \* records an Advisor may cite
          MaxRevision,      \* bound: revisions of a record
          Texts,            \* statements an Advisor may offer
          CustomTexts,      \* statements an operator may write
          RootText,         \* the original problem
          ObligationCount   \* OBLIGATION_COUNT, 5 in the code

MaxChoices == 2             \* MAX_SELECTED_SUBPROBLEMS

Snapshots == [Memories -> 0..MaxRevision]

(* --- Assignments already made ------------------------------------------ *)
Statements(round) == {c.statement : c \in Range(round.subproblems)}

(* The last round whose assignment has the statement, or 0. *)
LastUse(history, statement) ==
    Max({0} \cup {k \in DOMAIN history : statement \in Statements(history[k])})

(* --- Freshness of evidence --------------------------------------------- *)
(* A catalog never shows a lower revision than an earlier one did. *)
Regressed(history, snapshot) ==
    \E k \in DOMAIN history, m \in Memories :
        snapshot[m] # 0 /\ history[k].snapshot[m] > snapshot[m]

(* Mutant of Older: a record that did not change counts as newer. *)
OlderOrEqual(history, snapshot, m) ==
    {k \in DOMAIN history : history[k].snapshot[m] <= snapshot[m]}

Older(history, snapshot, m) ==
    {k \in DOMAIN history : history[k].snapshot[m] < snapshot[m]}

(* The last round that saw less of a record than the snapshot has. *)
Freshness(history, snapshot) ==
    [m \in Memories |-> Max({0} \cup Older(history, snapshot, m))]

(* --- The selection report ---------------------------------------------- *)
Obligations(history) ==
    [statement : Texts \cup {RootText}, repeats : SUBSET DOMAIN history,
     evidence : SUBSET Memories]

DeclaresRepeat(history, o) ==
    LET last == LastUse(history, o.statement)
    IN last # 0 => last \in o.repeats

FreshEvidence(newer, o) ==
    \A m \in o.evidence : newer[m] # 0 /\ \A k \in o.repeats : k <= newer[m]

ValidObligation(history, o) ==
    /\ o.statement # RootText
    /\ o.repeats # {} => o.evidence # {}
    /\ DeclaresRepeat(history, o)

ValidReport(history, newer, offers) ==
    /\ Cardinality(offers) = ObligationCount
    /\ Cardinality({o.statement : o \in offers}) = ObligationCount
    /\ \A o \in offers : ValidObligation(history, o) /\ FreshEvidence(newer, o)

(* --- Feedback and finalization ----------------------------------------- *)
Offered(offers) == {o.statement : o \in offers}

ChoicesFor(offers) == [kind : {"listed"}, statement : Offered(offers)]
                      \cup [kind : {"custom"}, statement : CustomTexts]

(* What an operator can answer: one or two distinct choices. *)
Answers(offers) ==
    {a \in UNION {[1..n -> ChoicesFor(offers)] : n \in 1..MaxChoices} :
        \A i, j \in DOMAIN a : i # j => a[i] # a[j]}

(* Mutant of Follows: the order of the choices is not looked at. *)
FollowsInAnyOrder(claim, choices) ==
    Range(claim) = Range(choices) /\ Len(claim) = Len(choices)

Follows(claim, choices) == claim = choices

(* --- The problem of a cycle -------------------------------------------- *)
ProblemText(subproblems) ==
    [i \in DOMAIN subproblems |-> subproblems[i].statement]

OriginalProblem == <<RootText>>

(* effective_problem_descriptor: exactly one assignment targets the cycle. *)
HasProblem(history, cycle) == cycle = 1 \/ cycle - 1 \in DOMAIN history

EffectiveProblem(history, cycle) ==
    IF cycle = 1 THEN OriginalProblem
    ELSE ProblemText(history[cycle - 1].subproblems)
=============================================================================
