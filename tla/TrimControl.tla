---------------------------- MODULE TrimControl ----------------------------
(***************************************************************************)
(* The reducers of the trim control record                                 *)
(* (src/franta/trim_category/control.py).                                  *)
(*                                                                         *)
(* A trim record carries the fields the transitions read or write:         *)
(*   review    none, asked (an active_review without a session) or bound;  *)
(*   phase     none, or the phase of the active_trim;                      *)
(*   session   the number of the Trimmer session, 0 before the first one,  *)
(*   rounds    and the rounds it has had;                                  *)
(*   revision  the portfolio_revision.                                     *)
(* A trim keeps the session of its review: no other round can start before *)
(* it ends, so the record need not hold the session twice.                 *)
(*                                                                         *)
(* Each transition is a pair: a guard saying when the reducer does not     *)
(* raise, and the record it returns.  The gate is written by the caller.   *)
(***************************************************************************)
EXTENDS Naturals

NewTrim == [review |-> "none", phase |-> "none", session |-> 0,
            rounds |-> 0, revision |-> 0]

(* --- receive_stuck_report ---------------------------------------------- *)
CanReceiveStuck(gate) == gate = "open"

ReceiveStuck(t) == [t EXCEPT !.review = "asked"]

(* --- start_review_round: a bound review keeps its session -------------- *)
NeedsNewSession(t, limit) == t.session = 0 \/ t.rounds >= limit

CanStartRound(t, gate) == gate = "reviewing_trim" /\ t.review # "none"

StartRound(t, limit) ==
    IF t.review = "bound" THEN t
    ELSE [t EXCEPT !.review = "bound",
                   !.session = IF NeedsNewSession(t, limit) THEN @ + 1 ELSE @,
                   !.rounds = IF NeedsNewSession(t, limit) THEN 1 ELSE @ + 1]

(* --- apply_review_decision --------------------------------------------- *)
CanDecide(t, gate) == gate = "reviewing_trim" /\ t.review # "none"

Decide(t, decision) ==
    [t EXCEPT !.review = "none",
              !.phase = IF decision = "trim" THEN "maintain" ELSE @]

GateDecided(decision) == IF decision = "trim" THEN "trimming" ELSE "open"

(* --- set_trim_phase, asked for the selection only ---------------------- *)
CanSelect(t, gate) == gate = "trimming" /\ t.phase = "maintain"

Select(t) == [t EXCEPT !.phase = "select"]

(* --- plan_portfolio_commit --------------------------------------------- *)
CanCommitPortfolio(t, gate, expected, confirmed) ==
    /\ gate = "trimming"
    /\ t.phase = "select"
    /\ expected = t.revision
    /\ confirmed

CommitPortfolio(t) == [t EXCEPT !.phase = "none", !.revision = @ + 1]

(* --- supersede_for_root_resolution ------------------------------------- *)
SupersedeTrim(t) == [t EXCEPT !.review = "none", !.phase = "none"]
=============================================================================
