--------------------------- MODULE FrozenHandoff ---------------------------
(***************************************************************************)
(* What the Explorer repository promises to the sort: records are shown    *)
(* one after the other and never taken back, an offer is everything shown  *)
(* at one moment, and the sort begins once, on an offer that was made.     *)
(***************************************************************************)
EXTENDS Naturals, Sequences

CONSTANT Records

VARIABLES
    shown,      \* the visible records, in the order of their visibility
    offers,     \* the frozen sets handed over so far
    begun       \* the offers the sort works on, none or one

hvars == <<shown, offers, begun>>

Shown == {shown[i] : i \in DOMAIN shown}

Init == shown = <<>> /\ offers = {} /\ begun = {}

Show(r) ==
    /\ r \notin Shown
    /\ shown' = Append(shown, r)
    /\ UNCHANGED <<offers, begun>>

Offer ==
    /\ begun = {}
    /\ offers' = offers \cup {shown}
    /\ UNCHANGED <<shown, begun>>

Begin(h) ==
    /\ begun = {} /\ h \in offers
    /\ begun' = {h}
    /\ UNCHANGED <<shown, offers>>

Next == (\E r \in Records : Show(r)) \/ Offer \/ (\E h \in offers : Begin(h))

Spec == Init /\ [][Next]_hvars
=============================================================================
