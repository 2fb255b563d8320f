--------------------------- MODULE CountedBarrier ---------------------------
(***************************************************************************)
(* What a fan-out promises to its aggregator: every branch settles at most *)
(* once, and the aggregator is dispatched at most once, never before all   *)
(* the branches have settled and only if one of them succeeded.  FanOut    *)
(* implements it.                                                          *)
(***************************************************************************)
EXTENDS Naturals

VARIABLES
    outcome,    \* of each branch: "open", "ok" or "failed"
    joins       \* dispatches of the aggregator

vars == <<outcome, joins>>

Init ==
    /\ outcome = [b \in DOMAIN outcome |-> "open"]
    /\ joins = 0

Settle(b) ==
    /\ outcome[b] = "open"
    /\ \E o \in {"ok", "failed"} : outcome' = [outcome EXCEPT ![b] = o]
    /\ UNCHANGED joins

Join ==
    /\ \A b \in DOMAIN outcome : outcome[b] # "open"
    /\ \E b \in DOMAIN outcome : outcome[b] = "ok"
    /\ joins = 0
    /\ joins' = 1
    /\ UNCHANGED outcome

Next == Join \/ \E b \in DOMAIN outcome : Settle(b)

Spec == Init /\ [][Next]_vars
=============================================================================
