----------------------------- MODULE MCDispatch -----------------------------
(* A graph that dispatches to itself and to another one, two slots.          *)
EXTENDS Dispatch

CONSTANTS A, B

MCTargets == [g \in Graphs |-> IF g = A THEN {A, B} ELSE {}]
=============================================================================
