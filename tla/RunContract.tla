---------------------------- MODULE RunContract ----------------------------
(***************************************************************************)
(* What a run promises to whoever watches it through the API: its status   *)
(* and current node move only in these ways, and no model call for a gated *)
(* node starts without using up a permit, which only a human's release of  *)
(* a pause at that very node gives.  RunLifecycle implements it.           *)
(***************************************************************************)
EXTENDS Naturals

CONSTANTS Nodes, Entry, Gated

VARIABLES status, node, permits

vars == <<status, node, permits>>

Live     == {"pending", "running"}
Terminal == {"completed", "error", "cancelled"}

Init ==
    /\ status = "absent"
    /\ node = Entry
    /\ permits = [n \in Gated |-> 0]

\* The row appears, at the entry node.
Create ==
    /\ status = "absent"
    /\ status' = "pending"
    /\ UNCHANGED <<node, permits>>

\* The run waits for approval, or moves on, to some node.
Pause ==
    /\ status \in Live
    /\ node \in Gated
    /\ status' = "awaiting_approval"
    /\ UNCHANGED <<node, permits>>

Move ==
    /\ status \in Live
    /\ node' \in Nodes
    /\ UNCHANGED <<status, permits>>

\* A human lets the run go on from the gate it waits at.
Release ==
    /\ status = "awaiting_approval"
    /\ status' = "pending"
    /\ permits' = [permits EXCEPT ![node] = @ + 1]
    /\ UNCHANGED node

\* A hop of the current node begins, and calls its model.  The run may be
\* cancelled between the two.
Begin ==
    /\ status \in Live
    /\ node \in Gated => permits[node] > 0
    /\ status' = "running"
    /\ UNCHANGED <<node, permits>>

Call ==
    /\ status \in {"running", "cancelled"}
    /\ node \in Gated
    /\ permits[node] > 0
    /\ permits' = [permits EXCEPT ![node] = @ - 1]
    /\ UNCHANGED <<status, node>>

Finish ==
    /\ status \in Live
    /\ status' \in {"completed", "error"}
    /\ UNCHANGED <<node, permits>>

Cancel ==
    /\ status \in Live \cup {"awaiting_approval"}
    /\ status' = "cancelled"
    /\ UNCHANGED <<node, permits>>

Next == Create \/ Pause \/ Move \/ Release \/ Begin \/ Call \/ Finish \/ Cancel

Spec == Init /\ [][Next]_vars
=============================================================================
