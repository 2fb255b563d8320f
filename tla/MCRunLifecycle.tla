--------------------------- MODULE MCRunLifecycle ---------------------------
(* A pipeline writer -> reviewer -> publisher with the edge back that a user *)
(* may draw, the first and the last node behind an approval gate.            *)
EXTENDS RunLifecycle, TLC

CONSTANTS writer, reviewer, publisher, s1, s2, a1, a2, a3, c1

MCEdges ==
    {[from |-> writer,   to |-> reviewer,  kind |-> "explicit"],
     [from |-> reviewer, to |-> publisher, kind |-> "explicit"],
     [from |-> reviewer, to |-> writer,    kind |-> "explicit"],
     [from |-> writer,   to |-> publisher, kind |-> "auto"]}

\* Two steps only, the second behind a gate, for the runs with faults.
MCShortEdges ==
    {[from |-> writer,    to |-> publisher, kind |-> "explicit"],
     [from |-> publisher, to |-> writer,    kind |-> "auto"]}

\* A view that leaves out the histories and the locals no later step reads.
MCView ==
    <<run, log, queue, pc, redeliveries,
      [s \in Slots |-> IF pc[s] \in {"idle", "throwing", "complete", "fail",
                                     "advance", "gate", "enqueue"}
                      THEN {} ELSE {hop[s]}],
      [p \in Movers |-> IF pc[p] \in {"advance", "gate", "enqueue"}
                       THEN {target[p]} ELSE {}],
      [r \in Requests |-> IF pc[r] \in {"decide", "sequence", "insert"}
                         THEN {<<req[r].node, req[r].input, req[r].seq>>}
                         ELSE {}]>>

MCSymmetry == Permutations(Slots) \cup Permutations(Approvals)
=============================================================================
