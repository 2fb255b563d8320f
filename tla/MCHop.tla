------------------------------- MODULE MCHop -------------------------------
(* The parts of a hop: its model call, with a fallback provider and two MCP  *)
(* servers; its worktree, shared with another hop; the routing of its        *)
(* output.  The modules share no state, so a behaviour is one of one of      *)
(* them and the variables of the others keep an initial value.               *)
EXTENDS ModelCall, Worktrees, Routing, TLC

CONSTANTS h1, h2, w
VARIABLE part       \* the module this behaviour is about

MCDelays == <<1, 1, 2>>
MCWorktree == [h \in Hops |-> w]

MCVars == <<callVars, worktreeVars, routingVars, part>>

\* Edges that differ in what counts only: a condition is read on explicit
\* edges, a label on classifier edges, a priority on all but consensus edges.
Distinct == {e \in Edge :
    /\ e.kind # "explicit" => e.condition = "default"
    /\ e.condition # "on_classifier_result" => e.label = NoLabel
    /\ e.kind = "consensus" => \A p \in Priorities : e.priority <= p}

Autos == {e \in Distinct : e.kind = "auto"}
Simple == Autos \cup {e \in Distinct : /\ e.kind = "explicit" /\ e.priority = 0
                                       /\ e.condition = "default"}

Plain == [joins |-> FALSE, group |-> FALSE, map |-> FALSE]
FansOut == {[Plain EXCEPT !.group = TRUE], [Plain EXCEPT !.map = TRUE]}

\* A node without a fan-out with up to two edges of any kind or three auto
\* ones, a node with one and two simple edges, any node with up to one edge.
\* Only fan-outs read a list or ALL.
PlainOutputs == {o \in Output :
    /\ o.asks \/ o.begins # {} => o.opens = "prose"
    /\ ~o.listed /\ o.opens # "all"}
Outputs == {o \in Output : o.asks \/ o.begins # {} => o.opens = "prose"}

MCCases ==
    [self : {Plain}, output : PlainOutputs,
     edges : UNION {[1..n -> Distinct] : n \in 0..2} \cup [1..3 -> Autos]]
    \cup [self : FansOut, edges : [1..2 -> Simple], output : Outputs]
    \cup [self : Node, edges : [1..1 -> Distinct] \cup {<<>>}, output : Outputs]

MCRouting ==
    IF part = "routing" THEN RoutingInit
    ELSE /\ self = Plain /\ edges = <<>> /\ joins = {}
         /\ output = [opens |-> "prose", begins |-> {}, asks |-> FALSE,
                      listed |-> FALSE, shared |-> [a \in Agents |-> 0]]
         /\ toolCalled = FALSE /\ route = Pending

MCInit ==
    /\ part \in {"call", "tree", "routing"}
    /\ CallInit /\ (part # "call" => tools)
    /\ TreeInit
    /\ MCRouting

MCNext ==
    /\ part' = part
    /\ \/ part = "call" /\ CallNext
          /\ UNCHANGED <<worktreeVars, routingVars>>
       \/ part = "tree" /\ TreeNext
          /\ UNCHANGED <<callVars, routingVars>>
       \/ part = "routing" /\ RoutingNext
          /\ UNCHANGED <<callVars, worktreeVars>>

\* The fairness is the call's: of the other parts' behaviours, in which the
\* call never moves, it leaves none, and they do not bear on HopSettles.
MCSpec == MCInit /\ [][MCNext]_MCVars /\ CallFairness
=============================================================================
