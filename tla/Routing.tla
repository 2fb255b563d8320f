------------------------------ MODULE Routing ------------------------------
(***************************************************************************)
(* Where a hop's output goes: to the answer, to a consensus or a map       *)
(* fan-out, along one edge, or nowhere (engine.ts's order of checks and    *)
(* resolve.ts).  An output is what the checks see of it: the sentinel it   *)
(* opens with, the labels it begins with, whether it ends on a question,   *)
(* whether a list can be read from it, how many words it shares with each  *)
(* target's name and description.                                          *)
(***************************************************************************)
EXTENDS Naturals, Sequences, FiniteSets

CONSTANTS
    Agents,         \* the targets an edge may have
    Labels,         \* labels of classifier edges
    NoLabel,        \* an edge without one
    Priorities,
    MaxScore,       \* bound on the words shared with a target
    Cases           \* nodes, their outgoing edges and outputs

ASSUME RoutingAssumption ==
    /\ NoLabel \notin Labels
    /\ Priorities \subseteq Nat /\ MaxScore \in Nat

VARIABLES
    self,           \* what the node is
    edges,          \* its outgoing edges, in stored order
    joins,          \* the aggregators among the targets
    output,
    toolCalled,
    route           \* what the hop does with the output

routingVars == <<self, edges, joins, output, toolCalled, route>>

Edge == [kind : {"explicit", "auto", "consensus"},
         condition : {"default", "manual", "on_tool_call",
                      "on_classifier_result"},
         label : Labels \cup {NoLabel},
         priority : Priorities, target : Agents]

Output == [opens : {"prose", "unknown", "done", "all"},
           begins : {{}} \cup {{l} : l \in Labels},
           asks : BOOLEAN, listed : BOOLEAN,
           shared : [Agents -> 0..MaxScore]]

Node == [joins : BOOLEAN, group : BOOLEAN, map : BOOLEAN]

\* Any node, with any edges in any order, and any output.
ASSUME CasesAssumption ==
    Cases \subseteq [self : Node, edges : Seq(Edge), output : Output]

Pending == [kind |-> "pending", edge |-> 0]

RoutingInit ==
    /\ \E c \in Cases : self = c.self /\ edges = c.edges /\ output = c.output
    /\ joins \in SUBSET Agents
    /\ toolCalled \in BOOLEAN
    /\ route = Pending

-----------------------------------------------------------------------------

Satisfied(e) ==
    CASE e.condition = "default" -> TRUE
      [] e.condition = "manual" -> FALSE
      [] e.condition = "on_tool_call" -> toolCalled
      [] e.condition = "on_classifier_result" -> e.label \in output.begins

End == [kind |-> "end", edge |-> 0]
Along(i) == IF i = 0 \/ edges[i].target \in joins
            THEN End ELSE [kind |-> "edge", edge |-> i]

Score(i) == output.shared[edges[i].target]

\* A loop over the candidates in stored order that keeps one unless the next
\* is better; 0 is none.
Foremost(candidates, better) ==
    LET kept[i \in 0..Len(edges)] ==
            IF i = 0 THEN 0
            ELSE IF /\ i \in candidates
                    /\ kept[i - 1] = 0 \/ <<i, kept[i - 1]>> \in better
                 THEN i ELSE kept[i - 1]
    IN  kept[Len(edges)]

Pairs == (DOMAIN edges) \X (DOMAIN edges)

\* The first one after a sort that is stable.
FirstByPriority(candidates) ==
    Foremost(candidates,
             {p \in Pairs : edges[p[1]].priority > edges[p[2]].priority})

\* Faulty variant: the priority decides between unequal scores as well.
BestOverlapByPriority(candidates) ==
    Foremost({i \in candidates : Score(i) > 0},
             {p \in Pairs : \/ Score(p[1]) > Score(p[2])
                            \/ edges[p[1]].priority > edges[p[2]].priority})

\* A better score, or the same score and a higher priority.
BestOverlap(candidates) ==
    Foremost({i \in candidates : Score(i) > 0},
             {p \in Pairs :
                  \/ Score(p[1]) > Score(p[2])
                  \/ /\ Score(p[1]) = Score(p[2])
                     /\ edges[p[1]].priority > edges[p[2]].priority})

Undecided == output.opens \in {"unknown", "done"} \/ output.asks

MatchAutoEdge(candidates) ==
    IF Undecided THEN 0
    ELSE IF Cardinality(candidates) = 1 THEN CHOOSE i \in candidates : TRUE
    ELSE BestOverlap(candidates)

Open ==
    {i \in DOMAIN edges : edges[i].kind = "explicit" /\ Satisfied(edges[i])}
AutoEdges == {i \in DOMAIN edges : edges[i].kind = "auto"}

ResolveNextHop ==
    IF Open # {} THEN Along(FirstByPriority(Open))
    ELSE IF AutoEdges # {} THEN Along(MatchAutoEdge(AutoEdges))
    ELSE End

Hybrid == AutoEdges # {}

\* The order of the checks after the model call.
Decide ==
    LET fansOut == self.group /\ (Hybrid => output.opens = "all")
        kind == IF self.joins THEN "answer"
                ELSE IF fansOut THEN "consensus"
                ELSE IF self.map /\ output.listed THEN "map"
                ELSE "edge"
    IN  IF kind = "edge" THEN ResolveNextHop ELSE [kind |-> kind, edge |-> 0]

Route ==
    /\ route = Pending
    /\ route' = Decide
    /\ UNCHANGED <<self, edges, joins, output, toolCalled>>

RoutingNext == Route
RoutingSpec == RoutingInit /\ [][RoutingNext]_routingVars

-----------------------------------------------------------------------------

\* Edge i comes before edge j when both could be taken.
Precedes(i, j) ==
    LET rank(k) == IF Open # {} THEN 0 ELSE Score(k)
    IN  \/ rank(i) > rank(j)
        \/ rank(i) = rank(j) /\ edges[i].priority > edges[j].priority
        \/ rank(i) = rank(j) /\ edges[i].priority = edges[j].priority /\ i < j

\* The edges in the running: the explicit ones whose condition holds, and only
\* if there is none the auto ones; of several auto edges those that share a
\* word with the output, and none at all when the router did not decide.
InTheRunning ==
    IF Open # {} THEN Open
    ELSE IF Undecided THEN {}
    ELSE {i \in AutoEdges : AutoEdges = {i} \/ Score(i) > 0}

\* A hop's output takes the first edge in the running, by score, then
\* priority, then stored order; never one that leads into a join, not even to
\* the next best instead.  A join's own output is the answer, and a hybrid
\* node fans out on ALL only.
RoutesAsOrdered ==
    \/ route = Pending
    \/ /\ self.joins <=> route.kind = "answer"
       /\ route.kind = "consensus" => self.group /\ (AutoEdges = {}
                                                     \/ output.opens = "all")
       /\ route.kind = "map" => self.map /\ output.listed
       /\ route.kind = "edge" =>
              /\ route.edge \in InTheRunning
              /\ \A i \in InTheRunning \ {route.edge} : Precedes(route.edge, i)
              /\ edges[route.edge].target \notin joins
       /\ route.kind = "end" =>
              \A i \in InTheRunning :
                  \/ edges[i].target \in joins
                  \/ \E j \in InTheRunning : Precedes(j, i)

=============================================================================
