----------------------------- MODULE Blueprints -----------------------------
(***************************************************************************)
(* Graphs that are built from a plan: one that a model draws up from a     *)
(* description, a template, or a built-in example.  There are no           *)
(* transactions: the row of the graph, each node, each edge, the consensus *)
(* group and the entry node are statements of their own.  The graph is its *)
(* owner's from the first of them on, to open, to edit and to start a run  *)
(* on, and any of them can fail and leave what there is.                   *)
(*                                                                         *)
(* A node stands for its name in the plan and for its row; the layout on   *)
(* the canvas is left out.                                                 *)
(***************************************************************************)
EXTENDS FiniteSets, Naturals

CONSTANTS
    Names,          \* names that a plan gives to its nodes
    Unknown,        \* a name, or id, that the plan does not define
    NoName,         \* no entry node
    MaxPlans,       \* attempts at a plan that has all the agents asked for
    Links,          \* the edges, as pairs of names, that plans may have
    MaxLinks        \* bound: edges of a plan

VARIABLES
    origin,     \* what the plan comes from
    wanted,     \* the agents that the description names
    plan,       \* the plan, the best one so far
    plans,      \* attempts so far
    building,   \* where the request is
    todo,       \* the nodes, then the edges, not yet inserted
    made,       \* the rows of the new graph
    graphEntry, \* its row in agent_graphs: is it there, and its entry node
    starter,    \* where a request to start a run on it is
    seen,       \* the graph that run got
    dropped,    \* history: nodes the owner deleted by hand
    byHand      \* history: the owner chose the entry by hand

blueprintVars == <<origin, wanted, plan, plans, building, todo, made,
                   graphEntry, starter, seen, dropped, byHand>>
ownerVars == <<starter, seen, dropped, byHand>>

Named == Names \cup {Unknown}
Plan == [nodes : SUBSET Names, twice : BOOLEAN, links : SUBSET Links,
         group : SUBSET Links, entry : Named \cup {NoName}]
NoPlan == [nodes |-> {}, twice |-> FALSE, links |-> {}, group |-> {},
           entry |-> NoName]
NoRows == [nodes |-> {}, links |-> {}, group |-> {}]

FewLinks == {L \in SUBSET Links : Cardinality(L) <= MaxLinks}

\* generatedGraphSchema: names are strings, so any reference may be wrong, and
\* there is no group.
Drafts == {p \in [nodes : SUBSET Names \ {{}}, twice : BOOLEAN,
                  links : FewLinks, group : {{}}, entry : Named] : TRUE}

\* A template is what loadLiveGraph read of its source, statement by
\* statement: an edge may lead to a node, and a group name an edge, that the
\* rows read before do not have.
Templates == {p \in [nodes : SUBSET Names, twice : {FALSE}, links : FewLinks,
                     group : FewLinks, entry : Names \cup {NoName}] :
                  p.group = {} \/ Cardinality(p.group) = 2}

\* The built-in ones are wired by hand.
Examples == {p \in Templates :
                 /\ p.nodes # {} /\ p.entry \in p.nodes /\ p.group = {}
                 /\ p.links \subseteq p.nodes \X p.nodes}

BlueprintInit ==
    /\ origin \in {"description", "template", "example"}
    /\ wanted \in IF origin = "description" THEN 0..Cardinality(Names)
                  ELSE {0}
    /\ plan \in CASE origin = "description" -> {NoPlan}
                  [] origin = "template" -> Templates
                  [] OTHER -> Examples
    /\ plans = 0
    /\ building = IF origin = "description" THEN "asking" ELSE "row"
    /\ todo = {} /\ made = NoRows
    /\ graphEntry = [exists |-> FALSE, entry |-> NoName]
    /\ starter = "idle" /\ seen = NoRows
    /\ dropped = {} /\ byHand = FALSE

-----------------------------------------------------------------------------

Size(p) == Cardinality(p.nodes) + (IF p.twice THEN 1 ELSE 0)
Attempts == IF wanted > 1 THEN MaxPlans ELSE 1

\* One bounded call per candidate until one of them answers; the plan with
\* the most nodes is kept until one has enough of them.
Draft ==
    /\ building = "asking"
    /\ \E p \in Drafts :
           /\ plan' = IF plan = NoPlan \/ Size(p) > Size(plan) THEN p ELSE plan
           /\ building' = IF Size(p) >= wanted \/ plans + 1 = Attempts
                          THEN "checking" ELSE "asking"
    /\ plans' = plans + 1
    /\ UNCHANGED <<origin, wanted, todo, made, graphEntry, ownerVars>>

\* Every candidate failed: a 400, also when an earlier attempt had a plan.
NoModelAnswers ==
    /\ building = "asking"
    /\ building' = "refused"
    /\ UNCHANGED <<origin, wanted, plan, plans, todo, made, graphEntry,
                   ownerVars>>

\* Names used once, and every reference to one of them.
HoldsTogether(p) ==
    /\ ~p.twice
    /\ p.links \subseteq p.nodes \X p.nodes
    /\ p.entry \in p.nodes

CheckPlan ==
    /\ building = "checking"
    /\ building' = IF HoldsTogether(plan) THEN "row" ELSE "refused"
    /\ UNCHANGED <<origin, wanted, plan, plans, todo, made, graphEntry,
                   ownerVars>>

InsertRow ==
    /\ building = "row"
    /\ graphEntry' = [graphEntry EXCEPT !.exists = TRUE]
    /\ building' = "nodes" /\ todo' = plan.nodes
    /\ UNCHANGED <<origin, wanted, plan, plans, made, ownerVars>>

InsertNode ==
    /\ building = "nodes" /\ todo # {}
    /\ \E n \in todo :
           made' = [made EXCEPT !.nodes = @ \cup {n}] /\ todo' = todo \ {n}
    /\ UNCHANGED <<origin, wanted, plan, plans, building, graphEntry,
                   ownerVars>>

NodesDone ==
    /\ building = "nodes" /\ todo = {}
    /\ building' = "links" /\ todo' = plan.links
    /\ UNCHANGED <<origin, wanted, plan, plans, made, graphEntry, ownerVars>>

\* An end that is not there any more, or never was, ends the request, unless
\* it builds an example: there the refusal goes unnoticed.
InsertLink ==
    /\ building = "links" /\ todo # {}
    /\ \E l \in todo :
           IF {l[1], l[2]} \subseteq made.nodes
           THEN /\ made' = [made EXCEPT !.links = @ \cup {l}]
                /\ todo' = todo \ {l}
                /\ UNCHANGED building
           ELSE /\ building' = IF origin = "example" THEN building
                               ELSE "failed"
                /\ todo' = todo \ {l}
                /\ UNCHANGED made
    /\ UNCHANGED <<origin, wanted, plan, plans, graphEntry, ownerVars>>

LinksDone ==
    /\ building = "links" /\ todo = {}
    /\ building' = "group"
    /\ UNCHANGED <<origin, wanted, plan, plans, todo, made, graphEntry,
                   ownerVars>>

\* Once all ids are known; one that is not among them becomes null.
SetGroup ==
    /\ building = "group"
    /\ made' = [made EXCEPT !.group =
           {IF l \in plan.links THEN l ELSE <<Unknown, Unknown>> :
                l \in plan.group}]
    /\ building' = "entry"
    /\ UNCHANGED <<origin, wanted, plan, plans, todo, graphEntry, ownerVars>>

\* None in a template leaves it alone, one that is not among the template's
\* nodes clears it.
ChosenEntry(current) ==
    IF plan.entry = NoName THEN current
    ELSE IF plan.entry \in plan.nodes THEN plan.entry ELSE NoName

\* Faulty variant: the entry node is set as soon as there is one.
NameEntryEarly ==
    /\ building \in {"links", "group", "entry"}
    /\ graphEntry' = [graphEntry EXCEPT !.entry = ChosenEntry(@)]
    /\ building' = IF building = "entry" THEN "built" ELSE building
    /\ UNCHANGED <<origin, wanted, plan, plans, todo, made, ownerVars>>

\* Last of all.
NameEntry ==
    /\ building = "entry"
    /\ graphEntry' = [graphEntry EXCEPT !.entry = ChosenEntry(@)]
    /\ building' = "built"
    /\ UNCHANGED <<origin, wanted, plan, plans, todo, made, ownerVars>>

\* A statement fails or the process dies; nothing is taken back.
BuildFails ==
    /\ building \in {"nodes", "links", "group", "entry"}
    /\ building' = "failed"
    /\ UNCHANGED <<origin, wanted, plan, plans, todo, made, graphEntry,
                   ownerVars>>

-----------------------------------------------------------------------------

\* The owner, on the canvas.
RemoveByHand ==
    /\ \E n \in made.nodes :
           LET cut == {l \in made.links : n \in {l[1], l[2]}}
               kept == made.group \ cut
           IN  /\ made' = [nodes |-> made.nodes \ {n},
                           links |-> made.links \ cut,
                           group |-> IF Cardinality(kept) < 2 THEN {}
                                     ELSE kept]
               /\ graphEntry' = [graphEntry EXCEPT !.entry =
                                  IF @ = n THEN NoName ELSE @]
               /\ dropped' = dropped \cup {n}
    /\ UNCHANGED <<origin, wanted, plan, plans, building, todo, starter, seen,
                   byHand>>

EntryByHand ==
    /\ \E n \in made.nodes : graphEntry' = [graphEntry EXCEPT !.entry = n]
    /\ byHand' = TRUE
    /\ UNCHANGED <<origin, wanted, plan, plans, building, todo, made, starter,
                   seen, dropped>>

\* POST /runs: the graph's row, which must have an entry node, then
\* loadLiveGraph.
StartOn ==
    /\ starter = "idle" /\ graphEntry.exists /\ graphEntry.entry # NoName
    /\ starter' = "nodes"
    /\ UNCHANGED <<origin, wanted, plan, plans, building, todo, made,
                   graphEntry, seen, dropped, byHand>>

SeeNodes ==
    /\ starter = "nodes"
    /\ seen' = [seen EXCEPT !.nodes = made.nodes, !.group = made.group]
    /\ starter' = "links"
    /\ UNCHANGED <<origin, wanted, plan, plans, building, todo, made,
                   graphEntry, dropped, byHand>>

SeeLinks ==
    /\ starter = "links"
    /\ seen' = [seen EXCEPT !.links = made.links]
    /\ starter' = "started"
    /\ UNCHANGED <<origin, wanted, plan, plans, building, todo, made,
                   graphEntry, dropped, byHand>>

BlueprintNext ==
    \/ Draft \/ NoModelAnswers \/ CheckPlan
    \/ InsertRow \/ InsertNode \/ NodesDone \/ InsertLink \/ LinksDone
    \/ SetGroup \/ NameEntry \/ BuildFails
    \/ RemoveByHand \/ EntryByHand
    \/ StartOn \/ SeeNodes \/ SeeLinks

BlueprintSpec == BlueprintInit /\ [][BlueprintNext]_blueprintVars

-----------------------------------------------------------------------------

\* A run that starts on a graph while it is being built, or after its building
\* has failed half way, starts on the whole of it: on everything that its
\* owner has not deleted, unless the owner chose the entry node before the
\* builder did.
RunsSeeTheWholePlan ==
    starter = "started" /\ ~byHand =>
        /\ plan.nodes \ dropped \subseteq seen.nodes
        /\ {l \in plan.links : {l[1], l[2]} \cap dropped = {}}
               \subseteq seen.links
        /\ dropped = {} /\ plan.group \subseteq plan.links =>
               seen.group = plan.group
=============================================================================
