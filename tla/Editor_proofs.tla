----------------------------- MODULE Editor_proofs ----------------------------
(***************************************************************************)
(* Theorems about a graph in the editor.  For any plans, templates and     *)
(* examples: wherever a build stops and whatever the owner does to the     *)
(* graph meanwhile, no run starts on half a plan.  For any nodes, edges    *)
(* and gestures: once every request is answered, the canvas shows the      *)
(* stored graph.                                                           *)
(***************************************************************************)
EXTENDS Blueprints, Canvas, TLAPS

-----------------------------------------------------------------------------
(* A graph that is built from a plan.                                      *)

MadeNodes(there) == plan.nodes \ dropped \subseteq there
MadeLinks(there) ==
    \A l \in plan.links : {l[1], l[2]} \cap dropped = {} => l \in there
MadeGroup(there) ==
    dropped = {} /\ plan.group \subseteq plan.links => there = plan.group

Rooms ==
    /\ made =
           [nodes |-> made.nodes, links |-> made.links, group |-> made.group]
    /\ seen =
           [nodes |-> seen.nodes, links |-> seen.links, group |-> seen.group]
    /\ graphEntry = [exists |-> graphEntry.exists, entry |-> graphEntry.entry]

\* Only an example gets over an edge that cannot be inserted, and its edges
\* lead from one of its nodes to another.
ExamplesHold ==
    origin = "example" =>
        building # "asking" /\ plan.links \subseteq plan.nodes \X plan.nodes

\* Each stage leaves the whole of its part of the plan, but for what the
\* owner has deleted since.
StagesDone ==
    /\ building = "nodes" => MadeNodes(made.nodes \cup todo)
    /\ building \in {"links", "group", "entry", "built"} =>
           MadeNodes(made.nodes)
    /\ building = "links" => MadeLinks(made.links \cup todo)
    /\ building \in {"group", "entry", "built"} => MadeLinks(made.links)
    /\ building \in {"entry", "built"} => MadeGroup(made.group)

\* The entry comes last, so that a run cannot start before.
StartsAfter ==
    ~byHand =>
        /\ graphEntry.entry # NoName => building = "built"
        /\ starter # "idle" => building = "built"
        /\ starter \in {"links", "started"} =>
               MadeNodes(seen.nodes) /\ MadeGroup(seen.group)
        /\ starter = "started" => MadeLinks(seen.links)

BuildInv == Rooms /\ ExamplesHold /\ StagesDone /\ StartsAfter

LEMMA InitBuild == BlueprintInit => BuildInv
  <1> SUFFICES ASSUME BlueprintInit PROVE BuildInv
    OBVIOUS
  <1>1. Rooms
    BY DEF BlueprintInit, Rooms, NoRows
  <1>2. ExamplesHold
    BY DEF BlueprintInit, ExamplesHold, Examples
  <1>3. StagesDone /\ StartsAfter
    BY DEF BlueprintInit, StagesDone, StartsAfter
  <1> QED
    BY <1>1, <1>2, <1>3 DEF BuildInv

\* What the owner deletes by hand is all that a part of the plan may lack.
LEMMA RemovedByHand ==
    ASSUME BuildInv, RemoveByHand
    PROVE  BuildInv'
  <1>1. PICK n \in made.nodes :
            LET cut == {l \in made.links : n \in {l[1], l[2]}}
                kept == made.group \ cut
            IN  /\ made' = [nodes |-> made.nodes \ {n},
                            links |-> made.links \ cut,
                            group |-> IF Cardinality(kept) < 2 THEN {}
                                      ELSE kept]
                /\ graphEntry' = [graphEntry EXCEPT !.entry =
                                   IF @ = n THEN NoName ELSE @]
                /\ dropped' = dropped \cup {n}
    BY DEF RemoveByHand
  <1>2. UNCHANGED <<origin, plan, building, todo, starter, seen, byHand>>
    BY DEF RemoveByHand
  <1>3. /\ made'.nodes = made.nodes \ {n}
        /\ \A l \in made.links : n \notin {l[1], l[2]} => l \in made'.links
        /\ graphEntry'.entry \in {graphEntry.entry, NoName}
        /\ dropped' = dropped \cup {n}
    BY <1>1 DEF BuildInv, Rooms
  <1>4. Rooms'
    BY <1>1, <1>2 DEF BuildInv, Rooms
  <1>5. ExamplesHold' /\ StartsAfter'
    BY <1>2, <1>3 DEF BuildInv, ExamplesHold, StartsAfter, MadeNodes,
                      MadeLinks, MadeGroup
  <1>6. StagesDone'
    <2>1. \A t : MadeNodes(made.nodes \cup t) => MadeNodes(made.nodes \cup t)'
      BY <1>2, <1>3 DEF MadeNodes
    <2>2. \A t : MadeLinks(made.links \cup t) => MadeLinks(made.links \cup t)'
      BY <1>2, <1>3 DEF MadeLinks
    <2>3. MadeNodes(made.nodes) => MadeNodes(made.nodes)'
      BY <1>2, <1>3 DEF MadeNodes
    <2>4. MadeLinks(made.links) => MadeLinks(made.links)'
      BY <1>2, <1>3 DEF MadeLinks
    <2>5. MadeGroup(made.group)'
      BY <1>3 DEF MadeGroup
    <2> QED
      BY <1>2, <1>3, <2>1, <2>2, <2>3, <2>4, <2>5
         DEF BuildInv, StagesDone
  <1> QED
    BY <1>4, <1>5, <1>6 DEF BuildInv

LEMMA BuildStep ==
    ASSUME BuildInv, [BlueprintNext]_blueprintVars
    PROVE  BuildInv'
  <1> USE DEF BuildInv
  <1>1. CASE Draft \/ NoModelAnswers \/ CheckPlan
    BY <1>1 DEF Draft, NoModelAnswers, CheckPlan, ownerVars, Rooms,
       ExamplesHold, StagesDone, StartsAfter
  <1>2. CASE InsertRow
    BY <1>2 DEF InsertRow, ownerVars, Rooms, ExamplesHold, StagesDone,
       StartsAfter, MadeNodes
  <1>3. CASE InsertNode
    BY <1>3 DEF InsertNode, ownerVars, Rooms, ExamplesHold, StagesDone,
       StartsAfter, MadeNodes
  <1>4. CASE NodesDone
    BY <1>4 DEF NodesDone, ownerVars, Rooms, ExamplesHold, StagesDone,
       StartsAfter, MadeNodes, MadeLinks
  <1>5. CASE InsertLink
    <2>1. PICK l \in todo :
            IF {l[1], l[2]} \subseteq made.nodes
            THEN /\ made' = [made EXCEPT !.links = @ \cup {l}]
                 /\ todo' = todo \ {l}
                 /\ UNCHANGED building
            ELSE /\ building' = IF origin = "example" THEN building
                                ELSE "failed"
                 /\ todo' = todo \ {l}
                 /\ UNCHANGED made
      BY <1>5 DEF InsertLink
    <2>2. /\ building = "links"
          /\ UNCHANGED <<origin, plan, graphEntry, starter, seen, dropped,
                         byHand>>
      BY <1>5 DEF InsertLink, ownerVars
    <2>3. /\ Rooms' /\ made'.nodes = made.nodes
          /\ building' = "links" =>
                 made.links \cup todo \subseteq made'.links \cup todo'
                 \/ /\ origin = "example" /\ made' = made
                    /\ ~({l[1], l[2]} \subseteq made.nodes)
      BY <2>1, <2>2 DEF Rooms
    <2>4. building' = "links" => MadeLinks(made.links \cup todo)'
      <3>1. MadeLinks(made.links \cup todo) /\ MadeNodes(made.nodes)
        BY <2>2 DEF StagesDone
      <3>2. CASE made.links \cup todo \subseteq made'.links \cup todo'
        BY <2>2, <3>1, <3>2 DEF MadeLinks
      <3>3. CASE /\ origin = "example" /\ made' = made
                 /\ ~({l[1], l[2]} \subseteq made.nodes)
        <4>1. l \in plan.links => {l[1], l[2]} \subseteq plan.nodes
          BY <3>3 DEF ExamplesHold
        <4>2. l \in plan.links => {l[1], l[2]} \cap dropped # {}
          BY <3>1, <3>3, <4>1 DEF MadeNodes
        <4>3. todo' = todo \ {l}
          BY <2>1
        <4> QED
          BY <2>2, <3>1, <3>3, <4>2, <4>3 DEF MadeLinks
      <3> QED
        BY <2>3, <3>2, <3>3
    <2>5. building' \in {"links", "failed"}
      BY <2>1, <2>2
    <2>6. StagesDone'
      BY <2>2, <2>3, <2>4, <2>5 DEF StagesDone, MadeNodes
    <2>7. ExamplesHold' /\ StartsAfter'
      BY <2>2, <2>5 DEF ExamplesHold, StartsAfter
    <2> QED
      BY <2>3, <2>6, <2>7
  <1>6. CASE LinksDone
    BY <1>6 DEF LinksDone, ownerVars, Rooms, ExamplesHold, StagesDone,
       StartsAfter, MadeNodes, MadeLinks
  <1>7. CASE SetGroup
    <2>1. plan.group \subseteq plan.links =>
              {IF l \in plan.links THEN l ELSE <<Unknown, Unknown>> :
                   l \in plan.group} = plan.group
      OBVIOUS
    <2> QED
      BY <1>7, <2>1 DEF SetGroup, ownerVars, Rooms, ExamplesHold, StagesDone,
         StartsAfter, MadeNodes, MadeLinks, MadeGroup
  <1>8. CASE NameEntry
    BY <1>8 DEF NameEntry, ownerVars, Rooms, ExamplesHold, StagesDone,
       StartsAfter, MadeNodes, MadeLinks, MadeGroup
  <1>9. CASE BuildFails
    BY <1>9 DEF BuildFails, ownerVars, Rooms, ExamplesHold, StagesDone,
       StartsAfter
  <1>10. CASE RemoveByHand
    BY <1>10, RemovedByHand
  <1>11. CASE EntryByHand
    <2>1. Rooms'
      BY <1>11 DEF EntryByHand, Rooms
    <2>2. byHand' /\ UNCHANGED <<origin, plan, building, todo, made, dropped>>
      BY <1>11 DEF EntryByHand
    <2> QED
      BY <2>1, <2>2 DEF ExamplesHold, StagesDone, StartsAfter, MadeNodes,
         MadeLinks, MadeGroup
  <1>12. CASE StartOn \/ SeeNodes \/ SeeLinks
    <2>1. UNCHANGED <<origin, plan, building, todo, made, graphEntry, dropped,
                      byHand>>
      BY <1>12 DEF StartOn, SeeNodes, SeeLinks
    <2>2. ExamplesHold' /\ StagesDone'
      BY <2>1 DEF ExamplesHold, StagesDone, MadeNodes, MadeLinks, MadeGroup
    <2>3. CASE StartOn
      BY <2>2, <2>3 DEF StartOn, Rooms, StartsAfter
    <2>4. CASE SeeNodes
      BY <2>2, <2>4 DEF SeeNodes, Rooms, StagesDone, StartsAfter, MadeNodes,
         MadeGroup
    <2>5. CASE SeeLinks
      BY <2>2, <2>5 DEF SeeLinks, Rooms, StagesDone, StartsAfter, MadeNodes,
         MadeLinks, MadeGroup
    <2> QED
      BY <1>12, <2>3, <2>4, <2>5
  <1>13. CASE UNCHANGED blueprintVars
    BY <1>13 DEF blueprintVars, Rooms, ExamplesHold, StagesDone,
       StartsAfter, MadeNodes, MadeLinks, MadeGroup
  <1> QED
    BY <1>1, <1>2, <1>3, <1>4, <1>5, <1>6, <1>7, <1>8, <1>9, <1>10, <1>11,
       <1>12, <1>13 DEF BlueprintNext

\* A run can start on a graph while it is being built only by the entry node,
\* which the builder sets last: however the owner, the builder and the run's
\* reads interleave, and wherever the build fails, the run starts on all of
\* the plan that the owner has not deleted.
THEOREM WholePlansSeen == BlueprintSpec => []RunsSeeTheWholePlan
  <1>1. BuildInv => RunsSeeTheWholePlan
    BY DEF BuildInv, StartsAfter, RunsSeeTheWholePlan, MadeNodes, MadeLinks,
           MadeGroup
  <1> QED
    BY <1>1, InitBuild, BuildStep, PTL DEF BlueprintSpec

-----------------------------------------------------------------------------
(* The canvas.                                                             *)

Sure == doubt \cap {"overlap", "lost"} = {}

Kinds == {"reroute", "connect", "add", "entry", "save", "delete", "cut",
          "remove"}

Fields == {"kind", "state", "node", "edge", "target", "seen", "ends", "rest"}

CallShape(c) ==
    /\ c = [x \in Fields |-> c[x]]
    /\ c.kind \in Kinds
    /\ c.state \in {"sent", "ok", "failed"} \/ c.kind = "cut"

\* d is c, but for its state and the fields F.
Follows(d, c, F) ==
    CallShape(d) /\ \A x \in Fields \ (F \cup {"state"}) : d[x] = c[x]

Shapes ==
    /\ rows = [nodes |-> rows.nodes, edges |-> rows.edges,
               entry |-> rows.entry]
    /\ graph = [nodes |-> graph.nodes, edges |-> graph.edges,
                entry |-> graph.entry]
    /\ drawn = [nodes |-> drawn.nodes, edges |-> drawn.edges]
    /\ unused = [nodes |-> unused.nodes, edges |-> unused.edges]
    /\ \A c \in calls : CallShape(c)

Deletes == {"delete", "remove"}
Pending(c, kind) == c.kind = kind /\ c.state = "ok"

\* Ids are given out once.
FreshNodes ==
    /\ NoEntry \notin unused.nodes \cup rows.nodes \cup graph.nodes
    /\ \A n \in unused.nodes :
           /\ n \notin rows.nodes /\ n \notin graph.nodes
           /\ n # rows.entry /\ n # graph.entry
           /\ \A c \in calls : c.kind = "entry" => c.node # n

\* One node is deleted at a time; it is off the rows when it is served.
OneDelete ==
    /\ \A c, d \in calls : c.kind \in Deletes /\ d.kind \in Deletes => c = d
    /\ \A c \in calls : c.kind \in Deletes =>
           /\ c.node \in graph.nodes
           /\ c.node \in rows.nodes <=> c.state # "ok"
           /\ c.kind = "delete" => c.node \notin drawn.nodes

\* The state lags behind the rows by the answers that are on their way, the
\* picture is ahead of the state by the delete on the canvas.
NodesFollow ==
    /\ \A n \in rows.nodes \ graph.nodes :
           \E c \in calls : Pending(c, "add") /\ c.target = n
    /\ \A n \in graph.nodes \ rows.nodes :
           \E c \in calls : c.kind \in Deletes /\ c.state = "ok" /\ c.node = n
    /\ \A c \in calls : Pending(c, "add") =>
           c.target \in rows.nodes \ graph.nodes
    /\ \A c, d \in calls : Pending(c, "add") /\ Pending(d, "add") =>
           c = d \/ c.target # d.target
    /\ drawn.nodes \subseteq graph.nodes
    /\ \A n \in graph.nodes \ drawn.nodes :
           \E c \in calls : c.kind = "delete" /\ c.node = n

Standing(n) == IF n \in rows.nodes THEN n ELSE NoEntry

EntryFollows ==
    /\ \A c, d \in calls : c.kind = "entry" /\ d.kind = "entry" => c = d
    /\ \A c \in calls : Pending(c, "entry") =>
           Standing(rows.entry) = Standing(c.node)
    /\ (\A c \in calls : ~Pending(c, "entry")) =>
           Standing(rows.entry) = Standing(graph.entry)

\* A save waits alone.
SaveAlone ==
    \A c \in calls : c.kind = "save" => calls = {c} /\ c.seen = graph.edges

NodesHold ==
    FreshNodes /\ OneDelete /\ NodesFollow /\ EntryFollows /\ SaveAlone

EndsOf(c) == [source |-> c.node, target |-> c.target]

\* The edge e is, or was, from v.source to v.target.
Known(e, v) ==
    \/ e \in DOMAIN rows.edges /\ v = rows.edges[e]
    \/ e \in DOMAIN graph.edges /\ v = graph.edges[e]
    \/ e \in DOMAIN drawn.edges /\ v = drawn.edges[e]
    \/ \E c \in calls : Pending(c, "connect") /\ c.edge = e /\ v = EndsOf(c)
    \/ \E c \in calls :
           c.kind = "cut" /\ e \in DOMAIN c.rest /\ v = c.rest[e]

Gone(v) == v.source \notin rows.nodes \/ v.target \notin rows.nodes

\* Ids are given out once, and an edge keeps its ends.
OneEdgePerId ==
    \A e, v : Known(e, v) =>
        /\ e \notin unused.edges
        /\ v.source \notin unused.nodes /\ v.target \notin unused.nodes
        /\ \A w : Known(e, w) => v = w

IsCut(c) == c.kind = "cut" /\ c.state \in {"ok", "missing"}

\* What rows, state and picture do not share is on its way, or has lost an
\* end.
EdgesFollow ==
    /\ \A e \in DOMAIN rows.edges : ~Gone(rows.edges[e])
    /\ \A e \in DOMAIN rows.edges \ DOMAIN graph.edges :
           \E c \in calls : Pending(c, "connect") /\ c.edge = e
    /\ \A e \in DOMAIN graph.edges \ DOMAIN rows.edges :
           \/ Gone(graph.edges[e])
           \/ \E c \in calls : IsCut(c) /\ c.edge = e
    /\ \A e \in DOMAIN drawn.edges \ DOMAIN rows.edges : Gone(drawn.edges[e])
    /\ \A e \in DOMAIN rows.edges \ DOMAIN drawn.edges :
           \/ \E c \in calls : Pending(c, "connect") /\ c.edge = e
           \/ \E c \in calls : c.kind = "cut" /\ e \in DOMAIN c.rest

\* An edge is in one request at most, and out of the picture until that is
\* answered.
CutsApart ==
    \A c \in calls : c.kind = "cut" =>
        /\ c.edge \in DOMAIN c.rest
        /\ IsCut(c) => c.edge \notin DOMAIN rows.edges
        /\ \A e \in DOMAIN c.rest :
               /\ e \notin DOMAIN drawn.edges
               /\ e \in DOMAIN rows.edges \/ Gone(c.rest[e])
                  \/ (IsCut(c) /\ e = c.edge)
               /\ \A d \in calls : d.kind = "cut" /\ e \in DOMAIN d.rest =>
                      c = d

ConnectsApart ==
    \A c \in calls : Pending(c, "connect") =>
        /\ c.edge \notin DOMAIN drawn.edges /\ c.edge \notin DOMAIN graph.edges
        /\ c.edge \in DOMAIN rows.edges \/ Gone(EndsOf(c))
        /\ \A d \in calls :
               /\ Pending(d, "connect") /\ d.edge = c.edge => c = d
               /\ d.kind = "cut" => c.edge \notin DOMAIN d.rest

EdgesHold ==
    /\ \A c \in calls : c.kind # "reroute"
    /\ OneEdgePerId /\ EdgesFollow /\ CutsApart /\ ConnectsApart

CanvasInv == Shapes /\ (Sure => NodesHold) /\ (doubt = {} => EdgesHold)

-----------------------------------------------------------------------------
(* Calls.                                                                  *)

IsRequest(r, k, n, e, t) ==
    /\ CallShape(r) /\ r.kind = k /\ r.state = "sent" /\ r.node = n
    /\ r.edge = e /\ r.target = t /\ (k = "save" => r.seen = graph.edges)

LEMMA Requested ==
    ASSUME NEW k \in Kinds, NEW n, NEW e, NEW t
    PROVE  IsRequest(Request(k, n, e, t), k, n, e, t)
  BY DEF Request, IsRequest, CallShape, Kinds, Fields

LEMMA RequestedWith ==
    ASSUME NEW e, NEW t, NEW v
    PROVE  /\ IsRequest(RerouteFrom(e, t, v), "reroute", NoEntry, e, t)
           /\ IsRequest(CutFirst(e, v), "cut", NoEntry, e, NoEntry)
           /\ CutFirst(e, v).rest = v
  <1> DEFINE r == Request("reroute", NoEntry, e, t)
             c == Request("cut", NoEntry, e, NoEntry)
  <1>1. /\ IsRequest(r, "reroute", NoEntry, e, t)
        /\ IsRequest(c, "cut", NoEntry, e, NoEntry)
    BY Requested DEF Kinds
  <1> HIDE DEF r, c
  <1>2. IsRequest([r EXCEPT !.ends = {v}], "reroute", NoEntry, e, t)
    BY <1>1 DEF IsRequest, CallShape, Fields
  <1>3. /\ IsRequest([c EXCEPT !.rest = v], "cut", NoEntry, e, NoEntry)
        /\ [c EXCEPT !.rest = v].rest = v
    BY <1>1 DEF IsRequest, CallShape, Fields
  <1> QED
    BY <1>2, <1>3 DEF r, c, RerouteFrom, CutFirst

LEMMA NextCut ==
    ASSUME NEW c, CallShape(c), NEW e, NEW v
    PROVE  LET d == CutNext(c, e, v)
           IN  /\ Follows(d, c, {"edge", "rest"})
               /\ d.state = "sent" /\ d.edge = e /\ d.rest = v
  BY DEF CutNext, Follows, CallShape, Fields

\* A gesture nobody need doubt.
LEMMA NoClash ==
    ASSUME NEW kind, Gesture(kind), Sure'
    PROVE  /\ Sure /\ ~Clashes(kind)
           /\ rows' = rows /\ unused' = unused
           /\ doubt' = {} => doubt = {} /\ kind # "reroute"
  BY DEF Gesture, Sure

LEMMA DeleteEffect ==
    ASSUME DeleteOnCanvas
    PROVE  \E n \in drawn.nodes : \E q :
               LET cut == EdgesAt(drawn.edges, n)
               IN  /\ graph' = graph
                   /\ drawn' = [nodes |-> drawn.nodes \ {n},
                                edges |-> Without(drawn.edges, cut)]
                   /\ IsRequest(q, "delete", n, NoEntry, NoEntry)
                   /\ \/ cut = {} /\ calls' = calls \cup {q}
                      \/ \E e \in cut : \E c :
                            /\ calls' = calls \cup {q, c}
                            /\ IsRequest(c, "cut", NoEntry, e, NoEntry)
                            /\ c.rest = Restrict(drawn.edges, cut)
  <1>1. PICK n \in drawn.nodes :
            LET cut == EdgesAt(drawn.edges, n)
            IN  /\ drawn' = [nodes |-> drawn.nodes \ {n},
                             edges |-> Without(drawn.edges, cut)]
                /\ Send({Request("delete", n, NoEntry, NoEntry)} \cup
                        {CutFirst(e, Restrict(drawn.edges, cut)) :
                            e \in FirstOf(cut)})
    BY DEF DeleteOnCanvas
  <1> DEFINE cut == EdgesAt(drawn.edges, n)
             q == Request("delete", n, NoEntry, NoEntry)
             first == CHOOSE e \in cut : TRUE
             c == CutFirst(first, Restrict(drawn.edges, cut))
  <1>2. IsRequest(q, "delete", n, NoEntry, NoEntry)
    BY Requested DEF Kinds
  <1>3. CASE cut = {}
    <2>1. calls' = calls \cup {q}
      BY <1>1, <1>3 DEF Send, FirstOf
    <2> QED
      BY <1>1, <1>2, <1>3, <2>1 DEF DeleteOnCanvas
  <1>4. CASE cut # {}
    <2>1. first \in cut
      BY <1>4
    <2>2. calls' = calls \cup {q, c}
      BY <1>1, <1>4 DEF Send, FirstOf
    <2>3. /\ IsRequest(c, "cut", NoEntry, first, NoEntry)
          /\ c.rest = Restrict(drawn.edges, cut)
      BY RequestedWith
    <2> HIDE DEF cut, q, c, first
    <2> QED
      BY <1>1, <1>2, <2>1, <2>2, <2>3 DEF DeleteOnCanvas, cut
  <1> QED
    BY <1>3, <1>4

\* Whoever is answered is refused, or is served and knows it.
LEMMA RefuseEffect ==
    ASSUME Shapes, NEW c \in calls, Refuse(c)
    PROVE  /\ UNCHANGED <<rows, graph, drawn, unused, doubt>>
           /\ c.state = "sent"
           /\ \E d : /\ calls' = (calls \ {c}) \cup {d}
                     /\ Follows(d, c, {}) /\ d.state \in {"failed", "missing"}
                     /\ d.state = "missing" =>
                           c.kind = "cut" /\ c.edge \notin DOMAIN rows.edges
  <1>1. CallShape(c)
    BY DEF Shapes
  <1>2. PICK how \in {"failed", "missing"} :
            /\ calls' = (calls \ {c}) \cup {[c EXCEPT !.state = how]}
            /\ how = "missing" => c.kind = "cut" /\ ~CanServe(c)
    BY DEF Refuse, Becomes
  <1>3. c.kind = "cut" /\ ~CanServe(c) => c.edge \notin DOMAIN rows.edges
    BY DEF CanServe
  <1>4. LET d == [c EXCEPT !.state = how]
        IN  Follows(d, c, {}) /\ d.state = how
    BY <1>1, <1>2 DEF Follows, CallShape, Fields
  <1> QED
    BY <1>2, <1>3, <1>4 DEF Refuse

LEMMA ServeEffect ==
    ASSUME Shapes, NEW c \in calls, Serve(c), Sure'
    PROVE  /\ UNCHANGED <<graph, drawn, doubt>>
           /\ c.state = "sent" /\ CanServe(c)
           /\ \E id \in NewId(c) : \E d :
                  /\ rows' = Effect(c, id)
                  /\ unused' = [nodes |-> unused.nodes \ {id},
                                edges |-> unused.edges \ {id}]
                  /\ calls' = (calls \ {c}) \cup {d}
                  /\ Follows(d, c, {"edge", "target"}) /\ d.state = "ok"
                  /\ d.edge = IF c.kind = "connect" THEN id ELSE c.edge
                  /\ d.target = IF c.kind = "add" THEN id ELSE c.target
  <1>1. CallShape(c)
    BY DEF Shapes
  <1>2. PICK id \in NewId(c), through \in BOOLEAN :
            /\ rows' = Effect(c, id)
            /\ unused' = [nodes |-> unused.nodes \ {id},
                          edges |-> unused.edges \ {id}]
            /\ Becomes(c, IF ~through THEN [c EXCEPT !.state = "failed"]
                          ELSE IF c.kind = "add"
                          THEN [c EXCEPT !.state = "ok", !.target = id]
                          ELSE IF c.kind = "connect"
                          THEN [c EXCEPT !.state = "ok", !.edge = id]
                          ELSE [c EXCEPT !.state = "ok"])
            /\ doubt' = IF through THEN doubt ELSE doubt \cup {"lost"}
    BY DEF Serve
  <1>3. through
    BY <1>2 DEF Sure
  <1>4. \E d : /\ calls' = (calls \ {c}) \cup {d}
               /\ Follows(d, c, {"edge", "target"}) /\ d.state = "ok"
               /\ d.edge = IF c.kind = "connect" THEN id ELSE c.edge
               /\ d.target = IF c.kind = "add" THEN id ELSE c.target
    <2>1. CASE c.kind = "add"
      <3> DEFINE d == [c EXCEPT !.state = "ok", !.target = id]
      <3>1. calls' = (calls \ {c}) \cup {d}
        BY <1>2, <1>3, <2>1 DEF Becomes
      <3>2. Follows(d, c, {"target"}) /\ d.state = "ok" /\ d.target = id
        BY <1>1 DEF Follows, CallShape, Fields
      <3> HIDE DEF d
      <3> QED
        BY <2>1, <3>1, <3>2 DEF Follows, Fields
    <2>2. CASE c.kind = "connect"
      <3> DEFINE d == [c EXCEPT !.state = "ok", !.edge = id]
      <3>1. calls' = (calls \ {c}) \cup {d}
        BY <1>2, <1>3, <2>2 DEF Becomes
      <3>2. Follows(d, c, {"edge"}) /\ d.state = "ok" /\ d.edge = id
        BY <1>1 DEF Follows, CallShape, Fields
      <3> HIDE DEF d
      <3> QED
        BY <2>2, <3>1, <3>2 DEF Follows, Fields
    <2>3. CASE c.kind \notin {"add", "connect"}
      <3> DEFINE d == [c EXCEPT !.state = "ok"]
      <3>1. calls' = (calls \ {c}) \cup {d}
        BY <1>2, <1>3, <2>3 DEF Becomes
      <3>2. Follows(d, c, {}) /\ d.state = "ok"
        BY <1>1 DEF Follows, CallShape, Fields
      <3> HIDE DEF d
      <3> QED
        BY <2>3, <3>1, <3>2 DEF Follows, Fields
    <2> QED
      BY <2>1, <2>2, <2>3
  <1> QED
    BY <1>2, <1>3, <1>4 DEF Serve

-----------------------------------------------------------------------------

LEMMA ShapesInit == CanvasInit => Shapes
  BY DEF CanvasInit, Shapes

\* A gesture that draws nothing sends one request.
LEMMA FormSends ==
    ASSUME \/ Connect \/ AddAgent \/ ChooseEntry \/ SaveSettings
           \/ DeleteInPanel
    PROVE  \E k \in {"connect", "add", "entry", "save", "remove"} :
               \E n, t : Send({Request(k, n, NoEntry, t)})
  <1>1. CASE Connect
    <2>1. \E n, t : Send({Request("connect", n, NoEntry, t)})
      BY <1>1 DEF Connect
    <2> QED
      BY <2>1
  <1>2. CASE AddAgent
    <2>1. \E n, t : Send({Request("add", n, NoEntry, t)})
      BY <1>2 DEF AddAgent
    <2> QED
      BY <2>1
  <1>3. CASE ChooseEntry
    <2>1. \E n, t : Send({Request("entry", n, NoEntry, t)})
      BY <1>3 DEF ChooseEntry
    <2> QED
      BY <2>1
  <1>4. CASE SaveSettings
    <2>1. \E n, t : Send({Request("save", n, NoEntry, t)})
      BY <1>4 DEF SaveSettings
    <2> QED
      BY <2>1
  <1>5. CASE DeleteInPanel
    <2>1. \E n, t : Send({Request("remove", n, NoEntry, t)})
      BY <1>5 DEF DeleteInPanel
    <2> QED
      BY <2>1
  <1> QED
    BY <1>1, <1>2, <1>3, <1>4, <1>5

LEMMA GestureShapes ==
    ASSUME Shapes, Gestures
    PROVE  Shapes'
  <1>0. rows' = rows /\ unused' = unused
    BY DEF Gestures, Gesture, Reroute, Connect, AddAgent, ChooseEntry,
           SaveSettings, DeleteOnCanvas, DeleteEdgeOnCanvas, DeleteInPanel,
           ResetLayout
  <1>1. graph' = graph
    BY DEF Gestures, Reroute, Connect, AddAgent, ChooseEntry,
           SaveSettings, DeleteOnCanvas, DeleteEdgeOnCanvas, DeleteInPanel,
           ResetLayout
  <1>2. drawn' = [nodes |-> drawn'.nodes, edges |-> drawn'.edges]
    <2>0. drawn = [nodes |-> drawn.nodes, edges |-> drawn.edges]
      BY DEF Shapes
    <2>1. CASE Reroute \/ DeleteEdgeOnCanvas
      <3>1. PICK es : drawn' = [drawn EXCEPT !.edges = es]
        BY <2>1 DEF Reroute, DeleteEdgeOnCanvas
      <3> QED
        BY <2>0, <3>1
    <2>2. CASE DeleteOnCanvas \/ ResetLayout
      <3>1. PICK ns, es : drawn' = [nodes |-> ns, edges |-> es]
        BY <2>2 DEF DeleteOnCanvas, ResetLayout
      <3> QED
        BY <3>1
    <2>3. CASE drawn' = drawn
      BY <2>0, <2>3
    <2> QED
      BY <2>1, <2>2, <2>3 DEF Gestures, Connect, AddAgent, ChooseEntry,
                              SaveSettings, DeleteInPanel
  <1>3. \A c \in calls' \ calls : CallShape(c)
    <2>1. CASE Connect \/ AddAgent \/ ChooseEntry \/ SaveSettings
               \/ DeleteInPanel
      <3>1. PICK k \in {"connect", "add", "entry", "save", "remove"} :
                \E n, t : Send({Request(k, n, NoEntry, t)})
        BY <2>1, FormSends
      <3>2. PICK n, t : Send({Request(k, n, NoEntry, t)})
        BY <3>1
      <3> QED
        BY <3>1, <3>2, Requested DEF Send, IsRequest, Kinds
    <2>2. CASE Reroute
      <3>1. PICK e, t, v : Send({RerouteFrom(e, t, v)})
        BY <2>2 DEF Reroute
      <3> QED
        BY <3>1, RequestedWith DEF Send, IsRequest, Kinds
    <2>3. CASE DeleteOnCanvas
      BY <2>3, DeleteEffect DEF IsRequest
    <2>4. CASE DeleteEdgeOnCanvas
      <3>1. PICK e, v : Send({CutFirst(e, v)})
        BY <2>4 DEF DeleteEdgeOnCanvas
      <3> QED
        BY <3>1, RequestedWith DEF Send, IsRequest, Kinds
    <2>5. CASE ResetLayout
      BY <2>5 DEF ResetLayout
    <2> QED
      BY <2>1, <2>2, <2>3, <2>4, <2>5 DEF Gestures
  <1> QED
    BY <1>0, <1>1, <1>2, <1>3 DEF Shapes

LEMMA AnswerShapes ==
    ASSUME Shapes, NEW c \in calls,
           Serve(c) \/ Refuse(c) \/ FailsHalfway(c) \/ Answers(c)
    PROVE  Shapes'
  <1>0. CallShape(c)
    BY DEF Shapes
  <1>1. rows' = [nodes |-> rows'.nodes, edges |-> rows'.edges,
                 entry |-> rows'.entry]
    <2>0. rows = [nodes |-> rows.nodes, edges |-> rows.edges,
                  entry |-> rows.entry]
      BY DEF Shapes
    <2>1. CASE rows' = rows
      BY <2>0, <2>1
    <2>2. CASE Serve(c)
      <3>1. PICK id : rows' = Effect(c, id)
        BY <2>2 DEF Serve
      <3>2. CASE c.kind = "reroute"
        BY <2>0, <3>1, <3>2 DEF Effect
      <3>3. CASE c.kind = "cut"
        BY <2>0, <3>1, <3>3 DEF Effect
      <3>4. CASE c.kind = "connect"
        BY <2>0, <3>1, <3>4 DEF Effect
      <3>5. CASE c.kind = "add"
        BY <2>0, <3>1, <3>5 DEF Effect
      <3>6. CASE c.kind = "entry"
        BY <2>0, <3>1, <3>6 DEF Effect
      <3>7. CASE c.kind \in {"save", "delete", "remove"}
        BY <2>0, <3>1, <3>7 DEF Effect, WithoutNode
      <3> QED
        BY <1>0, <3>2, <3>3, <3>4, <3>5, <3>6, <3>7 DEF CallShape, Kinds
    <2>3. CASE FailsHalfway(c)
      BY <2>0, <2>3 DEF FailsHalfway
    <2> QED
      BY <2>1, <2>2, <2>3 DEF Refuse, Answers, Fail, RerouteAnswered, Connected,
         Added, EntrySet, SettingsSaved, Deleted, Removed, CutAnswered,
         Settled
  <1>2. graph' = [nodes |-> graph'.nodes, edges |-> graph'.edges,
                  entry |-> graph'.entry]
    <2>0. graph = [nodes |-> graph.nodes, edges |-> graph.edges,
                   entry |-> graph.entry]
      BY DEF Shapes
    <2>1. CASE graph' = graph
      BY <2>0, <2>1
    <2>2. CASE \E es : graph' = [graph EXCEPT !.edges = es]
      BY <2>0, <2>2
    <2>3. CASE \E ns : graph' = [graph EXCEPT !.nodes = ns]
      BY <2>0, <2>3
    <2>4. CASE \E n : graph' = [graph EXCEPT !.entry = n]
      BY <2>0, <2>4
    <2>5. CASE graph' = WithoutNode(graph, c.node)
      BY <2>5 DEF WithoutNode
    <2> QED
      BY <2>1, <2>2, <2>3, <2>4, <2>5 DEF Serve, Refuse, FailsHalfway, Answers, Fail,
         RerouteAnswered, Connected, Added, EntrySet, SettingsSaved, Deleted,
         Removed, CutAnswered
  <1>3. drawn' = [nodes |-> drawn'.nodes, edges |-> drawn'.edges]
    <2>0. drawn = [nodes |-> drawn.nodes, edges |-> drawn.edges]
      BY DEF Shapes
    <2>1. CASE drawn' = drawn
      BY <2>0, <2>1
    <2>2. CASE \E es : drawn' = [drawn EXCEPT !.edges = es]
      BY <2>0, <2>2
    <2>3. CASE \E ns : drawn' = [drawn EXCEPT !.nodes = ns]
      BY <2>0, <2>3
    <2>4. CASE \E ns, es : drawn' = [nodes |-> ns, edges |-> es]
      BY <2>4
    <2>5. CASE RerouteAnswered(c)
      <3>1. \/ drawn' = drawn
            \/ \E v : drawn' = [drawn EXCEPT !.edges[c.edge] = v]
        BY <2>5 DEF RerouteAnswered
      <3> QED
        BY <2>0, <3>1
    <2> QED
      BY <2>1, <2>2, <2>3, <2>4, <2>5 DEF Serve, Refuse, FailsHalfway, Answers, Fail,
         Connected, Added, EntrySet, SettingsSaved, Deleted, Removed,
         CutAnswered
  <1>4. unused' = [nodes |-> unused'.nodes, edges |-> unused'.edges]
    <2>1. CASE unused' = unused
      BY <2>1 DEF Shapes
    <2>2. CASE \E id : unused' = [nodes |-> unused.nodes \ {id},
                                  edges |-> unused.edges \ {id}]
      BY <2>2
    <2> QED
      BY <2>1, <2>2 DEF Serve, Refuse, FailsHalfway, Answers, Fail, RerouteAnswered,
         Connected, Added, EntrySet, SettingsSaved, Deleted, Removed,
         CutAnswered, Settled
  <1>5. \A d \in calls' \ calls : CallShape(d)
    <2>1. CASE Serve(c)
      <3>1. PICK d, id :
                /\ calls' = (calls \ {c}) \cup {d}
                /\ \/ d = [c EXCEPT !.state = "failed"]
                   \/ d = [c EXCEPT !.state = "ok", !.target = id]
                   \/ d = [c EXCEPT !.state = "ok", !.edge = id]
                   \/ d = [c EXCEPT !.state = "ok"]
        BY <2>1 DEF Serve, Becomes
      <3>2. CallShape(d)
        BY <1>0, <3>1 DEF CallShape, Fields
      <3> QED
        BY <3>1, <3>2
    <2>2. CASE Refuse(c)
      BY <2>2, RefuseEffect DEF Follows
    <2>3. CASE Added(c)
      <3>1. \A d \in calls' \ calls :
                d = Request("connect", c.node, NoEntry, c.target)
        BY <2>3 DEF Added
      <3> QED
        BY <3>1, Requested DEF IsRequest, Kinds
    <2>4. CASE CutAnswered(c)
      <3>1. PICK es, r :
                calls' = (calls \ {c}) \cup {CutNext(c, e, r) : e \in es}
        BY <2>4 DEF CutAnswered
      <3> QED
        BY <1>0, <3>1, NextCut DEF Follows
    <2>5. CASE calls' = calls \ {c}
      BY <2>5
    <2>6. CASE FailsHalfway(c)
      <3>1. calls' = (calls \ {c}) \cup {[c EXCEPT !.state = "failed"]}
        BY <2>6 DEF FailsHalfway, Becomes
      <3>2. CallShape([c EXCEPT !.state = "failed"])
        BY <1>0 DEF CallShape, Fields
      <3> QED
        BY <3>1, <3>2
    <2> QED
      BY <2>1, <2>2, <2>3, <2>4, <2>5, <2>6 DEF Answers, Fail, RerouteAnswered,
         Connected, EntrySet, SettingsSaved, Deleted, Removed, Done
  <1> QED
    BY <1>1, <1>2, <1>3, <1>4, <1>5 DEF Shapes

-----------------------------------------------------------------------------
(* The nodes and the entry.                                                *)

LEMMA NodesInit == CanvasInit => NodesHold
  BY CanvasAssumption DEF CanvasInit, NodesHold, FreshNodes, OneDelete,
     NodesFollow, EntryFollows, SaveAlone, Standing, Pending

\* The calls that nodes and entry depend on.
Watched(c) ==
    c.kind \in {"entry", "save"} \cup Deletes \/ Pending(c, "add")

LEMMA Unwatched ==
    ASSUME NodesHold,
           rows'.nodes = rows.nodes, rows'.entry = rows.entry,
           graph'.nodes = graph.nodes, graph'.entry = graph.entry,
           drawn'.nodes = drawn.nodes, unused'.nodes \subseteq unused.nodes,
           \A c : Watched(c) => (c \in calls' <=> c \in calls),
           \A c \in calls : c.kind # "save"
    PROVE  NodesHold'
  <1>1. FreshNodes'
    BY DEF NodesHold, FreshNodes, Watched
  <1>2. OneDelete'
    BY DEF NodesHold, OneDelete, Watched
  <1>3. NodesFollow'
    BY DEF NodesHold, NodesFollow, Watched, Pending, Deletes
  <1>4. EntryFollows'
    BY DEF NodesHold, EntryFollows, Watched, Pending, Standing
  <1>5. SaveAlone'
    BY DEF SaveAlone, Watched
  <1> QED
    BY <1>1, <1>2, <1>3, <1>4, <1>5 DEF NodesHold

LEMMA GestureNodes ==
    ASSUME Shapes, NodesHold, Gestures, Sure'
    PROVE  NodesHold'
  <1>0. graph' = graph
    BY DEF Gestures, Reroute, Connect, AddAgent, ChooseEntry,
           SaveSettings, DeleteOnCanvas, DeleteEdgeOnCanvas, DeleteInPanel,
           ResetLayout
  <1>1. CASE Reroute \/ Connect \/ AddAgent \/ DeleteEdgeOnCanvas
    <2>1. /\ rows' = rows /\ unused' = unused
          /\ \A c \in calls : c.kind # "save"
      BY <1>1, NoClash DEF Reroute, Connect, AddAgent, DeleteEdgeOnCanvas,
                           Clashes
    <2>2. drawn'.nodes = drawn.nodes
      BY <1>1 DEF Shapes, Reroute, Connect, AddAgent, DeleteEdgeOnCanvas
    <2>3. PICK r : /\ calls' = calls \cup {r} /\ r.state = "sent"
                   /\ r.kind \in {"reroute", "connect", "add", "cut"}
      <3>1. CASE Reroute
        BY <3>1, RequestedWith DEF Reroute, Send, IsRequest
      <3>2. CASE Connect \/ AddAgent
        BY <3>2, Requested DEF Connect, AddAgent, Send, IsRequest, Kinds
      <3>3. CASE DeleteEdgeOnCanvas
        BY <3>3, RequestedWith DEF DeleteEdgeOnCanvas, Send, IsRequest
      <3> QED
        BY <1>1, <3>1, <3>2, <3>3
    <2>4. \A c : Watched(c) => (c \in calls' <=> c \in calls)
      BY <2>3 DEF Watched, Pending, Deletes
    <2> QED
      BY <1>0, <2>1, <2>2, <2>4, Unwatched
  <1>2. CASE ChooseEntry
    <2>1. PICK n, r :
              /\ n \in graph.nodes
              /\ calls' = calls \cup {r}
              /\ IsRequest(r, "entry", n, NoEntry, NoEntry)
      BY <1>2, Requested DEF ChooseEntry, Send, Kinds
    <2>2. /\ rows' = rows /\ unused' = unused /\ drawn' = drawn
          /\ \A c \in calls : c.kind \notin {"save", "entry"}
      BY <1>2, NoClash DEF ChooseEntry, Clashes
    <2>3. FreshNodes'
      BY <1>0, <2>1, <2>2 DEF NodesHold, FreshNodes, IsRequest
    <2>4. OneDelete' /\ SaveAlone'
      BY <1>0, <2>1, <2>2 DEF NodesHold, OneDelete, SaveAlone, IsRequest,
                              Deletes
    <2>5. NodesFollow'
      BY <1>0, <2>1, <2>2 DEF NodesHold, NodesFollow, IsRequest, Deletes,
                              Pending
    <2>6. EntryFollows'
      BY <1>0, <2>1, <2>2 DEF NodesHold, EntryFollows, IsRequest, Pending,
                              Standing
    <2> QED
      BY <2>3, <2>4, <2>5, <2>6 DEF NodesHold
  <1>3. CASE SaveSettings
    <2>1. PICK n, r : /\ calls' = calls \cup {r}
                      /\ IsRequest(r, "save", n, NoEntry, NoEntry)
      BY <1>3, Requested DEF SaveSettings, Send, Kinds
    <2>2. rows' = rows /\ unused' = unused /\ drawn' = drawn /\ calls = {}
      BY <1>3, NoClash DEF SaveSettings, Clashes
    <2>3. FreshNodes' /\ OneDelete' /\ SaveAlone'
      BY <1>0, <2>1, <2>2 DEF NodesHold, FreshNodes, OneDelete, SaveAlone,
                              IsRequest, Deletes
    <2>4. NodesFollow' /\ EntryFollows'
      BY <1>0, <2>1, <2>2 DEF NodesHold, NodesFollow, EntryFollows, IsRequest,
                              Deletes, Pending, Standing
    <2> QED
      BY <2>3, <2>4 DEF NodesHold
  <1>4. CASE DeleteOnCanvas \/ DeleteInPanel
    <2>1. /\ rows' = rows /\ unused' = unused
          /\ \A c \in calls : c.kind \notin {"save", "delete", "remove"}
      BY <1>4, NoClash DEF DeleteOnCanvas, DeleteInPanel, Clashes
    <2>2. PICK n, q, new :
              /\ n \in graph.nodes
              /\ calls' = calls \cup new /\ q \in new
              /\ \A c \in new \ {q} : c.kind = "cut"
              /\ q.node = n /\ q.kind \in Deletes /\ q.state = "sent"
              /\ drawn'.nodes = IF q.kind = "delete" THEN drawn.nodes \ {n}
                                ELSE drawn.nodes
      <3>1. CASE DeleteInPanel
        <4>1. PICK n \in graph.nodes :
                  calls' = calls \cup {Request("remove", n, NoEntry, NoEntry)}
          BY <3>1 DEF DeleteInPanel, Send
        <4>2. PICK q : /\ calls' = calls \cup {q}
                       /\ IsRequest(q, "remove", n, NoEntry, NoEntry)
          BY <4>1, Requested DEF Kinds
        <4>3. drawn' = drawn
          BY <3>1 DEF DeleteInPanel
        <4> QED
          BY <4>2, <4>3 DEF IsRequest, Deletes
      <3>2. CASE DeleteOnCanvas
        <4>1. PICK n, q, new :
                  /\ n \in drawn.nodes
                  /\ drawn'.nodes = drawn.nodes \ {n}
                  /\ calls' = calls \cup new
                  /\ IsRequest(q, "delete", n, NoEntry, NoEntry)
                  /\ q \in new /\ \A c \in new \ {q} : c.kind = "cut"
          <5>1. PICK n, q :
                    /\ n \in drawn.nodes
                    /\ drawn'.nodes = drawn.nodes \ {n}
                    /\ IsRequest(q, "delete", n, NoEntry, NoEntry)
                    /\ \/ calls' = calls \cup {q}
                       \/ \E e, c : /\ calls' = calls \cup {q, c}
                                    /\ IsRequest(c, "cut", NoEntry, e, NoEntry)
            BY <3>2, DeleteEffect
          <5>2. PICK new :
                    /\ calls' = calls \cup new /\ q \in new
                    /\ \A c \in new \ {q} : c.kind = "cut"
            <6>1. CASE calls' = calls \cup {q}
              BY <6>1
            <6>2. ASSUME NEW c, calls' = calls \cup {q, c}, c.kind = "cut"
                  PROVE  \E new :
                             /\ calls' = calls \cup new /\ q \in new
                             /\ \A d \in new \ {q} : d.kind = "cut"
              BY <6>2
            <6> QED
              BY <5>1, <6>1, <6>2 DEF IsRequest
          <5> QED
            BY <5>1, <5>2
        <4>2. n \in graph.nodes
          BY <4>1 DEF NodesHold, NodesFollow
        <4> QED
          BY <4>1, <4>2 DEF IsRequest, Deletes
      <3> QED
        BY <1>4, <3>1, <3>2
    <2>3. FreshNodes' /\ SaveAlone'
      BY <1>0, <2>1, <2>2 DEF NodesHold, FreshNodes, SaveAlone, Deletes
    <2>4. OneDelete'
      <3>1. n \in rows.nodes
        BY <2>1, <2>2 DEF NodesHold, NodesFollow, Deletes
      <3> QED
        BY <1>0, <2>1, <2>2, <3>1 DEF NodesHold, OneDelete, Deletes
    <2>5. NodesFollow'
      BY <1>0, <2>1, <2>2 DEF NodesHold, NodesFollow, Deletes, Pending
    <2>6. EntryFollows'
      BY <1>0, <2>1, <2>2 DEF NodesHold, EntryFollows, Pending, Standing,
                              Deletes
    <2> QED
      BY <2>3, <2>4, <2>5, <2>6 DEF NodesHold
  <1>5. CASE ResetLayout
    <2>1. /\ rows' = rows /\ unused' = unused /\ calls = {} /\ calls' = {}
          /\ drawn'.nodes = graph.nodes
      BY <1>5, NoClash DEF ResetLayout, Clashes
    <2> QED
      BY <1>0, <2>1 DEF NodesHold, FreshNodes, OneDelete, NodesFollow,
                        EntryFollows, SaveAlone, Pending, Standing
  <1> QED
    BY <1>1, <1>2, <1>3, <1>4, <1>5 DEF Gestures

LEMMA ServeNodes ==
    ASSUME Shapes, NodesHold, NEW c \in calls, Serve(c), Sure'
    PROVE  NodesHold'
  <1>0. CallShape(c)
    BY DEF Shapes
  <1>1. PICK id, d :
            /\ id \in NewId(c)
            /\ rows' = Effect(c, id)
            /\ unused' = [nodes |-> unused.nodes \ {id},
                          edges |-> unused.edges \ {id}]
            /\ calls' = (calls \ {c}) \cup {d}
            /\ Follows(d, c, {"edge", "target"}) /\ d.state = "ok"
            /\ d.edge = IF c.kind = "connect" THEN id ELSE c.edge
            /\ d.target = IF c.kind = "add" THEN id ELSE c.target
    BY ServeEffect
  <1>2. /\ graph' = graph /\ drawn' = drawn /\ c.state = "sent"
        /\ CanServe(c)
    BY ServeEffect
  <1>3. d.kind = c.kind /\ d.node = c.node /\ d.seen = c.seen
    BY <1>1 DEF Follows, Fields
  <1>4. /\ unused'.nodes = unused.nodes \ {id}
        /\ rows = [nodes |-> rows.nodes, edges |-> rows.edges,
                   entry |-> rows.entry]
    BY <1>1 DEF Shapes
  <1>5. CASE c.kind \in {"reroute", "cut", "connect"}
    <2>1. rows'.nodes = rows.nodes /\ rows'.entry = rows.entry
      <3>1. PICK es : rows' = [rows EXCEPT !.edges = es]
        <4>1. CASE c.kind = "reroute"
          BY <1>1, <4>1 DEF Effect
        <4>2. CASE c.kind = "cut"
          BY <1>1, <4>2 DEF Effect
        <4>3. CASE c.kind = "connect"
          BY <1>1, <4>3 DEF Effect
        <4> QED
          BY <1>5, <4>1, <4>2, <4>3
      <3> QED
        BY <1>4, <3>1
    <2>2. \A x : Watched(x) => (x \in calls' <=> x \in calls)
      BY <1>1, <1>3, <1>5 DEF Watched, Pending, Deletes
    <2>3. \A x \in calls : x.kind # "save"
      BY <1>5 DEF NodesHold, SaveAlone
    <2> QED
      BY <1>2, <1>4, <2>1, <2>2, <2>3, Unwatched
  <1>6. CASE c.kind = "add"
    <2>1. /\ id \in unused.nodes /\ rows'.nodes = rows.nodes \cup {id}
          /\ rows'.entry = rows.entry /\ d.target = id
          /\ rows.entry # id
      BY <1>1, <1>4, <1>6 DEF NewId, Effect, NodesHold, FreshNodes
    <2>2. \A x \in calls : x.kind # "save"
      BY <1>6 DEF NodesHold, SaveAlone
    <2>3. id \notin rows.nodes /\ id \notin graph.nodes
      BY <2>1 DEF NodesHold, FreshNodes
    <2>4. FreshNodes' /\ SaveAlone'
      BY <1>1, <1>2, <1>3, <1>4, <1>6, <2>1, <2>2
         DEF NodesHold, FreshNodes, SaveAlone
    <2>5. OneDelete'
      BY <1>1, <1>2, <1>3, <1>6, <2>1, <2>3 DEF NodesHold, OneDelete, Deletes
    <2>6. NodesFollow'
      <3>1. Pending(d, "add") /\ ~Pending(c, "add") /\ d.kind \notin Deletes
        BY <1>1, <1>2, <1>3, <1>6 DEF Pending, Deletes
      <3>2. /\ \A n \in (rows.nodes \ graph.nodes)' :
                   \E x \in calls' : Pending(x, "add") /\ x.target = n
            /\ \A x \in calls' : Pending(x, "add") =>
                   x.target \in (rows.nodes \ graph.nodes)'
            /\ \A x, y \in calls' : Pending(x, "add") /\ Pending(y, "add") =>
                   x = y \/ x.target # y.target
        BY <1>1, <1>2, <2>1, <2>3, <3>1 DEF NodesHold, NodesFollow
      <3>3. \A n \in (graph.nodes \ rows.nodes)' :
                \E x \in calls' :
                    x.kind \in Deletes /\ x.state = "ok" /\ x.node = n
        BY <1>1, <1>2, <2>1, <3>1 DEF NodesHold, NodesFollow
      <3>4. \A n \in (graph.nodes \ drawn.nodes)' :
                \E x \in calls' : x.kind = "delete" /\ x.node = n
        BY <1>1, <1>2, <1>6 DEF NodesHold, NodesFollow
      <3>5. (drawn.nodes \subseteq graph.nodes)'
        BY <1>2 DEF NodesHold, NodesFollow
      <3> QED
        BY <3>2, <3>3, <3>4, <3>5 DEF NodesFollow
    <2>7. EntryFollows'
      <3>0. Standing(rows.entry)' = Standing(rows.entry)
        BY <2>1 DEF Standing
      <3>1. Standing(graph.entry)' = Standing(graph.entry)
        BY <1>2, <2>1 DEF NodesHold, FreshNodes, Standing
      <3>2. \A x \in calls : x.kind = "entry" =>
                Standing(x.node)' = Standing(x.node)
        BY <2>1 DEF NodesHold, FreshNodes, Standing
      <3> QED
        BY <1>1, <1>3, <1>6, <2>1, <3>0, <3>1, <3>2
           DEF NodesHold, EntryFollows, Pending
    <2> QED
      BY <2>4, <2>5, <2>6, <2>7 DEF NodesHold
  <1>7. CASE c.kind = "entry"
    <2>1. rows'.nodes = rows.nodes /\ rows'.entry = c.node
      BY <1>1, <1>4, <1>7 DEF Effect
    <2>2. \A x \in calls : x.kind # "save"
      BY <1>7 DEF NodesHold, SaveAlone
    <2>3. FreshNodes' /\ SaveAlone'
      BY <1>1, <1>2, <1>3, <1>4, <1>7, <2>1, <2>2
         DEF NodesHold, FreshNodes, SaveAlone
    <2>4. OneDelete' /\ NodesFollow'
      BY <1>1, <1>2, <1>3, <1>7, <2>1
         DEF NodesHold, OneDelete, NodesFollow, Deletes, Pending
    <2>5. EntryFollows'
      BY <1>1, <1>2, <1>3, <1>7, <2>1
         DEF NodesHold, EntryFollows, Pending, Standing
    <2> QED
      BY <2>3, <2>4, <2>5 DEF NodesHold
  <1>8. CASE c.kind = "save"
    <2>1. rows' = rows /\ calls = {c} /\ calls' = {d} /\ d.seen = graph.edges
      BY <1>1, <1>3, <1>8 DEF Effect, NodesHold, SaveAlone
    <2> QED
      BY <1>2, <1>3, <1>4, <1>8, <2>1
         DEF NodesHold, FreshNodes, OneDelete, NodesFollow, EntryFollows,
             SaveAlone, Deletes, Pending, Standing
  <1>9. CASE c.kind \in Deletes
    <2>1. /\ rows'.nodes = rows.nodes \ {c.node}
          /\ rows'.entry = IF rows.entry = c.node THEN NoEntry ELSE rows.entry
          /\ c.node \in rows.nodes
      BY <1>1, <1>2, <1>9 DEF Effect, WithoutNode, CanServe, Deletes
    <2>2. \A x \in calls : x.kind # "save"
      BY <1>9 DEF NodesHold, SaveAlone, Deletes
    <2>3. FreshNodes' /\ SaveAlone'
      BY <1>1, <1>2, <1>3, <1>4, <1>9, <2>1, <2>2
         DEF NodesHold, FreshNodes, SaveAlone, Deletes
    <2>4. OneDelete'
      BY <1>1, <1>2, <1>3, <1>9, <2>1 DEF NodesHold, OneDelete
    <2>5. NodesFollow'
      <3>1. c.node \in graph.nodes
        BY <1>9 DEF NodesHold, OneDelete
      <3>2. /\ \A x : Pending(x, "add") => (x \in calls' <=> x \in calls)
            /\ \A x \in calls : Pending(x, "add") => x.target # c.node
        BY <1>1, <1>2, <1>3, <1>9, <3>1
           DEF NodesHold, NodesFollow, Pending, Deletes
      <3>3. d.kind \in Deletes /\ d.state = "ok" /\ d.node = c.node
        BY <1>1, <1>3, <1>9
      <3> QED
        BY <1>1, <1>2, <1>3, <2>1, <3>1, <3>2, <3>3
           DEF NodesHold, NodesFollow
    <2>6. NoEntry \notin rows.nodes
      BY DEF NodesHold, FreshNodes
    <2>7. EntryFollows'
      <3>1. \A x : x.kind = "entry" => (x \in calls' <=> x \in calls)
        BY <1>1, <1>3, <1>9 DEF Deletes
      <3>2. \A n : Standing(rows.entry) = Standing(n) =>
                       Standing(rows.entry)' = Standing(n)'
        BY <2>1, <2>6 DEF Standing
      <3> QED
        BY <1>2, <3>1, <3>2 DEF NodesHold, EntryFollows, Pending
    <2> QED
      BY <2>3, <2>4, <2>5, <2>7 DEF NodesHold
  <1> QED
    BY <1>0, <1>5, <1>6, <1>7, <1>8, <1>9 DEF CallShape, Kinds, Deletes

LEMMA RefuseNodes ==
    ASSUME Shapes, NodesHold, NEW c \in calls, Refuse(c)
    PROVE  NodesHold'
  <1>1. PICK d : /\ calls' = (calls \ {c}) \cup {d}
                 /\ Follows(d, c, {}) /\ d.state \in {"failed", "missing"}
    BY RefuseEffect
  <1>2. /\ rows' = rows /\ graph' = graph /\ drawn' = drawn
        /\ unused' = unused /\ c.state = "sent"
    BY RefuseEffect
  <1>3. d.kind = c.kind /\ d.node = c.node /\ d.seen = c.seen
    BY <1>1 DEF Follows, Fields
  <1>4. FreshNodes' /\ SaveAlone'
    BY <1>1, <1>2, <1>3 DEF NodesHold, FreshNodes, SaveAlone
  <1>5. OneDelete'
    BY <1>1, <1>2, <1>3 DEF NodesHold, OneDelete
  <1>6. NodesFollow'
    BY <1>1, <1>2, <1>3 DEF NodesHold, NodesFollow, Pending
  <1>7. EntryFollows'
    BY <1>1, <1>2, <1>3 DEF NodesHold, EntryFollows, Pending, Standing
  <1> QED
    BY <1>4, <1>5, <1>6, <1>7 DEF NodesHold

LEMMA AnswerNodes ==
    ASSUME Shapes, NodesHold, NEW c \in calls, Answers(c)
    PROVE  NodesHold'
  <1>0. CallShape(c)
    BY DEF Shapes
  <1>1. rows' = rows /\ unused' = unused
    BY DEF Answers, Fail, RerouteAnswered, Connected, Added, EntrySet,
           SettingsSaved, Deleted, Removed, CutAnswered, Settled
  <1>2. CASE \/ RerouteAnswered(c) \/ Connected(c) \/ CutAnswered(c)
             \/ Fail(c) /\ c.kind \in {"connect", "add"}
    <2>1. /\ c.kind \in {"reroute", "connect", "cut", "add"}
          /\ ~Watched(c) /\ \A x \in calls : x.kind # "save"
      BY <1>2 DEF RerouteAnswered, Connected, CutAnswered, Fail, Watched,
                  Deletes, Pending, NodesHold, SaveAlone
    <2>2. graph'.nodes = graph.nodes /\ graph'.entry = graph.entry
      BY <1>2 DEF RerouteAnswered, Connected, CutAnswered, Fail, Shapes
    <2>3. drawn'.nodes = drawn.nodes
      <3>1. CASE RerouteAnswered(c)
        BY <3>1 DEF RerouteAnswered, Shapes
      <3>2. CASE Connected(c)
        BY <3>2 DEF Connected, Shapes
      <3>3. CASE CutAnswered(c)
        BY <3>3 DEF CutAnswered, Shapes
      <3>4. CASE Fail(c) /\ c.kind \in {"connect", "add"}
        BY <3>4 DEF Fail
      <3> QED
        BY <1>2, <3>1, <3>2, <3>3, <3>4
    <2>4. \A x : Watched(x) => (x \in calls' <=> x \in calls)
      <3>1. CASE CutAnswered(c)
        <4>1. PICK es, r :
                  calls' = (calls \ {c}) \cup {CutNext(c, e, r) : e \in es}
          BY <3>1 DEF CutAnswered
        <4>2. c.kind = "cut"
          BY <3>1 DEF CutAnswered
        <4>3. \A e : CutNext(c, e, r).kind = "cut"
          BY <1>0, <4>2, NextCut DEF Follows, Fields
        <4> QED
          BY <4>1, <4>2, <4>3 DEF Watched, Pending, Deletes
      <3>2. CASE calls' = calls \ {c}
        BY <2>1, <3>2
      <3> QED
        BY <1>2, <3>1, <3>2 DEF RerouteAnswered, Connected, Fail, Done
    <2> QED
      BY <1>1, <2>1, <2>2, <2>3, <2>4, Unwatched
  <1>3. CASE Fail(c) /\ c.kind \in {"entry", "save"}
    <2>1. graph' = graph /\ drawn' = drawn /\ calls' = calls \ {c}
      BY <1>3 DEF Fail, Done
    <2>2. c.state = "failed"
      BY <1>3 DEF Fail
    <2>3. FreshNodes' /\ OneDelete' /\ SaveAlone'
      BY <1>1, <2>1 DEF NodesHold, FreshNodes, OneDelete, SaveAlone
    <2>4. NodesFollow'
      BY <1>1, <1>3, <2>1, <2>2 DEF NodesHold, NodesFollow, Pending, Deletes
    <2>5. EntryFollows'
      BY <1>1, <2>1, <2>2 DEF NodesHold, EntryFollows, Pending, Standing
    <2> QED
      BY <2>3, <2>4, <2>5 DEF NodesHold
  <1>4. CASE Fail(c) /\ c.kind \in Deletes
    <2>1. /\ graph' = graph /\ calls' = calls \ {c} /\ c.state = "failed"
          /\ drawn'.nodes = IF c.kind = "delete"
                            THEN drawn.nodes \cup {c.node} ELSE drawn.nodes
      BY <1>4 DEF Fail, Done, Shapes
    <2>2. \A x \in calls : x.kind # "save"
      BY <1>4 DEF NodesHold, SaveAlone, Deletes
    <2>3. FreshNodes' /\ OneDelete' /\ SaveAlone'
      BY <1>1, <1>4, <2>1, <2>2
         DEF NodesHold, FreshNodes, OneDelete, SaveAlone
    <2>4. NodesFollow'
      BY <1>1, <1>4, <2>1
         DEF NodesHold, NodesFollow, OneDelete, Pending, Deletes
    <2>5. EntryFollows'
      BY <1>1, <1>4, <2>1
         DEF NodesHold, EntryFollows, Pending, Standing, Deletes
    <2> QED
      BY <2>3, <2>4, <2>5 DEF NodesHold
  <1>5. CASE Added(c)
    <2>1. /\ graph'.nodes = graph.nodes \cup {c.target}
          /\ graph'.entry = graph.entry
          /\ drawn'.nodes = drawn.nodes \cup {c.target}
          /\ Pending(c, "add")
      BY <1>5 DEF Added, Shapes, Pending
    <2>2. /\ calls \ {c} \subseteq calls'
          /\ \A x \in calls' : x \in calls \ {c} \/ x.kind = "connect"
      BY <1>5, Requested DEF Added, IsRequest, Kinds
    <2>3. \A x \in calls : x.kind # "save"
      BY <2>1 DEF NodesHold, SaveAlone, Pending
    <2>4. c.target \in rows.nodes \ graph.nodes
      BY <2>1 DEF NodesHold, NodesFollow
    <2>5. FreshNodes'
      BY <1>1, <2>1, <2>2, <2>4 DEF NodesHold, FreshNodes
    <2>6. OneDelete' /\ SaveAlone'
      BY <1>1, <2>1, <2>2, <2>3, <2>4
         DEF NodesHold, OneDelete, SaveAlone, Deletes, Pending
    <2>7. NodesFollow'
      <3>1. \A x \in calls' : Pending(x, "add") => x \in calls /\ x # c
        BY <2>2 DEF Pending
      <3>2. \A x \in calls : x # c => x \in calls'
        BY <2>2
      <3> QED
        BY <1>1, <2>1, <2>2, <2>4, <3>1, <3>2
           DEF NodesHold, NodesFollow, Pending, Deletes
    <2>8. EntryFollows'
      BY <1>1, <2>1, <2>2 DEF NodesHold, EntryFollows, Pending, Standing
    <2> QED
      BY <2>5, <2>6, <2>7, <2>8 DEF NodesHold
  <1>6. CASE EntrySet(c)
    <2>1. /\ graph'.nodes = graph.nodes /\ graph'.entry = c.node
          /\ drawn' = drawn /\ calls' = calls \ {c} /\ Pending(c, "entry")
      BY <1>6 DEF EntrySet, Done, Shapes, Pending
    <2>2. \A x \in calls : x.kind # "save"
      BY <2>1 DEF NodesHold, SaveAlone, Pending
    <2>3. FreshNodes' /\ OneDelete' /\ SaveAlone'
      BY <1>1, <2>1, <2>2
         DEF NodesHold, FreshNodes, OneDelete, SaveAlone, Pending
    <2>4. NodesFollow'
      BY <1>1, <2>1 DEF NodesHold, NodesFollow, Pending, Deletes
    <2>5. EntryFollows'
      BY <1>1, <2>1 DEF NodesHold, EntryFollows, Pending, Standing
    <2> QED
      BY <2>3, <2>4, <2>5 DEF NodesHold
  <1>7. CASE SettingsSaved(c)
    <2>1. /\ graph'.nodes = graph.nodes /\ graph'.entry = graph.entry
          /\ drawn'.nodes = drawn.nodes
          /\ calls' = calls \ {c} /\ c.kind = "save"
      BY <1>7 DEF SettingsSaved, Done, Shapes
    <2>2. calls = {c} /\ calls' = {}
      BY <2>1 DEF NodesHold, SaveAlone
    <2> QED
      BY <1>1, <2>1, <2>2
         DEF NodesHold, FreshNodes, OneDelete, NodesFollow, EntryFollows,
             SaveAlone, Deletes, Pending, Standing
  <1>8. CASE Deleted(c) \/ Removed(c)
    <2>1. /\ graph'.nodes = graph.nodes \ {c.node}
          /\ graph'.entry = IF graph.entry = c.node THEN NoEntry
                            ELSE graph.entry
          /\ drawn'.nodes = IF c.kind = "remove" THEN drawn.nodes \ {c.node}
                            ELSE drawn.nodes
          /\ calls' = calls \ {c} /\ c.kind \in Deletes /\ c.state = "ok"
      BY <1>8 DEF Deleted, Removed, Done, WithoutNode, Deletes
    <2>2. \A x \in calls : x.kind # "save"
      BY <2>1 DEF NodesHold, SaveAlone, Deletes
    <2>3. /\ c.node \notin rows.nodes
          /\ \A x \in calls' : x.kind \notin Deletes
          /\ c.kind = "delete" => c.node \notin drawn.nodes
      BY <2>1 DEF NodesHold, OneDelete
    <2>4. FreshNodes' /\ OneDelete' /\ SaveAlone'
      BY <1>1, <2>1, <2>2, <2>3
         DEF NodesHold, FreshNodes, OneDelete, SaveAlone
    <2>5. NodesFollow'
      BY <1>1, <2>1, <2>3
         DEF NodesHold, NodesFollow, OneDelete, Pending, Deletes
    <2>6. EntryFollows'
      BY <1>1, <2>1, <2>3
         DEF NodesHold, EntryFollows, FreshNodes, Pending, Standing, Deletes
    <2> QED
      BY <2>4, <2>5, <2>6 DEF NodesHold
  <1> QED
    BY <1>0, <1>2, <1>3, <1>4, <1>5, <1>6, <1>7, <1>8
       DEF Answers, Fail, CallShape, Kinds, Deletes

-----------------------------------------------------------------------------
(* The edges.                                                              *)

\* g is f without S, or with x leading along v.
Sub(g, f, S) ==
    DOMAIN g = DOMAIN f \ S /\ \A e \in DOMAIN g : g[e] = f[e]
Plus(g, f, x, v) ==
    /\ DOMAIN g = DOMAIN f \cup {x} /\ g[x] = v
    /\ \A e \in DOMAIN f \ {x} : g[e] = f[e]

LEMMA WithoutIsSub ==
    ASSUME NEW f, NEW S
    PROVE  Sub(Without(f, S), f, S) /\ Sub(f, f, {})
  BY DEF Without, Restrict, Sub

LEMMA WithIsPlus ==
    ASSUME NEW f, NEW x, NEW v
    PROVE  Plus(With(f, x, v), f, x, v)
  BY DEF With, Plus

LEMMA Restricted ==
    ASSUME NEW f, NEW S, S \subseteq DOMAIN f
    PROVE  /\ DOMAIN Restrict(f, S) = S
           /\ \A e \in S : Restrict(f, S)[e] = f[e]
  BY DEF Restrict

LEMMA KnownShrinks ==
    ASSUME OneEdgePerId, unused'.edges \subseteq unused.edges,
           unused'.nodes \subseteq unused.nodes,
           \A e, v : Known(e, v)' => Known(e, v)
    PROVE  OneEdgePerId'
  BY DEF OneEdgePerId

LEMMA EdgesInit == CanvasInit => EdgesHold
  <1> SUFFICES ASSUME CanvasInit PROVE EdgesHold
    OBVIOUS
  <1>1. /\ calls = {} /\ rows.edges = FirstEdges /\ graph.edges = FirstEdges
        /\ drawn.edges = FirstEdges /\ rows.nodes = FirstNodes
        /\ unused.nodes = CanvasNodes \ FirstNodes
        /\ unused.edges = CanvasEdges \ DOMAIN FirstEdges
    BY DEF CanvasInit
  <1>2. \A e \in DOMAIN FirstEdges :
            FirstEdges[e].source \in FirstNodes
            /\ FirstEdges[e].target \in FirstNodes
    BY CanvasAssumption
  <1>3. OneEdgePerId
    BY <1>1, <1>2 DEF OneEdgePerId, Known
  <1> QED
    BY <1>1, <1>2, <1>3 DEF EdgesHold, EdgesFollow, CutsApart, ConnectsApart,
                            Gone

\* The calls that edges depend on.
Linking(c) == c.kind = "cut" \/ Pending(c, "connect")

LEMMA Unlinked ==
    ASSUME EdgesHold, \A c \in calls' : c.kind # "reroute",
           Sub(rows'.edges, rows.edges, {}),
           Sub(graph'.edges, graph.edges, {}),
           Sub(drawn'.edges, drawn.edges, {}),
           rows.nodes \subseteq rows'.nodes,
           rows'.nodes \subseteq rows.nodes \cup unused.nodes,
           unused'.nodes \subseteq unused.nodes,
           unused'.edges \subseteq unused.edges,
           \A c : Linking(c) => (c \in calls' <=> c \in calls)
    PROVE  EdgesHold'
  <1>1. \A e, v : Known(e, v)' => Known(e, v)
    BY DEF Known, Linking, Sub
  <1>2. OneEdgePerId'
    BY <1>1, KnownShrinks DEF EdgesHold
  <1>3. \A e, v : Known(e, v) => Gone(v)' = Gone(v)
    BY DEF EdgesHold, OneEdgePerId, Gone
  <1>4. EdgesFollow'
    <2>1. \A e \in DOMAIN rows.edges :
              Gone(rows.edges[e])' = Gone(rows.edges[e])
      BY <1>3 DEF Known, Sub, Gone
    <2>2. \A e \in DOMAIN graph.edges :
              Gone(graph.edges[e])' = Gone(graph.edges[e])
      BY <1>3 DEF Known, Sub, Gone
    <2>3. \A e \in DOMAIN drawn.edges :
              Gone(drawn.edges[e])' = Gone(drawn.edges[e])
      BY <1>3 DEF Known, Sub, Gone
    <2> QED
      BY <2>1, <2>2, <2>3 DEF EdgesHold, EdgesFollow, Linking, IsCut, Sub
  <1>5. CutsApart'
    <2>1. \A c \in calls : c.kind = "cut" =>
              \A e \in DOMAIN c.rest : Gone(c.rest[e])' = Gone(c.rest[e])
      BY <1>3 DEF Known
    <2> QED
      BY <2>1 DEF EdgesHold, CutsApart, Linking, IsCut, Sub
  <1>6. ConnectsApart'
    <2>1. \A c \in calls : Pending(c, "connect") =>
              Gone(EndsOf(c))' = Gone(EndsOf(c))
      BY <1>3 DEF Known
    <2> QED
      BY <2>1 DEF EdgesHold, ConnectsApart, Linking, Sub
  <1> QED
    BY <1>2, <1>4, <1>5, <1>6 DEF EdgesHold

LEMMA CutSent ==
    ASSUME EdgesHold, rows' = rows, graph' = graph, unused' = unused,
           NEW cut, cut \subseteq DOMAIN drawn.edges,
           Sub(drawn'.edges, drawn.edges, cut),
           NEW k, k.kind = "cut", k.state = "sent", k.edge \in cut,
           DOMAIN k.rest = cut, \A e \in cut : k.rest[e] = drawn.edges[e],
           k \in calls', calls \subseteq calls',
           \A c \in calls' : c \in calls \/ c = k \/ c.kind = "delete"
    PROVE  EdgesHold'
  <1>1. \A e, v : Known(e, v)' => Known(e, v)
    BY DEF Known, Sub, Pending
  <1>2. OneEdgePerId'
    BY <1>1, KnownShrinks DEF EdgesHold
  <1>3. EdgesFollow'
    BY DEF EdgesHold, EdgesFollow, Sub, Pending, IsCut, Gone
  <1>4. CutsApart'
    <2>1. \A c \in calls : c.kind = "cut" =>
              \A e \in DOMAIN c.rest : e \notin cut
      BY DEF EdgesHold, CutsApart
    <2>2. \A e \in cut : e \in DOMAIN rows.edges \/ Gone(k.rest[e])
      BY DEF EdgesHold, EdgesFollow
    <2> QED
      BY <2>1, <2>2 DEF EdgesHold, CutsApart, Sub, IsCut, Gone
  <1>5. ConnectsApart'
    BY DEF EdgesHold, ConnectsApart, Sub, Pending, Gone
  <1> QED
    BY <1>2, <1>3, <1>4, <1>5 DEF EdgesHold

LEMMA GestureEdges ==
    ASSUME Shapes, NodesHold, EdgesHold, Gestures, Sure', doubt' = {}
    PROVE  EdgesHold'
  <1>0. graph' = graph /\ rows' = rows /\ unused' = unused
    BY DEF Gestures, Gesture, Reroute, Connect, AddAgent, ChooseEntry,
           SaveSettings, DeleteOnCanvas, DeleteEdgeOnCanvas, DeleteInPanel,
           ResetLayout
  <1>1. ~Reroute
    BY DEF Reroute, Gesture
  <1>2. CASE \/ Connect \/ AddAgent \/ ChooseEntry \/ SaveSettings
             \/ DeleteInPanel
    <2>0. PICK k \in {"connect", "add", "entry", "save", "remove"} :
              \E n, t : Send({Request(k, n, NoEntry, t)})
      BY <1>2, FormSends
    <2>1. PICK n, t : calls' = calls \cup {Request(k, n, NoEntry, t)}
      BY <2>0 DEF Send
    <2>2. PICK r : r = Request(k, n, NoEntry, t)
      OBVIOUS
    <2>3. r.kind = k /\ r.state = "sent"
      BY <2>0, <2>2, Requested DEF IsRequest, Kinds
    <2>4. drawn' = drawn
      BY <1>2 DEF Connect, AddAgent, ChooseEntry, SaveSettings, DeleteInPanel
    <2>5. /\ \A c : Linking(c) => (c \in calls' <=> c \in calls)
          /\ \A c \in calls' : c.kind # "reroute"
      BY <2>0, <2>1, <2>2, <2>3 DEF Linking, Pending, EdgesHold
    <2> QED
      BY <1>0, <2>4, <2>5, Unlinked, WithoutIsSub
  <1>3. CASE DeleteOnCanvas
    <2>1. PICK n, q :
              n \in drawn.nodes /\
              LET cut == EdgesAt(drawn.edges, n)
              IN  /\ drawn' = [nodes |-> drawn.nodes \ {n},
                               edges |-> Without(drawn.edges, cut)]
                  /\ IsRequest(q, "delete", n, NoEntry, NoEntry)
                  /\ \/ cut = {} /\ calls' = calls \cup {q}
                     \/ \E e \in cut : \E c :
                           /\ calls' = calls \cup {q, c}
                           /\ IsRequest(c, "cut", NoEntry, e, NoEntry)
                           /\ c.rest = Restrict(drawn.edges, cut)
      BY <1>3, DeleteEffect
    <2> DEFINE cut == EdgesAt(drawn.edges, n)
    <2>2. Sub(drawn'.edges, drawn.edges, cut)
      BY <2>1, WithoutIsSub
    <2>3. cut \subseteq DOMAIN drawn.edges
      BY DEF EdgesAt
    <2>4. CASE cut = {} /\ calls' = calls \cup {q}
      <3>1. /\ \A c : Linking(c) => (c \in calls' <=> c \in calls)
            /\ \A c \in calls' : c.kind # "reroute"
        BY <2>1, <2>4 DEF Linking, Pending, EdgesHold, IsRequest
      <3> HIDE DEF cut
      <3> QED
        BY <1>0, <2>2, <2>4, <3>1, Unlinked, WithoutIsSub
    <2>5. ASSUME NEW e \in cut, NEW c, calls' = calls \cup {q, c},
                 IsRequest(c, "cut", NoEntry, e, NoEntry),
                 c.rest = Restrict(drawn.edges, cut)
          PROVE  EdgesHold'
      <3> HIDE DEF cut
      <3>1. DOMAIN c.rest = cut /\ \A x \in cut : c.rest[x] = drawn.edges[x]
        BY <2>3, <2>5, Restricted
      <3>2. c.kind = "cut" /\ c.state = "sent" /\ c.edge = e
            /\ q.kind = "delete"
        BY <2>1, <2>5 DEF IsRequest
      <3> QED
        BY <1>0, <2>2, <2>3, <2>5, <3>1, <3>2, CutSent
    <2> QED
      BY <2>1, <2>4, <2>5
  <1>4. CASE DeleteEdgeOnCanvas
    <2>1. PICK e, k :
              /\ e \in DOMAIN drawn.edges
              /\ drawn' = [drawn EXCEPT !.edges = Without(@, {e})]
              /\ calls' = calls \cup {k}
              /\ k = CutFirst(e, Restrict(drawn.edges, {e}))
      BY <1>4 DEF DeleteEdgeOnCanvas, Send
    <2>2. Sub(drawn'.edges, drawn.edges, {e})
      BY <2>1, WithoutIsSub DEF Shapes
    <2>3. /\ k.kind = "cut" /\ k.state = "sent" /\ k.edge = e
          /\ k.rest = Restrict(drawn.edges, {e})
      BY <2>1, RequestedWith DEF IsRequest
    <2>4. /\ DOMAIN k.rest = {e}
          /\ \A x \in {e} : k.rest[x] = drawn.edges[x]
      <3>1. {e} \subseteq DOMAIN drawn.edges
        BY <2>1
      <3> QED
        BY <2>3, <3>1, Restricted
    <2> QED
      BY <1>0, <2>1, <2>2, <2>3, <2>4, CutSent
  <1>5. CASE ResetLayout
    <2>1. calls = {} /\ calls' = {} /\ drawn'.edges = graph.edges
      BY <1>5, NoClash DEF ResetLayout, Clashes
    <2>2. \A e, v : Known(e, v)' => Known(e, v)
      BY <1>0, <2>1 DEF Known
    <2>3. OneEdgePerId'
      BY <1>0, <2>2, KnownShrinks DEF EdgesHold
    <2>4. EdgesFollow'
      BY <1>0, <2>1 DEF EdgesHold, EdgesFollow, Gone
    <2> QED
      BY <2>1, <2>3, <2>4 DEF EdgesHold, CutsApart, ConnectsApart
  <1> QED
    BY <1>1, <1>2, <1>3, <1>4, <1>5 DEF Gestures

LEMMA ServeEdges ==
    ASSUME Shapes, NodesHold, EdgesHold, NEW c \in calls, Serve(c), Sure'
    PROVE  EdgesHold'
  <1>0. CallShape(c) /\ c.kind # "reroute"
    BY DEF Shapes, EdgesHold
  <1>1. PICK id, d :
            /\ id \in NewId(c)
            /\ rows' = Effect(c, id)
            /\ unused' = [nodes |-> unused.nodes \ {id},
                          edges |-> unused.edges \ {id}]
            /\ calls' = (calls \ {c}) \cup {d}
            /\ Follows(d, c, {"edge", "target"}) /\ d.state = "ok"
            /\ d.edge = IF c.kind = "connect" THEN id ELSE c.edge
            /\ d.target = IF c.kind = "add" THEN id ELSE c.target
    BY ServeEffect
  <1>2. /\ graph' = graph /\ drawn' = drawn /\ c.state = "sent"
        /\ CanServe(c)
    BY ServeEffect
  <1>3. d.kind = c.kind /\ d.node = c.node /\ d.rest = c.rest
    BY <1>1 DEF Follows, Fields
  <1>4. /\ unused'.nodes = unused.nodes \ {id}
        /\ unused'.edges = unused.edges \ {id}
        /\ rows = [nodes |-> rows.nodes, edges |-> rows.edges,
                   entry |-> rows.entry]
        /\ \A x \in calls' : x.kind # "reroute"
    BY <1>0, <1>1, <1>3 DEF Shapes, EdgesHold
  <1>5. CASE c.kind \in {"add", "entry", "save"}
    <2>1. /\ rows'.edges = rows.edges /\ rows.nodes \subseteq rows'.nodes
          /\ rows'.nodes \subseteq rows.nodes \cup unused.nodes
      <3>1. CASE c.kind = "add"
        BY <1>1, <1>4, <3>1 DEF Effect, NewId
      <3>2. CASE c.kind = "entry"
        BY <1>1, <1>4, <3>2 DEF Effect
      <3>3. CASE c.kind = "save"
        BY <1>1, <3>3 DEF Effect
      <3> QED
        BY <1>5, <3>1, <3>2, <3>3
    <2>2. \A x : Linking(x) => (x \in calls' <=> x \in calls)
      BY <1>1, <1>3, <1>5 DEF Linking, Pending
    <2> QED
      BY <1>2, <1>4, <2>1, <2>2, Unlinked, WithoutIsSub
  <1>6. CASE c.kind = "cut"
    <2>1. /\ rows'.nodes = rows.nodes /\ Sub(rows'.edges, rows.edges, {c.edge})
          /\ d.edge = c.edge /\ c.edge \in DOMAIN rows.edges
      <3>1. rows' = [rows EXCEPT !.edges = Without(rows.edges, {c.edge})]
        BY <1>1, <1>6 DEF Effect
      <3>2. /\ rows'.nodes = rows.nodes
            /\ rows'.edges = Without(rows.edges, {c.edge})
        BY <1>4, <3>1
      <3> QED
        BY <1>1, <1>2, <1>6, <3>2, WithoutIsSub DEF CanServe
    <2>2. \A e, v : Known(e, v)' => Known(e, v)
      BY <1>1, <1>2, <1>3, <1>6, <2>1 DEF Known, Sub, Pending, EndsOf
    <2>3. OneEdgePerId'
      BY <1>4, <2>2, KnownShrinks DEF EdgesHold
    <2>4. /\ c.edge \in DOMAIN c.rest /\ c.edge \notin DOMAIN drawn.edges
          /\ \A x \in calls : x.kind = "cut" /\ c.edge \in DOMAIN x.rest =>
                x = c
      BY <1>6 DEF EdgesHold, CutsApart
    <2>5. IsCut(d) /\ ~IsCut(c) /\ ~Pending(d, "connect")
          /\ ~Pending(c, "connect")
      BY <1>1, <1>2, <1>3, <1>6 DEF IsCut, Pending
    <2>6. EdgesFollow'
      <3>1. \A e \in DOMAIN rows'.edges : ~Gone(rows.edges[e])'
        BY <2>1 DEF EdgesHold, EdgesFollow, Sub, Gone
      <3>2. \A e \in DOMAIN rows'.edges \ DOMAIN graph'.edges :
                \E x \in calls' : Pending(x, "connect") /\ x.edge = e
        BY <1>1, <1>2, <2>1, <2>5 DEF EdgesHold, EdgesFollow, Sub
      <3>3. \A e \in DOMAIN graph'.edges \ DOMAIN rows'.edges :
                \/ Gone(graph.edges[e])'
                \/ \E x \in calls' : IsCut(x) /\ x.edge = e
        BY <1>1, <1>2, <2>1, <2>5 DEF EdgesHold, EdgesFollow, Sub, Gone
      <3>4. \A e \in DOMAIN drawn'.edges \ DOMAIN rows'.edges :
                Gone(drawn.edges[e])'
        BY <1>2, <2>1, <2>4 DEF EdgesHold, EdgesFollow, Sub, Gone
      <3>5. \A e \in DOMAIN rows'.edges \ DOMAIN drawn'.edges :
                \/ \E x \in calls' : Pending(x, "connect") /\ x.edge = e
                \/ \E x \in calls' : x.kind = "cut" /\ e \in DOMAIN x.rest
        BY <1>1, <1>2, <1>3, <1>6, <2>1, <2>5 DEF EdgesHold, EdgesFollow, Sub
      <3> QED
        BY <3>1, <3>2, <3>3, <3>4, <3>5 DEF EdgesFollow
    <2>7. CutsApart'
      BY <1>1, <1>2, <1>3, <1>6, <2>1, <2>4, <2>5
         DEF EdgesHold, CutsApart, Sub, Gone, IsCut
    <2>8. ConnectsApart'
      BY <1>1, <1>2, <1>3, <1>6, <2>1, <2>4, <2>5
         DEF EdgesHold, ConnectsApart, Sub, Gone, EndsOf
    <2> QED
      BY <1>4, <2>3, <2>6, <2>7, <2>8 DEF EdgesHold
  <1>7. CASE c.kind = "connect"
    <2>1. /\ rows'.nodes = rows.nodes
          /\ Plus(rows'.edges, rows.edges, id,
                  [source |-> c.node, target |-> c.target])
          /\ d.edge = id /\ d.target = c.target /\ id \in unused.edges
          /\ {c.node, c.target} \subseteq rows.nodes
      <3>1. rows' = [rows EXCEPT !.edges = With(rows.edges, id,
                         [source |-> c.node, target |-> c.target])]
        BY <1>1, <1>7 DEF Effect
      <3>2. /\ rows'.nodes = rows.nodes
            /\ rows'.edges = With(rows.edges, id,
                                  [source |-> c.node, target |-> c.target])
        BY <1>4, <3>1
      <3> QED
        BY <1>1, <1>2, <1>7, <3>2, WithIsPlus DEF CanServe, NewId
    <2>2. PICK w : w = [source |-> c.node, target |-> c.target]
      OBVIOUS
    <2>3. w = EndsOf(d) /\ w.source = c.node /\ w.target = c.target
      BY <1>3, <2>1, <2>2 DEF EndsOf
    <2>4. Pending(d, "connect") /\ ~Pending(c, "connect") /\ d.kind # "cut"
          /\ c.kind # "cut"
      BY <1>1, <1>2, <1>3, <1>7 DEF Pending
    <2>5. \A v : ~Known(id, v)
      BY <2>1 DEF EdgesHold, OneEdgePerId
    <2>6. \A e, v : Known(e, v)' => Known(e, v) \/ (e = id /\ v = w)
      BY <1>1, <1>2, <2>1, <2>2, <2>3, <2>4 DEF Known, Plus, EndsOf
    <2>7. OneEdgePerId'
      <3>1. w.source \notin unused.nodes /\ w.target \notin unused.nodes
        BY <2>1, <2>3 DEF NodesHold, FreshNodes
      <3> QED
        BY <1>4, <2>5, <2>6, <3>1 DEF EdgesHold, OneEdgePerId
    <2>8. /\ id \notin DOMAIN rows.edges /\ id \notin DOMAIN graph.edges
          /\ id \notin DOMAIN drawn.edges
          /\ \A x \in calls : x.kind = "cut" => id \notin DOMAIN x.rest
          /\ \A x \in calls : Pending(x, "connect") => x.edge # id
      BY <2>5 DEF Known
    <2>9. EdgesFollow'
      <3>1. \A e \in DOMAIN rows'.edges : ~Gone(rows.edges[e])'
        BY <2>1, <2>2, <2>3 DEF EdgesHold, EdgesFollow, Plus, Gone
      <3>2. \A e \in DOMAIN rows'.edges \ DOMAIN graph'.edges :
                \E x \in calls' : Pending(x, "connect") /\ x.edge = e
        BY <1>1, <1>2, <2>1, <2>4 DEF EdgesHold, EdgesFollow, Plus
      <3>3. \A e \in DOMAIN graph'.edges \ DOMAIN rows'.edges :
                \/ Gone(graph.edges[e])'
                \/ \E x \in calls' : IsCut(x) /\ x.edge = e
        BY <1>1, <1>2, <2>1, <2>4 DEF EdgesHold, EdgesFollow, Plus, Gone,
                                      IsCut
      <3>4. \A e \in DOMAIN drawn'.edges \ DOMAIN rows'.edges :
                Gone(drawn.edges[e])'
        BY <1>2, <2>1 DEF EdgesHold, EdgesFollow, Plus, Gone
      <3>5. \A e \in DOMAIN rows'.edges \ DOMAIN drawn'.edges :
                \/ \E x \in calls' : Pending(x, "connect") /\ x.edge = e
                \/ \E x \in calls' : x.kind = "cut" /\ e \in DOMAIN x.rest
        BY <1>1, <1>2, <2>1, <2>4 DEF EdgesHold, EdgesFollow, Plus
      <3> QED
        BY <3>1, <3>2, <3>3, <3>4, <3>5 DEF EdgesFollow
    <2>10. CutsApart'
      BY <1>1, <1>2, <2>1, <2>4, <2>8
         DEF EdgesHold, CutsApart, Plus, Gone, IsCut
    <2>11. ConnectsApart'
      <3>1. \A x \in calls' : Pending(x, "connect") => x = d \/ x \in calls
        BY <1>1
      <3> QED
        BY <1>1, <1>2, <2>1, <2>3, <2>4, <2>8, <3>1
           DEF EdgesHold, ConnectsApart, Plus, Gone, EndsOf
    <2> QED
      BY <1>4, <2>7, <2>9, <2>10, <2>11 DEF EdgesHold
  <1>8. CASE c.kind \in Deletes
    <2>1. /\ rows'.nodes = rows.nodes \ {c.node}
          /\ Sub(rows'.edges, rows.edges, EdgesAt(rows.edges, c.node))
      <3>1. rows' = WithoutNode(rows, c.node)
        BY <1>1, <1>8 DEF Effect, Deletes
      <3>2. /\ rows'.nodes = rows.nodes \ {c.node}
            /\ rows'.edges = Without(rows.edges, EdgesAt(rows.edges, c.node))
        BY <3>1 DEF WithoutNode
      <3> QED
        BY <3>2, WithoutIsSub
    <2>2. \A x : Linking(x) => (x \in calls' <=> x \in calls)
      BY <1>1, <1>3, <1>8 DEF Linking, Pending, Deletes
    <2>3. \A e, v : Known(e, v)' => Known(e, v)
      BY <1>2, <2>1, <2>2 DEF Known, Sub, Linking
    <2>4. OneEdgePerId'
      BY <1>4, <2>3, KnownShrinks DEF EdgesHold
    <2>5. \A v : Gone(v) => Gone(v)'
      BY <2>1 DEF Gone
    <2>6. \A e, v : Known(e, v) /\ e \in DOMAIN rows.edges
                    /\ e \notin DOMAIN rows'.edges => Gone(v)'
      <3> SUFFICES ASSUME NEW e, NEW v, Known(e, v), e \in DOMAIN rows.edges,
                          e \notin DOMAIN rows'.edges
                   PROVE  Gone(v)'
        OBVIOUS
      <3>1. v = rows.edges[e]
        BY DEF EdgesHold, OneEdgePerId, Known
      <3>2. e \in EdgesAt(rows.edges, c.node)
        BY <2>1 DEF Sub
      <3> QED
        BY <2>1, <3>1, <3>2 DEF EdgesAt, Gone
    <2>7. EdgesFollow'
      <3>1. \A e \in DOMAIN rows'.edges : ~Gone(rows.edges[e])'
        BY <2>1 DEF EdgesHold, EdgesFollow, Sub, Gone, EdgesAt
      <3>2. \A e \in DOMAIN rows'.edges \ DOMAIN graph'.edges :
                \E x \in calls' : Pending(x, "connect") /\ x.edge = e
        BY <1>2, <2>1, <2>2 DEF EdgesHold, EdgesFollow, Sub, Linking
      <3>3. \A e \in DOMAIN graph'.edges \ DOMAIN rows'.edges :
                \/ Gone(graph.edges[e])'
                \/ \E x \in calls' : IsCut(x) /\ x.edge = e
        <4>1. \A e \in DOMAIN graph.edges : Known(e, graph.edges[e])
          BY DEF Known
        <4> QED
          BY <1>2, <2>2, <2>5, <2>6, <4>1
             DEF EdgesHold, EdgesFollow, Linking, IsCut, Gone
      <3>4. \A e \in DOMAIN drawn'.edges \ DOMAIN rows'.edges :
                Gone(drawn.edges[e])'
        <4>1. \A e \in DOMAIN drawn.edges : Known(e, drawn.edges[e])
          BY DEF Known
        <4> QED
          BY <1>2, <2>5, <2>6, <4>1 DEF EdgesHold, EdgesFollow, Gone
      <3>5. \A e \in DOMAIN rows'.edges \ DOMAIN drawn'.edges :
                \/ \E x \in calls' : Pending(x, "connect") /\ x.edge = e
                \/ \E x \in calls' : x.kind = "cut" /\ e \in DOMAIN x.rest
        BY <1>2, <2>1, <2>2 DEF EdgesHold, EdgesFollow, Sub, Linking
      <3> QED
        BY <3>1, <3>2, <3>3, <3>4, <3>5 DEF EdgesFollow
    <2>8. CutsApart'
      <3>1. \A x \in calls : x.kind = "cut" =>
                \A e \in DOMAIN x.rest : Known(e, x.rest[e])
        BY DEF Known
      <3>2. \A x \in calls : x.kind = "cut" => \A e \in DOMAIN x.rest :
                e \in DOMAIN rows'.edges \/ Gone(x.rest[e])'
                \/ (IsCut(x) /\ e = x.edge)
        BY <2>5, <2>6, <3>1 DEF EdgesHold, CutsApart
      <3>3. \A x : x.kind = "cut" => (x \in calls' <=> x \in calls)
        BY <2>2 DEF Linking
      <3> QED
        BY <1>2, <2>1, <3>2, <3>3 DEF EdgesHold, CutsApart, Sub, IsCut
    <2>9. ConnectsApart'
      <3>1. \A x \in calls : Pending(x, "connect") => Known(x.edge, EndsOf(x))
        BY DEF Known
      <3>2. \A x \in calls : Pending(x, "connect") =>
                x.edge \in DOMAIN rows'.edges \/ Gone(EndsOf(x))'
        BY <2>5, <2>6, <3>1 DEF EdgesHold, ConnectsApart
      <3> QED
        BY <1>2, <2>2, <3>2 DEF EdgesHold, ConnectsApart, Linking
    <2> QED
      BY <1>4, <2>4, <2>7, <2>8, <2>9 DEF EdgesHold
  <1> QED
    BY <1>0, <1>5, <1>6, <1>7, <1>8 DEF CallShape, Kinds, Deletes

LEMMA RefuseEdges ==
    ASSUME Shapes, EdgesHold, NEW c \in calls, Refuse(c)
    PROVE  EdgesHold'
  <1>1. PICK d : /\ calls' = (calls \ {c}) \cup {d}
                 /\ Follows(d, c, {}) /\ d.state \in {"failed", "missing"}
                 /\ d.state = "missing" =>
                       c.kind = "cut" /\ c.edge \notin DOMAIN rows.edges
    BY RefuseEffect
  <1>2. /\ rows' = rows /\ graph' = graph /\ drawn' = drawn
        /\ unused' = unused /\ c.state = "sent"
    BY RefuseEffect
  <1>3. d.kind = c.kind /\ d.edge = c.edge /\ d.rest = c.rest
    BY <1>1 DEF Follows, Fields
  <1>4. \A x \in calls' : x.kind # "reroute"
    BY <1>1, <1>3 DEF EdgesHold
  <1>5. CASE c.kind # "cut"
    <2>1. \A x : Linking(x) => (x \in calls' <=> x \in calls)
      BY <1>1, <1>2, <1>3, <1>5 DEF Linking, Pending
    <2> QED
      BY <1>2, <1>4, <2>1, Unlinked, WithoutIsSub
  <1>6. CASE c.kind = "cut"
    <2>1. ~Pending(d, "connect") /\ ~Pending(c, "connect") /\ ~IsCut(c)
          /\ (IsCut(d) => c.edge \notin DOMAIN rows.edges)
      BY <1>1, <1>2, <1>3, <1>6 DEF Pending, IsCut
    <2>2. \A e, v : Known(e, v)' => Known(e, v)
      BY <1>1, <1>2, <1>3, <1>6, <2>1 DEF Known
    <2>3. OneEdgePerId'
      BY <1>2, <2>2, KnownShrinks DEF EdgesHold
    <2>4. EdgesFollow'
      BY <1>1, <1>2, <1>3, <1>6, <2>1 DEF EdgesHold, EdgesFollow, Gone
    <2>5. CutsApart'
      BY <1>1, <1>2, <1>3, <1>6, <2>1 DEF EdgesHold, CutsApart, Gone
    <2>6. ConnectsApart'
      BY <1>1, <1>2, <1>3, <1>6, <2>1 DEF EdgesHold, ConnectsApart, Gone
    <2> QED
      BY <1>4, <2>3, <2>4, <2>5, <2>6 DEF EdgesHold
  <1> QED
    BY <1>5, <1>6

LEMMA AnswerEdges ==
    ASSUME Shapes, NodesHold, EdgesHold, NEW c \in calls, Answers(c),
           doubt' = {}
    PROVE  EdgesHold'
  <1>0. CallShape(c) /\ ~RerouteAnswered(c)
    BY DEF Shapes, EdgesHold, RerouteAnswered
  <1>1. rows' = rows /\ unused' = unused
    BY DEF Answers, Fail, RerouteAnswered, Connected, Added, EntrySet,
           SettingsSaved, Deleted, Removed, CutAnswered, Settled
  <1>2. CASE Fail(c) \/ Added(c) \/ EntrySet(c)
    <2>1. graph'.edges = graph.edges /\ drawn'.edges = drawn.edges
      BY <1>2 DEF Fail, Added, EntrySet, Shapes
    <2>2. ~Linking(c) /\ c.kind # "reroute"
      BY <1>2 DEF Fail, Added, EntrySet, Linking, Pending
    <2>3. /\ calls \ {c} \subseteq calls'
          /\ \A x \in calls' : \/ x \in calls \ {c}
                               \/ x.kind = "connect" /\ x.state = "sent"
      <3>1. CASE calls' = calls \ {c}
        BY <3>1
      <3>2. CASE Added(c)
        BY <3>2, Requested DEF Added, IsRequest, Kinds
      <3> QED
        BY <1>2, <3>1, <3>2 DEF Fail, EntrySet, Done
    <2>4. /\ \A x : Linking(x) => (x \in calls' <=> x \in calls)
          /\ \A x \in calls' : x.kind # "reroute"
      BY <2>2, <2>3 DEF Linking, Pending, EdgesHold
    <2> QED
      BY <1>1, <2>1, <2>4, Unlinked, WithoutIsSub
  <1>3. CASE Connected(c)
    <2>1. PICK w : w = [source |-> c.node, target |-> c.target]
      OBVIOUS
    <2>2. /\ Pending(c, "connect") /\ w = EndsOf(c)
          /\ calls' = calls \ {c}
      BY <1>3, <2>1 DEF Connected, Done, Pending, EndsOf
    <2>3. /\ Plus(graph'.edges, graph.edges, c.edge, w)
          /\ Plus(drawn'.edges, drawn.edges, c.edge, w)
      <3>1. /\ graph' = [graph EXCEPT !.edges = With(graph.edges, c.edge, w)]
            /\ drawn' = [drawn EXCEPT !.edges = With(drawn.edges, c.edge, w)]
        BY <1>3, <2>1 DEF Connected
      <3>2. /\ graph'.edges = With(graph.edges, c.edge, w)
            /\ drawn'.edges = With(drawn.edges, c.edge, w)
        BY <3>1 DEF Shapes
      <3> QED
        BY <3>2, WithIsPlus
    <2>4. \A e, v : Known(e, v)' => Known(e, v)
      <3>1. Known(c.edge, w)
        BY <2>2 DEF Known
      <3> QED
        BY <1>1, <2>2, <2>3, <3>1 DEF Known, Plus
    <2>5. OneEdgePerId'
      BY <1>1, <2>4, KnownShrinks DEF EdgesHold
    <2>6. /\ c.edge \in DOMAIN rows.edges \/ Gone(w)
          /\ c.edge \notin DOMAIN drawn.edges
          /\ c.edge \notin DOMAIN graph.edges
          /\ \A x \in calls : /\ Pending(x, "connect") /\ x.edge = c.edge =>
                                     x = c
                              /\ x.kind = "cut" => c.edge \notin DOMAIN x.rest
      BY <2>2 DEF EdgesHold, ConnectsApart
    <2>7. EdgesFollow'
      <3>1. \A e \in DOMAIN rows'.edges : ~Gone(rows.edges[e])'
        BY <1>1 DEF EdgesHold, EdgesFollow, Gone
      <3>2. \A e \in DOMAIN rows'.edges \ DOMAIN graph'.edges :
                \E x \in calls' : Pending(x, "connect") /\ x.edge = e
        BY <1>1, <2>2, <2>3 DEF EdgesHold, EdgesFollow, Plus
      <3>3. \A e \in DOMAIN graph'.edges \ DOMAIN rows'.edges :
                \/ Gone(graph.edges[e])'
                \/ \E x \in calls' : IsCut(x) /\ x.edge = e
        BY <1>1, <2>2, <2>3, <2>6
           DEF EdgesHold, EdgesFollow, Plus, Gone, IsCut, Pending
      <3>4. \A e \in DOMAIN drawn'.edges \ DOMAIN rows'.edges :
                Gone(drawn.edges[e])'
        BY <1>1, <2>3, <2>6 DEF EdgesHold, EdgesFollow, Plus, Gone
      <3>5. \A e \in DOMAIN rows'.edges \ DOMAIN drawn'.edges :
                \/ \E x \in calls' : Pending(x, "connect") /\ x.edge = e
                \/ \E x \in calls' : x.kind = "cut" /\ e \in DOMAIN x.rest
        BY <1>1, <2>2, <2>3 DEF EdgesHold, EdgesFollow, Plus, Pending
      <3> QED
        BY <3>1, <3>2, <3>3, <3>4, <3>5 DEF EdgesFollow
    <2>8. CutsApart'
      BY <1>1, <2>2, <2>3, <2>6 DEF EdgesHold, CutsApart, Plus, Gone
    <2>9. ConnectsApart'
      BY <1>1, <2>2, <2>3, <2>6 DEF EdgesHold, ConnectsApart, Plus, Gone
    <2> QED
      BY <2>2, <2>5, <2>7, <2>8, <2>9 DEF EdgesHold
  <1>4. CASE SettingsSaved(c)
    <2>1. calls = {c} /\ c.seen = graph.edges /\ c.kind = "save"
      BY <1>4 DEF SettingsSaved, NodesHold, SaveAlone
    <2>2. /\ calls' = {} /\ graph'.edges = graph.edges
          /\ drawn'.edges = graph.edges
      BY <1>4, <2>1 DEF SettingsSaved, Done, Shapes
    <2>3. \A e, v : Known(e, v)' => Known(e, v)
      BY <1>1, <2>2 DEF Known
    <2>4. OneEdgePerId'
      BY <1>1, <2>3, KnownShrinks DEF EdgesHold
    <2>5. EdgesFollow'
      BY <1>1, <2>1, <2>2 DEF EdgesHold, EdgesFollow, Gone, Pending, IsCut
    <2> QED
      BY <2>2, <2>4, <2>5 DEF EdgesHold, CutsApart, ConnectsApart
  <1>5. CASE Deleted(c) \/ Removed(c)
    <2>1. /\ Sub(graph'.edges, graph.edges, EdgesAt(graph.edges, c.node))
          /\ calls' = calls \ {c} /\ c.kind \in Deletes /\ c.state = "ok"
      <3>1. /\ graph'.edges = Without(graph.edges,
                                      EdgesAt(graph.edges, c.node))
            /\ calls' = calls \ {c} /\ c.kind \in Deletes /\ c.state = "ok"
        BY <1>5 DEF Deleted, Removed, Done, WithoutNode, Deletes
      <3> QED
        BY <3>1, WithoutIsSub
    <2>2. PICK S : /\ Sub(drawn'.edges, drawn.edges, S)
                   /\ S \subseteq EdgesAt(drawn.edges, c.node)
      <3>1. CASE Deleted(c)
        <4>1. Sub(drawn'.edges, drawn.edges, {})
          BY <3>1, WithoutIsSub DEF Deleted
        <4> QED
          BY <4>1
      <3>2. CASE Removed(c)
        <4>1. drawn'.edges = Without(drawn.edges,
                                     EdgesAt(drawn.edges, c.node))
          BY <3>2 DEF Removed
        <4>2. Sub(drawn'.edges, drawn.edges, EdgesAt(drawn.edges, c.node))
          BY <4>1, WithoutIsSub
        <4> QED
          BY <4>2
      <3> QED
        BY <1>5, <3>1, <3>2
    <2>3. c.node \notin rows.nodes
      BY <2>1 DEF NodesHold, OneDelete
    <2>4. /\ \A e \in EdgesAt(graph.edges, c.node) : e \notin DOMAIN rows.edges
          /\ \A e \in S : e \notin DOMAIN rows.edges
      <3>1. ASSUME NEW e, NEW v, Known(e, v), c.node \in {v.source, v.target}
            PROVE  e \notin DOMAIN rows.edges
        <4>1. Gone(v)
          BY <2>3, <3>1 DEF Gone
        <4>2. e \in DOMAIN rows.edges => v = rows.edges[e]
          BY <3>1 DEF EdgesHold, OneEdgePerId, Known
        <4> QED
          BY <4>1, <4>2 DEF EdgesHold, EdgesFollow
      <3>2. /\ \A e \in DOMAIN graph.edges : Known(e, graph.edges[e])
            /\ \A e \in DOMAIN drawn.edges : Known(e, drawn.edges[e])
        BY DEF Known
      <3> QED
        BY <2>2, <3>1, <3>2 DEF EdgesAt
    <2>5. \A x : Linking(x) => (x \in calls' <=> x \in calls)
      BY <2>1 DEF Linking, Pending, Deletes
    <2>6. \A e, v : Known(e, v)' => Known(e, v)
      BY <1>1, <2>1, <2>2 DEF Known, Sub
    <2>7. OneEdgePerId'
      BY <1>1, <2>6, KnownShrinks DEF EdgesHold
    <2>8. EdgesFollow'
      BY <1>1, <2>1, <2>2, <2>4, <2>5
         DEF EdgesHold, EdgesFollow, Sub, Linking, IsCut, Gone
    <2>9. CutsApart' /\ ConnectsApart'
      BY <1>1, <2>1, <2>2, <2>5
         DEF EdgesHold, CutsApart, ConnectsApart, Sub, Linking, IsCut, Gone
    <2> QED
      BY <2>1, <2>7, <2>8, <2>9 DEF EdgesHold
  <1>6. CASE CutAnswered(c)
    <2>1. c.kind = "cut" /\ c.state # "sent" /\ ~Pending(c, "connect")
      BY <1>6 DEF CutAnswered, Pending
    <2>2. PICK left : left = Without(c.rest, {c.edge})
      OBVIOUS
    <2>3. Sub(left, c.rest, {c.edge})
      BY <2>2, WithoutIsSub
    <2>4. \/ DOMAIN left = {} /\ calls' = calls \ {c}
          \/ \E d : /\ calls' = (calls \ {c}) \cup {d}
                    /\ d.kind = "cut" /\ d.state = "sent"
                    /\ d.edge \in DOMAIN left /\ d.rest = left
      <3>1. calls' = (calls \ {c}) \cup
                {CutNext(c, e, left) : e \in FirstOf(DOMAIN left)}
        BY <1>6, <2>2 DEF CutAnswered
      <3>2. CASE DOMAIN left = {}
        BY <3>1, <3>2 DEF FirstOf
      <3>3. CASE DOMAIN left # {}
        <4>1. PICK e \in DOMAIN left :
                  calls' = (calls \ {c}) \cup {CutNext(c, e, left)}
          BY <3>1, <3>3 DEF FirstOf
        <4>2. PICK d : d = CutNext(c, e, left)
          OBVIOUS
        <4>3. /\ d.kind = c.kind /\ d.state = "sent"
              /\ d.edge = e /\ d.rest = left
          BY <1>0, <4>2, NextCut DEF Follows, Fields
        <4> QED
          BY <2>1, <4>1, <4>2, <4>3
      <3> QED
        BY <3>2, <3>3
    <2>5. /\ c.edge \in DOMAIN c.rest
          /\ c.edge \notin DOMAIN drawn.edges
          /\ IsCut(c) => c.edge \notin DOMAIN rows.edges
          /\ ~IsCut(c) => \/ c.edge \in DOMAIN rows.edges
                          \/ Gone(c.rest[c.edge])
          /\ \A x \in calls : x.kind = "cut" /\ c.edge \in DOMAIN x.rest =>
                 x = c
      BY <2>1 DEF EdgesHold, CutsApart
    <2>6. \/ /\ IsCut(c) /\ drawn' = drawn
             /\ Sub(graph'.edges, graph.edges, {c.edge})
          \/ /\ ~IsCut(c) /\ graph' = graph
             /\ Plus(drawn'.edges, drawn.edges, c.edge, c.rest[c.edge])
      <3>1. CASE c.state \in {"ok", "missing"}
        <4>1. graph'.edges = Without(graph.edges, {c.edge}) /\ drawn' = drawn
          BY <1>6, <3>1 DEF CutAnswered, Shapes
        <4> QED
          BY <2>1, <3>1, <4>1, WithoutIsSub DEF IsCut
      <3>2. CASE c.state \notin {"ok", "missing"}
        <4>1. /\ drawn'.edges = With(drawn.edges, c.edge, c.rest[c.edge])
              /\ graph' = graph
          BY <1>6, <3>2 DEF CutAnswered, Shapes
        <4> QED
          BY <3>2, <4>1, WithIsPlus DEF IsCut
      <3> QED
        BY <3>1, <3>2
    <2>7. /\ \A x : Pending(x, "connect") => (x \in calls' <=> x \in calls)
          /\ \A x : IsCut(x) /\ x # c => (x \in calls' <=> x \in calls)
          /\ \A x \in calls' : x.kind = "cut" =>
                 \/ x \in calls /\ x # c
                 \/ x.state = "sent" /\ x.edge \in DOMAIN left
                    /\ x.rest = left
          /\ \A x \in calls' : x.kind # "reroute"
      BY <2>1, <2>4 DEF Pending, IsCut, EdgesHold
    <2>8. \A e \in DOMAIN left : \E x \in calls' :
              x.kind = "cut" /\ e \in DOMAIN x.rest
      BY <2>4
    <2>9. \A e, v : Known(e, v)' => Known(e, v)
      <3>1. Known(c.edge, c.rest[c.edge])
        BY <2>1, <2>5 DEF Known
      <3>2. \A e \in DOMAIN left : Known(e, left[e])
        BY <2>1, <2>3 DEF Known, Sub
      <3>3. \A e \in DOMAIN graph'.edges : Known(e, graph'.edges[e])
        BY <2>6 DEF Known, Sub
      <3>4. \A e \in DOMAIN drawn'.edges : Known(e, drawn'.edges[e])
        BY <2>6, <3>1 DEF Known, Plus
      <3> QED
        BY <1>1, <2>7, <3>2, <3>3, <3>4 DEF Known
    <2>10. OneEdgePerId'
      BY <1>1, <2>9, KnownShrinks DEF EdgesHold
    <2>11. EdgesFollow'
      <3>1. \A e \in DOMAIN rows'.edges : ~Gone(rows.edges[e])'
        BY <1>1 DEF EdgesHold, EdgesFollow, Gone
      <3>2. \A e \in DOMAIN rows'.edges \ DOMAIN graph'.edges :
                \E x \in calls' : Pending(x, "connect") /\ x.edge = e
        BY <1>1, <2>5, <2>6, <2>7 DEF EdgesHold, EdgesFollow, Sub
      <3>3. \A e \in DOMAIN graph'.edges \ DOMAIN rows'.edges :
                \/ Gone(graph.edges[e])'
                \/ \E x \in calls' : IsCut(x) /\ x.edge = e
        BY <1>1, <2>6, <2>7 DEF EdgesHold, EdgesFollow, Sub, Gone
      <3>4. \A e \in DOMAIN drawn'.edges \ DOMAIN rows'.edges :
                Gone(drawn.edges[e])'
        BY <1>1, <2>5, <2>6 DEF EdgesHold, EdgesFollow, Plus, Gone
      <3>5. \A e \in DOMAIN rows'.edges \ DOMAIN drawn'.edges :
                \/ \E x \in calls' : Pending(x, "connect") /\ x.edge = e
                \/ \E x \in calls' : x.kind = "cut" /\ e \in DOMAIN x.rest
        <4>1. \A x \in calls : x.kind = "cut" /\ x # c => x \in calls'
          BY <2>4
        <4>2. \A e \in DOMAIN c.rest : e \in DOMAIN left \/ e = c.edge
          BY <2>3 DEF Sub
        <4>3. c.edge \in DOMAIN rows.edges => c.edge \in DOMAIN drawn'.edges
          BY <2>5, <2>6 DEF Plus
        <4>4. DOMAIN drawn.edges \subseteq DOMAIN drawn'.edges
          BY <2>6 DEF Plus
        <4> QED
          BY <1>1, <2>7, <2>8, <4>1, <4>2, <4>3, <4>4
             DEF EdgesHold, EdgesFollow
      <3> QED
        BY <3>1, <3>2, <3>3, <3>4, <3>5 DEF EdgesFollow
    <2>12. CutsApart'
      <3>1. /\ DOMAIN left = DOMAIN c.rest \ {c.edge}
            /\ \A e \in DOMAIN left : left[e] = c.rest[e]
        BY <2>3 DEF Sub
      <3>2. \A x \in calls : x.kind = "cut" =>
                \A e \in DOMAIN x.rest :
                    /\ e \notin DOMAIN drawn'.edges \/ (x = c /\ e = c.edge)
                    /\ \A d \in calls :
                           d.kind = "cut" /\ e \in DOMAIN d.rest => x = d
        BY <2>1, <2>5, <2>6 DEF EdgesHold, CutsApart, Plus
      <3>3. \A x \in calls' : x.kind = "cut" =>
                /\ x.edge \in DOMAIN x.rest
                /\ IsCut(x) => x.edge \notin DOMAIN rows'.edges
        BY <1>1, <2>7 DEF EdgesHold, CutsApart, IsCut
      <3>4. \A x \in calls' : x.kind = "cut" => \A e \in DOMAIN x.rest :
                e \notin DOMAIN drawn'.edges
        BY <2>1, <2>7, <3>1, <3>2
      <3>5. \A x \in calls' : x.kind = "cut" => \A e \in DOMAIN x.rest :
                e \in DOMAIN rows'.edges \/ Gone(x.rest[e])'
                \/ (IsCut(x) /\ e = x.edge)
        BY <1>1, <2>1, <2>7, <3>1 DEF EdgesHold, CutsApart, Gone
      <3>6. \A x, y \in calls' : x.kind = "cut" /\ y.kind = "cut" =>
                \A e \in DOMAIN x.rest : e \in DOMAIN y.rest => x = y
        BY <2>1, <2>4, <3>1, <3>2
      <3> QED
        BY <3>3, <3>4, <3>5, <3>6 DEF CutsApart, IsCut
    <2>13. ConnectsApart'
      <3>1. /\ \A x \in calls : Pending(x, "connect") =>
                   /\ x.edge \notin DOMAIN drawn'.edges
                   /\ x.edge \notin DOMAIN graph'.edges
                   /\ x.edge \notin DOMAIN left
        BY <2>1, <2>3, <2>5, <2>6 DEF EdgesHold, ConnectsApart, Sub, Plus
      <3> QED
        BY <1>1, <2>7, <3>1 DEF EdgesHold, ConnectsApart, Gone
    <2> QED
      BY <2>7, <2>10, <2>11, <2>12, <2>13 DEF EdgesHold
  <1> QED
    BY <1>0, <1>2, <1>3, <1>4, <1>5, <1>6 DEF Answers

LEMMA CanvasStep == CanvasInv /\ [CanvasNext]_canvasVars => CanvasInv'
  <1> SUFFICES ASSUME CanvasInv, [CanvasNext]_canvasVars
               PROVE  CanvasInv'
    OBVIOUS
  <1>1. CASE Gestures
    <2>1. Shapes' /\ (Sure' => Sure) /\ (doubt' = {} => doubt = {} /\ Sure')
      BY <1>1, GestureShapes
         DEF CanvasInv, Sure, Gestures, Gesture, Reroute, Connect, AddAgent,
             ChooseEntry, SaveSettings, DeleteOnCanvas, DeleteEdgeOnCanvas,
             DeleteInPanel, ResetLayout
    <2> QED
      BY <1>1, <2>1, GestureNodes, GestureEdges DEF CanvasInv
  <1>2. ASSUME NEW c \in calls,
               Serve(c) \/ Refuse(c) \/ FailsHalfway(c) \/ Answers(c)
        PROVE  CanvasInv'
    <2>1. (Sure' => Sure) /\ (doubt' = {} => doubt = {})
      BY <1>2 DEF Sure, Serve, Refuse, FailsHalfway, Answers, Fail, RerouteAnswered,
         Connected, Added, EntrySet, SettingsSaved, Deleted, Removed,
         CutAnswered
    <2>2. Shapes' /\ (doubt' = {} => Sure')
      BY <1>2, AnswerShapes DEF CanvasInv, Sure
    <2>0. ~(FailsHalfway(c) /\ Sure')
      BY DEF FailsHalfway, Sure
    <2>3. Sure' => NodesHold'
      BY <1>2, <2>0, <2>1, ServeNodes, RefuseNodes, AnswerNodes DEF CanvasInv
    <2>4. doubt' = {} => EdgesHold'
      BY <1>2, <2>0, <2>1, <2>2, ServeEdges, RefuseEdges, AnswerEdges DEF CanvasInv
    <2> QED
      BY <2>2, <2>3, <2>4 DEF CanvasInv
  <1>3. CASE UNCHANGED canvasVars
    <2>1. Shapes' <=> Shapes
      BY <1>3 DEF canvasVars, Shapes
    <2>2. NodesHold' <=> NodesHold
      BY <1>3 DEF canvasVars, NodesHold, FreshNodes, OneDelete, NodesFollow,
                  EntryFollows, SaveAlone, Standing
    <2>3. OneEdgePerId' <=> OneEdgePerId
      BY <1>3 DEF canvasVars, OneEdgePerId, Known
    <2>4. /\ EdgesFollow' <=> EdgesFollow
          /\ CutsApart' <=> CutsApart
          /\ ConnectsApart' <=> ConnectsApart
      BY <1>3 DEF canvasVars, EdgesFollow, CutsApart, ConnectsApart, Gone
    <2> QED
      BY <1>3, <2>1, <2>2, <2>3, <2>4 DEF canvasVars, CanvasInv, Sure,
                                          EdgesHold
  <1> QED
    BY <1>1, <1>2, <1>3 DEF CanvasNext

LEMMA ShownWhenAnswered == CanvasInv => CanvasShowsTheGraph
  <1> SUFFICES ASSUME CanvasInv, calls = {}, Sure
               PROVE  /\ graph.nodes = rows.nodes
                      /\ EntryAmong(graph) = EntryAmong(rows)
                      /\ drawn.nodes = rows.nodes
                      /\ doubt = {} =>
                             /\ PairsOf(graph.edges, graph.nodes) =
                                    PairsOf(rows.edges, rows.nodes)
                             /\ PairsOf(drawn.edges, drawn.nodes) =
                                    PairsOf(rows.edges, rows.nodes)
    BY DEF CanvasShowsTheGraph, Sure
  <1>1. graph.nodes = rows.nodes /\ drawn.nodes = rows.nodes
    BY DEF CanvasInv, NodesHold, NodesFollow
  <1>2. EntryAmong(graph) = EntryAmong(rows)
    BY <1>1 DEF CanvasInv, NodesHold, EntryFollows, Standing, EntryAmong, Pending
  <1>3. ASSUME doubt = {},
               NEW es, es \in {graph.edges, drawn.edges}
        PROVE  PairsOf(es, rows.nodes) = PairsOf(rows.edges, rows.nodes)
    <2>1. EdgesHold
      BY <1>3 DEF CanvasInv
    <2>2. \A e \in DOMAIN rows.edges : e \in DOMAIN es
      BY <1>3, <2>1 DEF EdgesHold, EdgesFollow
    <2>3. \A e \in DOMAIN es : e \in DOMAIN rows.edges \/ Gone(es[e])
      BY <1>3, <2>1 DEF EdgesHold, EdgesFollow
    <2>4. \A e \in DOMAIN rows.edges : es[e] = rows.edges[e]
      BY <1>3, <2>1, <2>2 DEF EdgesHold, OneEdgePerId, Known
    <2>5. {d \in DOMAIN es : {es[d].source, es[d].target} \subseteq rows.nodes}
          = {d \in DOMAIN rows.edges :
                {rows.edges[d].source, rows.edges[d].target}
                    \subseteq rows.nodes}
      BY <2>2, <2>3, <2>4 DEF Gone
    <2> QED
      BY <2>4, <2>5 DEF PairsOf
  <1> QED
    BY <1>1, <1>2, <1>3

\* When every request has been answered the state and the picture are the
\* stored graph: whatever the gestures of the canvas, the panel and the forms
\* sent, in whatever order the requests were served, refused and answered,
\* for any number of them.
THEOREM PicturesAreTrue == CanvasSpec => []CanvasShowsTheGraph
  <1>1. CanvasInit => CanvasInv
    BY ShapesInit, NodesInit, EdgesInit DEF CanvasInv
  <1> QED
    BY <1>1, CanvasStep, ShownWhenAnswered, PTL DEF CanvasSpec
=============================================================================
