----------------------------- MODULE GraphEdits -----------------------------
(***************************************************************************)
(* Editing a graph: the node and edge mutations that the canvas, the chat  *)
(* and other graphs' agents share, the versioned history they leave, and   *)
(* the snapshot a pinned run takes.  No transaction spans a request's      *)
(* queries: it looks, writes, bumps the version, logs the change, and then *)
(* repairs the references other nodes keep as plain JSON.  The looks a     *)
(* request starts with are taken as one step, its first.                   *)
(***************************************************************************)
EXTENDS Integers, FiniteSets

CONSTANTS
    NodeId, EdgeId, NoNode,
    Requests,           \* API calls and tool calls that edit, runs created
    StartNodes,         \* the graph there is to begin with
    StartEdges,         \* its edges, [src, dst, auto] by id
    MaxEdits            \* bound: requests; one more for one that overlaps
                        \* another, for one that names what is not there
                        \* and for one cut short

ASSUME GraphAssumption ==
    /\ NoNode \notin NodeId /\ StartNodes \subseteq NodeId
    /\ NodeId \cap EdgeId = {}
    /\ DOMAIN StartEdges \subseteq EdgeId
    /\ StartEdges \in [DOMAIN StartEdges ->
                          [src : StartNodes, dst : StartNodes,
                           auto : BOOLEAN]]
    /\ MaxEdits \in Nat

Node == NodeId \cup {NoNode}
EdgeEnds == [src : Node, dst : Node, auto : BOOLEAN]
NoEnds == [src |-> NoNode, dst |-> NoNode, auto |-> FALSE]

\* What a node's row says that other rows depend on: approvalConfig,
\* consensusGroup (edgeIds, aggregatorNodeId), mapConfig (targetNodeId,
\* aggregatorNodeId).
Config == [gate : BOOLEAN, branches : SUBSET EdgeId, agg : Node,
           target : Node, mapAgg : Node]
Plain == [gate |-> FALSE, branches |-> {}, agg |-> NoNode,
          target |-> NoNode, mapAgg |-> NoNode]

Kinds == {"addNode", "patchNode", "dropNode", "addEdge", "moveEdge",
          "dropEdge", "snapshot"}
Steps == {"idle", "clear", "write", "bump", "log", "sync", "scrub",
          "scrubMaps", "nodes", "edges"}

VARIABLES
    nodes, config,      \* the node rows and what they say
    edges,              \* the edge rows: id -> ends, for the ids there are
    gone,               \* ids that were deleted: ids are never reused
    entry,              \* entryNodeId
    version,
    changes,            \* routing_changes: [version, kind, id]
    edit,               \* each request: where it is and what it knows
    snaps,              \* the snapshots taken
    budget,             \* edits left
    strays,             \* history: what requests named and was not there
    disturbed           \* history: edits overlapped, or one was cut short

graphVars == <<nodes, config, edges, gone, entry, version, changes, edit,
               snaps, budget, strays, disturbed>>

NoEdit == [pc |-> "idle", kind |-> "snapshot",
           node |-> NoNode, edge |-> NoNode, ends |-> NoEnds,
           config |-> Plain, removed |-> {}, todo |-> {},
           version |-> 0, snap |-> {}]

EdgeIds == DOMAIN edges
Group(m) == [branches |-> config[m].branches, agg |-> config[m].agg]
NoGroup == [branches |-> {}, agg |-> NoNode]

GraphTypeOK ==
    /\ nodes \subseteq NodeId /\ gone \subseteq NodeId \cup EdgeId
    /\ config \in [NodeId -> Config]
    /\ \A n \in NodeId : config[n].branches = {} <=> config[n].agg = NoNode
    /\ EdgeIds \subseteq EdgeId
    /\ \A e \in EdgeIds :
           edges[e] \in [src : nodes, dst : nodes \cup strays, auto : BOOLEAN]
    /\ strays \subseteq NodeId \cup EdgeId
    /\ entry \in Node
    /\ version \in Nat
    /\ \A c \in changes : c.version \in 1..version
    /\ \A q \in Requests :
           /\ edit[q].pc \in Steps /\ edit[q].kind \in Kinds
           /\ edit[q].version \in 0..version
    /\ budget \in 0..MaxEdits
    /\ disturbed \in BOOLEAN

GraphInit ==
    /\ nodes = StartNodes /\ edges = StartEdges /\ gone = {}
    /\ config = [n \in NodeId |-> Plain]
    /\ entry \in StartNodes
    /\ version = 0 /\ changes = {} /\ snaps = {} /\ strays = {}
    /\ edit = [q \in Requests |-> NoEdit]
    /\ budget = MaxEdits
    /\ disturbed = FALSE

-----------------------------------------------------------------------------

Stage(q, pc) == edit[q].pc = pc
Busy(q) == ~Stage(q, "idle")
Step(q, pc) == edit' = [edit EXCEPT ![q].pc = pc]
End(q) == edit' = [edit EXCEPT ![q] = NoEdit]

\* A request naming some ids: one that is of nothing there stays so, for ids
\* are not reused.
Spend(ids) ==
    LET overlaps == \E p \in Requests : Busy(p)
        stray == ids \ (nodes \cup EdgeIds)
        cost == 1 + (IF overlaps THEN 1 ELSE 0)
                  + (IF stray = {} THEN 0 ELSE 1)
    IN  /\ budget >= cost
        /\ budget' = budget - cost
        /\ disturbed' = (disturbed \/ overlaps)
        /\ strays' = strays \cup stray
Free(q) == ~Busy(q) /\ budget > 0
Begin(q, ids, what) == Spend(ids) /\ edit' = [edit EXCEPT ![q] = what]

\* Whether some node runs n as a branch, inline.
FansOutTo(m, n) ==
    \/ config[m].target = n
    \/ \E e \in config[m].branches \cap EdgeIds : edges[e].dst = n

\* Faulty variant: only what the saved node itself points at is checked.
GateRefusedOneWay(n, c) ==
    \/ c.target \in nodes /\ config[c.target].gate
    \/ \E e \in c.branches \cap EdgeIds : config[edges[e].dst].gate

\* checkApprovalGateCompatible, over the effective values; n is NoNode for a
\* node that does not exist yet.
GateRefused(n, c) ==
    \/ c.gate /\ \E m \in nodes \ {n} : FansOutTo(m, n)
    \/ c.target \in nodes /\ config[c.target].gate
    \/ \E e \in c.branches \cap EdgeIds : config[edges[e].dst].gate

SelfReferential(n, c) == n \in {c.target, c.mapAgg, c.agg}

Grouping(c, branches, agg) == [c EXCEPT !.branches = branches, !.agg = agg]
Mapping(c, target, agg) == [c EXCEPT !.target = target, !.mapAgg = agg]

\* An id is a uuid: a client names any, of this graph, of another or of what
\* was deleted, only not one that a row still to be inserted will get.
Coming == UNION {{edit[p].node, edit[p].edge} : p \in {q \in Requests :
              edit[q].pc = "write" /\ edit[q].kind \in {"addNode", "addEdge"}}}
Ids == NodeId \ Coming

\* What a body gives a node: a gate, a group of two edges at least, a map,
\* each given or cleared.  Whether the references exist is not checked.
Bodies(c) ==
    {[c EXCEPT !.gate = g] : g \in BOOLEAN} \cup
    {Grouping(c, {}, NoNode), Mapping(c, NoNode, NoNode)} \cup
    {Grouping(c, b, n) :
         b \in {s \in SUBSET (EdgeId \ Coming) : Cardinality(s) >= 2},
         n \in Ids} \cup
    {Mapping(c, t, n) : t \in Ids, n \in Ids \cup {NoNode}}

Refs(c) == c.branches \cup ({c.agg, c.target, c.mapAgg} \ {NoNode})

\* insertAgentNodeValidated.  A copy of another graph's node is plain.
AddNode(q, n) ==
    /\ Free(q) /\ n \in NodeId \ (nodes \cup gone \cup strays)
    /\ \A p \in Requests : edit[p].node # n
    /\ \E c \in Bodies(Plain) :
           /\ n \notin Refs(c) /\ ~GateRefused(NoNode, c)
           /\ Begin(q, Refs(c), [NoEdit EXCEPT !.kind = "addNode",
                  !.pc = "write", !.node = n, !.config = c])
    /\ UNCHANGED <<nodes, config, edges, gone, entry, version, changes, snaps>>

\* updateAgentNode: only the fields of the body are written.
PatchNode(q, n) ==
    /\ Free(q) /\ n \in nodes
    /\ \E c \in Bodies(config[n]) :
           /\ ~GateRefused(n, c) /\ ~SelfReferential(n, c)
           /\ Begin(q, Refs(c), [NoEdit EXCEPT !.kind = "patchNode",
                  !.pc = "write", !.node = n, !.config = c,
                  !.removed = {f \in DOMAIN c : c[f] # config[n][f]}])
    /\ UNCHANGED <<nodes, config, edges, gone, entry, version, changes, snaps>>

Touching(n) == {e \in EdgeIds : n \in {edges[e].src, edges[e].dst}}

\* deleteAgentNode: the edges the delete will cascade to, while they are there.
DropNode(q, n) ==
    /\ Free(q) /\ n \in nodes
    /\ Begin(q, {}, [NoEdit EXCEPT !.kind = "dropNode", !.pc = "clear",
                         !.node = n, !.removed = Touching(n)])
    /\ UNCHANGED <<nodes, config, edges, gone, entry, version, changes, snaps>>

\* insertRoutingEdge: an auto edge of a hybrid node is a branch at once.
AddEdge(q, e) ==
    /\ Free(q) /\ e \in EdgeId \ (EdgeIds \cup gone \cup strays)
    /\ \A p \in Requests : edit[p].edge # e
    /\ \E ends \in [src : nodes, dst : nodes, auto : BOOLEAN] :
           /\ ~(/\ ends.auto /\ config[ends.src].branches # {}
                /\ config[ends.dst].gate)
           /\ Begin(q, {}, [NoEdit EXCEPT !.kind = "addEdge", !.pc = "write",
                  !.edge = e, !.ends = ends,
                  !.todo = IF ends.auto /\ config[ends.src].branches # {}
                           THEN {[node |-> ends.src,
                                  group |-> [Group(ends.src) EXCEPT
                                                 !.branches = @ \cup {e}]]}
                           ELSE {}])
    /\ UNCHANGED <<nodes, config, edges, gone, entry, version, changes, snaps>>

\* updateRoutingEdge and checkEdgeRetargetGateCompatible; NoNode stands for
\* a body without targetNodeId, and any other node is one.
MoveEdge(q, e, n) ==
    /\ Free(q) /\ e \in EdgeIds /\ n \in Ids \cup {NoNode}
    /\ ~(/\ n \in nodes /\ config[n].gate
         /\ \E m \in nodes : e \in config[m].branches)
    /\ Begin(q, {n} \ {NoNode}, [NoEdit EXCEPT !.kind = "moveEdge",
                                !.pc = "write", !.edge = e, !.node = n])
    /\ UNCHANGED <<nodes, config, edges, gone, entry, version, changes, snaps>>

DropEdge(q, e) ==
    /\ Free(q) /\ e \in EdgeIds
    /\ Begin(q, {}, [NoEdit EXCEPT !.kind = "dropEdge", !.pc = "write",
                         !.edge = e, !.removed = {e}])
    /\ UNCHANGED <<nodes, config, edges, gone, entry, version, changes, snaps>>

\* PATCH /graphs/:id: any uuid, and not versioned.
SetEntry(n) ==
    /\ n \in Ids /\ Spend({n})
    /\ entry' = n
    /\ UNCHANGED <<nodes, config, edges, gone, version, changes, edit, snaps>>

-----------------------------------------------------------------------------

\* Faulty variant: the entry is left to the foreign keys, and it has none.
ClearNothing(q) ==
    /\ Stage(q, "clear")
    /\ Step(q, "write")
    /\ UNCHANGED <<nodes, config, edges, gone, entry, version, changes, snaps,
                   budget, strays, disturbed>>

ClearEntry(q) ==
    /\ Stage(q, "clear")
    /\ entry' = IF entry = edit[q].node THEN NoNode ELSE entry
    /\ Step(q, "write")
    /\ UNCHANGED <<nodes, config, edges, gone, version, changes, snaps, budget,
                   strays, disturbed>>

Keeping(ids) == [e \in ids |-> edges[e]]

WriteNode(q) ==
    /\ Stage(q, "write") /\ edit[q].kind \in {"addNode", "patchNode"}
    /\ LET n == edit[q].node IN
       /\ nodes' = IF edit[q].kind = "addNode" THEN nodes \cup {n} ELSE nodes
       /\ config' =
              IF edit[q].kind = "addNode"
              THEN [config EXCEPT ![n] = edit[q].config]
              ELSE IF n \notin nodes THEN config
              ELSE [config EXCEPT ![n] = [f \in DOMAIN @ |->
                        IF f \in edit[q].removed
                        THEN edit[q].config[f] ELSE @[f]]]
    /\ Step(q, "bump")
    /\ UNCHANGED <<edges, gone, entry, version, changes, snaps, budget,
                   strays, disturbed>>

\* The node, and by the foreign keys its edges.
DeleteNode(q) ==
    /\ Stage(q, "write") /\ edit[q].kind = "dropNode"
    /\ LET n == edit[q].node IN
       /\ nodes' = nodes \ {n}
       /\ config' = [config EXCEPT ![n] = Plain]
       /\ gone' = gone \cup {n} \cup Touching(n)
       /\ edges' = Keeping(EdgeIds \ Touching(n))
    /\ Step(q, "bump")
    /\ UNCHANGED <<entry, version, changes, snaps, budget, strays, disturbed>>

\* A node that is in no graph fails the statement by its foreign key, one of
\* another graph does not; an edge that has gone is not there to be updated.
WriteEdge(q) ==
    /\ Stage(q, "write") /\ edit[q].kind \in {"addEdge", "moveEdge"}
    /\ LET e == edit[q].edge
           n == edit[q].node
           ends == edit[q].ends
           moves == edit[q].kind = "moveEdge" /\ e \in EdgeIds /\ n # NoNode
       IN  \E fails \in BOOLEAN :
           /\ edit[q].kind = "addEdge" =>
                  (fails <=> ~({ends.src, ends.dst} \subseteq nodes))
           /\ edit[q].kind = "moveEdge" =>
                  /\ fails => moves /\ n \notin nodes
                  /\ moves /\ n \in gone => fails
           /\ edges' =
                  IF fails THEN edges
                  ELSE IF edit[q].kind = "addEdge"
                       THEN [f \in EdgeIds \cup {e} |->
                                 IF f = e THEN ends ELSE edges[f]]
                  ELSE IF moves THEN [edges EXCEPT ![e].dst = n]
                  ELSE edges
           /\ IF fails THEN End(q) ELSE Step(q, "bump")
    /\ UNCHANGED <<nodes, config, gone, entry, version, changes, snaps, budget,
                   strays, disturbed>>

DeleteEdge(q) ==
    /\ Stage(q, "write") /\ edit[q].kind = "dropEdge"
    /\ edges' = Keeping(EdgeIds \ {edit[q].edge})
    /\ gone' = gone \cup {edit[q].edge}
    /\ Step(q, "bump")
    /\ UNCHANGED <<nodes, config, entry, version, changes, snaps, budget,
                   strays, disturbed>>

\* recordChange: one statement adds one and returns the sum, the next one
\* inserts the row.
Bump(q) ==
    /\ Stage(q, "bump")
    /\ version' = version + 1
    /\ edit' = [edit EXCEPT ![q].pc = "log", ![q].version = version + 1]
    /\ UNCHANGED <<nodes, config, edges, gone, entry, changes, snaps, budget,
                   strays, disturbed>>

After(kind) == CASE kind \in {"dropNode", "dropEdge"} -> "scrub"
                 [] kind = "addEdge" -> "sync"
                 [] OTHER -> "idle"
Subject(q) == IF edit[q].kind \in {"addNode", "patchNode", "dropNode"}
              THEN edit[q].node ELSE edit[q].edge

LogAs(q, v) ==
    /\ Stage(q, "log")
    /\ changes' = changes \cup
           {[version |-> v, kind |-> edit[q].kind, id |-> Subject(q)]}
    /\ IF After(edit[q].kind) = "idle" THEN End(q)
       ELSE Step(q, After(edit[q].kind))
    /\ UNCHANGED <<nodes, config, edges, gone, entry, version, snaps, budget,
                   strays, disturbed>>

\* Faulty variant: the version is read again for the row.
LogReadingAgain(q) == LogAs(q, version)

Log(q) == LogAs(q, edit[q].version)

Regroup(fixes) ==
    config' = [n \in NodeId |->
        IF n \in nodes /\ \E f \in fixes : f.node = n
        THEN LET f == CHOOSE f \in fixes : f.node = n
             IN  [config[n] EXCEPT !.branches = f.group.branches,
                                   !.agg = f.group.agg]
        ELSE config[n]]

\* The new branch joins the group as it was when the request looked.
SyncGroup(q) ==
    /\ Stage(q, "sync")
    /\ Regroup(edit[q].todo)
    /\ End(q)
    /\ UNCHANGED <<nodes, edges, gone, entry, version, changes, snaps, budget,
                   strays, disturbed>>

Scrubbed(g, n, removed) ==
    IF g.agg = n \/ g.branches \subseteq removed THEN NoGroup
    ELSE [g EXCEPT !.branches = @ \ removed]

\* scrubConsensusReferences: one read of the siblings, then their updates.
\* The node that an edge's delete removes is none.
Scrub(q) ==
    /\ Stage(q, "scrub") /\ edit[q].todo = {}
    /\ LET stale == {m \in nodes : config[m].branches # {} /\
               Scrubbed(Group(m), edit[q].node, edit[q].removed) # Group(m)}
           next == IF edit[q].kind = "dropNode" THEN "scrubMaps" ELSE "idle"
       IN  IF stale # {}
           THEN edit' = [edit EXCEPT ![q].todo = {[node |-> m, group |->
                    Scrubbed(Group(m), edit[q].node, edit[q].removed)] :
                        m \in stale}]
           ELSE IF next = "idle" THEN End(q) ELSE Step(q, next)
    /\ UNCHANGED <<nodes, config, edges, gone, entry, version, changes, snaps,
                   budget, strays, disturbed>>

ScrubOne(q) ==
    /\ Stage(q, "scrub")
    /\ \E f \in edit[q].todo :
           /\ Regroup({f})
           /\ IF edit[q].todo # {f}
              THEN edit' = [edit EXCEPT ![q].todo = @ \ {f}]
              ELSE IF edit[q].kind = "dropEdge" THEN End(q)
              ELSE edit' = [edit EXCEPT ![q].todo = {}, ![q].pc = "scrubMaps"]
    /\ UNCHANGED <<nodes, edges, gone, entry, version, changes, snaps, budget,
                   strays, disturbed>>

\* scrubMapConfigReferences, its read and its updates in one step.
ScrubMaps(q) ==
    /\ Stage(q, "scrubMaps")
    /\ config' = [m \in NodeId |->
           IF edit[q].node \in {config[m].target, config[m].mapAgg}
           THEN [config[m] EXCEPT !.target = NoNode, !.mapAgg = NoNode]
           ELSE config[m]]
    /\ End(q)
    /\ UNCHANGED <<nodes, edges, gone, entry, version, changes, snaps, budget,
                   strays, disturbed>>

\* The process dies between two of a request's statements.
CutEdit(q) ==
    /\ Busy(q) /\ budget > 0
    /\ budget' = budget - 1
    /\ disturbed' = TRUE
    /\ End(q)
    /\ UNCHANGED <<nodes, config, edges, gone, entry, version, changes, snaps,
                   strays>>

\* createRun and loadLiveGraph: the graph's row, its nodes, its edges.
SnapRow(q) ==
    /\ Free(q)
    /\ Begin(q, {}, [NoEdit EXCEPT !.pc = "nodes", !.version = version])
    /\ UNCHANGED <<nodes, config, edges, gone, entry, version, changes, snaps>>

SnapNodes(q) ==
    /\ Stage(q, "nodes")
    /\ edit' = [edit EXCEPT ![q].pc = "edges", ![q].snap = nodes]
    /\ UNCHANGED <<nodes, config, edges, gone, entry, version, changes, snaps,
                   budget, strays, disturbed>>

SnapAs(q, v) ==
    /\ Stage(q, "edges")
    /\ snaps' = snaps \cup {[version |-> v, nodes |-> edit[q].snap,
                             edges |-> EdgeIds, gone |-> gone]}
    /\ End(q)
    /\ UNCHANGED <<nodes, config, edges, gone, entry, version, changes, budget,
                   strays, disturbed>>

\* Faulty variant: the row is read last.
SnapEdgesThenRow(q) == SnapAs(q, version)

SnapEdges(q) == SnapAs(q, edit[q].version)

GraphNext ==
    \/ \E q \in Requests, n \in NodeId :
           AddNode(q, n) \/ PatchNode(q, n) \/ DropNode(q, n)
    \/ \E q \in Requests, e \in EdgeId :
           \/ AddEdge(q, e) \/ DropEdge(q, e)
           \/ \E n \in Node : MoveEdge(q, e, n)
    \/ \E n \in NodeId : SetEntry(n)
    \/ \E q \in Requests :
           \/ ClearEntry(q) \/ WriteNode(q) \/ DeleteNode(q)
           \/ WriteEdge(q) \/ DeleteEdge(q)
           \/ Bump(q) \/ Log(q) \/ SyncGroup(q)
           \/ Scrub(q) \/ ScrubOne(q) \/ ScrubMaps(q)
           \/ SnapRow(q) \/ SnapNodes(q) \/ SnapEdges(q) \/ CutEdit(q)

GraphSpec == GraphInit /\ [][GraphNext]_graphVars

-----------------------------------------------------------------------------

\* validation/approvalGate.ts: a gated node is nobody's branch, whichever of
\* the two was saved first.
GatedIsNoBranch ==
    \A n \in nodes : config[n].gate => \A m \in nodes : ~FansOutTo(m, n)

\* As far as the code goes: not another node's branch, as long as no two
\* edits of the graph overlapped and none was cut short.
BranchesNeverPause ==
    ~disturbed =>
        \A n \in nodes :
            config[n].gate => \A m \in nodes \ {n} : ~FansOutTo(m, n)

\* A delete takes with it every reference to what it deletes: between
\* requests the entry, a group's edges and aggregator, a map's target and
\* aggregator name what is there, or what was not there already when a
\* request named it; again as long as the edits came one at a time and whole.
NothingDangles ==
    ~disturbed /\ (\A q \in Requests : ~Busy(q)) =>
        /\ entry \in nodes \cup strays \cup {NoNode}
        /\ \A m \in nodes :
               Refs(config[m]) \subseteq nodes \cup EdgeIds \cup strays

\* However the edits interleave, no two changes carry the same version.
VersionsDistinct ==
    \A c, d \in changes : c.version = d.version => c = d

\* A snapshot that carries version v holds what every change up to v wrote:
\* the nodes and edges added that were not deleted since, and none of those
\* deleted.  Rows are written before the version is bumped, and a snapshot
\* reads the version first.
SnapshotHoldsItsVersion ==
    \A s \in snaps, c \in changes :
        c.version <= s.version =>
            LET there == s.nodes \cup s.edges IN
            /\ c.kind \in {"addNode", "addEdge"} => c.id \in there \cup s.gone
            /\ c.kind \in {"dropNode", "dropEdge"} => c.id \notin there

=============================================================================
