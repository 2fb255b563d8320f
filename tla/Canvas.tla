------------------------------- MODULE Canvas -------------------------------
(***************************************************************************)
(* The canvas's copy of a graph: the React state graph (what the forms and *)
(* selects work on) and the flow nodes and edges drawn from it.  Gestures  *)
(* change one or both at once or when their request is answered; requests  *)
(* overlap, are answered in any order, are refused, or take effect without *)
(* their answer getting through.  All but one handler update the state as  *)
(* it is when the answer comes; handleNodeUpdated writes back the graph of *)
(* the render in which the settings form was saved.                        *)
(***************************************************************************)
EXTENDS Naturals, Functions

CONSTANTS
    CanvasNodes, CanvasEdges,   \* ids, of rows there are and rows to come
    FirstNodes, FirstEdges,     \* the stored graph when the canvas opens
    NoEntry,                    \* no entry node, no "connects from"
    KeepsId,                    \* whether reconnectEdge keeps the edge's id
    MaxGestures                 \* bound

ASSUME CanvasAssumption ==
    /\ FirstNodes \subseteq CanvasNodes /\ NoEntry \notin CanvasNodes
    /\ FirstEdges \in [DOMAIN FirstEdges ->
                          [source : FirstNodes, target : FirstNodes]]
    /\ DOMAIN FirstEdges \subseteq CanvasEdges
    /\ KeepsId \in BOOLEAN /\ MaxGestures \in Nat

VARIABLES
    rows,       \* the stored graph
    graph,      \* the canvas's state
    drawn,      \* the flow nodes and edges
    calls,      \* requests not answered yet
    unused,     \* ids no row ever had
    gestures,   \* history: how many there were
    doubt       \* history: what happened that leaves the picture in doubt

canvasVars == <<rows, graph, drawn, calls, unused, gestures, doubt>>

Without(f, S) == Restrict(f, DOMAIN f \ S)
With(f, e, ends) == [x \in DOMAIN f \cup {e} |-> IF x = e THEN ends ELSE f[x]]
FirstOf(S) == IF S = {} THEN {} ELSE {CHOOSE x \in S : TRUE}
EdgesAt(es, n) == {e \in DOMAIN es : n \in {es[e].source, es[e].target}}

\* A graph without a node: its edges go with it, and it is no entry any more.
WithoutNode(g, n) ==
    [nodes |-> g.nodes \ {n}, edges |-> Without(g.edges, EdgesAt(g.edges, n)),
     entry |-> IF g.entry = n THEN NoEntry ELSE g.entry]

CanvasInit ==
    /\ rows = [nodes |-> FirstNodes, edges |-> FirstEdges, entry |-> NoEntry]
    /\ graph = rows
    /\ drawn = [nodes |-> FirstNodes, edges |-> FirstEdges]
    /\ calls = {} /\ gestures = 0 /\ doubt = {}
    /\ unused = [nodes |-> CanvasNodes \ FirstNodes,
                 edges |-> CanvasEdges \ DOMAIN FirstEdges]

-----------------------------------------------------------------------------

\* Gestures that say nothing for certain when they overlap with others.
Clashes(kind) ==
    \/ kind \in {"save", "reset"} /\ calls # {}
    \/ \E c \in calls : c.kind = "save"
    \/ \E twice \in {{"entry"}, {"delete", "remove"}} :
           kind \in twice /\ \E c \in calls : c.kind \in twice

\* Bound: once the picture may be wrong for good no more gestures are made.
Gesture(kind) ==
    /\ gestures < MaxGestures /\ gestures' = gestures + 1
    /\ doubt \cap {"overlap", "lost"} = {}
    /\ doubt' = doubt \cup (IF Clashes(kind) THEN {"overlap"} ELSE {})
                      \cup (IF kind = "reroute" THEN {"rerouted"} ELSE {})
    /\ UNCHANGED <<rows, unused>>

Send(requests) == calls' = calls \cup requests

Request(kind, node, edge, target) ==
    [kind |-> kind, state |-> "sent", node |-> node, edge |-> edge,
     target |-> target, seen |-> IF kind = "save" THEN graph.edges ELSE <<>>,
     ends |-> {}, rest |-> <<>>]

\* With the ends to go back to.
RerouteFrom(e, target, ends) ==
    [Request("reroute", NoEntry, e, target) EXCEPT !.ends = {ends}]

\* One edge after the other; rest are those not deleted yet, e among them.
CutFirst(e, rest) == [Request("cut", NoEntry, e, NoEntry) EXCEPT !.rest = rest]
CutNext(c, e, rest) ==
    [c EXCEPT !.state = "sent", !.edge = e, !.rest = rest]

\* onReconnect: drawn at once; reconnectEdge makes up an id from the ends
\* unless told to keep the old one.
Reroute ==
    /\ Gesture("reroute")
    /\ \E e \in DOMAIN drawn.edges, t \in drawn.nodes :
           LET ends == [drawn.edges[e] EXCEPT !.target = t]
               id == IF KeepsId THEN e ELSE <<ends.source, t>>
           IN  /\ drawn' = [drawn EXCEPT !.edges =
                                With(Without(@, {e}), id, ends)]
               /\ Send({RerouteFrom(e, t, drawn.edges[e])})
    /\ UNCHANGED graph

Connect ==
    /\ Gesture("connect")
    /\ \E s, t \in drawn.nodes : Send({Request("connect", s, NoEntry, t)})
    /\ UNCHANGED <<graph, drawn>>

\* addAgent, quickAdd, addExisting, with "connects from" or without.
AddAgent ==
    /\ Gesture("add")
    /\ \E s \in graph.nodes \cup {NoEntry} :
           Send({Request("add", s, NoEntry, NoEntry)})
    /\ UNCHANGED <<graph, drawn>>

ChooseEntry ==
    /\ Gesture("entry")
    /\ \E n \in graph.nodes : Send({Request("entry", n, NoEntry, NoEntry)})
    /\ UNCHANGED <<graph, drawn>>

SaveSettings ==
    /\ Gesture("save")
    /\ \E n \in graph.nodes : Send({Request("save", n, NoEntry, NoEntry)})
    /\ UNCHANGED <<graph, drawn>>

\* The delete key: the node and its edges leave the picture at once, and one
\* request for the node and, one after the other, one for each edge go out.
DeleteOnCanvas ==
    /\ Gesture("delete")
    /\ \E n \in drawn.nodes :
           LET cut == EdgesAt(drawn.edges, n)
           IN  /\ drawn' = [nodes |-> drawn.nodes \ {n},
                            edges |-> Without(drawn.edges, cut)]
               /\ Send({Request("delete", n, NoEntry, NoEntry)} \cup
                       {CutFirst(e, Restrict(drawn.edges, cut)) :
                           e \in FirstOf(cut)})
    /\ UNCHANGED graph

DeleteEdgeOnCanvas ==
    /\ Gesture("cut")
    /\ \E e \in DOMAIN drawn.edges :
           /\ drawn' = [drawn EXCEPT !.edges = Without(@, {e})]
           /\ Send({CutFirst(e, Restrict(drawn.edges, {e}))})
    /\ UNCHANGED graph

\* The settings panel's delete: the picture waits for the answer.
DeleteInPanel ==
    /\ Gesture("remove")
    /\ \E n \in graph.nodes : Send({Request("remove", n, NoEntry, NoEntry)})
    /\ UNCHANGED <<graph, drawn>>

ResetLayout ==
    /\ Gesture("reset")
    /\ drawn' = [nodes |-> graph.nodes, edges |-> graph.edges]
    /\ UNCHANGED <<graph, calls>>

-----------------------------------------------------------------------------

\* What the server does with a request whose rows are there; it takes any node
\* for the entry.
CanServe(c) ==
    CASE c.kind \in {"reroute", "cut"} -> c.edge \in DOMAIN rows.edges
      [] c.kind = "connect" -> {c.node, c.target} \subseteq rows.nodes
                               /\ unused.edges # {}
      [] c.kind = "add" -> unused.nodes # {}
      [] c.kind = "entry" -> TRUE
      [] OTHER -> c.node \in rows.nodes

Effect(c, id) ==
    CASE c.kind = "reroute" -> [rows EXCEPT !.edges[c.edge].target = c.target]
      [] c.kind = "cut" -> [rows EXCEPT !.edges = Without(@, {c.edge})]
      [] c.kind = "connect" -> [rows EXCEPT !.edges =
                 With(@, id, [source |-> c.node, target |-> c.target])]
      [] c.kind = "add" -> [rows EXCEPT !.nodes = @ \cup {id}]
      [] c.kind = "entry" -> [rows EXCEPT !.entry = c.node]
      [] c.kind = "save" -> rows
      [] OTHER -> WithoutNode(rows, c.node)

NewId(c) == CASE c.kind = "connect" -> unused.edges
              [] c.kind = "add" -> unused.nodes
              [] OTHER -> {NoEntry}

Becomes(c, d) == calls' = (calls \ {c}) \cup {d}

\* The answer gets through, or does not.
Serve(c) ==
    /\ c.state = "sent" /\ CanServe(c)
    /\ \E id \in NewId(c), through \in BOOLEAN :
           /\ rows' = Effect(c, id)
           /\ unused' = [nodes |-> unused.nodes \ {id},
                         edges |-> unused.edges \ {id}]
           /\ Becomes(c, IF ~through THEN [c EXCEPT !.state = "failed"]
                         ELSE IF c.kind = "add"
                         THEN [c EXCEPT !.state = "ok", !.target = id]
                         ELSE IF c.kind = "connect"
                         THEN [c EXCEPT !.state = "ok", !.edge = id]
                         ELSE [c EXCEPT !.state = "ok"])
           /\ doubt' = IF through THEN doubt ELSE doubt \cup {"lost"}
    /\ UNCHANGED <<graph, drawn, gestures>>

\* Refused, or failed on its way; deleting an edge that is gone already is
\* told from other failures.
Refuse(c) ==
    /\ c.state = "sent"
    /\ \E how \in {"failed"} \cup
                  (IF c.kind = "cut" /\ c.edge \in CanvasEdges /\ ~CanServe(c)
                   THEN {"missing"} ELSE {}) :
           Becomes(c, [c EXCEPT !.state = how])
    /\ UNCHANGED <<rows, graph, drawn, unused, gestures, doubt>>

\* deleteAgentNode takes the entry away in a statement of its own and may fail
\* before it deletes the node.  (What is served between the two of a delete
\* that succeeds leaves the rows as it would after both: an entry that names
\* the node is as good as none once the node is gone.)
FailsHalfway(c) ==
    /\ c.state = "sent" /\ c.kind \in {"delete", "remove"}
    /\ c.node = rows.entry
    /\ rows' = [rows EXCEPT !.entry = NoEntry]
    /\ Becomes(c, [c EXCEPT !.state = "failed"])
    /\ doubt' = doubt \cup {"lost"}
    /\ UNCHANGED <<graph, drawn, unused, gestures>>

-----------------------------------------------------------------------------

Done(c) == calls' = calls \ {c}
Settled == UNCHANGED <<rows, unused, gestures>>

\* Faulty variant: a failed delete leaves the picture as it is.
FailQuietly(c) ==
    /\ c.state = "failed" /\ c.kind \notin {"cut", "reroute"}
    /\ Done(c)
    /\ Settled /\ UNCHANGED <<graph, drawn, doubt>>

\* The picture is restored for a node; the others had not touched it.
Fail(c) ==
    /\ c.state = "failed" /\ c.kind \notin {"cut", "reroute"}
    /\ Done(c)
    /\ drawn' = IF c.kind = "delete"
                THEN [drawn EXCEPT !.nodes = @ \cup {c.node}] ELSE drawn
    /\ Settled /\ UNCHANGED <<graph, doubt>>

\* The catch of onReconnect looks for the edge under its old id.
RerouteAnswered(c) ==
    /\ c.kind = "reroute" /\ c.state # "sent"
    /\ Done(c)
    /\ drawn' = IF c.state = "failed" /\ c.edge \in DOMAIN drawn.edges
                THEN [drawn EXCEPT !.edges[c.edge] =
                         CHOOSE x \in c.ends : TRUE]
                ELSE drawn
    /\ Settled /\ UNCHANGED <<graph, doubt>>

\* addEdge draws no second edge between the same two nodes.
Connected(c) ==
    /\ c.kind = "connect" /\ c.state = "ok"
    /\ Done(c)
    /\ LET ends == [source |-> c.node, target |-> c.target]
           twice == \E e \in DOMAIN drawn.edges : drawn.edges[e] = ends
       IN  /\ graph' = [graph EXCEPT !.edges = With(@, c.edge, ends)]
           /\ drawn' = IF twice THEN drawn
                       ELSE [drawn EXCEPT !.edges = With(@, c.edge, ends)]
           /\ doubt' = IF twice THEN doubt \cup {"doubled"} ELSE doubt
    /\ Settled

\* appendNode, then connectIfRequested.
Added(c) ==
    /\ c.kind = "add" /\ c.state = "ok"
    /\ graph' = [graph EXCEPT !.nodes = @ \cup {c.target}]
    /\ drawn' = [drawn EXCEPT !.nodes = @ \cup {c.target}]
    /\ calls' = (calls \ {c}) \cup
                (IF c.node = NoEntry THEN {}
                 ELSE {Request("connect", c.node, NoEntry, c.target)})
    /\ Settled /\ UNCHANGED doubt

EntrySet(c) ==
    /\ c.kind = "entry" /\ c.state = "ok"
    /\ Done(c)
    /\ graph' = [graph EXCEPT !.entry = c.node]
    /\ Settled /\ UNCHANGED <<drawn, doubt>>

\* handleNodeUpdated: everything is drawn again from the graph it was given.
SettingsSaved(c) ==
    /\ c.kind = "save" /\ c.state = "ok"
    /\ Done(c)
    /\ graph' = [graph EXCEPT !.edges = c.seen]
    /\ drawn' = [drawn EXCEPT !.edges = c.seen]
    /\ Settled /\ UNCHANGED doubt

Deleted(c) ==
    /\ c.kind = "delete" /\ c.state = "ok"
    /\ Done(c)
    /\ graph' = WithoutNode(graph, c.node)
    /\ Settled /\ UNCHANGED <<drawn, doubt>>

Removed(c) ==
    /\ c.kind = "remove" /\ c.state = "ok"
    /\ Done(c)
    /\ graph' = WithoutNode(graph, c.node)
    /\ drawn' = [nodes |-> drawn.nodes \ {c.node},
                 edges |-> Without(drawn.edges, EdgesAt(drawn.edges, c.node))]
    /\ Settled /\ UNCHANGED doubt

\* One edge of persistEdgeDeletes is answered; the next one goes out.
CutAnswered(c) ==
    /\ c.kind = "cut" /\ c.state # "sent"
    /\ LET left == Without(c.rest, {c.edge})
       IN  calls' = (calls \ {c}) \cup
               {CutNext(c, e, left) : e \in FirstOf(DOMAIN left)}
    /\ IF c.state \in {"ok", "missing"}
       THEN /\ graph' = [graph EXCEPT !.edges = Without(@, {c.edge})]
            /\ UNCHANGED drawn
       ELSE /\ drawn' = [drawn EXCEPT !.edges =
                             With(@, c.edge, c.rest[c.edge])]
            /\ UNCHANGED graph
    /\ Settled /\ UNCHANGED doubt

Gestures ==
    \/ Reroute \/ Connect \/ AddAgent \/ ChooseEntry \/ SaveSettings
    \/ DeleteOnCanvas \/ DeleteEdgeOnCanvas \/ DeleteInPanel \/ ResetLayout

Answers(c) ==
    \/ Fail(c) \/ RerouteAnswered(c) \/ Connected(c) \/ Added(c) \/ EntrySet(c)
    \/ SettingsSaved(c) \/ Deleted(c) \/ Removed(c) \/ CutAnswered(c)

CanvasNext ==
    \/ Gestures
    \/ \E c \in calls : Serve(c) \/ Refuse(c) \/ FailsHalfway(c) \/ Answers(c)

CanvasSpec == CanvasInit /\ [][CanvasNext]_canvasVars

-----------------------------------------------------------------------------

\* The edges whose two ends are there, as pairs.
PairsOf(es, ns) ==
    {<<es[e].source, es[e].target>> : e \in
        {d \in DOMAIN es : {es[d].source, es[d].target} \subseteq ns}}

EntryAmong(g) == IF g.entry \in g.nodes THEN g.entry ELSE NoEntry

\* When every request is answered, the state the forms work on and the
\* picture are the stored graph: whatever connects, adds, deletes and entry
\* changes overlapped, in whatever order they were served and answered, and
\* whichever of them were refused.  Out of it: an answer that was lost, a node
\* delete that failed having taken the entry away already, a save or a reset
\* that overlapped with something, two entry changes or two node deletes at a
\* time, and, for the edges, a reroute or a second edge between the same two
\* nodes.  An entry that names no node there is counts as none.
CanvasShowsTheGraph ==
    calls = {} /\ doubt \cap {"overlap", "lost"} = {} =>
        /\ graph.nodes = rows.nodes
        /\ EntryAmong(graph) = EntryAmong(rows)
        /\ drawn.nodes = rows.nodes
        /\ doubt = {} =>
               /\ PairsOf(graph.edges, graph.nodes) =
                      PairsOf(rows.edges, rows.nodes)
               /\ PairsOf(drawn.edges, drawn.nodes) =
                      PairsOf(rows.edges, rows.nodes)

=============================================================================
