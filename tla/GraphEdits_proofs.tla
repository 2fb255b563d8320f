-------------------------- MODULE GraphEdits_proofs --------------------------
(***************************************************************************)
(* Theorems about GraphEdits, for any graph, any number of requests and    *)
(* any number of edits.  First what the versions promise: those invariants *)
(* say nothing of what the rows hold, and a step is looked at for what it  *)
(* does to the ids there are, the versions and the history.  Then what the *)
(* rows hold, as long as the edits come one at a time and whole.           *)
(***************************************************************************)
EXTENDS GraphEdits, FiniteSetTheorems, TLAPS

\* A request has its fields; what is in most of them does not matter here.
FieldNames == {"pc", "kind", "node", "edge", "ends", "config", "removed",
               "todo", "version", "snap"}
Fields(r) == r = [f \in FieldNames |-> r[f]]

Shape ==
    /\ edit = [q \in Requests |-> edit[q]]
    /\ \A q \in Requests : Fields(edit[q])

\* The other requests stay where they are.
Others(q) == \A p \in Requests \ {q} : edit'[p] = edit[p]

\* Two records of a request that stand for the same change.
SameChange(r, s) ==
    r.kind = s.kind /\ r.node = s.node /\ r.edge = s.edge

Same == UNCHANGED <<nodes, edges, gone, version, changes, snaps>>

\* What a step does, as far as the versions are concerned: a request begins,
Begun(q) ==
    LET r == edit'[q] IN
    /\ Same /\ Others(q)
    /\ r.pc \in {"clear", "write", "nodes"}
    /\ r.pc = "clear" => r.kind = "dropNode"
    /\ r.version \in {0, version} /\ r.snap = {}
    /\ r.kind = "addNode" => /\ r.node \in NodeId \ (nodes \cup gone)
                             /\ \A p \in Requests : edit[p].node # r.node
    /\ r.kind = "dropNode" => r.node \in nodes
    /\ r.kind = "addEdge" => /\ r.edge \in EdgeId \ (EdgeIds \cup gone)
                             /\ \A p \in Requests : edit[p].edge # r.edge
    /\ r.kind = "dropEdge" => r.edge \in EdgeIds

\* ends, or goes on to a step that changes neither rows nor versions,
Quiet(q) ==
    LET r == edit'[q] IN
    /\ Same /\ Others(q)
    /\ \/ r = NoEdit
       \/ /\ SameChange(r, edit[q])
          /\ r.pc \in {"write", "sync", "scrub", "scrubMaps"}
          /\ r.pc = "write" => edit[q].pc = "clear"

\* writes its row,
Wrote(q) ==
    LET r == edit[q] IN
    /\ UNCHANGED <<version, changes, snaps>> /\ Others(q)
    /\ r.pc = "write" /\ edit'[q].pc = "bump" /\ SameChange(edit'[q], r)
    /\ nodes' = CASE r.kind = "addNode" -> nodes \cup {r.node}
                  [] r.kind = "dropNode" -> nodes \ {r.node}
                  [] OTHER -> nodes
    /\ DOMAIN edges' =
           CASE r.kind = "addEdge" -> EdgeIds \cup {r.edge}
             [] r.kind = "dropEdge" -> EdgeIds \ {r.edge}
             [] r.kind = "dropNode" -> EdgeIds \ Touching(r.node)
             [] OTHER -> EdgeIds
    /\ gone' = CASE r.kind = "dropNode" -> gone \cup {r.node}
                                                \cup Touching(r.node)
                 [] r.kind = "dropEdge" -> gone \cup {r.edge}
                 [] OTHER -> gone

\* takes the next version,
Bumped(q) ==
    LET r == edit[q] IN
    /\ UNCHANGED <<nodes, edges, gone, changes, snaps>> /\ Others(q)
    /\ version' = version + 1
    /\ r.pc = "bump" /\ edit'[q].pc = "log"
    /\ edit'[q].version = version + 1 /\ SameChange(edit'[q], r)

\* logs it,
Logged(q) ==
    LET r == edit[q] IN
    /\ UNCHANGED <<nodes, edges, gone, version, snaps>> /\ Others(q)
    /\ r.pc = "log"
    /\ changes' = changes \cup
           {[version |-> r.version, kind |-> r.kind, id |-> Subject(q)]}
    /\ \/ edit'[q] = NoEdit
       \/ /\ edit'[q].pc \in {"sync", "scrub"}
          /\ SameChange(edit'[q], r)

\* reads the nodes of a snapshot,
SawNodes(q) ==
    LET r == edit[q] IN
    /\ Same /\ Others(q)
    /\ r.pc = "nodes" /\ edit'[q].pc = "edges" /\ SameChange(edit'[q], r)
    /\ edit'[q].version = r.version /\ edit'[q].snap = nodes

\* or its edges.
SawEdges(q) ==
    LET r == edit[q] IN
    /\ UNCHANGED <<nodes, edges, gone, version, changes>> /\ Others(q)
    /\ r.pc = "edges" /\ edit'[q] = NoEdit
    /\ snaps' = snaps \cup {[version |-> r.version, nodes |-> r.snap,
                             edges |-> EdgeIds, gone |-> gone]}

Effect(q) ==
    \/ Begun(q) \/ Quiet(q) \/ Wrote(q) \/ Bumped(q) \/ Logged(q)
    \/ SawNodes(q) \/ SawEdges(q)

-----------------------------------------------------------------------------

LEMMA Replaced ==
    ASSUME Shape, NEW q \in Requests, NEW r, Fields(r),
           edit' = [edit EXCEPT ![q] = r]
    PROVE  Shape' /\ Others(q) /\ edit'[q] = r
  BY DEF Shape, Others

LEMMA Stepped ==
    ASSUME Shape, NEW q \in Requests, NEW pc, Step(q, pc)
    PROVE  /\ Shape' /\ Others(q)
           /\ edit'[q].pc = pc /\ SameChange(edit'[q], edit[q])
  <1> DEFINE r == [edit[q] EXCEPT !.pc = pc]
  <1>1. edit' = [edit EXCEPT ![q] = r]
    BY DEF Step
  <1>3. Fields(r)
    BY DEF Shape, Fields
  <1>4. Shape' /\ Others(q) /\ edit'[q] = r
    <2> HIDE DEF r
    <2> QED
      BY <1>1, <1>3, Replaced
  <1>5. r.pc = pc /\ SameChange(r, edit[q])
    BY DEF SameChange, Shape, Fields, FieldNames
  <1> QED
    BY <1>4, <1>5

LEMMA NoEditHasFields == Fields(NoEdit)
  BY DEF NoEdit, Fields, FieldNames

LEMMA Ended ==
    ASSUME Shape, NEW q \in Requests, End(q)
    PROVE  Shape' /\ Others(q) /\ edit'[q] = NoEdit
  BY NoEditHasFields, Replaced DEF End

LEMMA BegunShape ==
    ASSUME Shape, NEW q \in Requests, NEW ids, NEW r, Fields(r),
           Begin(q, ids, r)
    PROVE  Shape' /\ Others(q) /\ edit'[q] = r
  BY Replaced DEF Begin

\* Every step is one request's and has one of these effects; an entry that is
\* set by hand has none.
LEMMA StepEffect ==
    ASSUME Shape, GraphNext
    PROVE  /\ Shape'
           /\ \/ \E q \in Requests : Effect(q)
              \/ Same /\ edit' = edit
  <1>1. ASSUME NEW q \in Requests, NEW n \in NodeId, AddNode(q, n)
        PROVE  Shape' /\ Begun(q)
    <2>1. PICK c : Begin(q, Refs(c), [NoEdit EXCEPT !.kind = "addNode", !.pc = "write",
                                          !.node = n, !.config = c])
      BY <1>1 DEF AddNode
    <2> DEFINE r == [NoEdit EXCEPT !.kind = "addNode", !.pc = "write",
                                   !.node = n, !.config = c]
    <2>2. /\ Fields(r) /\ r.pc = "write" /\ r.kind = "addNode"
          /\ r.node = n /\ r.version = 0 /\ r.snap = {}
      BY NoEditHasFields DEF Fields, FieldNames, NoEdit
    <2> HIDE DEF r
    <2>3. Shape' /\ Others(q) /\ edit'[q] = r
      BY <2>1, <2>2, BegunShape DEF r
    <2> QED
      BY <1>1, <2>2, <2>3 DEF Begun, Same, AddNode
  <1>2. ASSUME NEW q \in Requests, NEW n \in NodeId, PatchNode(q, n)
        PROVE  Shape' /\ Begun(q)
    <2>1. PICK c : Begin(q, Refs(c), [NoEdit EXCEPT !.kind = "patchNode",
                  !.pc = "write", !.node = n, !.config = c,
                  !.removed = {f \in DOMAIN c : c[f] # config[n][f]}])
      BY <1>2 DEF PatchNode
    <2> DEFINE r == [NoEdit EXCEPT !.kind = "patchNode",
                  !.pc = "write", !.node = n, !.config = c,
                  !.removed = {f \in DOMAIN c : c[f] # config[n][f]}]
    <2>2. /\ Fields(r) /\ r.pc = "write" /\ r.kind = "patchNode"
          /\ r.version = 0 /\ r.snap = {}
      BY NoEditHasFields DEF Fields, FieldNames, NoEdit
    <2> HIDE DEF r
    <2>3. Shape' /\ Others(q) /\ edit'[q] = r
      BY <2>1, <2>2, BegunShape DEF r
    <2> QED
      BY <1>2, <2>2, <2>3 DEF Begun, Same, PatchNode
  <1>3. ASSUME NEW q \in Requests, NEW n \in NodeId, DropNode(q, n)
        PROVE  Shape' /\ Begun(q)
    <2> DEFINE r == [NoEdit EXCEPT !.kind = "dropNode", !.pc = "clear",
                                   !.node = n, !.removed = Touching(n)]
    <2>2. /\ Fields(r) /\ r.pc = "clear" /\ r.kind = "dropNode"
          /\ r.node = n /\ r.version = 0 /\ r.snap = {}
      BY NoEditHasFields DEF Fields, FieldNames, NoEdit
    <2>1. Begin(q, {}, r)
      BY <1>3 DEF DropNode
    <2> HIDE DEF r
    <2>3. Shape' /\ Others(q) /\ edit'[q] = r
      BY <2>1, <2>2, BegunShape
    <2> QED
      BY <1>3, <2>2, <2>3 DEF Begun, Same, DropNode
  <1>4. ASSUME NEW q \in Requests, NEW e \in EdgeId, AddEdge(q, e)
        PROVE  Shape' /\ Begun(q)
    <2>1. PICK ends, todo : Begin(q, {}, [NoEdit EXCEPT !.kind = "addEdge",
              !.pc = "write", !.edge = e, !.ends = ends, !.todo = todo])
      BY <1>4 DEF AddEdge
    <2> DEFINE r == [NoEdit EXCEPT !.kind = "addEdge",
              !.pc = "write", !.edge = e, !.ends = ends, !.todo = todo]
    <2>2. /\ Fields(r) /\ r.pc = "write" /\ r.kind = "addEdge"
          /\ r.edge = e /\ r.version = 0 /\ r.snap = {}
      BY NoEditHasFields DEF Fields, FieldNames, NoEdit
    <2> HIDE DEF r
    <2>3. Shape' /\ Others(q) /\ edit'[q] = r
      BY <2>1, <2>2, BegunShape DEF r
    <2> QED
      BY <1>4, <2>2, <2>3 DEF Begun, Same, AddEdge
  <1>5. ASSUME NEW q \in Requests, NEW e \in EdgeId, NEW n \in Node,
               MoveEdge(q, e, n)
        PROVE  Shape' /\ Begun(q)
    <2> DEFINE r == [NoEdit EXCEPT !.kind = "moveEdge", !.pc = "write",
                                   !.edge = e, !.node = n]
    <2>2. /\ Fields(r) /\ r.pc = "write" /\ r.kind = "moveEdge"
          /\ r.version = 0 /\ r.snap = {}
      BY NoEditHasFields DEF Fields, FieldNames, NoEdit
    <2>1. Begin(q, {n} \ {NoNode}, r)
      BY <1>5 DEF MoveEdge
    <2> HIDE DEF r
    <2>3. Shape' /\ Others(q) /\ edit'[q] = r
      BY <2>1, <2>2, BegunShape
    <2> QED
      BY <1>5, <2>2, <2>3 DEF Begun, Same, MoveEdge
  <1>6. ASSUME NEW q \in Requests, NEW e \in EdgeId, DropEdge(q, e)
        PROVE  Shape' /\ Begun(q)
    <2> DEFINE r == [NoEdit EXCEPT !.kind = "dropEdge", !.pc = "write",
                                   !.edge = e, !.removed = {e}]
    <2>2. /\ Fields(r) /\ r.pc = "write" /\ r.kind = "dropEdge"
          /\ r.edge = e /\ r.version = 0 /\ r.snap = {}
      BY NoEditHasFields DEF Fields, FieldNames, NoEdit
    <2>1. Begin(q, {}, r)
      BY <1>6 DEF DropEdge
    <2> HIDE DEF r
    <2>3. Shape' /\ Others(q) /\ edit'[q] = r
      BY <2>1, <2>2, BegunShape
    <2> QED
      BY <1>6, <2>2, <2>3 DEF Begun, Same, DropEdge
  <1>7. ASSUME NEW q \in Requests, SnapRow(q)
        PROVE  Shape' /\ Begun(q)
    <2> DEFINE r == [NoEdit EXCEPT !.pc = "nodes", !.version = version]
    <2>2. /\ Fields(r) /\ r.pc = "nodes" /\ r.kind = "snapshot"
          /\ r.version = version /\ r.snap = {}
      BY NoEditHasFields DEF Fields, FieldNames, NoEdit
    <2>1. Begin(q, {}, r)
      BY <1>7 DEF SnapRow
    <2> HIDE DEF r
    <2>3. Shape' /\ Others(q) /\ edit'[q] = r
      BY <2>1, <2>2, BegunShape
    <2> QED
      BY <1>7, <2>2, <2>3 DEF Begun, Same, SnapRow
  <1>8. ASSUME NEW n \in NodeId, SetEntry(n)
        PROVE  Shape' /\ Same /\ edit' = edit
    BY <1>8 DEF SetEntry, Same, Shape
  <1>9. ASSUME NEW q \in Requests, ClearEntry(q)
        PROVE  Shape' /\ Quiet(q)
    BY <1>9, Stepped DEF ClearEntry, Quiet, Same, Stage
  <1>10. ASSUME NEW q \in Requests, WriteNode(q)
         PROVE  Shape' /\ Wrote(q)
    <2>1. Shape' /\ Others(q) /\ edit'[q].pc = "bump"
                /\ SameChange(edit'[q], edit[q])
      BY <1>10, Stepped DEF WriteNode
    <2>2. /\ edit[q].pc = "write" /\ UNCHANGED <<version, changes, snaps>>
          /\ edges' = edges /\ gone' = gone
      BY <1>10 DEF WriteNode, Stage
    <2>3. CASE edit[q].kind = "addNode"
      <3>1. nodes' = nodes \cup {edit[q].node}
        BY <1>10, <2>3 DEF WriteNode
      <3> QED
        BY <2>1, <2>2, <2>3, <3>1 DEF Wrote, EdgeIds
    <2>4. CASE edit[q].kind = "patchNode"
      <3>1. nodes' = nodes
        BY <1>10, <2>4 DEF WriteNode
      <3> QED
        BY <2>1, <2>2, <2>4, <3>1 DEF Wrote, EdgeIds
    <2> QED
      BY <1>10, <2>3, <2>4 DEF WriteNode
  <1>11. ASSUME NEW q \in Requests, DeleteNode(q)
         PROVE  Shape' /\ Wrote(q)
    <2>1. Shape' /\ Others(q) /\ edit'[q].pc = "bump"
                /\ SameChange(edit'[q], edit[q])
      BY <1>11, Stepped DEF DeleteNode
    <2>2. DOMAIN edges' = EdgeIds \ Touching(edit[q].node)
      BY <1>11 DEF DeleteNode, Keeping
    <2> QED
      BY <1>11, <2>1, <2>2 DEF DeleteNode, Wrote, Stage
  <1>12. ASSUME NEW q \in Requests, WriteEdge(q)
         PROVE  Shape' /\ (Wrote(q) \/ Quiet(q))
    <2> DEFINE e == edit[q].edge
               n == edit[q].node
               ends == edit[q].ends
               moves == edit[q].kind = "moveEdge" /\ e \in EdgeIds
                            /\ n # NoNode
    <2>0. PICK fails \in BOOLEAN :
          /\ Stage(q, "write") /\ edit[q].kind \in {"addEdge", "moveEdge"}
          /\ edges' =
                  IF fails THEN edges
                  ELSE IF edit[q].kind = "addEdge"
                       THEN [f \in EdgeIds \cup {e} |->
                                 IF f = e THEN ends ELSE edges[f]]
                  ELSE IF moves THEN [edges EXCEPT ![e].dst = n]
                  ELSE edges
          /\ IF fails THEN End(q) ELSE Step(q, "bump")
          /\ UNCHANGED <<nodes, gone, version, changes, snaps>>
      BY <1>12 DEF WriteEdge
    <2>1. CASE fails
      <3>1. Shape' /\ Others(q) /\ edit'[q] = NoEdit
        BY <2>0, <2>1, Ended
      <3> QED
        BY <2>0, <2>1, <3>1 DEF Quiet, Same
    <2>2. CASE ~fails
      <3>1. Shape' /\ Others(q) /\ edit'[q].pc = "bump"
                  /\ SameChange(edit'[q], edit[q])
        BY <2>0, <2>2, Stepped
      <3>2. DOMAIN edges' = IF edit[q].kind = "addEdge" THEN EdgeIds \cup {e}
                            ELSE EdgeIds
        BY <2>0, <2>2 DEF EdgeIds
      <3>3. CASE edit[q].kind = "addEdge"
        BY <2>0, <3>1, <3>2, <3>3 DEF Wrote, Stage
      <3>4. CASE edit[q].kind = "moveEdge"
        BY <2>0, <3>1, <3>2, <3>4 DEF Wrote, Stage
      <3> QED
        BY <2>0, <3>3, <3>4
    <2> QED
      BY <2>1, <2>2
  <1>13. ASSUME NEW q \in Requests, DeleteEdge(q)
         PROVE  Shape' /\ Wrote(q)
    <2>1. Shape' /\ Others(q) /\ edit'[q].pc = "bump"
                /\ SameChange(edit'[q], edit[q])
      BY <1>13, Stepped DEF DeleteEdge
    <2>2. DOMAIN edges' = EdgeIds \ {edit[q].edge}
      BY <1>13 DEF DeleteEdge, Keeping
    <2> QED
      BY <1>13, <2>1, <2>2 DEF DeleteEdge, Wrote, Stage
  <1>14. ASSUME NEW q \in Requests, Bump(q)
         PROVE  Shape' /\ Bumped(q)
    <2> DEFINE r == [edit[q] EXCEPT !.pc = "log", !.version = version + 1]
    <2>1. edit' = [edit EXCEPT ![q] = r]
      BY <1>14 DEF Bump
    <2>3. /\ Fields(r) /\ r.pc = "log" /\ r.version = version + 1
          /\ SameChange(r, edit[q])
      BY DEF SameChange, Shape, Fields, FieldNames
    <2> HIDE DEF r
    <2>4. Shape' /\ Others(q) /\ edit'[q] = r
      BY <2>1, <2>3, Replaced
    <2> QED
      BY <1>14, <2>3, <2>4 DEF Bump, Bumped, Stage
  <1>15. ASSUME NEW q \in Requests, Log(q)
         PROVE  Shape' /\ Logged(q)
    <2>1. CASE After(edit[q].kind) = "idle"
      <3>1. Shape' /\ Others(q) /\ edit'[q] = NoEdit
        BY <1>15, <2>1, Ended DEF Log, LogAs
      <3> QED
        BY <1>15, <3>1 DEF Log, LogAs, Logged, Stage
    <2>2. CASE After(edit[q].kind) # "idle"
      <3>1. Shape' /\ Others(q) /\ edit'[q].pc = After(edit[q].kind)
                  /\ SameChange(edit'[q], edit[q])
        BY <1>15, <2>2, Stepped DEF Log, LogAs
      <3>2. After(edit[q].kind) \in {"sync", "scrub"}
        BY <2>2 DEF After
      <3> QED
        BY <1>15, <3>1, <3>2 DEF Log, LogAs, Logged, Stage
    <2> QED
      BY <2>1, <2>2
  <1>16. ASSUME NEW q \in Requests,
                SyncGroup(q) \/ ScrubMaps(q) \/ CutEdit(q)
         PROVE  Shape' /\ Quiet(q)
    <2>1. End(q) /\ Same
      BY <1>16 DEF SyncGroup, ScrubMaps, CutEdit, Same
    <2> QED
      BY <2>1, Ended DEF Quiet
  <1>17. ASSUME NEW q \in Requests, NEW todo,
                NEW pc \in {"scrub", "scrubMaps"},
                edit' = [edit EXCEPT ![q].todo = todo, ![q].pc = pc], Same
         PROVE  Shape' /\ Quiet(q)
    <2> DEFINE r == [edit[q] EXCEPT !.todo = todo, !.pc = pc]
    <2>1. edit' = [edit EXCEPT ![q] = r]
      BY <1>17
    <2>3. Fields(r) /\ r.pc = pc /\ SameChange(r, edit[q])
      BY DEF SameChange, Shape, Fields, FieldNames
    <2> HIDE DEF r
    <2>4. Shape' /\ Others(q) /\ edit'[q] = r
      BY <2>1, <2>3, Replaced
    <2> QED
      BY <1>17, <2>3, <2>4 DEF Quiet
  <1>18. ASSUME NEW q \in Requests, NEW todo, edit[q].pc = "scrub",
                edit' = [edit EXCEPT ![q].todo = todo], Same
         PROVE  Shape' /\ Quiet(q)
    <2> DEFINE r == [edit[q] EXCEPT !.todo = todo]
    <2>1. edit' = [edit EXCEPT ![q] = r]
      BY <1>18
    <2>3. Fields(r) /\ r.pc = "scrub" /\ SameChange(r, edit[q])
      BY <1>18 DEF SameChange, Shape, Fields, FieldNames
    <2> HIDE DEF r
    <2>4. Shape' /\ Others(q) /\ edit'[q] = r
      BY <2>1, <2>3, Replaced
    <2> QED
      BY <1>18, <2>3, <2>4 DEF Quiet
  <1>19. ASSUME NEW q \in Requests, NEW pc \in {"scrubMaps"}, Step(q, pc), Same
         PROVE  Shape' /\ Quiet(q)
    BY <1>19, Stepped DEF Quiet
  <1>20. ASSUME NEW q \in Requests, Scrub(q)
         PROVE  Shape' /\ Quiet(q)
    <2>1. Same /\ edit[q].pc = "scrub"
      BY <1>20 DEF Scrub, Same, Stage
    <2>2. \/ \E todo : edit' = [edit EXCEPT ![q].todo = todo]
          \/ End(q) \/ Step(q, "scrubMaps")
      BY <1>20 DEF Scrub
    <2> QED
      BY <1>18, <1>19, <2>1, <2>2, Ended DEF Quiet
  <1>21. ASSUME NEW q \in Requests, ScrubOne(q)
         PROVE  Shape' /\ Quiet(q)
    <2>1. Same /\ edit[q].pc = "scrub"
      BY <1>21 DEF ScrubOne, Same, Stage
    <2>2. \/ \E f : edit' = [edit EXCEPT ![q].todo = @ \ {f}]
          \/ End(q)
          \/ edit' = [edit EXCEPT ![q].todo = {}, ![q].pc = "scrubMaps"]
      BY <1>21 DEF ScrubOne
    <2>3. CASE \E f : edit' = [edit EXCEPT ![q].todo = @ \ {f}]
      <3>1. \E todo : edit' = [edit EXCEPT ![q].todo = todo]
        BY <2>3
      <3> QED
        BY <1>18, <2>1, <3>1
    <2> QED
      BY <1>17, <2>1, <2>2, <2>3, Ended DEF Quiet
  <1>22. ASSUME NEW q \in Requests, SnapNodes(q)
         PROVE  Shape' /\ SawNodes(q)
    <2> DEFINE r == [edit[q] EXCEPT !.pc = "edges", !.snap = nodes]
    <2>1. edit' = [edit EXCEPT ![q] = r]
      BY <1>22 DEF SnapNodes
    <2>3. /\ Fields(r) /\ r.pc = "edges" /\ r.version = edit[q].version
          /\ r.snap = nodes /\ SameChange(r, edit[q])
      BY DEF SameChange, Shape, Fields, FieldNames
    <2> HIDE DEF r
    <2>4. Shape' /\ Others(q) /\ edit'[q] = r
      BY <2>1, <2>3, Replaced
    <2> QED
      BY <1>22, <2>3, <2>4 DEF SnapNodes, SawNodes, Same, Stage
  <1>23. ASSUME NEW q \in Requests, SnapEdges(q)
         PROVE  Shape' /\ SawEdges(q)
    <2>1. Shape' /\ Others(q) /\ edit'[q] = NoEdit
      BY <1>23, Ended DEF SnapEdges, SnapAs
    <2> QED
      BY <1>23, <2>1 DEF SnapEdges, SnapAs, SawEdges, Stage
  <1> QED
    BY <1>1, <1>2, <1>3, <1>4, <1>5, <1>6, <1>7, <1>8, <1>9, <1>10, <1>11,
       <1>12, <1>13, <1>14, <1>15, <1>16, <1>20, <1>21, <1>22, <1>23
       DEF GraphNext, Effect

-----------------------------------------------------------------------------

\* What has been given a version: the history, and what is about to join it.
Entry(q) == [version |-> edit[q].version, kind |-> edit[q].kind,
             id |-> Subject(q)]
Logging == {Entry(q) : q \in {p \in Requests : edit[p].pc = "log"}}
Versioned == changes \cup Logging

\* No two of them share a version.
Numbered ==
    /\ version \in Nat
    /\ \A c \in Versioned : c.version \in 1..version
    /\ \A c, d \in Versioned : c.version = d.version => c = d

\* A step adds nothing to what has a version, but for the one that takes the
\* next.
LEMMA VersionedStep ==
    ASSUME Shape, NEW q \in Requests, Effect(q), NEW c \in Versioned'
    PROVE  \/ c \in Versioned
           \/ /\ Bumped(q) /\ c = Entry(q)'
              /\ c.version = version + 1 /\ c.kind = edit[q].kind
              /\ c.id = Subject(q)
  <1>1. CASE c \in changes
    BY <1>1 DEF Versioned
  <1>2. CASE c \in changes' \ changes
    <2>1. Logged(q)
      BY <1>2
         DEF Effect, Begun, Same, Quiet, Wrote, Bumped, SawNodes, SawEdges
    <2> QED
      BY <1>2, <2>1 DEF Logged, Versioned, Logging, Entry
  <1>3. ASSUME NEW p \in Requests, edit'[p].pc = "log", c = Entry(p)'
        PROVE  \/ c \in Versioned
               \/ /\ Bumped(q) /\ c = Entry(q)'
                  /\ c.version = version + 1 /\ c.kind = edit[q].kind
                  /\ c.id = Subject(q)
    <2>1. CASE p # q
      <3>1. edit'[p] = edit[p]
        BY <2>1 DEF Effect, Begun, Quiet, Wrote, Bumped, Logged, SawNodes,
                    SawEdges, Others
      <3>2. Entry(p)' = Entry(p)
        BY <3>1 DEF Entry, Subject
      <3> QED
        BY <1>3, <3>1, <3>2 DEF Versioned, Logging
    <2>2. CASE p = q
      <3>1. Bumped(q)
        BY <1>3, <2>2 DEF Effect, Begun, Quiet, Wrote, Logged, SawNodes,
                          SawEdges, NoEdit
      <3>2. edit'[q].version = version + 1 /\ SameChange(edit'[q], edit[q])
        BY <3>1 DEF Bumped
      <3>3. Subject(q)' = Subject(q)
        BY <3>2 DEF SameChange, Subject
      <3> QED
        BY <1>3, <2>2, <3>1, <3>2, <3>3 DEF Entry, SameChange
    <2> QED
      BY <2>1, <2>2
  <1> QED
    BY <1>1, <1>2, <1>3 DEF Versioned, Logging

LEMMA VersionGrows ==
    ASSUME NEW q \in Requests, Effect(q)
    PROVE  version' = IF Bumped(q) THEN version + 1 ELSE version
  BY DEF Effect, Begun, Same, Quiet, Wrote, Bumped, Logged, SawNodes, SawEdges

LEMMA NumberedStep ==
    ASSUME Shape, Numbered, [GraphNext]_graphVars
    PROVE  Numbered'
  <1>1. CASE Same /\ edit' = edit
    <2>1. Versioned' = Versioned /\ version' = version
      BY <1>1 DEF Same, Versioned, Logging, Entry, Subject
    <2> QED
      BY <2>1 DEF Numbered
  <1>2. ASSUME NEW q \in Requests, Effect(q)
        PROVE  Numbered'
    <2>1. version' \in Nat /\ version \in Nat /\ version <= version'
      BY <1>2, VersionGrows DEF Numbered
    <2>2. CASE Bumped(q)
      <3>1. version' = version + 1
        BY <2>2 DEF Bumped
      <3>2. \A c \in Versioned' :
                \/ c \in Versioned
                \/ c = Entry(q)' /\ c.version = version + 1
        BY <1>2, VersionedStep
      <3>3. \A c \in Versioned :
                /\ c.version \in 1..version /\ c.version \in Nat
                /\ c.version # version + 1
        BY <2>1 DEF Numbered
      <3>4. \A c \in Versioned' : c.version \in 1..version'
        BY <2>1, <3>1, <3>2, <3>3
      <3>5. ASSUME NEW c \in Versioned', NEW d \in Versioned',
                   c.version = d.version
            PROVE  c = d
        BY <3>2, <3>3, <3>5 DEF Numbered
      <3> QED
        BY <2>1, <3>4, <3>5 DEF Numbered
    <2>3. CASE ~Bumped(q)
      <3>1. \A c \in Versioned' : c \in Versioned
        BY <1>2, <2>3, VersionedStep
      <3>2. version' = version
        BY <1>2, <2>3, VersionGrows
      <3> QED
        BY <2>1, <3>1, <3>2 DEF Numbered
    <2> QED
      BY <2>2, <2>3
  <1>3. CASE UNCHANGED graphVars
    BY <1>1, <1>3 DEF graphVars, Same
  <1> QED
    BY <1>1, <1>2, <1>3, StepEffect

LEMMA ShapeStep ==
    ASSUME Shape, [GraphNext]_graphVars
    PROVE  Shape'
  BY StepEffect DEF graphVars, Shape

LEMMA InitShape == GraphInit => Shape /\ Numbered
  <1> SUFFICES ASSUME GraphInit PROVE Shape /\ Numbered
    OBVIOUS
  <1>1. \A q \in Requests : edit[q] = NoEdit
    BY DEF GraphInit
  <1>2. Shape
    BY <1>1, NoEditHasFields DEF GraphInit, Shape
  <1>3. Versioned = {}
    BY <1>1 DEF GraphInit, Versioned, Logging, NoEdit
  <1> QED
    BY <1>2, <1>3 DEF GraphInit, Numbered

\* However the statements of edits interleave, and wherever a request is cut
\* short, no two rows of the history carry the same version.
THEOREM VersionsAreDistinct == GraphSpec => []VersionsDistinct
  <1>1. Shape /\ Numbered /\ [GraphNext]_graphVars => (Shape /\ Numbered)'
    BY ShapeStep, NumberedStep
  <1>2. Numbered => VersionsDistinct
    BY DEF Numbered, VersionsDistinct, Versioned
  <1> QED
    BY <1>1, <1>2, InitShape, PTL DEF GraphSpec

-----------------------------------------------------------------------------

\* Two requests that add or delete a row do not mean the same row unless it
\* is there.
Rivals(p, q) ==
    /\ edit[q].kind = "addNode" /\ edit[p].kind \in {"addNode", "dropNode"} =>
           edit[p].node # edit[q].node
    /\ edit[q].kind = "addEdge" /\ edit[p].kind \in {"addEdge", "dropEdge"} =>
           edit[p].edge # edit[q].edge

\* Ids are not used again: a row that is there was not deleted, and one that
\* is about to be added has not been there and is nobody else's to add.
Apart ==
    /\ nodes \subseteq NodeId /\ EdgeIds \subseteq EdgeId
    /\ nodes \cap gone = {} /\ EdgeIds \cap gone = {}
    /\ \A q \in Requests :
           /\ edit[q].kind \in {"addNode", "dropNode"} =>
                  edit[q].node \in NodeId
           /\ edit[q].kind \in {"addEdge", "dropEdge"} =>
                  edit[q].edge \in EdgeId
           /\ edit[q].pc = "clear" => edit[q].kind = "dropNode"
           /\ edit[q].pc = "write" =>
                  /\ edit[q].kind = "addNode" =>
                         edit[q].node \notin nodes \cup gone
                  /\ edit[q].kind = "addEdge" =>
                         edit[q].edge \notin EdgeIds \cup gone
                  /\ \A p \in Requests \ {q} : Rivals(p, q)

LEMMA ApartStep ==
    ASSUME Shape, Apart, [GraphNext]_graphVars
    PROVE  Apart'
  <1>1. CASE Same /\ edit' = edit
    BY <1>1 DEF Same, Apart, Rivals, EdgeIds
  <1>2. ASSUME NEW q \in Requests, Begun(q)
        PROVE  Apart'
    <2>1. /\ nodes' = nodes /\ EdgeIds' = EdgeIds /\ gone' = gone
          /\ \A p \in Requests \ {q} : edit'[p] = edit[p]
      BY <1>2 DEF Begun, Same, Others, EdgeIds
    <2>2. /\ edit'[q].kind \in {"addNode", "dropNode"} =>
                 edit'[q].node \in NodeId
          /\ edit'[q].kind \in {"addEdge", "dropEdge"} =>
                 edit'[q].edge \in EdgeId
      BY <1>2 DEF Begun, Apart
    <2>3. ASSUME NEW p \in Requests \ {q}
          PROVE  /\ Rivals(p, q)'
                 /\ edit[p].pc = "write" => Rivals(q, p)'
      <3>1. Rivals(p, q)'
        BY <1>2, <2>1 DEF Begun, Rivals
      <3>2. ASSUME edit[p].pc = "write" PROVE Rivals(q, p)'
        BY <1>2, <2>1, <3>2 DEF Begun, Rivals, Apart
      <3> QED
        BY <3>1, <3>2
    <2>4. ASSUME NEW p \in Requests \ {q}, edit'[p].pc = "write",
                 NEW o \in Requests \ {p}
          PROVE  Rivals(o, p)'
      <3>1. CASE o = q
        BY <2>1, <2>3, <2>4, <3>1
      <3>2. CASE o # q
        BY <2>1, <2>4, <3>2 DEF Apart, Rivals
      <3> QED
        BY <3>1, <3>2
    <2> QED
      BY <1>2, <2>1, <2>2, <2>3, <2>4 DEF Begun, Apart
  <1>3. ASSUME NEW q \in Requests,
               \A p \in Requests \ {q} : edit'[p] = edit[p],
               \/ edit'[q] = NoEdit
               \/ /\ SameChange(edit'[q], edit[q])
                  /\ edit'[q].pc # "clear"
                  /\ edit'[q].pc = "write" => edit[q].pc = "clear",
               nodes' = nodes, EdgeIds' = EdgeIds, gone' = gone
        PROVE  Apart'
    <2>1. ASSUME NEW p \in Requests
          PROVE  /\ edit'[p].kind \in {"addNode", "dropNode"} =>
                        edit'[p].node \in NodeId
                 /\ edit'[p].kind \in {"addEdge", "dropEdge"} =>
                        edit'[p].edge \in EdgeId
                 /\ edit'[p].pc = "clear" => edit'[p].kind = "dropNode"
      BY <1>3 DEF Apart, SameChange, NoEdit
    <2>2. ASSUME NEW p \in Requests, edit'[p].pc = "write"
          PROVE  /\ edit'[p].kind = "addNode" =>
                        edit'[p].node \notin nodes \cup gone
                 /\ edit'[p].kind = "addEdge" =>
                        edit'[p].edge \notin EdgeIds \cup gone
                 /\ \A o \in Requests \ {p} : Rivals(o, p)'
      <3>1. CASE p = q
        BY <1>3, <2>2, <3>1 DEF Apart, SameChange, NoEdit, Rivals
      <3>2. CASE p # q
        BY <1>3, <2>2, <3>2 DEF Apart, SameChange, NoEdit, Rivals
      <3> QED
        BY <3>1, <3>2
    <2> QED
      BY <1>3, <2>1, <2>2 DEF Apart
  <1>4. ASSUME NEW q \in Requests, Wrote(q)
        PROVE  Apart'
    <2> DEFINE r == edit[q]
    <2>1. /\ \A p \in Requests \ {q} : edit'[p] = edit[p]
          /\ edit'[q].pc = "bump" /\ SameChange(edit'[q], r) /\ r.pc = "write"
      BY <1>4 DEF Wrote, Others
    <2>2. Touching(r.node) \subseteq EdgeIds
      BY DEF Touching
    <2>3. /\ nodes' \subseteq NodeId /\ EdgeIds' \subseteq EdgeId
          /\ nodes' \cap gone' = {} /\ EdgeIds' \cap gone' = {}
      <3>1. CASE r.kind = "addNode"
        BY <1>4, <2>1, <3>1 DEF Wrote, Apart, EdgeIds
      <3>2. CASE r.kind = "dropNode"
        BY <1>4, <2>1, <2>2, <3>2, GraphAssumption DEF Wrote, Apart, EdgeIds
      <3>3. CASE r.kind = "addEdge"
        BY <1>4, <2>1, <3>3 DEF Wrote, Apart, EdgeIds
      <3>4. CASE r.kind = "dropEdge"
        BY <1>4, <2>1, <3>4, GraphAssumption DEF Wrote, Apart, EdgeIds
      <3>5. CASE r.kind \notin {"addNode", "dropNode", "addEdge", "dropEdge"}
        BY <1>4, <2>1, <3>5 DEF Wrote, Apart, EdgeIds
      <3> QED
        BY <3>1, <3>2, <3>3, <3>4, <3>5
    <2>4. ASSUME NEW p \in Requests
          PROVE  /\ edit'[p].kind \in {"addNode", "dropNode"} =>
                        edit'[p].node \in NodeId
                 /\ edit'[p].kind \in {"addEdge", "dropEdge"} =>
                        edit'[p].edge \in EdgeId
                 /\ edit'[p].pc = "clear" => edit'[p].kind = "dropNode"
      BY <2>1 DEF Apart, SameChange
    <2>5. ASSUME NEW p \in Requests \ {q}, edit'[p].pc = "write"
          PROVE  \A o \in Requests \ {p} : Rivals(o, p)'
      BY <2>1, <2>5 DEF Apart, Rivals, SameChange
    <2>6. ASSUME NEW p \in Requests \ {q}, edit'[p].pc = "write"
          PROVE  /\ edit'[p].kind = "addNode" =>
                        edit'[p].node \notin nodes' \cup gone'
                 /\ edit'[p].kind = "addEdge" =>
                        edit'[p].edge \notin EdgeIds' \cup gone'
      <3>0. /\ edit'[p] = edit[p] /\ Rivals(q, p)
            /\ edit[p].kind = "addNode" =>
                   /\ edit[p].node \in NodeId
                   /\ edit[p].node \notin nodes \cup gone
            /\ edit[p].kind = "addEdge" =>
                   /\ edit[p].edge \in EdgeId
                   /\ edit[p].edge \notin EdgeIds \cup gone
        BY <2>1, <2>6 DEF Apart
      <3>1. CASE r.kind = "addNode"
        BY <1>4, <3>0, <3>1 DEF Wrote, Apart, EdgeIds, Rivals
      <3>2. CASE r.kind = "dropNode"
        BY <1>4, <2>2, <3>0, <3>2, GraphAssumption
           DEF Wrote, Apart, EdgeIds, Rivals
      <3>3. CASE r.kind = "addEdge"
        BY <1>4, <3>0, <3>3 DEF Wrote, Apart, EdgeIds, Rivals
      <3>4. CASE r.kind = "dropEdge"
        BY <1>4, <3>0, <3>4, GraphAssumption DEF Wrote, Apart, EdgeIds, Rivals
      <3>5. CASE r.kind \notin {"addNode", "dropNode", "addEdge", "dropEdge"}
        BY <1>4, <3>0, <3>5 DEF Wrote, Apart, EdgeIds
      <3> QED
        BY <3>1, <3>2, <3>3, <3>4, <3>5
    <2> QED
      BY <2>1, <2>3, <2>4, <2>5, <2>6 DEF Apart
  <1>5. ASSUME NEW q \in Requests,
               Quiet(q) \/ Bumped(q) \/ Logged(q) \/ SawNodes(q) \/ SawEdges(q)
        PROVE  Apart'
    <2>1. /\ \A p \in Requests \ {q} : edit'[p] = edit[p]
          /\ nodes' = nodes /\ EdgeIds' = EdgeIds /\ gone' = gone
      BY <1>5 DEF Quiet, Bumped, Logged, SawNodes, SawEdges, Same, Others,
                  EdgeIds
    <2>2. \/ edit'[q] = NoEdit
          \/ /\ SameChange(edit'[q], edit[q])
             /\ edit'[q].pc # "clear"
             /\ edit'[q].pc = "write" => edit[q].pc = "clear"
      BY <1>5 DEF Quiet, Bumped, Logged, SawNodes, SawEdges
    <2> QED
      BY <1>3, <2>1, <2>2
  <1>6. CASE UNCHANGED graphVars
    BY <1>1, <1>6 DEF graphVars, Same
  <1> QED
    BY <1>1, <1>2, <1>4, <1>5, <1>6, StepEffect DEF Effect

\* Rows come and go, but what was there is there or was deleted.
LEMMA RowsStay ==
    ASSUME NEW q \in Requests, Effect(q)
    PROVE  /\ nodes \cup gone \subseteq nodes' \cup gone'
           /\ EdgeIds \cup gone \subseteq EdgeIds' \cup gone'
           /\ gone \subseteq gone'
  <1>1. CASE Wrote(q)
    <2> DEFINE r == edit[q]
    <2>1. CASE r.kind = "addNode"
      BY <1>1, <2>1 DEF Wrote, EdgeIds
    <2>2. CASE r.kind = "dropNode"
      BY <1>1, <2>2 DEF Wrote, EdgeIds
    <2>3. CASE r.kind = "addEdge"
      BY <1>1, <2>3 DEF Wrote, EdgeIds
    <2>4. CASE r.kind = "dropEdge"
      BY <1>1, <2>4 DEF Wrote, EdgeIds
    <2>5. CASE r.kind \notin {"addNode", "dropNode", "addEdge", "dropEdge"}
      BY <1>1, <2>5 DEF Wrote, EdgeIds
    <2> QED
      BY <2>1, <2>2, <2>3, <2>4, <2>5
  <1>2. CASE ~Wrote(q)
    BY <1>2 DEF Effect, Begun, Quiet, Bumped, Logged, SawNodes, SawEdges, Same,
                EdgeIds
  <1> QED
    BY <1>1, <1>2

-----------------------------------------------------------------------------

\* What a change with a version did is done, or undone by a delete.
Effective(kind, id) ==
    /\ kind = "addNode" => id \in NodeId /\ id \in nodes \cup gone
    /\ kind = "addEdge" => id \in EdgeId /\ id \in EdgeIds \cup gone
    /\ kind = "dropNode" => id \in NodeId /\ id \in gone
    /\ kind = "dropEdge" => id \in EdgeId /\ id \in gone

\* Rows are written before their version is taken.
WrittenFirst ==
    /\ \A c \in Versioned : Effective(c.kind, c.id)
    /\ \A q \in Requests :
           edit[q].pc = "bump" => Effective(edit[q].kind, Subject(q))

LEMMA EffectiveStays ==
    ASSUME NEW q \in Requests, Effect(q), NEW kind, NEW id, Effective(kind, id)
    PROVE  Effective(kind, id)'
  BY RowsStay DEF Effective

LEMMA WrittenStep ==
    ASSUME Shape, Apart, WrittenFirst, [GraphNext]_graphVars
    PROVE  WrittenFirst'
  <1>1. CASE Same /\ edit' = edit
    <2>1. Versioned' = Versioned
      BY <1>1 DEF Same, Versioned, Logging, Entry, Subject
    <2> QED
      BY <1>1, <2>1 DEF WrittenFirst, Effective, Same, EdgeIds, Subject
  <1>2. ASSUME NEW q \in Requests, Effect(q)
        PROVE  WrittenFirst'
    <2>1. ASSUME NEW c \in Versioned'
          PROVE  Effective(c.kind, c.id)'
      <3>1. CASE c \in Versioned
        BY <1>2, <3>1, EffectiveStays DEF WrittenFirst
      <3>2. CASE c \notin Versioned
        <4>1. /\ edit[q].pc = "bump"
              /\ c.kind = edit[q].kind /\ c.id = Subject(q)
          BY <1>2, <3>2, VersionedStep DEF Bumped
        <4>2. Effective(edit[q].kind, Subject(q))
          BY <4>1 DEF WrittenFirst
        <4> QED
          BY <1>2, <4>1, <4>2, EffectiveStays
      <3> QED
        BY <3>1, <3>2
    <2>2. ASSUME NEW p \in Requests, edit'[p].pc = "bump"
          PROVE  Effective(edit[p].kind, Subject(p))'
      <3>1. CASE p # q
        <4>1. edit'[p] = edit[p]
          BY <1>2, <3>1 DEF Effect, Begun, Quiet, Wrote, Bumped, Logged,
                            SawNodes, SawEdges, Others
        <4>2. PICK k, i : k = edit[p].kind /\ i = Subject(p)
          OBVIOUS
        <4>3. edit'[p].kind = k /\ Subject(p)' = i
          BY <4>1, <4>2 DEF Subject
        <4>4. Effective(k, i)
          BY <2>2, <4>1, <4>2 DEF WrittenFirst
        <4>5. Effective(k, i)'
          BY <1>2, <4>4, EffectiveStays
        <4> QED
          BY <4>3, <4>5
      <3>2. CASE p = q
        <4>1. Wrote(q)
          BY <1>2, <2>2, <3>2 DEF Effect, Begun, Quiet, Bumped, Logged,
                                  SawNodes, SawEdges, NoEdit
        <4> DEFINE r == edit[q]
        <4>2. SameChange(edit'[q], r) /\ Subject(q)' = Subject(q)
          BY <4>1 DEF Wrote, SameChange, Subject
        <4>3. CASE r.kind = "addNode"
          BY <3>2, <4>1, <4>2, <4>3
             DEF Wrote, SameChange, Effective, Subject, Apart
        <4>4. CASE r.kind = "dropNode"
          BY <3>2, <4>1, <4>2, <4>4
             DEF Wrote, SameChange, Effective, Subject, Apart
        <4>5. CASE r.kind = "addEdge"
          BY <3>2, <4>1, <4>2, <4>5
             DEF Wrote, SameChange, Effective, Subject, Apart, EdgeIds
        <4>6. CASE r.kind = "dropEdge"
          BY <3>2, <4>1, <4>2, <4>6
             DEF Wrote, SameChange, Effective, Subject, Apart
        <4>7. CASE r.kind \notin {"addNode", "dropNode", "addEdge", "dropEdge"}
          BY <3>2, <4>2, <4>7 DEF SameChange, Effective
        <4> QED
          BY <4>3, <4>4, <4>5, <4>6, <4>7
      <3> QED
        BY <3>1, <3>2
    <2> QED
      BY <2>1, <2>2 DEF WrittenFirst
  <1>3. CASE UNCHANGED graphVars
    BY <1>1, <1>3 DEF graphVars, Same
  <1> QED
    BY <1>1, <1>2, <1>3, StepEffect

-----------------------------------------------------------------------------

\* The nodes a snapshot has read, against a change up to its version.
NodesHold(seen, c) ==
    /\ c.kind = "addNode" => c.id \in seen \cup gone
    /\ c.kind = "dropNode" => c.id \notin seen

\* A snapshot under way carries a version there has been, and what it has read
\* holds every change up to it.
SnapsHold ==
    \A q \in Requests :
        /\ edit[q].pc \in {"nodes", "edges"} => edit[q].version \in 0..version
        /\ edit[q].pc = "edges" =>
               /\ edit[q].snap \subseteq NodeId
               /\ \A c \in Versioned :
                      c.version <= edit[q].version =>
                          NodesHold(edit[q].snap, c)

\* A snapshot that was taken, against a change up to its version.
Holds(s, c) ==
    LET there == s.nodes \cup s.edges IN
    /\ c.kind \in {"addNode", "addEdge"} => c.id \in there \cup s.gone
    /\ c.kind \in {"dropNode", "dropEdge"} => c.id \notin there

TakenHold ==
    \A s \in snaps :
        /\ s.version \in 0..version
        /\ \A c \in Versioned : c.version <= s.version => Holds(s, c)

LEMMA SnapsStep ==
    ASSUME Shape, Numbered, Apart, WrittenFirst, SnapsHold,
           [GraphNext]_graphVars
    PROVE  SnapsHold'
  <1>1. CASE Same /\ edit' = edit
    <2>1. Versioned' = Versioned
      BY <1>1 DEF Same, Versioned, Logging, Entry, Subject
    <2> QED
      BY <1>1, <2>1 DEF SnapsHold, NodesHold, Same
  <1>2. ASSUME NEW q \in Requests, Effect(q), NEW p \in Requests
        PROVE  /\ edit'[p].pc \in {"nodes", "edges"} =>
                      edit'[p].version \in 0..version'
               /\ edit'[p].pc = "edges" =>
                      /\ edit'[p].snap \subseteq NodeId
                      /\ \A c \in Versioned' :
                             c.version <= edit'[p].version =>
                                 NodesHold(edit[p].snap, c)'
    <2>1. /\ version \in Nat /\ version' \in Nat /\ version <= version'
          /\ gone \subseteq gone'
      BY <1>2, VersionGrows, RowsStay DEF Numbered
    <2>2. \A c \in Versioned' : c \in Versioned \/ c.version = version + 1
      BY <1>2, VersionedStep
    <2>3. CASE edit'[p] = edit[p]
      <3>1. CASE edit[p].pc = "nodes"
        BY <2>1, <2>3, <3>1 DEF SnapsHold
      <3>2. CASE edit[p].pc = "edges"
        <4>1. edit[p].version \in 0..version /\ edit[p].snap \subseteq NodeId
          BY <3>2 DEF SnapsHold
        <4>2. ASSUME NEW c \in Versioned', c.version <= edit[p].version
              PROVE  NodesHold(edit[p].snap, c)'
          <5>1. c \in Versioned
            BY <2>1, <2>2, <4>1, <4>2
          <5>2. NodesHold(edit[p].snap, c)
            BY <3>2, <4>2, <5>1 DEF SnapsHold
          <5> QED
            BY <2>1, <2>3, <5>2 DEF NodesHold
        <4> QED
          BY <2>1, <2>3, <3>2, <4>1, <4>2
      <3> QED
        BY <2>3, <3>1, <3>2
    <2>4. CASE p = q /\ Begun(q)
      BY <2>1, <2>4 DEF Begun, Same
    <2>5. CASE p = q /\ SawNodes(q)
      <3>1. /\ edit'[q].version = edit[q].version /\ edit'[q].snap = nodes
            /\ edit[q].version \in 0..version /\ Versioned' \subseteq Versioned
            /\ gone' = gone /\ version' = version /\ edit'[q].pc = "edges"
        <4>1. ~Bumped(q)
          BY <2>5 DEF SawNodes, Bumped
        <4> QED
          BY <1>2, <2>5, <4>1, VersionedStep DEF SawNodes, SnapsHold, Same
      <3>2. ASSUME NEW c \in Versioned
            PROVE  NodesHold(nodes, c)
        BY DEF WrittenFirst, Effective, NodesHold, Apart
      <3> QED
        BY <2>1, <2>5, <3>1, <3>2 DEF NodesHold, Apart
    <2>6. CASE p = q /\ ~Begun(q) /\ ~SawNodes(q)
      <3>1. edit'[q].pc \notin {"nodes", "edges"}
        BY <1>2, <2>6 DEF Effect, Quiet, Wrote, Bumped, Logged, SawEdges,
                          NoEdit
      <3> QED
        BY <2>6, <3>1
    <2>7. CASE p # q
      BY <1>2, <2>3, <2>7 DEF Effect, Begun, Quiet, Wrote, Bumped, Logged,
                              SawNodes, SawEdges, Others
    <2> QED
      BY <2>4, <2>5, <2>6, <2>7
  <1>3. CASE UNCHANGED graphVars
    BY <1>1, <1>3 DEF graphVars, Same
  <1> QED
    BY <1>1, <1>2, <1>3, StepEffect DEF SnapsHold

LEMMA TakenStep ==
    ASSUME Shape, Numbered, Apart, WrittenFirst, SnapsHold, TakenHold,
           [GraphNext]_graphVars
    PROVE  TakenHold'
  <1>1. CASE Same /\ edit' = edit
    <2>1. Versioned' = Versioned
      BY <1>1 DEF Same, Versioned, Logging, Entry, Subject
    <2> QED
      BY <1>1, <2>1 DEF TakenHold, Same
  <1>2. ASSUME NEW q \in Requests, Effect(q), NEW s \in snaps'
        PROVE  /\ s.version \in 0..version'
               /\ \A c \in Versioned' : c.version <= s.version => Holds(s, c)
    <2>1. version \in Nat /\ version' \in Nat /\ version <= version'
      BY <1>2, VersionGrows DEF Numbered
    <2>2. \A c \in Versioned' : c \in Versioned \/ c.version = version + 1
      BY <1>2, VersionedStep
    <2>3. CASE s \in snaps
      BY <2>1, <2>2, <2>3 DEF TakenHold
    <2>4. CASE s \notin snaps
      <3>1. SawEdges(q)
        BY <1>2, <2>4 DEF Effect, Begun, Quiet, Wrote, Bumped, Logged,
                          SawNodes, Same
      <3>2. s = [version |-> edit[q].version, nodes |-> edit[q].snap,
                 edges |-> EdgeIds, gone |-> gone]
        BY <2>4, <3>1 DEF SawEdges
      <3>3. edit[q].version \in 0..version /\ edit[q].snap \subseteq NodeId
        BY <3>1 DEF SawEdges, SnapsHold
      <3>4. ASSUME NEW c \in Versioned, c.version <= s.version
            PROVE  Holds(s, c)
        <4>1. NodesHold(edit[q].snap, c) /\ Effective(c.kind, c.id)
          BY <3>1, <3>2, <3>4 DEF SawEdges, SnapsHold, WrittenFirst
        <4> QED
          BY <3>2, <3>3, <4>1, GraphAssumption
             DEF NodesHold, Effective, Holds, Apart
      <3>5. version' = version /\ Versioned' \subseteq Versioned
        <4>1. ~Bumped(q)
          BY <3>1 DEF SawEdges, Bumped
        <4> QED
          BY <1>2, <3>1, <4>1, VersionedStep DEF SawEdges
      <3> QED
        BY <3>2, <3>3, <3>4, <3>5
    <2> QED
      BY <2>3, <2>4
  <1>3. CASE UNCHANGED graphVars
    BY <1>1, <1>3 DEF graphVars, Same
  <1> QED
    BY <1>1, <1>2, <1>3, StepEffect DEF TakenHold

SnapshotInv ==
    Shape /\ Numbered /\ Apart /\ WrittenFirst /\ SnapsHold /\ TakenHold

LEMMA InitSnapshots == GraphInit => SnapshotInv
  <1> SUFFICES ASSUME GraphInit PROVE SnapshotInv
    OBVIOUS
  <1>1. \A q \in Requests : edit[q] = NoEdit
    BY DEF GraphInit
  <1>2. Versioned = {}
    BY <1>1 DEF GraphInit, Versioned, Logging, NoEdit
  <1>3. Apart
    BY <1>1, GraphAssumption DEF GraphInit, Apart, NoEdit, EdgeIds
  <1>4. WrittenFirst /\ SnapsHold /\ TakenHold
    BY <1>1, <1>2 DEF GraphInit, WrittenFirst, SnapsHold, TakenHold, NoEdit
  <1> QED
    BY <1>3, <1>4, InitShape DEF SnapshotInv

\* A snapshot that says version v holds what every change up to v wrote and
\* nothing that one deleted, however many edits and snapshots interleave:
\* rows are written before the version is taken, and the snapshot reads the
\* version first.
THEOREM SnapshotsHoldTheirVersion == GraphSpec => []SnapshotHoldsItsVersion
  <1>1. SnapshotInv /\ [GraphNext]_graphVars => SnapshotInv'
    BY ShapeStep, NumberedStep, ApartStep, WrittenStep, SnapsStep, TakenStep
       DEF SnapshotInv
  <1>2. SnapshotInv => SnapshotHoldsItsVersion
    BY DEF SnapshotInv, TakenHold, Holds, Versioned, SnapshotHoldsItsVersion
  <1> QED
    BY <1>1, <1>2, InitSnapshots, PTL DEF GraphSpec

-----------------------------------------------------------------------------
(* Edits that come one at a time and whole.                                *)

\* A group is whole: its edges and its aggregator are there, but for those
\* that are being taken out.
GroupStands(m, N, E) ==
    /\ config[m].branches \subseteq EdgeIds \cup strays \cup E
    /\ config[m].agg \in nodes \cup strays \cup {NoNode} \cup N

MapStands(m, N) ==
    {config[m].target, config[m].mapAgg}
        \subseteq nodes \cup strays \cup {NoNode} \cup N

Clean ==
    /\ entry \in nodes \cup strays \cup {NoNode}
    /\ \A m \in nodes : GroupStands(m, {}, {}) /\ MapStands(m, {})

\* A config has an aggregator exactly if it has branches.
Paired(c) == c.branches = {} <=> c.agg = NoNode

Well ==
    /\ nodes \subseteq NodeId
    /\ config \in [NodeId -> Config]
    /\ \A n \in NodeId : Paired(config[n])
    /\ EdgeIds \subseteq EdgeId
    /\ strays \subseteq NodeId \cup EdgeId
    /\ edges \in [EdgeIds -> [src : nodes, dst : nodes \cup strays,
                             auto : BOOLEAN]]

Ungated ==
    \A n \in nodes :
        config[n].gate => \A m \in nodes \ {n} : ~FansOutTo(m, n)

Alone == \A p, q \in Requests : Busy(p) /\ Busy(q) => p = q

Dropping(r) == r.kind \in {"dropNode", "dropEdge"}
Deleting(r) == Dropping(r) /\ r.pc \in {"bump", "log", "scrub", "scrubMaps"}

Staged(r) ==
    /\ r.pc \in Steps
    /\ r.pc \in {"write", "bump", "log"} => r.kind \in Kinds \ {"snapshot"}
    /\ r.pc = "sync" => r.kind = "addEdge"
    /\ r.pc = "scrub" => Dropping(r)
    /\ r.pc \in {"clear", "scrubMaps"} => r.kind = "dropNode"
    /\ r.pc \in {"nodes", "edges"} => r.kind = "snapshot"
    /\ r.kind = "dropEdge" => r.node = NoNode
    /\ Dropping(r) /\ r.pc \in {"clear", "write", "bump", "log"} => r.todo = {}

\* What a request has validated still holds when it writes.
Valid(n, c) ==
    /\ c \in Config /\ Paired(c)
    /\ c.branches \subseteq EdgeIds \cup strays
    /\ {c.agg, c.target, c.mapAgg} \subseteq nodes \cup strays \cup {NoNode}
    /\ c.target \in nodes /\ c.target # n => ~config[c.target].gate
    /\ \A e \in c.branches \cap EdgeIds : ~config[edges[e].dst].gate
    /\ c.gate => \A m \in nodes \ {n} : ~FansOutTo(m, n)

JoinsGroup(r) ==
    r.todo # {} =>
        LET m == r.ends.src IN
        /\ r.ends \in [src : nodes, dst : nodes, auto : BOOLEAN]
        /\ config[m].branches # {} /\ ~config[r.ends.dst].gate
        /\ r.todo = {[node |-> m, group |->
                        [branches |-> config[m].branches \cup {r.edge},
                         agg |-> config[m].agg]]}

Unchanging(r) ==
    /\ r.kind = "addNode" /\ r.pc = "write" =>
           /\ r.node \in NodeId \ (nodes \cup strays)
           /\ Valid(r.node, r.config)
    /\ r.kind = "patchNode" /\ r.pc = "write" =>
           /\ r.node \in nodes /\ Valid(r.node, r.config)
           /\ r.config.target # r.node
           /\ \A f \in DOMAIN Plain \ r.removed :
                  r.config[f] = config[r.node][f]
    /\ r.kind = "addEdge" /\ r.pc = "write" =>
           /\ r.edge \in EdgeId \ (EdgeIds \cup strays)
           /\ r.ends \in [src : nodes, dst : nodes, auto : BOOLEAN]
           /\ JoinsGroup(r)
    /\ r.kind = "addEdge" /\ r.pc \in {"bump", "log", "sync"} =>
           /\ r.edge \in EdgeIds /\ edges[r.edge] = r.ends
           /\ JoinsGroup(r)
    /\ r.kind = "moveEdge" /\ r.pc = "write" =>
           /\ r.edge \in EdgeIds /\ r.node \in nodes \cup strays \cup {NoNode}
           /\ r.node \in nodes /\ config[r.node].gate =>
                  \A m \in nodes : r.edge \notin config[m].branches
    /\ r.kind = "dropNode" /\ r.pc \in {"clear", "write"} =>
           /\ r.node \in nodes /\ r.removed = Touching(r.node)
           /\ r.pc = "write" => entry # r.node
    /\ r.kind = "dropEdge" /\ r.pc = "write" =>
           r.edge \in EdgeIds /\ r.removed = {r.edge}

\* What is being taken out, and how far the scrubs have come.
Scrubbing(r) ==
    Deleting(r) =>
        /\ entry \in nodes \cup strays \cup {NoNode}
        /\ r.node \notin nodes /\ r.removed \cap EdgeIds = {}
        /\ \A m \in nodes :
               /\ GroupStands(m, {r.node}, r.removed) /\ MapStands(m, {r.node})
               /\ r.pc = "scrubMaps" => GroupStands(m, {}, {})
               /\ r.todo # {} /\ ~GroupStands(m, {}, {}) =>
                      \E f \in r.todo : f.node = m
        /\ \A f \in r.todo :
               /\ f.node \in nodes
               /\ f = [node |-> f.node, group |->
                         Scrubbed(Group(f.node), r.node, r.removed)]
               /\ config[f.node].branches # {}

Knows(r) == Staged(r) /\ Unchanging(r) /\ Scrubbing(r)

Sound ==
    ~disturbed =>
        /\ Well /\ Ungated /\ Alone
        /\ (\A q \in Requests : ~Deleting(edit[q])) => Clean
        /\ \A q \in Requests : Knows(edit[q])

LEMMA KnowsNoEdit == Knows(NoEdit) /\ Knows(NoEdit)'
  BY DEF Knows, NoEdit, Staged, Unchanging, Scrubbing, Dropping, Deleting, Steps

\* The request's record, and what of it a step keeps.
SameBut(r, s, fs) == \A f \in FieldNames \ fs : r[f] = s[f]

LEMMA StepRecord ==
    ASSUME Shape, NEW q \in Requests, NEW pc, Step(q, pc)
    PROVE  \E r : /\ Fields(r) /\ edit' = [edit EXCEPT ![q] = r]
                  /\ r.pc = pc /\ SameBut(r, edit[q], {"pc"})
  <1> DEFINE r == [edit[q] EXCEPT !.pc = pc]
  <1>1. edit' = [edit EXCEPT ![q] = r]
    BY DEF Step
  <1>2. Fields(r) /\ r.pc = pc /\ SameBut(r, edit[q], {"pc"})
    BY DEF Shape, Fields, FieldNames, SameBut
  <1> QED
    BY <1>1, <1>2

\* Where requests come one at a time, a step leaves nobody at work but the one
\* that takes it.
LEMMA OneAtATime ==
    ASSUME Shape, Alone, NEW q \in Requests, Others(q),
           Busy(q) \/ \A p \in Requests : ~Busy(p)
    PROVE  /\ \A p \in Requests \ {q} :
                  edit'[p].pc = "idle" /\ edit'[p] = edit[p]
           /\ Alone'
  BY DEF Others, Alone, Busy, Stage

LEMMA SoundAfter ==
    ASSUME Shape, Sound, ~disturbed, NEW q \in Requests, Others(q),
           Busy(q) \/ \A p \in Requests : ~Busy(p),
           NEW r, edit'[q] = r, Well', Ungated', Knows(r)',
           Deleting(r) \/ Clean'
    PROVE  Sound'
  <1>1. /\ \A p \in Requests \ {q} :
               edit'[p].pc = "idle" /\ edit'[p] = edit[p]
        /\ Alone'
    BY OneAtATime DEF Sound
  <1>2. ASSUME NEW p \in Requests
        PROVE  Knows(edit[p])'
    <2>1. CASE p = q
      BY <2>1
    <2>2. CASE p # q
      <3>1. PICK s : s = edit[p]
        OBVIOUS
      <3>2. s.pc = "idle" /\ edit'[p] = s
        BY <1>1, <2>2, <3>1
      <3>3. Knows(s)
        BY <3>1 DEF Sound
      <3>4. Knows(s)'
        BY <3>2, <3>3 DEF Knows, Staged, Unchanging, Scrubbing, Deleting
      <3> QED
        BY <3>2, <3>4
    <2> QED
      BY <2>1, <2>2
  <1>3. ((\A p \in Requests : ~Deleting(edit[p])) => Clean)'
    BY DEF Deleting, Dropping
  <1> QED
    BY <1>1, <1>2, <1>3 DEF Sound

Rows == <<nodes, config, edges, entry, strays>>

LEMMA RowsUnchanged ==
    ASSUME UNCHANGED Rows, NEW r
    PROVE  /\ Well' <=> Well
           /\ Ungated' <=> Ungated
           /\ Clean' <=> Clean
           /\ Knows(r)' <=> Knows(r)
  <1>1. UNCHANGED <<nodes, config, edges, entry, strays>>
    BY DEF Rows
  <1>2. Unchanging(r)' <=> Unchanging(r)
    BY <1>1 DEF Unchanging, Valid, FansOutTo, JoinsGroup, Touching, EdgeIds
  <1>3. Scrubbing(r)' <=> Scrubbing(r)
    BY <1>1 DEF Scrubbing, GroupStands, MapStands, EdgeIds, Group
  <1> QED
    BY <1>1, <1>2, <1>3 DEF Well, Ungated, Clean, Knows, FansOutTo, GroupStands,
       MapStands, EdgeIds

\* What beginning does: an id that is named and not there is a stray.
Named(ids) == strays' = strays \cup (ids \ (nodes \cup EdgeIds))

\* A request begins: nobody else is at work, and the graph is clean.
LEMMA BeginSound ==
    ASSUME Shape, Sound, ~disturbed', NEW q \in Requests, NEW r, Fields(r),
           NEW ids \in SUBSET (NodeId \cup EdgeId), Begin(q, ids, r),
           UNCHANGED <<nodes, config, edges, entry>>,
           Well /\ Clean /\ Ungated => Knows(r)' /\ ~Deleting(r)
    PROVE  Sound'
  <1>1. ~disturbed /\ (\A p \in Requests : ~Busy(p)) /\ Named(ids)
    BY DEF Begin, Spend, Named
  <1>2. Clean /\ Well /\ Ungated
    BY <1>1 DEF Sound, Deleting, Busy, Stage
  <1>3. Others(q) /\ edit'[q] = r
    BY BegunShape
  <1>4. Well' /\ Ungated'
    BY <1>1, <1>2 DEF Well, Ungated, FansOutTo, EdgeIds, Named
  <1>5. Clean'
    BY <1>1, <1>2 DEF Clean, GroupStands, MapStands, EdgeIds, Named
  <1> QED
    BY <1>1, <1>2, <1>3, <1>4, <1>5, SoundAfter

\* The same for a request that names nothing new.
LEMMA BeginPlain ==
    ASSUME Shape, Sound, ~disturbed', NEW q \in Requests, NEW r, Fields(r),
           Begin(q, {}, r), UNCHANGED <<nodes, config, edges, entry>>,
           Well /\ Clean /\ Ungated => Knows(r) /\ ~Deleting(r)
    PROVE  Sound'
  <1>1. UNCHANGED Rows
    BY DEF Begin, Spend, Rows
  <1> QED
    BY <1>1, RowsUnchanged, BeginSound

LEMMA NameKept ==
    ASSUME NEW q \in Requests, NEW ids, NEW r, Begin(q, ids, r)
    PROVE  Named(ids)
  BY DEF Begin, Spend, Named

\* What a body makes of a well-formed row.
LEMMA BodyIsWell ==
    ASSUME NEW old \in Config, Paired(old), NEW c \in Bodies(old)
    PROVE  /\ c \in Config /\ Paired(c)
           /\ Refs(c) \subseteq NodeId \cup EdgeId
  <1>1. \/ \E g \in BOOLEAN : c = [old EXCEPT !.gate = g]
        \/ c = Grouping(old, {}, NoNode)
        \/ c = Mapping(old, NoNode, NoNode)
        \/ \E b \in {s \in SUBSET (EdgeId \ Coming) : Cardinality(s) >= 2},
              x \in Ids : c = Grouping(old, b, x)
        \/ \E t \in Ids, x \in Ids \cup {NoNode} : c = Mapping(old, t, x)
    BY SMT DEF Bodies
  <1>2. c \in Config /\ Paired(c)
    <2>1. ASSUME NEW b \in {s \in SUBSET (EdgeId \ Coming) : Cardinality(s) >= 2},
                 NEW x \in Ids, c = Grouping(old, b, x)
          PROVE  c \in Config /\ Paired(c)
      <3>1. b # {} /\ b \in SUBSET EdgeId
        BY FS_EmptySet
      <3>2. x # NoNode /\ x \in Node
        BY GraphAssumption DEF Ids, Node
      <3>3. c = [gate |-> old.gate, branches |-> b, agg |-> x,
                 target |-> old.target, mapAgg |-> old.mapAgg]
        BY <2>1 DEF Config, Grouping
      <3> QED
        BY <3>1, <3>2, <3>3 DEF Config, Paired
    <2>2. ASSUME NEW t \in Ids, NEW x \in Ids \cup {NoNode},
                 c = Mapping(old, t, x)
          PROVE  c \in Config /\ Paired(c)
      <3>1. t \in Node /\ x \in Node
        BY DEF Ids, Node
      <3>2. c = [gate |-> old.gate, branches |-> old.branches,
                 agg |-> old.agg, target |-> t, mapAgg |-> x]
        BY <2>2 DEF Config, Mapping
      <3> QED
        BY <3>1, <3>2 DEF Config, Paired
    <2>3. CASE \E g \in BOOLEAN : c = [old EXCEPT !.gate = g]
      BY <2>3 DEF Config, Paired
    <2>4. CASE c = Grouping(old, {}, NoNode) \/ c = Mapping(old, NoNode, NoNode)
      BY <2>4 DEF Config, Paired, Node, Grouping, Mapping
    <2> QED
      BY <1>1, <2>1, <2>2, <2>3, <2>4
  <1> QED
    BY <1>2 DEF Config, Refs, Node

\* The references of a body are there or become strays.
LEMMA RefsKnown ==
    ASSUME Well, NEW c \in Config, Named(Refs(c)), nodes' = nodes, edges' = edges
    PROVE  /\ c.branches \subseteq EdgeIds \cup strays'
           /\ {c.agg, c.target, c.mapAgg} \subseteq nodes \cup strays' \cup {NoNode}
  BY GraphAssumption DEF Well, Config, Refs, Named, Node

\* A request that changes no row goes on.
LEMMA GoesOn ==
    ASSUME Shape, Sound, ~disturbed, NEW q \in Requests, Busy(q), NEW r,
           Fields(r), edit' = [edit EXCEPT ![q] = r], UNCHANGED Rows,
           Knows(r), Deleting(r) \/ ~Deleting(edit[q]) \/ Clean
    PROVE  Sound'
  <1>1. Others(q) /\ edit'[q] = r
    BY Replaced
  <1>2. Well /\ Ungated /\ Alone
    BY DEF Sound
  <1>3. Deleting(r) \/ Clean
    BY <1>2 DEF Sound, Alone, Busy, Stage, Deleting
  <1> QED
    BY <1>1, <1>2, <1>3, RowsUnchanged, SoundAfter

LEMMA AddNodeSound ==
    ASSUME Shape, Sound, ~disturbed', NEW q \in Requests, NEW n \in NodeId,
           AddNode(q, n)
    PROVE  Sound'
  <1>1. PICK c \in Bodies(Plain) :
            /\ n \notin Refs(c) /\ ~GateRefused(NoNode, c)
            /\ Begin(q, Refs(c), [NoEdit EXCEPT !.kind = "addNode",
                             !.pc = "write", !.node = n, !.config = c])
    BY DEF AddNode
  <1> DEFINE r == [NoEdit EXCEPT !.kind = "addNode", !.pc = "write",
                                 !.node = n, !.config = c]
  <1>2. /\ Fields(r) /\ r.pc = "write" /\ r.kind = "addNode"
        /\ r.node = n /\ r.config = c /\ r.todo = {}
    BY NoEditHasFields DEF Fields, FieldNames, NoEdit
  <1>3. /\ UNCHANGED <<nodes, config, edges, entry>>
        /\ n \in NodeId \ (nodes \cup strays) /\ Named(Refs(c))
    BY <1>1, NameKept DEF AddNode
  <1>4. /\ c \in Config /\ Paired(c)
        /\ Refs(c) \in SUBSET (NodeId \cup EdgeId)
    <2>1. Plain \in Config /\ Paired(Plain)
      BY DEF Plain, Config, Paired, Node
    <2> QED
      BY <1>1, <2>1, BodyIsWell
  <1>5. ASSUME Well, Clean
        PROVE  Valid(n, c)'
    <2>1. /\ c.branches \subseteq EdgeIds \cup strays'
          /\ {c.agg, c.target, c.mapAgg} \subseteq nodes \cup strays' \cup {NoNode}
      BY <1>3, <1>4, <1>5, RefsKnown
    <2>2. /\ c.target \in nodes => ~config[c.target].gate
          /\ \A e \in c.branches \cap EdgeIds : ~config[edges[e].dst].gate
      BY <1>1 DEF GateRefused
    <2>3. \A m \in nodes : ~FansOutTo(m, n)
      <3>1. ASSUME NEW m \in nodes, config[m].target = n
            PROVE  FALSE
        BY <1>3, <1>5, <3>1, GraphAssumption DEF Clean, MapStands
      <3>2. ASSUME NEW m \in nodes, NEW e \in config[m].branches \cap EdgeIds,
                   edges[e].dst = n
            PROVE  FALSE
        BY <1>3, <1>5, <3>2 DEF Well
      <3> QED
        BY <3>1, <3>2 DEF FansOutTo
    <2> QED
      BY <1>3, <1>4, <2>1, <2>2, <2>3 DEF Valid, FansOutTo, EdgeIds
  <1>6. Well /\ Clean => Knows(r)' /\ ~Deleting(r)
    <2>1. n \in NodeId \ (nodes' \cup strays')
      BY <1>1, <1>3 DEF Named
    <2> HIDE DEF r
    <2> QED
      BY <1>2, <1>5, <2>1 DEF Knows, Staged, Unchanging, Scrubbing, Deleting,
                              Dropping, Kinds, Steps
  <1> HIDE DEF r
  <1> QED
    BY <1>1, <1>2, <1>3, <1>4, <1>6, BeginSound DEF r

LEMMA PatchNodeSound ==
    ASSUME Shape, Sound, ~disturbed', NEW q \in Requests, NEW n \in NodeId,
           PatchNode(q, n)
    PROVE  Sound'
  <1>1. PICK c \in Bodies(config[n]) :
            /\ ~GateRefused(n, c) /\ ~SelfReferential(n, c)
            /\ Begin(q, Refs(c), [NoEdit EXCEPT !.kind = "patchNode", !.pc = "write",
                  !.node = n, !.config = c,
                  !.removed = {f \in DOMAIN c : c[f] # config[n][f]}])
    BY DEF PatchNode
  <1> DEFINE removed == {f \in DOMAIN c : c[f] # config[n][f]}
             r == [NoEdit EXCEPT !.kind = "patchNode", !.pc = "write",
                  !.node = n, !.config = c, !.removed = removed]
  <1>2. /\ Fields(r) /\ r.pc = "write" /\ r.kind = "patchNode"
        /\ r.node = n /\ r.config = c /\ r.todo = {} /\ r.removed = removed
    BY NoEditHasFields DEF Fields, FieldNames, NoEdit
  <1>3. /\ UNCHANGED <<nodes, config, edges, entry>> /\ n \in nodes
        /\ Named(Refs(c))
    BY <1>1, NameKept DEF PatchNode
  <1>4. ASSUME Well, Clean, Ungated
        PROVE  /\ Valid(n, c)' /\ c.target # n
               /\ \A f \in DOMAIN Plain \ removed : c[f] = config[n][f]
    <2>1. config[n] \in Config /\ Paired(config[n])
      BY <1>3, <1>4 DEF Well
    <2>2. c \in Config /\ Paired(c)
      BY <1>1, <2>1, BodyIsWell
    <2>3. /\ c.branches \subseteq EdgeIds \cup strays'
          /\ {c.agg, c.target, c.mapAgg} \subseteq nodes \cup strays' \cup {NoNode}
      BY <1>3, <1>4, <2>2, RefsKnown
    <2>4. DOMAIN c = DOMAIN Plain
      BY <2>2 DEF Config, Plain
    <2>5. \A f \in DOMAIN Plain \ removed : c[f] = config[n][f]
      BY <2>4
    <2>6. c.target # n
      BY <1>1 DEF SelfReferential
    <2> QED
      BY <1>1, <1>3, <2>2, <2>3, <2>5, <2>6
         DEF Valid, GateRefused, FansOutTo, EdgeIds
  <1>5. PICK f : f = r
    OBVIOUS
  <1>6. /\ Fields(f) /\ f.pc = "write" /\ f.kind = "patchNode"
        /\ f.node = n /\ f.config = c /\ f.todo = {} /\ f.removed = removed
    BY <1>2, <1>5
  <1>7. Begin(q, Refs(c), f)
    BY <1>1, <1>5
  <1> HIDE DEF removed, r
  <1>8. Well /\ Clean /\ Ungated =>
            Knows(f)' /\ ~Deleting(f) /\ Refs(c) \in SUBSET (NodeId \cup EdgeId)
    <2> SUFFICES ASSUME Well, Clean, Ungated
                 PROVE  /\ Knows(f)' /\ ~Deleting(f)
                        /\ Refs(c) \in SUBSET (NodeId \cup EdgeId)
      OBVIOUS
    <2>1. n \in nodes' /\ \A x \in DOMAIN Plain \ f.removed :
                              f.config[x] = config'[n][x]
      BY <1>3, <1>4, <1>6
    <2>2. Valid(f.node, f.config)' /\ f.config.target # f.node
      BY <1>4, <1>6
    <2>3. Refs(c) \in SUBSET (NodeId \cup EdgeId)
      BY <1>1, <1>3, BodyIsWell DEF Well
    <2> QED
      BY <1>6, <2>1, <2>2, <2>3
         DEF Knows, Staged, Unchanging, Scrubbing, Deleting, Dropping, Kinds,
             Steps
  <1>9. ~disturbed /\ \A p \in Requests : ~Busy(p)
    BY <1>7 DEF Begin, Spend
  <1>10. Clean /\ Well /\ Ungated
    BY <1>9 DEF Sound, Deleting, Busy, Stage
  <1> QED
    BY <1>3, <1>6, <1>7, <1>8, <1>10, BeginSound

LEMMA DropNodeSound ==
    ASSUME Shape, Sound, ~disturbed', NEW q \in Requests, NEW n \in NodeId,
           DropNode(q, n)
    PROVE  Sound'
  <1> DEFINE r == [NoEdit EXCEPT !.kind = "dropNode", !.pc = "clear",
                                 !.node = n, !.removed = Touching(n)]
  <1>1. /\ Fields(r) /\ r.pc = "clear" /\ r.kind = "dropNode"
        /\ r.node = n /\ r.removed = Touching(n) /\ r.todo = {}
    BY NoEditHasFields DEF Fields, FieldNames, NoEdit
  <1>2. Begin(q, {}, r) /\ UNCHANGED <<nodes, config, edges, entry>> /\ n \in nodes
    BY DEF DropNode
  <1> HIDE DEF r
  <1>3. Knows(r) /\ ~Deleting(r)
    BY <1>1, <1>2 DEF Knows, Staged, Unchanging, Scrubbing, Deleting, Dropping,
                      Kinds, Steps
  <1> QED
    BY <1>1, <1>2, <1>3, BeginPlain

LEMMA AddEdgeSound ==
    ASSUME Shape, Sound, ~disturbed', NEW q \in Requests, NEW e \in EdgeId,
           AddEdge(q, e)
    PROVE  Sound'
  <1>1. PICK ends \in [src : nodes, dst : nodes, auto : BOOLEAN] :
            /\ ~(/\ ends.auto /\ config[ends.src].branches # {}
                 /\ config[ends.dst].gate)
            /\ Begin(q, {}, [NoEdit EXCEPT !.kind = "addEdge", !.pc = "write",
                  !.edge = e, !.ends = ends,
                  !.todo = IF ends.auto /\ config[ends.src].branches # {}
                           THEN {[node |-> ends.src,
                                  group |-> [Group(ends.src) EXCEPT
                                                 !.branches = @ \cup {e}]]}
                           ELSE {}])
    BY DEF AddEdge
  <1> DEFINE m == ends.src
             todo == IF ends.auto /\ config[m].branches # {}
                     THEN {[node |-> m, group |->
                              [Group(m) EXCEPT !.branches = @ \cup {e}]]}
                     ELSE {}
             r == [NoEdit EXCEPT !.kind = "addEdge", !.pc = "write",
                                 !.edge = e, !.ends = ends, !.todo = todo]
  <1>2. /\ Fields(r) /\ r.pc = "write" /\ r.kind = "addEdge"
        /\ r.edge = e /\ r.ends = ends /\ r.todo = todo
    <2> HIDE DEF todo
    <2> QED
      BY NoEditHasFields DEF Fields, FieldNames, NoEdit
  <1>3. UNCHANGED <<nodes, config, edges, entry>> /\ e \in EdgeId \ (EdgeIds \cup strays)
    BY DEF AddEdge
  <1>4. todo # {} =>
            /\ config[m].branches # {} /\ ~config[ends.dst].gate
            /\ todo = {[node |-> m, group |->
                          [branches |-> config[m].branches \cup {e},
                           agg |-> config[m].agg]]}
    BY <1>1 DEF Group
  <1>5. Begin(q, {}, r)
    BY <1>1
  <1> HIDE DEF r, todo
  <1>6. Knows(r) /\ ~Deleting(r)
    <2>1. JoinsGroup(r)
      BY <1>2, <1>4 DEF JoinsGroup
    <2> QED
      BY <1>2, <1>3, <2>1 DEF Knows, Staged, Unchanging, Scrubbing, Deleting,
                              Dropping, Kinds, Steps
  <1> QED
    BY <1>2, <1>3, <1>5, <1>6, BeginPlain

LEMMA MoveEdgeSound ==
    ASSUME Shape, Sound, ~disturbed', NEW q \in Requests, NEW e \in EdgeId,
           NEW n \in Node, MoveEdge(q, e, n)
    PROVE  Sound'
  <1> DEFINE r == [NoEdit EXCEPT !.kind = "moveEdge", !.pc = "write",
                                 !.edge = e, !.node = n]
  <1>1. /\ Fields(r) /\ r.pc = "write" /\ r.kind = "moveEdge"
        /\ r.edge = e /\ r.node = n /\ r.todo = {}
    BY NoEditHasFields DEF Fields, FieldNames, NoEdit
  <1>2. /\ Begin(q, {n} \ {NoNode}, r) /\ Named({n} \ {NoNode})
        /\ UNCHANGED <<nodes, config, edges, entry>>
    BY NameKept DEF MoveEdge
  <1>3. /\ e \in EdgeIds
        /\ n \in nodes /\ config[n].gate =>
               \A m \in nodes : e \notin config[m].branches
    BY DEF MoveEdge
  <1>4. {n} \ {NoNode} \in SUBSET (NodeId \cup EdgeId)
    BY DEF Node
  <1> HIDE DEF r
  <1>5. Well => Knows(r)' /\ ~Deleting(r)
    <2> SUFFICES ASSUME Well
                 PROVE  Knows(r)' /\ ~Deleting(r)
      OBVIOUS
    <2>1. n \in nodes' \cup strays' \cup {NoNode}
      BY <1>2, GraphAssumption DEF Well, Named, Node
    <2> QED
      BY <1>1, <1>2, <1>3, <2>1
         DEF Knows, Staged, Unchanging, Scrubbing, Deleting, Dropping, Kinds,
             Steps, EdgeIds
  <1> QED
    BY <1>1, <1>2, <1>4, <1>5, BeginSound

LEMMA DropEdgeSound ==
    ASSUME Shape, Sound, ~disturbed', NEW q \in Requests, NEW e \in EdgeId,
           DropEdge(q, e)
    PROVE  Sound'
  <1> DEFINE r == [NoEdit EXCEPT !.kind = "dropEdge", !.pc = "write",
                                 !.edge = e, !.removed = {e}]
  <1>1. /\ Fields(r) /\ r.pc = "write" /\ r.kind = "dropEdge"
        /\ r.edge = e /\ r.removed = {e} /\ r.todo = {} /\ r.node = NoNode
    BY NoEditHasFields DEF Fields, FieldNames, NoEdit
  <1>2. Begin(q, {}, r) /\ UNCHANGED <<nodes, config, edges, entry>> /\ e \in EdgeIds
    BY DEF DropEdge
  <1> HIDE DEF r
  <1>3. Knows(r) /\ ~Deleting(r)
    BY <1>1, <1>2 DEF Knows, Staged, Unchanging, Scrubbing, Deleting, Dropping,
                      Kinds, Steps
  <1> QED
    BY <1>1, <1>2, <1>3, BeginPlain

LEMMA SnapRowSound ==
    ASSUME Shape, Sound, ~disturbed', NEW q \in Requests, SnapRow(q)
    PROVE  Sound'
  <1> DEFINE r == [NoEdit EXCEPT !.pc = "nodes", !.version = version]
  <1>1. Fields(r) /\ r.pc = "nodes" /\ r.kind = "snapshot" /\ r.todo = {}
    BY NoEditHasFields DEF Fields, FieldNames, NoEdit
  <1>2. Begin(q, {}, r) /\ UNCHANGED <<nodes, config, edges, entry>>
    BY DEF SnapRow
  <1> HIDE DEF r
  <1>3. Knows(r) /\ ~Deleting(r)
    BY <1>1, <1>2 DEF Knows, Staged, Unchanging, Scrubbing, Deleting, Dropping,
                      Kinds, Steps
  <1> QED
    BY <1>1, <1>2, <1>3, BeginPlain

\* The entry is chosen by hand.
LEMMA SetEntrySound ==
    ASSUME Shape, Sound, ~disturbed', NEW n \in NodeId, SetEntry(n)
    PROVE  Sound'
  <1>1. /\ ~disturbed /\ \A p \in Requests : ~Busy(p)
        /\ UNCHANGED <<nodes, config, edges, edit>> /\ entry' = n /\ Named({n})
    BY DEF SetEntry, Spend, Named
  <1>2. Well /\ Ungated /\ Clean /\ Alone
    BY <1>1 DEF Sound, Deleting, Busy, Stage
  <1>3. Well' /\ Ungated' /\ Alone'
    BY <1>1, <1>2 DEF Well, Ungated, Alone, FansOutTo, EdgeIds, Busy, Stage,
                      Named
  <1>4. Clean'
    BY <1>1, <1>2, GraphAssumption
       DEF Well, Clean, GroupStands, MapStands, EdgeIds, Named
  <1>5. ASSUME NEW p \in Requests
        PROVE  Knows(edit[p])'
    <2>1. PICK s : s = edit[p]
      OBVIOUS
    <2>2. s.pc = "idle" /\ edit'[p] = s /\ Knows(s)
      BY <1>1, <2>1 DEF Busy, Stage, Sound
    <2>3. Knows(s)'
      BY <2>2 DEF Knows, Staged, Unchanging, Scrubbing, Deleting
    <2> QED
      BY <2>2, <2>3
  <1> QED
    BY <1>3, <1>4, <1>5 DEF Sound

LEMMA EndSound ==
    ASSUME Shape, Sound, ~disturbed, NEW q \in Requests, Busy(q), End(q),
           Well', Ungated', Clean'
    PROVE  Sound'
  <1>1. Others(q) /\ edit'[q] = NoEdit
    BY Ended
  <1>2. PICK r : r = NoEdit
    OBVIOUS
  <1>3. Knows(r)'
    BY <1>2, KnowsNoEdit
  <1> QED
    BY <1>1, <1>2, <1>3, SoundAfter

LEMMA EntryCleared ==
    ASSUME Shape, Sound, ~disturbed, NEW q \in Requests, ClearEntry(q)
    PROVE  Sound'
  <1>1. Step(q, "write") /\ edit[q].pc = "clear" /\ Busy(q)
    BY DEF ClearEntry, Stage, Busy
  <1>2. PICK r : /\ Fields(r) /\ edit' = [edit EXCEPT ![q] = r]
                 /\ r.pc = "write" /\ SameBut(r, edit[q], {"pc"})
    BY <1>1, StepRecord
  <1>3. /\ r.kind = edit[q].kind /\ r.node = edit[q].node
        /\ r.removed = edit[q].removed /\ r.todo = edit[q].todo
    BY <1>2 DEF SameBut, FieldNames
  <1>4. Well /\ Ungated /\ Alone /\ Knows(edit[q])
    BY DEF Sound
  <1>5. Clean
    BY <1>1, <1>4 DEF Sound, Alone, Busy, Stage, Deleting
  <1>6. /\ entry' = IF entry = edit[q].node THEN NoNode ELSE entry
        /\ UNCHANGED <<nodes, config, edges, strays>>
    BY DEF ClearEntry
  <1>7. Well' /\ Ungated' /\ Clean'
    BY <1>4, <1>5, <1>6 DEF Well, Ungated, Clean, FansOutTo, GroupStands,
                            MapStands, EdgeIds
  <1>8. /\ r.kind = "dropNode" /\ r.node \in nodes /\ r.todo = {}
        /\ r.removed = Touching(r.node)
    BY <1>1, <1>3, <1>4 DEF Knows, Staged, Unchanging, Dropping
  <1>9. entry' # r.node
    BY <1>3, <1>4, <1>6, <1>8, GraphAssumption DEF Well
  <1>10. Knows(r)'
    BY <1>2, <1>6, <1>8, <1>9
       DEF Knows, Staged, Unchanging, Scrubbing, Deleting, Dropping, Kinds,
           Steps, Touching, EdgeIds
  <1>11. Others(q) /\ edit'[q] = r
    BY <1>2, Replaced
  <1> QED
    BY <1>1, <1>7, <1>10, <1>11, SoundAfter

\* A validated row is written while nobody else is at work.
LEMMA Saved ==
    ASSUME Well, Ungated, Clean, NEW n \in NodeId, NEW c, Valid(n, c),
           c.target # n, nodes' = nodes \cup {n},
           config' = [config EXCEPT ![n] = c], UNCHANGED <<edges, entry, strays>>
    PROVE  Well' /\ Ungated' /\ Clean'
  <1>1. \A m \in NodeId : config'[m] = IF m = n THEN c ELSE config[m]
    BY DEF Well
  <1>2. Well'
    BY <1>1 DEF Well, Valid, EdgeIds
  <1>3. Clean'
    BY <1>1 DEF Well, Clean, GroupStands, MapStands, Valid, EdgeIds
  <1>4. ASSUME NEW x \in nodes', config'[x].gate, NEW m \in nodes' \ {x},
               FansOutTo(m, x)'
        PROVE  FALSE
    <2>1. x \in NodeId /\ m \in NodeId
      BY <1>2, <1>4 DEF Well
    <2>2. \/ config'[m].target = x
          \/ \E e \in config'[m].branches \cap EdgeIds : edges[e].dst = x
      BY <1>4 DEF FansOutTo, EdgeIds
    <2>3. CASE m = n
      <3>1. x \in nodes /\ x # n /\ config[x].gate
        BY <1>1, <1>4, <2>1, <2>3
      <3>2. \/ c.target = x
            \/ \E e \in c.branches \cap EdgeIds : edges[e].dst = x
        BY <1>1, <2>1, <2>2, <2>3
      <3> QED
        BY <3>1, <3>2 DEF Valid
    <2>4. CASE m # n
      <3>1. FansOutTo(m, x) /\ m \in nodes
        BY <1>1, <2>1, <2>2, <2>4 DEF FansOutTo
      <3> QED
        BY <1>1, <1>4, <2>1, <2>4, <3>1 DEF Valid, Ungated
    <2> QED
      BY <2>3, <2>4
  <1> QED
    BY <1>2, <1>3, <1>4 DEF Ungated

\* What a request goes on with after its write.
LEMMA WriteRecord ==
    ASSUME Shape, Sound, ~disturbed, NEW q \in Requests, Stage(q, "write"),
           NEW pc, Step(q, pc)
    PROVE  /\ Well /\ Ungated /\ Clean /\ Knows(edit[q]) /\ Busy(q)
           /\ \E r : /\ edit'[q] = r /\ Others(q)
                     /\ r.pc = pc /\ SameBut(r, edit[q], {"pc"})
                     /\ r.kind = edit[q].kind /\ r.node = edit[q].node
                     /\ r.edge = edit[q].edge /\ r.ends = edit[q].ends
                     /\ r.removed = edit[q].removed /\ r.todo = edit[q].todo
  <1>1. Well /\ Ungated /\ Alone /\ Knows(edit[q]) /\ Busy(q)
    BY DEF Sound, Busy, Stage
  <1>2. Clean
    BY <1>1 DEF Sound, Alone, Busy, Stage, Deleting
  <1>3. PICK r : /\ Fields(r) /\ edit' = [edit EXCEPT ![q] = r]
                 /\ r.pc = pc /\ SameBut(r, edit[q], {"pc"})
    BY StepRecord
  <1>4. Others(q) /\ edit'[q] = r
    BY <1>3, Replaced
  <1>5. /\ r.kind = edit[q].kind /\ r.node = edit[q].node
        /\ r.edge = edit[q].edge /\ r.ends = edit[q].ends
        /\ r.removed = edit[q].removed /\ r.todo = edit[q].todo
    BY <1>3 DEF SameBut, FieldNames
  <1> QED
    BY <1>1, <1>2, <1>3, <1>4, <1>5

LEMMA NodeWritten ==
    ASSUME Shape, Sound, ~disturbed, NEW q \in Requests, WriteNode(q)
    PROVE  Sound'
  <1> DEFINE n == edit[q].node
             c == edit[q].config
  <1>1. Stage(q, "write") /\ Step(q, "bump")
    BY DEF WriteNode
  <1>2. /\ Well /\ Ungated /\ Clean /\ Knows(edit[q]) /\ Busy(q)
    BY <1>1, WriteRecord
  <1>3. PICK r : /\ edit'[q] = r /\ Others(q)
                 /\ r.pc = "bump" /\ r.kind = edit[q].kind
    BY <1>1, WriteRecord
  <1>4. edit[q].kind \in {"addNode", "patchNode"}
    BY DEF WriteNode
  <1>5. Knows(r)'
    BY <1>3, <1>4 DEF Knows, Staged, Unchanging, Scrubbing, Deleting, Dropping,
                      Kinds, Steps
  <1>6. UNCHANGED <<edges, entry, strays>>
    BY DEF WriteNode
  <1>7. CASE edit[q].kind = "addNode"
    <2>1. n \in NodeId \ (nodes \cup strays) /\ Valid(n, c)
      BY <1>1, <1>2, <1>7 DEF Knows, Unchanging, Stage
    <2>2. nodes' = nodes \cup {n} /\ config' = [config EXCEPT ![n] = c]
      BY <1>7 DEF WriteNode
    <2>3. c.target # n
      BY <2>1, GraphAssumption DEF Valid
    <2>4. PICK x, d : x = n /\ d = c
      OBVIOUS
    <2>5. Well' /\ Ungated' /\ Clean'
      BY <1>2, <1>6, <2>1, <2>2, <2>3, <2>4, Saved
    <2> QED
      BY <1>2, <1>3, <1>5, <2>5, SoundAfter
  <1>8. CASE edit[q].kind = "patchNode"
    <2>1. /\ n \in nodes /\ Valid(n, c) /\ c.target # n
          /\ \A f \in DOMAIN Plain \ edit[q].removed : c[f] = config[n][f]
      BY <1>1, <1>2, <1>8 DEF Knows, Unchanging, Stage
    <2>2. nodes' = nodes \cup {n}
      BY <1>8, <2>1 DEF WriteNode
    <2> DEFINE old == config[n]
               new == [f \in DOMAIN old |->
                          IF f \in edit[q].removed THEN c[f] ELSE old[f]]
    <2>3. config' = [config EXCEPT ![n] = new]
      BY <1>8, <2>1 DEF WriteNode
    <2>4. old \in Config /\ c \in Config
      BY <1>2, <2>1 DEF Well, Valid
    <2>5. new = c
      <3> HIDE DEF old
      <3>1. /\ DOMAIN old = DOMAIN Plain /\ DOMAIN c = DOMAIN Plain
            /\ c = [f \in DOMAIN c |-> c[f]]
        BY <2>4 DEF Config, Plain
      <3>2. \A f \in DOMAIN Plain :
                (IF f \in edit[q].removed THEN c[f] ELSE old[f]) = c[f]
        BY <2>1 DEF old
      <3> QED
        BY <3>1, <3>2
    <2>6. PICK x, d : x = n /\ d = c
      OBVIOUS
    <2>7. x \in NodeId /\ config' = [config EXCEPT ![x] = d]
      BY <1>2, <2>1, <2>3, <2>5, <2>6 DEF Well
    <2>8. Well' /\ Ungated' /\ Clean'
      BY <1>2, <1>6, <2>1, <2>2, <2>6, <2>7, Saved
    <2> QED
      BY <1>2, <1>3, <1>5, <2>8, SoundAfter
  <1> QED
    BY <1>4, <1>7, <1>8

LEMMA NodeDeleted ==
    ASSUME Shape, Sound, ~disturbed, NEW q \in Requests, DeleteNode(q)
    PROVE  Sound'
  <1>1. Stage(q, "write") /\ Step(q, "bump") /\ edit[q].kind = "dropNode"
    BY DEF DeleteNode
  <1>2. /\ Well /\ Ungated /\ Clean /\ Knows(edit[q]) /\ Busy(q)
    BY <1>1, WriteRecord
  <1>3. PICK r : /\ edit'[q] = r /\ Others(q)
                 /\ r.pc = "bump" /\ r.kind = edit[q].kind
                 /\ r.node = edit[q].node /\ r.removed = edit[q].removed
                 /\ r.todo = edit[q].todo
    BY <1>1, WriteRecord
  <1>4. /\ r.node \in nodes /\ r.removed = Touching(r.node)
        /\ entry # r.node /\ r.todo = {}
    BY <1>1, <1>2, <1>3 DEF Knows, Staged, Unchanging, Stage, Dropping
  <1>5. /\ nodes' = nodes \ {r.node} /\ entry' = entry
        /\ config' = [config EXCEPT ![r.node] = Plain]
        /\ edges' = [e \in EdgeIds \ r.removed |-> edges[e]]
        /\ strays' = strays
    BY <1>3, <1>4 DEF DeleteNode, Keeping
  <1>6. /\ DOMAIN edges' = EdgeIds \ r.removed
        /\ \A e \in EdgeIds \ r.removed :
               /\ edges'[e] = edges[e]
               /\ edges[e].src # r.node /\ edges[e].dst # r.node
    BY <1>4, <1>5 DEF Touching
  <1>7. \A m \in NodeId :
            config'[m] = IF m = r.node THEN Plain ELSE config[m]
    BY <1>5, <1>2 DEF Well
  <1>8. Well'
    <2>1. config' \in [NodeId -> Config] /\ \A m \in NodeId : Paired(config'[m])
      BY <1>2, <1>5, <1>7 DEF Well, Plain, Config, Node, Paired
    <2>2. \A e \in EdgeIds \ r.removed :
              edges[e] \in [src : nodes', dst : nodes' \cup strays,
                            auto : BOOLEAN]
      BY <1>2, <1>5, <1>6 DEF Well
    <2> QED
      BY <1>2, <1>5, <1>6, <2>1, <2>2 DEF Well, EdgeIds
  <1>9. Ungated'
    <2>1. \A m \in nodes' : /\ m \in nodes /\ config'[m] = config[m]
      BY <1>2, <1>5, <1>7 DEF Well
    <2> SUFFICES ASSUME NEW x \in nodes', config'[x].gate,
                        NEW m \in nodes' \ {x}, FansOutTo(m, x)'
                 PROVE  FALSE
      BY DEF Ungated
    <2>2. FansOutTo(m, x)
      BY <1>6, <2>1 DEF FansOutTo, EdgeIds
    <2> QED
      BY <1>2, <2>1, <2>2 DEF Ungated
  <1>10. Scrubbing(r)'
    <2>1. \A m \in nodes' : /\ m \in nodes /\ config'[m] = config[m]
      BY <1>2, <1>5, <1>7 DEF Well
    <2>2. ASSUME NEW m \in nodes'
          PROVE  /\ GroupStands(m, {r.node}, r.removed)'
                 /\ MapStands(m, {r.node})'
      BY <1>2, <1>5, <1>6, <2>1 DEF Clean, GroupStands, MapStands, EdgeIds
    <2> QED
      BY <1>2, <1>3, <1>4, <1>5, <1>6, <2>2 DEF Scrubbing, Clean, EdgeIds
  <1>11. Knows(r)' /\ Deleting(r)
    BY <1>1, <1>3, <1>4, <1>10
       DEF Knows, Staged, Unchanging, Deleting, Dropping, Kinds, Steps
  <1> QED
    BY <1>2, <1>3, <1>8, <1>9, <1>11, SoundAfter

LEMMA EdgeDeleted ==
    ASSUME Shape, Sound, ~disturbed, NEW q \in Requests, DeleteEdge(q)
    PROVE  Sound'
  <1>1. Stage(q, "write") /\ Step(q, "bump") /\ edit[q].kind = "dropEdge"
    BY DEF DeleteEdge
  <1>2. /\ Well /\ Ungated /\ Clean /\ Knows(edit[q]) /\ Busy(q)
    BY <1>1, WriteRecord
  <1>3. PICK r : /\ edit'[q] = r /\ Others(q)
                 /\ r.pc = "bump" /\ r.kind = edit[q].kind
                 /\ r.node = edit[q].node /\ r.removed = edit[q].removed
                 /\ r.todo = edit[q].todo /\ r.edge = edit[q].edge
    BY <1>1, WriteRecord
  <1>4. /\ r.node = NoNode /\ r.removed = {r.edge} /\ r.todo = {}
    BY <1>1, <1>2, <1>3 DEF Knows, Staged, Unchanging, Stage, Dropping
  <1>5. /\ UNCHANGED <<nodes, entry, strays, config>>
        /\ edges' = [e \in EdgeIds \ r.removed |-> edges[e]]
    BY <1>3, <1>4 DEF DeleteEdge, Keeping
  <1>6. /\ DOMAIN edges' = EdgeIds \ r.removed
        /\ \A e \in EdgeIds \ r.removed : edges'[e] = edges[e]
    BY <1>5
  <1>7. Well'
    BY <1>2, <1>5, <1>6 DEF Well, EdgeIds
  <1>8. Ungated'
    <2> SUFFICES ASSUME NEW x \in nodes', config'[x].gate,
                        NEW m \in nodes' \ {x}, FansOutTo(m, x)'
                 PROVE  FALSE
      BY DEF Ungated
    <2>1. FansOutTo(m, x)
      BY <1>5, <1>6 DEF FansOutTo, EdgeIds
    <2> QED
      BY <1>2, <1>5, <2>1 DEF Ungated
  <1>9. Scrubbing(r)'
    <2>1. ASSUME NEW m \in nodes
          PROVE  /\ GroupStands(m, {r.node}, r.removed)'
                 /\ MapStands(m, {r.node})'
      BY <1>2, <1>5, <1>6 DEF Clean, GroupStands, MapStands, EdgeIds
    <2>2. r.node \notin nodes'
      BY <1>2, <1>4, <1>5, GraphAssumption DEF Well
    <2> QED
      BY <1>2, <1>3, <1>4, <1>5, <1>6, <2>1, <2>2 DEF Scrubbing, Clean, EdgeIds
  <1>10. Knows(r)' /\ Deleting(r)
    BY <1>1, <1>3, <1>4, <1>9
       DEF Knows, Staged, Unchanging, Deleting, Dropping, Kinds, Steps
  <1> QED
    BY <1>2, <1>3, <1>7, <1>8, <1>10, SoundAfter

LEMMA EdgeWritten ==
    ASSUME Shape, Sound, ~disturbed, NEW q \in Requests, WriteEdge(q)
    PROVE  Sound'
  <1> DEFINE e == edit[q].edge
             n == edit[q].node
             ends == edit[q].ends
  <1>1. Stage(q, "write") /\ UNCHANGED <<nodes, config, entry, strays>>
    BY DEF WriteEdge
  <1>2. /\ Well /\ Ungated /\ Alone /\ Knows(edit[q])
    BY DEF Sound
  <1>3. CASE edit[q].kind = "addEdge"
    <2>1. /\ e \in EdgeId \ (EdgeIds \cup strays) /\ JoinsGroup(edit[q])
          /\ ends \in [src : nodes, dst : nodes, auto : BOOLEAN]
      BY <1>1, <1>2, <1>3 DEF Knows, Unchanging, Stage
    <2>2. {ends.src, ends.dst} \subseteq nodes
      BY <2>1
    <2>3. /\ Step(q, "bump")
          /\ edges' = [f \in EdgeIds \cup {e} |->
                           IF f = e THEN ends ELSE edges[f]]
      BY <1>3, <2>2 DEF WriteEdge
    <2>4. Clean /\ Busy(q)
      BY <1>1, <2>3, WriteRecord
    <2>5. PICK r : /\ edit'[q] = r /\ Others(q)
                   /\ r.pc = "bump" /\ r.kind = edit[q].kind
                   /\ r.edge = e /\ r.ends = ends /\ r.todo = edit[q].todo
      BY <1>1, <2>3, WriteRecord
    <2>6. /\ DOMAIN edges' = EdgeIds \cup {r.edge}
          /\ edges'[r.edge] = r.ends
          /\ \A f \in EdgeIds : edges'[f] = edges[f]
      BY <2>1, <2>3, <2>5
    <2>7. Well'
      BY <1>1, <1>2, <2>1, <2>3, <2>5, <2>6 DEF Well, EdgeIds
    <2>8. Clean'
      <3>1. EdgeIds \subseteq EdgeIds'
        BY <2>6 DEF EdgeIds
      <3>2. ASSUME NEW m \in nodes
            PROVE  GroupStands(m, {}, {})' /\ MapStands(m, {})'
        BY <1>1, <2>4, <3>1 DEF Clean, GroupStands, MapStands
      <3>3. nodes' = nodes /\ entry' \in nodes' \cup strays' \cup {NoNode}
        BY <1>1, <2>4 DEF Clean
      <3> QED
        BY <3>2, <3>3 DEF Clean
    <2>9. Ungated'
      <3>1. \A m \in nodes : r.edge \notin config[m].branches
        BY <2>1, <2>4, <2>5 DEF Clean, GroupStands
      <3> QED
        BY <1>1, <1>2, <2>6, <3>1 DEF Ungated, FansOutTo, EdgeIds
    <2>10. JoinsGroup(r)'
      BY <1>1, <2>1, <2>5 DEF JoinsGroup
    <2>11. Knows(r)'
      BY <1>3, <2>5, <2>6, <2>10 DEF Knows, Staged, Unchanging, Scrubbing,
             Deleting, Dropping, Kinds, Steps, EdgeIds
    <2> QED
      BY <2>4, <2>5, <2>7, <2>8, <2>9, <2>11, SoundAfter
  <1>4. CASE edit[q].kind = "moveEdge"
    <2>1. /\ e \in EdgeIds /\ n \in nodes \cup strays \cup {NoNode}
          /\ n \in nodes /\ config[n].gate =>
                 \A m \in nodes : e \notin config[m].branches
      BY <1>1, <1>2, <1>4 DEF Knows, Unchanging, Stage
    <2>2. \/ edges' = edges /\ End(q)
          \/ /\ Step(q, "bump")
             /\ edges' = IF n # NoNode THEN [edges EXCEPT ![e].dst = n]
                         ELSE edges
      BY <1>4, <2>1 DEF WriteEdge
    <2>3. CASE edges' = edges /\ End(q)
      <3>1. Busy(q) /\ Clean
        BY <1>1, <1>2, <1>4 DEF Busy, Stage, Sound, Alone, Deleting, Dropping
      <3>2. Well' /\ Ungated' /\ Clean'
        BY <1>1, <1>2, <2>3, <3>1, RowsUnchanged DEF Rows
      <3> QED
        BY <2>3, <3>1, <3>2, EndSound
    <2>4. CASE /\ Step(q, "bump")
               /\ edges' = IF n # NoNode THEN [edges EXCEPT ![e].dst = n]
                           ELSE edges
      <3>1. Clean /\ Busy(q)
        BY <1>1, <2>4, WriteRecord
      <3>2. PICK r : /\ edit'[q] = r /\ Others(q)
                     /\ r.pc = "bump" /\ r.kind = edit[q].kind
        BY <1>1, <2>4, WriteRecord
      <3>3. /\ DOMAIN edges' = EdgeIds
            /\ \A f \in EdgeIds :
                   edges'[f].dst = IF f = e /\ n # NoNode THEN n
                                   ELSE edges[f].dst
            /\ edges' \in [EdgeIds -> [src : nodes, dst : nodes \cup strays,
                                       auto : BOOLEAN]]
        BY <1>2, <2>1, <2>4 DEF Well
      <3>4. Well'
        BY <1>1, <1>2, <3>3 DEF Well, EdgeIds
      <3>5. Clean'
        BY <1>1, <3>1, <3>3 DEF Clean, GroupStands, MapStands, EdgeIds
      <3>6. Ungated'
        <4> SUFFICES ASSUME NEW y \in nodes, config[y].gate,
                            NEW m \in nodes \ {y}, FansOutTo(m, y)'
                     PROVE  FALSE
          BY <1>1 DEF Ungated
        <4>1. \/ config[m].target = y
              \/ \E f \in config[m].branches \cap EdgeIds : edges'[f].dst = y
          BY <1>1, <3>3 DEF FansOutTo, EdgeIds
        <4>2. \/ FansOutTo(m, y)
              \/ e \in config[m].branches /\ n # NoNode /\ n = y
          BY <3>3, <4>1 DEF FansOutTo
        <4> QED
          BY <1>2, <2>1, <4>2 DEF Ungated
      <3>7. Knows(r)'
        BY <1>4, <3>2 DEF Knows, Staged, Unchanging, Scrubbing,
               Deleting, Dropping, Kinds, Steps
      <3> QED
        BY <3>1, <3>2, <3>4, <3>5, <3>6, <3>7, SoundAfter
    <2> QED
      BY <2>2, <2>3, <2>4
  <1> QED
    BY <1>3, <1>4 DEF WriteEdge

LEMMA Bumps ==
    ASSUME Shape, Sound, ~disturbed, NEW q \in Requests, Bump(q)
    PROVE  Sound'
  <1> DEFINE r == [edit[q] EXCEPT !.pc = "log", !.version = version + 1]
  <1>1. /\ Fields(r) /\ r.pc = "log"
        /\ r.kind = edit[q].kind /\ r.node = edit[q].node
        /\ r.edge = edit[q].edge /\ r.ends = edit[q].ends
        /\ r.removed = edit[q].removed /\ r.todo = edit[q].todo
    BY DEF Shape, Fields, FieldNames
  <1>2. /\ edit' = [edit EXCEPT ![q] = r] /\ edit[q].pc = "bump" /\ Busy(q)
        /\ UNCHANGED Rows
    BY DEF Bump, Stage, Busy, Rows
  <1>3. Knows(edit[q])
    BY DEF Sound
  <1> HIDE DEF r
  <1>4. JoinsGroup(edit[q]) => JoinsGroup(r)
    BY <1>1 DEF JoinsGroup
  <1>5. Knows(r) /\ (Deleting(r) \/ ~Deleting(edit[q]))
    BY <1>1, <1>2, <1>3, <1>4 DEF Knows, Staged, Unchanging, Scrubbing,
       Deleting, Dropping, Kinds, Steps
  <1> QED
    BY <1>1, <1>2, <1>5, GoesOn

LEMMA Logs ==
    ASSUME Shape, Sound, ~disturbed, NEW q \in Requests, Log(q)
    PROVE  Sound'
  <1>1. /\ edit[q].pc = "log" /\ Busy(q) /\ UNCHANGED Rows
        /\ Knows(edit[q]) /\ edit[q].kind \in Kinds \ {"snapshot"}
    BY DEF Log, LogAs, Stage, Busy, Rows, Sound, Knows, Staged
  <1>2. CASE After(edit[q].kind) = "idle"
    <2>1. ~Deleting(edit[q]) /\ Alone
      BY <1>1, <1>2 DEF After, Deleting, Dropping, Sound
    <2>2. Clean /\ Well /\ Ungated
      BY <1>1, <2>1 DEF Sound, Alone, Busy, Stage, Deleting
    <2>3. Clean' /\ Well' /\ Ungated'
      BY <1>1, <2>2, RowsUnchanged
    <2> QED
      BY <1>1, <1>2, <2>3, EndSound DEF Log, LogAs
  <1>3. CASE After(edit[q].kind) # "idle"
    <2>1. Step(q, After(edit[q].kind))
      BY <1>3 DEF Log, LogAs
    <2>2. PICK r : /\ Fields(r) /\ edit' = [edit EXCEPT ![q] = r]
                   /\ r.pc = After(edit[q].kind)
                   /\ SameBut(r, edit[q], {"pc"})
      BY <2>1, StepRecord
    <2>3. /\ r.kind = edit[q].kind /\ r.node = edit[q].node
          /\ r.edge = edit[q].edge /\ r.ends = edit[q].ends
          /\ r.removed = edit[q].removed /\ r.todo = edit[q].todo
      BY <2>2 DEF SameBut, FieldNames
    <2>4. CASE edit[q].kind = "addEdge"
      <3>1. r.pc = "sync" /\ JoinsGroup(r) /\ ~Deleting(edit[q])
        BY <1>1, <2>2, <2>3, <2>4 DEF After, Knows, Unchanging, JoinsGroup,
           Deleting, Dropping
      <3>2. Knows(r)
        BY <1>1, <2>3, <2>4, <3>1 DEF Knows, Staged, Unchanging, Scrubbing,
           Deleting, Dropping, Kinds, Steps
      <3> QED
        BY <1>1, <2>2, <3>1, <3>2, GoesOn
    <2>5. CASE Dropping(edit[q])
      <3>1. r.pc = "scrub" /\ Deleting(r) /\ Deleting(edit[q])
        BY <1>1, <2>2, <2>3, <2>5 DEF After, Deleting, Dropping
      <3>2. Scrubbing(r)
        BY <1>1, <2>3, <3>1 DEF Knows, Scrubbing
      <3>3. Knows(r)
        BY <1>1, <2>3, <2>5, <3>1, <3>2 DEF Knows, Staged, Unchanging,
           Dropping, Kinds, Steps
      <3> QED
        BY <1>1, <2>2, <3>1, <3>3, GoesOn
    <2> QED
      BY <1>1, <1>3, <2>4, <2>5 DEF After, Dropping, Kinds
  <1> QED
    BY <1>2, <1>3

LEMMA SnapReads ==
    ASSUME Shape, Sound, ~disturbed, NEW q \in Requests, SnapNodes(q)
    PROVE  Sound'
  <1> DEFINE r == [edit[q] EXCEPT !.pc = "edges", !.snap = nodes]
  <1>1. Fields(r) /\ r.pc = "edges" /\ r.kind = edit[q].kind
    BY DEF Shape, Fields, FieldNames
  <1>2. /\ edit' = [edit EXCEPT ![q] = r] /\ edit[q].pc = "nodes" /\ Busy(q)
        /\ UNCHANGED Rows
    BY DEF SnapNodes, Stage, Busy, Rows
  <1>3. edit[q].kind = "snapshot"
    BY <1>2 DEF Sound, Knows, Staged
  <1> HIDE DEF r
  <1>4. Knows(r) /\ ~Deleting(edit[q])
    BY <1>1, <1>2, <1>3 DEF Knows, Staged, Unchanging, Scrubbing, Deleting,
       Dropping, Kinds, Steps
  <1> QED
    BY <1>1, <1>2, <1>4, GoesOn

LEMMA SnapEnds ==
    ASSUME Shape, Sound, ~disturbed, NEW q \in Requests, SnapEdges(q)
    PROVE  Sound'
  <1>1. edit[q].pc = "edges" /\ Busy(q) /\ UNCHANGED Rows /\ End(q)
    BY DEF SnapEdges, SnapAs, Stage, Busy, Rows
  <1>2. Clean /\ Well /\ Ungated
    BY <1>1 DEF Sound, Alone, Busy, Stage, Deleting
  <1>3. Clean' /\ Well' /\ Ungated'
    BY <1>1, <1>2, RowsUnchanged
  <1> QED
    BY <1>1, <1>3, EndSound

\* A group is written as a request has worked it out.
LEMMA RegroupOne ==
    ASSUME Well, NEW f, f.node \in nodes, Regroup({f})
    PROVE  config' = [config EXCEPT ![f.node] =
                          Grouping(config[f.node], f.group.branches,
                                   f.group.agg)]
  <1>1. \A n \in NodeId : config'[n] =
            IF n = f.node
            THEN Grouping(config[n], f.group.branches, f.group.agg)
            ELSE config[n]
    BY DEF Regroup, Grouping, Well
  <1>2. config' = [n \in NodeId |-> config'[n]]
    BY DEF Regroup
  <1>3. config = [n \in NodeId |-> config[n]]
    BY DEF Well
  <1> HIDE DEF Grouping
  <1> QED
    BY <1>1, <1>2, <1>3 DEF Well

LEMMA GroupFields ==
    ASSUME NEW c \in Config, NEW b \in SUBSET EdgeId, NEW x \in Node
    PROVE  LET d == Grouping(c, b, x) IN
           /\ d \in Config /\ d.branches = b /\ d.agg = x /\ d.gate = c.gate
           /\ d.target = c.target /\ d.mapAgg = c.mapAgg
  BY DEF Config, Grouping

LEMMA GroupSynced ==
    ASSUME Shape, Sound, ~disturbed, NEW q \in Requests, SyncGroup(q)
    PROVE  Sound'
  <1> DEFINE m == edit[q].ends.src
             e == edit[q].edge
  <1>1. /\ edit[q].pc = "sync" /\ Busy(q) /\ End(q)
        /\ UNCHANGED <<nodes, edges, entry, strays>> /\ Regroup(edit[q].todo)
    BY DEF SyncGroup, Stage, Busy
  <1>2. Well /\ Ungated /\ Alone /\ Knows(edit[q]) /\ edit[q].kind = "addEdge"
    BY <1>1 DEF Sound, Knows, Staged
  <1>3. Clean
    BY <1>1, <1>2 DEF Sound, Alone, Busy, Stage, Deleting, Dropping
  <1>4. /\ e \in EdgeIds /\ edges[e] = edit[q].ends /\ JoinsGroup(edit[q])
    BY <1>1, <1>2 DEF Knows, Unchanging
  <1>5. CASE edit[q].todo = {}
    <2>1. config' = config
      BY <1>1, <1>2, <1>5 DEF Regroup, Well
    <2>2. Well' /\ Ungated' /\ Clean'
      BY <1>1, <1>2, <1>3, <2>1, RowsUnchanged DEF Rows
    <2> QED
      BY <1>1, <2>2, EndSound
  <1>6. CASE edit[q].todo # {}
    <2> DEFINE b == config[m].branches \cup {e}
               x == config[m].agg
               f == [node |-> m, group |-> [branches |-> b, agg |-> x]]
    <2>1. /\ m \in nodes /\ config[m].branches # {}
          /\ ~config[edit[q].ends.dst].gate /\ edit[q].todo = {f}
      BY <1>4, <1>6 DEF JoinsGroup
    <2>2. config' = [config EXCEPT ![m] = Grouping(config[m], b, x)]
      <3>1. f.node = m /\ f.group.branches = b /\ f.group.agg = x
        OBVIOUS
      <3> HIDE DEF f
      <3> QED
        BY <1>1, <1>2, <2>1, <3>1, RegroupOne
    <2>3. /\ m \in NodeId /\ config[m] \in Config /\ Paired(config[m])
          /\ b \in SUBSET EdgeId /\ x \in Node
          /\ b \subseteq EdgeIds \cup strays
          /\ x \in nodes \cup strays \cup {NoNode} /\ x # NoNode /\ b # {}
      <3>1. m \in NodeId /\ config[m] \in Config /\ Paired(config[m])
        BY <1>2, <2>1 DEF Well
      <3>2. GroupStands(m, {}, {})
        BY <1>3, <2>1 DEF Clean
      <3>3. config[m].branches \in SUBSET EdgeId /\ config[m].agg \in Node
        BY <3>1 DEF Config
      <3>4. e \in EdgeId
        BY <1>2, <1>4 DEF Well
      <3> QED
        BY <1>4, <2>1, <3>1, <3>2, <3>3, <3>4 DEF Paired, GroupStands
    <2> DEFINE d == Grouping(config[m], b, x)
    <2>4. /\ d \in Config /\ d.branches = b /\ d.agg = x
          /\ d.gate = config[m].gate /\ d.target = config[m].target
          /\ d.mapAgg = config[m].mapAgg
      BY <2>3, GroupFields
    <2> HIDE DEF d
    <2>5. \A n \in NodeId : config'[n] = IF n = m THEN d ELSE config[n]
      BY <1>2, <2>2, <2>3 DEF Well, d
    <2>6. Well'
      <3>1. config' \in [NodeId -> Config] /\ \A n \in NodeId : Paired(config'[n])
        BY <1>2, <2>2, <2>3, <2>4, <2>5 DEF Well, Paired, d
      <3> QED
        BY <1>1, <1>2, <3>1 DEF Well, EdgeIds
    <2>7. Clean'
      BY <1>1, <1>2, <1>3, <2>3, <2>4, <2>5
         DEF Clean, GroupStands, MapStands, EdgeIds, Well
    <2>8. Ungated'
      <3> SUFFICES ASSUME NEW y \in nodes, config'[y].gate,
                          NEW k \in nodes \ {y}, FansOutTo(k, y)'
                   PROVE  FALSE
        BY <1>1 DEF Ungated
      <3>1. y \in NodeId /\ k \in NodeId /\ config[y].gate
        BY <1>2, <2>4, <2>5 DEF Well
      <3>2. \/ config'[k].target = y
            \/ \E g \in config'[k].branches \cap EdgeIds : edges[g].dst = y
        BY <1>1 DEF FansOutTo, EdgeIds
      <3>3. \/ FansOutTo(k, y) \/ edges[e].dst = y
        BY <2>4, <2>5, <3>1, <3>2 DEF FansOutTo
      <3> QED
        BY <1>2, <1>4, <2>1, <3>1, <3>3 DEF Ungated
    <2> QED
      BY <1>1, <2>6, <2>7, <2>8, EndSound
  <1> QED
    BY <1>5, <1>6

\* A group that the scrub leaves as it is names nothing that goes, and one
\* that it has scrubbed does not any more.
Trimmed(m, g) ==
    /\ g.branches \subseteq EdgeIds \cup strays
    /\ g.branches \in SUBSET EdgeId /\ g.agg \in Node
    /\ g.branches \subseteq config[m].branches
    /\ g.agg \in nodes \cup strays \cup {NoNode}
    /\ g.branches = {} <=> g.agg = NoNode
    /\ config[m].branches = {} \/ g = Group(m) => GroupStands(m, {}, {})

LEMMA ScrubStands ==
    ASSUME Well, NEW n, n \notin nodes, NEW removed, removed \cap EdgeIds = {},
           NEW m \in nodes, GroupStands(m, {n}, removed)
    PROVE  Trimmed(m, Scrubbed(Group(m), n, removed))
  <1>0. PICK g : g = Scrubbed(Group(m), n, removed)
    OBVIOUS
  <1>1. /\ config[m].branches \in SUBSET EdgeId
        /\ config[m].agg \in Node /\ Paired(config[m])
    BY DEF Well, Config
  <1>2. /\ config[m].branches \subseteq EdgeIds \cup strays \cup removed
        /\ config[m].agg \in nodes \cup strays \cup {NoNode, n}
    BY DEF GroupStands
  <1>3. CASE config[m].agg = n \/ config[m].branches \subseteq removed
    <2>1. g = NoGroup
      BY <1>0, <1>3 DEF Scrubbed, Group
    <2> QED
      BY <1>0, <1>1, <1>2, <1>3, <2>1 DEF Trimmed, NoGroup, Group, GroupStands, Paired, Node
  <1>4. CASE ~(config[m].agg = n \/ config[m].branches \subseteq removed)
    <2>1. /\ g.branches = config[m].branches \ removed
          /\ g.agg = config[m].agg
      BY <1>0, <1>4 DEF Scrubbed, Group
    <2>2. g = Group(m) => config[m].branches = config[m].branches \ removed
      BY <2>1 DEF Group
    <2> QED
      BY <1>0, <1>1, <1>2, <1>4, <2>1, <2>2 DEF Trimmed, GroupStands, Paired
  <1> QED
    BY <1>3, <1>4

LEMMA ScrubReads ==
    ASSUME Shape, Sound, ~disturbed, NEW q \in Requests, Scrub(q)
    PROVE  Sound'
  <1> DEFINE n == edit[q].node
             removed == edit[q].removed
             stale == {m \in nodes : config[m].branches # {} /\
                           Scrubbed(Group(m), n, removed) # Group(m)}
             fixes == {[node |-> m, group |-> Scrubbed(Group(m), n, removed)] :
                           m \in stale}
  <1>1. /\ edit[q].pc = "scrub" /\ Busy(q) /\ UNCHANGED Rows
        /\ edit[q].todo = {}
    BY DEF Scrub, Stage, Busy, Rows
  <1>2. Well /\ Ungated /\ Alone /\ Knows(edit[q]) /\ Dropping(edit[q])
    BY <1>1 DEF Sound, Knows, Staged
  <1>3. /\ Deleting(edit[q]) /\ entry \in nodes \cup strays \cup {NoNode}
        /\ n \notin nodes /\ removed \cap EdgeIds = {}
        /\ \A m \in nodes : GroupStands(m, {n}, removed) /\ MapStands(m, {n})
    BY <1>1, <1>2 DEF Deleting, Knows, Scrubbing
  <1>4. ASSUME NEW m \in nodes \ stale
        PROVE  GroupStands(m, {}, {})
    <2>1. Trimmed(m, Scrubbed(Group(m), n, removed))
      BY <1>2, <1>3, ScrubStands
    <2> QED
      BY <2>1 DEF Trimmed
  <1>5. CASE stale # {}
    <2> DEFINE r == [edit[q] EXCEPT !.todo = fixes]
    <2>1. edit' = [edit EXCEPT ![q] = r]
      BY <1>5 DEF Scrub
    <2> HIDE DEF fixes
    <2>2. /\ Fields(r) /\ r.pc = "scrub" /\ r.kind = edit[q].kind
          /\ r.node = n /\ r.removed = removed /\ r.todo = fixes
      BY <1>1 DEF Shape, Fields, FieldNames
    <2> HIDE DEF r, stale
    <2>3. \A f \in fixes :
              /\ f.node \in stale
              /\ f = [node |-> f.node,
                      group |-> Scrubbed(Group(f.node), n, removed)]
      BY DEF fixes
    <2>4. ASSUME NEW m \in stale
          PROVE  \E f \in fixes : f.node = m
      <3> DEFINE f == [node |-> m, group |-> Scrubbed(Group(m), n, removed)]
      <3>1. f \in fixes /\ f.node = m
        BY DEF fixes
      <3> HIDE DEF f
      <3> QED
        BY <3>1
    <2>5. \A m \in stale : m \in nodes /\ config[m].branches # {}
      BY DEF stale
    <2>6. Scrubbing(r)
      BY <1>3, <1>4, <2>2, <2>3, <2>4, <2>5 DEF Scrubbing
    <2>7. Knows(r) /\ Deleting(r)
      BY <1>2, <2>2, <2>6 DEF Knows, Staged, Unchanging, Deleting,
         Dropping, Kinds, Steps
    <2> QED
      BY <1>1, <2>1, <2>2, <2>7, GoesOn
  <1>6. CASE stale = {}
    <2>1. \A m \in nodes : GroupStands(m, {}, {})
      BY <1>4, <1>6
    <2>2. CASE edit[q].kind = "dropNode"
      <3>1. Step(q, "scrubMaps")
        BY <1>6, <2>2 DEF Scrub
      <3>2. PICK r : /\ Fields(r) /\ edit' = [edit EXCEPT ![q] = r]
                     /\ r.pc = "scrubMaps" /\ SameBut(r, edit[q], {"pc"})
        BY <3>1, StepRecord
      <3>3. /\ r.kind = edit[q].kind /\ r.node = n /\ r.removed = removed
            /\ r.todo = {}
        BY <1>1, <3>2 DEF SameBut, FieldNames
      <3>4. Scrubbing(r)
        BY <1>3, <2>1, <3>3 DEF Scrubbing
      <3>5. Knows(r) /\ Deleting(r)
        BY <2>2, <3>2, <3>3, <3>4 DEF Knows, Staged, Unchanging, Deleting,
           Dropping, Kinds, Steps
      <3> QED
        BY <1>1, <3>2, <3>5, GoesOn
    <2>3. CASE edit[q].kind = "dropEdge"
      <3>1. End(q)
        BY <1>6, <2>3 DEF Scrub
      <3>2. n = NoNode
        BY <1>2, <2>3 DEF Knows, Staged
      <3>3. Clean
        BY <1>3, <2>1, <3>2 DEF Clean, MapStands
      <3>4. Clean' /\ Well' /\ Ungated'
        BY <1>1, <1>2, <3>3, RowsUnchanged
      <3> QED
        BY <1>1, <3>1, <3>4, EndSound
    <2> QED
      BY <1>2, <2>2, <2>3 DEF Dropping
  <1> QED
    BY <1>5, <1>6

LEMMA GroupScrubbed ==
    ASSUME Shape, Sound, ~disturbed, NEW q \in Requests, ScrubOne(q)
    PROVE  Sound'
  <1>0. PICK n, removed : n = edit[q].node /\ removed = edit[q].removed
    OBVIOUS
  <1>1. PICK f \in edit[q].todo :
            /\ Regroup({f})
            /\ IF edit[q].todo # {f}
               THEN edit' = [edit EXCEPT ![q].todo = @ \ {f}]
               ELSE IF edit[q].kind = "dropEdge" THEN End(q)
               ELSE edit' = [edit EXCEPT ![q].todo = {}, ![q].pc = "scrubMaps"]
    BY DEF ScrubOne
  <1>2. /\ edit[q].pc = "scrub" /\ Busy(q) /\ UNCHANGED <<nodes, edges, entry, strays>>
    BY DEF ScrubOne, Stage, Busy
  <1>3. Well /\ Ungated /\ Alone /\ Knows(edit[q]) /\ Dropping(edit[q])
    BY <1>2 DEF Sound, Knows, Staged
  <1>4. /\ Deleting(edit[q]) /\ entry \in nodes \cup strays \cup {NoNode}
        /\ n \notin nodes /\ removed \cap EdgeIds = {}
        /\ \A m \in nodes : GroupStands(m, {n}, removed) /\ MapStands(m, {n})
        /\ \A m \in nodes : ~GroupStands(m, {}, {}) =>
               \E g \in edit[q].todo : g.node = m
        /\ \A g \in edit[q].todo :
               /\ g.node \in nodes
               /\ g = [node |-> g.node,
                       group |-> Scrubbed(Group(g.node), n, removed)]
               /\ config[g.node].branches # {}
    BY <1>0, <1>2, <1>3 DEF Deleting, Knows, Scrubbing
  <1> DEFINE k == f.node
             b == f.group.branches
             x == f.group.agg
             d == Grouping(config[k], b, x)
  <1>5. /\ k \in nodes /\ k \in NodeId /\ config[k] \in Config
        /\ f.group = Scrubbed(Group(k), n, removed)
        /\ config[k].branches # {}
    BY <1>3, <1>4 DEF Well
  <1>6. /\ b \subseteq EdgeIds \cup strays /\ b \in SUBSET EdgeId /\ x \in Node
        /\ b \subseteq config[k].branches
        /\ x \in nodes \cup strays \cup {NoNode}
        /\ b = {} <=> x = NoNode
    <2>1. Trimmed(k, f.group)
      BY <1>3, <1>4, <1>5, ScrubStands
    <2> QED
      BY <2>1 DEF Trimmed
  <1>7. /\ d \in Config /\ d.branches = b /\ d.agg = x
        /\ d.gate = config[k].gate /\ d.target = config[k].target
        /\ d.mapAgg = config[k].mapAgg
    BY <1>5, <1>6, GroupFields
  <1>8. config' = [config EXCEPT ![k] = d]
    BY <1>1, <1>3, <1>5, RegroupOne
  <1> HIDE DEF d
  <1>9. \A m \in NodeId : config'[m] = IF m = k THEN d ELSE config[m]
    BY <1>3, <1>5, <1>8 DEF Well
  <1>10. Well'
    <2>1. config' \in [NodeId -> Config] /\ \A m \in NodeId : Paired(config'[m])
      BY <1>3, <1>5, <1>6, <1>7, <1>8, <1>9 DEF Well, Paired
    <2> QED
      BY <1>2, <1>3, <2>1 DEF Well, EdgeIds
  <1>11. Ungated'
    <2> SUFFICES ASSUME NEW y \in nodes, config'[y].gate,
                        NEW m \in nodes \ {y}, FansOutTo(m, y)'
                 PROVE  FALSE
      BY <1>2 DEF Ungated
    <2>1. y \in NodeId /\ m \in NodeId /\ config[y].gate
      BY <1>3, <1>7, <1>9 DEF Well
    <2>2. FansOutTo(m, y)
      BY <1>2, <1>6, <1>7, <1>9, <2>1 DEF FansOutTo, EdgeIds
    <2> QED
      BY <1>3, <2>1, <2>2 DEF Ungated
  <1>12. /\ GroupStands(k, {}, {})' /\ GroupStands(k, {n}, removed)'
         /\ MapStands(k, {n})'
    <2>1. MapStands(k, {n})
      BY <1>4, <1>5
    <2> QED
      BY <1>2, <1>5, <1>6, <1>7, <1>9, <2>1 DEF GroupStands, MapStands, EdgeIds
  <1>13. ASSUME NEW m \in nodes \ {k}
         PROVE  /\ config'[m] = config[m]
                /\ GroupStands(m, {}, {})' <=> GroupStands(m, {}, {})
                /\ GroupStands(m, {n}, removed)' /\ MapStands(m, {n})'
    <2>1. config'[m] = config[m]
      BY <1>3, <1>9 DEF Well
    <2> QED
      BY <1>2, <1>4, <2>1 DEF GroupStands, MapStands, EdgeIds
  <1>15. ASSUME NEW r, r.node = n, r.removed = removed, r.kind = edit[q].kind,
                r.pc \in {"scrub", "scrubMaps"},
                r.pc = "scrubMaps" => r.todo = {} /\ edit[q].todo = {f}
                                      /\ r.kind = "dropNode",
                r.todo = edit[q].todo \ {f}
         PROVE  Knows(r)' /\ Deleting(r)
    <2>1. ASSUME NEW m \in nodes, ~GroupStands(m, {}, {})'
          PROVE  m # k /\ \E g \in r.todo : g.node = m
      <3>1. m # k /\ ~GroupStands(m, {}, {})
        BY <1>12, <1>13, <2>1
      <3>2. PICK g \in edit[q].todo : g.node = m
        BY <1>4, <3>1
      <3> QED
        BY <1>15, <3>1, <3>2
    <2>2. ASSUME NEW g \in r.todo
          PROVE  /\ g.node \in nodes
                 /\ g = [node |-> g.node, group |->
                            Scrubbed(Group(g.node), n, removed)']
                 /\ config'[g.node].branches # {}
      <3>1. g \in edit[q].todo /\ g # f
        BY <1>15
      <3>2. /\ g.node \in nodes /\ config[g.node].branches # {}
            /\ g = [node |-> g.node,
                    group |-> Scrubbed(Group(g.node), n, removed)]
            /\ f = [node |-> k, group |-> Scrubbed(Group(k), n, removed)]
        BY <1>4, <3>1
      <3>3. g.node # k
        BY <3>1, <3>2
      <3>4. config'[g.node] = config[g.node]
        BY <1>13, <3>2, <3>3
      <3>5. Scrubbed(Group(g.node), n, removed)'
                = Scrubbed(Group(g.node), n, removed)
        BY <3>4 DEF Scrubbed, Group, NoGroup
      <3> QED
        BY <3>2, <3>4, <3>5
    <2>3. Scrubbing(r)'
      <3>1. ASSUME NEW m \in nodes
            PROVE  /\ GroupStands(m, {n}, removed)' /\ MapStands(m, {n})'
                   /\ r.pc = "scrubMaps" => GroupStands(m, {}, {})'
        <4>1. GroupStands(m, {n}, removed)' /\ MapStands(m, {n})'
          BY <1>12, <1>13
        <4> QED
          BY <1>15, <2>1, <4>1
      <3>2. /\ entry' \in nodes' \cup strays' \cup {NoNode} /\ n \notin nodes'
            /\ removed \cap EdgeIds' = {}
        BY <1>2, <1>4 DEF EdgeIds
      <3> QED
        BY <1>2, <1>15, <2>1, <2>2, <3>1, <3>2 DEF Scrubbing
    <2> QED
      BY <1>0, <1>3, <1>15, <2>3 DEF Knows, Staged, Unchanging, Deleting,
         Dropping, Kinds, Steps
  <1>16. CASE edit[q].todo # {f}
    <2> DEFINE r == [edit[q] EXCEPT !.todo = @ \ {f}]
    <2>1. edit' = [edit EXCEPT ![q] = r]
      BY <1>1, <1>16
    <2>2. /\ Fields(r) /\ r.pc = "scrub" /\ r.kind = edit[q].kind
          /\ r.node = n /\ r.removed = removed /\ r.todo = edit[q].todo \ {f}
      BY <1>0, <1>2 DEF Shape, Fields, FieldNames
    <2> HIDE DEF r
    <2>3. Others(q) /\ edit'[q] = r
      BY <2>1, <2>2, Replaced
    <2>4. PICK s : s = r
      OBVIOUS
    <2>5. Knows(s)' /\ Deleting(s)
      BY <1>15, <2>2, <2>4
    <2> QED
      BY <1>2, <1>10, <1>11, <2>3, <2>4, <2>5, SoundAfter
  <1>17. CASE edit[q].todo = {f} /\ edit[q].kind = "dropNode"
    <2> DEFINE r == [edit[q] EXCEPT !.todo = {}, !.pc = "scrubMaps"]
    <2>1. edit' = [edit EXCEPT ![q] = r]
      BY <1>1, <1>17
    <2>2. /\ Fields(r) /\ r.pc = "scrubMaps" /\ r.kind = edit[q].kind
          /\ r.node = n /\ r.removed = removed /\ r.todo = edit[q].todo \ {f}
          /\ r.todo = {}
      BY <1>0, <1>2, <1>17 DEF Shape, Fields, FieldNames
    <2> HIDE DEF r
    <2>3. Others(q) /\ edit'[q] = r
      BY <2>1, <2>2, Replaced
    <2>4. PICK s : s = r
      OBVIOUS
    <2>5. Knows(s)' /\ Deleting(s)
      BY <1>15, <1>17, <2>2, <2>4
    <2> QED
      BY <1>2, <1>10, <1>11, <2>3, <2>4, <2>5, SoundAfter
  <1>18. CASE edit[q].todo = {f} /\ edit[q].kind = "dropEdge"
    <2>1. End(q)
      BY <1>1, <1>18
    <2>2. n = NoNode
      BY <1>0, <1>3, <1>18 DEF Knows, Staged
    <2>3. ASSUME NEW m \in nodes
          PROVE  GroupStands(m, {}, {})' /\ MapStands(m, {})'
      <3>1. GroupStands(m, {}, {})'
        BY <1>4, <1>12, <1>13, <1>18
      <3>2. MapStands(m, {n})'
        BY <1>12, <1>13
      <3> QED
        BY <2>2, <3>1, <3>2 DEF MapStands, GroupStands
    <2>4. Clean'
      BY <1>2, <1>4, <2>3 DEF Clean
    <2> QED
      BY <1>2, <1>10, <1>11, <2>1, <2>4, EndSound
  <1> QED
    BY <1>3, <1>16, <1>17, <1>18 DEF Dropping

LEMMA MapsScrubbed ==
    ASSUME Shape, Sound, ~disturbed, NEW q \in Requests, ScrubMaps(q)
    PROVE  Sound'
  <1> DEFINE n == edit[q].node
             d(m) == Mapping(config[m], NoNode, NoNode)
  <1>1. /\ edit[q].pc = "scrubMaps" /\ Busy(q) /\ End(q)
        /\ UNCHANGED <<nodes, edges, entry, strays>>
        /\ config' = [m \in NodeId |->
               IF n \in {config[m].target, config[m].mapAgg} THEN d(m)
               ELSE config[m]]
    BY DEF ScrubMaps, Stage, Busy, Mapping
  <1>2. Well /\ Ungated /\ Knows(edit[q]) /\ Dropping(edit[q])
    BY <1>1 DEF Sound, Knows, Staged, Dropping
  <1>3. /\ entry \in nodes \cup strays \cup {NoNode}
        /\ \A m \in nodes : GroupStands(m, {}, {}) /\ MapStands(m, {n})
    BY <1>1, <1>2 DEF Deleting, Knows, Scrubbing
  <1>4. ASSUME NEW m \in NodeId
        PROVE  /\ config'[m] \in Config /\ Paired(config'[m])
               /\ config'[m].branches = config[m].branches
               /\ config'[m].agg = config[m].agg
               /\ config'[m].gate = config[m].gate
               /\ config'[m].target \in {config[m].target, NoNode}
               /\ \A y \in {config'[m].target, config'[m].mapAgg} :
                      \/ y = NoNode
                      \/ y # n /\ y \in {config[m].target, config[m].mapAgg}
    <2>1. config[m] \in Config /\ Paired(config[m])
      BY <1>2 DEF Well
    <2>2. /\ d(m) \in Config /\ d(m).branches = config[m].branches
          /\ d(m).agg = config[m].agg /\ d(m).gate = config[m].gate
          /\ d(m).target = NoNode /\ d(m).mapAgg = NoNode
      BY <2>1 DEF Config, Mapping, Node
    <2> HIDE DEF d
    <2>3. config'[m] = IF n \in {config[m].target, config[m].mapAgg} THEN d(m)
                       ELSE config[m]
      BY <1>1
    <2>4. CASE n \in {config[m].target, config[m].mapAgg}
      <3>1. PICK c : c = d(m)
        OBVIOUS
      <3>2. config'[m] = c
        BY <2>3, <2>4, <3>1
      <3> QED
        BY <2>1, <2>2, <3>1, <3>2 DEF Paired
    <2>5. CASE n \notin {config[m].target, config[m].mapAgg}
      <3>1. config'[m] = config[m]
        BY <2>3, <2>5
      <3> QED
        BY <2>1, <2>5, <3>1 DEF Paired
    <2> QED
      BY <2>4, <2>5
  <1>5. Well'
    <2>1. config' \in [NodeId -> Config]
      BY <1>1, <1>4
    <2> QED
      BY <1>1, <1>2, <1>4, <2>1 DEF Well, EdgeIds
  <1>6. Clean'
    <2>1. \A m \in nodes : m \in NodeId
      BY <1>2 DEF Well
    <2>2. ASSUME NEW m \in nodes
          PROVE  GroupStands(m, {}, {})' /\ MapStands(m, {})'
      <3>1. GroupStands(m, {}, {})'
        BY <1>1, <1>3, <1>4, <2>1 DEF GroupStands, EdgeIds
      <3>2. MapStands(m, {})'
        BY <1>1, <1>3, <1>4, <2>1 DEF MapStands
      <3> QED
        BY <3>1, <3>2
    <2> QED
      BY <1>1, <1>3, <2>2 DEF Clean
  <1>7. Ungated'
    <2> SUFFICES ASSUME NEW y \in nodes, config'[y].gate,
                        NEW m \in nodes \ {y}, FansOutTo(m, y)'
                 PROVE  FALSE
      BY <1>1 DEF Ungated
    <2>1. y \in NodeId /\ m \in NodeId /\ config[y].gate /\ y # NoNode
      BY <1>2, <1>4, GraphAssumption DEF Well
    <2>2. FansOutTo(m, y)
      BY <1>1, <1>4, <2>1 DEF FansOutTo, EdgeIds
    <2> QED
      BY <1>2, <2>1, <2>2 DEF Ungated
  <1> QED
    BY <1>1, <1>5, <1>6, <1>7, EndSound

-----------------------------------------------------------------------------

LEMMA InitSound == GraphInit => Sound
  <1> SUFFICES ASSUME GraphInit PROVE Sound
    OBVIOUS
  <1>1. /\ nodes = StartNodes /\ edges = StartEdges /\ entry \in StartNodes
        /\ config = [n \in NodeId |-> Plain]
        /\ edit = [q \in Requests |-> NoEdit] /\ strays = {}
    BY DEF GraphInit
  <1>2. Plain \in Config /\ Paired(Plain)
    BY DEF Plain, Config, Node, Paired
  <1>3. edges \in [EdgeIds -> [src : nodes, dst : nodes \cup strays,
                             auto : BOOLEAN]]
    BY <1>1, GraphAssumption DEF EdgeIds
  <1>4. Well
    BY <1>1, <1>2, <1>3, GraphAssumption DEF Well, EdgeIds
  <1>5. \A n \in nodes : config[n] = Plain /\ n \in NodeId /\ n # NoNode
    BY <1>1, GraphAssumption
  <1>6. Ungated
    BY <1>5 DEF Ungated, Plain
  <1>7. Clean
    BY <1>1, <1>5 DEF Clean, GroupStands, MapStands, Plain
  <1>8. Alone
    BY <1>1 DEF Alone, Busy, Stage, NoEdit
  <1> QED
    BY <1>1, <1>4, <1>6, <1>7, <1>8, KnowsNoEdit DEF Sound

\* What has been disturbed stays so.
LEMMA SoundStep ==
    ASSUME Shape, Sound, [GraphNext]_graphVars
    PROVE  Sound'
  <1> SUFFICES ASSUME ~disturbed' PROVE Sound'
    BY DEF Sound
  <1>1. CASE UNCHANGED graphVars
    <2>1. UNCHANGED <<nodes, config, edges, entry, strays, edit, disturbed>>
      BY <1>1 DEF graphVars
    <2>2. ASSUME NEW p \in Requests
          PROVE  Knows(edit[p])'
      <3>1. PICK s : s = edit[p]
        OBVIOUS
      <3>2. Knows(s)
        BY <2>1, <3>1 DEF Sound
      <3>3. Knows(s)' /\ edit'[p] = s
        BY <2>1, <3>1, <3>2, RowsUnchanged DEF Rows
      <3> QED
        BY <3>3
    <2>3. Well' /\ Ungated' /\ (Clean' <=> Clean)
      BY <2>1, RowsUnchanged DEF Sound, Rows
    <2>4. Alone' /\ ((\A q \in Requests : ~Deleting(edit[q])) => Clean)'
      BY <2>1, <2>3 DEF Sound, Alone, Busy, Stage, Deleting, Dropping
    <2> QED
      BY <2>2, <2>3, <2>4 DEF Sound
  <1>2. CASE GraphNext
    <2>1. ASSUME NEW q \in Requests, NEW n \in NodeId,
                 AddNode(q, n) \/ PatchNode(q, n) \/ DropNode(q, n)
          PROVE  Sound'
      BY <2>1, AddNodeSound, PatchNodeSound, DropNodeSound
    <2>2. ASSUME NEW q \in Requests, NEW e \in EdgeId,
                 \/ AddEdge(q, e) \/ DropEdge(q, e)
                 \/ \E n \in Node : MoveEdge(q, e, n)
          PROVE  Sound'
      BY <2>2, AddEdgeSound, DropEdgeSound, MoveEdgeSound
    <2>3. ASSUME NEW n \in NodeId, SetEntry(n)
          PROVE  Sound'
      BY <2>3, SetEntrySound
    <2>4. ASSUME NEW q \in Requests, SnapRow(q)
          PROVE  Sound'
      BY <2>4, SnapRowSound
    <2>5. ASSUME NEW q \in Requests, ClearEntry(q)
          PROVE  Sound'
      BY <2>5, EntryCleared DEF ClearEntry
    <2>6. ASSUME NEW q \in Requests, WriteNode(q) \/ DeleteNode(q)
          PROVE  Sound'
      BY <2>6, NodeWritten, NodeDeleted DEF WriteNode, DeleteNode
    <2>7. ASSUME NEW q \in Requests, WriteEdge(q) \/ DeleteEdge(q)
          PROVE  Sound'
      BY <2>7, EdgeWritten, EdgeDeleted DEF WriteEdge, DeleteEdge
    <2>8. ASSUME NEW q \in Requests, Bump(q) \/ Log(q)
          PROVE  Sound'
      BY <2>8, Bumps, Logs DEF Bump, Log, LogAs
    <2>9. ASSUME NEW q \in Requests, SyncGroup(q) \/ Scrub(q)
          PROVE  Sound'
      BY <2>9, GroupSynced, ScrubReads DEF SyncGroup, Scrub
    <2>10. ASSUME NEW q \in Requests, ScrubOne(q) \/ ScrubMaps(q)
           PROVE  Sound'
      <3>1. ~disturbed
        BY <2>10 DEF ScrubOne, ScrubMaps
      <3> QED
        BY <2>10, <3>1, GroupScrubbed, MapsScrubbed
    <2>11. ASSUME NEW q \in Requests, SnapNodes(q) \/ SnapEdges(q)
           PROVE  Sound'
      BY <2>11, SnapReads, SnapEnds DEF SnapNodes, SnapEdges, SnapAs
    <2>12. ASSUME NEW q \in Requests, CutEdit(q)
           PROVE  Sound'
      BY <2>12 DEF CutEdit
    <2> QED
      BY <1>2, <2>1, <2>2, <2>3, <2>4, <2>5, <2>6, <2>7, <2>8, <2>9, <2>10,
         <2>11, <2>12 DEF GraphNext
  <1> QED
    BY <1>1, <1>2

LEMMA AlwaysSound == GraphSpec => [](Shape /\ Sound)
  <1>1. GraphInit => Shape /\ Sound
    BY InitShape, InitSound
  <1>2. Shape /\ Sound /\ [GraphNext]_graphVars => Shape' /\ Sound'
    BY ShapeStep, SoundStep
  <1> QED
    BY <1>1, <1>2, PTL DEF GraphSpec

\* validation/approvalGate.ts, as far as the code goes: while no two edits of
\* the graph overlap and none is cut short, whichever of the two nodes was
\* saved first, a gated node is no other node's branch.
THEOREM BranchesAreUngated == GraphSpec => []BranchesNeverPause
  <1>1. Shape /\ Sound => BranchesNeverPause
    BY DEF Sound, Ungated, BranchesNeverPause
  <1> QED
    BY <1>1, AlwaysSound, PTL

\* The scrubs after a delete: between requests that came one at a time and
\* whole, the entry, the groups and the maps name what is there, or what was
\* not there already when a request named it.
THEOREM ReferencesStand == GraphSpec => []NothingDangles
  <1>1. Shape /\ Sound => NothingDangles
    <2> SUFFICES ASSUME Shape, Sound, ~disturbed, \A q \in Requests : ~Busy(q)
                 PROVE  /\ entry \in nodes \cup strays \cup {NoNode}
                        /\ \A m \in nodes : Refs(config[m])
                               \subseteq nodes \cup EdgeIds \cup strays
      BY DEF NothingDangles
    <2>1. Clean
      BY DEF Sound, Deleting, Busy, Stage
    <2> QED
      BY <2>1 DEF Clean, GroupStands, MapStands, Refs
  <1> QED
    BY <1>1, AlwaysSound, PTL

=============================================================================
