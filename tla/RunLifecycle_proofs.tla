------------------------ MODULE RunLifecycle_proofs ------------------------
(***************************************************************************)
(* What holds of RunLifecycle for every graph, every number of slots and   *)
(* any set of requests.                                                    *)
(***************************************************************************)
EXTENDS RunLifecycle, FiniteSetTheorems, WellFoundedInduction, TLAPS

-----------------------------------------------------------------------------
(* The trail: the last succeeded event is an event.                        *)

LEMMA MaximumExists ==
    ASSUME NEW S \in SUBSET Nat, S # {}, NEW b \in Nat, \A i \in S : i < b
    PROVE  \E i \in S : \A j \in S : j <= i
<1> DEFINE T == {b - i : i \in S}
<1>1. T \subseteq Nat /\ T # {}
  <2>1. \A i \in S : b - i \in Nat
    OBVIOUS
  <2>2. T \subseteq Nat
    BY <2>1
  <2>3. T # {}
    BY Zenon
  <2> QED BY <2>2, <2>3
<1>2. PICK m \in T : \A n \in T : <<n, m>> \notin OpToRel(<, Nat)
  BY <1>1, NatLessThanWellFounded, WFMin
<1>3. PICK i \in S : m = b - i
  OBVIOUS
<1>4. \A j \in S : ~ (b - j < b - i)
  BY <1>1, <1>2, <1>3 DEF OpToRel
<1> QED BY <1>4

LEMMA LastSucceededIsEvent ==
    ASSUME TypeOK, NEW k \in Nat, AnySucceeded(k) # {}
    PROVE  LastSucceeded(k) \in DOMAIN log
<1>1. /\ AnySucceeded(k) \in SUBSET Nat
      /\ AnySucceeded(k) \subseteq DOMAIN log
      /\ \A i \in AnySucceeded(k) : i < k
  BY DEF TypeOK, AnySucceeded
<1>2. \E i \in AnySucceeded(k) : \A j \in AnySucceeded(k) : j <= i
  BY <1>1, MaximumExists
<1> QED BY <1>1, <1>2 DEF LastSucceeded

-----------------------------------------------------------------------------
(* Types.                                                                  *)

\* A slot looks whether the next node was visited only when there is one.
NextIsNode == \A s \in Slots : pc[s] = "visited" => hop[s].next \in Nodes

TypeInv == TypeOK /\ NextIsNode

LEMMA TypeInvInit == Init => TypeInv
<1> SUFFICES ASSUME Init PROVE TypeInv
  OBVIOUS
<1>1. run \in Row /\ log \in Seq(Event) /\ queue \in Nat
  BY GraphAssumption DEF Init, Row, Status
<1>2. pc \in [Procs -> SlotPC \cup ReqPC]
  BY DEF Init, SlotPC
<1>3. hop \in [Slots -> Hop]
  BY GraphAssumption DEF Init, Hop, Kinds
<1>4. target \in [Movers -> Target]
  BY GraphAssumption DEF Init, Target
<1>5. req \in [Requests -> Req]
  BY GraphAssumption DEF Init, Req
<1>6. NextIsNode
  BY DEF Init, NextIsNode, Procs, Movers
<1> QED
  BY <1>1, <1>2, <1>3, <1>4, <1>5, <1>6 DEF Init, TypeInv, TypeOK

\* Where RecordSuccess sends a draft, the trail names a node.
LEMMA AuthorIsNode ==
    ASSUME TypeOK, NEW s \in Slots, WantsRevision(hop[s])
    PROVE  Author(hop[s]) \in Nodes
<1>1. hop[s].seq \in Nat
  BY DEF TypeOK, Hop
<1>2. hop[s].input \in DOMAIN log
  BY <1>1, LastSucceededIsEvent DEF WantsRevision, IsReviewGate
<1>3. log[hop[s].input] \in Event
  BY <1>2 DEF TypeOK
<1>4. log[hop[s].input].node \in Nodes
  BY <1>3 DEF Event
<1> QED BY <1>4 DEF Author

\* What the writes the actions share keep typed.
LEMMA StatusTyped ==
    ASSUME TypeOK, NEW s \in Status, SetStatus(s)
    PROVE  run' \in Row
  BY DEF TypeOK, SetStatus, Row

LEMMA InsertTyped ==
    ASSUME TypeOK, NEW n \in Nodes, NEW revise \in BOOLEAN,
           NEW status \in {"succeeded", "failed", "approved", "cancelled"},
           Insert(NewEvent(n, status, revise))
    PROVE  log' \in Seq(Event)
<1>1. NewEvent(n, status, revise) \in Event
  BY DEF NewEvent, Event
<1> QED BY <1>1 DEF TypeOK, Insert

LEMMA HopTyped ==
    ASSUME TypeOK, NEW s \in Slots, NEW h \in Hop, hop' = [hop EXCEPT ![s] = h]
    PROVE  hop' \in [Slots -> Hop]
  BY DEF TypeOK

LEMMA TargetTyped ==
    ASSUME TypeOK, NEW p \in Movers, NEW n \in Nodes, NEW i \in Nat,
           target' = [target EXCEPT ![p] = [node |-> n, input |-> i]]
    PROVE  target' \in [Movers -> Target]
  BY DEF TypeOK, Target

\* A process moves on, to anything but the check of the next node, and no hop
\* that is at that check changes.
LEMMA PcTyped ==
    ASSUME TypeInv, NEW p \in Procs, NEW l \in SlotPC \cup ReqPC,
           l # "visited", Go(p, l),
           \A s \in Slots : s = p \/ hop'[s] = hop[s]
    PROVE  pc' \in [Procs -> SlotPC \cup ReqPC] /\ NextIsNode'
<1>1. pc' \in [Procs -> SlotPC \cup ReqPC]
  BY DEF TypeInv, TypeOK, Go
<1>2. \A s \in Slots : pc'[s] = "visited" => s # p /\ pc[s] = "visited"
  BY DEF TypeInv, TypeOK, Go, Procs, Movers
<1> QED BY <1>1, <1>2 DEF TypeInv, NextIsNode

LEMMA TypeInvStep == TypeInv /\ [FaultyNext]_vars => TypeInv'
<1> SUFFICES ASSUME TypeInv, [FaultyNext]_vars PROVE TypeInv'
  OBVIOUS
<1> USE DEF TypeInv
<1>1. CASE CreateRun
  <2>1. run' \in Row
    BY <1>1, GraphAssumption DEF CreateRun, Row, Status, Live
  <2>2. target' \in [Movers -> Target]
    BY <1>1, GraphAssumption, TargetTyped DEF CreateRun, Movers
  <2>3. pc' \in [Procs -> SlotPC \cup ReqPC] /\ NextIsNode'
    BY <1>1, PcTyped DEF CreateRun, Movers, Procs, SlotPC
  <2> QED BY <1>1, <2>1, <2>2, <2>3 DEF CreateRun, TypeOK
<1>2. ASSUME NEW p \in Movers, Advance(p) PROVE TypeInv'
  <2>1. target[p] \in Target
    BY DEF TypeOK
  <2>2. run' \in Row
    BY <1>2, <2>1 DEF Advance, TypeOK, Row, Target
  <2>3. pc' \in [Procs -> SlotPC \cup ReqPC] /\ NextIsNode'
    BY <1>2, PcTyped DEF Advance, Rest, Movers, Procs, SlotPC, ReqPC
  <2> QED BY <1>2, <2>1, <2>2, <2>3 DEF Advance, TypeOK
<1>3. ASSUME NEW p \in Procs, EnqueueHop(p) PROVE TypeInv'
  <2>1. pc' \in [Procs -> SlotPC \cup ReqPC] /\ NextIsNode'
    BY <1>3, PcTyped DEF EnqueueHop, Rest, SlotPC, ReqPC
  <2> QED BY <1>3, <2>1 DEF EnqueueHop, TypeOK
<1>4. ASSUME NEW p \in Movers, PauseAtGate(p) PROVE TypeInv'
  <2>1. run' \in Row
    BY <1>4, StatusTyped DEF PauseAtGate, TypeOK, Status
  <2>2. pc' \in [Procs -> SlotPC \cup ReqPC] /\ NextIsNode'
    BY <1>4, PcTyped DEF PauseAtGate, Rest, Movers, Procs, SlotPC, ReqPC
  <2>3. pauses' \in Nat
    BY <1>4 DEF PauseAtGate, TypeOK
  <2> QED BY <1>4, <2>1, <2>2, <2>3 DEF PauseAtGate, TypeOK
<1>5. ASSUME NEW t \in Slots, TakeJob(t) PROVE TypeInv'
  <2>1. [hop[t] EXCEPT !.node = run.node, !.input = run.input] \in Hop
    BY DEF TypeOK, Hop, Row
  <2>2. hop' \in [Slots -> Hop]
    BY <1>5, <2>1, HopTyped DEF TakeJob, TypeOK
  <2>3. queue' \in Nat
    BY <1>5 DEF TakeJob, TypeOK
  <2>4. pc' \in [Procs -> SlotPC \cup ReqPC] /\ NextIsNode'
    <3>1. CASE run.status \in Live
      BY <1>5, <3>1, PcTyped DEF TakeJob, TypeOK, Movers, Procs, SlotPC
    <3>2. CASE run.status \notin Live
      <4>1. pc' = pc /\ hop' = hop
        BY <1>5, <3>2 DEF TakeJob
      <4> QED BY <4>1 DEF TypeOK, NextIsNode
    <3> QED BY <3>1, <3>2
  <2> QED BY <1>5, <2>1, <2>2, <2>3, <2>4 DEF TakeJob, TypeOK
<1>6. ASSUME NEW t \in Slots, StartHop(t) PROVE TypeInv'
  <2>1. run' \in Row
    BY <1>6, StatusTyped DEF StartHop, TypeOK, Status, Live
  <2>2. pc' \in [Procs -> SlotPC \cup ReqPC] /\ NextIsNode'
    BY <1>6, PcTyped DEF StartHop, Movers, Procs, SlotPC
  <2> QED BY <1>6, <2>1, <2>2 DEF StartHop, TypeOK
<1>7. ASSUME NEW t \in Slots, CallModel(t) PROVE TypeInv'
  <2>1. NextSequence \in Nat
    BY DEF NextSequence, TypeOK
  <2>2. [hop[t] EXCEPT !.seq = NextSequence] \in Hop
    BY <2>1 DEF TypeOK, Hop
  <2>3. hop' \in [Slots -> Hop]
    BY <1>7, <2>2, HopTyped DEF CallModel, TypeOK
  <2>4. calls' \in [Nodes -> Nat]
    BY <1>7 DEF CallModel, TypeOK, Hop
  <2>5. pc' \in [Procs -> SlotPC \cup ReqPC] /\ NextIsNode'
    BY <1>7, PcTyped DEF CallModel, Movers, Procs, SlotPC, TypeOK
  <2> QED BY <1>7, <2>1, <2>2, <2>3, <2>4, <2>5 DEF CallModel, TypeOK
<1>8. ASSUME NEW t \in Slots, ModelFails(t) PROVE TypeInv'
  <2>1. pc' \in [Procs -> SlotPC \cup ReqPC] /\ NextIsNode'
    BY <1>8, PcTyped DEF ModelFails, Movers, Procs, SlotPC
  <2> QED BY <1>8, <2>1 DEF ModelFails, TypeOK
<1>9. ASSUME NEW t \in Slots, RecordFailure(t) PROVE TypeInv'
  <2>1. hop[t].node \in Nodes
    BY DEF TypeOK, Hop
  <2>2. log' \in Seq(Event)
    BY <1>9, <2>1, InsertTyped DEF RecordFailure, TypeOK
  <2>3. pc' \in [Procs -> SlotPC \cup ReqPC] /\ NextIsNode'
    BY <1>9, PcTyped DEF RecordFailure, Movers, Procs, SlotPC
  <2> QED BY <1>9, <2>1, <2>2, <2>3 DEF RecordFailure, TypeOK
<1>10. ASSUME NEW t \in Slots, FailRun(t) PROVE TypeInv'
  <2>1. run' \in Row
    BY <1>10, StatusTyped DEF FailRun, TypeOK, Status, Terminal
  <2>2. pc' \in [Procs -> SlotPC \cup ReqPC] /\ NextIsNode'
    BY <1>10, PcTyped DEF FailRun, Movers, Procs, SlotPC
  <2> QED BY <1>10, <2>1, <2>2 DEF FailRun, TypeOK
<1>11. ASSUME NEW t \in Slots, ModelAnswers(t) PROVE TypeInv'
  <2>1. PICK next \in Nodes \cup {NoNode}, kind \in Kinds, revise \in BOOLEAN :
          hop' = [hop EXCEPT ![t] =
            [@ EXCEPT !.next = next, !.kind = kind, !.revise = revise]]
    BY <1>11 DEF ModelAnswers
  <2>2. [hop[t] EXCEPT !.next = next, !.kind = kind, !.revise = revise] \in Hop
    BY DEF TypeOK, Hop
  <2>3. hop' \in [Slots -> Hop]
    BY <2>1, <2>2, HopTyped DEF TypeOK
  <2>4. pc' \in [Procs -> SlotPC \cup ReqPC] /\ NextIsNode'
    BY <1>11, <2>1, PcTyped DEF ModelAnswers, Movers, Procs, SlotPC, TypeOK
  <2> QED BY <1>11, <2>1, <2>2, <2>3, <2>4 DEF ModelAnswers, TypeOK
<1>12. ASSUME NEW t \in Slots, RecordSuccess(t) PROVE TypeInv'
  <2>1. hop[t] \in Hop
    BY DEF TypeOK
  <2>2. log' \in Seq(Event)
    BY <1>12, <2>1, InsertTyped DEF RecordSuccess, TypeOK, Hop
  <2>3. target' \in [Movers -> Target]
    <3>1. CASE Free(hop[t].seq) /\ WantsRevision(hop[t])
      BY <1>12, <3>1, AuthorIsNode, TargetTyped DEF RecordSuccess, Movers
    <3>2. CASE ~ (Free(hop[t].seq) /\ WantsRevision(hop[t]))
      BY <1>12, <3>2 DEF RecordSuccess, TypeOK
    <3> QED BY <3>1, <3>2
  <2>4. pc' \in [Procs -> SlotPC \cup ReqPC]
    BY <1>12 DEF RecordSuccess, Go, TypeOK, Movers, Procs, SlotPC
  <2>5. hop[t].next = NoNode \/ hop[t].next \in Nodes
    BY <2>1 DEF Hop
  <2>6. NextIsNode'
    BY <1>12, <2>5 DEF RecordSuccess, Go, NextIsNode, TypeOK, Movers, Procs
  <2> QED BY <1>12, <2>1, <2>2, <2>3, <2>4, <2>5, <2>6
      DEF RecordSuccess, TypeOK
<1>13. ASSUME NEW t \in Slots, CheckVisited(t) PROVE TypeInv'
  <2>1. hop[t] \in Hop /\ hop[t].next \in Nodes
    BY <1>13 DEF CheckVisited, TypeOK, NextIsNode
  <2>2. HandedOn(hop[t]) \in Nat
    BY <2>1 DEF HandedOn, Hop
  <2>3. target' \in [Movers -> Target]
    <3>1. CASE Visited(hop[t].next) /\ ~RevisedDraftReturning(hop[t])
      BY <1>13, <3>1 DEF CheckVisited, TypeOK
    <3>2. CASE ~ (Visited(hop[t].next) /\ ~RevisedDraftReturning(hop[t]))
      BY <1>13, <2>1, <2>2, <3>2, TargetTyped DEF CheckVisited, Movers
    <3> QED BY <3>1, <3>2
  <2>4. pc' \in [Procs -> SlotPC \cup ReqPC] /\ NextIsNode'
    BY <1>13, PcTyped DEF CheckVisited, Movers, Procs, SlotPC
  <2> QED BY <1>13, <2>1, <2>2, <2>3, <2>4 DEF CheckVisited, TypeOK
<1>14. ASSUME NEW t \in Slots, CompleteRun(t) PROVE TypeInv'
  <2>1. run' \in Row
    BY <1>14, StatusTyped DEF CompleteRun, TypeOK, Status, Terminal
  <2>2. pc' \in [Procs -> SlotPC \cup ReqPC] /\ NextIsNode'
    BY <1>14, PcTyped DEF CompleteRun, Movers, Procs, SlotPC
  <2> QED BY <1>14, <2>1, <2>2 DEF CompleteRun, TypeOK
<1>15. ASSUME NEW t \in Slots, Throw(t) PROVE TypeInv'
  <2>1. pc' \in [Procs -> SlotPC \cup ReqPC] /\ NextIsNode'
    BY <1>15, PcTyped DEF Throw, Movers, Procs, SlotPC
  <2> QED BY <1>15, <2>1 DEF Throw, TypeOK
<1>16. ASSUME NEW t \in Slots, Backstop(t) PROVE TypeInv'
  <2>1. run' \in Row
    BY <1>16, StatusTyped DEF Backstop, TypeOK, Status, Terminal
  <2>2. pc' \in [Procs -> SlotPC \cup ReqPC] /\ NextIsNode'
    BY <1>16, PcTyped DEF Backstop, Movers, Procs, SlotPC
  <2> QED BY <1>16, <2>1, <2>2 DEF Backstop, TypeOK
<1>17. ASSUME NEW r \in Requests, ApproveRead(r) \/ CancelRead(r) PROVE TypeInv'
  <2>1. [node |-> run.node, input |-> run.input, seq |-> 0, pause |-> pauses]
          \in Req
    BY DEF TypeOK, Row, Req
  <2>2. req' \in [Requests -> Req]
    BY <1>17, <2>1 DEF ApproveRead, CancelRead, ReadRun, TypeOK
  <2>3. pc' \in [Procs -> SlotPC \cup ReqPC] /\ NextIsNode'
    BY <1>17, PcTyped DEF ApproveRead, CancelRead, Procs, ReqPC
  <2> QED BY <1>17, <2>1, <2>2, <2>3 DEF ApproveRead, CancelRead, TypeOK
<1>18. ASSUME NEW r \in Requests, ApproveDecide(r) PROVE TypeInv'
  <2>1. req[r].input \in Nat
    BY DEF TypeOK, Req
  <2>2. \A i \in Nat : [run EXCEPT !.status = "pending", !.input = i] \in Row
    BY DEF TypeOK, Row, Status, Live
  <2>3. \/ UNCHANGED run
       \/ \E i \in Nat : run' = [run EXCEPT !.status = "pending", !.input = i]
    BY <1>18, <2>1 DEF ApproveDecide
  <2>4. run' \in Row
    BY <2>2, <2>3 DEF TypeOK
  <2>5. [grants EXCEPT ![run.node] = @ + 1] \in [Nodes -> Nat]
    BY DEF TypeOK, Row
  <2>6. grants' \in [Nodes -> Nat]
    BY <1>18, <2>5 DEF ApproveDecide, TypeOK
  <2>7. pc' \in [Procs -> SlotPC \cup ReqPC] /\ NextIsNode'
    BY <1>18, PcTyped DEF ApproveDecide, Procs, ReqPC
  <2> QED BY <1>18, <2>1, <2>2, <2>3, <2>4, <2>5, <2>6, <2>7
      DEF ApproveDecide, TypeOK
<1>19. ASSUME NEW r \in Requests, CancelDecide(r) PROVE TypeInv'
  <2>1. run' \in Row
    BY <1>19, StatusTyped DEF CancelDecide, TypeOK, Status, Terminal
  <2>2. pc' \in [Procs -> SlotPC \cup ReqPC] /\ NextIsNode'
    BY <1>19, PcTyped DEF CancelDecide, Procs, ReqPC
  <2> QED BY <1>19, <2>1, <2>2 DEF CancelDecide, TypeOK
<1>20. ASSUME NEW r \in Requests, DecisionSequence(r) PROVE TypeInv'
  <2>1. NextSequence \in Nat
    BY DEF NextSequence, TypeOK
  <2>2. [req[r] EXCEPT !.seq = NextSequence] \in Req
    BY <2>1 DEF TypeOK, Req
  <2>3. req' \in [Requests -> Req]
    BY <1>20, <2>2 DEF DecisionSequence, TypeOK
  <2>4. pc' \in [Procs -> SlotPC \cup ReqPC] /\ NextIsNode'
    BY <1>20, PcTyped DEF DecisionSequence, Procs, ReqPC
  <2> QED BY <1>20, <2>1, <2>2, <2>3, <2>4 DEF DecisionSequence, TypeOK
<1>21. ASSUME NEW r \in Requests, ApproveRecord(r) \/ CancelRecord(r)
       PROVE TypeInv'
  <2>1. req[r].node \in Nodes
    BY DEF TypeOK, Req
  <2>2. log' \in Seq(Event)
    BY <1>21, <2>1, InsertTyped
    DEF ApproveRecord, CancelRecord, RecordDecision, TypeOK
  <2>3. pc' \in [Procs -> SlotPC \cup ReqPC] /\ NextIsNode'
    BY <1>21, PcTyped
    DEF ApproveRecord, CancelRecord, RecordDecision, Procs, SlotPC, ReqPC
  <2> QED BY <1>21, <2>1, <2>2, <2>3
      DEF ApproveRecord, CancelRecord, RecordDecision, TypeOK
<1>22. ASSUME NEW r \in Requests, CancelPublish(r) PROVE TypeInv'
  <2>1. pc' \in [Procs -> SlotPC \cup ReqPC] /\ NextIsNode'
    BY <1>22, PcTyped DEF CancelPublish, Procs, ReqPC
  <2> QED BY <1>22, <2>1 DEF CancelPublish, TypeOK
<1>23. ASSUME NEW t \in Slots, Redeliver(t) PROVE TypeInv'
  <2>1. pc' \in [Procs -> SlotPC \cup ReqPC] /\ NextIsNode'
    BY <1>23 DEF Redeliver, TypeOK, NextIsNode
  <2> QED BY <1>23, <2>1 DEF Redeliver, TypeOK
<1>24. ASSUME NEW t \in Slots, Crash(t) PROVE TypeInv'
  <2>1. pc' \in [Procs -> SlotPC \cup ReqPC] /\ NextIsNode'
    BY <1>24, PcTyped DEF Crash, Movers, Procs, SlotPC
  <2> QED BY <1>24, <2>1 DEF Crash, TypeOK
<1>27. ASSUME NEW t \in Slots, BackstopRejects(t) PROVE TypeInv'
  <2>1. pc' \in [Procs -> SlotPC \cup ReqPC] /\ NextIsNode'
    BY <1>27, PcTyped DEF BackstopRejects, Movers, Procs, SlotPC
  <2> QED BY <1>27, <2>1 DEF BackstopRejects, TypeOK
<1>25. ASSUME NEW p \in Procs, ApiFails(p) PROVE TypeInv'
  <2>1. pc' \in [Procs -> SlotPC \cup ReqPC] /\ NextIsNode'
    BY <1>25, PcTyped DEF ApiFails, ReqPC
  <2> QED BY <1>25, <2>1 DEF ApiFails, TypeOK
<1>26. CASE UNCHANGED vars
  BY <1>26 DEF vars, TypeOK, NextIsNode
<1> QED
  BY <1>1, <1>2, <1>3, <1>4, <1>5, <1>6, <1>7, <1>8, <1>9, <1>10, <1>11,
     <1>12, <1>13, <1>14, <1>15, <1>16, <1>17, <1>18, <1>19, <1>20, <1>21,
     <1>22, <1>23, <1>24, <1>25, <1>26, <1>27
  DEF FaultyNext, Next, HopStep, CreatorStep, ApproveStep, CancelStep,
      Movers, Requests, Procs

\* Every variable keeps its type, also when jobs are delivered twice and
\* processes die.  (the columns of runs and run_events, the steps of a hop)
THEOREM TypeCorrect == FaultySpec => []TypeOK
<1>1. TypeInv => TypeOK
  BY DEF TypeInv
<1> QED BY TypeInvInit, TypeInvStep, <1>1, PTL DEF FaultySpec

-----------------------------------------------------------------------------
(* "Cancelled is sticky": every write of the status is guarded.            *)

LEMMA CancelIsStickyStep ==
    TypeOK /\ [FaultyNext]_vars /\ run.status = "cancelled"
        => run'.status = "cancelled"
<1> SUFFICES ASSUME TypeOK, [FaultyNext]_vars, run.status = "cancelled"
             PROVE  run'.status = "cancelled"
  OBVIOUS
<1>1. run' = run => run'.status = "cancelled"
  OBVIOUS
<1>2. ASSUME CreateRun PROVE FALSE
  BY <1>2 DEF CreateRun
<1>3. ASSUME NEW p \in Movers, Advance(p) \/ PauseAtGate(p) PROVE run' = run
  BY <1>3 DEF Advance, PauseAtGate
<1>4. ASSUME NEW s \in Slots,
             \/ TakeJob(s) \/ StartHop(s) \/ CallModel(s) \/ ModelFails(s)
             \/ RecordFailure(s) \/ FailRun(s) \/ ModelAnswers(s)
             \/ RecordSuccess(s) \/ CheckVisited(s) \/ CompleteRun(s)
             \/ Throw(s) \/ Backstop(s) \/ Redeliver(s) \/ Crash(s)
             \/ BackstopRejects(s)
      PROVE  run' = run
  BY <1>4
  DEF TakeJob, StartHop, CallModel, ModelFails, RecordFailure, FailRun,
      ModelAnswers, RecordSuccess, CheckVisited, CompleteRun, Throw, Backstop,
      Redeliver, Crash, BackstopRejects, Live
<1>5. ASSUME NEW r \in Requests,
             \/ ApproveRead(r) \/ ApproveDecide(r) \/ ApproveRecord(r)
             \/ CancelRead(r) \/ CancelDecide(r) \/ CancelRecord(r)
             \/ DecisionSequence(r) \/ CancelPublish(r)
      PROVE  run' = run
  BY <1>5
  DEF ApproveRead, ApproveDecide, ApproveRecord, CancelRead, CancelDecide,
      CancelRecord, DecisionSequence, CancelPublish, RecordDecision, Live
<1>6. ASSUME NEW p \in Procs, EnqueueHop(p) \/ ApiFails(p) PROVE run' = run
  BY <1>6 DEF EnqueueHop, ApiFails
<1>7. UNCHANGED vars => run' = run
  BY DEF vars
<1> QED
  BY <1>1, <1>2, <1>3, <1>4, <1>5, <1>6, <1>7
  DEF FaultyNext, Next, HopStep, CreatorStep, ApproveStep, CancelStep,
      Movers, Requests, Procs

\* No write of a hop that is still in flight undoes a cancel, whatever fails.
\* (the status guards of advanceRun, completeRun and dispatchHopInner)
THEOREM CancelSticks == FaultySpec => CancelIsSticky
<1>1. TypeOK /\ [FaultyNext]_vars
        => [run.status = "cancelled" => run'.status = "cancelled"]_vars
  BY CancelIsStickyStep
<1> QED BY TypeCorrect, <1>1, PTL DEF FaultySpec, CancelIsSticky

-----------------------------------------------------------------------------
(* While every job is delivered once, one hop is in flight at most.        *)

\* Nothing is on its way.
Quiet == queue = 0 /\ \A p \in Procs : ~Holds(p)

AtRest == {"absent", "awaiting_approval", "completed", "error"}

\* SingleFlight, and nothing on its way either before the run is created or
\* after it completed or failed.  (A cancel leaves a hop in flight.)
FlightInv ==
    /\ \A p, q \in Procs : Holds(p) /\ Holds(q) => p = q
    /\ queue > 0 => queue = 1 /\ \A p \in Procs : ~Holds(p)
    /\ run.status \in AtRest => Quiet

LEMMA FlightInvInit == Init => FlightInv
  BY DEF Init, FlightInv, Quiet, AtRest, Holds, Procs, Movers, Requests

LEMMA OthersHold ==
    ASSUME TypeOK, NEW p \in Procs, NEW l, Go(p, l)
    PROVE  \A q \in Procs : q # p => (Holds(q)' <=> Holds(q))
  BY DEF TypeOK, Go, Holds

\* The process that holds the hop takes a step, and keeps it or drops it.
LEMMA HolderStep ==
    ASSUME TypeOK, FlightInv, NEW p \in Procs, NEW l, Holds(p), Go(p, l),
           queue' = queue,
           run'.status \in AtRest => ~Holds(p)'
    PROVE  FlightInv'
<1>1. queue = 0 /\ \A q \in Procs : Holds(q) => q = p
  BY DEF FlightInv, TypeOK
<1>2. queue' = 0 /\ \A q \in Procs : Holds(q)' => q = p
  BY <1>1, OthersHold
<1> QED BY <1>2 DEF FlightInv, Quiet

\* It hands the hop to the queue.
LEMMA HandOverStep ==
    ASSUME TypeOK, FlightInv, NEW p \in Procs, NEW l, Holds(p), Go(p, l),
           ~Holds(p)', queue' = queue + 1, run' = run
    PROVE  FlightInv'
<1>1. queue = 0 /\ \A q \in Procs : Holds(q) => q = p
  BY DEF FlightInv, TypeOK
<1>2. queue' = 1 /\ \A q \in Procs : ~Holds(q)'
  BY <1>1, OthersHold
<1>3. run.status \notin AtRest
  BY DEF FlightInv, Quiet
<1> QED BY <1>2, <1>3 DEF FlightInv, Quiet

\* A process without a hop takes a step, and at most cancels the run.
LEMMA BystanderStep ==
    ASSUME TypeOK, FlightInv, NEW p \in Procs, NEW l, Go(p, l),
           ~Holds(p)', queue' = queue,
           run'.status \in {run.status, "cancelled"}
    PROVE  FlightInv'
<1>1. \A q \in Procs : Holds(q)' => Holds(q)
  BY OthersHold
<1> QED BY <1>1 DEF FlightInv, Quiet, AtRest

\* A process takes the hop on when nobody has it.
LEMMA TakeOnStep ==
    ASSUME TypeOK, NEW p \in Procs, NEW l, Go(p, l),
           \A q \in Procs : ~Holds(q), queue' = 0, run'.status \in Live
    PROVE  FlightInv'
<1>1. \A q \in Procs : Holds(q)' => q = p
  BY OthersHold
<1> QED BY <1>1 DEF FlightInv, AtRest, Live

LEMMA FlightInvStep == TypeOK /\ FlightInv /\ [Next]_vars => FlightInv'
<1> SUFFICES ASSUME TypeOK, FlightInv, [Next]_vars PROVE FlightInv'
  OBVIOUS
<1> USE ProcessAssumption DEF Procs, Movers, Requests
\* A hop in flight has brought the run out of rest.
<1>0. ASSUME NEW p \in Procs, Holds(p) PROVE run.status \notin AtRest
  BY <1>0 DEF FlightInv, Quiet
<1>1. CASE CreateRun
  <2>1. queue' = 0 /\ \A q \in Procs : ~Holds(q)
    BY <1>1 DEF CreateRun, FlightInv, Quiet, AtRest
  <2>2. run'.status \in Live
    BY <1>1 DEF CreateRun, Live
  <2> QED BY <1>1, <2>1, <2>2, TakeOnStep DEF CreateRun
<1>2. ASSUME NEW p \in Movers, Advance(p) PROVE FlightInv'
  <2>1. Holds(p)
    BY <1>2 DEF Advance, Holds
  <2>2. run'.status = run.status /\ queue' = queue
    BY <1>2 DEF Advance, TypeOK, Row
  <2>3. PICK l : Go(p, l)
    BY <1>2 DEF Advance
  <2> QED BY <1>0, <2>1, <2>2, <2>3, HolderStep
<1>3. ASSUME NEW p \in Movers \cup Approvals, EnqueueHop(p) PROVE FlightInv'
  <2>1. Holds(p)
    BY <1>3 DEF EnqueueHop, Holds
  <2>2. ~Holds(p)'
    BY <1>3 DEF EnqueueHop, Rest, Go, TypeOK, Holds
  <2> QED BY <1>3, <2>1, <2>2, HandOverStep DEF EnqueueHop
<1>4. ASSUME NEW p \in Movers, PauseAtGate(p) PROVE FlightInv'
  <2>1. Holds(p)
    BY <1>4 DEF PauseAtGate, Holds
  <2>2. ~Holds(p)'
    BY <1>4 DEF PauseAtGate, Rest, Go, TypeOK, Holds
  <2> QED BY <1>4, <2>1, <2>2, HolderStep DEF PauseAtGate
<1>5. ASSUME NEW s \in Slots, TakeJob(s) PROVE FlightInv'
  <2>1. queue' = 0 /\ run' = run /\ \A q \in Procs : ~Holds(q)
    BY <1>5 DEF TakeJob, FlightInv, TypeOK
  <2>2. CASE run.status \in Live
    BY <1>5, <2>1, <2>2, TakeOnStep DEF TakeJob
  <2>3. CASE run.status \notin Live
    <3>1. pc' = pc
      BY <1>5, <2>3 DEF TakeJob
    <3>2. \A q \in Procs : ~Holds(q)'
      BY <2>1, <3>1 DEF Holds
    <3> QED BY <2>1, <3>2 DEF FlightInv, Quiet
  <2> QED BY <2>2, <2>3
<1>6. ASSUME NEW s \in Slots, StartHop(s) PROVE FlightInv'
  <2>1. Holds(s)
    BY <1>6 DEF StartHop, Holds
  <2>2. run'.status \notin AtRest
    BY <1>0, <1>6, <2>1 DEF StartHop, SetStatus, TypeOK, Row, AtRest
  <2>3. PICK l : Go(s, l)
    BY <1>6 DEF StartHop
  <2> QED BY <1>6, <2>1, <2>2, <2>3, HolderStep DEF StartHop
<1>7. ASSUME NEW s \in Slots, CallModel(s) PROVE FlightInv'
  <2>1. Holds(s)
    BY <1>7 DEF CallModel, Holds
  <2>2. run'.status \notin AtRest
    BY <1>0, <1>7, <2>1 DEF CallModel, SetStatus, TypeOK, Row, AtRest
  <2>3. PICK l : Go(s, l)
    BY <1>7 DEF CallModel
  <2> QED BY <1>7, <2>1, <2>2, <2>3, HolderStep DEF CallModel
<1>8. ASSUME NEW s \in Slots, ModelFails(s) PROVE FlightInv'
  <2>1. Holds(s)
    BY <1>8 DEF ModelFails, Holds
  <2>2. run'.status \notin AtRest
    BY <1>0, <1>8, <2>1 DEF ModelFails, SetStatus, TypeOK, Row, AtRest
  <2>3. PICK l : Go(s, l)
    BY <1>8 DEF ModelFails
  <2> QED BY <1>8, <2>1, <2>2, <2>3, HolderStep DEF ModelFails
<1>9. ASSUME NEW s \in Slots, RecordFailure(s) PROVE FlightInv'
  <2>1. Holds(s)
    BY <1>9 DEF RecordFailure, Holds
  <2>2. run'.status \notin AtRest
    BY <1>0, <1>9, <2>1 DEF RecordFailure, SetStatus, TypeOK, Row, AtRest
  <2>3. PICK l : Go(s, l)
    BY <1>9 DEF RecordFailure
  <2> QED BY <1>9, <2>1, <2>2, <2>3, HolderStep DEF RecordFailure
<1>10. ASSUME NEW s \in Slots, FailRun(s) PROVE FlightInv'
  <2>1. Holds(s)
    BY <1>10 DEF FailRun, Holds
  <2>2. ~Holds(s)'
    BY <1>10 DEF FailRun, Go, TypeOK, Holds
  <2>3. PICK l : Go(s, l)
    BY <1>10 DEF FailRun
  <2> QED BY <1>10, <2>1, <2>2, <2>3, HolderStep DEF FailRun
<1>11. ASSUME NEW s \in Slots, ModelAnswers(s) PROVE FlightInv'
  <2>1. Holds(s)
    BY <1>11 DEF ModelAnswers, Holds
  <2>2. run'.status \notin AtRest
    BY <1>0, <1>11, <2>1 DEF ModelAnswers, SetStatus, TypeOK, Row, AtRest
  <2>3. PICK l : Go(s, l)
    BY <1>11 DEF ModelAnswers
  <2> QED BY <1>11, <2>1, <2>2, <2>3, HolderStep DEF ModelAnswers
<1>12. ASSUME NEW s \in Slots, RecordSuccess(s) PROVE FlightInv'
  <2>1. Holds(s)
    BY <1>12 DEF RecordSuccess, Holds
  <2>2. run'.status \notin AtRest
    BY <1>0, <1>12, <2>1 DEF RecordSuccess, SetStatus, TypeOK, Row, AtRest
  <2>3. PICK l : Go(s, l)
    BY <1>12 DEF RecordSuccess
  <2> QED BY <1>12, <2>1, <2>2, <2>3, HolderStep DEF RecordSuccess
<1>13. ASSUME NEW s \in Slots, CheckVisited(s) PROVE FlightInv'
  <2>1. Holds(s)
    BY <1>13 DEF CheckVisited, Holds
  <2>2. run'.status \notin AtRest
    BY <1>0, <1>13, <2>1 DEF CheckVisited, SetStatus, TypeOK, Row, AtRest
  <2>3. PICK l : Go(s, l)
    BY <1>13 DEF CheckVisited
  <2> QED BY <1>13, <2>1, <2>2, <2>3, HolderStep DEF CheckVisited
<1>14. ASSUME NEW s \in Slots, CompleteRun(s) PROVE FlightInv'
  <2>1. Holds(s)
    BY <1>14 DEF CompleteRun, Holds
  <2>2. ~Holds(s)'
    BY <1>14 DEF CompleteRun, Go, TypeOK, Holds
  <2>3. PICK l : Go(s, l)
    BY <1>14 DEF CompleteRun
  <2> QED BY <1>14, <2>1, <2>2, <2>3, HolderStep DEF CompleteRun
<1>15. ASSUME NEW s \in Slots, Throw(s) PROVE FlightInv'
  <2>1. Holds(s)
    BY <1>15 DEF Throw, Holds, Busy
  <2>2. run'.status \notin AtRest
    BY <1>0, <1>15, <2>1 DEF Throw, SetStatus, TypeOK, Row, AtRest
  <2>3. PICK l : Go(s, l)
    BY <1>15 DEF Throw
  <2> QED BY <1>15, <2>1, <2>2, <2>3, HolderStep DEF Throw
<1>16. ASSUME NEW s \in Slots, Backstop(s) PROVE FlightInv'
  <2>1. Holds(s)
    BY <1>16 DEF Backstop, Holds
  <2>2. ~Holds(s)'
    BY <1>16 DEF Backstop, Go, TypeOK, Holds
  <2>3. PICK l : Go(s, l)
    BY <1>16 DEF Backstop
  <2> QED BY <1>16, <2>1, <2>2, <2>3, HolderStep DEF Backstop
<1>17. ASSUME NEW r \in Approvals, ApproveRead(r) PROVE FlightInv'
  <2>1. ~Holds(r)'
    BY <1>17 DEF ApproveRead, Go, TypeOK, Holds
  <2> QED BY <1>17, <2>1, BystanderStep DEF ApproveRead
<1>18. ASSUME NEW r \in Approvals, ApproveDecide(r) PROVE FlightInv'
  <2>1. CASE run.status = "awaiting_approval"
    <3>1. queue' = 0 /\ \A q \in Procs : ~Holds(q)
      BY <1>18, <2>1 DEF ApproveDecide, FlightInv, Quiet, AtRest
    <3>2. run'.status \in Live
      BY <1>18, <2>1 DEF ApproveDecide, TypeOK, Row, Live
    <3> QED BY <1>18, <2>1, <3>1, <3>2, TakeOnStep DEF ApproveDecide
  <2>2. CASE run.status # "awaiting_approval"
    <3>1. Go(r, "done") /\ queue' = queue /\ run' = run
      BY <1>18, <2>2 DEF ApproveDecide
    <3>2. ~Holds(r)'
      BY <3>1 DEF Go, TypeOK, Holds
    <3> QED BY <3>1, <3>2, BystanderStep
  <2> QED BY <2>1, <2>2
<1>19. ASSUME NEW r \in Approvals, DecisionSequence(r) PROVE FlightInv'
  <2>1. Holds(r)
    BY <1>19 DEF DecisionSequence, Holds
  <2> QED BY <1>0, <1>19, <2>1, HolderStep DEF DecisionSequence
<1>20. ASSUME NEW r \in Approvals, ApproveRecord(r) PROVE FlightInv'
  <2>1. Holds(r)
    BY <1>20 DEF ApproveRecord, RecordDecision, Holds
  <2>2. PICK l : Go(r, l)
    BY <1>20 DEF ApproveRecord, RecordDecision
  <2> QED
    BY <1>0, <1>20, <2>1, <2>2, HolderStep DEF ApproveRecord, RecordDecision
<1>21. ASSUME NEW r \in Cancels,
             \/ CancelRead(r) \/ CancelDecide(r) \/ DecisionSequence(r)
             \/ CancelRecord(r) \/ CancelPublish(r)
       PROVE  FlightInv'
  <2>1. ~Holds(r)'
    BY DEF Holds
  <2>2. /\ queue' = queue /\ run'.status \in {run.status, "cancelled"}
        /\ \E l : Go(r, l)
    BY <1>21
    DEF CancelRead, CancelDecide, DecisionSequence, CancelRecord,
        RecordDecision, CancelPublish, SetStatus, TypeOK, Row
  <2> QED BY <2>1, <2>2, BystanderStep
<1>22. CASE UNCHANGED vars
  BY <1>22 DEF vars, FlightInv, Quiet, Holds
<1> QED
  BY <1>1, <1>2, <1>3, <1>4, <1>5, <1>6, <1>7, <1>8, <1>9, <1>10, <1>11,
     <1>12, <1>13, <1>14, <1>15, <1>16, <1>17, <1>18, <1>19, <1>20, <1>21,
     <1>22
  DEF Next, HopStep, CreatorStep, ApproveStep, CancelStep

\* The invariant that the theorems about Spec rest on.
LEMMA SpecInvariant == Spec => [](TypeInv /\ FlightInv)
<1>1. TypeInv /\ FlightInv /\ [Next]_vars => (TypeInv /\ FlightInv)'
  BY TypeInvStep, FlightInvStep DEF FaultyNext, TypeInv
<1> QED BY TypeInvInit, FlightInvInit, <1>1, PTL DEF Spec

\* "Never a double-enqueued hop": one job, slot or API call has the run's next
\* hop, and none while it waits at a gate.  (advanceRun, POST /runs/:id/approve)
THEOREM OneHopInFlight == Spec => []SingleFlight
<1>1. FlightInv => SingleFlight
  BY DEF FlightInv, SingleFlight, Quiet, AtRest
<1> QED BY SpecInvariant, <1>1, PTL

-----------------------------------------------------------------------------
(* A run that is over stays over: nobody is left to write to its row.      *)

LEMMA QuietStep ==
    ASSUME Quiet, Next, run.status \in {"completed", "error"}
    PROVE  run' = run
<1> USE DEF Procs, Movers, Requests
<1>1. \A p \in Procs : ~Holds(p)
  BY DEF Quiet
<1>2. \A s \in Slots : pc[s] = "idle"
  BY <1>1 DEF Holds
<1>3. ASSUME NEW s \in Slots, HopStep(s) PROVE FALSE
  <2>1. ~TakeJob(s)
    BY DEF TakeJob, Quiet
  <2>2. ~Throw(s)
    BY <1>2 DEF Throw, Busy
  <2> QED
    BY <1>2, <1>3, <2>1, <2>2
    DEF HopStep, StartHop, CallModel, ModelFails, RecordFailure, FailRun,
        ModelAnswers, RecordSuccess, CheckVisited, Advance, EnqueueHop,
        PauseAtGate, CompleteRun, Backstop
<1>4. ~CreatorStep
  BY <1>1 DEF CreatorStep, CreateRun, Advance, EnqueueHop, PauseAtGate, Holds
<1>5. ASSUME NEW r \in Approvals, ApproveRead(r) \/ ApproveStep(r)
      PROVE  run' = run
  BY <1>5
  DEF ApproveRead, ApproveStep, ApproveDecide, DecisionSequence, ApproveRecord,
      RecordDecision, EnqueueHop
<1>6. ASSUME NEW r \in Cancels, CancelRead(r) \/ CancelStep(r)
      PROVE  run' = run
  BY <1>6
  DEF CancelRead, CancelStep, CancelDecide, DecisionSequence, CancelRecord,
      RecordDecision, CancelPublish, Live
<1> QED BY <1>3, <1>4, <1>5, <1>6 DEF Next

\* A completed, failed or cancelled run keeps its status, although no write of
\* the engine is guarded against completed or failed runs.  (engine.ts)
THEOREM TerminalStays == Spec => TerminalIsFinal
<1>1. TypeInv /\ FlightInv /\ [Next]_vars
        => [run.status \in Terminal => run'.status = run.status]_vars
  <2> SUFFICES ASSUME TypeOK, FlightInv, Next, run.status \in Terminal
               PROVE  run'.status = run.status
    BY DEF TypeInv
  <2>1. CASE run.status = "cancelled"
    BY <2>1, CancelIsStickyStep DEF FaultyNext
  <2>2. CASE run.status \in {"completed", "error"}
    BY <2>2, QuietStep DEF FlightInv, AtRest
  <2> QED BY <2>1, <2>2 DEF Terminal
<1> QED BY SpecInvariant, <1>1, PTL DEF Spec, TerminalIsFinal

-----------------------------------------------------------------------------
(* A redelivery adds one hop in flight at most: a count of who holds one.  *)

Holders == {p \in Procs : Holds(p)}

One(b) == IF b THEN 1 ELSE 0

\* FlightBound, and what makes the count mean something: the holders are
\* finitely many, and before the run is created nothing has happened.
CountInv ==
    /\ IsFiniteSet(Holders)
    /\ FlightBound
    /\ run.status = "absent" =>
           queue = 0 /\ \A p \in Procs : pc[p] = "idle"

LEMMA CountInvInit == Init => CountInv
<1> SUFFICES ASSUME Init PROVE CountInv
  OBVIOUS
<1>1. Holders = {}
  BY DEF Init, Holders, Holds, Procs, Movers, Requests
<1>2. IsFiniteSet(Holders) /\ Cardinality(Holders) = 0
  BY <1>1, FS_EmptySet
<1>3. FlightBound
  BY <1>2 DEF Init, FlightBound, Holders
<1>4. queue = 0 /\ \A p \in Procs : pc[p] = "idle"
  BY DEF Init
<1> QED BY <1>2, <1>3, <1>4 DEF CountInv

\* A step of one process adds or removes that process.
LEMMA HoldersAfter ==
    ASSUME TypeOK, IsFiniteSet(Holders), NEW p \in Procs, NEW l, Go(p, l)
    PROVE  /\ IsFiniteSet(Holders')
           /\ Cardinality(Holders') + One(Holds(p))
                = Cardinality(Holders) + One(Holds(p)')
           /\ Cardinality(Holders) \in Nat
<1> DEFINE Remaining == Holders \ {p}
<1>1. /\ IsFiniteSet(Remaining)
      /\ Cardinality(Remaining) =
             IF p \in Holders THEN Cardinality(Holders) - 1
                              ELSE Cardinality(Holders)
      /\ Cardinality(Holders) \in Nat
  BY FS_RemoveElement, FS_CardinalityType
<1>2. \A q \in Procs : q # p => (Holds(q)' <=> Holds(q))
  BY OthersHold
<1>3. Holders' = {q \in Procs : Holds(q)'}
  BY DEF Holders, Procs, Movers, Requests
<1>4. p \in Holders <=> Holds(p)
  BY DEF Holders
<1>5. CASE Holds(p)'
  <2>1. Holders' = Remaining \cup {p}
    BY <1>2, <1>3, <1>5 DEF Holders
  <2>2. /\ IsFiniteSet(Remaining \cup {p})
        /\ Cardinality(Remaining \cup {p}) = Cardinality(Remaining) + 1
    BY <1>1, FS_AddElement
  <2> HIDE DEF Remaining
  <2> QED BY <1>1, <1>4, <1>5, <2>1, <2>2 DEF One
<1>6. CASE ~Holds(p)'
  <2>1. Holders' = Remaining
    BY <1>2, <1>3, <1>6 DEF Holders
  <2> HIDE DEF Remaining
  <2> QED BY <1>1, <1>4, <1>6, <2>1 DEF One
<1> QED BY <1>5, <1>6

\* A process takes a step that adds no more than it uses up.
LEMMA BalancedStep ==
    ASSUME TypeOK, TypeOK', CountInv, NEW p \in Procs, NEW l, Go(p, l),
           run'.status # "absent",
           queue' + One(Holds(p)') + One(run'.status = "awaiting_approval")
               + redeliveries
             <= queue + One(Holds(p)) + One(run.status = "awaiting_approval")
                  + redeliveries'
    PROVE  CountInv'
<1>1. /\ IsFiniteSet(Holders')
      /\ Cardinality(Holders') + One(Holds(p))
           = Cardinality(Holders) + One(Holds(p)')
      /\ Cardinality(Holders) \in Nat /\ Cardinality(Holders') \in Nat
  BY HoldersAfter, FS_CardinalityType DEF CountInv
<1>2. /\ queue \in Nat /\ redeliveries \in Nat
      /\ queue' \in Nat /\ redeliveries' \in Nat
  BY DEF TypeOK
<1>3. queue + Cardinality(Holders) + One(run.status = "awaiting_approval")
          <= 1 + redeliveries
  BY DEF CountInv, FlightBound, Holders, One
<1>4. queue' + Cardinality(Holders') + One(run'.status = "awaiting_approval")
          <= 1 + redeliveries'
  <2> HIDE DEF Holders
  <2>1. One(Holds(p)) \in Nat /\ One(Holds(p)') \in Nat
    BY DEF One
  <2>2. /\ One(run.status = "awaiting_approval") \in Nat
        /\ One(run'.status = "awaiting_approval") \in Nat
    BY DEF One
  <2> QED BY <1>1, <1>2, <1>3, <2>1, <2>2
<1>5. FlightBound'
  BY <1>4 DEF FlightBound, Holders, One
<1> QED BY <1>1, <1>5 DEF CountInv

\* It neither enqueues nor pauses nor takes a hop on.
LEMMA PassiveStep ==
    ASSUME TypeOK, TypeOK', CountInv, NEW p \in Procs, NEW l, Go(p, l),
           UNCHANGED <<queue, redeliveries>>, Holds(p)' => Holds(p),
           run'.status # "absent",
           run'.status = "awaiting_approval" =>
               run.status = "awaiting_approval"
    PROVE  CountInv'
<1>1. queue \in Nat /\ redeliveries \in Nat
  BY DEF TypeOK
<1>2. One(Holds(p)') <= One(Holds(p))
  BY DEF One
<1>3. One(run'.status = "awaiting_approval")
          <= One(run.status = "awaiting_approval")
  BY DEF One
<1>4. /\ One(Holds(p)) \in Nat /\ One(Holds(p)') \in Nat
      /\ One(run.status = "awaiting_approval") \in Nat
      /\ One(run'.status = "awaiting_approval") \in Nat
  BY DEF One
<1>5. queue' + One(Holds(p)') + One(run'.status = "awaiting_approval")
          + redeliveries
        <= queue + One(Holds(p)) + One(run.status = "awaiting_approval")
             + redeliveries'
  BY <1>1, <1>2, <1>3, <1>4
<1> QED BY <1>5, BalancedStep

LEMMA CountInvStep ==
    TypeInv /\ TypeInv' /\ CountInv /\ [FaultyNext]_vars => CountInv'
<1> SUFFICES ASSUME TypeOK, TypeOK', CountInv, [FaultyNext]_vars
             PROVE  CountInv'
  BY DEF TypeInv
<1> USE ProcessAssumption DEF Procs, Movers, Requests
<1>1. queue \in Nat /\ redeliveries \in Nat
  BY DEF TypeOK
<1>2. ASSUME NEW p \in Procs, pc[p] # "idle" PROVE run.status # "absent"
  BY <1>2 DEF CountInv
<1>3. CASE CreateRun
  <2>1. Holders = {} /\ queue = 0
    BY <1>3 DEF CreateRun, CountInv, Holders, Holds
  <2>2. /\ IsFiniteSet(Holders') /\ Cardinality(Holders') \in Nat
        /\ Cardinality(Holders') + One(Holds(Creator))
             = Cardinality(Holders) + One(Holds(Creator)')
    BY <1>3, HoldersAfter, FS_CardinalityType DEF CreateRun, CountInv
  <2>3. Cardinality(Holders) = 0
    BY <2>1, FS_EmptySet
  <2>4. Cardinality(Holders') <= 1
    BY <2>2, <2>3 DEF One
  <2>5. /\ queue' = 0 /\ run'.status = "pending"
        /\ redeliveries' = redeliveries
    BY <1>3, <2>1 DEF CreateRun
  <2>6. FlightBound'
    BY <1>1, <2>2, <2>4, <2>5 DEF FlightBound, Holders
  <2> QED BY <2>2, <2>5, <2>6 DEF CountInv
<1>4. ASSUME NEW p \in Movers, Advance(p) PROVE CountInv'
  <2>1. Holds(p) /\ run.status # "absent"
    BY <1>2, <1>4 DEF Advance, Holds
  <2>2. run'.status = run.status
    BY <1>4 DEF Advance, TypeOK, Row
  <2>3. PICK l : Go(p, l)
    BY <1>4 DEF Advance
  <2> QED BY <1>4, <2>1, <2>2, <2>3, PassiveStep DEF Advance
<1>5. ASSUME NEW p \in Movers \cup Approvals, EnqueueHop(p) PROVE CountInv'
  <2>1. Holds(p) /\ run.status # "absent"
    BY <1>2, <1>5 DEF EnqueueHop, Holds
  <2>2. ~Holds(p)'
    BY <1>5 DEF EnqueueHop, Rest, Go, TypeOK, Holds
  <2>3. /\ queue' = queue + 1 /\ redeliveries' = redeliveries
        /\ run' = run
    BY <1>5 DEF EnqueueHop
  <2>4. queue' + One(Holds(p)') + One(run'.status = "awaiting_approval")
            + redeliveries
          <= queue + One(Holds(p)) + One(run.status = "awaiting_approval")
               + redeliveries'
    BY <1>1, <2>1, <2>2, <2>3 DEF One
  <2>5. PICK l : Go(p, l)
    BY <1>5 DEF EnqueueHop
  <2> QED BY <2>1, <2>3, <2>4, <2>5, BalancedStep
<1>6. ASSUME NEW p \in Movers, PauseAtGate(p) PROVE CountInv'
  <2>1. Holds(p) /\ run.status # "absent"
    BY <1>2, <1>6 DEF PauseAtGate, Holds
  <2>2. ~Holds(p)'
    BY <1>6 DEF PauseAtGate, Rest, Go, TypeOK, Holds
  <2>3. /\ queue' = queue /\ redeliveries' = redeliveries
        /\ run'.status # "absent"
    BY <1>6, <2>1 DEF PauseAtGate, SetStatus, TypeOK, Row
  <2>4. queue' + One(Holds(p)') + One(run'.status = "awaiting_approval")
            + redeliveries
          <= queue + One(Holds(p)) + One(run.status = "awaiting_approval")
               + redeliveries'
    BY <1>1, <2>1, <2>2, <2>3 DEF One
  <2>5. PICK l : Go(p, l)
    BY <1>6 DEF PauseAtGate
  <2> QED BY <2>3, <2>4, <2>5, BalancedStep
<1>7. ASSUME NEW s \in Slots, TakeJob(s) PROVE CountInv'
  <2>1. /\ queue > 0 /\ queue' = queue - 1 /\ run' = run
        /\ redeliveries' = redeliveries /\ run.status # "absent"
    BY <1>1, <1>7 DEF TakeJob, CountInv
  <2>2. CASE run.status \in Live
    <3>1. ~Holds(s) /\ Go(s, "start")
      BY <1>7, <2>2 DEF TakeJob, Holds
    <3>2. queue' + One(Holds(s)') + One(run'.status = "awaiting_approval")
              + redeliveries
            <= queue + One(Holds(s)) + One(run.status = "awaiting_approval")
                 + redeliveries'
      BY <1>1, <2>1, <3>1 DEF One
    <3> QED BY <2>1, <3>1, <3>2, BalancedStep
  <2>3. CASE run.status \notin Live
    <3>1. pc' = pc
      BY <1>7, <2>3 DEF TakeJob
    <3>2. Holders' = Holders
      BY <3>1 DEF Holders, Holds
    <3>3. Cardinality(Holders) \in Nat
      BY FS_CardinalityType DEF CountInv
    <3>4. FlightBound'
      BY <1>1, <2>1, <3>2, <3>3 DEF CountInv, FlightBound, Holders
    <3> QED BY <2>1, <3>2, <3>4 DEF CountInv
  <2> QED BY <2>2, <2>3
<1>8. ASSUME NEW s \in Slots,
             \/ StartHop(s) \/ CallModel(s) \/ ModelFails(s)
             \/ RecordFailure(s) \/ FailRun(s) \/ ModelAnswers(s)
             \/ RecordSuccess(s) \/ CheckVisited(s) \/ CompleteRun(s)
             \/ Throw(s) \/ Backstop(s) \/ BackstopRejects(s)
      PROVE  CountInv'
  <2>1. pc[s] # "idle"
    BY <1>8
    DEF StartHop, CallModel, ModelFails, RecordFailure, FailRun,
        ModelAnswers, RecordSuccess, CheckVisited, CompleteRun, Throw,
        Backstop, BackstopRejects, Busy
  <2>2. Holds(s) /\ run.status # "absent"
    BY <1>2, <2>1 DEF Holds
  <2>3. UNCHANGED <<queue, redeliveries>> /\ \E l : Go(s, l)
    BY <1>8
    DEF StartHop, CallModel, ModelFails, RecordFailure, FailRun,
        ModelAnswers, RecordSuccess, CheckVisited, CompleteRun, Throw,
        Backstop, BackstopRejects
  <2>4. run' = run \/ \E new \in {"running", "error", "completed"} :
                         SetStatus(new)
    BY <1>8
    DEF StartHop, CallModel, ModelFails, RecordFailure, FailRun,
        ModelAnswers, RecordSuccess, CheckVisited, CompleteRun, Throw,
        Backstop, BackstopRejects
  <2>5. /\ run'.status # "absent"
        /\ run'.status = "awaiting_approval" =>
               run.status = "awaiting_approval"
    BY <2>2, <2>4 DEF SetStatus, TypeOK, Row
  <2> QED BY <2>2, <2>3, <2>5, PassiveStep
<1>9. ASSUME NEW r \in Approvals,
             ApproveRead(r) \/ DecisionSequence(r) \/ ApproveRecord(r)
      PROVE  CountInv'
  <2>1. /\ UNCHANGED <<queue, redeliveries, run>> /\ run.status # "absent"
        /\ \E l : Go(r, l)
    BY <1>2, <1>9
    DEF ApproveRead, DecisionSequence, ApproveRecord, RecordDecision
  <2>2. Holds(r)' => Holds(r)
    BY <1>9
    DEF ApproveRead, DecisionSequence, ApproveRecord, RecordDecision, Go,
        TypeOK, Holds
  <2> QED BY <2>1, <2>2, PassiveStep
<1>10. ASSUME NEW r \in Approvals, ApproveDecide(r) PROVE CountInv'
  <2>1. ~Holds(r) /\ run.status # "absent"
    BY <1>2, <1>10 DEF ApproveDecide, Holds
  <2>2. queue' = queue /\ redeliveries' = redeliveries
    BY <1>10 DEF ApproveDecide
  <2>3. CASE run.status = "awaiting_approval"
    <3>1. Go(r, "sequence") /\ run'.status = "pending"
      BY <1>10, <2>3 DEF ApproveDecide, TypeOK, Row
    <3>2. queue' + One(Holds(r)') + One(run'.status = "awaiting_approval")
              + redeliveries
            <= queue + One(Holds(r)) + One(run.status = "awaiting_approval")
                 + redeliveries'
      BY <1>1, <2>1, <2>2, <2>3, <3>1 DEF One
    <3> QED BY <3>1, <3>2, BalancedStep
  <2>4. CASE run.status # "awaiting_approval"
    <3>1. Go(r, "done") /\ run' = run
      BY <1>10, <2>4 DEF ApproveDecide
    <3>2. ~Holds(r)'
      BY <3>1 DEF Go, TypeOK, Holds
    <3> QED BY <2>1, <2>2, <3>1, <3>2, PassiveStep
  <2> QED BY <2>3, <2>4
<1>11. ASSUME NEW r \in Cancels,
             \/ CancelRead(r) \/ CancelDecide(r) \/ DecisionSequence(r)
             \/ CancelRecord(r) \/ CancelPublish(r)
       PROVE  CountInv'
  <2>1. ~Holds(r)'
    BY DEF Holds
  <2>2. UNCHANGED <<queue, redeliveries>> /\ \E l : Go(r, l)
    BY <1>11
    DEF CancelRead, CancelDecide, DecisionSequence, CancelRecord,
        RecordDecision, CancelPublish
  <2>3. run.status # "absent" /\ run'.status \in {run.status, "cancelled"}
    BY <1>2, <1>11
    DEF CancelRead, CancelDecide, DecisionSequence, CancelRecord,
        RecordDecision, CancelPublish, SetStatus, TypeOK, Row
  <2> QED BY <2>1, <2>2, <2>3, PassiveStep
<1>12. ASSUME NEW s \in Slots, Redeliver(s) PROVE CountInv'
  <2>1. /\ queue' = queue + 1 /\ redeliveries' = redeliveries + 1
        /\ run' = run /\ pc' = pc /\ run.status # "absent"
    BY <1>2, <1>12 DEF Redeliver
  <2>2. Holders' = Holders
    BY <2>1 DEF Holders, Holds
  <2>3. Cardinality(Holders) \in Nat
    BY FS_CardinalityType DEF CountInv
  <2>4. FlightBound'
    BY <1>1, <2>1, <2>2, <2>3 DEF CountInv, FlightBound, Holders
  <2> QED BY <2>1, <2>2, <2>4 DEF CountInv
<1>13. ASSUME NEW s \in Slots, Crash(s) PROVE CountInv'
  <2>1. Holds(s) /\ run.status # "absent" /\ Go(s, "idle")
    BY <1>2, <1>13 DEF Crash, Holds
  <2>2. ~Holds(s)'
    BY <2>1 DEF Go, TypeOK, Holds
  <2>3. /\ queue' = queue + 1 /\ redeliveries' = redeliveries + 1
        /\ run' = run
    BY <1>13 DEF Crash
  <2>4. queue' + One(Holds(s)') + One(run'.status = "awaiting_approval")
            + redeliveries
          <= queue + One(Holds(s)) + One(run.status = "awaiting_approval")
               + redeliveries'
    BY <1>1, <2>1, <2>2, <2>3 DEF One
  <2> QED BY <2>1, <2>3, <2>4, BalancedStep
<1>14. ASSUME NEW p \in {Creator} \cup Requests, ApiFails(p) PROVE CountInv'
  <2>1. /\ Go(p, "aborted") /\ UNCHANGED <<run, queue, redeliveries>>
        /\ run.status # "absent"
    BY <1>2, <1>14 DEF ApiFails
  <2>2. ~Holds(p)'
    BY <2>1 DEF Go, TypeOK, Holds
  <2> QED BY <2>1, <2>2, PassiveStep
<1>15. CASE UNCHANGED vars
  <2>1. Holders' = Holders
    BY <1>15 DEF vars, Holders, Holds
  <2>2. FlightBound'
    BY <1>15, <2>1 DEF vars, CountInv, FlightBound, Holders
  <2> QED BY <1>15, <2>1, <2>2 DEF vars, CountInv
<1> QED
  BY <1>3, <1>4, <1>5, <1>6, <1>7, <1>8, <1>9, <1>10, <1>11, <1>12, <1>13,
     <1>14, <1>15
  DEF FaultyNext, Next, HopStep, CreatorStep, ApproveStep, CancelStep

\* Each redelivery adds one hop in flight at most, for any number of slots,
\* requests and redeliveries.  (advanceRun, POST /runs/:id/approve, the queue)
THEOREM FlightsAreBounded == FaultySpec => []FlightBound
<1>1. CountInv => FlightBound
  BY DEF CountInv
<1> QED
  BY TypeInvInit, TypeInvStep, CountInvInit, CountInvStep, <1>1, PTL
  DEF FaultySpec
-----------------------------------------------------------------------------
(* The gate: a hop that is about to run a gated node has been let through. *)

\* A hop has been enqueued, or will be, or has not called its model yet.
Pending ==
    \/ queue > 0
    \/ \E r \in Approvals : Holds(r)
    \/ \E s \in Slots : pc[s] \in {"start", "reserve"}

\* GateHolds, with the release that a pending hop has still to use, and where
\* the run is while a hop is on its way to the model or to the queue.
GateInv ==
    /\ GateHolds
    /\ Pending /\ run.node \in Gated => calls[run.node] < grants[run.node]
    /\ \A s \in Slots : pc[s] \in {"start", "reserve"} => hop[s].node = run.node
    /\ \A p \in Movers : pc[p] = "enqueue" => run.node \notin Gated
    /\ \A p \in Movers : pc[p] = "gate" => run.node \in Gated

LEMMA GateInvInit == Init => GateInv
  BY GraphAssumption
  DEF Init, GateInv, GateHolds, Pending, Holds, Procs, Movers, Requests

LEMMA PcAfter ==
    ASSUME TypeOK, NEW p \in Procs, NEW l, Go(p, l)
    PROVE  pc'[p] = l /\ \A q \in Procs : q # p => pc'[q] = pc[q]
  BY DEF TypeOK, Go

LEMMA SoleHolder ==
    ASSUME TypeOK, FlightInv, NEW p \in Procs, Holds(p)
    PROVE  /\ queue = 0
           /\ \A s \in Slots : s # p => pc[s] = "idle"
           /\ \A r \in Approvals : r # p => ~Holds(r)
           /\ \A m \in Movers : m # p => pc[m] \notin {"enqueue", "gate"}
<1>1. queue = 0 /\ \A q \in Procs : q # p => ~Holds(q)
  BY DEF FlightInv, TypeOK
<1> QED BY <1>1 DEF Holds, Procs, Movers, Requests

\* A mover that does anything else than pass the gate, enqueue or start a hop.
LEMMA GateBystander ==
    ASSUME TypeOK, FlightInv, GateInv, NEW p \in Movers, NEW l,
           Holds(p), Go(p, l), l \notin {"start", "reserve", "enqueue", "gate"},
           queue' = queue, UNCHANGED <<calls, grants>>
    PROVE  GateInv'
<1> USE ProcessAssumption DEF Procs, Movers, Requests
<1>1. /\ queue' = 0
      /\ \A s \in Slots : pc'[s] \notin {"start", "reserve"}
      /\ \A m \in Movers : pc'[m] \notin {"enqueue", "gate"}
  BY SoleHolder, PcAfter
<1>2. \A r \in Approvals : ~Holds(r)'
  BY SoleHolder, OthersHold
<1>3. ~Pending'
  BY <1>1, <1>2 DEF Pending
<1>4. GateHolds'
  BY DEF GateInv, GateHolds
<1> QED BY <1>1, <1>3, <1>4 DEF GateInv

\* A request that neither begins nor ends a release, or a hop's row write.
LEMMA GateRequest ==
    ASSUME TypeOK, GateInv, NEW r \in Requests, NEW l, Go(r, l),
           Holds(r)' => Holds(r), run'.node = run.node,
           UNCHANGED <<queue, hop, calls, grants>>
    PROVE  GateInv'
<1> USE ProcessAssumption DEF Procs, Movers, Requests
<1>1. \A m \in Movers : pc'[m] = pc[m]
  BY PcAfter
<1>2. Pending' => Pending
  BY <1>1, OthersHold DEF Pending
<1> QED BY <1>1, <1>2 DEF GateInv, GateHolds

LEMMA GateInvStep == TypeOK /\ FlightInv /\ GateInv /\ [Next]_vars => GateInv'
<1> SUFFICES ASSUME TypeOK, FlightInv, GateInv, [Next]_vars PROVE GateInv'
  OBVIOUS
<1> USE ProcessAssumption DEF Procs, Movers, Requests
<1>1. CASE CreateRun
  <2>1. queue = 0 /\ \A q \in Procs : ~Holds(q)
    BY <1>1 DEF CreateRun, FlightInv, Quiet, AtRest
  <2>2. \A q \in Procs : q # Creator => ~Holds(q)'
    BY <1>1, <2>1, OthersHold DEF CreateRun
  <2>3. pc'[Creator] = "advance"
    BY <1>1, PcAfter DEF CreateRun
  <2>4. ~Pending' /\ \A m \in Movers : pc'[m] \notin {"enqueue", "gate"}
    BY <1>1, <2>1, <2>2, <2>3 DEF CreateRun, Pending, Holds
  <2>5. \A s \in Slots : pc'[s] \notin {"start", "reserve"}
    BY <2>2 DEF Holds
  <2> QED BY <1>1, <2>4, <2>5 DEF CreateRun, GateInv, GateHolds
<1>2. ASSUME NEW p \in Movers, Advance(p) PROVE GateInv'
  <2>1. Holds(p)
    BY <1>2 DEF Advance, Holds
  <2>2. CASE run.status = "cancelled"
    <3>1. Rest(p) \notin {"start", "reserve", "enqueue", "gate"}
      BY DEF Rest
    <3> QED BY <1>2, <2>1, <2>2, <3>1, GateBystander DEF Advance
  <2>3. CASE run.status # "cancelled"
    <3>1. /\ run'.node = target[p].node
          /\ Go(p, IF target[p].node \in Gated THEN "gate" ELSE "enqueue")
          /\ UNCHANGED <<queue, calls, grants>>
      BY <1>2, <2>3 DEF Advance, TypeOK, Row
    <3>2. /\ queue' = 0
          /\ \A s \in Slots : pc'[s] \notin {"start", "reserve"}
          /\ \A m \in Movers : m # p => pc'[m] \notin {"enqueue", "gate"}
      BY <2>1, <3>1, SoleHolder, PcAfter
    <3>3. \A r \in Approvals : ~Holds(r)'
      BY <2>1, <3>1, SoleHolder, OthersHold
    <3>4. ~Pending'
      BY <3>2, <3>3 DEF Pending
    <3>5. /\ pc'[p] = "enqueue" => run'.node \notin Gated
          /\ pc'[p] = "gate" => run'.node \in Gated
      BY <3>1, PcAfter
    <3> QED BY <3>1, <3>2, <3>4, <3>5 DEF GateInv, GateHolds
  <2> QED BY <2>2, <2>3
<1>3. ASSUME NEW p \in Movers \cup Approvals, EnqueueHop(p) PROVE GateInv'
  <2>1. Holds(p)
    BY <1>3 DEF EnqueueHop, Holds
  <2>2. /\ \A s \in Slots : pc'[s] \notin {"start", "reserve"}
        /\ \A m \in Movers : pc'[m] \notin {"enqueue", "gate"}
    BY <1>3, <2>1, SoleHolder, PcAfter DEF EnqueueHop, Rest, Holds
  <2>3. run.node \in Gated => Pending
    BY <1>3, <2>1 DEF EnqueueHop, GateInv, Pending
  <2> QED BY <1>3, <2>2, <2>3 DEF EnqueueHop, GateInv, GateHolds
<1>4. ASSUME NEW p \in Movers, PauseAtGate(p) PROVE GateInv'
  <2>1. Holds(p)
    BY <1>4 DEF PauseAtGate, Holds
  <2>2. Rest(p) \notin {"start", "reserve", "enqueue", "gate"}
    BY DEF Rest
  <2> QED BY <1>4, <2>1, <2>2, GateBystander DEF PauseAtGate
<1>5. ASSUME NEW s \in Slots, TakeJob(s) PROVE GateInv'
  <2>1. /\ Pending /\ run' = run /\ UNCHANGED <<calls, grants>>
        /\ \A q \in Procs : ~Holds(q)
    BY <1>5 DEF TakeJob, FlightInv, Pending
  <2>2. \A m \in Movers : m # s => pc'[m] = pc[m]
    BY <1>5, PcAfter DEF TakeJob
  <2>3. \A m \in Movers : pc'[m] \notin {"enqueue", "gate"}
    BY <1>5, <2>1, <2>2, PcAfter DEF TakeJob, Holds
  <2>4. ASSUME NEW t \in Slots, pc'[t] \in {"start", "reserve"}
        PROVE  hop'[t].node = run.node
    <3>1. t = s /\ run.status \in Live
      BY <1>5, <2>1, <2>2, <2>4 DEF TakeJob, Holds
    <3>2. hop'[s] = [hop[s] EXCEPT !.node = run.node, !.input = run.input]
      BY <1>5, <3>1 DEF TakeJob, TypeOK
    <3>3. hop[s] \in Hop
      BY DEF TypeOK
    <3> QED BY <3>1, <3>2, <3>3 DEF Hop
  <2> QED BY <2>1, <2>3, <2>4 DEF GateInv, GateHolds
<1>6. ASSUME NEW s \in Slots, StartHop(s) PROVE GateInv'
  <2>1. Holds(s) /\ Pending
    BY <1>6 DEF StartHop, Holds, Pending
  <2>2. CASE run.status = "cancelled"
    BY <1>6, <2>1, <2>2, GateBystander DEF StartHop
  <2>3. CASE run.status # "cancelled"
    <3>1. Go(s, "reserve") /\ run'.node = run.node
      BY <1>6, <2>3 DEF StartHop, SetStatus, TypeOK, Row
    <3>2. /\ \A t \in Slots : pc'[t] \in {"start", "reserve"} => t = s
          /\ \A m \in Movers : pc'[m] \notin {"enqueue", "gate"}
      BY <2>1, <3>1, SoleHolder, PcAfter
    <3>3. hop'[s].node = run'.node
      BY <1>6, <3>1 DEF StartHop, GateInv
    <3> QED BY <1>6, <2>1, <3>1, <3>2, <3>3 DEF StartHop, GateInv, GateHolds
  <2> QED BY <2>2, <2>3
<1>7. ASSUME NEW s \in Slots, CallModel(s) PROVE GateInv'
  <2>1. Holds(s) /\ Pending /\ hop[s].node = run.node
    BY <1>7 DEF CallModel, Holds, Pending, GateInv
  <2>2. /\ queue' = 0
        /\ \A t \in Slots : pc'[t] \notin {"start", "reserve"}
        /\ \A m \in Movers : pc'[m] \notin {"enqueue", "gate"}
    BY <1>7, <2>1, SoleHolder, PcAfter DEF CallModel
  <2>3. \A r \in Approvals : ~Holds(r)'
    BY <1>7, <2>1, SoleHolder, OthersHold DEF CallModel
  <2>4. ~Pending'
    BY <2>2, <2>3 DEF Pending
  <2>5. /\ calls' = [calls EXCEPT ![run.node] = @ + 1] /\ grants' = grants
        /\ run.node \in Gated => calls[run.node] < grants[run.node]
    BY <1>7, <2>1 DEF CallModel, GateInv
  <2>6. GateHolds'
    BY <2>5, GraphAssumption DEF GateInv, GateHolds, TypeOK
  <2> QED BY <2>2, <2>4, <2>6 DEF GateInv
<1>8. ASSUME NEW s \in Slots, ModelFails(s) PROVE GateInv'
  <2>1. Holds(s)
    BY <1>8 DEF ModelFails, Holds
  <2>2. PICK l : Go(s, l) /\ l \notin {"start", "reserve", "enqueue", "gate"}
    BY <1>8 DEF ModelFails
  <2> QED BY <1>8, <2>1, <2>2, GateBystander DEF ModelFails
<1>9. ASSUME NEW s \in Slots, RecordFailure(s) PROVE GateInv'
  <2>1. Holds(s)
    BY <1>9 DEF RecordFailure, Holds
  <2>2. PICK l : Go(s, l) /\ l \notin {"start", "reserve", "enqueue", "gate"}
    <3>1. Go(s, "fail") \/ Go(s, "throwing")
      BY <1>9 DEF RecordFailure
    <3> QED BY <3>1
  <2> QED BY <1>9, <2>1, <2>2, GateBystander DEF RecordFailure
<1>10. ASSUME NEW s \in Slots, FailRun(s) PROVE GateInv'
  <2>1. Holds(s)
    BY <1>10 DEF FailRun, Holds
  <2>2. PICK l : Go(s, l) /\ l \notin {"start", "reserve", "enqueue", "gate"}
    BY <1>10 DEF FailRun
  <2> QED BY <1>10, <2>1, <2>2, GateBystander DEF FailRun
<1>11. ASSUME NEW s \in Slots, ModelAnswers(s) PROVE GateInv'
  <2>1. Holds(s)
    BY <1>11 DEF ModelAnswers, Holds
  <2>2. PICK l : Go(s, l) /\ l \notin {"start", "reserve", "enqueue", "gate"}
    BY <1>11 DEF ModelAnswers
  <2> QED BY <1>11, <2>1, <2>2, GateBystander DEF ModelAnswers
<1>12. ASSUME NEW s \in Slots, RecordSuccess(s) PROVE GateInv'
  <2>1. Holds(s)
    BY <1>12 DEF RecordSuccess, Holds
  <2>2. PICK l : Go(s, l) /\ l \notin {"start", "reserve", "enqueue", "gate"}
    <3>1. \/ Go(s, "throwing") \/ Go(s, "advance")
          \/ Go(s, "complete") \/ Go(s, "visited")
      BY <1>12 DEF RecordSuccess
    <3> QED BY <3>1
  <2> QED BY <1>12, <2>1, <2>2, GateBystander DEF RecordSuccess
<1>13. ASSUME NEW s \in Slots, CheckVisited(s) PROVE GateInv'
  <2>1. Holds(s)
    BY <1>13 DEF CheckVisited, Holds
  <2>2. PICK l : Go(s, l) /\ l \notin {"start", "reserve", "enqueue", "gate"}
    BY <1>13 DEF CheckVisited
  <2> QED BY <1>13, <2>1, <2>2, GateBystander DEF CheckVisited
<1>14. ASSUME NEW s \in Slots, CompleteRun(s) PROVE GateInv'
  <2>1. Holds(s)
    BY <1>14 DEF CompleteRun, Holds
  <2>2. PICK l : Go(s, l) /\ l \notin {"start", "reserve", "enqueue", "gate"}
    BY <1>14 DEF CompleteRun
  <2> QED BY <1>14, <2>1, <2>2, GateBystander DEF CompleteRun
<1>15. ASSUME NEW s \in Slots, Throw(s) PROVE GateInv'
  <2>1. Holds(s)
    BY <1>15 DEF Throw, Holds, Busy
  <2>2. PICK l : Go(s, l) /\ l \notin {"start", "reserve", "enqueue", "gate"}
    BY <1>15 DEF Throw
  <2> QED BY <1>15, <2>1, <2>2, GateBystander DEF Throw
<1>16. ASSUME NEW s \in Slots, Backstop(s) PROVE GateInv'
  <2>1. Holds(s)
    BY <1>16 DEF Backstop, Holds
  <2>2. PICK l : Go(s, l) /\ l \notin {"start", "reserve", "enqueue", "gate"}
    BY <1>16 DEF Backstop
  <2> QED BY <1>16, <2>1, <2>2, GateBystander DEF Backstop
<1>17. ASSUME NEW r \in Approvals, ApproveDecide(r) PROVE GateInv'
  <2>1. CASE run.status = "awaiting_approval"
    <3>1. /\ Go(r, "sequence") /\ run'.node = run.node
          /\ grants' = [grants EXCEPT ![run.node] = @ + 1]
          /\ UNCHANGED <<queue, hop, calls>>
      BY <1>17, <2>1 DEF ApproveDecide, TypeOK, Row
    <3>2. /\ \A s \in Slots : pc'[s] = pc[s]
          /\ \A m \in Movers : pc'[m] = pc[m]
      BY <3>1, PcAfter
    <3>3. run.node \in Gated => calls'[run.node] < grants'[run.node]
      BY <3>1, GraphAssumption DEF GateInv, GateHolds, TypeOK
    <3>4. GateHolds'
      BY <3>1, GraphAssumption DEF GateInv, GateHolds, TypeOK, Row
    <3> QED BY <3>1, <3>2, <3>3, <3>4 DEF GateInv
  <2>2. CASE run.status # "awaiting_approval"
    <3>1. Go(r, "done") /\ UNCHANGED <<run, queue, hop, calls, grants>>
      BY <1>17, <2>2 DEF ApproveDecide
    <3>2. ~Holds(r)'
      BY <3>1, PcAfter DEF Holds
    <3> QED BY <3>1, <3>2, GateRequest
  <2> QED BY <2>1, <2>2
<1>18. ASSUME NEW r \in Approvals,
             ApproveRead(r) \/ DecisionSequence(r) \/ ApproveRecord(r)
       PROVE  GateInv'
  <2>1. PICK l : Go(r, l)
    BY <1>18 DEF ApproveRead, DecisionSequence, ApproveRecord, RecordDecision
  <2>2. Holds(r)' => Holds(r)
    <3>1. CASE ApproveRead(r)
      BY <3>1, PcAfter DEF ApproveRead, Holds
    <3>2. CASE DecisionSequence(r) \/ ApproveRecord(r)
      BY <3>2 DEF DecisionSequence, ApproveRecord, RecordDecision, Holds
    <3> QED BY <1>18, <3>1, <3>2
  <2> QED
    BY <1>18, <2>1, <2>2, GateRequest
    DEF ApproveRead, DecisionSequence, ApproveRecord, RecordDecision
<1>19. ASSUME NEW r \in Cancels,
             \/ CancelRead(r) \/ CancelDecide(r) \/ DecisionSequence(r)
             \/ CancelRecord(r) \/ CancelPublish(r)
       PROVE  GateInv'
  <2>1. ~Holds(r)'
    BY DEF Holds
  <2>2. /\ run'.node = run.node /\ UNCHANGED <<queue, hop, calls, grants>>
        /\ \E l : Go(r, l)
    BY <1>19
    DEF CancelRead, CancelDecide, DecisionSequence, CancelRecord,
        RecordDecision, CancelPublish, SetStatus, TypeOK, Row
  <2> QED BY <2>1, <2>2, GateRequest
<1>20. CASE UNCHANGED vars
  BY <1>20 DEF vars, GateInv, GateHolds, Pending, Holds
<1> QED
  BY <1>1, <1>2, <1>3, <1>4, <1>5, <1>6, <1>7, <1>8, <1>9, <1>10, <1>11,
     <1>12, <1>13, <1>14, <1>15, <1>16, <1>17, <1>18, <1>19, <1>20
  DEF Next, HopStep, CreatorStep, ApproveStep, CancelStep

\* "It must not execute the very hop the gate exists to hold": while every job
\* is delivered once, each call of a gated node's model uses up a release of a
\* pause at that node.  (advanceRun, dispatchHopInner)
THEOREM GatesHold == Spec => []GateHolds
<1>1. TypeInv /\ FlightInv /\ GateInv /\ [Next]_vars => GateInv'
  BY GateInvStep DEF TypeInv
<1>2. GateInv => GateHolds
  BY DEF GateInv
<1> QED BY SpecInvariant, GateInvInit, <1>1, <1>2, PTL DEF Spec

-----------------------------------------------------------------------------
(* The run keeps its contract.                                             *)

\* Where the run is before it is created, and while a hop calls its model.
RunInv ==
    /\ run.status = "absent" => run.node = Entry
    /\ \A s \in Slots :
        pc[s] = "reserve" => run.status \in {"running", "cancelled"}

LEMMA RunInvInit == Init => RunInv
  BY DEF Init, RunInv, Procs, Movers

LEMMA RunInvStep ==
    TypeOK /\ FlightInv /\ RunInv /\ [Next]_vars => RunInv'
<1> SUFFICES ASSUME TypeOK, FlightInv, RunInv, [Next]_vars PROVE RunInv'
  OBVIOUS
<1> USE ProcessAssumption DEF Procs, Movers, Requests
\* A holder's step that does not start a hop.
<1>1. ASSUME NEW p \in Procs, Holds(p), NEW l, Go(p, l), l # "reserve",
             run'.status # "absent"
      PROVE  RunInv'
  <2>1. \A s \in Slots : pc'[s] # "reserve"
    BY <1>1, SoleHolder, PcAfter
  <2> QED BY <1>1, <2>1 DEF RunInv
\* A step that moves the row only into a cancel.
<1>2. ASSUME \A s \in Slots : pc'[s] = "reserve" => pc[s] = "reserve",
             \/ run' = run
             \/ run' = [run EXCEPT !.status = "cancelled"]
      PROVE  RunInv'
  BY <1>2 DEF RunInv, TypeOK, Row
<1>3. ASSUME NEW p \in Procs, Holds(p) PROVE run.status # "absent"
  BY <1>3 DEF FlightInv, Quiet, AtRest
<1>4. CASE CreateRun
  <2>1. \A s \in Slots : pc'[s] # "reserve"
    BY <1>4, PcAfter DEF CreateRun, FlightInv, Quiet, AtRest, Holds
  <2> QED BY <1>4, <2>1 DEF CreateRun, RunInv
<1>5. ASSUME NEW p \in Movers, Advance(p) PROVE RunInv'
  <2>1. Holds(p)
    BY <1>5 DEF Advance, Holds
  <2>2. run'.status = run.status
    BY <1>5 DEF Advance, TypeOK, Row
  <2>3. PICK l : Go(p, l) /\ l # "reserve"
    BY <1>5 DEF Advance, Rest
  <2> QED BY <1>1, <1>3, <2>1, <2>2, <2>3
<1>6. ASSUME NEW p \in Movers \cup Approvals, EnqueueHop(p) PROVE RunInv'
  BY <1>2, <1>6, PcAfter DEF EnqueueHop, Rest
<1>7. ASSUME NEW p \in Movers, PauseAtGate(p) PROVE RunInv'
  <2>1. Holds(p) /\ Go(p, Rest(p)) /\ Rest(p) # "reserve"
    BY <1>7 DEF PauseAtGate, Holds, Rest
  <2>2. run'.status # "absent"
    BY <1>3, <1>7, <2>1 DEF PauseAtGate, SetStatus, TypeOK, Row
  <2> QED BY <1>1, <2>1, <2>2
<1>8. ASSUME NEW s \in Slots, TakeJob(s) PROVE RunInv'
  <2>1. \A t \in Slots : pc'[t] = "reserve" => pc[t] = "reserve"
    BY <1>8, PcAfter DEF TakeJob
  <2> QED BY <1>2, <1>8, <2>1 DEF TakeJob
<1>9. ASSUME NEW s \in Slots, StartHop(s) PROVE RunInv'
  <2>1. CASE run.status = "cancelled"
    BY <1>2, <1>9, <2>1, PcAfter DEF StartHop
  <2>2. CASE run.status # "cancelled"
    BY <1>9, <2>2 DEF StartHop, SetStatus, RunInv, TypeOK, Row
  <2> QED BY <2>1, <2>2
<1>10. ASSUME NEW s \in Slots,
             \/ CallModel(s) \/ ModelFails(s) \/ ModelAnswers(s)
             \/ CheckVisited(s) \/ Throw(s) \/ FailRun(s) \/ CompleteRun(s)
             \/ Backstop(s)
       PROVE  RunInv'
  <2>1. Holds(s)
    BY <1>10
    DEF CallModel, ModelFails, ModelAnswers, CheckVisited, Throw, Busy, FailRun,
        CompleteRun, Backstop, Holds
  <2>2. PICK l : Go(s, l) /\ l # "reserve"
    <3>1. \/ Go(s, "model") \/ Go(s, "failing") \/ Go(s, "record")
          \/ Go(s, "complete") \/ Go(s, "advance") \/ Go(s, "throwing")
          \/ Go(s, "idle")
      BY <1>10
      DEF CallModel, ModelFails, ModelAnswers, CheckVisited, Throw, FailRun,
          CompleteRun, Backstop
    <3> QED BY <3>1
  <2>3. run'.status # "absent"
    BY <1>3, <1>10, <2>1
    DEF CallModel, ModelFails, ModelAnswers, CheckVisited, Throw, FailRun,
        CompleteRun, Backstop, SetStatus, TypeOK, Row
  <2> QED BY <1>1, <2>1, <2>2, <2>3
<1>11. ASSUME NEW s \in Slots, RecordFailure(s) \/ RecordSuccess(s)
       PROVE  RunInv'
  <2>1. run' = run
    BY <1>11 DEF RecordFailure, RecordSuccess
  <2>2. \/ Go(s, "throwing") \/ Go(s, "fail") \/ Go(s, "advance")
        \/ Go(s, "complete") \/ Go(s, "visited")
    BY <1>11 DEF RecordFailure, RecordSuccess
  <2>3. \A t \in Slots : pc'[t] = "reserve" => pc[t] = "reserve"
    BY <2>2, PcAfter
  <2> QED BY <1>2, <2>1, <2>3
<1>12. ASSUME NEW r \in Approvals, ApproveDecide(r) PROVE RunInv'
  <2>1. \A s \in Slots : pc'[s] = pc[s]
    BY <1>12, PcAfter DEF ApproveDecide
  <2>2. CASE run.status = "awaiting_approval"
    <3>1. \A s \in Slots : pc[s] # "reserve"
      BY <2>2 DEF FlightInv, Quiet, AtRest, Holds
    <3>2. run'.status = "pending"
      BY <1>12, <2>2 DEF ApproveDecide, TypeOK, Row
    <3> QED BY <2>1, <3>1, <3>2 DEF RunInv
  <2>3. CASE run.status # "awaiting_approval"
    BY <1>2, <1>12, <2>1, <2>3 DEF ApproveDecide
  <2> QED BY <2>2, <2>3
<1>13. ASSUME NEW r \in Requests,
             \/ ApproveRead(r) \/ DecisionSequence(r) \/ ApproveRecord(r)
             \/ CancelRead(r) \/ CancelDecide(r) \/ CancelRecord(r)
             \/ CancelPublish(r)
       PROVE  RunInv'
  <2>1. \E l : Go(r, l)
    BY <1>13
    DEF ApproveRead, DecisionSequence, ApproveRecord, CancelRead, CancelDecide,
        CancelRecord, RecordDecision, CancelPublish
  <2>2. \A s \in Slots : pc'[s] = pc[s]
    BY <2>1, PcAfter
  <2>3. run' = run \/ run' = [run EXCEPT !.status = "cancelled"]
    BY <1>13
    DEF ApproveRead, DecisionSequence, ApproveRecord, CancelRead, CancelDecide,
        CancelRecord, RecordDecision, CancelPublish, SetStatus
  <2> QED BY <1>2, <2>2, <2>3
<1>14. CASE UNCHANGED vars
  BY <1>14 DEF vars, RunInv
<1> QED
  BY <1>4, <1>5, <1>6, <1>7, <1>8, <1>9, <1>10, <1>11, <1>12, <1>13, <1>14
  DEF Next, HopStep, CreatorStep, ApproveStep, CancelStep

LEMMA ContractInit == Init => Contract!Init
  BY GraphAssumption DEF Init, Contract!Init, Permits

\* The contract sees nothing of most steps.
LEMMA ContractStutter ==
    ASSUME run'.status = run.status, run'.node = run.node,
           UNCHANGED <<calls, grants>>
    PROVE  UNCHANGED Contract!vars
  BY DEF Contract!vars, Permits

LEMMA ContractStep ==
    TypeOK /\ FlightInv /\ GateInv /\ RunInv /\ [Next]_vars
        => [Contract!Next]_(Contract!vars)
<1> SUFFICES ASSUME TypeOK, FlightInv, GateInv, RunInv, [Next]_vars
             PROVE  Contract!Next \/ UNCHANGED Contract!vars
  OBVIOUS
<1> USE ProcessAssumption DEF Procs, Movers, Requests
<1>1. UNCHANGED <<calls, grants>> => Permits' = Permits
  BY DEF Permits
\* A hop in flight: the run is live, or cancelled.
<1>2. ASSUME NEW p \in Procs, Holds(p)
      PROVE  run.status \in Contract!Live \cup {"cancelled"}
  BY <1>2 DEF FlightInv, Quiet, AtRest, TypeOK, Row, Status, Live, Terminal,
              Contract!Live
<1>3. CASE CreateRun
  BY <1>1, <1>3
  DEF CreateRun, RunInv, TypeOK, Row, Contract!Next, Contract!Create
<1>4. ASSUME NEW p \in Movers, Advance(p)
      PROVE  Contract!Next \/ UNCHANGED Contract!vars
  <2>1. Holds(p)
    BY <1>4 DEF Advance, Holds
  <2>2. CASE run.status = "cancelled"
    BY <1>4, <2>2, ContractStutter DEF Advance
  <2>3. CASE run.status # "cancelled"
    <3>1. run.status \in Contract!Live
      BY <1>2, <2>1, <2>3
    <3>2. target[p].node \in Nodes
      BY DEF TypeOK, Target
    <3>3. run'.status = run.status /\ run'.node = target[p].node
      BY <1>4, <2>3 DEF Advance, TypeOK, Row
    <3>4. Contract!Move
      BY <1>1, <1>4, <3>1, <3>2, <3>3 DEF Advance, Contract!Move
    <3> QED BY <3>4 DEF Contract!Next
  <2> QED BY <2>2, <2>3
<1>5. ASSUME NEW p \in Movers, PauseAtGate(p)
      PROVE  Contract!Next \/ UNCHANGED Contract!vars
  <2>1. Holds(p) /\ run.node \in Gated
    BY <1>5 DEF PauseAtGate, Holds, GateInv
  <2>2. CASE run.status = "cancelled"
    BY <1>5, <2>2, ContractStutter DEF PauseAtGate
  <2>3. CASE run.status # "cancelled"
    <3>1. run'.status = "awaiting_approval" /\ run'.node = run.node
      BY <1>5, <2>3 DEF PauseAtGate, SetStatus, TypeOK, Row
    <3>2. Contract!Pause
      BY <1>1, <1>2, <1>5, <2>1, <2>3, <3>1 DEF PauseAtGate, Contract!Pause
    <3> QED BY <3>2 DEF Contract!Next
  <2> QED BY <2>2, <2>3
<1>6. ASSUME NEW s \in Slots, StartHop(s)
      PROVE  Contract!Next \/ UNCHANGED Contract!vars
  <2>1. Holds(s) /\ Pending
    BY <1>6 DEF StartHop, Holds, Pending
  <2>2. CASE run.status = "cancelled"
    BY <1>6, <2>2, ContractStutter DEF StartHop
  <2>3. CASE run.status # "cancelled"
    <3>1. run'.status = "running" /\ run'.node = run.node
      BY <1>6, <2>3 DEF StartHop, SetStatus, TypeOK, Row
    <3>2. run.node \in Gated => Permits[run.node] > 0
      BY <2>1, GraphAssumption DEF GateInv, Permits, TypeOK
    <3>3. Contract!Begin
      BY <1>1, <1>2, <1>6, <2>1, <2>3, <3>1, <3>2 DEF StartHop, Contract!Begin
    <3> QED BY <3>3 DEF Contract!Next
  <2> QED BY <2>2, <2>3
<1>7. ASSUME NEW s \in Slots, CallModel(s)
      PROVE  Contract!Next \/ UNCHANGED Contract!vars
  <2>1. /\ Pending /\ hop[s].node = run.node
        /\ run.status \in {"running", "cancelled"}
    BY <1>7 DEF CallModel, Pending, GateInv, RunInv
  <2>2. /\ run' = run /\ grants' = grants
        /\ calls' = [calls EXCEPT ![run.node] = @ + 1]
    BY <1>7, <2>1 DEF CallModel
  <2>3. CASE run.node \in Gated
    <3>1. Permits[run.node] > 0
      BY <2>1, <2>3, GraphAssumption DEF GateInv, Permits, TypeOK
    <3>2. Permits' = [Permits EXCEPT ![run.node] = @ - 1]
      <4>1. \A n \in Gated : grants'[n] - calls'[n] =
               IF n = run.node THEN Permits[n] - 1 ELSE Permits[n]
        BY <2>2, GraphAssumption DEF Permits, TypeOK
      <4> QED BY <2>3, <4>1 DEF Permits
    <3>3. Contract!Call
      BY <2>1, <2>2, <2>3, <3>1, <3>2 DEF Contract!Call
    <3> QED BY <3>3 DEF Contract!Next
  <2>4. CASE run.node \notin Gated
    <3>1. Permits' = Permits
      BY <2>2, <2>4, GraphAssumption DEF Permits, TypeOK
    <3> QED BY <2>2, <3>1 DEF Contract!vars
  <2> QED BY <2>3, <2>4
<1>8. ASSUME NEW s \in Slots, FailRun(s) \/ CompleteRun(s) \/ Backstop(s)
      PROVE  Contract!Next \/ UNCHANGED Contract!vars
  <2>1. Holds(s)
    BY <1>8 DEF FailRun, CompleteRun, Backstop, Holds
  <2>2. CASE run' = run
    BY <1>8, <2>2, ContractStutter DEF FailRun, CompleteRun, Backstop
  <2>3. CASE run' # run
    <3>1. /\ run.status # "cancelled"
          /\ run'.status \in {"completed", "error"}
          /\ run'.node = run.node
      BY <1>8, <2>3
      DEF FailRun, CompleteRun, Backstop, SetStatus, TypeOK, Row, Live
    <3>2. Contract!Finish
      BY <1>1, <1>2, <1>8, <2>1, <3>1
      DEF FailRun, CompleteRun, Backstop, Contract!Finish
    <3> QED BY <3>2 DEF Contract!Next
  <2> QED BY <2>2, <2>3
<1>9. ASSUME NEW r \in Approvals, ApproveDecide(r)
      PROVE  Contract!Next \/ UNCHANGED Contract!vars
  <2>1. CASE run.status = "awaiting_approval"
    <3>1. /\ run'.status = "pending" /\ run'.node = run.node
          /\ grants' = [grants EXCEPT ![run.node] = @ + 1] /\ calls' = calls
      BY <1>9, <2>1 DEF ApproveDecide, TypeOK, Row
    <3>2. Permits' = [Permits EXCEPT ![run.node] = @ + 1]
      <4>1. \A n \in Gated : grants'[n] - calls'[n] =
               IF n = run.node THEN Permits[n] + 1 ELSE Permits[n]
        BY <3>1, GraphAssumption DEF Permits, TypeOK
      <4> QED BY <4>1 DEF Permits
    <3>3. Contract!Release
      BY <2>1, <3>1, <3>2 DEF Contract!Release
    <3> QED BY <3>3 DEF Contract!Next
  <2>2. CASE run.status # "awaiting_approval"
    BY <1>9, <2>2, ContractStutter DEF ApproveDecide
  <2> QED BY <2>1, <2>2
<1>10. ASSUME NEW r \in Cancels, CancelDecide(r)
      PROVE  Contract!Next \/ UNCHANGED Contract!vars
  <2>1. CASE run.status \in Live \cup {"awaiting_approval"}
    <3>1. run'.status = "cancelled" /\ run'.node = run.node
      BY <1>10, <2>1 DEF CancelDecide, SetStatus, TypeOK, Row
    <3>2. Contract!Cancel
      BY <1>1, <1>10, <2>1, <3>1
      DEF CancelDecide, Contract!Cancel, Contract!Live, Live
    <3> QED BY <3>2 DEF Contract!Next
  <2>2. CASE run.status \notin Live \cup {"awaiting_approval"}
    BY <1>10, <2>2, ContractStutter DEF CancelDecide
  <2> QED BY <2>1, <2>2
<1>11. ASSUME NEW s \in Slots,
              \/ TakeJob(s) \/ ModelFails(s) \/ RecordFailure(s)
              \/ ModelAnswers(s) \/ RecordSuccess(s) \/ CheckVisited(s)
              \/ Throw(s)
       PROVE  UNCHANGED Contract!vars
  BY <1>11, ContractStutter
  DEF TakeJob, ModelFails, RecordFailure, ModelAnswers, RecordSuccess,
      CheckVisited, Throw
<1>12. ASSUME NEW p \in Procs,
              \/ EnqueueHop(p) \/ ApproveRead(p) \/ DecisionSequence(p)
              \/ ApproveRecord(p) \/ CancelRead(p) \/ CancelRecord(p)
              \/ CancelPublish(p)
       PROVE  UNCHANGED Contract!vars
  BY <1>12, ContractStutter
  DEF EnqueueHop, ApproveRead, DecisionSequence, ApproveRecord, CancelRead,
      CancelRecord, RecordDecision, CancelPublish
<1>13. CASE UNCHANGED vars
  BY <1>13, ContractStutter DEF vars
<1> QED
  BY <1>3, <1>4, <1>5, <1>6, <1>7, <1>8, <1>9, <1>10, <1>11, <1>12, <1>13
  DEF Next, HopStep, CreatorStep, ApproveStep, CancelStep

\* The run, its jobs, its hops and its requests implement RunContract while
\* every job is delivered once.  (dispatchHop, createRun, approve and cancel)
THEOREM RunKeepsContract == Spec => KeepsContract
<1>1. TypeInv /\ FlightInv /\ GateInv /\ RunInv /\ [Next]_vars
        => (GateInv /\ RunInv)'
  BY GateInvStep, RunInvStep DEF TypeInv
<1>2. Spec => [](TypeInv /\ FlightInv /\ GateInv /\ RunInv)
  BY SpecInvariant, GateInvInit, RunInvInit, <1>1, PTL DEF Spec
<1>3. TypeInv /\ FlightInv /\ GateInv /\ RunInv /\ [Next]_vars
        => [Contract!Next]_(Contract!vars)
  BY ContractStep DEF TypeInv
<1> QED
  BY ContractInit, <1>2, <1>3, PTL DEF Spec, KeepsContract, Contract!Spec

=============================================================================
