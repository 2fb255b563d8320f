---------------------------- MODULE FanOut_proofs ----------------------------
(***************************************************************************)
(* Theorems about FanOut, for every set of plans: the type invariant, that *)
(* a cancel sticks, that FanOut implements CountedBarrier, and that the    *)
(* batch row agrees with the trail.                                        *)
(***************************************************************************)
EXTENDS FanOut, FiniteSetTheorems, WellFoundedInduction, TLAPS

-----------------------------------------------------------------------------
(* Sequences of the trail.                                                 *)

\* The trail is finite: nextSequence has a highest row to look at.
Bounded == \E n \in Nat : DOMAIN log \subseteq 1..n

\* A bounded set of positive numbers has a greatest element.
LEMMA GreatestExists ==
    ASSUME NEW S, S # {}, NEW n \in Nat, S \subseteq 1..n
    PROVE  \E k \in S : \A j \in S : j <= k
<1> DEFINE T == {n - k : k \in S}
<1>1. T \subseteq Nat
  OBVIOUS
<1>2. T # {}
  BY Zenon
<1>3. PICK m \in T : \A d \in T : <<d, m>> \notin OpToRel(<, Nat)
  BY <1>1, <1>2, NatLessThanWellFounded, WFMin
<1>4. PICK k \in S : m = n - k
  OBVIOUS
<1>5. \A j \in S : n - j \in Nat /\ n - k \in Nat /\ ~(n - j < n - k)
  BY <1>1, <1>3, <1>4 DEF OpToRel
<1> QED BY <1>5

LEMMA NextSequenceTyped ==
    ASSUME TypeOK, Bounded
    PROVE  NextSequence \in Nat \ {0}
<1>1. CASE DOMAIN log = {}
  BY <1>1 DEF NextSequence, SourceSequence
<1>2. CASE DOMAIN log # {}
  <2>1. \E k \in DOMAIN log : \A j \in DOMAIN log : j <= k
    BY <1>2, GreatestExists DEF Bounded
  <2>2. (CHOOSE k \in DOMAIN log : \A j \in DOMAIN log : j <= k)
          \in DOMAIN log
    BY <2>1
  <2> QED BY <1>2, <2>2 DEF NextSequence, TypeOK
<1> QED BY <1>1, <1>2

\* An insert adds its row, keeps the others, and leaves the trail well formed.
LEMMA InsertAdds ==
    ASSUME TypeOK, Bounded, NEW k \in Nat \ {0},
           NEW kind \in {"source", "succeeded", "failed", "cancelled"},
           NEW b \in Nat, Insert(k, kind, b)
    PROVE  /\ Bounded'
           /\ DOMAIN log' = DOMAIN log \cup {k}
           /\ DOMAIN log' \subseteq Nat \ {0}
           /\ \A j \in DOMAIN log' : log'[j] \in Row
           /\ log'[k].kind = kind
           /\ \A j \in DOMAIN log : j # k => log'[j] = log[j]
<1>1. DOMAIN log' = DOMAIN log \cup {k}
  BY DEF Insert
<1>2. PICK n \in Nat : DOMAIN log \subseteq 1..n
  BY DEF Bounded
<1>3. DOMAIN log' \subseteq 1..(n + k) /\ n + k \in Nat
  BY <1>1, <1>2
<1>4. Bounded'
  BY <1>3 DEF Bounded
<1>5. log'[k] = [kind |-> kind, branch |-> b]
  BY DEF Insert
<1>6. \A j \in DOMAIN log : j # k => log'[j] = log[j]
  BY DEF Insert
<1>7. \A j \in DOMAIN log' : log'[j] \in Row
  BY <1>1, <1>5, <1>6 DEF TypeOK, Row
<1> QED BY <1>1, <1>4, <1>5, <1>6, <1>7 DEF TypeOK

-----------------------------------------------------------------------------
(* The order of a fan-out's steps.                                         *)

Early  == {"source", "check", "open", "base"}
Joined == {"tally", "advance", "gate", "enqueue"}

\* Branches start in order, run only between baseSequence and the join, and
\* every sequence that is about to be used has been read; past the join all of
\* them have settled and one is fulfilled; the aggregator is handed the run
\* last.
InOrder ==
    /\ pc = "branches" => base > 0
    /\ pc = "failrow" => failSeq > 0
    /\ cancel.pc = "insert" => cancel.seq > 0
    /\ pc \in Early => cursor = 0
    /\ \A b \in Branch : b > cursor => branch[b] = "waiting"
    /\ \A b \in Branch : branch[b] \in InFlight => pc = "branches"
    /\ pc \in Joined => AllSettled /\ Fulfilled # {}
    /\ pc \notin {"gate", "enqueue", "throwing", "over", "lost"} => joins = 0

\* A worker holds what the cursor gave it, nobody else holds that, and every
\* item the cursor has passed is held by a worker or settled.
Shared ==
    /\ \A w \in Workers : worker[w] <= cursor
    /\ \A v, w \in Workers : v # w /\ worker[v] # 0 => worker[v] # worker[w]
    /\ plan.map => \A b \in Branch :
         b <= cursor => branch[b] \in Settled \/ \E w \in Workers : worker[w] = b

FanInv == TypeOK /\ Bounded /\ InOrder /\ Shared

LEMMA FanInvInit == Init => FanInv
<1> SUFFICES ASSUME Init PROVE FanInv
  OBVIOUS
<1>1. plan.size \in Nat /\ plan \in Plans
  BY PlansAssumption DEF Init
<1>2. TypeOK
  BY <1>1 DEF Init, TypeOK, Branch, Workers
<1>3. Bounded
  <2>1. DOMAIN log \subseteq 1..0
    BY DEF Init
  <2> QED BY <2>1 DEF Bounded
<1>4. InOrder
  BY <1>1 DEF Init, InOrder, Branch, InFlight, Early, Joined
<1>5. Shared
  BY <1>1 DEF Init, Shared, Branch
<1> QED BY <1>2, <1>3, <1>4, <1>5 DEF FanInv

\* When all workers have returned the cursor is past the list, and nobody
\* holds an item any more.
LEMMA ReturnedSettled ==
    ASSUME FanInv, plan.map, \A w \in Workers : Returned(w)
    PROVE  AllSettled
<1>1. plan.size \in Nat /\ plan.size > 0 /\ plan.limit \in Nat \ {0}
  BY PlansAssumption DEF FanInv, TypeOK
<1>2. 1 \in Workers
  BY <1>1 DEF Workers
<1>3. worker \in [Workers -> Nat] /\ cursor \in Nat
  BY DEF FanInv, TypeOK
<1>4. plan.size < cursor
  BY <1>1, <1>2, <1>3 DEF FanInv, Shared, Returned
<1>5. ASSUME NEW b \in Branch PROVE branch[b] \in Settled
  <2>1. b \in Nat /\ b <= plan.size /\ b <= cursor
    BY <1>1, <1>3, <1>4 DEF Branch
  <2>2. \A w \in Workers : worker[w] # b
    BY <1>1, <1>3, <2>1 DEF Returned
  <2> QED BY <2>1, <2>2 DEF FanInv, Shared
<1> QED BY <1>5 DEF AllSettled

\* Every step keeps the types and the order.
LEMMA OrderNext ==
    ASSUME FanInv, [Next]_vars
    PROVE  TypeOK' /\ Bounded' /\ InOrder'
<1> USE PlansAssumption DEF FanInv
<1>a. plan.size \in Nat /\ plan \in Plans
  BY DEF TypeOK
<1>1. CASE RecordSource
  <2>a. SourceSequence \in Nat \ {0}
    BY <1>a, <1>1 DEF RecordSource, TypeOK, InOrder, SourceSequence
  <2>b. CASE log' = log
    <3>1. TypeOK'
      BY <1>a, <2>b, <1>1
         DEF RecordSource, TypeOK, Branch, Workers, Becomes, InFlight, Settled, Insert
    <3>2. Bounded'
      BY <2>b DEF Bounded
    <3>3. InOrder'
      BY <1>a, <2>b, <1>1
         DEF RecordSource, TypeOK, InOrder, Branch, Becomes, InFlight, Settled,
             AllSettled, Fulfilled, Early, Joined
    <3> QED BY <3>1, <3>2, <3>3
  <2>c. CASE Insert(SourceSequence, "source", 0)
    <3>1. /\ Bounded'
          /\ DOMAIN log' \subseteq Nat \ {0}
          /\ \A j \in DOMAIN log' : log'[j] \in Row
      BY <1>a, <2>a, <2>c, InsertAdds
    <3>2. TypeOK'
      BY <1>a, <3>1, <1>1
         DEF RecordSource, TypeOK, Branch, Workers, Becomes, InFlight, Settled
    <3>3. InOrder'
      BY <1>a, <1>1
         DEF RecordSource, TypeOK, InOrder, Branch, Becomes, InFlight, Settled,
             AllSettled, Fulfilled, Early, Joined
    <3> QED BY <3>1, <3>2, <3>3
  <2> QED BY <1>1, <2>b, <2>c DEF RecordSource
<1>2. CASE CheckPlan
  <2>1. TypeOK'
    BY <1>a, <1>2 DEF CheckPlan, TypeOK, Branch, Workers, Becomes, InFlight, Settled
  <2>2. Bounded'
    BY <1>2 DEF CheckPlan, Bounded
  <2>3. InOrder'
    BY <1>a, <1>2
       DEF CheckPlan, TypeOK, InOrder, Branch, Becomes, InFlight, Settled,
           AllSettled, Fulfilled, Early, Joined
  <2> QED BY <2>1, <2>2, <2>3
<1>3. CASE OpenBatch
  <2>1. TypeOK'
    BY <1>a, <1>3 DEF OpenBatch, TypeOK, Branch, Workers, Becomes, InFlight, Settled
  <2>2. Bounded'
    BY <1>3 DEF OpenBatch, Bounded
  <2>3. InOrder'
    BY <1>a, <1>3
       DEF OpenBatch, TypeOK, InOrder, Branch, Becomes, InFlight, Settled,
           AllSettled, Fulfilled, Early, Joined
  <2> QED BY <2>1, <2>2, <2>3
<1>4. CASE ReadBase
  <2>1. TypeOK'
    BY NextSequenceTyped, <1>a, <1>4
       DEF ReadBase, TypeOK, Branch, Workers, Becomes, InFlight, Settled
  <2>2. Bounded'
    BY <1>4 DEF ReadBase, Bounded
  <2>3. InOrder'
    BY NextSequenceTyped, <1>a, <1>4
       DEF ReadBase, TypeOK, InOrder, Branch, Becomes, InFlight, Settled,
           AllSettled, Fulfilled, Early, Joined
  <2> QED BY <2>1, <2>2, <2>3
<1>5. CASE Join
  <2>1. TypeOK'
    BY <1>a, <1>5 DEF Join, TypeOK, Branch, Workers, Becomes, InFlight, Settled
  <2>2. Bounded'
    BY <1>5 DEF Join, Bounded
  <2>3. AllSettled
    BY <1>5, ReturnedSettled DEF Join
  <2>4. InOrder'
    BY <1>a, <1>5, <2>3
       DEF Join, TypeOK, InOrder, Branch, Becomes, InFlight, Settled,
           AllSettled, Fulfilled, Early, Joined
  <2> QED BY <2>1, <2>2, <2>4
<1>6. CASE WipeOut
  <2>1. TypeOK'
    BY <1>a, <1>6 DEF WipeOut, TypeOK, Branch, Workers, Becomes, InFlight, Settled
  <2>2. Bounded'
    BY <1>6 DEF WipeOut, Bounded
  <2>3. InOrder'
    BY <1>a, <1>6
       DEF WipeOut, TypeOK, InOrder, Branch, Becomes, InFlight, Settled,
           AllSettled, Fulfilled, Early, Joined
  <2> QED BY <2>1, <2>2, <2>3
<1>7. CASE FailSequence
  <2>1. TypeOK'
    BY NextSequenceTyped, <1>a, <1>7
       DEF FailSequence, TypeOK, Branch, Workers, Becomes, InFlight, Settled
  <2>2. Bounded'
    BY <1>7 DEF FailSequence, Bounded
  <2>3. InOrder'
    BY NextSequenceTyped, <1>a, <1>7
       DEF FailSequence, TypeOK, InOrder, Branch, Becomes, InFlight, Settled,
           AllSettled, Fulfilled, Early, Joined
  <2> QED BY <2>1, <2>2, <2>3
<1>8. CASE FailRow
  <2>a. failSeq \in Nat \ {0}
    BY <1>a, <1>8 DEF FailRow, TypeOK, InOrder
  <2>b. CASE log' = log
    <3>1. TypeOK'
      BY <1>a, <2>b, <1>8
         DEF FailRow, TypeOK, Branch, Workers, Becomes, InFlight, Settled, Insert
    <3>2. Bounded'
      BY <2>b DEF Bounded
    <3>3. InOrder'
      BY <1>a, <2>b, <1>8
         DEF FailRow, TypeOK, InOrder, Branch, Becomes, InFlight, Settled,
             AllSettled, Fulfilled, Early, Joined
    <3> QED BY <3>1, <3>2, <3>3
  <2>c. CASE Insert(failSeq, "failed", 0)
    <3>1. /\ Bounded'
          /\ DOMAIN log' \subseteq Nat \ {0}
          /\ \A j \in DOMAIN log' : log'[j] \in Row
      BY <1>a, <2>a, <2>c, InsertAdds
    <3>2. TypeOK'
      BY <1>a, <3>1, <1>8
         DEF FailRow, TypeOK, Branch, Workers, Becomes, InFlight, Settled
    <3>3. InOrder'
      BY <1>a, <1>8
         DEF FailRow, TypeOK, InOrder, Branch, Becomes, InFlight, Settled,
             AllSettled, Fulfilled, Early, Joined
    <3> QED BY <3>1, <3>2, <3>3
  <2> QED BY <1>8, <2>b, <2>c DEF FailRow
<1>9. CASE FailRun
  <2>1. TypeOK'
    BY <1>a, <1>9 DEF FailRun, TypeOK, Branch, Workers, Becomes, InFlight, Settled
  <2>2. Bounded'
    BY <1>9 DEF FailRun, Bounded
  <2>3. InOrder'
    BY <1>a, <1>9
       DEF FailRun, TypeOK, InOrder, Branch, Becomes, InFlight, Settled,
           AllSettled, Fulfilled, Early, Joined
  <2> QED BY <2>1, <2>2, <2>3
<1>10. CASE Tally
  <2>a. Cardinality(Fulfilled) \in Nat
    <3>1. IsFiniteSet(Branch)
      <4>1. 1 \in Int /\ plan.size \in Int
        BY <1>a
      <4> QED BY <4>1, FS_Interval DEF Branch
    <3>2. Fulfilled \subseteq Branch
      BY DEF Fulfilled
    <3> QED BY <3>1, <3>2, FS_Subset, FS_CardinalityType
  <2>1. TypeOK'
    BY <2>a, <1>a, <1>10 DEF Tally, TypeOK, Branch, Workers, Becomes, InFlight, Settled
  <2>2. Bounded'
    BY <1>10 DEF Tally, Bounded
  <2>3. InOrder'
    BY <2>a, <1>a, <1>10
       DEF Tally, TypeOK, InOrder, Branch, Becomes, InFlight, Settled,
           AllSettled, Fulfilled, Early, Joined
  <2> QED BY <2>1, <2>2, <2>3
<1>11. CASE Advance
  <2>1. TypeOK'
    BY <1>a, <1>11 DEF Advance, TypeOK, Branch, Workers, Becomes, InFlight, Settled
  <2>2. Bounded'
    BY <1>11 DEF Advance, Bounded
  <2>3. InOrder'
    BY <1>a, <1>11
       DEF Advance, TypeOK, InOrder, Branch, Becomes, InFlight, Settled,
           AllSettled, Fulfilled, Early, Joined
  <2> QED BY <2>1, <2>2, <2>3
<1>12. CASE EnqueueHop
  <2>1. TypeOK'
    BY <1>a, <1>12 DEF EnqueueHop, TypeOK, Branch, Workers, Becomes, InFlight, Settled
  <2>2. Bounded'
    BY <1>12 DEF EnqueueHop, Bounded
  <2>3. InOrder'
    BY <1>a, <1>12
       DEF EnqueueHop, TypeOK, InOrder, Branch, Becomes, InFlight, Settled,
           AllSettled, Fulfilled, Early, Joined
  <2> QED BY <2>1, <2>2, <2>3
<1>13. CASE PauseAtGate
  <2>1. TypeOK'
    BY <1>a, <1>13 DEF PauseAtGate, TypeOK, Branch, Workers, Becomes, InFlight, Settled
  <2>2. Bounded'
    BY <1>13 DEF PauseAtGate, Bounded
  <2>3. InOrder'
    BY <1>a, <1>13
       DEF PauseAtGate, TypeOK, InOrder, Branch, Becomes, InFlight, Settled,
           AllSettled, Fulfilled, Early, Joined
  <2> QED BY <2>1, <2>2, <2>3
<1>14. CASE Throw
  <2>1. TypeOK'
    BY <1>a, <1>14 DEF Throw, TypeOK, Branch, Workers, Becomes, InFlight, Settled
  <2>2. Bounded'
    BY <1>14 DEF Throw, Bounded
  <2>3. InOrder'
    BY <1>a, <1>14
       DEF Throw, TypeOK, InOrder, Branch, Becomes, InFlight, Settled,
           AllSettled, Fulfilled, Early, Joined
  <2> QED BY <2>1, <2>2, <2>3
<1>15. CASE Backstop
  <2>1. TypeOK'
    BY <1>a, <1>15 DEF Backstop, TypeOK, Branch, Workers, Becomes, InFlight, Settled
  <2>2. Bounded'
    BY <1>15 DEF Backstop, Bounded
  <2>3. InOrder'
    BY <1>a, <1>15
       DEF Backstop, TypeOK, InOrder, Branch, Becomes, InFlight, Settled,
           AllSettled, Fulfilled, Early, Joined
  <2> QED BY <2>1, <2>2, <2>3
<1>16. ASSUME NEW w \in Workers, TakeItem(w)
       PROVE  TypeOK' /\ Bounded' /\ InOrder'
  <2>1. /\ worker' = [worker EXCEPT ![w] = cursor + 1]
        /\ cursor' = cursor + 1 /\ cursor \in Nat /\ pc = "branches"
        /\ branch' = [b \in Branch |-> IF b = cursor + 1 THEN Started(b)
                                      ELSE branch[b]]
        /\ UNCHANGED <<plan, status, log, batch, pc, base, failSeq, queue,
                       cancel, joins>>
    BY <1>16 DEF TakeItem, Take, TypeOK
  <2>2. TypeOK'
    <3>1. branch' \in [Branch -> {"waiting"} \cup InFlight \cup Settled]
      BY <2>1 DEF TypeOK, Started, InFlight
    <3>2. worker' \in [Workers -> Nat] /\ cursor' \in Nat
      BY <2>1 DEF TypeOK
    <3> QED BY <2>1, <3>1, <3>2 DEF TypeOK, Branch, Workers
  <2>3. Bounded'
    BY <2>1 DEF Bounded
  <2>4. InOrder'
    BY <1>a, <2>1
       DEF TypeOK, InOrder, Branch, InFlight, Settled, AllSettled, Fulfilled,
           Early, Joined, Started
  <2> QED BY <2>2, <2>3, <2>4
<1>25. CASE StartAll
  <2>1. TypeOK'
    BY <1>a, <1>25
       DEF StartAll, TypeOK, Branch, Workers, InFlight, Settled, Started
  <2>2. Bounded'
    BY <1>25 DEF StartAll, Bounded
  <2>3. InOrder'
    BY <1>a, <1>25
       DEF StartAll, TypeOK, InOrder, Branch, InFlight, Settled, AllSettled,
           Fulfilled, Early, Joined, Started
  <2> QED BY <2>1, <2>2, <2>3
<1>26. CASE BackstopRejects
  <2>1. TypeOK'
    BY <1>a, <1>26 DEF BackstopRejects, TypeOK, Branch, Workers
  <2>2. Bounded'
    BY <1>26 DEF BackstopRejects, Bounded
  <2>3. InOrder'
    BY <1>a, <1>26
       DEF BackstopRejects, TypeOK, InOrder, Branch, InFlight, Settled,
           AllSettled, Fulfilled, Early, Joined
  <2> QED BY <2>1, <2>2, <2>3
<1>17. ASSUME NEW b \in Branch, BranchAnswers(b) PROVE TypeOK' /\ Bounded' /\ InOrder'
  <2>1. TypeOK'
    BY <1>a, <1>17
       DEF BranchAnswers, TypeOK, Branch, Workers, Becomes, InFlight, Settled
  <2>2. Bounded'
    BY <1>17 DEF BranchAnswers, Bounded
  <2>3. InOrder'
    BY <1>a, <1>17
       DEF BranchAnswers, TypeOK, InOrder, Branch, Becomes, InFlight, Settled,
           AllSettled, Fulfilled, Early, Joined
  <2> QED BY <2>1, <2>2, <2>3
<1>18. ASSUME NEW b \in Branch, RecordSucceeded(b) PROVE TypeOK' /\ Bounded' /\ InOrder'
  <2>a. Slot(b) \in Nat \ {0}
    BY <1>a, <1>18 DEF RecordSucceeded, TypeOK, InOrder, Slot, Branch, InFlight
  <2>n. b \in Nat
    BY <1>a DEF Branch
  <2>t. branch' \in [Branch -> {"waiting"} \cup InFlight \cup Settled]
    BY <1>18 DEF RecordSucceeded, TypeOK, Becomes, InFlight, Settled
  <2>b. CASE log' = log
    <3>1. TypeOK'
      BY <1>a, <2>t, <2>b, <1>18
         DEF RecordSucceeded, TypeOK, Branch, Workers, Becomes, InFlight, Settled,
             Insert
    <3>2. Bounded'
      BY <2>b DEF Bounded
    <3>3. InOrder'
      BY <1>a, <2>b, <1>18
         DEF RecordSucceeded, TypeOK, InOrder, Branch, Becomes, InFlight,
             Settled, AllSettled, Fulfilled, Early, Joined
    <3> QED BY <3>1, <3>2, <3>3
  <2>c. CASE Insert(Slot(b), "succeeded", b)
    <3>1. /\ Bounded'
          /\ DOMAIN log' \subseteq Nat \ {0}
          /\ \A j \in DOMAIN log' : log'[j] \in Row
      BY <1>a, <2>n, <2>a, <2>c, InsertAdds
    <3>2. TypeOK'
      BY <1>a, <3>1, <1>18
         DEF RecordSucceeded, TypeOK, Branch, Workers, Becomes, InFlight, Settled
    <3>3. InOrder'
      BY <1>a, <1>18
         DEF RecordSucceeded, TypeOK, InOrder, Branch, Becomes, InFlight,
             Settled, AllSettled, Fulfilled, Early, Joined
    <3> QED BY <3>1, <3>2, <3>3
  <2> QED BY <1>18, <2>b, <2>c DEF RecordSucceeded
<1>19. ASSUME NEW b \in Branch, RecordFailed(b) PROVE TypeOK' /\ Bounded' /\ InOrder'
  <2>a. Slot(b) \in Nat \ {0}
    BY <1>a, <1>19 DEF RecordFailed, TypeOK, InOrder, Slot, Branch, InFlight
  <2>n. b \in Nat
    BY <1>a DEF Branch
  <2>t. branch' \in [Branch -> {"waiting"} \cup InFlight \cup Settled]
    BY <1>19 DEF RecordFailed, TypeOK, Becomes, InFlight, Settled
  <2>b. CASE log' = log
    <3>1. TypeOK'
      BY <1>a, <2>t, <2>b, <1>19
         DEF RecordFailed, TypeOK, Branch, Workers, Becomes, InFlight, Settled, Insert
    <3>2. Bounded'
      BY <2>b DEF Bounded
    <3>3. InOrder'
      BY <1>a, <2>b, <1>19
         DEF RecordFailed, TypeOK, InOrder, Branch, Becomes, InFlight, Settled,
             AllSettled, Fulfilled, Early, Joined
    <3> QED BY <3>1, <3>2, <3>3
  <2>c. CASE Insert(Slot(b), "failed", b)
    <3>1. /\ Bounded'
          /\ DOMAIN log' \subseteq Nat \ {0}
          /\ \A j \in DOMAIN log' : log'[j] \in Row
      BY <1>a, <2>n, <2>a, <2>c, InsertAdds
    <3>2. TypeOK'
      BY <1>a, <3>1, <1>19
         DEF RecordFailed, TypeOK, Branch, Workers, Becomes, InFlight, Settled
    <3>3. InOrder'
      BY <1>a, <1>19
         DEF RecordFailed, TypeOK, InOrder, Branch, Becomes, InFlight, Settled,
             AllSettled, Fulfilled, Early, Joined
    <3> QED BY <3>1, <3>2, <3>3
  <2> QED BY <1>19, <2>b, <2>c DEF RecordFailed
<1>20. ASSUME NEW b \in Branch, BranchThrows(b) PROVE TypeOK' /\ Bounded' /\ InOrder'
  <2>1. TypeOK'
    BY <1>a, <1>20 DEF BranchThrows, TypeOK, Branch, Workers, Becomes, InFlight, Settled
  <2>2. Bounded'
    BY <1>20 DEF BranchThrows, Bounded
  <2>3. InOrder'
    BY <1>a, <1>20
       DEF BranchThrows, TypeOK, InOrder, Branch, Becomes, InFlight, Settled,
           AllSettled, Fulfilled, Early, Joined
  <2> QED BY <2>1, <2>2, <2>3
<1>21. CASE CancelDecide
  <2>1. TypeOK'
    BY <1>a, <1>21 DEF CancelDecide, TypeOK, Branch, Workers, Becomes, InFlight, Settled
  <2>2. Bounded'
    BY <1>21 DEF CancelDecide, Bounded
  <2>3. InOrder'
    BY <1>a, <1>21
       DEF CancelDecide, TypeOK, InOrder, Branch, Becomes, InFlight, Settled,
           AllSettled, Fulfilled, Early, Joined
  <2> QED BY <2>1, <2>2, <2>3
<1>22. CASE CancelSequence
  <2>1. TypeOK'
    BY NextSequenceTyped, <1>a, <1>22
       DEF CancelSequence, TypeOK, Branch, Workers, Becomes, InFlight, Settled
  <2>2. Bounded'
    BY <1>22 DEF CancelSequence, Bounded
  <2>3. UNCHANGED <<plan, pc, branch, base, cursor, failSeq, joins>>
        /\ cancel' = [pc |-> "insert", seq |-> NextSequence]
    BY <1>22 DEF CancelSequence
  <2>4. Branch' = Branch /\ AllSettled' = AllSettled /\ Fulfilled' = Fulfilled
    BY <2>3 DEF Branch, AllSettled, Fulfilled
  <2>5. cancel'.seq > 0
    BY NextSequenceTyped, <2>3
  <2>6. InOrder'
    BY <2>3, <2>4, <2>5 DEF InOrder
  <2> QED BY <2>1, <2>2, <2>6
<1>23. CASE CancelRecord
  <2>a. cancel.seq \in Nat \ {0}
    BY <1>a, <1>23 DEF CancelRecord, TypeOK, InOrder
  <2>b. CASE log' = log
    <3>1. TypeOK'
      BY <1>a, <2>b, <1>23
         DEF CancelRecord, TypeOK, Branch, Workers, Becomes, InFlight, Settled, Insert
    <3>2. Bounded'
      BY <2>b DEF Bounded
    <3>3. InOrder'
      BY <1>a, <2>b, <1>23
         DEF CancelRecord, TypeOK, InOrder, Branch, Becomes, InFlight, Settled,
             AllSettled, Fulfilled, Early, Joined
    <3> QED BY <3>1, <3>2, <3>3
  <2>c. CASE Insert(cancel.seq, "cancelled", 0)
    <3>1. /\ Bounded'
          /\ DOMAIN log' \subseteq Nat \ {0}
          /\ \A j \in DOMAIN log' : log'[j] \in Row
      BY <1>a, <2>a, <2>c, InsertAdds
    <3>2. TypeOK'
      BY <1>a, <3>1, <1>23
         DEF CancelRecord, TypeOK, Branch, Workers, Becomes, InFlight, Settled
    <3>3. InOrder'
      BY <1>a, <1>23
         DEF CancelRecord, TypeOK, InOrder, Branch, Becomes, InFlight, Settled,
             AllSettled, Fulfilled, Early, Joined
    <3> QED BY <3>1, <3>2, <3>3
  <2> QED BY <1>23, <2>b, <2>c DEF CancelRecord
<1>24. CASE UNCHANGED vars
  <2>1. TypeOK' /\ Bounded'
    BY <1>24 DEF vars, TypeOK, Bounded, Branch, Workers
  <2>2. InOrder'
    BY <1>24 DEF vars, InOrder, Branch, AllSettled, Fulfilled
  <2> QED BY <2>1, <2>2
<1> QED
  BY <1>1, <1>2, <1>3, <1>4, <1>5, <1>6, <1>7, <1>8, <1>9, <1>10, <1>11, <1>12,
     <1>13, <1>14, <1>15, <1>16, <1>17, <1>18, <1>19, <1>20, <1>21, <1>22,
     <1>23, <1>24, <1>25, <1>26
  DEF Next, HopStep, BranchStep, CancelStep

\* Every other step leaves the workers alone, and unsettles nothing.
LEMMA SharedStays ==
    ASSUME FanInv, UNCHANGED <<plan, worker, cursor>>,
           \A b \in Branch : branch[b] \in Settled => branch'[b] \in Settled
    PROVE  Shared'
<1>1. Branch' = Branch /\ Workers' = Workers
  BY DEF Branch, Workers
<1> QED BY <1>1 DEF FanInv, Shared

LEMMA SharedTake ==
    ASSUME FanInv, NEW w \in Workers, TakeItem(w)
    PROVE  Shared'
<1>0. plan.map
  BY DEF Workers
<1>1. /\ worker' = [worker EXCEPT ![w] = cursor + 1]
      /\ cursor' = cursor + 1 /\ plan' = plan
      /\ branch' = [b \in Branch |-> IF b = cursor + 1 THEN Started(b)
                                    ELSE branch[b]]
      /\ worker[w] # 0 => branch[worker[w]] \in Settled
  BY DEF TakeItem, Take
<1>2. /\ Branch' = Branch /\ Workers' = Workers /\ cursor \in Nat
      /\ worker \in [Workers -> Nat] /\ plan.size \in Nat
  BY <1>1, PlansAssumption DEF Branch, Workers, FanInv, TypeOK
<1>3. \A v \in Workers : worker[v] <= cursor
  BY DEF FanInv, Shared
<1>4. \A v \in Workers : worker'[v] = IF v = w THEN cursor + 1 ELSE worker[v]
  BY <1>1, <1>2
<1>5. \A v \in Workers' : worker'[v] <= cursor'
  BY <1>1, <1>2, <1>3, <1>4
<1>6. \A u, v \in Workers' :
        u # v /\ worker'[u] # 0 => worker'[u] # worker'[v]
  BY <1>2, <1>3, <1>4 DEF FanInv, Shared
<1>7. ASSUME NEW b \in Branch, b <= cursor + 1
      PROVE  branch'[b] \in Settled \/ \E v \in Workers : worker'[v] = b
  <2>1. CASE b = cursor + 1
    BY <1>4, <2>1
  <2>2. CASE b # cursor + 1
    <3>1. b <= cursor /\ branch'[b] = branch[b] /\ b # 0
      BY <1>1, <1>2, <1>7, <2>2 DEF Branch
    <3>2. branch[b] \in Settled \/ \E v \in Workers : worker[v] = b
      BY <1>0, <3>1 DEF FanInv, Shared
    <3>3. CASE \E v \in Workers : worker[v] = b
      <4>1. PICK v \in Workers : worker[v] = b
        BY <3>3
      <4>2. CASE v = w
        BY <1>1, <3>1, <4>1, <4>2
      <4>3. CASE v # w
        BY <1>4, <4>1, <4>3
      <4> QED BY <4>2, <4>3
    <3> QED BY <3>1, <3>2, <3>3
  <2> QED BY <2>1, <2>2
<1>8. \A b \in Branch' : b <= cursor' =>
        branch'[b] \in Settled \/ \E v \in Workers' : worker'[v] = b
  BY <1>1, <1>2, <1>7
<1> QED BY <1>5, <1>6, <1>8 DEF Shared

LEMMA SharedNext ==
    ASSUME FanInv, [Next]_vars
    PROVE  Shared'
<1>t. branch \in [Branch -> {"waiting"} \cup InFlight \cup Settled]
  BY DEF FanInv, TypeOK
<1>1. ASSUME NEW w \in Workers, TakeItem(w) PROVE Shared'
  BY <1>1, SharedTake
<1>2. CASE StartAll
  <2>1. plan' = plan /\ ~plan.map /\ worker' = worker
    BY <1>2 DEF StartAll
  <2>2. Workers = {} /\ Workers' = {}
    BY <2>1 DEF Workers
  <2> QED BY <2>1, <2>2 DEF Shared
<1>3. CASE (HopStep /\ ~StartAll) \/ CancelStep \/ UNCHANGED vars
  <2>1. UNCHANGED <<plan, worker, cursor, branch>>
    BY <1>3 DEF HopStep, RecordSource, CheckPlan, OpenBatch, ReadBase, Join,
                WipeOut, FailSequence, FailRow, FailRun, Tally, Advance,
                EnqueueHop, PauseAtGate, Throw, Backstop, BackstopRejects,
                CancelStep, CancelDecide, CancelSequence, CancelRecord, vars
  <2> QED BY <2>1, SharedStays
<1>4. ASSUME NEW b \in Branch, BranchStep(b) PROVE Shared'
  <2>1. UNCHANGED <<plan, worker, cursor>>
    BY <1>4 DEF BranchStep, BranchAnswers, RecordSucceeded, RecordFailed,
                BranchThrows
  <2>2. branch[b] \notin Settled /\ \E s : Becomes(b, s)
    BY <1>4 DEF BranchStep, BranchAnswers, RecordSucceeded, RecordFailed,
                BranchThrows, Settled
  <2>3. \A c \in Branch : branch[c] \in Settled => branch'[c] = branch[c]
    BY <1>t, <2>2 DEF Becomes
  <2> QED BY <2>1, <2>3, SharedStays
<1> QED BY <1>1, <1>2, <1>3, <1>4 DEF Next

LEMMA FanInvNext ==
    ASSUME FanInv, [Next]_vars
    PROVE  FanInv'
BY OrderNext, SharedNext DEF FanInv

\* The order of a fan-out's steps, in every reachable state.
THEOREM FanInvHolds == Spec => []FanInv
<1>1. Init => FanInv
  BY FanInvInit
<1>2. FanInv /\ [Next]_vars => FanInv'
  BY FanInvNext
<1> QED BY <1>1, <1>2, PTL DEF Spec

\* Every variable keeps its type, for any plan.
THEOREM TypeCorrect == Spec => []TypeOK
<1>1. FanInv => TypeOK
  BY DEF FanInv
<1> QED BY <1>1, FanInvHolds, PTL

\* Neither the join, the pause, a wipe-out nor the backstop undoes a cancel.
THEOREM CancelSticks == Spec => CancelIsSticky
<1>1. [Next]_vars => [status = "cancelled" => status' = "cancelled"]_vars
  <2> SUFFICES ASSUME [Next]_vars, status = "cancelled"
               PROVE  status' = "cancelled"
    BY DEF vars
  <2>1. CASE HopStep
    BY <2>1 DEF HopStep, RecordSource, CheckPlan, OpenBatch, ReadBase, Join,
                WipeOut, FailSequence, FailRow, FailRun, Tally, Advance,
                EnqueueHop, PauseAtGate, Throw, Backstop, BackstopRejects,
                StartAll
  <2>2. CASE \E b \in Branch : BranchStep(b)
    BY <2>2 DEF BranchStep, BranchAnswers, RecordSucceeded, RecordFailed,
                BranchThrows
  <2>5. CASE \E w \in Workers : TakeItem(w)
    BY <2>5 DEF TakeItem, Take
  <2>3. CASE CancelStep
    BY <2>3 DEF CancelStep, CancelDecide, CancelSequence, CancelRecord
  <2>4. CASE UNCHANGED vars
    BY <2>4 DEF vars
  <2> QED BY <2>1, <2>2, <2>3, <2>4, <2>5 DEF Next
<1> QED BY <1>1, PTL DEF Spec, CancelIsSticky

-----------------------------------------------------------------------------
(* Starts.                                                                 *)

\* A start touches waiting branches only, and leaves the rest of the hop alone.
LEMMA StartKeeps ==
    ASSUME FanInv, StartAll \/ \E w \in Workers : TakeItem(w)
    PROVE  /\ UNCHANGED <<plan, status, log, batch, pc, base, joins>>
           /\ pc = "branches"
           /\ \A b \in Branch : branch[b] # branch'[b] =>
                branch[b] = "waiting" /\ branch'[b] \in {"failing", "calling"}
<1>1. CASE StartAll
  <2>1. \A b \in Branch : branch[b] = "waiting"
    BY <1>1, PlansAssumption DEF StartAll, FanInv, TypeOK, InOrder, Branch
  <2>2. \A b \in Branch : branch'[b] \in {"failing", "calling"}
    BY <1>1 DEF StartAll, Started
  <2> QED BY <1>1, <2>1, <2>2 DEF StartAll
<1>2. ASSUME NEW w \in Workers, TakeItem(w)
      PROVE  /\ UNCHANGED <<plan, status, log, batch, pc, base, joins>>
             /\ pc = "branches"
             /\ \A b \in Branch : branch[b] # branch'[b] =>
                  branch[b] = "waiting" /\ branch'[b] \in {"failing", "calling"}
  <2>1. cursor \in Nat /\ \A b \in Branch : b > cursor => branch[b] = "waiting"
    BY DEF FanInv, TypeOK, InOrder
  <2>2. \A b \in Branch : b = cursor + 1 => b > cursor
    BY <2>1
  <2>3. /\ UNCHANGED <<plan, status, log, batch, pc, base, joins>>
        /\ pc = "branches"
        /\ branch' = [b \in Branch |-> IF b = cursor + 1 THEN Started(b)
                                      ELSE branch[b]]
    BY <1>2 DEF TakeItem, Take
  <2>4. ASSUME NEW b \in Branch
        PROVE  branch[b] # branch'[b] =>
                 branch[b] = "waiting" /\ branch'[b] \in {"failing", "calling"}
    <3>1. CASE b = cursor + 1
      <4>1. branch[b] = "waiting"
        BY <2>1, <2>2, <3>1
      <4>2. branch'[b] = Started(b)
        BY <2>3, <3>1
      <4> QED BY <4>1, <4>2 DEF Started
    <3>2. CASE b # cursor + 1
      BY <2>3, <3>2
    <3> QED BY <3>1, <3>2
  <2> QED BY <2>3, <2>4
<1> QED BY <1>1, <1>2

-----------------------------------------------------------------------------
(* The counted barrier.                                                    *)

LEMMA BarrierInit == Init => Barrier!Init
<1> SUFFICES ASSUME Init PROVE Barrier!Init
  OBVIOUS
<1>1. \A b \in Branch : Outcome[b] = "open"
  BY DEF Init, Outcome
<1>2. Outcome = [b \in DOMAIN Outcome |-> "open"]
  BY <1>1 DEF Outcome
<1> QED BY <1>2 DEF Init, Barrier!Init

\* A step that leaves the branches' outcomes and the hand-overs alone.
LEMMA BarrierStutter ==
    ASSUME plan' = plan, joins' = joins,
           \A b \in Branch :
              /\ branch'[b] = "fulfilled" <=> branch[b] = "fulfilled"
              /\ branch'[b] = "rejected" <=> branch[b] = "rejected"
    PROVE  UNCHANGED Barrier!vars
<1>1. Branch' = Branch
  BY DEF Branch
<1>2. Outcome' = Outcome
  BY <1>1 DEF Outcome
<1> QED BY <1>2 DEF Barrier!vars

\* A step that settles one branch.
LEMMA BarrierSettle ==
    ASSUME FanInv, NEW b \in Branch, branch[b] \notin Settled,
           NEW s \in Settled, Becomes(b, s), plan' = plan, joins' = joins
    PROVE  Barrier!Next
<1>1. Branch' = Branch
  BY DEF Branch
<1>2. branch \in [Branch -> {"waiting"} \cup InFlight \cup Settled]
  BY DEF FanInv, TypeOK
<1> DEFINE o == IF s = "fulfilled" THEN "ok" ELSE "failed"
<1>3. o \in {"ok", "failed"} /\ s \in {"fulfilled", "rejected"}
  BY DEF Settled
<1>4. Outcome[b] = "open"
  BY DEF Outcome, Settled
<1>5. Outcome' = [Outcome EXCEPT ![b] = o]
  BY <1>1, <1>2, <1>3 DEF Outcome, Becomes
<1>6. b \in DOMAIN Outcome
  BY DEF Outcome
<1> QED BY <1>4, <1>5, <1>6 DEF Barrier!Next, Barrier!Settle

LEMMA BarrierNext ==
    ASSUME FanInv, [Next]_vars
    PROVE  [Barrier!Next]_Barrier!vars
<1>1. CASE Advance
  <2>1. CASE status = "cancelled"
    BY <1>1, <2>1, BarrierStutter DEF Advance
  <2>2. CASE status # "cancelled"
    <3>1. AllSettled /\ Fulfilled # {} /\ joins = 0
      BY <1>1 DEF Advance, FanInv, InOrder, Joined
    <3>2. joins' = 1 /\ UNCHANGED <<plan, branch>>
      BY <1>1, <2>2, <3>1 DEF Advance
    <3>3. Outcome' = Outcome
      BY <3>2 DEF Outcome, Branch
    <3>4. \A b \in DOMAIN Outcome : Outcome[b] # "open"
      BY <3>1 DEF AllSettled, Outcome, Settled
    <3>5. \E b \in DOMAIN Outcome : Outcome[b] = "ok"
      BY <3>1 DEF Fulfilled, Outcome
    <3> QED BY <3>1, <3>2, <3>3, <3>4, <3>5 DEF Barrier!Next, Barrier!Join
  <2> QED BY <2>1, <2>2
<1>2. CASE HopStep /\ ~Advance /\ ~StartAll
  <2>1. UNCHANGED <<plan, branch, joins>>
    BY <1>2 DEF HopStep, RecordSource, CheckPlan, OpenBatch, ReadBase, Join,
                WipeOut, FailSequence, FailRow, FailRun, Tally, EnqueueHop,
                PauseAtGate, Throw, Backstop, BackstopRejects
  <2> QED BY <2>1, BarrierStutter
<1>6. CASE StartAll \/ \E w \in Workers : TakeItem(w)
  <2>1. \A b \in Branch :
           /\ branch'[b] = "fulfilled" <=> branch[b] = "fulfilled"
           /\ branch'[b] = "rejected" <=> branch[b] = "rejected"
    BY <1>6, StartKeeps
  <2> QED BY <1>6, <2>1, StartKeeps, BarrierStutter
<1>3. CASE CancelStep
  <2>1. UNCHANGED <<plan, branch, joins>>
    BY <1>3 DEF CancelStep, CancelDecide, CancelSequence, CancelRecord
  <2> QED BY <2>1, BarrierStutter
<1>4. ASSUME NEW b \in Branch, BranchStep(b)
      PROVE  [Barrier!Next]_Barrier!vars
  <2>1. branch \in [Branch -> {"waiting"} \cup InFlight \cup Settled]
    BY DEF FanInv, TypeOK
  <2>2. plan' = plan /\ joins' = joins
    BY <1>4 DEF BranchStep, BranchAnswers, RecordSucceeded, RecordFailed,
                BranchThrows
  <2>3. branch[b] \notin Settled
    BY <1>4 DEF BranchStep, BranchAnswers, RecordSucceeded, RecordFailed,
                BranchThrows, Settled
  <2>4. PICK s \in InFlight \cup Settled : Becomes(b, s)
    BY <1>4 DEF BranchStep, BranchAnswers, RecordSucceeded, RecordFailed,
                BranchThrows, InFlight, Settled
  <2>5. CASE s \in Settled
    BY <2>2, <2>3, <2>5, <2>4, BarrierSettle
  <2>6. CASE s \in InFlight
    <3>1. \A c \in Branch :
             /\ branch'[c] = "fulfilled" <=> branch[c] = "fulfilled"
             /\ branch'[c] = "rejected" <=> branch[c] = "rejected"
      BY <2>1, <2>3, <2>4, <2>6 DEF Becomes, InFlight, Settled
    <3> QED BY <2>2, <3>1, BarrierStutter
  <2> QED BY <2>4, <2>5, <2>6
<1>5. CASE UNCHANGED vars
  BY <1>5, BarrierStutter DEF vars
<1> QED BY <1>1, <1>2, <1>3, <1>4, <1>5, <1>6 DEF Next

\* The aggregator is dispatched at most once, after every branch has settled
\* and if one succeeded, whatever the order in which the branches settle.
THEOREM FanOutKeepsBarrier == Spec => KeepsBarrier
<1>1. Init => Barrier!Init
  BY BarrierInit
<1>2. FanInv /\ [Next]_vars => [Barrier!Next]_Barrier!vars
  BY BarrierNext
<1> QED BY <1>1, <1>2, FanInvHolds, PTL DEF Spec, KeepsBarrier, Barrier!Spec

-----------------------------------------------------------------------------
(* The batch row and the trail.                                            *)

\* A branch is fulfilled exactly when the row at its sequence is its success.
RowsMatch ==
    /\ \A b \in Fulfilled :
         Slot(b) \in DOMAIN log /\ log[Slot(b)].kind = "succeeded"
    /\ \A k \in SucceededRows : \E b \in Fulfilled : k = Slot(b)

\* The batch row is written once all the branches have settled, from what they
\* settled to.
BatchClosed ==
    /\ pc = "wipeout" => AllSettled /\ Fulfilled = {}
    /\ batch.status \in {"completed", "partial"} =>
         /\ AllSettled /\ Fulfilled # {}
         /\ batch.completed = Cardinality(Fulfilled)
         /\ batch.status = "completed" <=> Fulfilled = Branch
    /\ batch.status = "error" => AllSettled /\ Fulfilled = {}
    /\ pc \in Early \cup {"branches", "tally"} =>
         batch.status \in {"absent", "pending"}

TallyInv == RowsMatch /\ BatchClosed

LEMMA TallyInit == Init => TallyInv
<1> SUFFICES ASSUME Init PROVE TallyInv
  OBVIOUS
<1>1. Fulfilled = {} /\ SucceededRows = {}
  BY DEF Init, Fulfilled, SucceededRows
<1>2. RowsMatch
  BY <1>1 DEF RowsMatch
<1>3. BatchClosed
  BY DEF Init, BatchClosed
<1> QED BY <1>2, <1>3 DEF TallyInv

\* Once all have settled no branch takes a step.
LEMMA SettledStay ==
    ASSUME AllSettled, NEW b \in Branch
    PROVE  ~BranchStep(b)
<1>1. branch[b] \in Settled
  BY DEF AllSettled
<1> QED
  BY <1>1 DEF BranchStep, BranchAnswers, RecordSucceeded, RecordFailed,
              BranchThrows, Settled

\* Rows that are no branch's success leave RowsMatch alone.
LEMMA OtherRow ==
    ASSUME FanInv, RowsMatch, NEW k \in Nat \ {0}, Free(k),
           NEW kind \in {"source", "failed", "cancelled"}, NEW c \in Nat,
           Insert(k, kind, c), plan' = plan, base' = base,
           Fulfilled' = Fulfilled
    PROVE  RowsMatch'
<1>1. /\ DOMAIN log' = DOMAIN log \cup {k}
      /\ log'[k].kind = kind
      /\ \A j \in DOMAIN log : j # k => log'[j] = log[j]
  <2>1. kind \in {"source", "succeeded", "failed", "cancelled"}
    OBVIOUS
  <2> QED BY <2>1, InsertAdds DEF FanInv
<1>2. SucceededRows' = SucceededRows
  BY <1>1 DEF SucceededRows, Free
<1>3. \A b \in Fulfilled : Slot(b)' = Slot(b)
  BY DEF Slot
<1> QED BY <1>1, <1>2, <1>3 DEF RowsMatch, Free

LEMMA SameRows ==
    ASSUME RowsMatch, log' = log, plan' = plan, base' = base,
           Fulfilled' = Fulfilled
    PROVE  RowsMatch'
BY DEF RowsMatch, SucceededRows, Slot

\* A branch's success adds its row.
LEMMA SuccessRow ==
    ASSUME FanInv, RowsMatch, NEW b \in Branch, RecordSucceeded(b)
    PROVE  RowsMatch'
<1>a. branch \in [Branch -> {"waiting"} \cup InFlight \cup Settled]
  BY DEF FanInv, TypeOK
<1>b. plan' = plan /\ base' = base /\ Branch' = Branch
  BY DEF RecordSucceeded, Branch
<1>1. CASE ~Free(Slot(b))
  <2>1. Fulfilled' = Fulfilled
    BY <1>a, <1>b, <1>1 DEF RecordSucceeded, Fulfilled, Becomes
  <2> QED BY <1>1, <1>b, <2>1, SameRows DEF RecordSucceeded
<1>2. CASE Free(Slot(b))
  <2>1. Insert(Slot(b), "succeeded", b) /\ Becomes(b, "fulfilled")
    BY <1>2 DEF RecordSucceeded
  <2>2. plan.size \in Nat
    BY PlansAssumption DEF FanInv, TypeOK
  <2>3. Slot(b) \in Nat \ {0} /\ b \in Nat
    BY <2>2 DEF RecordSucceeded, Slot, Branch, FanInv, TypeOK, InOrder,
                InFlight
  <2>4. /\ DOMAIN log' = DOMAIN log \cup {Slot(b)}
        /\ log'[Slot(b)].kind = "succeeded"
        /\ \A j \in DOMAIN log : j # Slot(b) => log'[j] = log[j]
    BY <2>1, <2>3, InsertAdds DEF FanInv
  <2>5. Fulfilled' = Fulfilled \cup {b}
    BY <1>a, <1>b, <2>1 DEF Fulfilled, Becomes
  <2>6. \A c \in Branch : Slot(c)' = Slot(c)
    BY <1>b DEF Slot
  <2>7. SucceededRows' = SucceededRows \cup {Slot(b)}
    BY <1>2, <2>4 DEF SucceededRows, Free
  <2>8. \A c \in Fulfilled' :
          Slot(c)' \in DOMAIN log' /\ log'[Slot(c)'].kind = "succeeded"
    BY <1>2, <2>4, <2>5, <2>6 DEF RowsMatch, Free, Fulfilled
  <2>9. \A k \in SucceededRows' : \E c \in Fulfilled' : k = Slot(c)'
    BY <2>5, <2>6, <2>7 DEF RowsMatch, Fulfilled
  <2> QED BY <2>8, <2>9 DEF RowsMatch
<1> QED BY <1>1, <1>2

LEMMA RowsMatchNext ==
    ASSUME FanInv, RowsMatch, [Next]_vars
    PROVE  RowsMatch'
<1>s. plan.size \in Nat
  BY PlansAssumption DEF FanInv, TypeOK
<1>1. CASE RecordSource
  <2>1. Fulfilled' = Fulfilled
    BY <1>1 DEF RecordSource, Fulfilled, Branch
  <2>2. SourceSequence \in Nat \ {0}
    BY DEF SourceSequence
  <2> QED BY <1>1, <2>1, <2>2, OtherRow, SameRows DEF RecordSource
<1>2. CASE FailRow
  <2>1. Fulfilled' = Fulfilled
    BY <1>2 DEF FailRow, Fulfilled, Branch
  <2>2. failSeq \in Nat \ {0}
    BY <1>2 DEF FailRow, FanInv, TypeOK, InOrder
  <2> QED BY <1>2, <2>1, <2>2, OtherRow, SameRows DEF FailRow
<1>3. CASE CancelRecord
  <2>1. Fulfilled' = Fulfilled
    BY <1>3 DEF CancelRecord, Fulfilled, Branch
  <2>2. cancel.seq \in Nat \ {0}
    BY <1>3 DEF CancelRecord, FanInv, TypeOK, InOrder
  <2> QED BY <1>3, <2>1, <2>2, OtherRow, SameRows DEF CancelRecord
<1>4. CASE ReadBase
  <2>1. Fulfilled = {} /\ Fulfilled' = {}
    BY <1>4, <1>s DEF ReadBase, FanInv, InOrder, Early, Fulfilled, Branch
  <2>2. SucceededRows' = SucceededRows
    BY <1>4 DEF ReadBase, SucceededRows
  <2> QED BY <2>1, <2>2 DEF RowsMatch
<1>5. CASE /\ HopStep \/ CancelStep
           /\ ~RecordSource /\ ~FailRow /\ ~CancelRecord /\ ~ReadBase
           /\ ~StartAll
  <2>1. UNCHANGED <<plan, log, branch, base>>
    BY <1>5 DEF HopStep, CheckPlan, OpenBatch, Join, WipeOut, FailSequence,
                FailRun, Tally, Advance, EnqueueHop, PauseAtGate, Throw,
                Backstop, BackstopRejects, CancelStep, CancelDecide,
                CancelSequence
  <2> QED BY <2>1, SameRows DEF Fulfilled, Branch
<1>8. CASE StartAll \/ \E w \in Workers : TakeItem(w)
  <2>1. UNCHANGED <<plan, log, base>> /\ Branch' = Branch
    BY <1>8, StartKeeps DEF Branch
  <2>2. Fulfilled' = Fulfilled
    BY <1>8, <2>1, StartKeeps DEF Fulfilled
  <2> QED BY <2>1, <2>2, SameRows
<1>6. ASSUME NEW b \in Branch, BranchStep(b) PROVE RowsMatch'
  <2>1. CASE RecordSucceeded(b)
    BY <2>1, SuccessRow
  <2>2. CASE ~RecordSucceeded(b)
    <3>1. branch \in [Branch -> {"waiting"} \cup InFlight \cup Settled]
      BY DEF FanInv, TypeOK
    <3>2. UNCHANGED <<plan, base>> /\ Branch' = Branch
      BY <1>6, <2>2 DEF BranchStep, BranchAnswers, RecordFailed,
                        BranchThrows, Branch
    <3>3. branch[b] # "fulfilled"
      BY <1>6, <2>2 DEF BranchStep, BranchAnswers, RecordFailed, BranchThrows
    <3>4. \E x : x # "fulfilled" /\ Becomes(b, x)
      BY <1>6, <2>2 DEF BranchStep, BranchAnswers, RecordFailed, BranchThrows
    <3>5. Fulfilled' = Fulfilled
      BY <3>1, <3>2, <3>3, <3>4 DEF Fulfilled, Becomes
    <3>6. CASE log' = log
      BY <3>2, <3>5, <3>6, SameRows
    <3>7. CASE log' # log
      <4>1. RecordFailed(b) /\ Free(Slot(b)) /\ Insert(Slot(b), "failed", b)
        BY <1>6, <2>2, <3>7 DEF BranchStep, BranchAnswers, RecordFailed,
                                BranchThrows
      <4>2. Slot(b) \in Nat \ {0} /\ b \in Nat
        BY <1>s, <4>1 DEF RecordFailed, Slot, Branch, FanInv, TypeOK, InOrder,
                          InFlight
      <4> QED BY <3>2, <3>5, <4>1, <4>2, OtherRow
    <3> QED BY <3>6, <3>7
  <2> QED BY <2>1, <2>2
<1>7. CASE UNCHANGED vars
  BY <1>7, SameRows DEF vars, Fulfilled, Branch
<1> QED BY <1>1, <1>2, <1>3, <1>4, <1>5, <1>6, <1>7, <1>8 DEF Next

LEMMA BatchClosedNext ==
    ASSUME FanInv, BatchClosed, [Next]_vars
    PROVE  BatchClosed'
<1>1. ASSUME NEW b \in Branch, BranchStep(b) PROVE BatchClosed'
  <2>1. ~AllSettled
    BY <1>1, SettledStay
  <2>2. UNCHANGED <<batch, pc>>
    BY <1>1 DEF BranchStep, BranchAnswers, RecordSucceeded, RecordFailed,
                BranchThrows
  <2> QED BY <2>1, <2>2 DEF BatchClosed
<1>3. CASE StartAll \/ \E w \in Workers : TakeItem(w)
  <2>1. UNCHANGED <<batch, pc>> /\ pc = "branches"
    BY <1>3, StartKeeps
  <2> QED BY <2>1 DEF BatchClosed, Early
<1>2. CASE (HopStep /\ ~StartAll) \/ CancelStep \/ UNCHANGED vars
  <2>1. UNCHANGED <<plan, branch>>
    BY <1>2 DEF HopStep, RecordSource, CheckPlan, OpenBatch, ReadBase, Join,
                WipeOut, FailSequence, FailRow, FailRun, Tally, Advance,
                EnqueueHop, PauseAtGate, Throw, Backstop, BackstopRejects,
                CancelStep, CancelDecide, CancelSequence, CancelRecord, vars
  <2>2. AllSettled' = AllSettled /\ Fulfilled' = Fulfilled /\ Branch' = Branch
    BY <2>1 DEF AllSettled, Fulfilled, Branch
  <2>3. CASE OpenBatch
    BY <2>2, <2>3 DEF OpenBatch, BatchClosed, Early
  <2>4. CASE Join
    <3>1. AllSettled
      BY <2>4, ReturnedSettled DEF Join
    <3> QED BY <2>2, <2>4, <3>1 DEF Join, BatchClosed, Early
  <2>5. CASE WipeOut
    <3>1. batch'.status = "error" /\ pc' \in {"failseq", "failrun"}
      BY <2>5 DEF WipeOut, FanInv, TypeOK
    <3>2. AllSettled /\ Fulfilled = {}
      BY <2>5 DEF WipeOut, BatchClosed
    <3> QED BY <2>2, <3>1, <3>2 DEF BatchClosed, Early
  <2>6. CASE Tally
    <3>1. AllSettled /\ Fulfilled # {}
      BY <2>6 DEF Tally, FanInv, InOrder, Joined
    <3>2. /\ batch'.status = IF Fulfilled = Branch THEN "completed"
                                                   ELSE "partial"
          /\ batch'.completed = Cardinality(Fulfilled)
          /\ pc' = "advance"
      BY <2>6 DEF Tally
    <3> QED BY <2>2, <3>1, <3>2 DEF BatchClosed, Early
  <2>7. CASE ~OpenBatch /\ ~Join /\ ~WipeOut /\ ~Tally
    <3>1. batch' = batch
      BY <1>2, <2>7 DEF HopStep, RecordSource, CheckPlan, ReadBase,
                FailSequence, FailRow, FailRun, Advance, EnqueueHop,
                PauseAtGate, Throw, Backstop, BackstopRejects, CancelStep,
                CancelDecide, CancelSequence, CancelRecord, vars
    <3>2. pc' = "wipeout" => pc = "wipeout"
      BY <1>2, <2>7 DEF HopStep, RecordSource, CheckPlan, ReadBase,
                FailSequence, FailRow, FailRun, Advance, EnqueueHop,
                PauseAtGate, Throw, Backstop, BackstopRejects, CancelStep,
                CancelDecide, CancelSequence, CancelRecord, vars
    <3>3. pc' \in Early \cup {"branches", "tally"} =>
            pc \in Early \cup {"branches", "tally"}
      BY <1>2, <2>7 DEF HopStep, RecordSource, CheckPlan, ReadBase,
                FailSequence, FailRow, FailRun, Advance, EnqueueHop,
                PauseAtGate, Throw, Backstop, BackstopRejects, CancelStep,
                CancelDecide, CancelSequence, CancelRecord, vars, Early
    <3> QED BY <2>2, <3>1, <3>2, <3>3 DEF BatchClosed
  <2> QED BY <2>3, <2>4, <2>5, <2>6, <2>7
<1> QED BY <1>1, <1>2, <1>3 DEF Next

\* As many succeeded rows as fulfilled branches: each has its own sequence.
LEMMA TallyCounts ==
    ASSUME FanInv, TallyInv
    PROVE  BatchTallies
<1>1. IsFiniteSet(Branch) /\ Cardinality(Branch) = plan.size
  <2>1. 1 \in Int /\ plan.size \in Int /\ plan.size >= 0
    BY PlansAssumption DEF FanInv, TypeOK
  <2>2. IsFiniteSet(1..plan.size)
        /\ Cardinality(1..plan.size) = IF 1 > plan.size THEN 0
                                       ELSE plan.size - 1 + 1
    BY <2>1, FS_Interval
  <2> QED BY <2>1, <2>2 DEF Branch
<1>2. IsFiniteSet(Fulfilled) /\ Fulfilled \subseteq Branch
  BY <1>1, FS_Subset DEF Fulfilled
<1>3. Cardinality(SucceededRows) = Cardinality(Fulfilled)
  <2> DEFINE f == [b \in Fulfilled |-> Slot(b)]
  <2>1. \A b \in Fulfilled : Slot(b) \in SucceededRows
    BY DEF TallyInv, RowsMatch, SucceededRows
  <2>2. f \in [Fulfilled -> SucceededRows]
    BY <2>1
  <2>3. \A b, c \in Fulfilled : f[b] = f[c] => b = c
    BY PlansAssumption DEF Slot, Fulfilled, Branch, FanInv, TypeOK
  <2>4. \A k \in SucceededRows : \E b \in Fulfilled : f[b] = k
    BY DEF TallyInv, RowsMatch
  <2>5. f \in Bijection(Fulfilled, SucceededRows)
    BY <2>2, <2>3, <2>4 DEF Bijection, Injection, Surjection, IsInjective
  <2>6. ExistsBijection(Fulfilled, SucceededRows)
    BY <2>5 DEF ExistsBijection
  <2> QED BY <1>2, <2>6, FS_Bijection
<1>4. Fulfilled # {} => Cardinality(Fulfilled) > 0
  BY <1>2, FS_EmptySet, FS_CardinalityType
<1>5. Fulfilled = Branch <=> Cardinality(Fulfilled) = plan.size
  BY <1>1, <1>2, FS_Subset
<1>6. Fulfilled = {} => SucceededRows = {}
  BY DEF TallyInv, RowsMatch
<1> QED BY <1>3, <1>4, <1>5, <1>6 DEF TallyInv, BatchClosed, BatchTallies

\* What the batch row says is what the rows of the trail say, for any number
\* of branches and whichever rows a cancel's event displaces.
THEOREM BatchesTally == Spec => []BatchTallies
<1>1. Init => TallyInv
  BY TallyInit
<1>2. FanInv /\ TallyInv /\ [Next]_vars => TallyInv'
  BY RowsMatchNext, BatchClosedNext DEF TallyInv
<1>3. FanInv /\ TallyInv => BatchTallies
  BY TallyCounts
<1> QED BY <1>1, <1>2, <1>3, FanInvHolds, PTL DEF Spec

-----------------------------------------------------------------------------
(* The workers of a map.                                                   *)

Flying == {b \in Branch : branch[b] \in InFlight}

\* Every branch in flight is held by a worker, each by another one.
LEMMA WorkersLimit ==
    ASSUME FanInv, plan.map
    PROVE  Cardinality(Flying) <= plan.limit
<1>1. plan.size \in Nat /\ plan.size > 0 /\ plan.limit \in Nat \ {0}
  BY PlansAssumption DEF FanInv, TypeOK
<1> DEFINE n == IF plan.limit < plan.size THEN plan.limit ELSE plan.size
<1>2. n \in Nat \ {0} /\ n <= plan.limit /\ Workers = 1..n
  BY <1>1 DEF Workers
<1>3. IsFiniteSet(Workers) /\ Cardinality(Workers) = n
  <2>1. 1 \in Int /\ n \in Int /\ ~(1 > n) /\ n - 1 + 1 = n
    BY <1>2
  <2>2. IsFiniteSet(1..n)
        /\ Cardinality(1..n) = IF 1 > n THEN 0 ELSE n - 1 + 1
    BY <2>1, FS_Interval
  <2> QED BY <1>2, <2>1, <2>2
<1>4. \A b \in Flying : \E w \in Workers : worker[w] = b
  <2> SUFFICES ASSUME NEW b \in Flying PROVE \E w \in Workers : worker[w] = b
    OBVIOUS
  <2>1. b \in Branch /\ branch[b] \in InFlight /\ branch[b] \notin Settled
    BY DEF Flying, InFlight, Settled
  <2>2. b <= cursor
    <3>1. branch[b] # "waiting" /\ b \in Nat /\ cursor \in Nat
      BY <1>1, <2>1 DEF InFlight, Branch, FanInv, TypeOK
    <3> QED BY <2>1, <3>1 DEF FanInv, InOrder
  <2> QED BY <2>1, <2>2 DEF FanInv, Shared
<1> DEFINE Holders == {w \in Workers : worker[w] \in Flying}
           f == [w \in Holders |-> worker[w]]
<1>5. IsFiniteSet(Holders) /\ Cardinality(Holders) <= Cardinality(Workers)
  <2>1. Holders \subseteq Workers
    OBVIOUS
  <2> QED BY <1>3, <2>1, FS_Subset
<1>6. f \in [Holders -> Flying]
  OBVIOUS
<1>7. \A v, w \in Holders : f[v] = f[w] => v = w
  <2>1. \A w \in Holders : worker[w] # 0
    BY <1>1 DEF Flying, Branch
  <2> QED BY <2>1 DEF FanInv, Shared
<1>8. \A b \in Flying : \E w \in Holders : f[w] = b
  BY <1>4
<1>9. f \in Bijection(Holders, Flying)
  BY <1>6, <1>7, <1>8 DEF Bijection, Injection, Surjection, IsInjective
<1>10. ExistsBijection(Holders, Flying)
  BY <1>9 DEF ExistsBijection
<1> HIDE DEF Holders, f
<1>11. Cardinality(Flying) = Cardinality(Holders)
  BY <1>5, <1>10, FS_Bijection
<1>12. Cardinality(Holders) \in Nat
  BY <1>5, FS_CardinalityType
<1> QED BY <1>1, <1>2, <1>3, <1>5, <1>11, <1>12

\* The workers never have more calls in flight than the limit, take no item
\* twice and leave none behind, for any list and any limit.
THEOREM FanOutWithinLimits == Spec => []WithinLimits
<1>1. FanInv => WithinLimits
  <2> SUFFICES ASSUME FanInv, plan.map
               PROVE  /\ Cardinality(Flying) <= plan.limit
                      /\ \A v, w \in Workers :
                           v # w /\ worker[v] # 0 => worker[v] # worker[w]
                      /\ (\A w \in Workers : Returned(w)) => AllSettled
    BY DEF WithinLimits, Flying
  <2>1. Cardinality(Flying) <= plan.limit
    BY WorkersLimit
  <2>2. \A v, w \in Workers : v # w /\ worker[v] # 0 => worker[v] # worker[w]
    BY DEF FanInv, Shared
  <2>3. (\A w \in Workers : Returned(w)) => AllSettled
    BY ReturnedSettled
  <2> QED BY <2>1, <2>2, <2>3
<1> QED BY <1>1, FanInvHolds, PTL
=============================================================================
