-------------------------- MODULE Dispatch_proofs --------------------------
(***************************************************************************)
(* Theorems about Dispatch, for any graphs and targets, any number of      *)
(* slots, any budgets and margins and any bounds.                          *)
(***************************************************************************)
EXTENDS Dispatch, TLAPS

Busy(s) == pc[s] # "idle"

(***************************************************************************)
(* Sequences.                                                              *)
(***************************************************************************)

\* What Append does to each place of the queue.
LEMMA AppendPlaces ==
    ASSUME NEW S, NEW q \in Seq(S), NEW e \in S
    PROVE  /\ Append(q, e) \in Seq(S) /\ Append(q, e) # <<>>
           /\ Len(Append(q, e)) = Len(q) + 1
           /\ \A i \in 1..Len(q) : Append(q, e)[i] = q[i]
           /\ Append(q, e)[Len(q) + 1] = e
  OBVIOUS

\* What taking the first job does to each place of the queue.
LEMMA TailPlaces ==
    ASSUME NEW S, NEW q \in Seq(S), q # <<>>
    PROVE  /\ Tail(q) \in Seq(S) /\ Len(Tail(q)) = Len(q) - 1
           /\ Head(q) \in S /\ Head(q) = q[1] /\ Len(q) \in Nat \ {0}
           /\ \A i \in 1..(Len(q) - 1) : Tail(q)[i] = q[i + 1]
  OBVIOUS

\* The places of a sequence hold elements of its set.
LEMMA Places ==
    ASSUME NEW S, NEW q \in Seq(S)
    PROVE  Len(q) \in Nat /\ \A i \in 1..Len(q) : q[i] \in S
  OBVIOUS

-----------------------------------------------------------------------------
(***************************************************************************)
(* What follows a call: the hop ends, the run goes on to its next hop, or  *)
(* the job goes on with its next branch.                                   *)
(***************************************************************************)

Lands(s) ==
    /\ Busy(s) /\ Release(s) /\ UNCHANGED <<queue, hops>>
    /\ \E status \in Live \cup Over : Ends(at[s], status)

Goes(s) == Busy(s) /\ Advance(s)
Stays(s) == Busy(s) /\ NextBranch(s)

LEMMA SlotMoves ==
    ASSUME NEW s \in Slots, SlotStep(s)
    PROVE  \/ TakeJob(s) \/ PollReturns(s) \/ Lands(s) \/ Goes(s) \/ Stays(s)
           \/ \E g \in Graphs : DispatchToGraph(s, g) \/ CheckDispatchStatus(s, g)
  <1>1. ASSUME Busy(s), Settle(s) PROVE Lands(s)
    <2>1. PICK status \in {"error", "awaiting_approval"}
                          \cup (IF rounds[s] = 0 THEN {"completed"} ELSE {}) :
              Ends(at[s], status)
      BY <1>1 DEF Settle
    <2>2. status \in Live \cup Over
      BY DEF Live, Over
    <2> QED
      BY <1>1, <2>1, <2>2 DEF Settle, Lands
  <1>2. CASE EndHop(s) \/ NextHop(s) \/ FanOut(s)
    BY <1>1, <1>2 DEF EndHop, NextHop, FanOut, Goes, Stays, Busy
  <1>3. CASE HopTimesOut(s)
    <2>1. Busy(s)
      BY <1>3 DEF HopTimesOut, Busy
    <2>2. CASE rounds[s] = 0
      <3>1. /\ Ends(at[s], "error") /\ UNCHANGED <<queue, hops>> /\ Release(s)
            /\ "error" \in Live \cup Over
        BY <1>3, <2>2 DEF HopTimesOut, Over
      <3> QED
        BY <2>1, <3>1 DEF Lands
    <2>3. CASE rounds[s] # 0
      BY <1>1, <1>3, <2>1, <2>3 DEF HopTimesOut, Goes, Stays
    <2> QED
      BY <2>2, <2>3
  <1> QED
    BY <1>2, <1>3 DEF SlotStep

(***************************************************************************)
(* Types.                                                                  *)
(***************************************************************************)

\* A new run's row, and the queue after it.
LEMMA CreateType ==
    ASSUME TypeOK, created < MaxRuns, NEW g \in Graphs,
           NEW source \in Graphs \cup {NoGraph}, NEW depth \in Nat,
           Create(created + 1, g, source, depth)
    PROVE  /\ created' \in 0..MaxRuns /\ created + 1 \in RunId
           /\ runs' \in [RunId -> Row]
           /\ queue' \in Seq(RunId)
  <1>1. created + 1 \in RunId /\ created + 1 \in 0..MaxRuns
    BY DispatchAssumption DEF TypeOK, RunId
  <1>2. PICK gated \in BOOLEAN :
            /\ runs' = [runs EXCEPT ![created + 1] =
                 [graph |-> g, source |-> source, depth |-> depth,
                  status |-> IF gated THEN "awaiting_approval"
                             ELSE "running"]]
            /\ queue' = IF gated THEN queue ELSE Append(queue, created + 1)
            /\ created' = created + 1
    BY DEF Create
  <1>3. [graph |-> g, source |-> source, depth |-> depth,
         status |-> IF gated THEN "awaiting_approval" ELSE "running"] \in Row
    BY DEF Row, Live
  <1>4. runs' \in [RunId -> Row]
    BY <1>1, <1>2, <1>3 DEF TypeOK
  <1>5. queue' \in Seq(RunId)
    BY <1>1, <1>2, AppendPlaces DEF TypeOK
  <1> QED
    BY <1>1, <1>2, <1>4, <1>5

\* The end of a hop.
LEMMA EndsType ==
    ASSUME TypeOK, NEW r \in RunId, NEW status \in Live \cup Over,
           Ends(r, status)
    PROVE  runs' \in [RunId -> Row]
  <1>1. runs[r] \in Row
    BY DEF TypeOK
  <1>2. [runs[r] EXCEPT !.status =
            IF @ = "cancelled" THEN @ ELSE status] \in Row
    BY <1>1 DEF Row
  <1> QED
    BY <1>2 DEF TypeOK, Ends

\* A slot that is released keeps its types.
LEMMA ReleaseType ==
    ASSUME TypeOK, NEW s \in Slots, Release(s)
    PROVE  /\ created' \in 0..MaxRuns /\ headAge' \in Nat
           /\ pc' \in [Slots -> {"idle", "working", "waiting"}]
           /\ at' \in [Slots -> RunId \cup {NoRun}]
           /\ child' \in [Slots -> RunId \cup {NoRun}]
           /\ rounds' \in [Slots -> 0..MaxRounds]
           /\ left' \in [Slots -> 0..HopBudget]
           /\ wait' \in [Slots -> 0..PollBudget]
           /\ answer' \in [Slots -> Answer]
           /\ \A t \in Slots : pc'[t] # "idle" => at'[t] \in RunId
           /\ \A t \in Slots : pc'[t] = "waiting" => child'[t] \in RunId
  <1>1. NoAnswer \in Answer /\ 0 \in 0..HopBudget /\ 0 \in 0..PollBudget
        /\ 0 \in 0..MaxRounds
    BY DispatchAssumption DEF NoAnswer, Answer
  <1> QED
    BY <1>1 DEF TypeOK, Release

LEMMA TypeInit == Init => TypeOK
  <1> SUFFICES ASSUME Init PROVE TypeOK
    OBVIOUS
  <1>1. [graph |-> NoGraph, source |-> NoGraph, depth |-> 0,
         status |-> "absent"] \in Row
    BY DEF Row
  <1>2. runs \in [RunId -> Row]
    BY <1>1 DEF Init
  <1>3. NoAnswer \in Answer /\ 0 \in 0..HopBudget /\ 0 \in 0..PollBudget
        /\ 0 \in 0..MaxRuns /\ 0 \in 0..MaxHops /\ 0 \in 0..MaxRounds
    BY DispatchAssumption DEF NoAnswer, Answer
  <1> QED
    BY <1>2, <1>3 DEF Init, TypeOK

LEMMA TypeStep == TypeOK /\ [Next]_vars => TypeOK'
  <1> SUFFICES ASSUME TypeOK, [Next]_vars PROVE TypeOK'
    OBVIOUS
  <1> USE DispatchAssumption
  <1>0. /\ 0 \in 0..HopBudget /\ 0 \in 0..PollBudget
        /\ NoAnswer \in Answer
    BY DEF NoAnswer, Answer
  <1>1. CASE Tick
    <2>1. \A s \in Slots : Down(left[s]) \in 0..HopBudget
      BY DEF TypeOK, Down
    <2>2. \A s \in Slots : Down(wait[s]) \in 0..PollBudget
      BY DEF TypeOK, Down
    <2>3. left' \in [Slots -> 0..HopBudget]
      BY <1>1, <2>1 DEF Tick
    <2>4. wait' \in [Slots -> 0..PollBudget]
      BY <1>1, <2>2 DEF Tick
    <2>5. headAge' \in Nat
      BY <1>1 DEF Tick, TypeOK
    <2> QED
      BY <1>1, <2>3, <2>4, <2>5 DEF Tick, TypeOK
  <1>2. ASSUME NEW g \in Graphs, StartRun(g) PROVE TypeOK'
    <2>1. /\ created' \in 0..MaxRuns /\ runs' \in [RunId -> Row]
          /\ queue' \in Seq(RunId)
      BY <1>2, CreateType DEF StartRun
    <2> QED
      BY <1>2, <2>1 DEF StartRun, TypeOK
  <1>3. ASSUME NEW s \in Slots, TakeJob(s) PROVE TypeOK'
    <2>1. queue' \in Seq(RunId) /\ Head(queue) \in RunId
      BY <1>3, TailPlaces DEF TakeJob, TypeOK
    <2>2. \A g : Budget(g) \in 0..HopBudget
      BY DEF Budget
    <2>3. CASE runs[Head(queue)].status = "running"
      <3>1. /\ pc' = [pc EXCEPT ![s] = "working"]
            /\ at' = [at EXCEPT ![s] = Head(queue)]
            /\ left' = [left EXCEPT ![s] = Budget(runs[Head(queue)].graph)]
        BY <1>3, <2>3 DEF TakeJob
      <3>2. left' \in [Slots -> 0..HopBudget]
        BY <3>1, <2>2 DEF TypeOK
      <3> QED
        BY <1>3, <2>1, <3>1, <3>2 DEF TakeJob, TypeOK
    <2>4. CASE runs[Head(queue)].status # "running"
      BY <1>3, <2>1, <2>4 DEF TakeJob, TypeOK
    <2> QED
      BY <2>3, <2>4
  <1>4. ASSUME NEW s \in Slots, PollReturns(s) PROVE TypeOK'
    <2>1. child[s] \in RunId
      BY <1>4 DEF PollReturns, TypeOK
    <2>2. Report(child[s]) \in Answer
      BY <2>1, <1>0 DEF Report, Answer
    <2>3. answer' \in [Slots -> Answer]
      BY <1>0, <1>4, <2>2 DEF PollReturns, TypeOK
    <2> QED
      BY <1>0, <1>4, <2>3 DEF PollReturns, TypeOK
  <1>5. ASSUME NEW s \in Slots, Lands(s) PROVE TypeOK'
    <2>1. at[s] \in RunId
      BY <1>5 DEF Lands, Busy, TypeOK
    <2>2. runs' \in [RunId -> Row]
      BY <1>5, <2>1, EndsType DEF Lands
    <2>3. queue' \in Seq(RunId) /\ hops' \in 0..MaxHops /\ Release(s)
      BY <1>5 DEF Lands, TypeOK
    <2> QED
      BY <2>2, <2>3, ReleaseType DEF TypeOK
  <1>6. ASSUME NEW s \in Slots, Goes(s) PROVE TypeOK'
    <2>1. at[s] \in RunId
      BY <1>6 DEF Goes, Busy, TypeOK
    <2>2. queue' \in Seq(RunId)
      BY <1>6, <2>1, AppendPlaces DEF Goes, Advance, TypeOK
    <2>3. runs' \in [RunId -> Row] /\ hops' \in 0..MaxHops /\ Release(s)
      BY <1>6 DEF Goes, Advance, TypeOK
    <2> QED
      BY <2>2, <2>3, ReleaseType DEF TypeOK
  <1>7. ASSUME NEW s \in Slots, Stays(s) PROVE TypeOK'
    <2>1. at[s] \in RunId /\ Budget(GraphOf(s)) \in 0..HopBudget
      BY <1>7 DEF Stays, Busy, TypeOK, Budget
    <2>2. rounds' \in [Slots -> 0..MaxRounds] /\ hops' \in 0..MaxHops
      BY <1>7 DEF Stays, NextBranch, TypeOK
    <2>3. /\ pc' = [pc EXCEPT ![s] = "working"]
          /\ child' = [child EXCEPT ![s] = NoRun]
          /\ left' = [left EXCEPT ![s] = Budget(GraphOf(s))]
          /\ wait' = [wait EXCEPT ![s] = 0]
          /\ answer' = [answer EXCEPT ![s] = NoAnswer]
          /\ UNCHANGED <<created, runs, queue, at, headAge>>
      BY <1>7 DEF Stays, NextBranch
    <2> QED
      BY <1>0, <2>1, <2>2, <2>3 DEF TypeOK
  <1>8. ASSUME NEW s \in Slots, NEW g \in Graphs, DispatchToGraph(s, g)
        PROVE  TypeOK'
    <2>1. at[s] \in RunId /\ runs[at[s]] \in Row /\ left[s] \in 0..HopBudget
      BY <1>8 DEF DispatchToGraph, TypeOK
    <2>2. /\ runs[at[s]].depth + 1 \in Nat
          /\ GraphOf(s) \in Graphs \cup {NoGraph}
      BY <2>1 DEF Row, GraphOf
    <2>3. /\ created < MaxRuns
          /\ Create(created + 1, g, GraphOf(s), runs[at[s]].depth + 1)
      BY <1>8 DEF DispatchToGraph
    <2>4. /\ created' \in 0..MaxRuns /\ runs' \in [RunId -> Row]
          /\ queue' \in Seq(RunId) /\ created + 1 \in RunId
      BY <2>2, <2>3, CreateType
    <2>5. WaitBudget(s) \in 0..PollBudget
      BY <2>1 DEF WaitBudget, Least
    <2>6. /\ child' = [child EXCEPT ![s] = created + 1]
          /\ wait' = [wait EXCEPT ![s] = WaitBudget(s)]
          /\ pc' = [pc EXCEPT ![s] = "waiting"]
          /\ UNCHANGED <<at, rounds, left, answer, hops, headAge>>
      BY <1>8 DEF DispatchToGraph
    <2> QED
      BY <2>1, <2>4, <2>5, <2>6 DEF TypeOK
  <1>9. ASSUME NEW s \in Slots, NEW g \in Graphs, CheckDispatchStatus(s, g)
        PROVE  TypeOK'
    <2>1. PICK r \in DispatchedInto(g, GraphOf(s)) :
              answer' = [answer EXCEPT ![s] = Report(r)]
      BY <1>9 DEF CheckDispatchStatus
    <2>2. r \in RunId
      BY DEF DispatchedInto, TypeOK, RunId
    <2>3. Report(r) \in Answer
      BY <2>2, <1>0 DEF Report, Answer
    <2> QED
      BY <1>9, <2>1, <2>3 DEF CheckDispatchStatus, TypeOK
  <1>10. ASSUME NEW r \in RunId, Approve(r) PROVE TypeOK'
    <2>1. [runs[r] EXCEPT !.status = "running"] \in Row
      <3>1. runs[r] \in Row
        BY DEF TypeOK
      <3> QED
        BY <3>1 DEF Row, Live
    <2>2. runs' \in [RunId -> Row]
      BY <1>10, <2>1 DEF Approve, TypeOK
    <2>3. queue' \in Seq(RunId)
      BY <1>10, AppendPlaces DEF Approve, TypeOK
    <2> QED
      BY <1>10, <2>2, <2>3 DEF Approve, TypeOK
  <1>11. ASSUME NEW r \in RunId, Cancel(r) PROVE TypeOK'
    <2>1. [runs[r] EXCEPT !.status = "cancelled"] \in Row
      <3>1. runs[r] \in Row
        BY DEF TypeOK
      <3> QED
        BY <3>1 DEF Row, Over
    <2>2. runs' \in [RunId -> Row]
      BY <1>11, <2>1 DEF Cancel, TypeOK
    <2> QED
      BY <1>11, <2>2 DEF Cancel, TypeOK
  <1>12. CASE UNCHANGED vars
    BY <1>12 DEF vars, TypeOK
  <1> QED
    BY <1>1, <1>2, <1>3, <1>4, <1>5, <1>6, <1>7, <1>8, <1>9, <1>10, <1>11,
       <1>12, SlotMoves DEF Next

\* Every variable keeps its type, whatever the graphs dispatch to.
THEOREM TypeCorrect == Spec => []TypeOK
  BY TypeInit, TypeStep, PTL DEF Spec

-----------------------------------------------------------------------------
(***************************************************************************)
(* Time.                                                                   *)
(***************************************************************************)

LEMMA InTimeStep == TypeOK /\ WaitEndsInTime /\ [Next]_vars => WaitEndsInTime'
  <1> SUFFICES ASSUME TypeOK, WaitEndsInTime, [Next]_vars,
                      NEW s \in Slots, pc'[s] = "waiting"
               PROVE  wait'[s] < left'[s]
    BY DEF WaitEndsInTime
  <1> USE DispatchAssumption
  <1>0. /\ left[s] \in 0..HopBudget /\ wait[s] \in 0..PollBudget
        /\ pc[s] = "waiting" => wait[s] < left[s]
    BY DEF TypeOK, WaitEndsInTime
  <1>1. CASE Tick
    <2>1. pc[s] = "waiting" /\ wait[s] # 0 /\ left[s] > 0
      BY <1>1 DEF Tick, PollDue
    <2>2. wait'[s] = wait[s] - 1 /\ left'[s] = left[s] - 1
      BY <1>1, <2>1 DEF Tick, Down, TypeOK
    <2> QED
      BY <1>0, <2>1, <2>2
  <1>2. ASSUME NEW t \in Slots, NEW g \in Graphs, DispatchToGraph(t, g)
        PROVE  wait'[s] < left'[s]
    <2>1. CASE t = s
      <3>1. wait'[s] = WaitBudget(s) /\ left'[s] = left[s] /\ left[s] > 0
        BY <1>2, <2>1 DEF DispatchToGraph, TypeOK
      <3> QED
        BY <1>0, <3>1 DEF WaitBudget, Least
    <2>2. CASE t # s
      BY <1>0, <1>2, <2>2 DEF DispatchToGraph, TypeOK
    <2> QED
      BY <2>1, <2>2
  <1>3. ASSUME NEW t \in Slots, TakeJob(t) PROVE wait'[s] < left'[s]
    <2>1. t # s /\ pc[s] = "waiting"
      BY <1>3 DEF TakeJob, TypeOK
    <2> QED
      BY <1>0, <1>3, <2>1 DEF TakeJob, TypeOK
  <1>4. ASSUME NEW t \in Slots, PollReturns(t) PROVE wait'[s] < left'[s]
    BY <1>0, <1>4 DEF PollReturns, TypeOK
  <1>5. ASSUME NEW t \in Slots, Release(t) \/ NextBranch(t)
        PROVE  wait'[s] < left'[s]
    <2>1. t # s /\ pc[s] = "waiting"
      BY <1>5 DEF Release, NextBranch, TypeOK
    <2> QED
      BY <1>0, <1>5, <2>1 DEF Release, NextBranch, TypeOK
  <1>6. CASE pc' = pc /\ left' = left /\ wait' = wait
    BY <1>0, <1>6
  <1> QED
    BY <1>1, <1>2, <1>3, <1>4, <1>5, <1>6, SlotMoves
       DEF Next, StartRun, Lands, Goes, Advance, Stays,
           CheckDispatchStatus, Approve, Cancel, vars

\* A wait ends before its hop's deadline, whatever the budgets and however
\* many calls the hop makes.
THEOREM WaitsEnd == Spec => []WaitEndsInTime
  <1>1. Init => WaitEndsInTime
    BY DEF Init, WaitEndsInTime
  <1> QED
    BY <1>1, InTimeStep, TypeCorrect, PTL DEF Spec

\* The ticks that n calls may still take.
Budgets(n) == n * HopBudget

LEMMA BudgetsAdd ==
    ASSUME NEW n \in Nat
    PROVE  /\ Budgets(n) \in Nat
           /\ Budgets(n + 1) = Budgets(n) + HopBudget
           /\ \A m \in Nat : m <= n => Budgets(m) <= Budgets(n)
  <1> USE DispatchAssumption
  <1>1. \A m \in Nat : m <= n => m * HopBudget <= n * HopBudget
    <2> TAKE m \in Nat
    <2>1. m <= n => (n - m) * HopBudget >= 0
      OBVIOUS
    <2>2. (n - m) * HopBudget = n * HopBudget - m * HopBudget
      OBVIOUS
    <2>3. m * HopBudget \in Int /\ n * HopBudget \in Int
      OBVIOUS
    <2> QED
      BY <2>1, <2>2, <2>3
  <1>2. n * HopBudget \in Nat
    OBVIOUS
  <1>3. (n + 1) * HopBudget = n * HopBudget + HopBudget
    OBVIOUS
  <1> QED
    BY <1>1, <1>2, <1>3 DEF Budgets

\* The calls that a slot's job has left, the present one's time and the wait of
\* the first job make up what one job may take: the slots count down together
\* while the job waits.
Due(s) == left[s] + Budgets(MaxRounds - rounds[s])

Ages ==
    /\ headAge <= Budgets(1 + MaxRounds)
    /\ queue = <<>> => headAge = 0
    /\ \A s \in Slots : Busy(s) => Due(s) + headAge <= Budgets(1 + MaxRounds)

\* A full job is due in that time.
LEMMA DueBound ==
    ASSUME NEW l \in 0..HopBudget, NEW k \in 0..MaxRounds
    PROVE  /\ Budgets(MaxRounds - k) \in Nat
           /\ Budgets(1 + MaxRounds) \in Nat
           /\ l + Budgets(MaxRounds - k) \in Nat
           /\ l + Budgets(MaxRounds - k) <= Budgets(1 + MaxRounds)
  <1> USE DispatchAssumption
  <1>1. /\ l \in Nat /\ l <= HopBudget
        /\ MaxRounds - k \in Nat /\ MaxRounds - k <= MaxRounds
    OBVIOUS
  <1>2. /\ Budgets(MaxRounds) \in Nat
        /\ Budgets(MaxRounds + 1) = Budgets(MaxRounds) + HopBudget
        /\ Budgets(MaxRounds - k) <= Budgets(MaxRounds)
    BY <1>1, BudgetsAdd
  <1>3. Budgets(MaxRounds - k) \in Nat
    BY <1>1, BudgetsAdd
  <1>4. 1 + MaxRounds = MaxRounds + 1
    OBVIOUS
  <1> QED
    BY <1>1, <1>2, <1>3, <1>4

LEMMA AgesStep == TypeOK /\ Ages /\ [Next]_vars => Ages'
  <1> SUFFICES ASSUME TypeOK, Ages, [Next]_vars PROVE Ages'
    OBVIOUS
  <1> USE DispatchAssumption DEF Busy
  <1>000. Budgets(1 + MaxRounds) \in Nat
    <2>1. 1 + MaxRounds \in Nat
      OBVIOUS
    <2> QED
      BY <2>1, BudgetsAdd
  <1>0. /\ headAge \in Nat /\ queue \in Seq(RunId)
        /\ Budgets(1 + MaxRounds) \in Nat
        /\ \A s \in Slots : /\ left[s] \in Nat
                             /\ Budgets(MaxRounds - rounds[s]) \in Nat
                             /\ Due(s) \in Nat
                             /\ Due(s) <= Budgets(1 + MaxRounds)
    <2>1. \A s \in Slots : left[s] \in 0..HopBudget /\ rounds[s] \in 0..MaxRounds
      BY DEF TypeOK
    <2> QED
      BY <1>000, <2>1, DueBound DEF TypeOK, Due
  <1>01. \A s \in Slots : Due(s)' \in Nat /\ Due(s)' <= Budgets(1 + MaxRounds)
    <2>1. \A s \in Slots :
              left'[s] \in 0..HopBudget /\ rounds'[s] \in 0..MaxRounds
      BY TypeStep DEF TypeOK
    <2>2. \A s \in Slots :
              Due(s)' = left'[s] + Budgets(MaxRounds - rounds'[s])
      BY DEF Due, Budgets
    <2> QED
      BY <2>1, <2>2, DueBound
  <1>1. CASE Tick
    <2>1. \A s \in Slots : Busy(s) => left'[s] = left[s] - 1 /\ left[s] > 0
      BY <1>1 DEF Tick, Down, TypeOK
    <2>4. \A s \in Slots : Busy(s) => Due(s)' = Due(s) - 1 /\ Due(s) > 0
      BY <1>0, <1>1, <2>1 DEF Tick, Due, Budgets
    <2>2. CASE queue = <<>>
      <3>1. headAge' = 0 /\ queue' = <<>> /\ pc' = pc
        BY <1>1, <2>2 DEF Tick
      <3> QED
        BY <1>0, <2>4, <3>1 DEF Ages
    <2>3. CASE queue # <<>>
      <3>1. headAge' = headAge + 1 /\ queue' # <<>> /\ pc' = pc
        BY <1>1, <2>3 DEF Tick
      <3>2. PICK s \in Slots : Busy(s)
        BY <1>1 DEF Tick
      <3>3. Due(s) > 0 /\ Due(s) + headAge <= Budgets(1 + MaxRounds)
        BY <2>4, <3>2 DEF Ages
      <3>4. headAge' <= Budgets(1 + MaxRounds)
        BY <1>0, <3>1, <3>3
      <3>5. \A t \in Slots : Busy(t) =>
                Due(t)' + headAge' <= Budgets(1 + MaxRounds)
        BY <1>0, <2>4, <3>1 DEF Ages
      <3> QED
        BY <3>1, <3>4, <3>5 DEF Ages
    <2> QED
      BY <2>2, <2>3
  <1>2. ASSUME NEW s \in Slots, TakeJob(s) PROVE Ages'
    <2>1. headAge' = 0
      BY <1>2 DEF TakeJob
    <2> QED
      BY <1>0, <1>01, <2>1 DEF Ages
  <1>3. ASSUME NEW r \in RunId, queue' = queue \/ queue' = Append(queue, r),
               headAge' = headAge,
               \A t \in Slots : pc'[t] # "idle" =>
                   pc[t] # "idle" /\ Due(t)' <= Due(t)
        PROVE  Ages'
    <2>1. queue' = <<>> => queue = <<>>
      BY <1>0, <1>3, AppendPlaces
    <2> QED
      BY <1>0, <1>01, <1>3, <2>1 DEF Ages
  <1>4. ASSUME NEW s \in Slots, Release(s)
        PROVE  /\ headAge' = headAge
               /\ \A t \in Slots : pc'[t] # "idle" =>
                      pc[t] # "idle" /\ Due(t)' <= Due(t)
    <2>1. \A t \in Slots : pc'[t] # "idle" =>
              /\ pc[t] # "idle" /\ left'[t] = left[t]
              /\ rounds'[t] = rounds[t]
      BY <1>4 DEF Release, TypeOK
    <2> QED
      BY <1>0, <1>4, <2>1 DEF Due, Budgets, Release
  <1>5. ASSUME NEW s \in Slots, Lands(s) PROVE Ages'
    <2>1. at[s] \in RunId /\ queue' = queue /\ Release(s)
      BY <1>5 DEF Lands, TypeOK
    <2> QED
      BY <1>3, <1>4, <2>1
  <1>6. ASSUME NEW s \in Slots, Goes(s) PROVE Ages'
    <2>1. at[s] \in RunId /\ queue' = Append(queue, at[s]) /\ Release(s)
      BY <1>6 DEF Goes, Advance, TypeOK
    <2> QED
      BY <1>3, <1>4, <2>1
  <1>13. ASSUME NEW s \in Slots, Stays(s) PROVE Ages'
    <2>1. /\ at[s] \in RunId /\ queue' = queue /\ headAge' = headAge
          /\ rounds[s] < MaxRounds /\ rounds[s] \in 0..MaxRounds
          /\ rounds'[s] = rounds[s] + 1 /\ pc[s] # "idle"
          /\ left'[s] = Budget(GraphOf(s))
          /\ \A t \in Slots \ {s} : /\ left'[t] = left[t]
                                    /\ rounds'[t] = rounds[t]
                                    /\ pc'[t] = pc[t]
      BY <1>13 DEF Stays, NextBranch, TypeOK
    <2>2. Budget(GraphOf(s)) \in Nat /\ Budget(GraphOf(s)) <= HopBudget
      BY DEF Budget
    <2> DEFINE n == MaxRounds - rounds'[s]
    <2>3. n \in Nat /\ MaxRounds - rounds[s] = n + 1
      BY <2>1
    <2>4. Budgets(n + 1) = Budgets(n) + HopBudget /\ Budgets(n) \in Nat
      BY <2>3, BudgetsAdd
    <2>5. Due(s) = left[s] + Budgets(n) + HopBudget
      BY <1>0, <2>3, <2>4 DEF Due
    <2>6. Due(s)' = left'[s] + Budgets(n)
      BY DEF Due, Budgets
    <2>7. Due(s)' <= Due(s)
      BY <1>0, <2>1, <2>2, <2>4, <2>5, <2>6
    <2>8. \A t \in Slots \ {s} : Due(t)' = Due(t)
      BY <2>1 DEF Due, Budgets
    <2>9. \A t \in Slots : pc'[t] # "idle" =>
              pc[t] # "idle" /\ Due(t)' <= Due(t)
      BY <1>0, <2>1, <2>7, <2>8
    <2> QED
      BY <1>3, <2>1, <2>9
  <1>7. ASSUME NEW g \in Graphs, StartRun(g) PROVE Ages'
    <2>1. created + 1 \in RunId
      BY <1>7 DEF StartRun, TypeOK, RunId
    <2>2. queue' = queue \/ queue' = Append(queue, created + 1)
      BY <1>7 DEF StartRun, Create
    <2>3. /\ headAge' = headAge
          /\ \A t \in Slots : pc'[t] = pc[t] /\ Due(t)' <= Due(t)
      BY <1>0, <1>7 DEF StartRun, Due, Budgets
    <2> QED
      BY <1>3, <2>1, <2>2, <2>3
  <1>8. ASSUME NEW s \in Slots, NEW g \in Graphs, DispatchToGraph(s, g)
        PROVE  Ages'
    <2>1. created + 1 \in RunId
      BY <1>8 DEF DispatchToGraph, TypeOK, RunId
    <2>2. queue' = queue \/ queue' = Append(queue, created + 1)
      BY <1>8 DEF DispatchToGraph, Create
    <2>3. /\ headAge' = headAge
          /\ \A t \in Slots : (pc'[t] # "idle" => pc[t] # "idle")
                               /\ Due(t)' <= Due(t)
      <3>1. /\ left' = left /\ rounds' = rounds /\ pc[s] = "working"
            /\ pc' = [pc EXCEPT ![s] = "waiting"] /\ headAge' = headAge
        BY <1>8 DEF DispatchToGraph
      <3>2. \A t \in Slots : Due(t)' = Due(t)
        BY <3>1 DEF Due, Budgets
      <3>3. \A t \in Slots : pc'[t] # "idle" => pc[t] # "idle"
        BY <3>1 DEF TypeOK
      <3>4. \A t \in Slots : Due(t)' <= Due(t)
        BY <1>0, <3>2
      <3> QED
        BY <3>1, <3>3, <3>4
    <2> QED
      BY <1>3, <2>1, <2>2, <2>3
  <1>9. ASSUME NEW s \in Slots, PollReturns(s) PROVE Ages'
    <2>1. child[s] \in RunId
      BY <1>9 DEF PollReturns, TypeOK
    <2>2. /\ headAge' = headAge /\ queue' = queue
          /\ \A t \in Slots : (pc'[t] # "idle" => pc[t] # "idle")
                               /\ Due(t)' <= Due(t)
      <3>1. /\ left' = left /\ rounds' = rounds /\ pc[s] = "waiting"
            /\ pc' = [pc EXCEPT ![s] = "working"]
            /\ headAge' = headAge /\ queue' = queue
        BY <1>9 DEF PollReturns
      <3>2. \A t \in Slots : Due(t)' = Due(t)
        BY <3>1 DEF Due, Budgets
      <3>3. \A t \in Slots : pc'[t] # "idle" => pc[t] # "idle"
        BY <3>1 DEF TypeOK
      <3>4. \A t \in Slots : Due(t)' <= Due(t)
        BY <1>0, <3>2
      <3> QED
        BY <3>1, <3>3, <3>4
    <2> QED
      BY <1>3, <2>1, <2>2
  <1>10. ASSUME NEW s \in Slots, NEW g \in Graphs, CheckDispatchStatus(s, g)
         PROVE  Ages'
    BY <1>10 DEF CheckDispatchStatus, Ages, Due, Budgets
  <1>11. ASSUME NEW r \in RunId, Approve(r) \/ Cancel(r) PROVE Ages'
    <2>1. /\ headAge' = headAge
          /\ queue' = queue \/ queue' = Append(queue, r)
          /\ \A t \in Slots : pc'[t] = pc[t] /\ Due(t)' <= Due(t)
      BY <1>0, <1>11 DEF Approve, Cancel, Due, Budgets
    <2> QED
      BY <1>3, <2>1
  <1>12. CASE UNCHANGED vars
    BY <1>12 DEF vars, Ages, Due, Budgets
  <1> QED
    BY <1>1, <1>2, <1>5, <1>6, <1>7, <1>8, <1>9, <1>10, <1>11, <1>12, <1>13,
       SlotMoves DEF Next

\* However many hops hold their slots for runs behind them in the queue, the
\* first job is taken within the time one job may hold a slot: a budget for each
\* of its calls.
THEOREM SlotsFree == Spec => []SlotsComeFree
  <1>1. Init => Ages
    <2>1. 1 + MaxRounds \in Nat
      BY DispatchAssumption
    <2>2. Budgets(1 + MaxRounds) \in Nat
      BY <2>1, BudgetsAdd
    <2> QED
      BY <2>2 DEF Init, Ages, Busy
  <1>2. Ages => SlotsComeFree
    BY DEF Ages, Budgets, SlotsComeFree
  <1> QED
    BY <1>1, <1>2, AgesStep, TypeCorrect, PTL DEF Spec

-----------------------------------------------------------------------------
(***************************************************************************)
(* Chains of dispatches.                                                   *)
(***************************************************************************)

\* A step creates runs at most: the graph, the source and the depth of a row
\* never change.
LEMMA RowsStay ==
    ASSUME TypeOK, [Next]_vars
    PROVE  /\ created' >= created /\ created \in Nat /\ created' \in Nat
           /\ \A r \in RunId : r <= created =>
                  /\ runs'[r].graph = runs[r].graph
                  /\ runs'[r].source = runs[r].source
                  /\ runs'[r].depth = runs[r].depth
  <1> USE DispatchAssumption
  <1>0. created \in 0..MaxRuns /\ created' \in 0..MaxRuns
    BY TypeStep DEF TypeOK
  <1>1. ASSUME NEW g \in Graphs, NEW source, NEW depth,
               Create(created + 1, g, source, depth), created < MaxRuns
        PROVE  /\ created' = created + 1
               /\ \A r \in RunId : r <= created => runs'[r] = runs[r]
    BY <1>0, <1>1 DEF Create, TypeOK
  <1>2. ASSUME NEW r \in RunId, NEW status,
               runs' = [runs EXCEPT ![r].status = status],
               created' = created
        PROVE  \A q \in RunId :
                   /\ runs'[q].graph = runs[q].graph
                   /\ runs'[q].source = runs[q].source
                   /\ runs'[q].depth = runs[q].depth
    <2> TAKE q \in RunId
    <2>1. runs[r] \in Row /\ runs[q] \in Row
      BY DEF TypeOK
    <2>2. runs'[q] = IF q = r THEN [runs[r] EXCEPT !.status = status]
                     ELSE runs[q]
      BY <1>2 DEF TypeOK
    <2> QED
      BY <2>1, <2>2 DEF Row
  <1>3. ASSUME NEW s \in Slots, SlotStep(s)
        PROVE  /\ created' >= created
               /\ \A r \in RunId : r <= created =>
                      /\ runs'[r].graph = runs[r].graph
                      /\ runs'[r].source = runs[r].source
                      /\ runs'[r].depth = runs[r].depth
    <2>1. ASSUME NEW g \in Graphs, DispatchToGraph(s, g)
          PROVE  /\ created' = created + 1
                 /\ \A r \in RunId : r <= created => runs'[r] = runs[r]
      BY <1>1, <2>1 DEF DispatchToGraph
    <2>2. CASE Lands(s)
      <3>1. at[s] \in RunId /\ created' = created
        BY <2>2 DEF Lands, Busy, Release, TypeOK
      <3>2. PICK status : Ends(at[s], status)
        BY <2>2 DEF Lands
      <3>3. runs' = [runs EXCEPT ![at[s]].status =
                        IF runs[at[s]].status = "cancelled"
                        THEN runs[at[s]].status ELSE status]
        BY <3>2 DEF Ends
      <3> QED
        BY <1>0, <1>2, <3>1, <3>3
    <2>3. CASE \/ TakeJob(s) \/ PollReturns(s) \/ Goes(s) \/ Stays(s)
               \/ \E g \in Graphs : CheckDispatchStatus(s, g)
      BY <1>0, <2>3 DEF TakeJob, PollReturns, Goes, Advance, Stays, NextBranch,
                        Release, CheckDispatchStatus
    <2> QED
      BY <1>0, <1>3, <2>1, <2>2, <2>3, SlotMoves
  <1>4. ASSUME NEW r \in RunId, Approve(r) \/ Cancel(r)
        PROVE  /\ created' = created
               /\ \A q \in RunId :
                      /\ runs'[q].graph = runs[q].graph
                      /\ runs'[q].source = runs[q].source
                      /\ runs'[q].depth = runs[q].depth
    BY <1>2, <1>4 DEF Approve, Cancel
  <1>5. ASSUME NEW g \in Graphs, StartRun(g)
        PROVE  /\ created' = created + 1
               /\ \A r \in RunId : r <= created => runs'[r] = runs[r]
    BY <1>1, <1>5 DEF StartRun
  <1>6. CASE Tick \/ UNCHANGED vars
    BY <1>0, <1>6 DEF Tick, vars
  <1> QED
    BY <1>0, <1>3, <1>4, <1>5, <1>6 DEF Next

\* Runs are created in order, and what the slots and the queue refer to has
\* been created.
Ids ==
    /\ \A s \in Slots : Busy(s) => at[s] <= created
    /\ \A s \in Slots : pc[s] = "waiting" => child[s] <= created
    /\ \A i \in 1..Len(queue) : queue[i] <= created

Existing == \A r \in RunId : runs[r].status # "absent" => r <= created

LEMMA ExistingStep == TypeOK /\ Ids /\ Existing /\ [Next]_vars => Existing'
  <1> SUFFICES ASSUME TypeOK, Ids, Existing, [Next]_vars,
                      NEW r \in RunId, runs'[r].status # "absent"
               PROVE  r <= created'
    BY DEF Existing
  <1>0. created' >= created /\ created \in Nat /\ created' \in Nat /\ r \in Nat
    BY RowsStay DEF RunId
  <1>1. ASSUME NEW g \in Graphs, NEW source, NEW depth,
               Create(created + 1, g, source, depth)
        PROVE  created' = created + 1
               /\ \A q \in RunId : q # created + 1 => runs'[q] = runs[q]
    BY <1>0, <1>1 DEF Create, TypeOK
  <1>2. ASSUME NEW q \in RunId, NEW status, q <= created,
               runs' = [runs EXCEPT ![q].status = status]
        PROVE  r <= created'
    BY <1>0, <1>2 DEF TypeOK, Existing
  <1>3. ASSUME NEW s \in Slots, Lands(s)
        PROVE  r <= created'
    <2>1. at[s] \in RunId /\ at[s] <= created
      BY <1>3 DEF Lands, TypeOK, Ids, Busy
    <2>2. PICK status : Ends(at[s], status)
      BY <1>3 DEF Lands
    <2>3. runs' = [runs EXCEPT ![at[s]].status =
                      IF runs[at[s]].status = "cancelled"
                      THEN runs[at[s]].status ELSE status]
      BY <2>2 DEF Ends
    <2> QED
      BY <1>2, <2>1, <2>3
  <1>4. ASSUME NEW q \in RunId, Approve(q) \/ Cancel(q) PROVE r <= created'
    <2>1. q <= created
      BY <1>4 DEF Approve, Cancel, Existing, Live
    <2> QED
      BY <1>2, <1>4, <2>1 DEF Approve, Cancel
  <1>5. ASSUME NEW g \in Graphs, NEW source, NEW depth,
               Create(created + 1, g, source, depth)
        PROVE  r <= created'
    BY <1>0, <1>1, <1>5 DEF Existing
  <1>6. CASE runs' = runs
    BY <1>0, <1>6 DEF Existing
  <1> QED
    BY <1>3, <1>4, <1>5, <1>6, SlotMoves
       DEF Next, Tick, StartRun, TakeJob, PollReturns, Goes, Advance, Stays,
           NextBranch, DispatchToGraph, CheckDispatchStatus, vars

LEMMA IdsStep == TypeOK /\ Ids /\ Existing /\ [Next]_vars => Ids'
  <1> SUFFICES ASSUME TypeOK, Ids, Existing, [Next]_vars PROVE Ids'
    OBVIOUS
  <1> USE DispatchAssumption DEF Busy
  <1>0. /\ created' >= created /\ created \in Nat /\ created' \in Nat
        /\ queue \in Seq(RunId) /\ RunId \subseteq Nat
    BY RowsStay DEF TypeOK, RunId
  <1>20. /\ Len(queue) \in Nat
         /\ \A i \in 1..Len(queue) :
                queue[i] \in Nat /\ queue[i] <= created
    <2>1. /\ Len(queue) \in Nat
          /\ \A i \in 1..Len(queue) : queue[i] \in RunId
      BY <1>0, Places
    <2> QED
      BY <1>0, <2>1 DEF Ids
  <1>2. ASSUME NEW r \in RunId, r <= created',
               queue' = queue \/ queue' = Append(queue, r)
        PROVE  \A i \in 1..Len(queue') : queue'[i] <= created'
    <2>2. CASE queue' = queue
      BY <1>0, <1>20, <2>2
    <2>3. CASE queue' = Append(queue, r)
      <3>1. /\ Len(queue') = Len(queue) + 1 /\ queue'[Len(queue) + 1] = r
            /\ \A i \in 1..Len(queue) : queue'[i] = queue[i]
            /\ Len(queue) \in Nat
        BY <1>0, <2>3, AppendPlaces
      <3> QED
        BY <1>0, <1>2, <1>20, <3>1
    <2> QED
      BY <1>2, <2>2, <2>3
  <1>3. ASSUME NEW s \in Slots, TakeJob(s) PROVE Ids'
    <2>1. /\ Len(queue') = Len(queue) - 1
          /\ Head(queue) = queue[1] /\ Len(queue) \in Nat \ {0}
          /\ \A i \in 1..(Len(queue) - 1) : queue'[i] = queue[i + 1]
          /\ Head(queue) \in RunId
      BY <1>0, <1>3, TailPlaces DEF TakeJob
    <2>2. \A i \in 1..Len(queue') : queue'[i] <= created'
      <3> TAKE i \in 1..Len(queue')
      <3>1. i + 1 \in 1..Len(queue) /\ queue'[i] = queue[i + 1]
        BY <2>1
      <3>2. queue[i + 1] <= created /\ queue[i + 1] \in Nat
        BY <1>20, <3>1
      <3> QED
        BY <1>0, <1>3, <3>1, <3>2 DEF TakeJob
    <2>3. Head(queue) <= created /\ created' = created
      BY <1>3, <2>1 DEF Ids, TakeJob
    <2>4. \A t \in Slots : Busy(t)' => at'[t] <= created'
      <3>1. CASE runs[Head(queue)].status = "running"
        <4>1. /\ pc' = [pc EXCEPT ![s] = "working"]
              /\ at' = [at EXCEPT ![s] = Head(queue)]
          BY <1>3, <3>1 DEF TakeJob
        <4> QED
          BY <2>3, <4>1 DEF Ids, TypeOK
      <3>2. CASE runs[Head(queue)].status # "running"
        BY <1>3, <2>3, <3>2 DEF TakeJob, Ids
      <3> QED
        BY <3>1, <3>2
    <2>5. \A t \in Slots : pc'[t] = "waiting" => child'[t] <= created'
      <3>1. \A t \in Slots : pc'[t] = "waiting" => pc[t] = "waiting"
        BY <1>3 DEF TakeJob, TypeOK
      <3> QED
        BY <1>3, <2>3, <3>1 DEF TakeJob, Ids
    <2> QED
      BY <2>2, <2>4, <2>5 DEF Ids
  <1>4. ASSUME NEW s \in Slots, Lands(s) \/ Goes(s)
        PROVE  Ids'
    <2>1. /\ Release(s) /\ at[s] \in RunId /\ at[s] <= created
          /\ created' = created
          /\ queue' = queue \/ queue' = Append(queue, at[s])
      BY <1>4 DEF Lands, Goes, Advance, Release, TypeOK, Ids
    <2>2. \A i \in 1..Len(queue') : queue'[i] <= created'
      BY <1>2, <2>1
    <2>3. \A t \in Slots : Busy(t)' =>
              /\ Busy(t) /\ at'[t] = at[t] /\ child'[t] = child[t]
              /\ pc'[t] = pc[t]
      BY <2>1 DEF Release, TypeOK
    <2> QED
      BY <2>1, <2>2, <2>3 DEF Ids
  <1>5. ASSUME NEW g \in Graphs, StartRun(g) PROVE Ids'
    <2>1. /\ created + 1 \in RunId /\ created' = created + 1
          /\ queue' = queue \/ queue' = Append(queue, created + 1)
          /\ pc' = pc /\ at' = at /\ child' = child
      BY <1>5 DEF StartRun, Create, TypeOK, RunId
    <2>2. \A i \in 1..Len(queue') : queue'[i] <= created'
      BY <1>0, <1>2, <2>1
    <2>3. \A t \in Slots :
              /\ Busy(t) => at[t] \in Nat /\ at[t] <= created
              /\ pc[t] = "waiting" => child[t] \in Nat /\ child[t] <= created
      BY <1>0 DEF TypeOK, Ids
    <2>4. \A t \in Slots : /\ Busy(t)' => at'[t] <= created'
                           /\ pc'[t] = "waiting" => child'[t] <= created'
      BY <1>0, <2>1, <2>3
    <2> QED
      BY <2>2, <2>4 DEF Ids
  <1>6. ASSUME NEW s \in Slots, NEW g \in Graphs, DispatchToGraph(s, g)
        PROVE  Ids'
    <2>1. /\ created + 1 \in RunId /\ created' = created + 1
          /\ queue' = queue \/ queue' = Append(queue, created + 1)
          /\ pc' = [pc EXCEPT ![s] = "waiting"] /\ pc[s] = "working"
          /\ at' = at /\ child' = [child EXCEPT ![s] = created + 1]
      BY <1>6 DEF DispatchToGraph, Create, TypeOK, RunId
    <2>2. \A i \in 1..Len(queue') : queue'[i] <= created'
      BY <1>0, <1>2, <2>1
    <2>3. \A t \in Slots : Busy(t)' => at'[t] <= created'
      <3>1. \A t \in Slots : Busy(t)' => Busy(t)
        BY <2>1 DEF TypeOK
      <3>2. \A t \in Slots : Busy(t) => at[t] \in RunId /\ at[t] <= created
        BY DEF TypeOK, Ids
      <3>3. \A t \in Slots : Busy(t) => at[t] \in Nat /\ at[t] <= created
        BY <1>0, <3>2
      <3> QED
        BY <1>0, <2>1, <3>1, <3>3
    <2>4. ASSUME NEW t \in Slots, pc'[t] = "waiting"
          PROVE  child'[t] <= created'
      <3>1. CASE t = s
        BY <1>0, <2>1, <3>1 DEF TypeOK
      <3>2. CASE t # s
        <4>1. pc[t] = "waiting" /\ child'[t] = child[t] /\ child[t] \in RunId
          BY <2>1, <2>4, <3>2 DEF TypeOK
        <4>2. child[t] <= created /\ child[t] \in Nat
          BY <1>0, <4>1 DEF Ids
        <4> QED
          BY <1>0, <4>1, <4>2
      <3> QED
        BY <3>1, <3>2
    <2> QED
      BY <2>2, <2>3, <2>4 DEF Ids
  <1>7. ASSUME NEW s \in Slots, PollReturns(s) PROVE Ids'
    BY <1>7 DEF PollReturns, Ids, TypeOK
  <1>8. ASSUME NEW s \in Slots, NEW g \in Graphs, CheckDispatchStatus(s, g)
        PROVE  Ids'
    BY <1>8 DEF CheckDispatchStatus, Ids
  <1>9. ASSUME NEW r \in RunId, Cancel(r) PROVE Ids'
    BY <1>9 DEF Cancel, Ids
  <1>10. CASE Tick \/ UNCHANGED vars
    BY <1>10 DEF Tick, vars, Ids
  <1>11. ASSUME NEW r \in RunId, Approve(r) PROVE Ids'
    <2>1. /\ r <= created /\ created' = created
          /\ queue' = Append(queue, r) /\ UNCHANGED <<pc, at, child>>
      BY <1>11 DEF Approve, Existing
    <2>2. \A i \in 1..Len(queue') : queue'[i] <= created'
      BY <1>2, <2>1
    <2> QED
      BY <2>1, <2>2 DEF Ids
  <1>12. ASSUME NEW s \in Slots, Stays(s) PROVE Ids'
    <2>1. /\ created' = created /\ queue' = queue /\ at' = at
          /\ pc' = [pc EXCEPT ![s] = "working"] /\ pc[s] # "idle"
          /\ child' = [child EXCEPT ![s] = NoRun]
      BY <1>12 DEF Stays, NextBranch
    <2>2. ASSUME NEW t \in Slots, pc'[t] # "idle" PROVE at[t] <= created
      <3>1. pc[t] # "idle"
        BY <2>1, <2>2 DEF TypeOK
      <3> QED
        BY <3>1 DEF Ids
    <2>3. ASSUME NEW t \in Slots, pc'[t] = "waiting" PROVE child'[t] <= created
      <3>1. pc[t] = "waiting" /\ child'[t] = child[t]
        BY <2>1, <2>3 DEF TypeOK
      <3> QED
        BY <3>1 DEF Ids
    <2> QED
      BY <2>1, <2>2, <2>3 DEF Ids
  <1> QED
    BY <1>3, <1>4, <1>5, <1>6, <1>7, <1>8, <1>9, <1>10, <1>11, <1>12, SlotMoves
       DEF Next

\* A waiting hop waits for a younger run, one level deeper, that its own graph
\* dispatched; no row is deeper than the limit.
Links ==
    /\ \A r \in RunId : runs[r].depth <= MaxDepth
    /\ \A s \in Slots : pc[s] = "waiting" =>
           /\ at[s] < child[s]
           /\ runs[child[s]].depth = runs[at[s]].depth + 1
           /\ runs[child[s]].source = GraphOf(s)

LEMMA DepthsStep ==
    ASSUME TypeOK, Links, [Next]_vars
    PROVE  \A r \in RunId : runs'[r].depth <= MaxDepth
  <1> USE DispatchAssumption
  <1>0. \A r \in RunId : runs[r].depth <= MaxDepth /\ runs[r] \in Row
    BY DEF Links, TypeOK
  <1>1. ASSUME NEW g \in Graphs, NEW source, NEW depth, depth <= MaxDepth,
               created < MaxRuns, Create(created + 1, g, source, depth)
        PROVE  \A r \in RunId : runs'[r].depth <= MaxDepth
    BY <1>0, <1>1 DEF Create, TypeOK
  <1>2. ASSUME NEW q \in RunId, NEW status,
               runs' = [runs EXCEPT ![q].status = status]
        PROVE  \A r \in RunId : runs'[r].depth <= MaxDepth
    <2>1. [runs[q] EXCEPT !.status = status].depth <= MaxDepth
      BY <1>0 DEF Row
    <2> QED
      BY <1>0, <1>2, <2>1 DEF TypeOK
  <1>3. ASSUME NEW s \in Slots, Lands(s)
        PROVE  \A r \in RunId : runs'[r].depth <= MaxDepth
    <2>1. at[s] \in RunId
      BY <1>3 DEF Lands, Busy, TypeOK
    <2>2. PICK status : Ends(at[s], status)
      BY <1>3 DEF Lands
    <2>3. runs' = [runs EXCEPT ![at[s]].status =
                      IF runs[at[s]].status = "cancelled"
                      THEN runs[at[s]].status ELSE status]
      BY <2>2 DEF Ends
    <2> QED
      BY <1>2, <2>1, <2>3
  <1>4. ASSUME NEW q \in RunId, Approve(q) \/ Cancel(q)
        PROVE  \A r \in RunId : runs'[r].depth <= MaxDepth
    BY <1>2, <1>4 DEF Approve, Cancel
  <1>5. ASSUME NEW s \in Slots, NEW g \in Graphs, DispatchToGraph(s, g)
        PROVE  \A r \in RunId : runs'[r].depth <= MaxDepth
    BY <1>1, <1>5 DEF DispatchToGraph, DepthAllowed
  <1>6. ASSUME NEW g \in Graphs, StartRun(g)
        PROVE  \A r \in RunId : runs'[r].depth <= MaxDepth
    BY <1>1, <1>6 DEF StartRun
  <1>7. CASE runs' = runs
    BY <1>0, <1>7
  <1> QED
    BY <1>3, <1>4, <1>5, <1>6, <1>7, SlotMoves
       DEF Next, Tick, TakeJob, PollReturns, Goes, Advance, Stays, NextBranch,
           CheckDispatchStatus, vars

LEMMA LinksStep == TypeOK /\ Ids /\ Links /\ [Next]_vars => Links'
  <1> SUFFICES ASSUME TypeOK, Ids, Links, [Next]_vars,
                      NEW s \in Slots, pc'[s] = "waiting"
               PROVE  /\ at'[s] < child'[s]
                      /\ runs'[child'[s]].depth = runs'[at'[s]].depth + 1
                      /\ runs'[child'[s]].source = runs'[at'[s]].graph
    BY DepthsStep DEF Links, GraphOf
  <1> USE DispatchAssumption
  <1>0. RunId \subseteq Nat /\ created \in Nat
    BY DEF RunId, TypeOK
  <1>1. CASE /\ pc[s] = "waiting" /\ at'[s] = at[s] /\ child'[s] = child[s]
    <2>1. at[s] \in RunId /\ child[s] \in RunId
      BY <1>1 DEF TypeOK
    <2>2. at[s] <= created /\ child[s] <= created
      BY <1>1 DEF Ids, Busy
    <2>3. /\ runs'[at[s]].graph = runs[at[s]].graph
          /\ runs'[at[s]].depth = runs[at[s]].depth
          /\ runs'[child[s]].source = runs[child[s]].source
          /\ runs'[child[s]].depth = runs[child[s]].depth
      BY <2>1, <2>2, RowsStay
    <2> QED
      BY <1>1, <2>1, <2>3 DEF Links, GraphOf
  <1>2. ASSUME NEW g \in Graphs, DispatchToGraph(s, g)
        PROVE  /\ at'[s] < child'[s]
               /\ runs'[child'[s]].depth = runs'[at'[s]].depth + 1
               /\ runs'[child'[s]].source = runs'[at'[s]].graph
    <2>1. /\ pc[s] = "working" /\ at' = at /\ child'[s] = created + 1
          /\ created + 1 \in RunId
      BY <1>2 DEF DispatchToGraph, TypeOK, RunId
    <2>2. at[s] \in RunId /\ at[s] <= created
      BY <2>1 DEF TypeOK, Ids, Busy
    <2>3. at[s] < created + 1
      <3>1. at[s] \in Nat
        BY <2>2 DEF RunId
      <3> QED
        BY <1>0, <2>2, <3>1
    <2>4. PICK status :
              runs' = [runs EXCEPT ![created + 1] =
                  [graph |-> g, source |-> GraphOf(s),
                   depth |-> runs[at[s]].depth + 1, status |-> status]]
      BY <1>2 DEF DispatchToGraph, Create
    <2>5. /\ runs'[created + 1].depth = runs[at[s]].depth + 1
          /\ runs'[created + 1].source = GraphOf(s)
          /\ runs'[at[s]] = runs[at[s]]
      BY <1>0, <2>1, <2>2, <2>3, <2>4 DEF TypeOK
    <2> QED
      BY <2>1, <2>3, <2>5 DEF GraphOf
  <1>3. ASSUME NEW t \in Slots, NEW g \in Graphs, DispatchToGraph(t, g),
               t # s
        PROVE  pc[s] = "waiting" /\ at'[s] = at[s] /\ child'[s] = child[s]
    BY <1>3 DEF DispatchToGraph, TypeOK
  <1>4. ASSUME NEW t \in Slots,
               TakeJob(t) \/ PollReturns(t) \/ Release(t) \/ NextBranch(t)
        PROVE  pc[s] = "waiting" /\ at'[s] = at[s] /\ child'[s] = child[s]
    <2>1. CASE TakeJob(t)
      BY <2>1 DEF TakeJob, TypeOK
    <2>2. CASE PollReturns(t)
      BY <2>2 DEF PollReturns, TypeOK
    <2>3. CASE Release(t)
      BY <2>3 DEF Release, TypeOK
    <2>4. CASE NextBranch(t)
      BY <2>4 DEF NextBranch, TypeOK
    <2> QED
      BY <1>4, <2>1, <2>2, <2>3, <2>4
  <1>5. CASE UNCHANGED <<pc, at, child>>
    BY <1>1, <1>5
  <1> QED
    BY <1>1, <1>2, <1>3, <1>4, <1>5, SlotMoves
       DEF Next, Tick, StartRun, Lands, Goes, Advance, Stays,
           CheckDispatchStatus, Approve, Cancel, vars

LEMMA ChainInit == Init => Ids /\ Existing /\ Links
  <1> SUFFICES ASSUME Init PROVE Ids /\ Existing /\ Links
    OBVIOUS
  <1>1. Len(queue) = 0
    BY DEF Init
  <1>2. \A r \in RunId : runs[r].status = "absent" /\ runs[r].depth = 0
    BY DEF Init
  <1>3. \A s \in Slots : pc[s] = "idle"
    BY DEF Init
  <1> QED
    BY <1>1, <1>2, <1>3, DispatchAssumption DEF Ids, Existing, Links, Busy

LEMMA Chains == Spec => [](TypeOK /\ Ids /\ Existing /\ Links)
  BY TypeCorrect, ChainInit, ExistingStep, IdsStep, LinksStep, PTL DEF Spec

\* A chain of hops that wait for each other's runs descends one level per link
\* and ends at the limit, whatever graphs name each other as targets.
THEOREM ChainsAreBounded == Spec => []ChainsEnd
  <1>1. Links => ChainsEnd
    BY DEF Links, ChainsEnd
  <1> QED
    BY <1>1, Chains, PTL

-----------------------------------------------------------------------------
(***************************************************************************)
(* Answers.                                                                *)
(***************************************************************************)

\* A run has one job or one slot, and only while it runs or after a cancel
\* that its hop has not seen yet; so nobody writes the status of a run that
\* is over.
Flight ==
    /\ \A s \in Slots :
           Busy(s) => runs[at[s]].status \in {"running", "cancelled"}
    /\ \A s, t \in Slots : Busy(s) /\ Busy(t) /\ at[s] = at[t] => s = t
    /\ \A i \in 1..Len(queue) :
           runs[queue[i]].status \in {"running", "cancelled"}
    /\ \A i, j \in 1..Len(queue) : queue[i] = queue[j] => i = j
    /\ \A s \in Slots, i \in 1..Len(queue) : Busy(s) => queue[i] # at[s]

\* Neither in the queue nor in a slot.
Grounded(r) ==
    /\ \A s \in Slots : Busy(s) => at[s] # r
    /\ \A i \in 1..Len(queue) : queue[i] # r

\* A run that has neither can be given a job.
LEMMA Launch ==
    ASSUME TypeOK, Flight, NEW r \in RunId, Grounded(r),
           runs' \in [RunId -> Row],
           queue' = queue \/ (queue' = Append(queue, r)
                              /\ runs'[r].status = "running"),
           \A q \in RunId : q # r => runs'[q].status = runs[q].status,
           \A s \in Slots : pc'[s] # "idle" =>
               pc[s] # "idle" /\ at'[s] = at[s]
    PROVE  Flight'
  <1> USE DEF Busy
  <1>1. /\ Len(queue) \in Nat
        /\ \A i \in 1..Len(queue) : queue[i] \in RunId /\ queue[i] # r
    BY Places DEF TypeOK, Grounded
  <1>2. \A s \in Slots : pc'[s] # "idle" =>
            at'[s] = at[s] /\ at[s] \in RunId /\ at[s] # r /\ pc[s] # "idle"
    BY DEF TypeOK, Grounded
  <1>3. /\ \A s \in Slots : Busy(s)' =>
               runs'[at'[s]].status \in {"running", "cancelled"}
        /\ \A s, t \in Slots : Busy(s)' /\ Busy(t)' /\ at'[s] = at'[t]
               => s = t
    BY <1>2 DEF Flight
  <1>4. CASE queue' = queue
    BY <1>1, <1>2, <1>3, <1>4 DEF Flight
  <1>5. CASE queue' = Append(queue, r) /\ runs'[r].status = "running"
    <2>1. /\ Len(queue') = Len(queue) + 1 /\ queue'[Len(queue) + 1] = r
          /\ \A i \in 1..Len(queue) : queue'[i] = queue[i]
      BY <1>5, AppendPlaces DEF TypeOK
    <2>2. \A i \in 1..Len(queue') :
              i \in 1..Len(queue) \/ i = Len(queue) + 1
      BY <1>1, <2>1
    <2>3. \A i \in 1..Len(queue') :
              runs'[queue'[i]].status \in {"running", "cancelled"}
      BY <1>1, <1>5, <2>1, <2>2 DEF Flight
    <2>4. \A i, j \in 1..Len(queue') : queue'[i] = queue'[j] => i = j
      BY <1>1, <2>1, <2>2 DEF Flight
    <2>5. \A s \in Slots, i \in 1..Len(queue') : Busy(s)' => queue'[i] # at'[s]
      BY <1>1, <1>2, <2>1, <2>2 DEF Flight
    <2> QED
      BY <1>3, <2>3, <2>4, <2>5 DEF Flight
  <1> QED
    BY <1>4, <1>5

\* No job, no slot is added, and a status changes only to cancelled or where
\* there is neither.
LEMMA Land ==
    ASSUME TypeOK, Flight, queue' = queue,
           \A s \in Slots : pc'[s] # "idle" =>
               /\ pc[s] # "idle" /\ at'[s] = at[s]
               /\ runs'[at[s]].status \in {runs[at[s]].status, "cancelled"},
           \A i \in 1..Len(queue) :
               runs'[queue[i]].status \in {runs[queue[i]].status, "cancelled"}
    PROVE  Flight'
  <1>1. \A s \in Slots : Busy(s)' =>
            /\ Busy(s) /\ at'[s] = at[s]
            /\ runs'[at[s]].status \in {runs[at[s]].status, "cancelled"}
    BY DEF Busy
  <1>2. /\ \A s \in Slots : Busy(s)' =>
               runs'[at'[s]].status \in {"running", "cancelled"}
        /\ \A s, t \in Slots : Busy(s)' /\ Busy(t)' /\ at'[s] = at'[t]
               => s = t
    BY <1>1 DEF Flight
  <1>3. \A i \in 1..Len(queue') :
            runs'[queue'[i]].status \in {"running", "cancelled"}
    BY DEF Flight
  <1>4. \A s \in Slots, i \in 1..Len(queue') : Busy(s)' => queue'[i] # at'[s]
    BY <1>1 DEF Flight
  <1> QED
    BY <1>2, <1>3, <1>4 DEF Flight

\* Only the run itself changes.
LEMMA OneStatus ==
    ASSUME TypeOK, NEW r \in RunId, NEW status,
           runs' = [runs EXCEPT ![r].status = status]
    PROVE  /\ runs'[r].status = status
           /\ \A q \in RunId : q # r => runs'[q] = runs[q]
  <1>1. runs[r] \in Row
    BY DEF TypeOK
  <1>2. [runs[r] EXCEPT !.status = status].status = status
    BY <1>1 DEF Row
  <1> QED
    BY <1>2 DEF TypeOK

LEMMA NewRunIsGrounded ==
    ASSUME TypeOK, Ids, created < MaxRuns
    PROVE  created + 1 \in RunId /\ Grounded(created + 1)
  <1>1. created + 1 \in RunId /\ created \in Nat
    BY DispatchAssumption DEF TypeOK, RunId
  <1>2. \A s \in Slots : Busy(s) => at[s] \in Nat /\ at[s] <= created
    BY DEF TypeOK, Ids, RunId, Busy
  <1>3. \A i \in 1..Len(queue) : queue[i] <= created
    BY DEF Ids
  <1> QED
    BY <1>1, <1>2, <1>3 DEF Grounded

LEMMA FlightStep == TypeOK /\ Ids /\ Flight /\ [Next]_vars => Flight'
  <1> SUFFICES ASSUME TypeOK, Ids, Flight, [Next]_vars PROVE Flight'
    OBVIOUS
  <1>0. runs' \in [RunId -> Row]
    BY TypeStep DEF TypeOK
  <1>00. /\ \A s \in Slots : Busy(s) => at[s] \in RunId
         /\ \A i \in 1..Len(queue) : queue[i] \in RunId
         /\ Len(queue) \in Nat
    BY Places DEF TypeOK, Busy
  <1>1. ASSUME NEW g \in Graphs, NEW source, NEW depth, created < MaxRuns,
               Create(created + 1, g, source, depth),
               \A s \in Slots : pc'[s] # "idle" =>
                   pc[s] # "idle" /\ at'[s] = at[s]
        PROVE  Flight'
    <2>1. /\ queue' = queue \/ (queue' = Append(queue, created + 1)
                                /\ runs'[created + 1].status = "running")
          /\ \A q \in RunId : q # created + 1 => runs'[q] = runs[q]
      BY <1>1, NewRunIsGrounded DEF Create, TypeOK
    <2> QED
      BY <1>0, <1>1, <2>1, NewRunIsGrounded, Launch
  <1>2. ASSUME NEW g \in Graphs, StartRun(g) PROVE Flight'
    BY <1>1, <1>2 DEF StartRun
  <1>3. ASSUME NEW s \in Slots, NEW g \in Graphs, DispatchToGraph(s, g)
        PROVE  Flight'
    <2>1. \A t \in Slots : pc'[t] # "idle" => pc[t] # "idle" /\ at'[t] = at[t]
      BY <1>3 DEF DispatchToGraph, TypeOK
    <2> QED
      BY <1>1, <1>3, <2>1 DEF DispatchToGraph
  <1>4. ASSUME NEW s \in Slots, TakeJob(s) PROVE Flight'
    <2>1. /\ Len(queue') = Len(queue) - 1
          /\ Head(queue) = queue[1] /\ Len(queue) \in Nat \ {0}
          /\ \A i \in 1..(Len(queue) - 1) : queue'[i] = queue[i + 1]
          /\ Head(queue) \in RunId
      BY <1>4, TailPlaces DEF TakeJob, TypeOK
    <2>2. \A i \in 1..Len(queue') : /\ i + 1 \in 1..Len(queue)
                                    /\ queue'[i] = queue[i + 1]
                                    /\ i + 1 # 1 /\ i \in Int
      BY <2>1
    <2>3. 1 \in 1..Len(queue)
      BY <2>1
    <2>4. runs' = runs /\ pc[s] = "idle"
      BY <1>4 DEF TakeJob
    <2>5. \A i \in 1..Len(queue') :
              /\ runs'[queue'[i]].status \in {"running", "cancelled"}
              /\ queue'[i] # Head(queue)
      BY <2>1, <2>2, <2>3, <2>4 DEF Flight
    <2>6. \A i, j \in 1..Len(queue') : queue'[i] = queue'[j] => i = j
      <3> TAKE i, j \in 1..Len(queue')
      <3>1. queue'[i] = queue'[j] => i + 1 = j + 1
        BY <2>2 DEF Flight
      <3> QED
        BY <2>2, <3>1
    <2>7. \A t \in Slots : Busy(t)' =>
              \/ Busy(t) /\ at'[t] = at[t]
              \/ t = s /\ at'[t] = Head(queue)
                 /\ runs[Head(queue)].status = "running"
      BY <1>4 DEF TakeJob, Busy, TypeOK
    <2>8. \A t \in Slots : Busy(t) => at[t] # Head(queue)
      BY <2>1, <2>3 DEF Flight
    <2>9. \A t \in Slots : Busy(t)' =>
              runs'[at'[t]].status \in {"running", "cancelled"}
      BY <2>4, <2>7 DEF Flight
    <2>10. \A t, u \in Slots : Busy(t)' /\ Busy(u)' /\ at'[t] = at'[u]
               => t = u
      BY <2>7, <2>8 DEF Flight
    <2>11. \A t \in Slots, i \in 1..Len(queue') :
               Busy(t)' => queue'[i] # at'[t]
      BY <2>2, <2>5, <2>7 DEF Flight
    <2> QED
      BY <2>5, <2>6, <2>9, <2>10, <2>11 DEF Flight
  <1>5. ASSUME NEW s \in Slots, Lands(s) PROVE Flight'
    <2>1. at[s] \in RunId /\ queue' = queue /\ Release(s) /\ Busy(s)
      BY <1>5 DEF Lands, TypeOK, Busy
    <2>2. PICK status : Ends(at[s], status)
      BY <1>5 DEF Lands
    <2>3. \A q \in RunId : q # at[s] => runs'[q] = runs[q]
      BY <2>1, <2>2, OneStatus DEF Ends
    <2>4. \A t \in Slots : pc'[t] # "idle" =>
              pc[t] # "idle" /\ at'[t] = at[t] /\ t # s
      BY <2>1 DEF Release, TypeOK
    <2>5. \A t \in Slots : pc'[t] # "idle" =>
              at[t] # at[s] /\ at[t] \in RunId
      BY <1>00, <2>1, <2>4 DEF Flight, Busy
    <2>6. \A i \in 1..Len(queue) : queue[i] # at[s] /\ queue[i] \in RunId
      BY <1>00, <2>1 DEF Flight
    <2> QED
      BY <2>1, <2>3, <2>4, <2>5, <2>6, Land
  <1>6. ASSUME NEW s \in Slots, Goes(s) PROVE Flight'
    <2>1. /\ at[s] \in RunId /\ queue' = Append(queue, at[s]) /\ Release(s)
          /\ Busy(s) /\ runs' = runs /\ runs[at[s]].status = "running"
      BY <1>6 DEF Goes, Advance, TypeOK, Busy, Flight
    <2>2. \A t \in Slots : Busy(t)' => Busy(t) /\ at'[t] = at[t] /\ t # s
      BY <2>1 DEF Release, TypeOK, Busy
    <2>3. \A t \in Slots : Busy(t)' => at'[t] # at[s]
      BY <2>1, <2>2 DEF Flight
    <2>4. /\ Len(queue') = Len(queue) + 1 /\ queue'[Len(queue) + 1] = at[s]
          /\ \A i \in 1..Len(queue) : queue'[i] = queue[i]
      BY <2>1, AppendPlaces DEF TypeOK
    <2>5. \A i \in 1..Len(queue') :
              i \in 1..Len(queue) \/ i = Len(queue) + 1
      BY <1>00, <2>4
    <2>6. \A i \in 1..Len(queue) : queue[i] # at[s]
      BY <2>1 DEF Flight
    <2>7. \A i \in 1..Len(queue') :
              runs'[queue'[i]].status \in {"running", "cancelled"}
      BY <2>1, <2>4, <2>5 DEF Flight
    <2>8. \A i, j \in 1..Len(queue') : queue'[i] = queue'[j] => i = j
      BY <2>4, <2>5, <2>6 DEF Flight
    <2>9. \A t \in Slots, i \in 1..Len(queue') : Busy(t)' => queue'[i] # at'[t]
      BY <2>2, <2>3, <2>4, <2>5 DEF Flight
    <2> QED
      BY <2>1, <2>2, <2>7, <2>8, <2>9 DEF Flight
  <1>7. ASSUME NEW r \in RunId, Approve(r) PROVE Flight'
    <2>1. /\ runs[r].status = "awaiting_approval"
          /\ queue' = Append(queue, r) /\ pc' = pc /\ at' = at
      BY <1>7 DEF Approve
    <2>2. Grounded(r)
      BY <2>1 DEF Flight, Grounded
    <2>3. /\ runs'[r].status = "running"
          /\ \A q \in RunId : q # r => runs'[q] = runs[q]
      BY <1>7, OneStatus DEF Approve
    <2> QED
      BY <1>0, <2>1, <2>2, <2>3, Launch
  <1>8. ASSUME NEW r \in RunId, Cancel(r) PROVE Flight'
    <2>1. /\ runs'[r].status = "cancelled"
          /\ \A q \in RunId : q # r => runs'[q] = runs[q]
      BY <1>8, OneStatus DEF Cancel
    <2>2. \A q \in RunId : runs'[q].status \in {runs[q].status, "cancelled"}
      BY <2>1
    <2>3. queue' = queue /\ pc' = pc /\ at' = at
      BY <1>8 DEF Cancel
    <2> QED
      BY <1>00, <2>2, <2>3, Land DEF Busy
  <1>9. CASE /\ runs' = runs /\ queue' = queue /\ at' = at
             /\ \A s \in Slots : pc'[s] # "idle" => pc[s] # "idle"
    BY <1>9, Land
  <1>10. ASSUME NEW s \in Slots, PollReturns(s) PROVE Flight'
    <2>1. /\ runs' = runs /\ queue' = queue /\ at' = at
          /\ \A t \in Slots : pc'[t] # "idle" => pc[t] # "idle"
      BY <1>10 DEF PollReturns, TypeOK
    <2> QED
      BY <1>9, <2>1
  <1>11. ASSUME NEW s \in Slots, Stays(s) PROVE Flight'
    <2>1. /\ runs' = runs /\ queue' = queue /\ at' = at
          /\ \A t \in Slots : pc'[t] # "idle" => pc[t] # "idle"
      BY <1>11 DEF Stays, NextBranch, Busy, TypeOK
    <2> QED
      BY <1>9, <2>1
  <1> QED
    BY <1>2, <1>3, <1>4, <1>5, <1>6, <1>7, <1>8, <1>9, <1>10, <1>11, SlotMoves
       DEF Next, Tick, CheckDispatchStatus, vars

LEMMA FlightInit == Init => Flight
  BY DEF Init, Flight, Busy

LEMMA Flights == Spec => [](TypeOK /\ Ids /\ Existing /\ Links /\ Flight)
  BY Chains, FlightInit, FlightStep, PTL DEF Spec

\* What a status write leaves alone: the status of every run that is over.
LEMMA OverStays ==
    ASSUME TypeOK, Ids, Existing, Flight, [Next]_vars,
           NEW r \in RunId, runs[r].status \in Over
    PROVE  runs'[r].status = runs[r].status /\ r <= created
  <1>0. r <= created /\ r # created + 1
    BY DEF Existing, Over, RunId, TypeOK
  <1>1. ASSUME NEW g, NEW source, NEW depth,
               Create(created + 1, g, source, depth)
        PROVE  runs'[r].status = runs[r].status
    BY <1>0, <1>1 DEF Create, TypeOK
  <1>2. ASSUME NEW s \in Slots, Lands(s)
        PROVE  runs'[r].status = runs[r].status
    <2>1. at[s] \in RunId /\ Busy(s)
      BY <1>2 DEF Lands, TypeOK, Busy
    <2>2. runs[at[s]].status \in {"running", "cancelled"}
      BY <2>1 DEF Flight
    <2>3. PICK status : Ends(at[s], status)
      BY <1>2 DEF Lands
    <2>4. runs' = [runs EXCEPT ![at[s]].status =
                      IF runs[at[s]].status = "cancelled"
                      THEN runs[at[s]].status ELSE status]
      BY <2>3 DEF Ends
    <2>5. CASE at[s] = r
      <3>1. runs[r].status = "cancelled"
        BY <2>2, <2>5 DEF Over
      <3> QED
        BY <2>1, <2>4, <2>5, <3>1, OneStatus
    <2>6. CASE at[s] # r
      BY <2>1, <2>4, <2>6, OneStatus
    <2> QED
      BY <2>5, <2>6
  <1>3. ASSUME NEW q \in RunId, Approve(q) \/ Cancel(q)
        PROVE  runs'[r].status = runs[r].status
    <2>1. q # r
      BY <1>3 DEF Approve, Cancel, Over, Live
    <2> QED
      BY <1>3, <2>1, OneStatus DEF Approve, Cancel
  <1>4. CASE runs' = runs
    BY <1>0, <1>4
  <1> QED
    BY <1>0, <1>1, <1>2, <1>3, <1>4, SlotMoves
       DEF Next, Tick, StartRun, TakeJob, PollReturns, Goes, Advance, Stays,
           NextBranch, DispatchToGraph, CheckDispatchStatus, vars

\* A report is of a run that is over, as it is over, and that the reader's
\* graph dispatched; a slot that is free has none.
Reported(s) ==
    /\ answer[s].run \in RunId
    /\ runs[answer[s].run].source = GraphOf(s)
    /\ runs[answer[s].run].status = answer[s].outcome
    /\ answer[s].outcome \in Over
    /\ Busy(s)

Reports == \A s \in Slots : answer[s].run # NoRun => Reported(s)

LEMMA ReportsStep ==
    TypeOK /\ Ids /\ Existing /\ Links /\ Flight /\ Reports /\ [Next]_vars
        => Reports'
  <1> SUFFICES ASSUME TypeOK, Ids, Existing, Links, Flight, Reports,
                      [Next]_vars, NEW s \in Slots, answer'[s].run # NoRun
               PROVE  Reported(s)'
    BY DEF Reports
  <1>1. CASE answer'[s] = answer[s] /\ (Busy(s) => at'[s] = at[s] /\ Busy(s)')
    <2>1. Reported(s)
      BY <1>1 DEF Reports
    <2>2. /\ answer[s].run \in RunId /\ runs[answer[s].run].status \in Over
          /\ at[s] \in RunId /\ at[s] <= created
          /\ at'[s] = at[s] /\ Busy(s)'
      BY <1>1, <2>1 DEF Reported, TypeOK, Ids, Busy
    <2>3. /\ runs'[answer[s].run].status = runs[answer[s].run].status
          /\ answer[s].run <= created
      BY <2>2, OverStays
    <2>4. /\ runs'[answer[s].run].source = runs[answer[s].run].source
          /\ runs'[at[s]].graph = runs[at[s]].graph
      BY <2>2, <2>3, RowsStay
    <2> QED
      BY <1>1, <2>1, <2>2, <2>3, <2>4 DEF Reported, GraphOf
  <1>2. ASSUME NEW r \in RunId, answer'[s] = Report(r), Busy(s)',
               runs[r].source = GraphOf(s), runs' = runs, at' = at
        PROVE  Reported(s)'
    <2>1. runs[r].status \in Over
      BY <1>2 DEF Report, NoAnswer
    <2>2. answer'[s] = [run |-> r, outcome |-> runs[r].status]
      BY <1>2, <2>1 DEF Report
    <2> QED
      BY <1>2, <2>1, <2>2 DEF Reported, GraphOf
  <1>3. ASSUME NEW t \in Slots, PollReturns(t) PROVE Reported(s)'
    <2>1. CASE t = s
      <3>1. /\ pc[s] = "waiting" /\ child[s] \in RunId
            /\ runs' = runs /\ at' = at /\ Busy(s)'
        BY <1>3, <2>1 DEF PollReturns, TypeOK, Busy
      <3>2. answer'[s] = IF runs[child[s]].status \in Answers
                         THEN Report(child[s]) ELSE NoAnswer
        BY <1>3, <2>1 DEF PollReturns, TypeOK
      <3>3. answer'[s] = Report(child[s])
        BY <3>2 DEF NoAnswer
      <3>4. runs[child[s]].source = GraphOf(s)
        BY <3>1 DEF Links
      <3> QED
        BY <1>2, <3>1, <3>3, <3>4
    <2>2. CASE t # s
      BY <1>1, <1>3, <2>2 DEF PollReturns, TypeOK, Busy
    <2> QED
      BY <2>1, <2>2
  <1>4. ASSUME NEW t \in Slots, NEW g \in Graphs, CheckDispatchStatus(t, g)
        PROVE  Reported(s)'
    <2>1. CASE t = s
      <3>1. PICK r \in DispatchedInto(g, GraphOf(s)) :
                answer' = [answer EXCEPT ![s] = Report(r)]
        BY <1>4, <2>1 DEF CheckDispatchStatus
      <3>2. r \in RunId /\ runs[r].source = GraphOf(s)
        BY DispatchAssumption DEF DispatchedInto, RunId, TypeOK
      <3>3. answer'[s] = Report(r) /\ runs' = runs /\ at' = at /\ Busy(s)'
        BY <1>4, <2>1, <3>1 DEF CheckDispatchStatus, TypeOK, Busy
      <3> QED
        BY <1>2, <3>2, <3>3
    <2>2. CASE t # s
      BY <1>1, <1>4, <2>2 DEF CheckDispatchStatus, TypeOK, Busy
    <2> QED
      BY <2>1, <2>2
  <1>5. ASSUME NEW t \in Slots, Release(t) \/ (Busy(t) /\ NextBranch(t))
        PROVE  Reported(s)'
    <2>1. CASE t = s
      <3>1. answer'[s] = NoAnswer
        BY <1>5, <2>1 DEF Release, NextBranch, TypeOK
      <3> QED
        BY <3>1 DEF NoAnswer
    <2>2. CASE t # s
      BY <1>1, <1>5, <2>2 DEF Release, NextBranch, TypeOK, Busy
    <2> QED
      BY <2>1, <2>2
  <1>6. ASSUME NEW t \in Slots, TakeJob(t) PROVE Reported(s)'
    BY <1>1, <1>6 DEF TakeJob, TypeOK, Busy
  <1>7. ASSUME NEW t \in Slots, NEW g \in Graphs, DispatchToGraph(t, g)
        PROVE  Reported(s)'
    BY <1>1, <1>7 DEF DispatchToGraph, TypeOK, Busy
  <1>8. CASE UNCHANGED <<answer, at, pc>>
    BY <1>1, <1>8 DEF Busy
  <1> QED
    BY <1>3, <1>4, <1>5, <1>6, <1>7, <1>8, SlotMoves
       DEF Next, Tick, StartRun, Lands, Goes, Advance, Stays,
           Approve, Cancel, vars

\* What a hop was told of a run that is over holds for as long as the hop
\* lasts, and the run is one that its own graph dispatched.
THEOREM ReportsHold == Spec => []AnswersHold
  <1>1. Init => Reports
    BY DEF Init, Reports, NoAnswer
  <1>2. Reports => AnswersHold
    BY DEF Reports, Reported, AnswersHold
  <1> QED
    BY <1>1, <1>2, Flights, ReportsStep, PTL DEF Spec
=============================================================================
