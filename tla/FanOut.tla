------------------------------- MODULE FanOut -------------------------------
(***************************************************************************)
(* One fan-out hop: dispatchConsensus, which runs a different node on each *)
(* branch, and dispatchMap, which runs one node on each item.  The model   *)
(* call of the source is over and its sequence is fixed.  The branches run *)
(* inside the job, each records its own outcome at a sequence fixed in     *)
(* advance, and their join hands the run to the aggregator.  A cancel,     *)
(* with its own event, may come at any time: nothing in the fan-out looks  *)
(* for it before the join.                                                 *)
(*                                                                         *)
(* Abstracted: what the branches say, and the usage records.               *)
(***************************************************************************)
EXTENDS Integers, FiniteSets

CONSTANT
    Plans   \* what a graph and the source's output may ask for

\* size     consensus edges, or items of the map
\* limit    mapConfig.maxConcurrency
\* maxItems mapConfig.maxItems
\* missing  branches whose target is no longer in the graph
\* gated    branches whose target has an approvalConfig
\* gatedJoin whether the aggregator has one
ASSUME PlansAssumption ==
    \A p \in Plans :
        /\ DOMAIN p = {"map", "size", "limit", "maxItems", "missing", "gated",
                       "gatedJoin"}
        /\ p.map \in BOOLEAN /\ p.gatedJoin \in BOOLEAN
        /\ p.size \in Nat /\ p.limit \in Nat \ {0} /\ p.maxItems \in Nat
        /\ p.map => p.size > 0
        /\ p.missing \subseteq 1..p.size /\ p.gated \subseteq 1..p.size

VARIABLES
    plan,     \* the plan this hop follows; never changes
    status,   \* runs.status
    log,      \* run_events from the source's event on: sequence -> its row
    batch,    \* the fanout_batches row
    pc,       \* what the hop does next
    branch,   \* what each branch does next
    base,     \* baseSequence
    worker,   \* what each of mapWithConcurrency's workers took last
    cursor,   \* the cursor they share; how many a consensus has started
    failSeq,  \* the sequence that dispatchMap's fail() uses
    queue,    \* jobs enqueued for the aggregator
    cancel,   \* the cancel request: what it does next, its sequence
    joins     \* history: hand-overs to the aggregator

vars == <<plan, status, log, batch, pc, branch, base, worker, cursor, failSeq,
          queue, cancel, joins>>

Branch == 1..plan.size

\* Min(limit, items) workers; a consensus has none.
Workers ==
    IF ~plan.map THEN {}
    ELSE 1..(IF plan.limit < plan.size THEN plan.limit ELSE plan.size)

InFlight == {"calling", "succeeding", "failing"}
Settled  == {"fulfilled", "rejected"}

\* Whose row it is, branch 0 standing for the hop itself and for the request.
Row == [kind: {"source", "succeeded", "failed", "cancelled"}, branch: Nat]

TypeOK ==
    /\ plan \in Plans
    /\ status \in {"running", "awaiting_approval", "error", "cancelled"}
    /\ DOMAIN log \subseteq Nat \ {0}
    /\ \A k \in DOMAIN log : log[k] \in Row
    /\ batch \in [status: {"absent", "pending", "error", "partial",
                           "completed"},
                  completed: Nat]
    /\ pc \in {"source", "check", "open", "base", "branches", "wipeout",
               "failseq", "failrow", "failrun", "tally", "advance", "gate",
               "enqueue", "throwing", "over", "lost"}
    /\ branch \in [Branch -> {"waiting"} \cup InFlight \cup Settled]
    /\ worker \in [Workers -> Nat]
    /\ base \in Nat /\ cursor \in Nat /\ failSeq \in Nat
    /\ queue \in Nat /\ joins \in Nat
    /\ cancel \in [pc: {"idle", "sequence", "insert", "done", "refused"},
                   seq: Nat]

Init ==
    /\ plan \in Plans
    /\ status = "running"
    /\ log = [k \in {} |-> 0]
    /\ batch = [status |-> "absent", completed |-> 0]
    /\ pc = "source"
    /\ branch = [b \in Branch |-> "waiting"]
    /\ worker = [w \in Workers |-> 0]
    /\ base = 0 /\ cursor = 0 /\ failSeq = 0
    /\ queue = 0 /\ joins = 0
    /\ cancel = [pc |-> "idle", seq |-> 0]

-----------------------------------------------------------------------------
(* The run's trail.                                                        *)

SourceSequence == 1

\* Faulty variant: the highest sequence itself.
HighestSequence ==
    IF DOMAIN log = {} THEN SourceSequence - 1
    ELSE CHOOSE k \in DOMAIN log : \A j \in DOMAIN log : j <= k

\* nextSequence: one more than the highest sequence, the source's at least.
NextSequence ==
    IF DOMAIN log = {} THEN SourceSequence
    ELSE 1 + (CHOOSE k \in DOMAIN log : \A j \in DOMAIN log : j <= k)

Free(k) == k \notin DOMAIN log

Insert(k, kind, b) ==
    log' = [j \in DOMAIN log \cup {k} |->
              IF j = k THEN [kind |-> kind, branch |-> b] ELSE log[j]]

\* Branch b records at baseSequence + its index.
Slot(b) == base + b - 1

Fulfilled == {b \in Branch : branch[b] = "fulfilled"}
AllSettled == \A b \in Branch : branch[b] \in Settled

-----------------------------------------------------------------------------
(* The hop up to the branches.                                             *)

\* The source's own event, at the sequence read before its model call.
RecordSource ==
    /\ pc = "source"
    /\ IF Free(SourceSequence)
       THEN Insert(SourceSequence, "source", 0) /\ pc' = "check"
       ELSE pc' = "throwing" /\ UNCHANGED log
    /\ UNCHANGED <<plan, status, batch, branch, base, worker, cursor, failSeq,
                   queue, cancel, joins>>

\* A consensus throws on an edge or a target that is gone; a map fails the run
\* on a target that is gone or gated and on too many items.
CheckPlan ==
    /\ pc = "check"
    /\ pc' = IF ~plan.map
             THEN IF plan.missing # {} THEN "throwing" ELSE "open"
             ELSE IF plan.missing # {} \/ plan.gated # {}
                     \/ plan.size > plan.maxItems
                  THEN "failseq" ELSE "open"
    /\ UNCHANGED <<plan, status, log, batch, branch, base, worker, cursor,
                   failSeq, queue, cancel, joins>>

OpenBatch ==
    /\ pc = "open"
    /\ batch' = [status |-> "pending", completed |-> 0]
    /\ pc' = "base"
    /\ UNCHANGED <<plan, status, log, branch, base, worker, cursor, failSeq,
                   queue, cancel, joins>>

ReadBase ==
    /\ pc = "base"
    /\ base' = NextSequence
    /\ pc' = "branches"
    /\ UNCHANGED <<plan, status, log, batch, branch, worker, cursor, failSeq,
                   queue, cancel, joins>>

-----------------------------------------------------------------------------
(* The branches.                                                           *)

Becomes(b, s) == branch' = [branch EXCEPT ![b] = s]

\* A gated target fails its branch without a call.
Started(b) == IF b \in plan.gated THEN "failing" ELSE "calling"

\* A consensus starts all its branches in one step.
StartAll ==
    /\ pc = "branches" /\ ~plan.map /\ cursor = 0
    /\ cursor' = plan.size
    /\ branch' = [b \in Branch |-> Started(b)]
    /\ UNCHANGED <<plan, status, log, batch, pc, base, worker, failSeq, queue,
                   cancel, joins>>

Returned(w) == worker[w] > plan.size

\* A worker takes the item at the cursor and moves it on; one that finds the
\* list at its end returns.
Take(w) ==
    /\ pc = "branches"
    /\ worker' = [worker EXCEPT ![w] = cursor + 1]
    /\ cursor' = cursor + 1
    /\ branch' = [b \in Branch |-> IF b = cursor + 1 THEN Started(b)
                                  ELSE branch[b]]
    /\ UNCHANGED <<plan, status, log, batch, pc, base, failSeq, queue, cancel,
                   joins>>

\* Faulty variant: a worker does not wait for its task.
TakeItemUnawaited(w) == ~Returned(w) /\ Take(w)

\* It does so at the start, and whenever the task it awaits has settled.
TakeItem(w) ==
    /\ worker[w] # 0 => worker[w] \in Branch /\ branch[worker[w]] \in Settled
    /\ Take(w)

\* The call answers, or it fails or times out.
BranchAnswers(b) ==
    /\ branch[b] = "calling"
    /\ \E s \in {"succeeding", "failing"} : Becomes(b, s)
    /\ UNCHANGED <<plan, status, log, batch, pc, base, worker, cursor, failSeq,
                   queue, cancel, joins>>

\* Faulty variant: a branch counts as fulfilled without its row.
RecordSucceededAnyway(b) ==
    /\ branch[b] = "succeeding"
    /\ IF Free(Slot(b))
       THEN Insert(Slot(b), "succeeded", b)
       ELSE UNCHANGED log
    /\ Becomes(b, "fulfilled")
    /\ UNCHANGED <<plan, status, batch, pc, base, worker, cursor, failSeq,
                   queue, cancel, joins>>

\* The insert of a success; one that is refused lands in the branch's catch.
RecordSucceeded(b) ==
    /\ branch[b] = "succeeding"
    /\ \/ Free(Slot(b)) /\ Insert(Slot(b), "succeeded", b)
          /\ Becomes(b, "fulfilled")
       \/ ~Free(Slot(b)) /\ Becomes(b, "failing") /\ UNCHANGED log
    /\ UNCHANGED <<plan, status, batch, pc, base, worker, cursor, failSeq,
                   queue, cancel, joins>>

\* The catch inserts the failure; refused or not, the branch is rejected.
RecordFailed(b) ==
    /\ branch[b] = "failing"
    /\ IF Free(Slot(b)) THEN Insert(Slot(b), "failed", b) ELSE UNCHANGED log
    /\ Becomes(b, "rejected")
    /\ UNCHANGED <<plan, status, batch, pc, base, worker, cursor, failSeq,
                   queue, cancel, joins>>

\* An insert that does not reach the database.
BranchThrows(b) ==
    /\ \/ branch[b] = "succeeding" /\ Becomes(b, "failing")
       \/ branch[b] = "failing" /\ Becomes(b, "rejected")
    /\ UNCHANGED <<plan, status, log, batch, pc, base, worker, cursor, failSeq,
                   queue, cancel, joins>>

-----------------------------------------------------------------------------
(* The join.                                                               *)

\* Faulty variant: the join fires on the first branch that succeeds.
JoinEarly ==
    /\ pc = "branches"
    /\ AllSettled \/ Fulfilled # {}
    /\ pc' = IF Fulfilled = {} THEN "wipeout" ELSE "tally"
    /\ UNCHANGED <<plan, status, log, batch, branch, base, worker, cursor,
                   failSeq, queue, cancel, joins>>

\* Promise.allSettled over a consensus's branches, Promise.all over a map's
\* workers.
Join ==
    /\ pc = "branches"
    /\ IF plan.map THEN \A w \in Workers : Returned(w) ELSE AllSettled
    /\ pc' = IF Fulfilled = {} THEN "wipeout" ELSE "tally"
    /\ UNCHANGED <<plan, status, log, batch, branch, base, worker, cursor,
                   failSeq, queue, cancel, joins>>

\* Every branch failed: the batch, then the run.  A map goes through fail().
WipeOut ==
    /\ pc = "wipeout"
    /\ batch' = [batch EXCEPT !.status = "error"]
    /\ pc' = IF plan.map THEN "failseq" ELSE "failrun"
    /\ UNCHANGED <<plan, status, log, branch, base, worker, cursor, failSeq,
                   queue, cancel, joins>>

\* fail() of dispatchMap reads a sequence, inserts its row, fails the run.
FailSequence ==
    /\ pc = "failseq"
    /\ failSeq' = NextSequence
    /\ pc' = "failrow"
    /\ UNCHANGED <<plan, status, log, batch, branch, base, worker, cursor,
                   queue, cancel, joins>>

FailRow ==
    /\ pc = "failrow"
    /\ IF Free(failSeq)
       THEN Insert(failSeq, "failed", 0) /\ pc' = "failrun"
       ELSE pc' = "throwing" /\ UNCHANGED log
    /\ UNCHANGED <<plan, status, batch, branch, base, worker, cursor, failSeq,
                   queue, cancel, joins>>

\* Faulty variant: the write of "error" is not guarded.
FailRunUnguarded ==
    /\ pc = "failrun"
    /\ status' = "error"
    /\ pc' = "over"
    /\ UNCHANGED <<plan, log, batch, branch, base, worker, cursor, failSeq,
                   queue, cancel, joins>>

FailRun ==
    /\ pc = "failrun"
    /\ status' = IF status = "cancelled" THEN status ELSE "error"
    /\ pc' = "over"
    /\ UNCHANGED <<plan, log, batch, branch, base, worker, cursor, failSeq,
                   queue, cancel, joins>>

Tally ==
    /\ pc = "tally"
    /\ batch' = [status |-> IF Fulfilled = Branch THEN "completed"
                            ELSE "partial",
                 completed |-> Cardinality(Fulfilled)]
    /\ pc' = "advance"
    /\ UNCHANGED <<plan, status, log, branch, base, worker, cursor, failSeq,
                   queue, cancel, joins>>

\* advanceRun to the aggregator: the guarded move, then a job or a pause.
Advance ==
    /\ pc = "advance"
    /\ IF status = "cancelled"
       THEN pc' = "over" /\ UNCHANGED joins
       ELSE /\ pc' = IF plan.gatedJoin THEN "gate" ELSE "enqueue"
            /\ joins' = joins + 1
    /\ UNCHANGED <<plan, status, log, batch, branch, base, worker, cursor,
                   failSeq, queue, cancel>>

EnqueueHop ==
    /\ pc = "enqueue"
    /\ queue' = queue + 1
    /\ pc' = "over"
    /\ UNCHANGED <<plan, status, log, batch, branch, base, worker, cursor,
                   failSeq, cancel, joins>>

PauseAtGate ==
    /\ pc = "gate"
    /\ status' = IF status = "cancelled" THEN status ELSE "awaiting_approval"
    /\ pc' = "over"
    /\ UNCHANGED <<plan, log, batch, branch, base, worker, cursor, failSeq,
                   queue, cancel, joins>>

\* Any await of the hop itself may reject: dispatchHop's backstop.
Throw ==
    /\ pc \notin {"check", "branches", "throwing", "over", "lost"}
    /\ pc' = "throwing"
    /\ UNCHANGED <<plan, status, log, batch, branch, base, worker, cursor,
                   failSeq, queue, cancel, joins>>

\* Faulty variant: a hop that throws leaves the run as it was.
BackstopMissing ==
    /\ pc = "throwing"
    /\ pc' = "over"
    /\ UNCHANGED <<plan, status, log, batch, branch, base, worker, cursor,
                   failSeq, queue, cancel, joins>>

Backstop ==
    /\ pc = "throwing"
    /\ status' = IF status = "running" THEN "error" ELSE status
    /\ pc' = "over"
    /\ UNCHANGED <<plan, log, batch, branch, base, worker, cursor, failSeq,
                   queue, cancel, joins>>

\* Its own write may reject, like the one that threw: the job fails, and the
\* worker only logs that.
BackstopRejects ==
    /\ pc = "throwing"
    /\ pc' = "lost"
    /\ UNCHANGED <<plan, status, log, batch, branch, base, worker, cursor,
                   failSeq, queue, cancel, joins>>

-----------------------------------------------------------------------------
(* POST /runs/:id/cancel, from its conditional write on.                   *)

CancelDecide ==
    /\ cancel.pc = "idle"
    /\ status \in {"running", "awaiting_approval"}
    /\ status' = "cancelled"
    /\ cancel' = [cancel EXCEPT !.pc = "sequence"]
    /\ UNCHANGED <<plan, log, batch, pc, branch, base, worker, cursor, failSeq,
                   queue, joins>>

CancelSequence ==
    /\ cancel.pc = "sequence"
    /\ cancel' = [pc |-> "insert", seq |-> NextSequence]
    /\ UNCHANGED <<plan, status, log, batch, pc, branch, base, worker, cursor,
                   failSeq, queue, joins>>

CancelRecord ==
    /\ cancel.pc = "insert"
    /\ IF Free(cancel.seq)
       THEN Insert(cancel.seq, "cancelled", 0)
            /\ cancel' = [cancel EXCEPT !.pc = "done"]
       ELSE cancel' = [cancel EXCEPT !.pc = "refused"] /\ UNCHANGED log
    /\ UNCHANGED <<plan, status, batch, pc, branch, base, worker, cursor,
                   failSeq, queue, joins>>

-----------------------------------------------------------------------------
HopStep ==
    \/ RecordSource \/ CheckPlan \/ OpenBatch \/ ReadBase \/ StartAll
    \/ Join \/ WipeOut \/ FailSequence \/ FailRow \/ FailRun
    \/ Tally \/ Advance \/ EnqueueHop \/ PauseAtGate
    \/ Throw \/ Backstop \/ BackstopRejects

BranchStep(b) ==
    \/ BranchAnswers(b) \/ RecordSucceeded(b)
    \/ RecordFailed(b) \/ BranchThrows(b)

CancelStep == CancelDecide \/ CancelSequence \/ CancelRecord

Next ==
    \/ HopStep
    \/ \E w \in Workers : TakeItem(w)
    \/ \E b \in Branch : BranchStep(b)
    \/ CancelStep

Spec == Init /\ [][Next]_vars

\* The worker lives and every call ends, at the latest by its timeout.
FairSpec ==
    /\ Spec
    /\ WF_vars(HopStep)
    /\ WF_vars(\E w \in Workers : TakeItem(w))
    /\ WF_vars(\E b \in Branch : BranchStep(b))

-----------------------------------------------------------------------------
(* Properties.                                                             *)

\* The aggregator is dispatched at most once, after every branch has settled
\* and if one succeeded: a counted barrier.  (dispatchConsensus, dispatchMap)
Outcome ==
    [b \in Branch |-> IF branch[b] = "fulfilled" THEN "ok"
                      ELSE IF branch[b] = "rejected" THEN "failed" ELSE "open"]

Barrier == INSTANCE CountedBarrier WITH outcome <- Outcome

KeepsBarrier == Barrier!Spec

\* What the batch row says is what the trail says: as many branches completed
\* as have a succeeded row, all of them iff it is "completed", none iff it is
\* "error".  (fanoutBatches, run_events.fanout_batch_id)
SucceededRows ==
    {k \in DOMAIN log : log[k].kind = "succeeded"}

BatchTallies ==
    /\ batch.status \in {"completed", "partial"} =>
         /\ batch.completed = Cardinality(SucceededRows)
         /\ batch.completed > 0
         /\ batch.status = "completed" <=> batch.completed = plan.size
    /\ batch.status = "error" => SucceededRows = {}

\* The workers share out the list through their cursor: never more branches
\* are in flight than the limit, no two workers hold the same item, and once
\* all have returned no item has been passed over or left behind.
\* (mapWithConcurrency)
WithinLimits ==
    plan.map =>
      /\ Cardinality({b \in Branch : branch[b] \in InFlight}) <= plan.limit
      /\ \A v, w \in Workers : v # w /\ worker[v] # 0 => worker[v] # worker[w]
      /\ (\A w \in Workers : Returned(w)) => AllSettled

\* "Cancelled is sticky": neither the join nor a wipe-out undoes a cancel.
CancelIsSticky ==
    [][status = "cancelled" => status' = "cancelled"]_vars

\* A fan-out does not strand its run: it ends in error or cancelled, waits
\* for a human, or has its aggregator's job in the queue, unless the backstop's
\* own write rejects as well.  (dispatchHop)
RunMovesOn == <>[](status # "running" \/ queue > 0 \/ pc = "lost")

\* A row refused by the unique index is "a loud insert failure (surfaced
\* through dispatchHop's error backstop)": a branch that settled while another
\* row holds its sequence does not go unnoticed by the hop.  (schema.ts)
RefusalSurfaces ==
    [][\A b \in Branch :
        branch[b] = "failing" /\ branch'[b] = "rejected" /\ ~Free(Slot(b))
          => pc' = "throwing"]_vars

=============================================================================
