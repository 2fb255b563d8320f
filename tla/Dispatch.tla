------------------------------ MODULE Dispatch ------------------------------
(***************************************************************************)
(* Runs that start runs in other graphs: the tool dispatch_to_graph blocks *)
(* the hop that calls it until the run it created is over or its budget is *)
(* spent.  The hop keeps its worker slot meanwhile, and the new run needs  *)
(* one: callers and called share one pool and one queue.                   *)
(*                                                                         *)
(* A run's hops are reduced to when they hold a slot and how they end; the *)
(* modules RunLifecycle and FanOut have their steps.  A fan-out is one job *)
(* with several model calls, each with a budget of its own: its source's,  *)
(* then one after another what one of a map's workers takes, or a          *)
(* consensus's longest branch.  Branches that run beside it, and what they *)
(* dispatch, are left out.                                                 *)
(*                                                                         *)
(* Time passes in ticks, about the safety margin of a dispatch (20 s)      *)
(* each: the poll interval (2 s) is less, so a poll that can answer does   *)
(* so before the next tick.                                                *)
(***************************************************************************)
EXTENDS Integers, Sequences

CONSTANTS
    Graphs,         \* the owner's graphs
    Targets,        \* dispatchTargets: graph -> the graphs its hops may call
    Slots,          \* the worker's concurrency
    MaxDepth,       \* MAX_DISPATCH_DEPTH
    HopBudget,      \* hopTimeoutMsFor a node that has the tool
    PlainBudget,    \* hopTimeoutMsFor any other node
    PollBudget,     \* DISPATCH_POLL_TIMEOUT_MS
    Margin,         \* DISPATCH_SAFETY_MARGIN_MS
    MaxRounds,      \* calls of a fan-out after its source's: one for a
                    \* consensus, ceil(maxItems / maxConcurrency) for a map
    MaxRuns,        \* bound: runs ever created
    MaxHops,        \* bound: hops beyond the first ones, of all runs, and
                    \* calls of fan-outs beyond their sources'
    NoGraph,        \* dispatch_source_graph_id of a run nobody dispatched
    NoRun

ASSUME DispatchAssumption ==
    /\ Targets \in [Graphs -> SUBSET Graphs]
    /\ NoGraph \notin Graphs
    /\ MaxDepth \in Nat /\ MaxRounds \in Nat
    /\ MaxRuns \in Nat /\ MaxHops \in Nat
    /\ HopBudget \in Nat \ {0} /\ PlainBudget \in Nat \ {0}
    /\ PlainBudget <= HopBudget
    /\ PollBudget \in Nat /\ Margin \in Nat \ {0}
    /\ NoRun \notin 1..MaxRuns

VARIABLES
    created,    \* runs created so far; a run's id is its place in createdAt
    runs,       \* the runs rows
    queue,      \* jobs of run-dispatch, first in first out
    pc,         \* what each slot does
    at,         \* the run whose hop it executes
    child,      \* the run its tool call waits for
    rounds,     \* calls before the present one, of a job that fans out
    left,       \* ticks until the deadline of the present call
    wait,       \* ticks until the wait's deadline
    answer,     \* the run that the last tool call said is over, and how
    hops,       \* hops, and calls of fan-outs, beyond the first ones so far
    headAge     \* history: ticks the first job in the queue has been first

vars == <<created, runs, queue, pc, at, child, rounds, left, wait, answer,
          hops, headAge>>

RunId == 1..MaxRuns
Live == {"running", "awaiting_approval"}
Over == {"completed", "error", "cancelled"}
Row == [graph: Graphs \cup {NoGraph}, source: Graphs \cup {NoGraph},
        depth: Nat, status: {"absent"} \cup Live \cup Over]
Answer == [run: RunId \cup {NoRun}, outcome: {"none"} \cup Over]
NoAnswer == [run |-> NoRun, outcome |-> "none"]

TypeOK ==
    /\ created \in 0..MaxRuns
    /\ runs \in [RunId -> Row]
    /\ queue \in Seq(RunId)
    /\ pc \in [Slots -> {"idle", "working", "waiting"}]
    /\ at \in [Slots -> RunId \cup {NoRun}]
    /\ child \in [Slots -> RunId \cup {NoRun}]
    /\ rounds \in [Slots -> 0..MaxRounds]
    /\ left \in [Slots -> 0..HopBudget]
    /\ wait \in [Slots -> 0..PollBudget]
    /\ answer \in [Slots -> Answer]
    /\ hops \in 0..MaxHops /\ headAge \in Nat
    /\ \A s \in Slots : pc[s] # "idle" => at[s] \in RunId
    /\ \A s \in Slots : pc[s] = "waiting" => child[s] \in RunId

Init ==
    /\ created = 0
    /\ runs = [r \in RunId |-> [graph |-> NoGraph, source |-> NoGraph,
                                depth |-> 0, status |-> "absent"]]
    /\ queue = <<>>
    /\ pc = [s \in Slots |-> "idle"]
    /\ at = [s \in Slots |-> NoRun]
    /\ child = [s \in Slots |-> NoRun]
    /\ rounds = [s \in Slots |-> 0]
    /\ left = [s \in Slots |-> 0]
    /\ wait = [s \in Slots |-> 0]
    /\ answer = [s \in Slots |-> NoAnswer]
    /\ hops = 0 /\ headAge = 0

-----------------------------------------------------------------------------

GraphOf(s) == runs[at[s]].graph

\* Faulty variant: the budget of every wait comes on top.
BudgetStacked(g) == HopBudget + MaxRuns * PollBudget

Budget(g) == IF Targets[g] # {} THEN HopBudget ELSE PlainBudget
Least(a, b) == IF a <= b THEN a ELSE b

\* createRun: the row, and its first hop's job unless the entry is gated.
Create(r, g, source, depth) ==
    \E gated \in BOOLEAN :
        /\ runs' = [runs EXCEPT ![r] =
               [graph |-> g, source |-> source, depth |-> depth,
                status |-> IF gated THEN "awaiting_approval" ELSE "running"]]
        /\ queue' = IF gated THEN queue ELSE Append(queue, r)
        /\ created' = r

\* POST /runs, a schedule, a webhook.
StartRun(g) ==
    /\ created < MaxRuns
    /\ Create(created + 1, g, NoGraph, 0)
    /\ UNCHANGED <<pc, at, child, rounds, left, wait, answer, hops,
                   headAge>>

\* Faulty variant: the job of a run that is over goes back to the queue.
TakeJobAgain(s) ==
    /\ pc[s] = "idle" /\ queue # <<>>
    /\ headAge' = 0
    /\ LET r == Head(queue) IN
       IF runs[r].status = "running"
       THEN /\ pc' = [pc EXCEPT ![s] = "working"]
            /\ at' = [at EXCEPT ![s] = r]
            /\ left' = [left EXCEPT ![s] = Budget(runs[r].graph)]
            /\ queue' = Tail(queue)
       ELSE queue' = Append(Tail(queue), r) /\ UNCHANGED <<pc, at, left>>
    /\ UNCHANGED <<created, runs, child, rounds, wait, answer, hops>>

\* A free slot takes the first job; the hop of a run that was cancelled
\* returns at once.
TakeJob(s) ==
    /\ pc[s] = "idle" /\ queue # <<>>
    /\ queue' = Tail(queue) /\ headAge' = 0
    /\ LET r == Head(queue) IN
       IF runs[r].status = "running"
       THEN /\ pc' = [pc EXCEPT ![s] = "working"]
            /\ at' = [at EXCEPT ![s] = r]
            /\ left' = [left EXCEPT ![s] = Budget(runs[r].graph)]
       ELSE UNCHANGED <<pc, at, left>>
    /\ UNCHANGED <<created, runs, child, rounds, wait, answer, hops>>

\* Faulty variant: a flat budget per call.
WaitBudgetFlat(s) == PollBudget

\* What is left for a wait: the hop's own time less the margin, shrinking with
\* every call of the hop.
WaitBudget(s) ==
    IF left[s] <= Margin THEN 0 ELSE Least(PollBudget, left[s] - Margin)

\* Faulty variant: off by one.
DepthAllowedLate(d) == d - 1 <= MaxDepth

DepthAllowed(d) == d <= MaxDepth

\* dispatch_to_graph, as the model calls it before the abort signal ends its
\* loop.  A call beyond the depth limit is refused and changes nothing.
DispatchToGraph(s, g) ==
    /\ pc[s] = "working" /\ left[s] > 0
    /\ g \in Targets[GraphOf(s)]
    /\ DepthAllowed(runs[at[s]].depth + 1)
    /\ created < MaxRuns
    /\ Create(created + 1, g, GraphOf(s), runs[at[s]].depth + 1)
    /\ pc' = [pc EXCEPT ![s] = "waiting"]
    /\ child' = [child EXCEPT ![s] = created + 1]
    /\ wait' = [wait EXCEPT ![s] = WaitBudget(s)]
    /\ UNCHANGED <<at, rounds, left, answer, hops, headAge>>

\* What the hop keeps of a report on run r.
Report(r) == IF runs[r].status \in Over
             THEN [run |-> r, outcome |-> runs[r].status]
             ELSE NoAnswer

\* Only these end a wait before its deadline: a child that is cancelled or
\* waits for an approval is waited for to the end and reported still_running.
Answers == {"completed", "error"}

PollDue(s) == runs[child[s]].status \in Answers \/ wait[s] = 0

\* waitForDispatchedRun returns and the tool answers.
PollReturns(s) ==
    /\ pc[s] = "waiting" /\ PollDue(s)
    /\ pc' = [pc EXCEPT ![s] = "working"]
    /\ answer' = [answer EXCEPT ![s] =
           IF runs[child[s]].status \in Answers THEN Report(child[s])
           ELSE NoAnswer]
    /\ child' = [child EXCEPT ![s] = NoRun]
    /\ wait' = [wait EXCEPT ![s] = 0]
    /\ UNCHANGED <<created, runs, queue, at, rounds, left, hops, headAge>>

\* Faulty variant: whoever dispatched them.
RunsOf(g, source) == {r \in 1..created : runs[r].graph = g}

\* The runs check_dispatch_status may report on: those this graph dispatched
\* into g.
DispatchedInto(g, source) ==
    {r \in 1..created : runs[r].graph = g /\ runs[r].source = source}

\* The most recent of them, whichever hop started it.
CheckDispatchStatus(s, g) ==
    /\ pc[s] = "working" /\ left[s] > 0
    /\ g \in Targets[GraphOf(s)]
    /\ \E r \in DispatchedInto(g, GraphOf(s)) :
        /\ \A q \in DispatchedInto(g, GraphOf(s)) : q <= r
        /\ answer' = [answer EXCEPT ![s] = Report(r)]
    /\ UNCHANGED <<created, runs, queue, pc, at, child, rounds, left, wait,
                   hops, headAge>>

\* The slot is free again.
Release(s) ==
    /\ pc' = [pc EXCEPT ![s] = "idle"]
    /\ at' = [at EXCEPT ![s] = NoRun]
    /\ child' = [child EXCEPT ![s] = NoRun]
    /\ rounds' = [rounds EXCEPT ![s] = 0]
    /\ left' = [left EXCEPT ![s] = 0]
    /\ wait' = [wait EXCEPT ![s] = 0]
    /\ answer' = [answer EXCEPT ![s] = NoAnswer]
    /\ UNCHANGED <<created, headAge>>

\* The hop's outcome is written unless the run was cancelled meanwhile.
Ends(r, status) ==
    runs' = [runs EXCEPT ![r].status = IF @ = "cancelled" THEN @ ELSE status]

\* A plain hop completes the run, pauses it or fails it; a fan-out, which goes
\* on to its aggregator, does not complete it.
Settle(s) ==
    /\ \E status \in {"error", "awaiting_approval"}
                      \cup (IF rounds[s] = 0 THEN {"completed"} ELSE {}) :
           Ends(at[s], status)
    /\ UNCHANGED <<queue, hops>>
    /\ Release(s)

\* advanceRun: the next hop of the same run.
Advance(s) ==
    /\ runs[at[s]].status # "cancelled"
    /\ hops < MaxHops /\ hops' = hops + 1
    /\ queue' = Append(queue, at[s])
    /\ UNCHANGED runs
    /\ Release(s)

\* The next call of a fan-out, inside the same job and with a new budget;
\* nothing looks for a cancel here.
NextBranch(s) ==
    /\ rounds[s] < MaxRounds
    /\ hops < MaxHops /\ hops' = hops + 1
    /\ rounds' = [rounds EXCEPT ![s] = @ + 1]
    /\ pc' = [pc EXCEPT ![s] = "working"]
    /\ child' = [child EXCEPT ![s] = NoRun]
    /\ left' = [left EXCEPT ![s] = Budget(GraphOf(s))]
    /\ wait' = [wait EXCEPT ![s] = 0]
    /\ answer' = [answer EXCEPT ![s] = NoAnswer]
    /\ UNCHANGED <<created, runs, queue, at, headAge>>

\* What follows a call of the job.
EndHop(s) == pc[s] = "working" /\ Settle(s)
NextHop(s) == pc[s] = "working" /\ Advance(s)
FanOut(s) == pc[s] = "working" /\ NextBranch(s)

\* withNodeTimeout: the run fails if the call is the hop's own, but a branch
\* fails alone and its job goes on.
HopTimesOut(s) ==
    /\ pc[s] # "idle" /\ left[s] = 0
    /\ IF rounds[s] = 0
       THEN Ends(at[s], "error") /\ UNCHANGED <<queue, hops>> /\ Release(s)
       ELSE Settle(s) \/ Advance(s) \/ NextBranch(s)

\* POST /runs/:id/approve.
Approve(r) ==
    /\ runs[r].status = "awaiting_approval"
    /\ hops < MaxHops /\ hops' = hops + 1
    /\ runs' = [runs EXCEPT ![r].status = "running"]
    /\ queue' = Append(queue, r)
    /\ UNCHANGED <<created, pc, at, child, rounds, left, wait, answer, headAge>>

\* POST /runs/:id/cancel.  The runs it dispatched, and the hop that waits for
\* it, go on.
Cancel(r) ==
    /\ runs[r].status \in Live
    /\ runs' = [runs EXCEPT ![r].status = "cancelled"]
    /\ UNCHANGED <<created, queue, pc, at, child, rounds, left, wait, answer,
                   hops, headAge>>

Down(n) == IF n = 0 THEN 0 ELSE n - 1

\* Time passes when nothing is due: no free slot has a job to take, no poll an
\* answer, no hop is past its deadline.
Tick ==
    /\ \E s \in Slots : pc[s] # "idle"
    /\ queue # <<>> => \A s \in Slots : pc[s] # "idle"
    /\ \A s \in Slots : pc[s] = "waiting" => ~PollDue(s)
    /\ \A s \in Slots : pc[s] # "idle" => left[s] > 0
    /\ left' = [s \in Slots |-> Down(left[s])]
    /\ wait' = [s \in Slots |-> Down(wait[s])]
    /\ headAge' = IF queue = <<>> THEN 0 ELSE headAge + 1
    /\ UNCHANGED <<created, runs, queue, pc, at, child, rounds, answer, hops>>

SlotStep(s) ==
    \/ TakeJob(s) \/ PollReturns(s)
    \/ EndHop(s) \/ NextHop(s) \/ FanOut(s) \/ HopTimesOut(s)
    \/ \E g \in Graphs : DispatchToGraph(s, g) \/ CheckDispatchStatus(s, g)

Next ==
    \/ Tick
    \/ \E g \in Graphs : StartRun(g)
    \/ \E s \in Slots : SlotStep(s)
    \/ \E r \in RunId : Approve(r) \/ Cancel(r)

Spec == Init /\ [][Next]_vars

\* Slots take jobs, polls return and timers fire; that a model ever answers is
\* not assumed.
Fairness ==
    /\ WF_vars(Tick)
    /\ \A s \in Slots :
           WF_vars(TakeJob(s)) /\ WF_vars(PollReturns(s))
           /\ WF_vars(HopTimesOut(s))

FairSpec == Spec /\ Fairness

-----------------------------------------------------------------------------
(* Properties.                                                             *)

\* Every wait ends before the deadline of the call that waits, however many
\* dispatches that call has made: dispatch_to_graph answers and the timer never
\* strikes a call that is waiting (the shrinking budget of dispatchTool.ts).
WaitEndsInTime == \A s \in Slots : pc[s] = "waiting" => wait[s] < left[s]

\* Graphs that dispatch to each other cannot recurse: a hop that waits, waits
\* for a younger run one level deeper, and no run is deeper than MaxDepth, so a
\* chain of hops that wait for each other has at most MaxDepth links.
ChainsEnd ==
    /\ \A r \in RunId : runs[r].status # "absent" => runs[r].depth <= MaxDepth
    /\ \A s \in Slots : pc[s] = "waiting" =>
           /\ at[s] < child[s]
           /\ runs[child[s]].depth = runs[at[s]].depth + 1
           /\ runs[child[s]].source = GraphOf(s)

\* A pool full of hops that wait for runs behind them in the queue comes free:
\* the first job never waits longer than one job can hold a slot, a budget for
\* each of its calls.  (dispatchHop, dispatchConsensus, dispatchMap)
SlotsComeFree == headAge <= (1 + MaxRounds) * HopBudget

\* What a hop was told of a run that is over stays so, and concerns a run that
\* its own graph dispatched.
AnswersHold ==
    \A s \in Slots :
        LET a == answer[s] IN
        a.run # NoRun =>
            /\ runs[a.run].source = GraphOf(s)
            /\ runs[a.run].status = a.outcome

\* A job in the queue is taken, even when every slot is held by a hop that
\* waits for the run of that job.
QueuedRunsStart ==
    \A r \in RunId :
        (\E i \in DOMAIN queue : queue[i] = r)
            ~> ~\E i \in DOMAIN queue : queue[i] = r
=============================================================================
