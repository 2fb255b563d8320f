---------------------------- MODULE RunLifecycle ----------------------------
(***************************************************************************)
(* One run of an agent graph: its row in `runs`, its trail in              *)
(* `run_events`, its jobs in the run-dispatch queue, and everyone who acts *)
(* on them: the worker slots that execute hops (dispatchHop), the API call *)
(* that created the run, and the approve and cancel requests.  Every       *)
(* `await` of the code is a step of its own, so that all the interleavings *)
(* of a hop with the requests, and of a hop with its own redelivery, are   *)
(* behaviours of the specification.                                        *)
(*                                                                         *)
(* Abstracted: what a model says is the edge it takes and whether it reads *)
(* as NEEDS_REVISION; an input is the number of the event whose output it  *)
(* repeats verbatim, or 0 (the request, an edited, annotated or composed   *)
(* text).  A fan-out hop (consensus, map) is not taken here: see FanOut.   *)
(***************************************************************************)
EXTENDS Integers, Sequences, FiniteSets

CONSTANTS
    Nodes,           \* agent nodes of the graph
    Entry,           \* agent_graphs.entry_node_id
    Gated,           \* nodes with an approvalConfig
    Reviewers,       \* nodes of role "reviewer"
    Edges,           \* the edges that exist at some time: [from, to, kind]
    NoNode,          \* "no next node"
    Slots,           \* worker slots (WORKER_CONCURRENCY over all workers)
    Creator,         \* the API call that runs createRun
    Approvals,       \* approve requests, each made at most once
    Cancels,         \* cancel requests, each made at most once
    MaxRedeliveries  \* bound on jobs delivered again after a lost lock

Kinds == {"explicit", "auto"}

ASSUME GraphAssumption ==
    /\ Entry \in Nodes
    /\ Gated \subseteq Nodes
    /\ Reviewers \subseteq Nodes
    /\ Edges \subseteq [from: Nodes, to: Nodes, kind: Kinds]
    /\ NoNode \notin Nodes

ASSUME ProcessAssumption ==
    /\ Creator \notin Slots \cup Approvals \cup Cancels
    /\ Slots \cap Approvals = {} /\ Slots \cap Cancels = {}
    /\ Approvals \cap Cancels = {}
    /\ MaxRedeliveries \in Nat

Movers   == Slots \cup {Creator}
Requests == Approvals \cup Cancels
Procs    == Movers \cup Requests

VARIABLES
    run,           \* the row: [status, node, input]
    log,           \* run_events: log[k] is the row with sequence k - 1
    queue,         \* run-dispatch jobs of this run not yet taken
    pc,            \* what each process does next
    hop,           \* a slot's locals: the row as it read it, its sequence
    target,        \* where a mover advances the run: [node, input]
    req,           \* a request's locals: the row as it read it, its sequence
    redeliveries,  \* jobs delivered again so far
    calls,         \* history: model calls started, per node
    grants,        \* history: pauses released by an approve, per node
    pauses         \* history: pauses so far

vars == <<run, log, queue, pc, hop, target, req, redeliveries,
          calls, grants, pauses>>

Live     == {"pending", "running"}
Terminal == {"completed", "error", "cancelled"}
Status   == {"absent", "awaiting_approval"} \cup Live \cup Terminal

SlotPC == {"idle", "start", "reserve", "model", "failing", "fail", "record",
           "visited", "advance", "enqueue", "gate", "complete", "throwing"}
ReqPC  == {"idle", "decide", "sequence", "insert", "enqueue", "publish",
           "done", "aborted"}

Event == [node: Nodes,
          status: {"succeeded", "failed", "approved", "cancelled"},
          revise: BOOLEAN]

Row    == [status: Status, node: Nodes, input: Nat]
Hop    == [node: Nodes, input: Nat, seq: Nat, next: Nodes \cup {NoNode},
           kind: Kinds, revise: BOOLEAN]
Target == [node: Nodes, input: Nat]
Req    == [node: Nodes, input: Nat, seq: Nat, pause: Nat]

TypeOK ==
    /\ run \in Row
    /\ log \in Seq(Event)
    /\ queue \in Nat
    /\ pc \in [Procs -> SlotPC \cup ReqPC]
    /\ hop \in [Slots -> Hop]
    /\ target \in [Movers -> Target]
    /\ req \in [Requests -> Req]
    /\ redeliveries \in Nat
    /\ calls \in [Nodes -> Nat]
    /\ grants \in [Nodes -> Nat]
    /\ pauses \in Nat

Init ==
    /\ run = [status |-> "absent", node |-> Entry, input |-> 0]
    /\ log = <<>>
    /\ queue = 0
    /\ pc = [p \in Procs |-> "idle"]
    /\ hop = [s \in Slots |-> [node |-> Entry, input |-> 0, seq |-> 0,
                               next |-> NoNode, kind |-> "auto",
                               revise |-> FALSE]]
    /\ target = [p \in Movers |-> [node |-> Entry, input |-> 0]]
    /\ req = [r \in Requests |->
                [node |-> Entry, input |-> 0, seq |-> 0, pause |-> 0]]
    /\ redeliveries = 0
    /\ calls = [n \in Nodes |-> 0]
    /\ grants = [n \in Nodes |-> 0]
    /\ pauses = 0

-----------------------------------------------------------------------------
(* The run's trail, and what the engine reads off it.                      *)

Go(p, l) == pc' = [pc EXCEPT ![p] = l]

SetStatus(s) == run' = [run EXCEPT !.status = s]

\* nextSequence: one more than the highest sequence of the run.
NextSequence == Len(log) + 1

\* The unique index on (run_id, sequence): a row at k is refused when there
\* already is one.
Free(k) == k \notin DOMAIN log

NewEvent(n, status, revise) ==
    [node |-> n, status |-> status, revise |-> revise]

Insert(event) == log' = Append(log, event)

\* The succeeded events of a node before sequence k, and of any node.
Succeeded(n, k) ==
    {i \in DOMAIN log : i < k /\ log[i].status = "succeeded" /\ log[i].node = n}

AnySucceeded(k) == {i \in DOMAIN log : i < k /\ log[i].status = "succeeded"}

\* The last succeeded event before k, 0 when there is none.
LastSucceeded(k) ==
    IF AnySucceeded(k) = {} THEN 0
    ELSE CHOOSE i \in AnySucceeded(k) : \A j \in AnySucceeded(k) : j <= i

Visited(n) == Succeeded(n, Len(log) + 1) # {}

\* reviewGateFor: the hop reviews the previous hop iff its node is a reviewer
\* whose input is exactly what the last succeeded hop produced.
IsReviewGate(h) ==
    /\ h.node \in Reviewers
    /\ AnySucceeded(h.seq) # {}
    /\ h.input = LastSucceeded(h.seq)

\* The first NEEDS_REVISION of a gate goes back to the author of the draft.
WantsRevision(h) ==
    /\ IsReviewGate(h)
    /\ Succeeded(h.node, h.seq) = {}
    /\ h.revise

Author(h) == log[h.input].node

\* The one revisit the cycle guard allows: the last two succeeded hops are
\* this node's draft and then the reviewer's first verdict on it.
RevisedDraftReturning(h) ==
    LET verdict == LastSucceeded(h.seq)
        draft   == LastSucceeded(verdict)
    IN  /\ h.next \in Reviewers
        /\ AnySucceeded(h.seq) # {} /\ AnySucceeded(verdict) # {}
        /\ log[verdict].node = h.next
        /\ log[draft].node = h.node
        /\ log[verdict].revise
        /\ Succeeded(h.next, h.seq) = {verdict}

\* What leaves the hop: an auto edge repeats the hop's own input, a review
\* gate hands on the reviewed content with a note, any other hop its output.
HandedOn(h) ==
    IF h.kind = "auto" THEN h.input ELSE IF IsReviewGate(h) THEN 0 ELSE h.seq

-----------------------------------------------------------------------------
(* Advancing the run: createRun and every hop end here (advanceRun).       *)

\* POST /runs: the row is inserted, pending at the entry node.
CreateRun ==
    /\ pc[Creator] = "idle"
    /\ run.status = "absent"
    /\ run' = [status |-> "pending", node |-> Entry, input |-> 0]
    /\ target' = [target EXCEPT ![Creator] = [node |-> Entry, input |-> 0]]
    /\ Go(Creator, "advance")
    /\ UNCHANGED <<log, queue, hop, req, redeliveries, calls, grants, pauses>>

\* A slot goes back to its queue, an API call is over.
Rest(p) == IF p \in Slots THEN "idle" ELSE "done"

\* Faulty variant: the hop is enqueued whether or not its node is gated.
AdvancePastGate(p) ==
    /\ pc[p] = "advance"
    /\ IF run.status = "cancelled"
       THEN Go(p, Rest(p)) /\ UNCHANGED run
       ELSE /\ run' = [run EXCEPT !.node = target[p].node,
                                  !.input = target[p].input]
            /\ Go(p, "enqueue")
    /\ UNCHANGED <<log, queue, hop, target, req, redeliveries,
                   calls, grants, pauses>>

\* Faulty variant: the run pauses without having been moved to the gated node.
AdvanceLeavingNode(p) ==
    /\ pc[p] = "advance"
    /\ IF run.status = "cancelled"
       THEN Go(p, Rest(p)) /\ UNCHANGED run
       ELSE IF target[p].node \in Gated
       THEN Go(p, "gate") /\ UNCHANGED run
       ELSE /\ run' = [run EXCEPT !.node = target[p].node,
                                  !.input = target[p].input]
            /\ Go(p, "enqueue")
    /\ UNCHANGED <<log, queue, hop, target, req, redeliveries,
                   calls, grants, pauses>>

\* The guarded write of current_node_id and input.
Advance(p) ==
    /\ pc[p] = "advance"
    /\ IF run.status = "cancelled"
       THEN /\ Go(p, Rest(p))
            /\ UNCHANGED run
       ELSE /\ run' = [run EXCEPT !.node = target[p].node,
                                  !.input = target[p].input]
            /\ Go(p, IF target[p].node \in Gated THEN "gate" ELSE "enqueue")
    /\ UNCHANGED <<log, queue, hop, target, req, redeliveries,
                   calls, grants, pauses>>

EnqueueHop(p) ==
    /\ pc[p] = "enqueue"
    /\ queue' = queue + 1
    /\ Go(p, Rest(p))
    /\ UNCHANGED <<run, log, hop, target, req, redeliveries,
                   calls, grants, pauses>>

\* The second guarded write, when the next node is gated.
PauseAtGate(p) ==
    /\ pc[p] = "gate"
    /\ IF run.status = "cancelled"
       THEN UNCHANGED <<run, pauses>>
       ELSE /\ SetStatus("awaiting_approval")
            /\ pauses' = pauses + 1
    /\ Go(p, Rest(p))
    /\ UNCHANGED <<log, queue, hop, target, req, redeliveries, calls, grants>>

-----------------------------------------------------------------------------
(* dispatchHop: one job, one hop.                                          *)

\* Faulty variant: a slot runs a hop nobody enqueued.
TakeAnyJob(s) ==
    /\ pc[s] = "idle"
    /\ queue' = queue - 1
    /\ IF run.status \in Live
       THEN /\ hop' = [hop EXCEPT ![s] =
                        [@ EXCEPT !.node = run.node, !.input = run.input]]
            /\ Go(s, "start")
       ELSE UNCHANGED <<hop, pc>>
    /\ UNCHANGED <<run, log, target, req, redeliveries, calls, grants, pauses>>

\* A slot takes a job and reads the row: nothing to do for a run that is over
\* or waiting for approval.
TakeJob(s) ==
    /\ pc[s] = "idle"
    /\ queue > 0
    /\ queue' = queue - 1
    /\ IF run.status \in Live
       THEN /\ hop' = [hop EXCEPT ![s] =
                        [@ EXCEPT !.node = run.node, !.input = run.input]]
            /\ Go(s, "start")
       ELSE UNCHANGED <<hop, pc>>
    /\ UNCHANGED <<run, log, target, req, redeliveries, calls, grants, pauses>>

\* Faulty variant: the write of "running" is not guarded.
StartHopUnguarded(s) ==
    /\ pc[s] = "start"
    /\ SetStatus("running")
    /\ Go(s, "reserve")
    /\ UNCHANGED <<log, queue, hop, target, req, redeliveries,
                   calls, grants, pauses>>

\* The write of "running", guarded against a cancel that came in between.
StartHop(s) ==
    /\ pc[s] = "start"
    /\ IF run.status = "cancelled"
       THEN Go(s, "idle") /\ UNCHANGED run
       ELSE Go(s, "reserve") /\ SetStatus("running")
    /\ UNCHANGED <<log, queue, hop, target, req, redeliveries,
                   calls, grants, pauses>>

\* The hop's sequence is read here and used after the model call.
CallModel(s) ==
    /\ pc[s] = "reserve"
    /\ hop' = [hop EXCEPT ![s].seq = NextSequence]
    /\ calls' = [calls EXCEPT ![hop[s].node] = @ + 1]
    /\ Go(s, "model")
    /\ UNCHANGED <<run, log, queue, target, req, redeliveries, grants, pauses>>

\* The call failed, or lost the race against the node's timeout.
ModelFails(s) ==
    /\ pc[s] = "model"
    /\ Go(s, "failing")
    /\ UNCHANGED <<run, log, queue, hop, target, req, redeliveries,
                   calls, grants, pauses>>

\* The call answered: resolveNextHop picks an edge out of the node, or none.
ModelAnswers(s) ==
    /\ pc[s] = "model"
    /\ \E next \in Nodes \cup {NoNode}, kind \in Kinds, revise \in BOOLEAN :
        /\ \/ next = NoNode /\ kind = "explicit"
           \/ [from |-> hop[s].node, to |-> next, kind |-> kind] \in Edges
        /\ revise => hop[s].node \in Reviewers
        /\ hop' = [hop EXCEPT ![s] =
                    [@ EXCEPT !.next = next, !.kind = kind, !.revise = revise]]
    /\ Go(s, "record")
    /\ UNCHANGED <<run, log, queue, target, req, redeliveries,
                   calls, grants, pauses>>

\* A failed hop writes its event, then the run's error.
RecordFailure(s) ==
    /\ pc[s] = "failing"
    /\ IF Free(hop[s].seq)
       THEN Insert(NewEvent(hop[s].node, "failed", FALSE)) /\ Go(s, "fail")
       ELSE Go(s, "throwing") /\ UNCHANGED log
    /\ UNCHANGED <<run, queue, hop, target, req, redeliveries,
                   calls, grants, pauses>>

FailRun(s) ==
    /\ pc[s] = "fail"
    /\ IF run.status = "cancelled" THEN UNCHANGED run ELSE SetStatus("error")
    /\ Go(s, "idle")
    /\ UNCHANGED <<log, queue, hop, target, req, redeliveries,
                   calls, grants, pauses>>

\* A hop that succeeded writes its event; then it asks for a revision, ends
\* the run, or looks whether the next node was visited.
RecordSuccess(s) ==
    /\ pc[s] = "record"
    /\ IF ~Free(hop[s].seq)
       THEN Go(s, "throwing") /\ UNCHANGED <<log, target>>
       ELSE /\ Insert(NewEvent(hop[s].node, "succeeded", hop[s].revise))
            /\ IF WantsRevision(hop[s])
               THEN /\ target' = [target EXCEPT ![s] =
                                    [node |-> Author(hop[s]), input |-> 0]]
                    /\ Go(s, "advance")
               ELSE /\ Go(s, IF hop[s].next = NoNode THEN "complete"
                             ELSE "visited")
                    /\ UNCHANGED target
    /\ UNCHANGED <<run, queue, hop, req, redeliveries, calls, grants, pauses>>

\* The cycle guard.
CheckVisited(s) ==
    /\ pc[s] = "visited"
    /\ IF Visited(hop[s].next) /\ ~RevisedDraftReturning(hop[s])
       THEN Go(s, "complete") /\ UNCHANGED target
       ELSE /\ target' = [target EXCEPT ![s] =
                            [node |-> hop[s].next, input |-> HandedOn(hop[s])]]
            /\ Go(s, "advance")
    /\ UNCHANGED <<run, log, queue, hop, req, redeliveries,
                   calls, grants, pauses>>

\* Faulty variant: the write of "completed" is not guarded.
CompleteRunUnguarded(s) ==
    /\ pc[s] = "complete"
    /\ SetStatus("completed")
    /\ Go(s, "idle")
    /\ UNCHANGED <<log, queue, hop, target, req, redeliveries,
                   calls, grants, pauses>>

CompleteRun(s) ==
    /\ pc[s] = "complete"
    /\ IF run.status = "cancelled"
       THEN UNCHANGED run
       ELSE SetStatus("completed")
    /\ Go(s, "idle")
    /\ UNCHANGED <<log, queue, hop, target, req, redeliveries,
                   calls, grants, pauses>>

\* Any await of a hop can reject instead of taking effect: the row or the
\* graph cannot be read, a node is gone, the database or Redis is away.  (What
\* the model call throws is caught: ModelFails.)
Busy == SlotPC \ {"idle", "model", "throwing"}

Throw(s) ==
    /\ pc[s] \in Busy
    /\ Go(s, "throwing")
    /\ UNCHANGED <<run, log, queue, hop, target, req, redeliveries,
                   calls, grants, pauses>>

\* Faulty variant: a hop that throws leaves the run as it was.
BackstopMissing(s) ==
    /\ pc[s] = "throwing"
    /\ Go(s, "idle")
    /\ UNCHANGED <<run, log, queue, hop, target, req, redeliveries,
                   calls, grants, pauses>>

\* failRunOnUnexpectedError, the backstop of dispatchHop.
Backstop(s) ==
    /\ pc[s] = "throwing"
    /\ IF run.status \in Live THEN SetStatus("error") ELSE UNCHANGED run
    /\ Go(s, "idle")
    /\ UNCHANGED <<log, queue, hop, target, req, redeliveries,
                   calls, grants, pauses>>

\* Its own write rejects: the job fails, the worker logs that, and nothing
\* tries it again.
BackstopRejects(s) ==
    /\ pc[s] = "throwing"
    /\ Go(s, "idle")
    /\ UNCHANGED <<run, log, queue, hop, target, req, redeliveries,
                   calls, grants, pauses>>

-----------------------------------------------------------------------------
(* POST /runs/:id/approve and /cancel.                                     *)

\* The request reads the row; the guards that read it answer 409 at once.
ReadRun(r) ==
    req' = [req EXCEPT ![r] = [node |-> run.node, input |-> run.input,
                               seq |-> 0, pause |-> pauses]]

ApproveRead(r) ==
    /\ pc[r] = "idle"
    /\ run.status # "absent"
    /\ ReadRun(r)
    /\ Go(r, IF run.status = "awaiting_approval" /\ run.node \in Gated
             THEN "decide" ELSE "done")
    /\ UNCHANGED <<run, log, queue, hop, target, redeliveries,
                   calls, grants, pauses>>

\* Faulty variant: the write back to pending is not conditional.
ApproveDecideUnguarded(r) ==
    /\ pc[r] = "decide"
    /\ \E input \in {0, req[r].input} :
         run' = [run EXCEPT !.status = "pending", !.input = input]
    /\ grants' = [grants EXCEPT ![run.node] = @ + 1]
    /\ Go(r, "sequence")
    /\ UNCHANGED <<log, queue, hop, target, req, redeliveries, calls, pauses>>

\* One conditional write back to pending, with the input as read or edited.
ApproveDecide(r) ==
    /\ pc[r] = "decide"
    /\ IF run.status = "awaiting_approval"
       THEN \E input \in {0, req[r].input} :
              /\ run' = [run EXCEPT !.status = "pending", !.input = input]
              /\ grants' = [grants EXCEPT ![run.node] = @ + 1]
              /\ Go(r, "sequence")
       ELSE Go(r, "done") /\ UNCHANGED <<run, grants>>
    /\ UNCHANGED <<log, queue, hop, target, req, redeliveries, calls, pauses>>

CancelRead(r) ==
    /\ pc[r] = "idle"
    /\ run.status # "absent"
    /\ ReadRun(r)
    /\ Go(r, IF run.status \in Terminal THEN "done" ELSE "decide")
    /\ UNCHANGED <<run, log, queue, hop, target, redeliveries,
                   calls, grants, pauses>>

CancelDecide(r) ==
    /\ pc[r] = "decide"
    /\ IF run.status \in Live \cup {"awaiting_approval"}
       THEN SetStatus("cancelled") /\ Go(r, "sequence")
       ELSE UNCHANGED run /\ Go(r, "done")
    /\ UNCHANGED <<log, queue, hop, target, req, redeliveries,
                   calls, grants, pauses>>

\* The decision's audit row: its sequence is read, then it is inserted, and
\* a taken sequence ends the request with a 409.
DecisionSequence(r) ==
    /\ pc[r] = "sequence"
    /\ req' = [req EXCEPT ![r].seq = NextSequence]
    /\ Go(r, "insert")
    /\ UNCHANGED <<run, log, queue, hop, target, redeliveries,
                   calls, grants, pauses>>

RecordDecision(r, status, after) ==
    /\ pc[r] = "insert"
    /\ IF Free(req[r].seq)
       THEN Insert(NewEvent(req[r].node, status, FALSE)) /\ Go(r, after)
       ELSE Go(r, "aborted") /\ UNCHANGED log
    /\ UNCHANGED <<run, queue, hop, target, req, redeliveries,
                   calls, grants, pauses>>

ApproveRecord(r) == RecordDecision(r, "approved", "enqueue")
CancelRecord(r)  == RecordDecision(r, "cancelled", "publish")

\* run_cancelled goes out to the run's watchers.
CancelPublish(r) ==
    /\ pc[r] = "publish"
    /\ Go(r, "done")
    /\ UNCHANGED <<run, log, queue, hop, target, req, redeliveries,
                   calls, grants, pauses>>

-----------------------------------------------------------------------------
(* What the queue and the processes' hosts may do to all of this.          *)

\* A job whose lock lapsed is delivered again while its first handler still
\* runs (BullMQ's stalled-job check).
Redeliver(s) ==
    /\ pc[s] # "idle"
    /\ redeliveries < MaxRedeliveries
    /\ queue' = queue + 1
    /\ redeliveries' = redeliveries + 1
    /\ UNCHANGED <<run, log, pc, hop, target, req, calls, grants, pauses>>

\* The worker dies in a hop; its job, too, is delivered again.
Crash(s) ==
    /\ pc[s] # "idle"
    /\ redeliveries < MaxRedeliveries
    /\ queue' = queue + 1
    /\ redeliveries' = redeliveries + 1
    /\ Go(s, "idle")
    /\ UNCHANGED <<run, log, hop, target, req, calls, grants, pauses>>

\* The API dies, or an await rejects, in the middle of a call: nobody
\* finishes it.
ApiFails(p) ==
    /\ pc[p] \notin {"idle", "done", "aborted"}
    /\ Go(p, "aborted")
    /\ UNCHANGED <<run, log, queue, hop, target, req, redeliveries,
                   calls, grants, pauses>>

-----------------------------------------------------------------------------
HopStep(s) ==
    \/ TakeJob(s) \/ StartHop(s) \/ CallModel(s)
    \/ ModelFails(s) \/ RecordFailure(s) \/ FailRun(s)
    \/ ModelAnswers(s) \/ RecordSuccess(s) \/ CheckVisited(s)
    \/ Advance(s) \/ EnqueueHop(s) \/ PauseAtGate(s) \/ CompleteRun(s)
    \/ Throw(s) \/ Backstop(s)

CreatorStep ==
    \/ CreateRun
    \/ Advance(Creator) \/ EnqueueHop(Creator) \/ PauseAtGate(Creator)

ApproveStep(r) ==
    \/ ApproveDecide(r) \/ DecisionSequence(r) \/ ApproveRecord(r)
    \/ EnqueueHop(r)

CancelStep(r) ==
    \/ CancelDecide(r) \/ DecisionSequence(r) \/ CancelRecord(r)
    \/ CancelPublish(r)

\* Every job is delivered once, every API call runs to its end, and what
\* throws reaches a backstop that can write.
Next ==
    \/ \E s \in Slots : HopStep(s)
    \/ CreatorStep
    \/ \E r \in Approvals : ApproveRead(r) \/ ApproveStep(r)
    \/ \E r \in Cancels : CancelRead(r) \/ CancelStep(r)

Spec == Init /\ [][Next]_vars

\* Jobs can be delivered again, workers and API calls can die, and a database
\* that made a hop throw can refuse the backstop as well.
FaultyNext ==
    \/ Next
    \/ \E s \in Slots : Redeliver(s) \/ Crash(s) \/ BackstopRejects(s)
    \/ \E p \in {Creator} \cup Requests : ApiFails(p)

FaultySpec == Init /\ [][FaultyNext]_vars

\* The processes keep running; nobody has to make a request.
FairSpec ==
    /\ Spec
    /\ \A s \in Slots : WF_vars(HopStep(s))
    /\ WF_vars(CreatorStep)
    /\ \A r \in Approvals : WF_vars(ApproveStep(r))
    /\ \A r \in Cancels : WF_vars(CancelStep(r))

-----------------------------------------------------------------------------
(* Properties.                                                             *)

\* "Never a double-enqueued hop": the run has at most one hop on its way, be it
\* a job, a slot at work, or an API call about to enqueue, and none while it
\* waits at a gate.  (advanceRun, POST /runs/:id/approve)
Holds(p) ==
    \/ p \in Slots /\ pc[p] # "idle"
    \/ p = Creator /\ pc[p] \in {"advance", "enqueue", "gate"}
    \/ p \in Approvals /\ pc[p] \in {"sequence", "insert", "enqueue"}

SingleFlight ==
    /\ \A p, q \in Procs : Holds(p) /\ Holds(q) => p = q
    /\ queue > 0 => queue = 1 /\ \A p \in Procs : ~Holds(p)
    /\ run.status = "awaiting_approval" =>
         queue = 0 /\ \A p \in Procs : ~Holds(p)

\* "It must not execute the very hop the gate exists to hold": a gated node's
\* model is called no more often than a human released a pause at that node.
\* (dispatchHopInner, advanceRun)
GateHolds == \A n \in Gated : calls[n] <= grants[n]

\* A run that is over stays as it is, whatever still runs on its behalf.
\* (TERMINAL_RUN_STATUSES and the status guards of engine.ts)
TerminalIsFinal ==
    [][run.status \in Terminal => run'.status = run.status]_vars

\* "Cancelled is sticky", also when jobs are delivered twice and processes
\* die: no write of a hop still in flight undoes a cancel.  (engine.ts)
CancelIsSticky ==
    [][run.status = "cancelled" => run'.status = "cancelled"]_vars

\* A run does not hang while nothing but its hops' own steps fails: it ends, or
\* it waits for a human.  (the job queue, dispatchHop's backstop, the cycle
\* guard and the one revision round)
RunSettles ==
    run.status \in Live ~> run.status \in Terminal \cup {"awaiting_approval"}

\* Each redelivery adds at most one hop in flight, however the duplicates then
\* pause, get approved and finish.  (advanceRun, POST /runs/:id/approve)
FlightBound ==
    queue + Cardinality({p \in Procs : Holds(p)})
          + (IF run.status = "awaiting_approval" THEN 1 ELSE 0)
        <= 1 + redeliveries

\* What the API's clients may rely on while every job is delivered once: the
\* row moves as RunContract says, a gate's permits being the releases of its
\* pauses that no model call has used up.  (runs.status, runs.current_node_id)
Permits == [n \in Gated |-> grants[n] - calls[n]]

Contract == INSTANCE RunContract WITH
    status  <- run.status,
    node    <- run.node,
    permits <- Permits

KeepsContract == Contract!Spec

\* "Every approve/cancel writes a run_events row": a request that changed the
\* run's status ends with its row in the trail.  (docs/orchestration.md)
EveryDecisionRecorded == \A r \in Requests : pc[r] # "aborted"

\* "Two reviewers racing each other means exactly one request's UPDATE
\* matches": of the approvals that read the same pause, one wins.
OneWinnerPerPause ==
    [][\A r \in Approvals :
        pc[r] = "decide" /\ pc'[r] = "sequence" => req[r].pause = pauses]_vars

=============================================================================
