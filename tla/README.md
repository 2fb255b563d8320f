# OpenBots in TLA+

OpenBots runs graphs of agents.  A *run* walks a graph one *hop* at a time: a
job in a BullMQ queue makes a worker call the current node's model, record the
outcome, choose the next node and enqueue the next hop.  Postgres holds the run
and its trail, Redis the jobs, an HTTP API starts runs and lets people approve
or cancel them while hops are in flight.  This directory models that system in
TLA+, checks it with TLC on small instances and proves the central properties
for all instances with TLAPS.

Paths below are under `src/apps/api/src/` unless they start with `packages/` or
`docs/`.

## Inventory

| component | state | operations | what is hard | what makes it correct |
|---|---|---|---|---|
| Run state machine (`orchestrator/engine.ts`, `createRun.ts`, `routes/runs.ts`) | `runs` row, `run_events` rows, run-dispatch jobs | create, hop, advance, pause, approve, cancel | each `await` is a place where another process acts; jobs delivered twice; processes that die | one hop in flight; a gated node runs only after its release; a cancel sticks; the run settles; every decision has its row |
| Fan-out (`dispatchConsensus`, `dispatchMap`) | `fanout_batches` row, branch rows | open a batch, run branches, join | branches settle in any order, some fail, a cancel takes a branch's sequence | a counted barrier; the batch agrees with the rows; bounded concurrency; the run moves on |
| Routing and review (`resolve.ts`, `reviewGate.ts`) | none of its own: reads the graph and the trail | pick an edge, detect a review, send a draft back once | the one allowed revisit; chained reviewers | no endless loop; the content under review is what is handed on |
| Dispatch between graphs (`orchestrator/dispatchTool.ts`) | child runs, `dispatchDepth`, the worker's slots | dispatch, wait, check status | a waiting parent holds a worker slot that its child needs; children that never complete; one wait after another | bounded depth; a wait ends before its hop's deadline; what a hop is told is so |
| Graph edits (`graphMutations.ts`, `routes/graphs.ts`, `validation/`) | nodes, edges, entry node, version, history | insert, update, delete, reroute, snapshot | validations read what a concurrent edit has not written; references kept as JSON are scrubbed after a delete; three reads make a snapshot | versions are distinct; a snapshot holds its version; one edit at a time, no delete leaves a reference to what it took and no gate is on a branch |
| Schedules (`routes/scheduledTriggers.ts`, `worker.ts`) | `scheduled_triggers`, job schedulers in Redis | create, patch, delete, fire, reconcile | two stores, no transaction, Redis can be lost or refuse | what fires is enabled; what is enabled is registered after a boot that can |
| Webhooks (`routes/webhookTriggers.ts`) | `webhook_triggers`, in-memory rate window | create, patch, delete, call | a call looks, then the row changes; refused calls count | what is off starts nothing; the rate bound over every window |
| Model calls (`callAgent`, `retry.ts`, `circuitBreaker.ts`, `mcpTool.ts`) | attempt, deadline, open MCP sessions | set up, call, run tools, retry, fall back, time out | the call that lost the race goes on; tools that never return | the hop settles by its deadline; the call that lost ends soon after; sessions are closed |
| Coding nodes (`packages/providers/src/gitWorktree.ts`, `orchestrator/commits.ts`, push and pr in `routes/runs.ts`) | worktrees, branches, `agent_commits` | ensure, write, commit, push, pr, prune | hops that share a worktree, the index lock, the sweep at boot, which row a push marks | an answer's work is committed; rows name commits of the branch; what is marked pushed is on the remote |
| Live events (`ws/`) | subscriptions | publish, subscribe | best effort | the banner comes down all the same |
| Graph generation, templates (`routes/generateGraph.ts`, `routes/templates.ts`) | rows of a graph under construction | plan again, build, instantiate | no transaction, the owner can already work on it | no run starts on half a plan |
| Web UI (`apps/web/`) | canvas state, banner, chat | gestures and the answers to their requests | overlapping requests answered in any order, stale renders, lost events | the canvas shows the graph or an error; an input is that of its run; only answers are shown |
| Credentials, auth, most tools, providers, voice and quick-add | see `PROJECT.json` | | sequential or pure I/O | not modelled |

The components meet in few places: everything that makes a run goes through
`createRun`; every hop, fan-out included, leaves through `advanceRun`; approve
and cancel touch the `runs` row and `run_events` that a hop touches at the same
time; a hop's tools can dispatch to other graphs and edit graphs.

## Modules

**RunLifecycle** models one run.  `run` is the `runs` row (status,
`current_node_id`, input), `log` its `run_events` in order of sequence,
`queue` its jobs.  `pc` says what each process does next: the worker slots, the
API call that creates the run, the approve and the cancel requests.  There is
one action per database statement or queue call, in the order of the code, so
every interleaving of two handlers at their `await`s is a behaviour:

- `CreateRun`, `Advance`, `EnqueueHop`, `PauseAtGate`: `createRun`, `advanceRun`
  (a move and, at a gate, a second write);
- `TakeJob` (the read of the row and its two early returns), `StartHop`,
  `CallModel` (which reads the sequence), `ModelAnswers` / `ModelFails`,
  `RecordSuccess` / `RecordFailure`, `CheckVisited`, `CompleteRun`, `FailRun`:
  `dispatchHopInner`; `Throw` and `Backstop`: an await that rejects, and
  `failRunOnUnexpectedError`;
- `ApproveRead` ... `ApproveRecord`, `CancelRead` ... `CancelPublish`: the two
  handlers of `routes/runs.ts`, each a read, a conditional write, a sequence
  read, an insert that the unique index can refuse, and an enqueue or a publish;
- `Redeliver`, `Crash`, `ApiFails`: BullMQ delivering a job again, a worker or
  an API process dying; `BackstopRejects`, the backstop's own write rejecting as
  the one that threw did.  They are in `FaultySpec` only.

A model's answer is the edge it takes and whether it asks for a revision.
Inputs are kept as far as the code compares them: an input is the number of the
event whose output it repeats, or 0.  That is what decides whether a hop of a
reviewer is a review gate.

**RunContract** is the abstract specification: status, node and, per gated
node, the permits that releases give and model calls use up.  RunLifecycle
implements it (`KeepsContract`) with `permits` mapped to releases minus calls.

**FanOut** models one fan-out hop of either kind, from the source's event to the
hand-over, with the batch row, every branch's own steps, the sequences fixed
before the calls, a cancel and its event, failures of the database anywhere
(`BackstopRejects`, too).  A consensus starts all its branches at once
(`StartAll`); a map's are shared out by `mapWithConcurrency`'s workers, each of
which takes the item at the common `cursor` when the task it awaited has settled
(`TakeItem`), and `Promise.all` waits for the workers to return.
The `plan` says what the graph asks for; it is chosen in the initial state.
**CountedBarrier** is what the fan-out promises, and FanOut implements it
(`KeepsBarrier`).

**Dispatch** models several runs that share the worker's slots while their hops
call other graphs, with a clock: `runs` are the rows (status, graph, depth,
`source`), `at`, `pc`, `left`, `wait` and `child` say what each slot's hop is
doing and how much of its budget is left.  `DispatchToGraph` is the refusal at
the depth bound, the new row with its job, and the wait whose budget is cut from
what the hop has left; `PollReturns` is a poll that finds the child over, or the
last one; `CheckDispatchStatus` the lookup of the most recent run of the pair;
`Tick` ages everything at once.  A job is a plain hop, one call, or a fan-out:
the source's call and then the branches', each with a budget of its own
(`FanOut`, at most `MaxRounds` of them one after another: one for a consensus,
for a map what a worker takes).  `HopTimesOut` is the timer of the present call:
it fails the run if that is the hop's own, and the branch alone if it is a
branch's.  Of branches that run at once only one is followed; what the others
dispatch beside it is left out.

**ModelCall** is the inside of `callAgent`: one target of the fallback chain
after another, each with its set-up (credentials, MCP connections), attempts
with backoff and server hints, tool phases, graceful stop, abort and commit;
beside it the hop's timer.  `phase` is where the call is; it goes on after `hop`
has settled, as a promise that lost a race does.

**Worktrees** is the git side of coding hops: `EnsureWorktree`, writes,
`git add -A`, the commit with its retries on the index lock, the read of the
head, the row, `/push` and `/pr` with the row they mark, the sweep at boot.

**Routing** is `resolveNextHop`, `matchAutoEdge` and the engine's order of
checks around them as operators over what the code sees of an output; the states
are any node, any finite sequence of edges in their stored order and any output
among the constant `Cases`, and one step routes.
`RoutesAsOrdered` compares what they pick with a declarative reading of the order
(`InTheRunning`, `Precedes`).

**GraphEdits** has one action per statement of each mutation: the looks and
validations a request starts with, its write, the bump of the version, the row of
the history, the scrubs.  A request may name any uuid (`Ids`), as the entry, in a
group, in a map or as a new target, of this graph or not: what it named that was
not there goes into `strays`.  (What another graph does to its own rows is not
followed, and a node of another graph counts as one without a gate, which is
what the validation sees of it.)  `SnapRow`, `SnapNodes`, `SnapEdges` are the three reads
of a snapshot.  `disturbed` remembers that two edits overlapped or one was cut
short: two properties are stated for graphs edited one request at a time,
because the code has no transaction that would carry them further.

**Triggers** keeps a schedule's row and its job scheduler apart, with API calls
that fail between the two writes, Redis losing its data, the worker's boot
(`Boot` reads the rows, `Reconcile` registers what is enabled, one by one, and
`ReconcileFails` logs one that does not and goes on), firings that read the row
and the graph as they are by then; and a webhook's calls against its window,
which `ApiRestarts` empties: it is process memory.  Time passes between any two
steps, so also between a call's admission and its `createRun`.

**Canvas** is `HierarchyCanvas`'s two copies of a graph and the gestures on them,
each with its optimistic change, its request and what is done on an answer or a
failure, in any order; `FailsHalfway` is a delete that has cleared the entry and
fails before the node.  **ApprovalBanner** is the banner with the event socket,
the catch-up read at mount, the text field and its effect, approve and cancel.
**Chat** is `useBotChat`: a turn's transcript is the last shown run's with the new
message, cut at its oldest end to what there is `Room` for (`Kept`); messages
and answers have lengths, of which one character more or less at the cut and the
line that says there was one are left out.  **Blueprints** builds a graph row by row from a plan,
a template or a built-in example while its owner opens, edits and starts it.

**MCRunLifecycle**, **MCFanOut** and **MCDispatch** give TLC an instance of one
module each.  **MCHop** (ModelCall, Worktrees, Routing) and **MCEditor**
(GraphEdits, Triggers, Canvas, ApprovalBanner, Chat, Blueprints) are sums:
`part`, fixed in the initial state, says which module a behaviour is about, and
the others keep an initial value.  The modules of a sum share no state, so
nothing is lost and nothing composed: what is checked of each is what a run of
its own would check.

The theorems are in **RunLifecycle_proofs**, **FanOut_proofs**,
**Dispatch_proofs**, **GraphEdits_proofs** and **Triggers_proofs**, one for each
of these modules, in **Hop_proofs** (ModelCall, Worktrees, Routing), **Web_proofs**
(ApprovalBanner, Chat) and **Editor_proofs** (Blueprints, Canvas).

| property | in words |
|---|---|
| `WaitEndsInTime` | a hop that waits for a dispatched run has more left of its budget than of its wait |
| `SlotsComeFree`, `QueuedRunsStart` | with every slot held by a waiting hop the queue still moves within the budgets of one job's calls, `1 + MaxRounds` of them; every queued job is taken |
| `WithinLimits` | a map's workers run no more branches at once than the limit, take no item twice and leave none |
| `ChainsEnd` | a hop waits for a younger run one level deeper, at most to the bound |
| `AnswersHold` | what a hop was told of a run stays so and is about a run its graph dispatched |
| `HopSettles`, `NoLongZombie` | the race of call and timer is settled by the deadline, and a call in flight outlives it by less than the least time a call gets |
| `SessionsClosed` | every way out of a target closes its MCP connections, but a set-up that throws |
| `AnsweredWorkIsCommitted`, `RowsNameCommits`, `PushedIsOnRemote` | no answer over uncommitted work, no row for a commit its branch does not have, no mark for a commit the remote lacks |
| `RoutesAsOrdered` | the edge taken is the first in the running by score, priority and stored order, an explicit answer before any of them, and never leads into a join |
| `BranchesNeverPause`, `NothingDangles` | one edit at a time, no branch is gated and nothing names what is gone, but for ids that named nothing when a request gave them |
| `VersionsDistinct`, `SnapshotHoldsItsVersion` | edits interleaved as they may be, a version is one change's, and a snapshot of version v holds every change up to v |
| `OffIsOff`, `OnIsRegistered`, `RateHolds` | what begins after a trigger was switched off starts nothing; a schedule that is on has its job scheduler unless requests overlapped, one was cut short, Redis was lost or a boot could not register it, and then after the next boot that can; in one life of the API no window lets more calls through than the limit |
| `CanvasShowsTheGraph` | when every request is answered, state and picture are the stored graph, whatever connects, adds, deletes and entry changes overlapped, in whatever order they were answered and whichever were refused; an entry that names no node counts as none; the definition names what is left out |
| `InputIsOfItsRun`, `BannerComesDown` | no gate is given another run's input; with a socket that stayed open a banner whose run is over has its end on the way |
| `OnlyAnswersShown`, `NothingForgotten` | the chat shows completed runs only; without overlapping turns the last one remembers the latest turns of the conversation on screen, as many as there is room for, and nothing of another graph |
| `RunsSeeTheWholePlan` | a run that starts on a generated graph finds its entry node and with it the whole plan, less what its owner dropped |

## Runs

| run | checks | shows |
|---|---|---|
| `run_lifecycle` | `TypeOK`, `SingleFlight`, `GateHolds`, `TerminalIsFinal`, `KeepsContract`, `RunSettles` | a run whose jobs are delivered once |
| `run_faulty` | `FlightBound`, `CancelIsSticky` | the same with a redelivery and dying processes |
| `fan_out` | `TypeOK`, `BatchTallies`, `WithinLimits`, `CancelIsSticky`, `KeepsBarrier`, `RunMovesOn` | both kinds of fan-out against a cancel and failures |
| `dispatch` | `WaitEndsInTime`, `ChainsEnd`, `SlotsComeFree`, `AnswersHold`, `QueuedRunsStart` | runs that dispatch to each other and share two slots |
| `hop` | `NoLongZombie`, `SessionsClosed`, `HopSettles`; `AnsweredWorkIsCommitted`, `RowsNameCommits`, `PushedIsOnRemote`; `RoutesAsOrdered` | the parts of a hop |
| `editor` | `BranchesNeverPause`, `NothingDangles`, `VersionsDistinct`, `SnapshotHoldsItsVersion`; `OffIsOff`, `OnIsRegistered`, `RateHolds`; `CanvasShowsTheGraph`, `InputIsOfItsRun`, `BannerComesDown`, `OnlyAnswersShown`, `NothingForgotten`; `RunsSeeTheWholePlan` | a graph and those who change and watch it |
| `gate_redelivery` | `GateHolds`, violated | see Findings |
| `decision_lost` | `EveryDecisionRecorded`, violated | see Findings |
| `stale_approval` | `OneWinnerPerPause`, violated | see Findings |
| `fan_out_refusal` | `RefusalSurfaces`, violated | see Findings |
| `foreign_commit` | `CommitIsOwn`, violated | see Findings |
| `approval_text` | `ShownIsPending`, violated | see Findings |

**Bounds.**  `run_lifecycle` has a writer, a reviewer and a publisher with the
edge back to the writer and an auto edge past the reviewer; writer and publisher
are gated, so a run pauses before its first hop, loops once through the
reviewer, and pauses again.  Two slots are enough because without redelivery
there is one hop in flight (that is `SingleFlight`, proved) and the second slot
shows it; two approvals and one cancel give every race of two requests with a
hop.  `run_faulty` uses two nodes and one redelivery: two copies of a hop, two
approvals, a cancel.  `MaxRedeliveries` bounds redeliveries and crashes; the
length of the log and the number of hops are bounded by the cycle guard and
need no bound.  `run_faulty` uses a view that leaves out the histories and
locals that no later step reads.  `fan_out` has up to three branches, a
concurrency of one and two, an empty group, a gated branch, a missing target, a
list over `maxItems`: three branches are the fewest with one fulfilled, one
rejected and one in flight.

`dispatch` has a graph that dispatches to itself and to another one, two slots
and three runs: enough for both slots to wait while the run they wait for is
queued, for a chain as deep as `MaxDepth` and for a refusal at it.  `HopBudget` =
3, `PollBudget` = 2 and `Margin` = 1 are in ticks of which a call can afford more
than one wait, so that the second wait's budget has to be cut.  `MaxRounds` = 1
makes a job hold its slot for two budgets; `MaxHops` = 1 bounds the hops and the
calls of fan-outs beyond the first ones, of all runs together.

`hop`: two providers, two MCP servers, three attempts, ticks of 5 s with the
code's margins rounded to them, a server hint below and one above `MaxDelay`;
the clock stops after the deadline, late enough for a zombie to come to its end.
Two hops in one worktree, three attempts at a commit, two pushes, one sweep.
Routing over two targets, one label, two priorities and up to two shared words,
for nodes without a fan-out with up to two edges of any kind or three auto ones,
nodes with a group or a map and two simple edges, and any node with up to one
edge: every tie, and every order of two edges.  These are bounds of `MCCases`
only.

`editor`: three nodes of which one is to come, three edges of which two make a
group and one is to come, two requests and `MaxEdits = 3`: an edit that overlaps
or names what is not there costs one more, so that there are all sequences of
three edits and all overlaps of two, one of them cut short.  One schedule and
one hook, two API calls, two firings at once, three requests, three firings and
two faults, a window of one call.  On the canvas three gestures over three nodes
and two edges; on the banner two runs of one gate, in `approval_text` one of them
with two; two chats, of which the first opened is always the same, they being
alike, two turns of lengths 1 and 2 with room for 3; plans of two names
with up to two links, one of them to an unknown name.  `SYMMETRY` permutes the
requests of GraphEdits, which nothing distinguishes; the run has no liveness
property.

**Deadlock** is not checked: a run ends, waits for a human who need not come, or
has nobody left to work on it.

**Fairness.**  `RunSettles` assumes that each slot, the creating call and every
request that has begun keep taking steps (the event loop, the job queue, and the
timeout that ends each call); no one has to approve or cancel.  `RunMovesOn`
assumes the same of the hop and its branches.  Neither holds with crashes: no
code looks for live runs without a job at boot.  Nor does a run settle when the
backstop's write rejects: `failRunOnUnexpectedError` awaits the same database.
`RunSettles` assumes that it does not (the reject is in `FaultySpec`), and
`RunMovesOn` excepts a hop that was lost so.  `QueuedRunsStart` assumes that
time passes, a free slot takes a job (the BullMQ worker), a poll returns and a
hop's timer fires; that a model ever answers is not assumed.  `HopSettles`
assumes time and the hop's timer only.

## What is proved

`RunLifecycle_proofs`, for every graph, any number of slots, requests and
redeliveries, from the assumptions `GraphAssumption` and `ProcessAssumption`
(processes of different kinds differ; nothing is assumed finite):

- `TypeCorrect`: `FaultySpec => []TypeOK`.
- `CancelSticks`: `FaultySpec => CancelIsSticky`.
- `OneHopInFlight`: `Spec => []SingleFlight`.  SingleFlight is not inductive;
  `FlightInv` says that a job, a slot at work, an API call about to enqueue and a
  pause exclude each other.
- `TerminalStays`: `Spec => TerminalIsFinal`: whoever is about to write the
  status holds the only hop in flight, so the run is live or cancelled.
- `GatesHold`: `Spec => []GateHolds`.  `GateInv` counts the permit that is on
  its way: while a released hop has not called its model yet, its node has one
  release more than calls.
- `RunKeepsContract`: `Spec => KeepsContract`, one step per action, from the
  invariants above.

- `FlightsAreBounded`: `FaultySpec => []FlightBound`: with redeliveries and
  crashes a run has no more copies of its job, in the queue and at work, than one
  and the redeliveries so far.  `CountInv` is a balance: queued jobs, those at
  work or about to enqueue (`Holders`, a finite set although the slots need not
  be) and a pause; a redelivery or a crash adds a job and one to the bound (a
  crash also drops a holder), a call that fails drops what it held, and every
  other step hands it on.

`OneHopInFlight`, `TerminalStays`, `GatesHold` and `RunKeepsContract` need a run
without redelivery: `gate_redelivery` shows that `GateHolds` fails with one.

`FanOut_proofs`, for every set of plans that satisfies `PlansAssumption`:
`TypeCorrect`, `CancelSticks`, and `FanOutKeepsBarrier`
(`Spec => KeepsBarrier`), from the invariant that branches not yet taken wait
and that past the join every branch has settled and one is fulfilled;
`BatchesTally` (`Spec => []BatchTallies`), from the invariant that a branch is
fulfilled exactly when the row at its sequence is its success, which makes
sequences a bijection between the two; and `FanOutWithinLimits`
(`Spec => []WithinLimits`).  Items past the cursor
wait (`InOrder`); an item the cursor has passed has settled or is in the hands of a
worker, and no two hold the same (`Shared`), so that there are no more in flight
than workers, as many as the limit, and none is left when all have returned.

`Dispatch_proofs`, for any graphs and targets, any number of slots and runs and
any budgets that satisfy `DispatchAssumption`, a theorem each for `TypeOK` and
the four invariants of the run `dispatch`:

- `WaitsEnd` (`WaitEndsInTime`) needs the types only: every wait is cut from what
  the hop has left when it begins, and both count down in the same tick.
- `SlotsFree` (`SlotsComeFree`): `Ages` says that the age of the first job, what
  is left of a busy slot's present call and a budget for each call still to come
  of its job (`Due`) add up to at most `1 + MaxRounds` budgets, for every slot, as
  long as a job waits.
- `ChainsAreBounded` (`ChainsEnd`): `Ids` (run ids are given in order),
  `Existing` and `Links` tie a waiting hop's child to its row.
- `ReportsHold` (`AnswersHold`): `Flight` (a run that is over has no job and no
  slot at work on it that could write its status) makes a report final.

`Hop_proofs`.  ModelCall, for any chain of providers, any servers, margins, delays and
hints: `CallTypeCorrect`; `ZombiesAreShort` (`NoLongZombie`), from `InTime`, which
bounds the abort time of the call in flight; `SessionsAreClosed`
(`SessionsClosed`), from `Closable`: what is open is what `closeAll` would close
or what a set-up that threw has left.
`CallAssumption` asks for an abort margin above zero: with none the abort and
the deadline fall together and a call could be begun at the deadline itself.

Worktrees, for any hops, any sharing of worktrees, any number of
attempts, pushes and sweeps that satisfy `TreeAssumption`: `AnswersAreCommitted`,
`CommitsAreNamed`, `PushedCommitsAreThere`.  `Kept` says where the work of a hop
is at each of its steps (in the tree, in the index, on the branch); it rests on
lemmas that say branches only grow.  `HeadsNamed` and `RowsNamed` follow a commit
from `rev-parse` to its row, `Remote` keeps the remote a prefix of the branch.
Routing, for any cases, that is any node, any finite sequence of edges, any
priorities, scores and output:
`OutputsGoInOrder` (`RoutesAsOrdered`).  The loop of `matchAutoEdge` keeps, after
k candidates, one of the k in front of which no other of them comes (`Foremost`);
that a finite set of edges has a first one by priority and stored order is shown
by well-foundedness of the naturals.

`GraphEdits_proofs`, for any number of edits interleaved in any way:
`VersionsAreDistinct` and `SnapshotsHoldTheirVersion`.  Both rest on `StepEffect`:
a step is one request's, and does one of seven things to nodes, edges, version
and history.  `Numbered` makes the versions of the history distinct;
`WrittenFirst` says that what a row of the history names was written before its
version was bumped, `SnapsHold` and `TakenHold` carry this through a snapshot's
three reads, the version first.  `GraphAssumption` takes node ids and edge ids to
be disjoint: both are UUIDs.

`BranchesAreUngated` (`BranchesNeverPause`) and `ReferencesStand`
(`NothingDangles`) are about graphs edited one request at a time.  Their common
invariant `Sound` has a part for the request at work: `Knows` says that what it
has looked up still holds, since nobody else has written; `Well`, `Ungated` and
`Clean` say of the graph that its rows are rows, that no branch is gated and that
no reference names what is gone, but for what the request has deleted and not
scrubbed yet and for `strays`, ids that were of nothing when a request named them.  Each statement has a lemma of its own, with what it writes taken
apart first (`Grouping`, `Mapping`).

`Triggers_proofs`, for any schedules, hooks, requests, firings and faults:
`OffStartsNothing` and `OnHasItsScheduler`.  `HalvesMeet` relates the two halves
of a switch: whoever is about to write that a schedule is on has registered it,
and one that is on without a scheduler has a request about to switch it off.
(Requests that overlapped on it, a request cut short, a restart of the API, Redis
losing its data and a boot that could not register it make it `drifted`.)  `StaysOff` follows a firing that began after the switch,
`Exclusive` keeps a trigger under creation from everyone else, `Cascaded` is the
deleted graph.  `RatesHold` (`RateHolds`), for any limit and window: `RateInv`
says that the calls a hook has let through within a window, in this life of the
API, are calls its log remembers and are no more than the limit.  A call
is its age and its number, so that the window is a set and a clock tick maps it
one to one.

`Web_proofs`.  ApprovalBanner, for any runs, any number of gates and any closing of the
socket: `InputsStayWithTheirRun` (the text field holds a text of the run the
banner shows) and `BannersComeDown`, from `Told`: whoever has learned of a pause,
from an event or from the read at mount, has its end among the events on the way.

Chat, for any graphs, any number of turns and visits: `AnswersAreAnswers`
(`OnlyAnswersShown`) and `ConversationsHold` (`NothingForgotten`).  While no turns
have overlapped, `Undisturbed` holds: nothing else is under way, what is shown is
all that completed on the open graph in the order of the turns (`InOrder`), the
latest turn was sent with the latest of what was on screen.  `KeptAgain` and the
lemmas before it say that cutting the transcript at every turn forgets no more
than cutting the whole conversation once: what was cut does not fit later
either.  The order is the one operator that
needs an induction: `InOrder(S \cup {t})` appends t when t is greater than all of
S, from lemmas on cardinalities of initial parts of S.

`Editor_proofs`.  Blueprints, for any plan, template and example:
`WholePlansSeen` (`RunsSeeTheWholePlan`).  `StagesDone` says what each stage of a
build has left behind, less what the owner has dropped, and `StartsAfter` that a
run starts without its owner's hand only after the entry, which is set last.

Canvas, for any nodes, edges and gestures: `PicturesAreTrue`
(`CanvasShowsTheGraph`).  `CanvasInv` says where rows, state and picture differ
while requests are under way.  `NodesFollow`: a node of the rows that the state
lacks is in an answer to an add, one of the state that the rows lack is in an
answer to a delete, one of the state that the picture lacks is being deleted on
the canvas.  `EdgesFollow`: the same for edges, but for those with an end that is
gone; `OneEdgePerId`, that ids are given out once and edges keep their ends;
`CutsApart`, that an edge is in one delete request at most and out of the picture
until that is answered.  The invariant says nothing once a history of `doubt`
that the property excludes has happened, so a step needs to be shown only where
it adds none.

TLC has checked each of these invariants on an instance before its proof.

Model-checked only: the liveness properties `RunSettles`, `RunMovesOn`,
`QueuedRunsStart` and `HopSettles`; liveness under fairness and ENABLED are beyond
the prover.  RECURSIVE operators and induction over data are as well, so the
modules use none: loops are recursive functions over numbers or sets of ranks,
and least and greatest elements exist by well-foundedness of the naturals.
RunContract and CountedBarrier state safety only.

## Findings

1. **A redelivered job passes a gate** (`gate_redelivery`).  `advanceRun` writes
   `current_node_id` and, in a second statement, `awaiting_approval`.  A copy
   of the job that reads the row in between finds a running run at the gated
   node and calls its model.
2. **A cancel without its row** (`decision_lost`).  The hop in flight can take
   the sequence the cancel has read: the run is cancelled, the client gets a
   409, `run_events` has no cancelled row and no watcher gets `run_cancelled`.
3. **An approval of an earlier pause wins a later one** (`stale_approval`).  The
   conditional write compares the status only; the approval's input and node are
   those of the pause it had read.
4. **A refused branch row goes unnoticed** (`fan_out_refusal`).  A branch whose
   sequence was taken by a cancel's event is rejected inside the join; the
   refusal does not reach `dispatchHop`'s backstop as `db/schema.ts` says.

5. **A commit takes along another's writes** (`foreign_commit`).  `git add -A`
   stages what a failed provider of the same hop, or another hop in the same
   worktree, has left there, and the row credits it to the node that commits.
   `docs/orchestration.md` promises that this never happens.
6. **The banner shows an input that is not pending** (`approval_text`).  When a
   run comes to its second gate while the banner of its first is up, the text
   field keeps the first one's input and approving sends it as an edit.

Also seen, not run as a check of its own:

- With a redelivery a second copy of a hop can turn `error` or `completed` into
  another status (only `cancelled` is guarded), and a process that dies between a
  row's write and its enqueue leaves a live run without a job.
- `createRun.ts:106-110`: a fork of a pinned run executes the snapshot but
  decides whether to pause on the live graph's gate.
- `worker.ts:76-78` says the sweep runs where no hop is in mid-write; the hop
  worker is created before it and takes jobs meanwhile, so a hop that has its
  worktree and has not written yet can lose it (`WorkSurvivesSweep` in Worktrees
  states what does not hold).  After a prune, a branch without its directory
  makes `ensureWorktree` throw.  `commits.ts` still says worktrees are never
  cleaned up.
- `approvalGate.ts:13-27`: a gated node that is its own branch is let through
  (`GatedIsNoBranch` in GraphEdits is the stronger statement), and a gate and the
  fan-out that makes it a branch, saved at the same time, are each checked
  against what the other has not written.
- `graphMutations.ts:403`: two edges inserted at once each write back the group
  they read, and one is lost from it.  `updateRoutingEdge` does not check that
  the new target is in the graph.
- `PATCH /graphs/:id` takes any uuid as the entry, and the bodies of nodes any ids
  of edges and nodes (`strays`), so that the comment at `graphMutations.ts:326-327`
  ("never leaves the graph pointing at a dangling entry node") holds as far as
  nobody names a stale id afterwards.
- A fan-out's job holds its worker slot for one budget per call (`MaxRounds`), so
  that a job behind a full pool waits several hop timeouts.
- Calls a webhook has let through wait for the graph's row
  (`webhookTriggers.ts:209-225`), so that their runs can start closer together
  than the limit; a restart of the API begins a fresh window.
- `useBotChat.ts:27-33` says that the newest content is never cut; a message longer
  than the cap is.
- A delete that fails between the entry and the node
  (`graphMutations.ts:329-334`) leaves the canvas showing the entry it had.
- A child that is cancelled is waited for to the end and then reported as
  `still_running` (`dispatchTool.ts:103`, `205-211`); `AnswersHold` is about
  what is reported as over.
- A PATCH of a schedule or webhook writes back the `enabled` it read.
- `mcpTool.ts:111`: when a later server's token does not decrypt, the connections
  opened before it stay open (`stranded` in ModelCall); `docs/adapters.md:121`
  says they are always closed.
- A push marks one row although it publishes the branch.
- `generateGraph.ts:87-89`: a provider failure on a later attempt discards an
  earlier plan, although the comment says that it falls back to the best one.  A
  template whose snapshot cannot be built to the end leaves half a graph.
- After a reroute the flow edges keep the old id or ends until a reload
  (`HierarchyCanvas.tsx:467-470`, `800-805`); the chat lets a second message be
  sent while a turn is under way; the answer to an approve that arrives after
  the next gate's event takes that gate's banner down.

## Plan

What is left, in this order:

1. Fork: the copy of a trail up to an event, the snapshot against the live
   graph's gate.
2. Chained reviewers: what content reaches which hop, over all short histories.

## Not modelled

Credentials and sessions, the tools' input and output, provider adapters and
pricing, voice and quick-add (a model's answer around one request), the layout
on the canvas, settings pages and lists, who may subscribe to which events;
fork; history and usage, which are reads.  Positions, names and prompts are left
out of GraphEdits, texts are named by what they are the input of.
`PROJECT.json` lists each component with its reason.
