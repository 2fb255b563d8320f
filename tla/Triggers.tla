------------------------------ MODULE Triggers ------------------------------
(***************************************************************************)
(* What starts runs when nobody is looking: schedules and webhooks.  A     *)
(* schedule lives twice, as a row in Postgres and as a BullMQ job          *)
(* scheduler in Redis, and the API writes the two one after the other; the *)
(* worker registers every enabled row again when it boots.  A firing       *)
(* trusts neither: it reads the row and the graph as they are by then.  A  *)
(* webhook has a row only, and a window of calls that the API process      *)
(* keeps in memory and a restart empties.                                  *)
(***************************************************************************)
EXTENDS Integers, FiniteSets

CONSTANTS
    Schedules, Hooks,   \* trigger ids
    TriggerCalls,           \* API calls that change a trigger
    Firings,            \* POST /webhooks/:token calls in progress
    Cron,               \* the schedule worker's one slot
    NoTrigger,
    MaxPerWindow,       \* RATE_LIMIT_MAX_PER_MINUTE
    Window,             \* RATE_LIMIT_WINDOW_MS, in ticks
    MaxRequests,        \* bound: requests
    MaxFirings,         \* bound: firings and calls
    MaxFaults           \* bound: statements failed, Redis lost, restarts

TriggerId == Schedules \cup Hooks
Places == Firings \cup {Cron}

ASSUME TriggerAssumption ==
    /\ Schedules \cap Hooks = {} /\ NoTrigger \notin TriggerId
    /\ Cron \notin Firings
    /\ MaxPerWindow \in Nat /\ Window \in Nat \ {0}
    /\ MaxRequests \in Nat /\ MaxFirings \in Nat /\ MaxFaults \in Nat

VARIABLES
    graphRow,      \* the graph row exists
    row,        \* the trigger rows: enabled or not
    scheduler,  \* the schedules with a job scheduler in Redis
    req,        \* each request: where it is, its trigger, what it read
    doomed,     \* schedules a DELETE /graphs/:id has listed
    booting,    \* enabled schedules the booting worker has yet to register
    slot,       \* each firing: where it is, its trigger
    log,        \* fireLog: a webhook's recent calls, those of a tick numbered
    passed,     \* history: those of this life of the API let through
    counts,     \* requests, firings and faults so far
    off,        \* history: triggers switched off or deleted, and left so
    lateOnes,       \* history: firings that began on such a trigger
    drifted     \* history: schedules whose two halves may differ

triggerVars == <<graphRow, row, scheduler, req, doomed, booting, slot, log,
                 passed, counts, off, lateOnes, drifted>>
historyVars == <<off, lateOnes, drifted>>

Pc == {"idle", "insert", "patched", "update", "unregister", "cascade",
       "unregisterAll"}
Wants == {"on", "off", "keep"}
Call == [age : 0..Window, nth : Nat]

TriggerTypeOK ==
    /\ graphRow \in BOOLEAN
    /\ row \in [TriggerId -> {"none", "on", "off"}]
    /\ scheduler \subseteq Schedules /\ doomed \subseteq Schedules
    /\ booting \subseteq Schedules
    /\ req \in [TriggerCalls -> [pc : Pc, trigger : TriggerId \cup {NoTrigger},
                             enabled : {"on", "off"}]]
    /\ slot \in [Places -> [pc : {"idle", "look", "start"},
                           trigger : TriggerId \cup {NoTrigger}]]
    /\ log \in [Hooks -> SUBSET Call] /\ passed \in [Hooks -> SUBSET Call]
    /\ counts \in [requests : 0..MaxRequests, firings : 0..MaxFirings,
                   faults : 0..MaxFaults]
    /\ off \subseteq TriggerId /\ lateOnes \subseteq Places
    /\ drifted \subseteq Schedules

Idle == [pc |-> "idle", trigger |-> NoTrigger, enabled |-> "off"]
NoFiring == [pc |-> "idle", trigger |-> NoTrigger]

TriggerInit ==
    /\ graphRow = TRUE
    /\ row = [t \in TriggerId |-> "none"]
    /\ scheduler = {} /\ doomed = {} /\ booting = {}
    /\ req = [q \in TriggerCalls |-> Idle]
    /\ slot = [f \in Places |-> NoFiring]
    /\ log = [h \in Hooks |-> {}] /\ passed = [h \in Hooks |-> {}]
    /\ counts = [requests |-> 0, firings |-> 0, faults |-> 0]
    /\ off = {} /\ lateOnes = {} /\ drifted = {}

-----------------------------------------------------------------------------

At(q, stage) == req[q].pc = stage
Accept(q) ==
    /\ At(q, "idle") /\ counts.requests < MaxRequests
    /\ counts' = [counts EXCEPT !.requests = @ + 1]
Goto(q, stage, t, enabled) ==
    req' = [req EXCEPT ![q] =
                [pc |-> stage, trigger |-> t, enabled |-> enabled]]
Finish(q) == req' = [req EXCEPT ![q] = Idle]
Fault ==
    /\ counts.faults < MaxFaults
    /\ counts' = [counts EXCEPT !.faults = @ + 1]

\* A request is at work on a trigger, or on the whole graph; another one is.
WorksOn(p, t) == req[p].pc # "idle" /\ req[p].trigger \in {t, NoTrigger}
Overlaps(q, t) == \E p \in TriggerCalls \ {q} : WorksOn(p, t)
Drift(q, t) ==
    drifted' = IF t \in Schedules /\ (Overlaps(q, t) \/ t \in booting)
               THEN drifted \cup {t} ELSE drifted
\* What the answer to a request leaves behind.
Switched(q, t, state) ==
    off' = IF state = "on" THEN off \ {t}
           ELSE IF Overlaps(q, t) THEN off ELSE off \cup {t}

\* POST: a schedule is registered before its row is inserted, and an
\* expression that does not parse ends it there.
CreateTrigger(q, t) ==
    /\ Accept(q) /\ row[t] = "none" /\ t \notin off \cup scheduler /\ graphRow
    /\ \A p \in TriggerCalls : req[p].trigger # t
    /\ \E enabled \in {"on", "off"} :
           /\ Goto(q, "insert", t, IF t \in Hooks THEN "on" ELSE enabled)
           /\ scheduler' = IF t \in Schedules /\ enabled = "on"
                           THEN scheduler \cup {t} ELSE scheduler
    /\ Drift(q, t)
    /\ UNCHANGED <<graphRow, row, doomed, booting, slot, log, passed, off,
                   lateOnes>>

\* The graph may have gone meanwhile: the foreign key refuses the row.
CreateInsert(q) ==
    /\ At(q, "insert")
    /\ row' = IF graphRow
              THEN [row EXCEPT ![req[q].trigger] = req[q].enabled] ELSE row
    /\ Drift(q, req[q].trigger)
    /\ Finish(q)
    /\ UNCHANGED <<graphRow, scheduler, doomed, booting, slot, log, passed,
                   counts, off, lateOnes>>

\* PATCH reads the row; what the body leaves out keeps the value read here.
PatchRead(q, t, want) ==
    /\ Accept(q) /\ row[t] # "none"
    /\ Goto(q, IF t \in Hooks THEN "update" ELSE "patched", t,
            IF want = "keep" THEN row[t] ELSE want)
    /\ Drift(q, t)
    /\ UNCHANGED <<graphRow, row, scheduler, doomed, booting, slot, log,
                   passed, off, lateOnes>>

PatchRegister(q) ==
    /\ At(q, "patched")
    /\ LET t == req[q].trigger IN
       /\ scheduler' = IF req[q].enabled = "on" THEN scheduler \cup {t}
                       ELSE scheduler \ {t}
       /\ Goto(q, "update", t, req[q].enabled)
       /\ Drift(q, t)
    /\ UNCHANGED <<graphRow, row, doomed, booting, slot, log, passed, counts,
                   off, lateOnes>>

\* An expression that does not parse, Redis out of reach: 400, no change.
PatchRefused(q) ==
    /\ At(q, "patched")
    /\ Finish(q)
    /\ UNCHANGED <<graphRow, row, scheduler, doomed, booting, slot, log,
                   passed, counts, historyVars>>

PatchUpdate(q) ==
    /\ At(q, "update")
    /\ LET t == req[q].trigger IN
       /\ row' = IF row[t] = "none" THEN row
                 ELSE [row EXCEPT ![t] = req[q].enabled]
       /\ Switched(q, t, row'[t])
       /\ lateOnes' = IF row'[t] = "on"
                  THEN {f \in lateOnes : slot[f].trigger # t} ELSE lateOnes
       /\ Drift(q, t)
    /\ Finish(q)
    /\ UNCHANGED <<graphRow, scheduler, doomed, booting, slot, log, passed,
                   counts>>

\* DELETE: the row first, then the job scheduler.
DeleteRow(q, t) ==
    /\ Accept(q) /\ row[t] # "none"
    /\ row' = [row EXCEPT ![t] = "none"]
    /\ Goto(q, "unregister", t, "off")
    /\ Drift(q, t)
    /\ UNCHANGED <<graphRow, scheduler, doomed, booting, slot, log, passed,
                   off, lateOnes>>

DeleteUnregister(q) ==
    /\ At(q, "unregister")
    /\ LET t == req[q].trigger IN
       /\ scheduler' = scheduler \ {t}
       /\ Switched(q, t, "none") /\ Drift(q, t)
    /\ Finish(q)
    /\ UNCHANGED <<graphRow, row, doomed, booting, slot, log, passed, counts,
                   lateOnes>>

\* DELETE /graphs/:id: list the schedules, delete the graph, which cascades,
\* and unregister the listed ones.
DeleteGraph(q) ==
    /\ Accept(q) /\ graphRow /\ doomed = {}
    /\ \A p \in TriggerCalls : ~At(p, "cascade") /\ ~At(p, "unregisterAll")
    /\ doomed' = {t \in Schedules : row[t] # "none"}
    /\ Goto(q, "cascade", NoTrigger, "off")
    /\ UNCHANGED <<graphRow, row, scheduler, booting, slot, log, passed,
                   historyVars>>

Cascade(q) ==
    /\ At(q, "cascade")
    /\ graphRow' = FALSE
    /\ row' = [t \in TriggerId |-> "none"]
    /\ Goto(q, "unregisterAll", NoTrigger, "off")
    /\ UNCHANGED <<scheduler, doomed, booting, slot, log, passed, counts,
                   historyVars>>

UnregisterAll(q) ==
    /\ At(q, "unregisterAll")
    /\ scheduler' = scheduler \ doomed
    /\ doomed' = {}
    /\ off' = off \cup doomed
    /\ Finish(q)
    /\ UNCHANGED <<graphRow, row, booting, slot, log, passed, counts,
                   lateOnes, drifted>>

\* A statement fails half way, and the request with it.
CutShort(q) ==
    /\ ~At(q, "idle") /\ Fault
    /\ drifted' = IF req[q].trigger = NoTrigger THEN drifted \cup doomed
                  ELSE drifted \cup ({req[q].trigger} \cap Schedules)
    /\ doomed' = IF req[q].trigger = NoTrigger THEN {} ELSE doomed
    /\ Finish(q)
    /\ UNCHANGED <<graphRow, row, scheduler, booting, slot, log, passed, off,
                   lateOnes>>

\* The API process dies and comes up again: its requests and calls end where
\* they are, and fireLog is empty.
ApiRestarts ==
    /\ Fault
    /\ drifted' = drifted \cup doomed
           \cup {t \in Schedules : \E q \in TriggerCalls : req[q].trigger = t}
    /\ req' = [q \in TriggerCalls |-> Idle] /\ doomed' = {}
    /\ slot' = [f \in Places |-> IF f = Cron THEN slot[f] ELSE NoFiring]
    /\ log' = [h \in Hooks |-> {}] /\ passed' = [h \in Hooks |-> {}]
    /\ UNCHANGED <<graphRow, row, scheduler, booting, off, lateOnes>>

RedisLost ==
    /\ Fault
    /\ scheduler' = {}
    /\ drifted' = Schedules
    /\ UNCHANGED <<graphRow, row, req, doomed, booting, slot, log, passed,
                   off, lateOnes>>

\* Faulty variant: what Redis still knows is taken for what there is.
BootTrustingRedis ==
    /\ booting = {} /\ Fault
    /\ booting' = {t \in scheduler : row[t] = "on"}
    /\ drifted' = {t \in drifted : \E q \in TriggerCalls : req[q].trigger = t}
    /\ UNCHANGED <<graphRow, row, scheduler, req, doomed, slot, log, passed,
                   off, lateOnes>>

\* reconcileSchedules: the rows enabled when the worker starts, one by one.
Boot ==
    /\ booting = {} /\ Fault
    /\ booting' = {t \in Schedules : row[t] = "on"}
    /\ drifted' = {t \in drifted : \E q \in TriggerCalls : req[q].trigger = t}
    /\ UNCHANGED <<graphRow, row, scheduler, req, doomed, slot, log, passed,
                   off, lateOnes>>

\* One that does not register is logged and left as it is.
ReconcileFails(t) ==
    /\ t \in booting
    /\ booting' = booting \ {t}
    /\ drifted' = drifted \cup {t}
    /\ UNCHANGED <<graphRow, row, scheduler, req, doomed, slot, log, passed,
                   counts, off, lateOnes>>

Reconcile(t) ==
    /\ t \in booting
    /\ booting' = booting \ {t}
    /\ scheduler' = scheduler \cup {t}
    /\ UNCHANGED <<graphRow, row, req, doomed, slot, log, passed, counts,
                   historyVars>>

-----------------------------------------------------------------------------

Fires(f, t) ==
    /\ slot[f].pc = "idle" /\ counts.firings < MaxFirings
    /\ counts' = [counts EXCEPT !.firings = @ + 1]
    /\ slot' = [slot EXCEPT ![f] = [pc |-> "look", trigger |-> t]]
    /\ lateOnes' = IF t \in off /\ ~\E p \in TriggerCalls : WorksOn(p, t)
               THEN lateOnes \cup {f} ELSE lateOnes \ {f}

CronFires(t) ==
    /\ t \in scheduler /\ Fires(Cron, t)
    /\ UNCHANGED <<graphRow, row, scheduler, req, doomed, booting, log,
                   passed, off, drifted>>

\* POST /webhooks/:token
HookCalled(f, h) ==
    /\ Fires(f, h)
    /\ UNCHANGED <<graphRow, row, scheduler, req, doomed, booting, log,
                   passed, off, drifted>>

\* Faulty variant: the job scheduler's word is good enough.
LookTrusting(f) ==
    /\ slot[f].pc = "look" /\ slot[f].trigger \in Schedules
    /\ slot' = [slot EXCEPT ![f] =
           IF graphRow THEN [@ EXCEPT !.pc = "start"] ELSE NoFiring]
    /\ UNCHANGED <<graphRow, row, scheduler, req, doomed, booting, log,
                   passed, counts, historyVars>>

\* runScheduledTrigger: the trigger and the graph as they are now.
Look(f) ==
    /\ slot[f].pc = "look" /\ slot[f].trigger \in Schedules
    /\ slot' = [slot EXCEPT ![f] =
           IF row[slot[f].trigger] = "on" /\ graphRow
           THEN [@ EXCEPT !.pc = "start"] ELSE NoFiring]
    /\ UNCHANGED <<graphRow, row, scheduler, req, doomed, booting, log,
                   passed, counts, historyVars>>

Within(calls) == {c \in calls : c.age < Window}

\* The entry of one more call.
NextCall(h) == [age |-> 0, nth |-> Cardinality({c \in log[h] : c.age = 0}) + 1]

\* Faulty variant: the call being counted is not counted.
LimitedLate(h) == Cardinality(Within(log[h])) > MaxPerWindow

\* isRateLimited: refused calls count as well.
Limited(h) == Cardinality(Within(log[h])) + 1 > MaxPerWindow

Called(f) ==
    /\ slot[f].pc = "look" /\ slot[f].trigger \in Hooks
    /\ LET hook == slot[f].trigger
           call == NextCall(hook) IN
       IF row[hook] = "on"
       THEN /\ log' = [log EXCEPT ![hook] = Within(@) \cup {call}]
            /\ passed' = IF Limited(hook) THEN passed
                         ELSE [passed EXCEPT ![hook] = Within(@) \cup {call}]
            /\ slot' = [slot EXCEPT ![f] =
                   IF Limited(hook) \/ ~graphRow THEN NoFiring
                   ELSE [pc |-> "start", trigger |-> hook]]
       ELSE slot' = [slot EXCEPT ![f] = NoFiring] /\ UNCHANGED <<log, passed>>
    /\ UNCHANGED <<graphRow, row, scheduler, req, doomed, booting, counts,
                   historyVars>>

\* createRun; it throws when the graph was deleted meanwhile.
StartsRun(f) ==
    /\ slot[f].pc = "start"
    /\ slot' = [slot EXCEPT ![f] = NoFiring]
    /\ UNCHANGED <<graphRow, row, scheduler, req, doomed, booting, log, passed,
                   counts, historyVars>>

\* Calls that are out of the window are alike.
Older(calls) ==
    {[c EXCEPT !.age = IF @ < Window THEN @ + 1 ELSE @] : c \in calls}

TimePasses ==
    /\ log' = [h \in Hooks |-> Older(log[h])]
    /\ passed' = [h \in Hooks |-> Within(Older(passed[h]))]
    /\ UNCHANGED <<graphRow, row, scheduler, req, doomed, booting, slot,
                   counts, historyVars>>

TriggerNext ==
    \/ \E q \in TriggerCalls, t \in TriggerId :
           \/ CreateTrigger(q, t) \/ DeleteRow(q, t)
           \/ \E want \in Wants : PatchRead(q, t, want)
    \/ \E q \in TriggerCalls :
           \/ CreateInsert(q) \/ PatchRegister(q) \/ PatchRefused(q)
           \/ PatchUpdate(q) \/ DeleteUnregister(q)
           \/ DeleteGraph(q) \/ Cascade(q) \/ UnregisterAll(q) \/ CutShort(q)
    \/ ApiRestarts \/ RedisLost \/ Boot
    \/ \E t \in Schedules : Reconcile(t) \/ ReconcileFails(t) \/ CronFires(t)
    \/ \E f \in Firings, h \in Hooks : HookCalled(f, h)
    \/ \E f \in Places : Look(f) \/ Called(f) \/ StartsRun(f)
    \/ TimePasses

TriggerSpec == TriggerInit /\ [][TriggerNext]_triggerVars

-----------------------------------------------------------------------------

\* A firing or a call that begins after the trigger was switched off or
\* deleted, with no other request on it at work, starts no run: not from a
\* job scheduler that outlived the row, one that the booting worker
\* registered from what it had read before, nor one that a create or a patch
\* that failed left behind.
OffIsOff == \A f \in Places : slot[f].pc = "start" => f \notin lateOnes

\* A schedule that is on has its job scheduler, between requests: the two
\* halves are apart only after requests on it that overlapped, one that was
\* cut short, a loss of Redis or a boot that could not register it, and then
\* only until the worker boots and can.
OnIsRegistered ==
    \A t \in Schedules :
        row[t] = "on" =>
            \/ t \in scheduler
            \/ t \in drifted \/ t \in booting
            \/ \E q \in TriggerCalls : req[q].pc # "idle" /\ req[q].trigger = t

\* In one life of the API process a webhook lets at most so many calls through
\* in any window, however many are in progress at once and however many were
\* refused.  It is the calls that are counted, when they come: between the
\* count and createRun a call waits for the graph row, so that the runs
\* themselves may start closer together.
RateHolds == \A h \in Hooks : Cardinality(Within(passed[h])) <= MaxPerWindow

=============================================================================
