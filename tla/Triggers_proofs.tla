-------------------------- MODULE Triggers_proofs --------------------------
(***************************************************************************)
(* For any schedules, webhooks, requests and faults: a trigger that is off *)
(* starts nothing, a schedule that is on is registered, and no window of a *)
(* webhook lets more calls through than its limit.                         *)
(***************************************************************************)
EXTENDS Triggers, FiniteSetTheorems, TLAPS

Request == [pc: Pc, trigger: TriggerId \cup {NoTrigger},
            enabled: {"on", "off"}]
Firing  == [pc: {"idle", "look", "start"},
            trigger: TriggerId \cup {NoTrigger}]

OfTrigger == {"insert", "patched", "update", "unregister"}

Typed ==
    /\ row \in [TriggerId -> {"none", "on", "off"}]
    /\ req \in [TriggerCalls -> Request]
    /\ slot \in [Places -> Firing]
    /\ doomed \subseteq Schedules /\ off \subseteq TriggerId
    /\ lateOnes \subseteq Places
    /\ log \in [Hooks -> SUBSET Call] /\ \A h \in Hooks : IsFiniteSet(log[h])
    /\ passed \in [Hooks -> SUBSET Call]

\* A request at work on a trigger names it, the others name none.
Named ==
    \A q \in TriggerCalls :
        /\ req[q].pc \in OfTrigger <=> req[q].trigger \in TriggerId
        /\ req[q].pc = "patched" => req[q].trigger \in Schedules

\* A deleted graph has no triggers, and the job schedulers are removed when
\* it is.
Cascaded ==
    /\ ~graphRow => \A t \in TriggerId : row[t] = "none"
    /\ \A q \in TriggerCalls : req[q].pc = "unregisterAll" => ~graphRow

\* A trigger that is being created is nobody else's yet; one that is being
\* deleted is gone.
Exclusive ==
    \A q \in TriggerCalls :
        /\ req[q].pc = "insert" =>
               /\ row[req[q].trigger] = "none"
               /\ req[q].trigger \notin off \/ ~graphRow
               /\ \A p \in TriggerCalls \ {q} :
                      req[p].trigger # req[q].trigger
        /\ req[q].pc = "unregister" => row[req[q].trigger] = "none"

\* What is switched off is off until it is switched on, and a firing on it
\* does not come past the look at its row.
StaysOff ==
    /\ \A t \in off : row[t] # "on"
    /\ \A f \in lateOnes :
           /\ slot[f].pc # "start"
           /\ slot[f].pc = "look" => slot[f].trigger \in off

Turning(q, state) ==
    req[q].pc \in {"insert", "update"} /\ req[q].enabled = state

\* The two halves of a schedule: a request that is about to switch it on has
\* registered it, and one that has unregistered it is about to switch it off.
HalvesMeet ==
    graphRow =>
        /\ \A q \in TriggerCalls :
               Turning(q, "on") /\ req[q].trigger \in Schedules =>
                   req[q].trigger \in scheduler \cup drifted
        /\ \A t \in Schedules :
               row[t] = "on" =>
                   \/ t \in scheduler \cup drifted \cup booting
                   \/ \E q \in TriggerCalls :
                          Turning(q, "off") /\ req[q].trigger = t

TriggerInv ==
    Typed /\ Named /\ Cascaded /\ Exclusive /\ StaysOff /\ HalvesMeet

-----------------------------------------------------------------------------

\* Calls that are dropped from a window, or grow older, stay calls and do not
\* become more.
LEMMA CallsStayCalls ==
    ASSUME NEW S, S \subseteq Call
    PROVE  Within(S) \subseteq Call /\ Older(S) \subseteq Call
<1>1. ASSUME NEW c \in Call
      PROVE  [c EXCEPT !.age = IF @ < Window THEN @ + 1 ELSE @] \in Call
  BY TriggerAssumption DEF Call
<1> QED BY <1>1 DEF Within, Older

LEMMA FewerCalls ==
    ASSUME NEW S, IsFiniteSet(S)
    PROVE  /\ IsFiniteSet(Within(S)) /\ Cardinality(Within(S)) \in Nat
           /\ IsFiniteSet(Older(S)) /\ Cardinality(Older(S)) <= Cardinality(S)
<1> DEFINE older == [c \in S |-> [c EXCEPT !.age = IF @ < Window THEN @ + 1
                                                  ELSE @]]
<1>1. Within(S) \in SUBSET S
  BY DEF Within
<1>2. IsFiniteSet(Within(S)) /\ Cardinality(Within(S)) \in Nat
  BY <1>1, FS_Subset, FS_CardinalityType
<1>3. older \in Surjection(S, Older(S))
  BY DEF Older, Surjection
<1>4. IsFiniteSet(Older(S)) /\ Cardinality(Older(S)) <= Cardinality(S)
  <2> HIDE DEF older
  <2> QED BY <1>3, FS_Surjection
<1> QED BY <1>2, <1>4

\* A call that is let through enters the log.
LEMMA CallEnters ==
    ASSUME Typed, NEW h \in Hooks
    PROVE  /\ NextCall(h) \in Call /\ NextCall(h).age = 0
           /\ NextCall(h) = [age |-> 0, nth |-> NextCall(h).nth]
           /\ Within(log[h]) \cup {NextCall(h)} \subseteq Call
           /\ IsFiniteSet(Within(log[h]) \cup {NextCall(h)})
           /\ Cardinality(Within(log[h]) \cup {NextCall(h)})
                  <= Cardinality(Within(log[h])) + 1
<1> DEFINE W == Within(log[h])
<1>1. log[h] \subseteq Call /\ IsFiniteSet(log[h])
  BY DEF Typed
<1>2. W \subseteq Call /\ IsFiniteSet(W) /\ Cardinality(W) \in Nat
  BY <1>1, FewerCalls, CallsStayCalls
<1>3. Cardinality({c \in log[h] : c.age = 0}) \in Nat
  <2>1. {c \in log[h] : c.age = 0} \in SUBSET log[h]
    OBVIOUS
  <2>2. IsFiniteSet({c \in log[h] : c.age = 0})
    BY <1>1, <2>1, FS_Subset
  <2> QED BY <2>2, FS_CardinalityType
<1>4. NextCall(h) \in Call /\ NextCall(h).age = 0
      /\ NextCall(h) = [age |-> 0, nth |-> NextCall(h).nth]
  BY <1>3, TriggerAssumption DEF NextCall, Call
<1>5. IsFiniteSet(W \cup {NextCall(h)})
      /\ Cardinality(W \cup {NextCall(h)}) <= Cardinality(W) + 1
  <2> HIDE DEF W
  <2>1. IsFiniteSet(W \cup {NextCall(h)})
        /\ Cardinality(W \cup {NextCall(h)}) =
               IF NextCall(h) \in W THEN Cardinality(W) ELSE Cardinality(W) + 1
    BY <1>2, FS_AddElement
  <2> QED BY <1>2, <2>1
<1> QED BY <1>2, <1>4, <1>5 DEF W

LEMMA TriggerInvInit == TriggerInit => TriggerInv
<1> SUFFICES ASSUME TriggerInit PROVE TriggerInv
  OBVIOUS
<1> USE TriggerAssumption DEF TriggerInit, Idle, NoFiring, TriggerId, Places
<1>1. Typed
  BY FS_EmptySet DEF Typed, Request, Firing, Pc
<1>2. Named /\ Cascaded /\ Exclusive
  BY DEF Named, Cascaded, Exclusive, OfTrigger
<1>3. StaysOff /\ HalvesMeet
  BY DEF StaysOff, HalvesMeet, Turning
<1> QED BY <1>1, <1>2, <1>3 DEF TriggerInv

LEMMA TriggerInvStep ==
    TriggerInv /\ [TriggerNext]_triggerVars => TriggerInv'
<1> SUFFICES ASSUME TriggerInv, [TriggerNext]_triggerVars PROVE TriggerInv'
  OBVIOUS
<1> USE TriggerAssumption
    DEF TriggerInv, TriggerId, Places, Request, Firing, Pc, historyVars
<1>1. ASSUME NEW q \in TriggerCalls, NEW t \in TriggerId, CreateTrigger(q, t)
      PROVE  TriggerInv'
  <2>1. Typed'
    BY <1>1
    DEF CreateTrigger, Accept, Goto, Drift, At, Overlaps, WorksOn, Typed
  <2>2. Named'
    BY <1>1 DEF CreateTrigger, Accept, Goto, At, Typed, Named, OfTrigger
  <2>3. Cascaded'
    BY <1>1
    DEF CreateTrigger, Accept, Goto, At, Typed, Named, Cascaded, OfTrigger
  <2>4. Exclusive'
    BY <1>1
    DEF CreateTrigger, Accept, Goto, At, Typed, Named, Cascaded, Exclusive,
        OfTrigger
  <2>5. HalvesMeet'
    BY <1>1
    DEF CreateTrigger, Accept, Goto, Drift, At, Overlaps, WorksOn, Typed,
        Named, Cascaded, Exclusive, HalvesMeet, Turning, OfTrigger
  <2>6. StaysOff'
    BY <1>1 DEF CreateTrigger, StaysOff
  <2> QED BY <2>1, <2>2, <2>3, <2>4, <2>5, <2>6
<1>2. ASSUME NEW q \in TriggerCalls, NEW t \in TriggerId, DeleteRow(q, t)
      PROVE  TriggerInv'
  <2>1. Typed'
    BY <1>2 DEF DeleteRow, Accept, Goto, Drift, At, Overlaps, WorksOn, Typed
  <2>2. Named'
    BY <1>2 DEF DeleteRow, Accept, Goto, At, Typed, Named, OfTrigger
  <2>3. Cascaded'
    BY <1>2 DEF DeleteRow, Accept, Goto, At, Typed, Named, Cascaded, OfTrigger
  <2>4. Exclusive'
    BY <1>2
    DEF DeleteRow, Accept, Goto, At, Typed, Named, Cascaded, Exclusive,
        OfTrigger
  <2>5. StaysOff'
    BY <1>2
    DEF DeleteRow, Accept, Goto, At, Overlaps, WorksOn, Typed, Named, Cascaded,
        Exclusive, StaysOff, OfTrigger
  <2>6. HalvesMeet'
    BY <1>2
    DEF DeleteRow, Accept, Goto, Drift, At, Overlaps, WorksOn, Typed, Named,
        Cascaded, Exclusive, HalvesMeet, Turning, OfTrigger
  <2> QED BY <2>1, <2>2, <2>3, <2>4, <2>5, <2>6
<1>3. ASSUME NEW q \in TriggerCalls, NEW t \in TriggerId, NEW want \in Wants,
             PatchRead(q, t, want)
      PROVE  TriggerInv'
  <2>1. Typed'
    BY <1>3
    DEF PatchRead, Accept, Goto, Drift, At, Overlaps, WorksOn, Typed, Wants
  <2>2. Named'
    BY <1>3 DEF PatchRead, Accept, Goto, At, Typed, Named, OfTrigger
  <2>3. Cascaded'
    BY <1>3 DEF PatchRead, Accept, Goto, At, Typed, Named, Cascaded, OfTrigger
  <2>4. Exclusive'
    BY <1>3
    DEF PatchRead, Accept, Goto, At, Typed, Named, Cascaded, Exclusive,
        OfTrigger
  <2>5. HalvesMeet'
    BY <1>3
    DEF PatchRead, Accept, Goto, Drift, At, Overlaps, WorksOn, Typed, Named,
        Cascaded, Exclusive, HalvesMeet, Turning, OfTrigger
  <2>6. StaysOff'
    BY <1>3 DEF PatchRead, StaysOff
  <2> QED BY <2>1, <2>2, <2>3, <2>4, <2>5, <2>6
<1>4. ASSUME NEW q \in TriggerCalls, CreateInsert(q) PROVE TriggerInv'
  <2>1. Typed'
    BY <1>4 DEF CreateInsert, At, Finish, Drift, Idle, Overlaps, WorksOn, Typed
  <2>2. Named'
    BY <1>4 DEF CreateInsert, At, Finish, Idle, Typed, Named, OfTrigger
  <2>3. Cascaded'
    BY <1>4
    DEF CreateInsert, At, Finish, Idle, Typed, Named, Cascaded, OfTrigger
  <2>4. Exclusive'
    BY <1>4
    DEF CreateInsert, At, Finish, Idle, Typed, Named, Cascaded, Exclusive,
        OfTrigger
  <2>5. StaysOff'
    BY <1>4
    DEF CreateInsert, At, Finish, Idle, Overlaps, WorksOn, Typed, Named,
        Cascaded, Exclusive, StaysOff, OfTrigger
  <2>6. HalvesMeet'
    BY <1>4
    DEF CreateInsert, At, Finish, Drift, Idle, Overlaps, WorksOn, Typed, Named,
        Cascaded, Exclusive, HalvesMeet, Turning, OfTrigger
  <2> QED BY <2>1, <2>2, <2>3, <2>4, <2>5, <2>6
<1>5. ASSUME NEW q \in TriggerCalls, PatchRegister(q) PROVE TriggerInv'
  <2>1. Typed'
    BY <1>5 DEF PatchRegister, At, Goto, Drift, Overlaps, WorksOn, Typed
  <2>2. Named'
    BY <1>5 DEF PatchRegister, At, Goto, Typed, Named, OfTrigger
  <2>3. Cascaded'
    BY <1>5 DEF PatchRegister, At, Goto, Typed, Named, Cascaded, OfTrigger
  <2>4. Exclusive'
    BY <1>5
    DEF PatchRegister, At, Goto, Typed, Named, Cascaded, Exclusive, OfTrigger
  <2>5. HalvesMeet'
    BY <1>5
    DEF PatchRegister, At, Goto, Drift, Overlaps, WorksOn, Typed, Named,
        Cascaded, Exclusive, HalvesMeet, Turning, OfTrigger
  <2>6. StaysOff'
    BY <1>5 DEF PatchRegister, StaysOff
  <2> QED BY <2>1, <2>2, <2>3, <2>4, <2>5, <2>6
<1>6. ASSUME NEW q \in TriggerCalls, PatchRefused(q) PROVE TriggerInv'
  <2>1. Typed'
    BY <1>6 DEF PatchRefused, At, Finish, Idle, Typed
  <2>2. Named'
    BY <1>6 DEF PatchRefused, At, Finish, Idle, Typed, Named, OfTrigger
  <2>3. Cascaded'
    BY <1>6
    DEF PatchRefused, At, Finish, Idle, Typed, Named, Cascaded, OfTrigger
  <2>4. Exclusive'
    BY <1>6
    DEF PatchRefused, At, Finish, Idle, Typed, Named, Cascaded, Exclusive,
        OfTrigger
  <2>5. HalvesMeet'
    BY <1>6
    DEF PatchRefused, At, Finish, Idle, Typed, Named, Cascaded, Exclusive,
        HalvesMeet, Turning, OfTrigger
  <2>6. StaysOff'
    BY <1>6 DEF PatchRefused, StaysOff
  <2> QED BY <2>1, <2>2, <2>3, <2>4, <2>5, <2>6
<1>7. ASSUME NEW q \in TriggerCalls, PatchUpdate(q) PROVE TriggerInv'
  <2>1. Typed'
    BY <1>7
    DEF PatchUpdate, At, Finish, Drift, Switched, Idle, Overlaps, WorksOn,
        Typed, Named, OfTrigger
  <2>2. Named'
    BY <1>7
    DEF PatchUpdate, At, Finish, Switched, Idle, Typed, Named, OfTrigger
  <2>3. Cascaded'
    BY <1>7
    DEF PatchUpdate, At, Finish, Switched, Idle, Typed, Named, Cascaded,
        OfTrigger
  <2>4. Exclusive'
    BY <1>7
    DEF PatchUpdate, At, Finish, Switched, Idle, Typed, Named, Cascaded,
        Exclusive, OfTrigger
  <2>5. StaysOff'
    BY <1>7
    DEF PatchUpdate, At, Finish, Switched, Idle, Overlaps, WorksOn, Typed,
        Named, Cascaded, Exclusive, StaysOff, OfTrigger
  <2>6. HalvesMeet'
    BY <1>7
    DEF PatchUpdate, At, Finish, Drift, Idle, Overlaps, WorksOn, Typed, Named,
        Cascaded, Exclusive, HalvesMeet, Turning, OfTrigger
  <2> QED BY <2>1, <2>2, <2>3, <2>4, <2>5, <2>6
<1>8. ASSUME NEW q \in TriggerCalls, DeleteUnregister(q) PROVE TriggerInv'
  <2>1. Typed'
    BY <1>8
    DEF DeleteUnregister, At, Finish, Drift, Switched, Idle, Overlaps, WorksOn,
        Typed, Named, OfTrigger
  <2>2. Named'
    BY <1>8
    DEF DeleteUnregister, At, Finish, Switched, Idle, Typed, Named, OfTrigger
  <2>3. Cascaded'
    BY <1>8
    DEF DeleteUnregister, At, Finish, Switched, Idle, Typed, Named, Cascaded,
        OfTrigger
  <2>4. Exclusive'
    BY <1>8
    DEF DeleteUnregister, At, Finish, Switched, Idle, Typed, Named, Cascaded,
        Exclusive, OfTrigger
  <2>5. StaysOff'
    BY <1>8
    DEF DeleteUnregister, At, Finish, Switched, Idle, Overlaps, WorksOn, Typed,
        Named, Cascaded, Exclusive, StaysOff, OfTrigger
  <2>6. HalvesMeet'
    BY <1>8
    DEF DeleteUnregister, At, Finish, Drift, Idle, Overlaps, WorksOn, Typed,
        Named, Cascaded, Exclusive, HalvesMeet, Turning, OfTrigger
  <2> QED BY <2>1, <2>2, <2>3, <2>4, <2>5, <2>6
<1>9. ASSUME NEW q \in TriggerCalls, DeleteGraph(q) PROVE TriggerInv'
  <2>1. Typed'
    BY <1>9 DEF DeleteGraph, At, Accept, Goto, Typed
  <2>2. Named'
    BY <1>9 DEF DeleteGraph, At, Accept, Goto, Typed, Named, OfTrigger
  <2>3. Cascaded'
    BY <1>9
    DEF DeleteGraph, At, Accept, Goto, Typed, Named, Cascaded, OfTrigger
  <2>4. Exclusive'
    BY <1>9
    DEF DeleteGraph, At, Accept, Goto, Typed, Named, Cascaded, Exclusive,
        OfTrigger
  <2>5. HalvesMeet'
    BY <1>9
    DEF DeleteGraph, At, Accept, Goto, Typed, Named, Cascaded, Exclusive,
        HalvesMeet, Turning, OfTrigger
  <2>6. StaysOff'
    BY <1>9 DEF DeleteGraph, StaysOff
  <2> QED BY <2>1, <2>2, <2>3, <2>4, <2>5, <2>6
<1>10. ASSUME NEW q \in TriggerCalls, Cascade(q) PROVE TriggerInv'
  <2>1. Typed'
    BY <1>10 DEF Cascade, At, Goto, Typed
  <2>2. Named'
    BY <1>10 DEF Cascade, At, Goto, Typed, Named, OfTrigger
  <2>3. Cascaded'
    BY <1>10 DEF Cascade, At, Goto, Typed, Named, Cascaded, OfTrigger
  <2>4. Exclusive'
    BY <1>10
    DEF Cascade, At, Goto, Typed, Named, Cascaded, Exclusive, OfTrigger
  <2>5. StaysOff'
    BY <1>10
    DEF Cascade, At, Goto, Typed, Named, Cascaded, Exclusive, StaysOff,
        OfTrigger
  <2>6. HalvesMeet'
    BY <1>10
    DEF Cascade, At, Goto, Typed, Named, Cascaded, Exclusive, HalvesMeet,
        Turning, OfTrigger
  <2> QED BY <2>1, <2>2, <2>3, <2>4, <2>5, <2>6
<1>11. ASSUME NEW q \in TriggerCalls, UnregisterAll(q) PROVE TriggerInv'
  <2>1. Typed'
    BY <1>11 DEF UnregisterAll, At, Finish, Idle, Typed
  <2>2. Named'
    BY <1>11 DEF UnregisterAll, At, Finish, Idle, Typed, Named, OfTrigger
  <2>3. Cascaded'
    BY <1>11
    DEF UnregisterAll, At, Finish, Idle, Typed, Named, Cascaded, OfTrigger
  <2>4. Exclusive'
    BY <1>11
    DEF UnregisterAll, At, Finish, Idle, Typed, Named, Cascaded, Exclusive,
        OfTrigger
  <2>5. StaysOff'
    BY <1>11
    DEF UnregisterAll, At, Finish, Idle, Typed, Named, Cascaded, Exclusive,
        StaysOff, OfTrigger
  <2>6. HalvesMeet'
    BY <1>11
    DEF UnregisterAll, At, Finish, Idle, Typed, Named, Cascaded, Exclusive,
        HalvesMeet, Turning, OfTrigger
  <2> QED BY <2>1, <2>2, <2>3, <2>4, <2>5, <2>6
<1>12. ASSUME NEW q \in TriggerCalls, CutShort(q) PROVE TriggerInv'
  <2>1. Typed'
    BY <1>12 DEF CutShort, At, Finish, Fault, Idle, Typed
  <2>2. Named'
    BY <1>12 DEF CutShort, At, Finish, Fault, Idle, Typed, Named, OfTrigger
  <2>3. Cascaded'
    BY <1>12
    DEF CutShort, At, Finish, Fault, Idle, Typed, Named, Cascaded, OfTrigger
  <2>4. Exclusive'
    BY <1>12
    DEF CutShort, At, Finish, Fault, Idle, Typed, Named, Cascaded, Exclusive,
        OfTrigger
  <2>5. HalvesMeet'
    BY <1>12
    DEF CutShort, At, Finish, Fault, Idle, Typed, Named, Cascaded, Exclusive,
        HalvesMeet, Turning, OfTrigger
  <2>6. StaysOff'
    BY <1>12 DEF CutShort, Fault, StaysOff
  <2> QED BY <2>1, <2>2, <2>3, <2>4, <2>5, <2>6
<1>13. CASE RedisLost
  <2>1. HalvesMeet'
    BY <1>13
    DEF RedisLost, Fault, Typed, Named, Cascaded, Exclusive, HalvesMeet,
        Turning, OfTrigger
  <2>2. Typed' /\ Named' /\ Cascaded' /\ Exclusive' /\ StaysOff'
    BY <1>13 DEF RedisLost, Fault, Typed, Named, Cascaded, Exclusive, StaysOff
  <2> QED BY <2>1, <2>2
<1>14. CASE Boot
  <2>1. HalvesMeet'
    BY <1>14
    DEF Boot, Fault, Typed, Named, Cascaded, Exclusive, HalvesMeet, Turning,
        OfTrigger
  <2>2. Typed' /\ Named' /\ Cascaded' /\ Exclusive' /\ StaysOff'
    BY <1>14 DEF Boot, Fault, Typed, Named, Cascaded, Exclusive, StaysOff
  <2> QED BY <2>1, <2>2
<1>15. ASSUME NEW t \in Schedules, Reconcile(t) PROVE TriggerInv'
  <2>1. HalvesMeet'
    BY <1>15
    DEF Reconcile, Typed, Named, Cascaded, Exclusive, HalvesMeet, Turning,
        OfTrigger
  <2>2. Typed' /\ Named' /\ Cascaded' /\ Exclusive' /\ StaysOff'
    BY <1>15 DEF Reconcile, Typed, Named, Cascaded, Exclusive, StaysOff
  <2> QED BY <2>1, <2>2
<1>16. ASSUME NEW t \in Schedules, CronFires(t) PROVE TriggerInv'
  <2>1. Typed'
    BY <1>16 DEF CronFires, Fires, WorksOn, Typed
  <2>2. StaysOff'
    BY <1>16
    DEF CronFires, Fires, WorksOn, Typed, Named, Cascaded, Exclusive, StaysOff,
        OfTrigger
  <2>3. Named' /\ Cascaded' /\ Exclusive' /\ HalvesMeet'
    BY <1>16
    DEF CronFires, Fires, Named, Cascaded, Exclusive, HalvesMeet, Turning
  <2> QED BY <2>1, <2>2, <2>3
<1>17. ASSUME NEW f \in Firings, NEW h \in Hooks, HookCalled(f, h)
      PROVE  TriggerInv'
  <2>1. Typed'
    BY <1>17 DEF HookCalled, Fires, WorksOn, Typed
  <2>2. StaysOff'
    BY <1>17
    DEF HookCalled, Fires, WorksOn, Typed, Named, Cascaded, Exclusive,
        StaysOff, OfTrigger
  <2>3. Named' /\ Cascaded' /\ Exclusive' /\ HalvesMeet'
    BY <1>17
    DEF HookCalled, Fires, Named, Cascaded, Exclusive, HalvesMeet, Turning
  <2> QED BY <2>1, <2>2, <2>3
<1>18. ASSUME NEW f \in Places, Look(f) PROVE TriggerInv'
  <2>1. Typed'
    BY <1>18 DEF Look, NoFiring, Typed
  <2>2. StaysOff'
    BY <1>18
    DEF Look, NoFiring, Typed, Named, Cascaded, Exclusive, StaysOff, OfTrigger
  <2>3. Named' /\ Cascaded' /\ Exclusive' /\ HalvesMeet'
    BY <1>18 DEF Look, Named, Cascaded, Exclusive, HalvesMeet, Turning
  <2> QED BY <2>1, <2>2, <2>3
<1>19. ASSUME NEW f \in Places, Called(f) PROVE TriggerInv'
  <2> DEFINE hook == slot[f].trigger
             logged == Within(log[hook]) \cup {NextCall(hook)}
             through == Within(passed[hook]) \cup {NextCall(hook)}
  <2>0. /\ hook \in Hooks /\ logged \subseteq Call /\ IsFiniteSet(logged)
        /\ through \subseteq Call
    BY <1>19, CallEnters, CallsStayCalls DEF Called, Typed
  <2>3. slot' = [slot EXCEPT ![f] = NoFiring]
        \/ /\ row[hook] = "on"
           /\ slot' = [slot EXCEPT ![f] = [pc |-> "start", trigger |-> hook]]
    BY <1>19 DEF Called
  <2>4. /\ log' = log \/ log' = [log EXCEPT ![hook] = logged]
        /\ passed' = passed \/ passed' = [passed EXCEPT ![hook] = through]
    BY <1>19 DEF Called
  <2> HIDE DEF logged, through
  <2>5. slot' \in [Places -> Firing]
    BY <2>0, <2>3 DEF Typed, NoFiring
  <2>6. /\ log' \in [Hooks -> SUBSET Call]
        /\ \A h \in Hooks : IsFiniteSet(log'[h])
        /\ passed' \in [Hooks -> SUBSET Call]
    BY <2>0, <2>4 DEF Typed
  <2>1. Typed'
    BY <1>19, <2>5, <2>6 DEF Called, Typed
  <2>2. StaysOff'
    <3>1. /\ slot[f].pc = "look" /\ UNCHANGED <<row, off, lateOnes>>
          /\ \A p \in Places \ {f} : slot'[p] = slot[p]
          /\ \/ slot'[f].pc = "idle"
             \/ /\ row[hook] = "on"
                /\ slot'[f].pc = "start"
      BY <1>19, <2>3 DEF Called, Typed, NoFiring
    <3> QED BY <3>1 DEF StaysOff, Typed
  <2>7. Named' /\ Cascaded' /\ Exclusive' /\ HalvesMeet'
    BY <1>19 DEF Called, Named, Cascaded, Exclusive, HalvesMeet, Turning
  <2> QED BY <2>1, <2>2, <2>7
<1>20. ASSUME NEW f \in Places, StartsRun(f) PROVE TriggerInv'
  <2>1. Typed'
    BY <1>20 DEF StartsRun, NoFiring, Typed
  <2>2. StaysOff'
    BY <1>20
    DEF StartsRun, NoFiring, Typed, Named, Cascaded, Exclusive, StaysOff,
        OfTrigger
  <2>3. Named' /\ Cascaded' /\ Exclusive' /\ HalvesMeet'
    BY <1>20 DEF StartsRun, Named, Cascaded, Exclusive, HalvesMeet, Turning
  <2> QED BY <2>1, <2>2, <2>3
<1>21. CASE TimePasses
  <2>1. ASSUME NEW h \in Hooks
        PROVE  /\ Older(log[h]) \subseteq Call /\ IsFiniteSet(Older(log[h]))
               /\ Within(Older(passed[h])) \subseteq Call
    BY CallsStayCalls, FewerCalls DEF Typed
  <2>2. Typed'
    BY <1>21, <2>1 DEF TimePasses, Typed
  <2>3. Named' /\ Cascaded' /\ Exclusive' /\ StaysOff' /\ HalvesMeet'
    BY <1>21
    DEF TimePasses, Named, Cascaded, Exclusive, StaysOff, HalvesMeet, Turning
  <2> QED BY <2>2, <2>3
<1>22. CASE ApiRestarts
  <2>1. Typed'
    BY <1>22, FS_EmptySet DEF ApiRestarts, Fault, Idle, NoFiring, Typed
  <2>2. Named' /\ Cascaded' /\ Exclusive'
    BY <1>22
    DEF ApiRestarts, Fault, Idle, Typed, Named, Cascaded, Exclusive, OfTrigger
  <2>3. StaysOff'
    BY <1>22 DEF ApiRestarts, Fault, NoFiring, Typed, StaysOff
  <2>4. HalvesMeet'
    BY <1>22
    DEF ApiRestarts, Fault, Idle, Typed, Named, Cascaded, Exclusive,
        HalvesMeet, Turning, OfTrigger
  <2> QED BY <2>1, <2>2, <2>3, <2>4
<1>23. ASSUME NEW t \in Schedules, ReconcileFails(t) PROVE TriggerInv'
  <2>1. HalvesMeet'
    BY <1>23
    DEF ReconcileFails, Typed, Named, Cascaded, Exclusive, HalvesMeet,
        Turning, OfTrigger
  <2>2. Typed' /\ Named' /\ Cascaded' /\ Exclusive' /\ StaysOff'
    BY <1>23 DEF ReconcileFails, Typed, Named, Cascaded, Exclusive, StaysOff
  <2> QED BY <2>1, <2>2
<1>24. CASE UNCHANGED triggerVars
  BY <1>24
  DEF triggerVars, Typed, Named, Cascaded, Exclusive, StaysOff, HalvesMeet,
      Turning
<1> QED
  BY <1>1, <1>2, <1>3, <1>4, <1>5, <1>6, <1>7, <1>8, <1>9, <1>10, <1>11,
     <1>12, <1>13, <1>14, <1>15, <1>16, <1>17, <1>18, <1>19, <1>20, <1>21,
     <1>22, <1>23, <1>24
  DEF TriggerNext

\* Whatever fires or calls after a trigger was switched off or deleted starts
\* no run, for any triggers, requests and faults.  (runScheduledTrigger, the
\* route of a webhook, the order of row and scheduler in triggers.ts)
THEOREM OffStartsNothing == TriggerSpec => []OffIsOff
<1>1. TriggerInv => OffIsOff
  BY DEF TriggerInv, StaysOff, OffIsOff
<1> QED BY TriggerInvInit, TriggerInvStep, <1>1, PTL DEF TriggerSpec

\* A schedule that is on has its job scheduler, but for overlapping requests,
\* one cut short, Redis lost or a boot that could not register it, and then
\* until the worker boots and can.  (triggers.ts, reconcileSchedules)
THEOREM OnHasItsScheduler == TriggerSpec => []OnIsRegistered
<1>1. TriggerInv => OnIsRegistered
  BY TriggerAssumption
  DEF TriggerInv, Typed, Named, Cascaded, HalvesMeet, OnIsRegistered,
      TriggerId, Turning, OfTrigger
<1> QED BY TriggerInvInit, TriggerInvStep, <1>1, PTL DEF TriggerSpec

-----------------------------------------------------------------------------
(* The window of a webhook.                                                *)

\* The calls that were let through are in the log, which counts the refused
\* ones as well, and no more of them are in the window than the limit.
Admits(h) ==
    /\ Within(passed[h]) \subseteq log[h]
    /\ Cardinality(Within(passed[h])) <= MaxPerWindow

RateInv == \A h \in Hooks : Admits(h)

LEMMA RateInvStep ==
    ASSUME Typed, Typed', RateInv, [TriggerNext]_triggerVars
    PROVE  RateInv'
<1> SUFFICES ASSUME NEW h \in Hooks PROVE Admits(h)'
  BY DEF RateInv
<1> DEFINE W == Within(passed[h])
<1>0. /\ W \subseteq log[h] /\ Cardinality(W) <= MaxPerWindow
      /\ IsFiniteSet(W) /\ Cardinality(W) \in Nat
  BY FS_Subset, FS_CardinalityType DEF RateInv, Admits, Typed
<1>1. CASE UNCHANGED <<log, passed>>
  BY <1>0, <1>1 DEF Admits, Within
<1>2. CASE ApiRestarts
  <2>1. Within(passed'[h]) = {}
    BY <1>2 DEF ApiRestarts, Within
  <2> QED BY <2>1, FS_EmptySet, TriggerAssumption DEF Admits, Within
<1>3. ASSUME NEW f \in Places, Called(f) PROVE Admits(h)'
  <2> DEFINE hook == slot[f].trigger
             call == NextCall(hook)
  <2>1. /\ hook \in Hooks
        /\ \/ UNCHANGED <<log, passed>>
           \/ /\ log' = [log EXCEPT ![hook] = Within(@) \cup {call}]
              /\ \/ passed' = passed
                 \/ /\ ~Limited(hook)
                    /\ passed' = [passed EXCEPT ![hook] = Within(@) \cup {call}]
    BY <1>3 DEF Called
  <2>2. W \subseteq Within(log[h])
    BY <1>0 DEF Within
  <2> HIDE DEF call, hook
  <2>3. CASE h # hook \/ UNCHANGED <<log, passed>>
    <3>1. log'[h] = log[h] /\ passed'[h] = passed[h]
      BY <2>1, <2>3 DEF Typed
    <3> QED BY <1>0, <3>1 DEF Admits, Within
  <2>4. CASE /\ h = hook /\ passed' = passed
             /\ log' = [log EXCEPT ![hook] = Within(@) \cup {call}]
    <3>1. log'[h] = Within(log[h]) \cup {call} /\ passed'[h] = passed[h]
      BY <2>4 DEF Typed
    <3>2. Within(passed'[h]) = W
      BY <3>1
    <3> HIDE DEF W
    <3>3. Within(passed'[h]) \subseteq log'[h]
      BY <2>2, <3>1, <3>2
    <3>4. Cardinality(Within(passed'[h])) <= MaxPerWindow
      BY <1>0, <3>2
    <3> QED BY <3>3, <3>4 DEF Admits, Within
  <2>5. CASE /\ h = hook /\ ~Limited(hook)
             /\ log' = [log EXCEPT ![hook] = Within(@) \cup {call}]
             /\ passed' = [passed EXCEPT ![hook] = Within(@) \cup {call}]
    <3> DEFINE L == Within(log[h]) \cup {call}
    <3>1. log'[h] = L /\ passed'[h] = W \cup {call}
      BY <2>5 DEF Typed
    <3>2. Within(passed'[h]) \subseteq W \cup {call}
      BY <3>1 DEF Within
    <3>3. Within(passed'[h]) \in SUBSET L
      BY <2>2, <3>2
    <3>4. IsFiniteSet(L) /\ Cardinality(L) <= Cardinality(Within(log[h])) + 1
      BY <2>1, <2>5, CallEnters DEF call
    <3>5. Cardinality(Within(log[h])) \in Nat
      BY FewerCalls DEF Typed
    <3>6. Cardinality(Within(log[h])) + 1 <= MaxPerWindow
      BY <2>5, <3>5, TriggerAssumption DEF Limited
    <3> HIDE DEF L
    <3>7. /\ Cardinality(Within(passed'[h])) <= Cardinality(L)
          /\ Cardinality(Within(passed'[h])) \in Nat /\ Cardinality(L) \in Nat
      BY <3>3, <3>4, FS_Subset, FS_CardinalityType
    <3>8. Cardinality(Within(passed'[h])) <= MaxPerWindow
      BY <3>4, <3>5, <3>6, <3>7, TriggerAssumption
    <3> QED BY <3>1, <3>3, <3>8 DEF Admits, Within
  <2> QED BY <2>1, <2>3, <2>4, <2>5
<1>4. CASE TimePasses
  <2>1. /\ log'[h] = Older(log[h])
        /\ passed'[h] = Within(Older(passed[h]))
    BY <1>4 DEF TimePasses
  <2>2. Within(passed'[h]) \subseteq Older(W)
    <3>1. ASSUME NEW c \in passed[h], ~(c.age < Window)
          PROVE  ~([c EXCEPT !.age = IF @ < Window THEN @ + 1 ELSE @].age
                       < Window)
      <4>1. c \in Call
        BY DEF Typed
      <4> QED BY <3>1, <4>1, TriggerAssumption DEF Call
    <3> QED BY <2>1, <3>1 DEF Within, Older
  <2> HIDE DEF W
  <2>3. Older(W) \subseteq log'[h]
    BY <1>0, <2>1 DEF Older
  <2>4. IsFiniteSet(Older(W)) /\ Cardinality(Older(W)) <= Cardinality(W)
    BY <1>0, FewerCalls
  <2>5. /\ Cardinality(Within(passed'[h])) <= Cardinality(Older(W))
        /\ Cardinality(Within(passed'[h])) \in Nat
        /\ Cardinality(Older(W)) \in Nat
    BY <2>2, <2>4, FS_Subset, FS_CardinalityType
  <2>6. Cardinality(Within(passed'[h])) <= MaxPerWindow
    BY <1>0, <2>4, <2>5, TriggerAssumption
  <2>7. Within(passed'[h]) \subseteq log'[h]
    BY <2>2, <2>3
  <2> QED BY <2>6, <2>7 DEF Admits, Within
<1>5. [TriggerNext]_triggerVars =>
          \/ UNCHANGED <<log, passed>>
          \/ \E f \in Places : Called(f)
          \/ ApiRestarts \/ TimePasses
  BY DEF TriggerNext, triggerVars, CreateTrigger, DeleteRow, PatchRead,
     CreateInsert, PatchRegister, PatchRefused, PatchUpdate, DeleteUnregister,
     DeleteGraph, Cascade, UnregisterAll, CutShort, RedisLost, Boot, Reconcile,
     ReconcileFails, CronFires, HookCalled, Look, StartsRun
<1> QED BY <1>1, <1>2, <1>3, <1>4, <1>5

\* In one life of the API no window of a webhook lets more calls through than
\* its limit, however many are in progress at once and however many were
\* refused, for any limit, window and faults.  (isRateLimited in
\* webhookTriggers.ts)
THEOREM RatesHold == TriggerSpec => []RateHolds
<1> DEFINE Inv == TriggerInv /\ RateInv
<1>1. TriggerInit => Inv
  <2>1. TriggerInit => RateInv
    <3> SUFFICES ASSUME TriggerInit, NEW h \in Hooks PROVE Admits(h)
      BY DEF RateInv
    <3>1. Within(passed[h]) = {}
      BY DEF TriggerInit, Within
    <3> QED BY <3>1, FS_EmptySet, TriggerAssumption DEF Admits
  <2> QED BY <2>1, TriggerInvInit
<1>2. Inv /\ [TriggerNext]_triggerVars => Inv'
  BY TriggerInvStep, RateInvStep DEF TriggerInv
<1>3. Inv => RateHolds
  BY DEF RateInv, Admits, RateHolds
<1> QED BY <1>1, <1>2, <1>3, PTL DEF TriggerSpec

=============================================================================
