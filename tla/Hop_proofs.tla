------------------------------ MODULE Hop_proofs ------------------------------
(***************************************************************************)
(* Theorems about the parts of a hop.  For any chain of providers, any set *)
(* of MCP servers, any deadline with its margins, any backoff and any      *)
(* hints: who settles a call settles it for good, and its sessions are     *)
(* closed.  For any hops and worktrees: a hop that answered has its work   *)
(* committed, a row names a commit with the hop's work in it, and what is  *)
(* marked as pushed is on the remote.  For any edges and any output: where *)
(* the output goes.                                                        *)
(***************************************************************************)
EXTENDS ModelCall, Worktrees, Routing, FiniteSetTheorems,
        WellFoundedInduction, TLAPS

-----------------------------------------------------------------------------
(* The model call.                                                         *)

\* withRetry goes to sleep only while it has an attempt left.
AttemptLeft == phase = "backoff" => attempt < MaxAttempts

CallTypes == CallTypeOK /\ AttemptLeft

LEMMA TypesInit == CallInit => CallTypes
  <1> SUFFICES ASSUME CallInit PROVE CallTypes
    OBVIOUS
  <1>1. now \in 0..Horizon /\ began \in 0..now /\ due \in Nat /\ wake \in Nat
    BY CallAssumption DEF CallInit
  <1>2. target \in Target /\ attempt \in 1..MaxAttempts
    BY CallAssumption DEF CallInit, Target
  <1>3. phase \in Phases /\ AttemptLeft
    BY DEF CallInit, Phases, AttemptLeft
  <1>4. /\ sessions \subseteq Session /\ closers \subseteq Session
        /\ stranded \subseteq Session /\ dirty \subseteq Target
        /\ commits \subseteq [by : Target, holds : SUBSET Target]
    BY DEF CallInit
  <1>5. /\ tools \in BOOLEAN /\ touched \in BOOLEAN
        /\ hop \in {"racing", "answered", "failed", "timedout"}
    BY DEF CallInit
  <1> QED
    BY <1>1, <1>2, <1>3, <1>4, <1>5 DEF CallTypes, CallTypeOK

\* The end of one target keeps the types.
LEMMA FailTypes ==
    ASSUME CallTypes, NEW class, Fail(class)
    PROVE  /\ target' \in Target
           /\ phase' \in {"setup", "over"}
           /\ hop' \in {"racing", "answered", "failed", "timedout"}
           /\ sessions' \subseteq Session /\ closers' \subseteq Session
  BY CallAssumption
     DEF CallTypes, CallTypeOK, Fail, CloseSessions, Settle, Target

\* A call that begins has an abort time.
LEMMA AbortTimeIsTime ==
    ASSUME CallTypes
    PROVE  AbortTime \in Nat
  BY CallAssumption
     DEF CallTypes, CallTypeOK, AbortTime, Greatest

LEMMA TypesStep == CallTypes /\ [CallNext]_callVars => CallTypes'
  <1> SUFFICES ASSUME CallTypes, [CallNext]_callVars PROVE CallTypes'
    OBVIOUS
  <1> USE CallAssumption DEF sessionVars, treeVars
  <1>0. now \in Nat /\ AbortTime \in Nat /\ now \in 0..now
    BY AbortTimeIsTime DEF CallTypes, CallTypeOK
  <1>1. CASE SetUp
    <2>1. PICK reached \in Reached :
              /\ sessions' = sessions \cup Connections(reached)
              /\ closers' = Connections(reached)
      BY <1>1 DEF SetUp
    <2>2. Connections(reached) \subseteq Session
      BY DEF Reached, Connections, Session, CallTypes, CallTypeOK
    <2>3. attempt' = 1 /\ 1 \in 1..MaxAttempts
      BY <1>1 DEF SetUp
    <2>4. phase' = "calling" /\ phase' \in Phases /\ AttemptLeft'
      BY <1>1 DEF SetUp, BeginCall, Phases, AttemptLeft
    <2>5. now' \in 0..Horizon /\ began' \in 0..now' /\ due' \in Nat
      BY <1>0, <1>1 DEF SetUp, BeginCall, CallTypes, CallTypeOK
    <2>6. /\ sessions' \subseteq Session /\ closers' \subseteq Session
          /\ stranded' \subseteq Session
      BY <1>1, <2>1, <2>2 DEF SetUp, CallTypes, CallTypeOK
    <2> QED
      BY <1>1, <2>3, <2>4, <2>5, <2>6 DEF SetUp, CallTypes, CallTypeOK
  <1>2. CASE SetUpFails
    BY <1>2, FailTypes
       DEF SetUpFails, CallTypes, CallTypeOK, AttemptLeft, Phases
  <1>3. CASE TokenUnreadable
    <2>1. PICK reached \in Reached :
              /\ stranded' = stranded \cup Connections(reached)
              /\ sessions' = sessions \cup Connections(reached)
      BY <1>3 DEF TokenUnreadable
    <2>2. Connections(reached) \subseteq Session
      BY DEF Reached, Connections, Session, CallTypes, CallTypeOK
    <2>3. hop' \in {"racing", "answered", "failed", "timedout"}
      BY <1>3 DEF TokenUnreadable, Settle, CallTypes, CallTypeOK
    <2> QED
      BY <1>3, <2>1, <2>2, <2>3
         DEF TokenUnreadable, CallTypes, CallTypeOK, AttemptLeft, Phases
  <1>4. CASE StartTools
    BY <1>4 DEF StartTools, CallTypes, CallTypeOK, AttemptLeft, Phases
  <1>5. CASE ToolsReturn
    BY <1>5 DEF ToolsReturn, CallTypes, CallTypeOK, AttemptLeft, Phases
  <1>6. CASE Aborts
    <2>1. CASE tools
      BY <1>6, <2>1
         DEF Aborts, CallTypes, CallTypeOK, AttemptLeft, Phases
    <2>2. CASE ~tools
      BY <1>6, <2>2, FailTypes
         DEF Aborts, CallTypes, CallTypeOK, AttemptLeft, Phases
    <2> QED
      BY <2>1, <2>2
  <1>7. CASE Returns
    BY <1>7 DEF Returns, CallTypes, CallTypeOK, AttemptLeft, Phases
  <1>8. CASE CallFailsInPassing
    <2>1. CASE attempt < MaxAttempts
      <3>1. PICK delay \in Hints \cup {Delays[attempt]} :
                wake' = now + Least(delay, MaxDelay)
        BY <1>8, <2>1 DEF CallFailsInPassing
      <3>2. delay \in Nat
        BY DEF CallTypes, CallTypeOK
      <3>3. wake' \in Nat
        BY <1>0, <3>1, <3>2 DEF Least
      <3> QED
        BY <1>8, <2>1, <3>3
           DEF CallFailsInPassing, CallTypes, CallTypeOK, AttemptLeft, Phases
    <2>2. CASE ~(attempt < MaxAttempts)
      BY <1>8, <2>2, FailTypes
         DEF CallFailsInPassing, CallTypes, CallTypeOK, AttemptLeft, Phases
    <2> QED
      BY <2>1, <2>2
  <1>9. CASE CallThrows
    BY <1>9, FailTypes
       DEF CallThrows, CallTypes, CallTypeOK, AttemptLeft, Phases
  <1>10. CASE Retry
    BY <1>0, <1>10
       DEF Retry, BeginCall, CallTypes, CallTypeOK, AttemptLeft, Phases
  <1>11. ASSUME Commit \/ CommitFails
         PROVE  /\ commits' \subseteq [by : Target, holds : SUBSET Target]
                /\ dirty' \subseteq Target
    <2>1. [by |-> target, holds |-> dirty]
              \in [by : Target, holds : SUBSET Target]
      BY DEF CallTypes, CallTypeOK
    <2> QED
      BY <1>11, <2>1
         DEF Commit, CommitFails, CommitAll, CallTypes, CallTypeOK
  <1>12. CASE Commit
    BY <1>11, <1>12
       DEF Commit, Answer, CloseSessions, Settle, CallTypes, CallTypeOK,
           AttemptLeft, Phases
  <1>13. CASE CommitFails
    BY <1>11, <1>13, FailTypes
       DEF CommitFails, CallTypes, CallTypeOK, AttemptLeft, Phases
  <1>14. CASE HopTimesOut
    BY <1>14 DEF HopTimesOut, CallTypes, CallTypeOK, AttemptLeft
  <1>15. CASE CallTick
    BY <1>15 DEF CallTick, CallTypes, CallTypeOK, AttemptLeft
  <1>16. CASE UNCHANGED callVars
    BY <1>16 DEF callVars, CallTypes, CallTypeOK, AttemptLeft
  <1> QED
    BY <1>1, <1>2, <1>3, <1>4, <1>5, <1>6, <1>7, <1>8, <1>9, <1>10, <1>12,
       <1>13, <1>14, <1>15, <1>16 DEF CallNext, CallAgent

LEMMA AllTypes == CallSpec => []CallTypes
  BY TypesInit, TypesStep, PTL DEF CallSpec

\* Every variable keeps its type.
THEOREM CallTypeCorrect == CallSpec => []CallTypeOK
  BY AllTypes, PTL DEF CallTypes

-----------------------------------------------------------------------------

\* A call is aborted at the margin before the deadline, or after the minimum
\* if that is later, and is not in flight past that: a tool that came back
\* late does not start another one.
InTime ==
    /\ phase \in {"calling", "tool"} =>
           due = began + Greatest(MinCall, Deadline - Abort - began)
    /\ phase = "calling" => now <= due

LEMMA InTimeStep == CallTypes /\ InTime /\ [CallNext]_callVars => InTime'
  <1> SUFFICES ASSUME CallTypes, InTime, [CallNext]_callVars PROVE InTime'
    OBVIOUS
  <1> USE CallAssumption DEF sessionVars, treeVars
  <1>0. now \in Nat /\ began \in Nat /\ due \in Nat
    BY DEF CallTypes, CallTypeOK
  <1>1. CASE BeginCall /\ UNCHANGED now
    BY <1>0, <1>1 DEF BeginCall, AbortTime, Greatest, InTime
  <1>2. CASE StartTools
    BY <1>2 DEF StartTools, InTime
  <1>3. CASE ToolsReturn
    <2>1. CASE now >= Deadline - Graceful
      BY <1>3, <2>1 DEF ToolsReturn, InTime
    <2>2. CASE ~(now >= Deadline - Graceful)
      <3>1. due = began + Greatest(MinCall, Deadline - Abort - began)
        BY <1>3 DEF ToolsReturn, InTime
      <3>2. due >= Deadline - Abort
        BY <1>0, <3>1 DEF Greatest
      <3>3. now <= due
        BY <1>0, <2>2, <3>2
      <3> QED
        BY <1>3, <3>1, <3>3 DEF ToolsReturn, InTime
    <2> QED
      BY <2>1, <2>2
  <1>4. CASE phase' \notin {"calling", "tool"}
    BY <1>4 DEF InTime
  <1>5. CASE CallTick
    BY <1>0, <1>5 DEF CallTick, InTime
  <1>6. CASE UNCHANGED <<now, phase, began, due>>
    BY <1>6 DEF InTime
  <1>7. ASSUME NEW class, Fail(class)
        PROVE  phase' \notin {"calling", "tool"}
    BY <1>7 DEF Fail
  <1>8. CASE Aborts
    <2>1. phase' \notin {"calling", "tool"}
      BY <1>7, <1>8 DEF Aborts
    <2> QED
      BY <1>4, <2>1
  <1>9. CASE CallFailsInPassing \/ CallThrows \/ SetUpFails
    <2>1. phase' \notin {"calling", "tool"}
      BY <1>7, <1>9 DEF CallFailsInPassing, CallThrows, SetUpFails
    <2> QED
      BY <1>4, <2>1
  <1>10. CASE Commit \/ CommitFails \/ Returns \/ TokenUnreadable
    <2>1. phase' \notin {"calling", "tool"}
      BY <1>7, <1>10
         DEF Commit, Answer, CommitFails, Returns, TokenUnreadable
    <2> QED
      BY <1>4, <2>1
  <1>11. CASE SetUp \/ Retry
    BY <1>1, <1>11 DEF SetUp, Retry
  <1>12. CASE HopTimesOut \/ UNCHANGED callVars
    BY <1>6, <1>12 DEF HopTimesOut, callVars
  <1> QED
    BY <1>2, <1>3, <1>5, <1>8, <1>9, <1>10, <1>11, <1>12
       DEF CallNext, CallAgent

\* No retry, no fallback and no tool keeps a call in flight past the hop's
\* deadline by more than the minimum a call gets, whatever the margins and
\* the waits that servers ask for.
THEOREM ZombiesAreShort == CallSpec => []NoLongZombie
  <1>1. CallInit => InTime
    BY DEF CallInit, InTime
  <1>2. CallTypes /\ InTime => NoLongZombie
    <2> SUFFICES ASSUME CallTypes, InTime, phase = "calling"
                 PROVE  now < Deadline \/ now <= began + MinCall
      BY DEF NoLongZombie
    <2>1. /\ now \in Nat /\ began \in Nat
          /\ now <= began + Greatest(MinCall, Deadline - Abort - began)
      BY DEF CallTypes, CallTypeOK, InTime
    <2> QED
      BY <2>1, CallAssumption DEF Greatest
  <1> QED
    BY <1>1, <1>2, AllTypes, InTimeStep, PTL DEF CallSpec

-----------------------------------------------------------------------------

\* What is open is on the list of the target's closeAll, or was stranded by a
\* set-up that threw; the list is empty while no target is at work.
Closable ==
    /\ sessions \subseteq stranded \cup closers
    /\ closers \subseteq {target} \X Servers
    /\ phase \in {"setup", "over"} => closers = {}

LEMMA ClosableStep == CallTypes /\ Closable /\ [CallNext]_callVars => Closable'
  <1> SUFFICES ASSUME CallTypes, Closable, [CallNext]_callVars
               PROVE  Closable'
    OBVIOUS
  <1> USE DEF sessionVars, treeVars
  <1>1. CASE SetUp
    <2>1. PICK reached \in Reached :
              /\ sessions' = sessions \cup Connections(reached)
              /\ closers' = Connections(reached)
      BY <1>1 DEF SetUp
    <2>2. /\ closers = {} /\ stranded' = stranded /\ target' = target
          /\ phase' = "calling"
      BY <1>1 DEF SetUp, BeginCall, Closable
    <2>3. Connections(reached) \subseteq {target} \X Servers
      BY DEF Reached, Connections
    <2> QED
      BY <2>1, <2>2, <2>3 DEF Closable
  <1>2. CASE TokenUnreadable
    <2>1. PICK reached \in Reached :
              /\ stranded' = stranded \cup Connections(reached)
              /\ sessions' = sessions \cup Connections(reached)
      BY <1>2 DEF TokenUnreadable
    <2>2. closers = {} /\ closers' = {}
      BY <1>2 DEF TokenUnreadable, Closable
    <2> QED
      BY <2>1, <2>2 DEF Closable
  <1>3. CASE CloseSessions /\ stranded' = stranded
    BY <1>3 DEF CloseSessions, Closable
  <1>4. ASSUME NEW class, Fail(class) PROVE CloseSessions
    BY <1>4 DEF Fail
  <1>5. CASE /\ UNCHANGED <<sessions, closers, stranded, target>>
             /\ phase \notin {"setup", "over"} \/ phase' = phase
             /\ phase' \notin {"setup", "over"} \/ phase' = phase
    BY <1>5 DEF Closable
  <1>6. CASE SetUpFails \/ CallThrows \/ Commit \/ CommitFails
    <2>1. CloseSessions /\ stranded' = stranded
      BY <1>4, <1>6 DEF SetUpFails, CallThrows, Commit, Answer, CommitFails
    <2> QED
      BY <1>3, <2>1
  <1>7. CASE Aborts
    <2>1. CASE tools
      BY <1>5, <1>7, <2>1 DEF Aborts
    <2>2. CASE ~tools
      BY <1>3, <1>4, <1>7, <2>2 DEF Aborts
    <2> QED
      BY <2>1, <2>2
  <1>8. CASE CallFailsInPassing
    <2>1. CASE attempt < MaxAttempts
      BY <1>5, <1>8, <2>1 DEF CallFailsInPassing
    <2>2. CASE ~(attempt < MaxAttempts)
      BY <1>3, <1>4, <1>8, <2>2 DEF CallFailsInPassing
    <2> QED
      BY <2>1, <2>2
  <1>9. CASE StartTools \/ ToolsReturn \/ Returns \/ Retry
    BY <1>5, <1>9 DEF StartTools, ToolsReturn, Returns, Retry, BeginCall
  <1>10. CASE HopTimesOut \/ CallTick \/ UNCHANGED callVars
    BY <1>5, <1>10 DEF HopTimesOut, CallTick, callVars
  <1> QED
    BY <1>1, <1>2, <1>6, <1>7, <1>8, <1>9, <1>10 DEF CallNext, CallAgent

\* Every way out of a target but a set-up that throws closes the target's
\* connections, however many servers and providers there are.
THEOREM SessionsAreClosed == CallSpec => []SessionsClosed
  <1>1. CallInit => Closable
    BY DEF CallInit, Closable
  <1>2. Closable => SessionsClosed
    BY DEF Closable, SessionsClosed
  <1> QED
    BY <1>1, <1>2, AllTypes, ClosableStep, PTL DEF CallSpec

-----------------------------------------------------------------------------
(* The worktrees that hops share.                                          *)

Typed ==
    /\ step \in [Hops -> Step] /\ wrote \subseteq Hops
    /\ sha \in [Hops -> Nat] /\ trees \subseteq branches
    /\ unstaged \in [Worktrees -> SUBSET Hops]
    /\ staged \in [Worktrees -> SUBSET Hops]
    /\ history \in [Worktrees -> Seq(SUBSET Hops)]
    /\ rows \in Seq(CommitRow)
    /\ remote \in [Worktrees -> Nat]
    /\ push \in 0..Len(rows) /\ sent \in BOOLEAN
    /\ asked \in 0..Len(rows)

\* A hop goes to git with something it wrote.
Writers ==
    \A h \in Hops :
        step[h] \in {"staging", "committing", "reading", "recording"} =>
            h \in wrote

\* Where a hop's work is: in the worktree as long as there is one, in the
\* index or on the branch once the hop has staged it, and on the branch from
\* its git commit on.
Kept ==
    \A h \in wrote :
        LET w == Tree(h) IN
        /\ w \in branches
        /\ w \in trees => h \in unstaged[w] \cup staged[w] \cup Committed(w)
        /\ step[h] = "committing" /\ w \in trees =>
               h \in staged[w] \cup Committed(w)
        /\ step[h] \in {"reading", "recording", "answered"} =>
               h \in Committed(w)

\* The commit k of a worktree has the hop's work in it, or in one before it.
Names(w, k, h) ==
    k \in DOMAIN history[w] /\ \E j \in 1..k : h \in history[w][j]

HeadsNamed ==
    \A h \in Hops : step[h] = "recording" => Names(Tree(h), sha[h], h)

RowsNamed ==
    \A i \in DOMAIN rows : Names(rows[i].tree, rows[i].sha, rows[i].hop)

\* What is pushed, or being marked as pushed, is on the remote, and the
\* remote has nothing that the branch has not.
Remote ==
    /\ \A i \in DOMAIN rows :
           rows[i].pushed => rows[i].sha <= remote[rows[i].tree]
    /\ push # 0 /\ sent => rows[push].sha <= remote[rows[push].tree]
    /\ asked # 0 => rows[asked].pushed
    /\ \A w \in Worktrees : remote[w] <= Len(history[w])

TreeInv == Typed /\ Writers /\ Kept /\ HeadsNamed /\ RowsNamed /\ Remote

-----------------------------------------------------------------------------
(* Branches only grow.                                                     *)

Grown ==
    \A w \in Worktrees :
        /\ Len(history[w]) <= Len(history'[w])
        /\ \A k \in DOMAIN history[w] : history'[w][k] = history[w][k]

LEMMA SameHasGrown ==
    ASSUME Typed, history' = history
    PROVE  Grown
  BY DEF Typed, Grown

LEMMA TreeIsWorktree ==
    ASSUME NEW h \in Hops
    PROVE  Tree(h) \in Worktrees
  BY TreeAssumption DEF Tree, Worktrees

LEMMA CommitGrows ==
    ASSUME Typed, NEW w \in Worktrees,
           history' = [history EXCEPT ![w] = Append(history[w], staged[w])]
    PROVE  /\ Grown /\ history' \in [Worktrees -> Seq(SUBSET Hops)]
           /\ staged[w] \subseteq Committed(w)'
<1>1. history[w] \in Seq(SUBSET Hops) /\ staged[w] \in SUBSET Hops
  BY DEF Typed
<1>2. Append(history[w], staged[w]) \in Seq(SUBSET Hops)
  BY <1>1
<1>3. history' \in [Worktrees -> Seq(SUBSET Hops)]
  BY <1>2 DEF Typed
<1>4. history'[w] = Append(history[w], staged[w])
  BY DEF Typed
<1>5. \A v \in Worktrees \ {w} : history'[v] = history[v]
  BY DEF Typed
<1>6. /\ Len(history'[w]) = Len(history[w]) + 1
      /\ Len(history'[w]) \in DOMAIN history'[w]
      /\ history'[w][Len(history'[w])] = staged[w]
      /\ \A k \in DOMAIN history[w] : history'[w][k] = history[w][k]
  BY <1>1, <1>4
<1>7. Grown
  <2> SUFFICES ASSUME NEW v \in Worktrees
               PROVE  /\ Len(history[v]) <= Len(history'[v])
                      /\ \A k \in DOMAIN history[v] :
                             history'[v][k] = history[v][k]
    BY DEF Grown
  <2>1. CASE v = w
    BY <1>1, <1>6, <2>1
  <2>2. CASE v # w
    <3>1. history[v] \in Seq(SUBSET Hops) /\ history'[v] = history[v]
      BY <1>5, <2>2 DEF Typed
    <3> QED BY <3>1
  <2> QED BY <2>1, <2>2
<1>8. staged[w] \subseteq Committed(w)'
  BY <1>6 DEF Committed
<1> QED BY <1>3, <1>7, <1>8

LEMMA CommittedStays ==
    ASSUME Typed, Typed', Grown, NEW w \in Worktrees
    PROVE  Committed(w) \subseteq Committed(w)'
<1>1. history[w] \in Seq(SUBSET Hops) /\ history'[w] \in Seq(SUBSET Hops)
  BY DEF Typed
<1>2. DOMAIN history[w] \subseteq DOMAIN history'[w]
  BY <1>1 DEF Grown
<1> QED BY <1>2 DEF Committed, Grown

LEMMA NamesStays ==
    ASSUME Typed, Typed', Grown, NEW w \in Worktrees, NEW k, NEW h,
           Names(w, k, h)
    PROVE  Names(w, k, h)'
<1>1. history[w] \in Seq(SUBSET Hops) /\ history'[w] \in Seq(SUBSET Hops)
  BY DEF Typed
<1>2. DOMAIN history[w] \subseteq DOMAIN history'[w]
  BY <1>1 DEF Grown
<1>3. 1..k \subseteq DOMAIN history[w]
  BY <1>1 DEF Names
<1> QED BY <1>2, <1>3 DEF Names, Grown

\* The rows as they are, on branches that have grown.
LEMMA RowsStay ==
    ASSUME Typed, Typed', Grown, RowsNamed, rows' = rows
    PROVE  RowsNamed'
<1> SUFFICES ASSUME NEW i \in DOMAIN rows
             PROVE  Names(rows[i].tree, rows[i].sha, rows[i].hop)'
  BY DEF RowsNamed
<1>1. rows[i].tree \in Worktrees
  <2>1. rows[i] \in CommitRow
    BY DEF Typed
  <2> QED BY <2>1 DEF CommitRow
<1>2. Names(rows[i].tree, rows[i].sha, rows[i].hop)
  BY DEF RowsNamed
<1>3. rows'[i] = rows[i]
  OBVIOUS
<1> QED BY <1>1, <1>2, <1>3, NamesStays DEF Names

LEMMA RemoteStays ==
    ASSUME Typed, Typed', Grown, Remote,
           UNCHANGED <<rows, remote, push, sent, asked>>
    PROVE  Remote'
<1>1. \A w \in Worktrees : Len(history[w]) \in Nat /\ Len(history'[w]) \in Nat
  BY DEF Typed
<1>2. \A w \in Worktrees : remote'[w] <= Len(history'[w])
  BY <1>1 DEF Typed, Grown, Remote
<1> QED BY <1>2 DEF Remote

-----------------------------------------------------------------------------

LEMMA TreeInvInit == TreeInit => TreeInv
<1> SUFFICES ASSUME TreeInit PROVE TreeInv
  OBVIOUS
<1>1. Typed
  <2>1. <<>> \in Seq(SUBSET Hops) /\ <<>> \in Seq(CommitRow)
    OBVIOUS
  <2>2. /\ history \in [Worktrees -> Seq(SUBSET Hops)]
        /\ rows \in Seq(CommitRow) /\ Len(rows) = 0
    BY <2>1 DEF TreeInit
  <2>3. /\ step \in [Hops -> Step] /\ wrote \subseteq Hops
        /\ sha \in [Hops -> Nat] /\ trees \subseteq branches
        /\ remote \in [Worktrees -> Nat]
        /\ unstaged \in [Worktrees -> SUBSET Hops]
        /\ staged \in [Worktrees -> SUBSET Hops]
    BY DEF TreeInit, Step
  <2>4. push = 0 /\ asked = 0 /\ sent \in BOOLEAN
    BY DEF TreeInit
  <2> QED BY <2>2, <2>3, <2>4 DEF Typed
<1>2. Writers /\ Kept /\ HeadsNamed
  BY DEF TreeInit, Writers, Kept, HeadsNamed
<1>3. RowsNamed /\ Remote
  BY DEF TreeInit, RowsNamed, Remote
<1> QED BY <1>1, <1>2, <1>3 DEF TreeInv


\* What is published stays as it is.
SamePublished == UNCHANGED <<rows, remote, push, sent, asked>>

\* Worktrees come with a branch nobody has written on.
TreesGrow ==
    /\ trees' \subseteq branches' /\ branches \subseteq branches'
    /\ trees' \cap branches \subseteq trees

\* A hop goes on, and what it wrote stays where it was.
LEMMA HopMoves ==
    ASSUME TreeInv, NEW h \in Hops, NEW s \in Step, Goto(h, s),
           UNCHANGED <<wrote, sha, unstaged, staged, history>>,
           SamePublished, TreesGrow,
           s \notin {"committing", "reading", "recording"},
           s = "staging" => h \in wrote,
           s = "answered" /\ h \in wrote => h \in Committed(Tree(h))
    PROVE  TreeInv'
<1> USE DEF TreeInv
<1>1. Typed'
  BY DEF Typed, Goto, SamePublished, TreesGrow
<1>2. step'[h] = s /\ \A g \in Hops \ {h} : step'[g] = step[g]
  BY DEF Typed, Goto
<1>3. Writers'
  BY <1>2 DEF Writers
<1>4. \A w : Committed(w)' = Committed(w)
  BY DEF Committed
<1>5. Kept'
  <2>1. wrote \subseteq Hops
    BY DEF Typed
  <2>2. \A g \in wrote : Tree(g) \in trees' => Tree(g) \in trees
    BY DEF Kept, TreesGrow
  <2> QED BY <1>2, <1>4, <2>1, <2>2 DEF Kept, Tree, TreesGrow
<1>6. HeadsNamed'
  BY <1>2 DEF HeadsNamed, Names, Tree
<1>7. RowsNamed' /\ Remote'
  BY <1>1, SameHasGrown, RowsStay, RemoteStays DEF SamePublished
<1> QED BY <1>1, <1>3, <1>5, <1>6, <1>7

LEMMA HopThrows ==
    ASSUME TreeInv, NEW h \in Hops, Throws(h)
    PROVE  TreeInv'
<1>1. /\ Goto(h, "failed") /\ "failed" \in Step /\ SamePublished
      /\ UNCHANGED <<wrote, sha, unstaged, staged, history>>
  BY DEF Throws, dirVars, publishVars, SamePublished, Step
<1>2. TreesGrow
  BY DEF Throws, dirVars, TreesGrow, TreeInv, Typed
<1> QED BY <1>1, <1>2, HopMoves

\* Nothing of it changes, but worktrees may go.
LEMMA TreesGo ==
    ASSUME TreeInv, UNCHANGED <<hopVars, history>>, SamePublished,
           trees' \subseteq trees, branches' = branches,
           unstaged' \in [Worktrees -> SUBSET Hops],
           staged' \in [Worktrees -> SUBSET Hops],
           \A w \in trees' : unstaged'[w] = unstaged[w]
                             /\ staged'[w] = staged[w]
    PROVE  TreeInv'
<1> USE DEF TreeInv, hopVars
<1>1. Typed'
  BY DEF Typed, SamePublished
<1>2. Writers'
  BY DEF Writers
<1>3. \A w : Committed(w)' = Committed(w)
  BY DEF Committed
<1>4. Kept'
  BY <1>3 DEF Kept, Tree
<1>5. HeadsNamed'
  BY DEF HeadsNamed, Names, Tree
<1>6. RowsNamed' /\ Remote'
  BY <1>1, SameHasGrown, RowsStay, RemoteStays DEF SamePublished
<1> QED BY <1>1, <1>2, <1>4, <1>5, <1>6

LEMMA HopStepInv ==
    ASSUME TreeInv, NEW h \in Hops, HopStep(h)
    PROVE  TreeInv'
<1> USE DEF TreeInv
<1>1. CASE EnsureWorktree(h)
  <2>1. PICK s \in {"calling", "failed"} : Goto(h, s)
    BY <1>1 DEF EnsureWorktree
  <2>2. TreesGrow
    BY <1>1 DEF EnsureWorktree, TreesGrow, Typed
  <2>3. UNCHANGED <<wrote, sha, unstaged, staged, history>> /\ SamePublished
    BY <1>1 DEF EnsureWorktree, publishVars, SamePublished
  <2> QED BY <2>1, <2>2, <2>3, HopMoves DEF Step
<1>2. CASE WriteFile(h)
  <2>1. /\ step[h] = "calling" /\ Tree(h) \in trees /\ h \notin wrote
        /\ wrote' = wrote \cup {h}
        /\ unstaged' = [unstaged EXCEPT ![Tree(h)] =
                            unstaged[Tree(h)] \cup {h}]
        /\ UNCHANGED <<step, sha, trees, branches, staged, history>>
        /\ SamePublished
    BY <1>2 DEF WriteFile, publishVars, SamePublished
  <2>2. Tree(h) \in Worktrees
    BY TreeIsWorktree
  <2>3. Typed'
    BY <2>1, <2>2 DEF Typed, SamePublished
  <2>4. Writers'
    BY <2>1 DEF Writers
  <2>5. \A w : Committed(w)' = Committed(w)
    BY <2>1 DEF Committed
  <2>6. /\ h \in unstaged'[Tree(h)]
        /\ \A w \in Worktrees : unstaged[w] \subseteq unstaged'[w]
    BY <2>1, <2>2 DEF Typed
  <2>7. \A g \in wrote : Tree(g) \in Worktrees
    BY TreeIsWorktree DEF Typed
  <2>8. Kept'
    BY <2>1, <2>5, <2>6, <2>7 DEF Kept, Tree, Typed
  <2>9. HeadsNamed'
    BY <2>1 DEF HeadsNamed, Names, Tree
  <2>10. RowsNamed' /\ Remote'
    BY <2>1, <2>3, SameHasGrown, RowsStay, RemoteStays DEF SamePublished
  <2> QED BY <2>3, <2>4, <2>8, <2>9, <2>10
<1>3. CASE CallEnds(h)
  <2>1. /\ Goto(h, IF h \in wrote THEN "staging" ELSE "answered")
        /\ UNCHANGED <<wrote, sha, unstaged, staged, history>>
        /\ SamePublished
    BY <1>3 DEF CallEnds, dirVars, publishVars, SamePublished
  <2>2. TreesGrow
    BY <1>3 DEF CallEnds, dirVars, TreesGrow, Typed
  <2>3. CASE h \in wrote
    BY <2>1, <2>2, <2>3, HopMoves DEF Step
  <2>4. CASE h \notin wrote
    BY <2>1, <2>2, <2>4, HopMoves DEF Step
  <2> QED BY <2>3, <2>4
<1>4. CASE CallFails(h) \/ GitFails(h)
  BY <1>4, HopThrows DEF CallFails, GitFails
<1>5. CASE StageAll(h)
  <2>1. CASE Throws(h)
    BY <2>1, HopThrows
  <2>2. CASE ~Throws(h)
    <3>1. /\ step[h] = "staging" /\ Goto(h, "committing")
          /\ staged' = [staged EXCEPT ![Tree(h)] =
                            staged[Tree(h)] \cup unstaged[Tree(h)]]
          /\ unstaged' = [unstaged EXCEPT ![Tree(h)] = {}]
          /\ UNCHANGED <<wrote, sha, trees, branches, history>>
          /\ SamePublished
      BY <1>5, <2>2 DEF StageAll, publishVars, SamePublished
    <3>2. Tree(h) \in Worktrees
      BY TreeIsWorktree
    <3>3. step'[h] = "committing" /\ \A g \in Hops \ {h} : step'[g] = step[g]
      BY <3>1 DEF Typed, Goto
    <3>4. Typed'
      BY <3>1, <3>2 DEF Typed, SamePublished, Goto, Step
    <3>5. Writers'
      BY <3>1, <3>3 DEF Writers
    <3>6. \A w : Committed(w)' = Committed(w)
      BY <3>1 DEF Committed
    <3>7. /\ unstaged'[Tree(h)] = {}
          /\ staged'[Tree(h)] = staged[Tree(h)] \cup unstaged[Tree(h)]
          /\ \A w \in Worktrees \ {Tree(h)} :
                 unstaged'[w] = unstaged[w] /\ staged'[w] = staged[w]
      BY <3>1, <3>2 DEF Typed
    <3>8. \A g \in wrote : Tree(g) \in Worktrees /\ g \in Hops
      BY TreeIsWorktree DEF Typed
    <3>9. Kept'
      BY <3>1, <3>3, <3>6, <3>7, <3>8 DEF Kept, Tree
    <3>10. HeadsNamed'
      BY <3>1, <3>3 DEF HeadsNamed, Names, Tree
    <3>11. RowsNamed' /\ Remote'
      BY <3>1, <3>4, SameHasGrown, RowsStay, RemoteStays DEF SamePublished
    <3> QED BY <3>4, <3>5, <3>9, <3>10, <3>11
  <2> QED BY <2>1, <2>2
<1>6. CASE GitCommit(h)
  <2>1. /\ step[h] = "committing" /\ Tree(h) \in trees /\ SamePublished
        /\ UNCHANGED <<wrote, sha, trees, branches, unstaged>>
    BY <1>6 DEF GitCommit, publishVars, SamePublished
  <2>2. h \in wrote /\ h \in staged[Tree(h)] \cup Committed(Tree(h))
    BY <2>1 DEF Writers, Kept
  <2>3. TreesGrow
    BY <2>1 DEF TreesGrow, Typed
  <2>4. Tree(h) \in Worktrees
    BY TreeIsWorktree
  <2>5. CASE staged[Tree(h)] = {}
    <3>1. Goto(h, "answered") /\ UNCHANGED <<staged, history>>
      BY <1>6, <2>5 DEF GitCommit
    <3> QED BY <2>1, <2>2, <2>3, <2>5, <3>1, HopMoves DEF Step
  <2>6. CASE Goto(h, "failed") /\ UNCHANGED <<staged, history>>
    BY <2>1, <2>3, <2>6, HopMoves DEF Step
  <2>7. CASE UNCHANGED <<step, staged, history>>
    <3>1. Typed'
      BY <2>1, <2>7 DEF Typed, SamePublished
    <3>2. Writers' /\ Kept' /\ HeadsNamed'
      BY <2>1, <2>7
      DEF Writers, Kept, HeadsNamed, Names, Tree, Committed
    <3>3. RowsNamed' /\ Remote'
      BY <2>1, <2>7, <3>1, SameHasGrown, RowsStay, RemoteStays
      DEF SamePublished
    <3> QED BY <3>1, <3>2, <3>3
  <2>8. CASE /\ history' = [history EXCEPT ![Tree(h)] =
                               Append(history[Tree(h)], staged[Tree(h)])]
             /\ staged' = [staged EXCEPT ![Tree(h)] = {}]
             /\ Goto(h, "reading")
    <3>1. /\ Grown /\ history' \in [Worktrees -> Seq(SUBSET Hops)]
          /\ staged[Tree(h)] \subseteq Committed(Tree(h))'
      BY <2>4, <2>8, CommitGrows
    <3>2. Typed'
      BY <2>1, <2>4, <2>8, <3>1 DEF Typed, SamePublished, Goto, Step
    <3>3. step'[h] = "reading" /\ \A g \in Hops \ {h} : step'[g] = step[g]
      BY <2>8 DEF Typed, Goto
    <3>4. Writers'
      BY <2>1, <2>2, <3>3 DEF Writers
    <3>5. \A w \in Worktrees : Committed(w) \subseteq Committed(w)'
      BY <3>1, <3>2, CommittedStays
    <3>6. \A w \in Worktrees \ {Tree(h)} : staged'[w] = staged[w]
      BY <2>8 DEF Typed
    <3>7. \A g \in wrote : Tree(g) \in Worktrees /\ g \in Hops
      BY TreeIsWorktree DEF Typed
    <3>8. Kept'
      <4> SUFFICES ASSUME NEW g \in wrote'
                   PROVE  /\ Tree(g) \in branches'
                          /\ Tree(g) \in trees' =>
                                 \/ g \in unstaged'[Tree(g)]
                                 \/ g \in staged'[Tree(g)]
                                 \/ g \in Committed(Tree(g))'
                          /\ step'[g] = "committing" /\ Tree(g) \in trees' =>
                                 \/ g \in staged'[Tree(g)]
                                 \/ g \in Committed(Tree(g))'
                          /\ step'[g] \in {"reading", "recording",
                                            "answered"} =>
                                 g \in Committed(Tree(g))'
        BY DEF Kept, Tree
      <4>1. g \in wrote /\ Tree(g) \in Worktrees /\ g \in Hops
        BY <2>1, <3>7
      <4>2. staged[Tree(g)] \subseteq
                staged'[Tree(g)] \cup Committed(Tree(g))'
        BY <3>1, <3>6, <4>1
      <4> QED BY <2>1, <2>2, <3>1, <3>3, <3>5, <4>1, <4>2 DEF Kept
    <3>9. HeadsNamed'
      BY <2>1, <3>1, <3>2, <3>3, TreeIsWorktree, NamesStays
      DEF HeadsNamed, Names, Tree
    <3>10. RowsNamed' /\ Remote'
      BY <2>1, <3>1, <3>2, RowsStay, RemoteStays DEF SamePublished
    <3> QED BY <3>2, <3>4, <3>8, <3>9, <3>10
  <2> QED BY <1>6, <2>5, <2>6, <2>7, <2>8 DEF GitCommit
<1>7. CASE RevParse(h)
  <2> DEFINE w == Tree(h)
  <2>1. /\ step[h] = "reading" /\ Goto(h, "recording")
        /\ sha' = [sha EXCEPT ![h] = Len(history[w])]
        /\ UNCHANGED <<wrote, trees, branches, unstaged, staged, history>>
        /\ SamePublished
    BY <1>7 DEF RevParse, dirVars, publishVars, SamePublished
  <2>2. w \in Worktrees /\ history[w] \in Seq(SUBSET Hops)
    BY TreeIsWorktree DEF Typed
  <2>3. h \in wrote /\ h \in Committed(w)
    BY <2>1 DEF Writers, Kept
  <2>4. step'[h] = "recording" /\ \A g \in Hops \ {h} : step'[g] = step[g]
    BY <2>1 DEF Typed, Goto
  <2>5. /\ Typed' /\ sha'[h] = Len(history[w])
        /\ \A g \in Hops \ {h} : sha'[g] = sha[g]
    BY <2>1, <2>2 DEF Typed, SamePublished, Goto, Step
  <2>6. Writers'
    BY <2>1, <2>3, <2>4 DEF Writers
  <2>7. Names(w, Len(history[w]), h)
    <3>1. PICK k \in DOMAIN history[w] : h \in history[w][k]
      BY <2>3 DEF Committed
    <3>2. /\ k \in 1..Len(history[w])
          /\ Len(history[w]) \in DOMAIN history[w]
      BY <2>2, <3>1
    <3> QED BY <3>1, <3>2 DEF Names
  <2>8. HeadsNamed'
    BY <2>1, <2>4, <2>5, <2>7 DEF HeadsNamed, Names, Tree
  <2>9. Kept'
    <3>1. wrote \subseteq Hops /\ \A v : Committed(v)' = Committed(v)
      BY <2>1 DEF Typed, Committed
    <3> QED BY <2>1, <2>3, <2>4, <3>1 DEF Kept, Tree
  <2>10. RowsNamed' /\ Remote'
    BY <2>1, <2>5, SameHasGrown, RowsStay, RemoteStays DEF SamePublished
  <2> QED BY <2>5, <2>6, <2>8, <2>9, <2>10
<1>8. CASE RecordCommit(h)
  <2> DEFINE new == [hop |-> h, tree |-> Tree(h), sha |-> sha[h],
                     pushed |-> FALSE]
  <2>1. /\ step[h] = "recording"
        /\ UNCHANGED <<wrote, sha, trees, branches, unstaged, staged,
                       history, remote, push, sent, asked>>
    BY <1>8 DEF RecordCommit, dirVars, publishVars
  <2>2. TreesGrow
    BY <2>1 DEF TreesGrow, Typed
  <2>3. CASE Goto(h, "failed") /\ UNCHANGED rows
    BY <2>1, <2>2, <2>3, HopMoves DEF Step, SamePublished
  <2>4. CASE rows' = Append(rows, new) /\ Goto(h, "answered")
    <3>1. /\ new \in CommitRow /\ new.tree = Tree(h) /\ new.sha = sha[h]
          /\ new.hop = h /\ new.pushed = FALSE
      BY TreeIsWorktree DEF CommitRow, Typed
    <3> HIDE DEF new
    <3>2. /\ rows' \in Seq(CommitRow) /\ Len(rows') = Len(rows) + 1
          /\ \A i \in DOMAIN rows : rows'[i] = rows[i]
          /\ rows'[Len(rows) + 1] = new
          /\ DOMAIN rows' = DOMAIN rows \cup {Len(rows) + 1}
          /\ Len(rows) \in Nat /\ DOMAIN rows = 1..Len(rows)
      BY <2>4, <3>1 DEF Typed
    <3>3. step'[h] = "answered" /\ \A g \in Hops \ {h} : step'[g] = step[g]
      BY <2>4 DEF Typed, Goto
    <3>4. Typed'
      <4>1. push' \in 0..Len(rows') /\ asked' \in 0..Len(rows')
        BY <2>1, <3>2 DEF Typed
      <4> QED BY <2>1, <2>4, <3>2, <4>1 DEF Typed, Goto, Step
    <3>5. Writers'
      BY <2>1, <3>3 DEF Writers
    <3>6. Names(Tree(h), sha[h], h)
      BY <2>1 DEF HeadsNamed
    <3>7. h \in Committed(Tree(h))
      <4>1. sha[h] \in DOMAIN history[Tree(h)]
        BY <3>6 DEF Names
      <4>2. history[Tree(h)] \in Seq(SUBSET Hops)
        BY TreeIsWorktree DEF Typed
      <4>3. 1..sha[h] \subseteq DOMAIN history[Tree(h)]
        BY <4>1, <4>2
      <4> QED BY <3>6, <4>3 DEF Names, Committed
    <3>8. Kept'
      <4>1. wrote \subseteq Hops /\ \A v : Committed(v)' = Committed(v)
        BY <2>1 DEF Typed, Committed
      <4> QED BY <2>1, <3>3, <3>7, <4>1 DEF Kept, Tree
    <3>9. HeadsNamed'
      BY <2>1, <3>3 DEF HeadsNamed, Names, Tree
    <3>10. RowsNamed'
      <4>1. \A w, k, g : Names(w, k, g)' = Names(w, k, g)
        BY <2>1 DEF Names
      <4> QED BY <3>1, <3>2, <3>6, <4>1 DEF RowsNamed
    <3>11. Remote'
      <4>1. push \in 0..Len(rows) /\ asked \in 0..Len(rows)
        BY DEF Typed
      <4>2. \A i \in DOMAIN rows' :
                rows'[i].pushed => i \in DOMAIN rows /\ rows'[i] = rows[i]
        BY <3>1, <3>2
      <4>3. push # 0 => rows'[push] = rows[push]
        BY <3>2, <4>1
      <4>4. asked # 0 => rows'[asked] = rows[asked]
        BY <3>2, <4>1
      <4> QED BY <2>1, <4>2, <4>3, <4>4 DEF Remote
    <3> QED BY <3>4, <3>5, <3>8, <3>9, <3>10, <3>11
  <2> QED BY <1>8, <2>3, <2>4 DEF RecordCommit
<1> QED BY <1>1, <1>2, <1>3, <1>4, <1>5, <1>6, <1>7, <1>8 DEF HopStep

LEMMA SweepStepInv ==
    ASSUME TreeInv, NEW w \in Worktrees, SweepStep(w)
    PROVE  TreeInv'
<1>1. CASE GrowOld(w)
  <2>1. /\ UNCHANGED <<hopVars, history, trees, branches, unstaged, staged>>
        /\ SamePublished
    BY <1>1 DEF GrowOld, publishVars, SamePublished
  <2> QED BY <2>1, TreesGo DEF TreeInv, Typed
<1>2. CASE FindClean(w)
  <2>1. /\ UNCHANGED <<hopVars, history, trees, branches, unstaged, staged>>
        /\ SamePublished
    BY <1>2 DEF FindClean, dirVars, publishVars, SamePublished
  <2> QED BY <2>1, TreesGo DEF TreeInv, Typed
<1>3. CASE RemoveTree(w)
  <2>1. /\ UNCHANGED <<hopVars, history, branches>> /\ SamePublished
        /\ trees' = trees \ {w}
        /\ unstaged' = [unstaged EXCEPT ![w] = {}]
        /\ staged' = [staged EXCEPT ![w] = {}]
    BY <1>3 DEF RemoveTree, publishVars, SamePublished
  <2>2. /\ unstaged' \in [Worktrees -> SUBSET Hops]
        /\ staged' \in [Worktrees -> SUBSET Hops]
    BY <2>1 DEF TreeInv, Typed
  <2>3. \A v \in trees' : unstaged'[v] = unstaged[v] /\ staged'[v] = staged[v]
    BY <2>1 DEF TreeInv, Typed
  <2> QED BY <2>1, <2>2, <2>3, TreesGo
<1> QED BY <1>1, <1>2, <1>3 DEF SweepStep

\* The newest row there is, is one of them.
LEMMA NewestIsOne ==
    ASSUME NEW n \in Nat, NEW I \in SUBSET (1..n), I # {}
    PROVE  Newest(I) \in I
<1> DEFINE T == {n - i : i \in I}
<1>1. T \subseteq Nat
  <2>1. \A i \in I : n - i \in Nat
    OBVIOUS
  <2> QED BY <2>1
<1>2. T # {}
  BY Zenon
<1>3. PICK m \in T : \A k \in T : <<k, m>> \notin OpToRel(<, Nat)
  BY <1>1, <1>2, NatLessThanWellFounded, WFMin
<1>4. PICK i \in I : m = n - i
  OBVIOUS
<1>5. \A j \in I : ~ (n - j < n - i)
  BY <1>1, <1>3, <1>4 DEF OpToRel
<1>6. \A j \in I : j <= i
  BY <1>5
<1> QED BY <1>6 DEF Newest

LEMMA PublishStepInv ==
    ASSUME TreeInv, PublishStep
    PROVE  TreeInv'
<1> USE DEF TreeInv
<1>1. UNCHANGED <<hopVars, dirVars, history>>
  BY DEF PublishStep, PushCommand, GitPush, GitPushFails, MarkPushed,
         AskForPr, CreatePr, PrFails
<1>2. Writers' /\ Kept' /\ HeadsNamed'
  BY <1>1
  DEF Writers, Kept, HeadsNamed, Names, Tree, Committed, hopVars, dirVars
<1>3. \A w, k, g : Names(w, k, g)' = Names(w, k, g)
  BY <1>1 DEF Names
<1>4. UNCHANGED <<step, wrote, sha, trees, branches, unstaged, staged,
                   history>>
  BY <1>1 DEF hopVars, dirVars
<1>5. /\ Len(rows) \in Nat /\ DOMAIN rows = 1..Len(rows)
      /\ \A i \in DOMAIN rows : rows[i] \in CommitRow
  BY DEF Typed
<1>6. CASE PushCommand
  <2>1. /\ UNCHANGED <<rows, remote, asked>> /\ sent' = FALSE
    BY <1>6 DEF PushCommand
  <2>2. push' \in 0..Len(rows)
    <3>1. PICK named \in {branches} \cup {{w} : w \in branches} :
              LET candidates == {i \in DOMAIN rows :
                                     ~rows[i].pushed /\ rows[i].tree \in named}
              IN  candidates # {} /\ push' = Newest(candidates)
      BY <1>6 DEF PushCommand
    <3> DEFINE candidates == {i \in DOMAIN rows :
                                  ~rows[i].pushed /\ rows[i].tree \in named}
    <3>2. candidates \in SUBSET (1..Len(rows)) /\ candidates # {}
      BY <1>5, <3>1
    <3>3. push' = Newest(candidates)
      BY <3>1
    <3> HIDE DEF candidates
    <3> QED BY <1>5, <3>2, <3>3, NewestIsOne
  <2>3. Typed'
    BY <1>4, <2>1, <2>2 DEF Typed
  <2>4. RowsNamed' /\ Remote'
    BY <1>3, <1>4, <2>1 DEF RowsNamed, Remote
  <2> QED BY <1>2, <2>3, <2>4
<1>7. CASE GitPush
  <2>1. /\ push # 0 /\ ~sent /\ sent' = TRUE
        /\ remote' = [remote EXCEPT ![rows[push].tree] =
                          Len(history[rows[push].tree])]
        /\ UNCHANGED <<rows, push, asked>>
    BY <1>7 DEF GitPush
  <2> DEFINE w == rows[push].tree
  <2>2. push \in DOMAIN rows /\ w \in Worktrees
    <3>1. push \in DOMAIN rows
      BY <1>5, <2>1 DEF Typed
    <3> QED BY <1>5, <3>1 DEF CommitRow
  <2>3. history[w] \in Seq(SUBSET Hops)
    BY <2>2 DEF Typed
  <2>4. /\ remote'[w] = Len(history[w]) /\ Len(history[w]) \in Nat
        /\ \A v \in Worktrees \ {w} : remote'[v] = remote[v]
    BY <2>1, <2>2, <2>3 DEF Typed
  <2>5. Typed'
    BY <1>4, <2>1, <2>2, <2>3 DEF Typed
  <2>6. RowsNamed'
    BY <1>3, <2>1 DEF RowsNamed
  <2>7. \A i \in DOMAIN rows : rows[i].tree = w =>
            rows[i].sha <= Len(history[w])
    BY <2>3 DEF RowsNamed, Names
  <2>8. \A i \in DOMAIN rows : rows[i].tree \in Worktrees
    BY <1>5 DEF CommitRow
  <2>9. Remote'
    <3>1. \A i \in DOMAIN rows' :
              rows'[i].pushed => rows'[i].sha <= remote'[rows'[i].tree]
      BY <2>1, <2>4, <2>7, <2>8 DEF Remote
    <3>2. rows'[push'].sha <= remote'[rows'[push'].tree]
      BY <2>1, <2>2, <2>4, <2>7
    <3>3. \A v \in Worktrees : remote'[v] <= Len(history'[v])
      BY <1>4, <2>4 DEF Remote
    <3> QED BY <2>1, <3>1, <3>2, <3>3 DEF Remote
  <2> QED BY <1>2, <2>5, <2>6, <2>9
<1>8. CASE GitPushFails
  <2>1. push' = 0 /\ UNCHANGED <<rows, remote, sent, asked>>
    BY <1>8 DEF GitPushFails
  <2>2. Typed'
    BY <1>4, <1>5, <2>1 DEF Typed
  <2> QED BY <1>2, <1>3, <1>4, <2>1, <2>2 DEF RowsNamed, Remote
<1>9. CASE MarkPushed
  <2>1. /\ push # 0 /\ sent /\ push' = 0
        /\ rows' = [rows EXCEPT ![push].pushed = TRUE]
        /\ UNCHANGED <<remote, sent, asked>>
    BY <1>9 DEF MarkPushed
  <2>2. push \in DOMAIN rows
    BY <1>5, <2>1 DEF Typed
  <2>3. /\ rows' \in Seq(CommitRow) /\ Len(rows') = Len(rows)
        /\ DOMAIN rows' = DOMAIN rows
        /\ \A i \in DOMAIN rows :
               /\ rows'[i].tree = rows[i].tree /\ rows'[i].sha = rows[i].sha
               /\ rows'[i].hop = rows[i].hop
               /\ rows[i].pushed => rows'[i].pushed
               /\ rows'[i].pushed => rows[i].pushed \/ i = push
    <3> DEFINE new == [rows[push] EXCEPT !.pushed = TRUE]
    <3>1. /\ new \in CommitRow /\ new.tree = rows[push].tree
          /\ new.sha = rows[push].sha /\ new.hop = rows[push].hop
          /\ new.pushed = TRUE
      BY <1>5, <2>2 DEF CommitRow
    <3>2. rows' = [rows EXCEPT ![push] = new]
      BY <2>1
    <3> HIDE DEF new
    <3> QED BY <1>5, <2>2, <3>1, <3>2 DEF Typed
  <2>4. Typed'
    BY <1>4, <1>5, <2>1, <2>3 DEF Typed
  <2>5. RowsNamed'
    BY <1>3, <2>3 DEF RowsNamed
  <2>6. Remote'
    <3>1. asked # 0 => asked \in DOMAIN rows
      BY <1>5 DEF Typed
    <3> QED BY <1>4, <2>1, <2>2, <2>3, <3>1 DEF Remote
  <2> QED BY <1>2, <2>4, <2>5, <2>6
<1>10. CASE AskForPr \/ CreatePr \/ PrFails
  <2>1. UNCHANGED <<rows, remote, push, sent>>
    BY <1>10 DEF AskForPr, CreatePr, PrFails
  <2>2. /\ asked' \in {0} \cup DOMAIN rows
        /\ asked' # 0 => rows[asked'].pushed
    <3>1. CASE AskForPr
      <4>1. PICK i \in DOMAIN rows : rows[i].pushed /\ asked' = i
        BY <3>1 DEF AskForPr
      <4> QED BY <4>1
    <3>2. CASE CreatePr \/ PrFails
      BY <3>2 DEF CreatePr, PrFails
    <3> QED BY <1>10, <3>1, <3>2
  <2>3. Typed'
    BY <1>4, <1>5, <2>1, <2>2 DEF Typed
  <2> QED BY <1>2, <1>3, <1>4, <2>1, <2>2, <2>3 DEF RowsNamed, Remote
<1> QED BY <1>6, <1>7, <1>8, <1>9, <1>10 DEF PublishStep

LEMMA TreeInvStep == TreeInv /\ [TreeNext]_worktreeVars => TreeInv'
<1> SUFFICES ASSUME TreeInv, [TreeNext]_worktreeVars PROVE TreeInv'
  OBVIOUS
<1>1. CASE UNCHANGED worktreeVars
  <2>1. /\ UNCHANGED <<hopVars, history, trees, branches, unstaged, staged>>
        /\ SamePublished
    BY <1>1 DEF worktreeVars, dirVars, publishVars, SamePublished
  <2> QED BY <2>1, TreesGo DEF TreeInv, Typed
<1> QED BY <1>1, HopStepInv, SweepStepInv, PublishStepInv DEF TreeNext

LEMMA TreeInvariant == TreeSpec => []TreeInv
  BY TreeInvInit, TreeInvStep, PTL DEF TreeSpec

\* A hop that answered has what it wrote on its branch, however many hops
\* share the worktree and the index, and whatever is swept.
\* (commitWorktreeChanges, pruneWorktrees)
THEOREM AnswersAreCommitted == TreeSpec => []AnsweredWorkIsCommitted
<1>1. TreeInv => AnsweredWorkIsCommitted
  BY DEF TreeInv, Kept, AnsweredWorkIsCommitted
<1> QED BY TreeInvariant, <1>1, PTL

\* A row of agent_commits names a commit of its branch with the hop's work in
\* it or before it.  (commitWorktreeChanges, agentCommits)
THEOREM CommitsAreNamed == TreeSpec => []RowsNameCommits
<1>1. TreeInv => RowsNameCommits
  BY DEF TreeInv, RowsNamed, Names, RowsNameCommits
<1> QED BY TreeInvariant, <1>1, PTL

\* A row that is marked as pushed has its commit on the remote, for any
\* number of pushes.  (handlePushCommand, pushBranch)
THEOREM PushedCommitsAreThere == TreeSpec => []PushedIsOnRemote
<1>1. TreeInv => PushedIsOnRemote
  BY DEF TreeInv, Remote, PushedIsOnRemote
<1> QED BY TreeInvariant, <1>1, PTL

-----------------------------------------------------------------------------
(* Where a hop's output goes.                                              *)

LEMMA LeastOf ==
    ASSUME NEW T, T \subseteq Nat, T # {}
    PROVE  \E m \in T : \A k \in T : m <= k
  <1>1. PICK m \in T : \A k \in T : <<k, m>> \notin OpToRel(<, Nat)
    BY NatLessThanWellFounded, WFMin
  <1>2. \A k \in T : ~(k < m)
    BY <1>1 DEF OpToRel
  <1> QED
    BY <1>2

\* The loop of Foremost, as a function.
Keeps(f, n, C, B) ==
    f = [i \in 0..n |->
            IF i = 0 THEN 0
            ELSE IF i \in C /\ (f[i - 1] = 0 \/ <<i, f[i - 1]>> \in B)
                 THEN i ELSE f[i - 1]]

LEMMA SomeKeeps ==
    ASSUME NEW n \in Nat, NEW C, NEW B
    PROVE  \E f : Keeps(f, n, C, B)
  <1> DEFINE T == {k \in Nat : ~\E f : Keeps(f, k, C, B)}
  <1> SUFFICES ASSUME T # {} PROVE FALSE
    OBVIOUS
  <1>1. PICK m \in T : \A k \in T : m <= k
    BY LeastOf
  <1>2. CASE m = 0
    <2> DEFINE g == [i \in 0..0 |-> 0]
    <2>1. Keeps(g, 0, C, B)
      BY DEF Keeps
    <2> HIDE DEF g
    <2> QED
      BY <1>1, <1>2, <2>1
  <1>3. CASE m # 0
    <2>1. m - 1 \in Nat /\ m - 1 \notin T
      BY <1>1, <1>3
    <2>2. PICK f : Keeps(f, m - 1, C, B)
      BY <2>1
    <2> DEFINE last == IF m \in C /\ (f[m - 1] = 0 \/ <<m, f[m - 1]>> \in B)
                       THEN m ELSE f[m - 1]
               g == [i \in 0..m |-> IF i = m THEN last ELSE f[i]]
    <2> HIDE DEF last
    <2>3. \A i \in 0..m - 1 : g[i] = f[i]
      BY <1>1, <1>3
    <2>4. g[m] = last
      BY <1>1
    <2>5. \A i \in 0..m :
              g[i] = IF i = 0 THEN 0
                     ELSE IF i \in C /\ (g[i - 1] = 0 \/ <<i, g[i - 1]>> \in B)
                          THEN i ELSE g[i - 1]
      <3> SUFFICES ASSUME NEW i \in 0..m
                   PROVE  g[i] = IF i = 0 THEN 0
                          ELSE IF i \in C /\ (g[i - 1] = 0
                                              \/ <<i, g[i - 1]>> \in B)
                               THEN i ELSE g[i - 1]
        OBVIOUS
      <3> HIDE DEF g
      <3>1. CASE i = m
        <4>1. g[i - 1] = f[m - 1]
          BY <1>1, <1>3, <2>3, <3>1
        <4> QED
          BY <1>3, <2>4, <3>1, <4>1 DEF last
      <3>2. CASE i # m
        <4>1. i \in 0..m - 1
          BY <1>1, <3>2
        <4>2. f[i] = IF i = 0 THEN 0
                     ELSE IF i \in C /\ (f[i - 1] = 0 \/ <<i, f[i - 1]>> \in B)
                          THEN i ELSE f[i - 1]
          BY <2>2, <4>1 DEF Keeps
        <4>3. i # 0 => g[i - 1] = f[i - 1]
          BY <1>1, <2>3, <4>1
        <4> QED
          BY <2>3, <4>1, <4>2, <4>3
      <3> QED
        BY <3>1, <3>2
    <2>6. Keeps(g, m, C, B)
      <3>1. g = [i \in 0..m |-> g[i]]
        OBVIOUS
      <3> HIDE DEF g
      <3> QED
        BY <2>5, <3>1 DEF Keeps
    <2> HIDE DEF g
    <2> QED
      BY <1>1, <2>6
  <1> QED
    BY <1>2, <1>3

\* Better and worse, with ties.
Ranks(B, C) ==
    \A i, j, k \in C :
        /\ ~(<<i, j>> \in B /\ <<j, i>> \in B)
        /\ <<i, j>> \in B => <<i, k>> \in B \/ <<k, j>> \in B

\* The one the loop keeps beats those before it, and none beats it.
Best(k, C, B) ==
    /\ C = {} => k = 0
    /\ C # {} => k \in C
    /\ \A j \in C \ {k} : <<j, k>> \notin B /\ (j < k => <<k, j>> \in B)

LEMMA KeepsBest ==
    ASSUME NEW n \in Nat, NEW C \in SUBSET (1..n), NEW B, Ranks(B, C),
           NEW f, Keeps(f, n, C, B)
    PROVE  \A i \in 0..n : Best(f[i], C \cap 1..i, B)
  <1> DEFINE T == {i \in 0..n : ~Best(f[i], C \cap 1..i, B)}
  <1> SUFFICES ASSUME T # {} PROVE FALSE
    OBVIOUS
  <1>0. T \subseteq Nat
    OBVIOUS
  <1>1. PICK m \in T : \A k \in T : m <= k
    <2> HIDE DEF T
    <2> QED
      BY <1>0, LeastOf
  <1>2. /\ m \in 0..n
        /\ f[m] = IF m = 0 THEN 0
                  ELSE IF m \in C /\ (f[m - 1] = 0 \/ <<m, f[m - 1]>> \in B)
                       THEN m ELSE f[m - 1]
    BY DEF Keeps
  <1> DEFINE D == C \cap 1..m
             E == C \cap 1..m - 1
             k == f[m - 1]
  <1>3. CASE m = 0
    BY <1>2, <1>3 DEF Best
  <1>4. CASE m # 0
    <2>1. m - 1 \in 0..n /\ Best(k, E, B)
      BY <1>1, <1>4
    <2>2. D = IF m \in C THEN E \cup {m} ELSE E
      BY <1>2, <1>4
    <2>3. \A j \in E : j \in C /\ j < m /\ j \in 1..n
      BY <1>2
    <2> HIDE DEF D, E, k
    <2>4. CASE m \notin C
      BY <1>1, <1>2, <1>4, <2>1, <2>2, <2>4 DEF D, k
    <2>5. CASE m \in C /\ E = {}
      <3>1. f[m] = m
        BY <1>2, <1>4, <2>1, <2>5 DEF Best, k
      <3> QED
        BY <1>1, <2>2, <2>5, <3>1 DEF Best, D
    <2>6. CASE m \in C /\ E # {}
      <3>1. /\ k \in E /\ k \in C /\ k < m /\ k # 0
            /\ \A j \in E \ {k} :
                   <<j, k>> \notin B /\ (j < k => <<k, j>> \in B)
        BY <2>1, <2>3, <2>6 DEF Best
      <3>2. f[m] = IF <<m, k>> \in B THEN m ELSE k
        BY <1>2, <1>4, <2>6, <3>1 DEF k
      <3>3. CASE <<m, k>> \in B
        <4>1. ASSUME NEW j \in E
              PROVE  <<m, j>> \in B /\ <<j, m>> \notin B
          BY <2>3, <2>6, <3>1, <3>3 DEF Ranks
        <4> QED
          BY <1>1, <2>2, <2>6, <3>2, <3>3, <4>1 DEF Best, D
      <3>4. CASE <<m, k>> \notin B
        <4>1. Best(k, D, B)
          BY <1>2, <2>2, <2>3, <2>6, <3>1, <3>4 DEF Best
        <4> QED
          BY <1>1, <3>2, <3>4, <4>1 DEF D
      <3> QED
        BY <3>3, <3>4
    <2> QED
      BY <2>4, <2>5, <2>6
  <1> QED
    BY <1>3, <1>4

LEMMA ForemostIsBest ==
    ASSUME Len(edges) \in Nat, NEW C \in SUBSET (1..Len(edges)), NEW B,
           Ranks(B, C)
    PROVE  Best(Foremost(C, B), C, B)
  <1> DEFINE n == Len(edges)
             f == CHOOSE f : Keeps(f, n, C, B)
  <1>1. Keeps(f, n, C, B)
    BY SomeKeeps
  <1>2. Foremost(C, B) = f[n]
    BY DEF Foremost, Keeps
  <1> HIDE DEF f
  <1>3. Best(f[n], C \cap 1..n, B)
    <2>1. PICK g, m : g = f /\ m = n
      OBVIOUS
    <2>2. \A i \in 0..m : Best(g[i], C \cap 1..i, B)
      BY <1>1, <2>1, KeepsBest
    <2>3. m \in 0..m
      BY <2>1
    <2>4. Best(g[m], C \cap 1..m, B)
      BY <2>2, <2>3
    <2> QED
      BY <2>1, <2>4
  <1>4. C \cap 1..n = C
    OBVIOUS
  <1> QED
    BY <1>2, <1>3, <1>4

RoutingTyped ==
    /\ edges \in [1..Len(edges) -> Edge] /\ Len(edges) \in Nat
    /\ output \in Output

\* What RoutesAsOrdered says of a route: of those along an edge and of those
\* that end,
Chosen(r) ==
    /\ r.kind = "edge" =>
           /\ r.edge \in InTheRunning
           /\ \A i \in InTheRunning \ {r.edge} : Precedes(r.edge, i)
           /\ edges[r.edge].target \notin joins
    /\ r.kind = "end" =>
           \A i \in InTheRunning :
               \/ edges[i].target \in joins
               \/ \E j \in InTheRunning : Precedes(j, i)

\* and of all of them.
Ordered(r) ==
    /\ self.joins <=> r.kind = "answer"
    /\ r.kind = "consensus" => self.group /\ (AutoEdges = {}
                                              \/ output.opens = "all")
    /\ r.kind = "map" => self.map /\ output.listed
    /\ Chosen(r)

LEMMA EdgeNumbers ==
    ASSUME RoutingTyped, NEW i \in DOMAIN edges
    PROVE  edges[i].priority \in Nat /\ Score(i) \in Nat
  <1>1. edges[i] \in Edge
    BY DEF RoutingTyped
  <1>2. edges[i].target \in Agents /\ edges[i].priority \in Nat
    BY <1>1, RoutingAssumption DEF Edge
  <1>3. output.shared \in [Agents -> 0..MaxScore]
    BY DEF RoutingTyped, Output
  <1> QED
    BY <1>2, <1>3, RoutingAssumption DEF Score

LEMMA AlongTheFirst ==
    ASSUME NEW k \in InTheRunning, k # 0,
           \A i \in InTheRunning \ {k} : Precedes(k, i)
    PROVE  /\ Chosen(Along(k)) /\ Along(k).kind \in {"edge", "end"}
  BY DEF Chosen, Along, End

LEMMA EndsOnNothing ==
    ASSUME InTheRunning = {}
    PROVE  Chosen(End) /\ Chosen(Along(0)) /\ Along(0) = End
  BY DEF Chosen, Along, End

LEMMA ExplicitFirst ==
    ASSUME RoutingTyped, Open # {}
    PROVE  Chosen(ResolveNextHop) /\ ResolveNextHop.kind \in {"edge", "end"}
  <1> DEFINE B == {p \in Pairs : edges[p[1]].priority > edges[p[2]].priority}
             k == FirstByPriority(Open)
  <1>1. DOMAIN edges = 1..Len(edges) /\ Len(edges) \in Nat
    BY DEF RoutingTyped
  <1>2. Open \in SUBSET (1..Len(edges))
    BY <1>1 DEF Open
  <1>3. \A i, j \in Open :
            <<i, j>> \in B <=> edges[i].priority > edges[j].priority
    BY <1>1, <1>2 DEF Pairs
  <1>4. \A i \in Open : edges[i].priority \in Nat
    BY <1>1, <1>2, EdgeNumbers
  <1>5. k = Foremost(Open, B)
    BY DEF FirstByPriority
  <1> HIDE DEF B, k
  <1>6. Ranks(B, Open)
    BY <1>3, <1>4 DEF Ranks
  <1>7. Best(k, Open, B)
    BY <1>1, <1>2, <1>5, <1>6, ForemostIsBest
  <1>8. InTheRunning = Open
    BY DEF InTheRunning
  <1>9. k \in Open /\ k \in 1..Len(edges)
    BY <1>2, <1>7 DEF Best
  <1>10. ASSUME NEW j \in Open \ {k}
         PROVE  Precedes(k, j)
    <2>1. /\ edges[k].priority \in Nat /\ edges[j].priority \in Nat
          /\ ~(edges[j].priority > edges[k].priority)
          /\ j < k => edges[k].priority > edges[j].priority
      BY <1>3, <1>4, <1>7, <1>9 DEF Best
    <2>2. j \in Nat /\ k \in Nat
      BY <1>1, <1>2, <1>9
    <2> QED
      BY <2>1, <2>2 DEF Precedes
  <1>11. ResolveNextHop = Along(k)
    BY DEF ResolveNextHop, k
  <1>12. k # 0
    BY <1>1, <1>9
  <1> QED
    BY <1>8, <1>9, <1>10, <1>11, <1>12, AlongTheFirst

LEMMA AutoByScore ==
    ASSUME RoutingTyped, Open = {}, AutoEdges # {}, ~Undecided
    PROVE  Chosen(ResolveNextHop) /\ ResolveNextHop.kind \in {"edge", "end"}
  <1>1. DOMAIN edges = 1..Len(edges) /\ Len(edges) \in Nat
    BY DEF RoutingTyped
  <1>2. AutoEdges \in SUBSET (1..Len(edges))
    BY <1>1 DEF AutoEdges
  <1>3. IsFiniteSet(AutoEdges)
    <2>1. IsFiniteSet(1..Len(edges))
      BY <1>1, FS_Interval
    <2> QED
      BY <1>2, <2>1, FS_Subset
  <1>4. InTheRunning = {i \in AutoEdges : AutoEdges = {i} \/ Score(i) > 0}
    BY DEF InTheRunning
  <1>5. CASE Cardinality(AutoEdges) = 1
    <2>1. PICK x : AutoEdges = {x}
      BY <1>3, <1>5, FS_Singleton
    <2>2. MatchAutoEdge(AutoEdges) = x
      BY <1>5, <2>1 DEF MatchAutoEdge
    <2>3. InTheRunning = {x} /\ x # 0
      BY <1>1, <1>2, <1>4, <2>1
    <2>4. ResolveNextHop = Along(x)
      BY <2>2 DEF ResolveNextHop
    <2> QED
      BY <2>3, <2>4, AlongTheFirst
  <1>6. CASE Cardinality(AutoEdges) # 1
    <2> DEFINE C == {i \in AutoEdges : Score(i) > 0}
               B == {p \in Pairs :
                        \/ Score(p[1]) > Score(p[2])
                        \/ /\ Score(p[1]) = Score(p[2])
                           /\ edges[p[1]].priority > edges[p[2]].priority}
               k == BestOverlap(AutoEdges)
    <2>1. InTheRunning = C
      <3>1. \A i : AutoEdges # {i}
        BY <1>6, FS_Singleton
      <3> QED
        BY <1>4, <3>1
    <2>2. C \in SUBSET (1..Len(edges))
      BY <1>2
    <2>3. k = Foremost(C, B)
      BY DEF BestOverlap
    <2>4. \A i, j \in C :
              <<i, j>> \in B <=>
                  \/ Score(i) > Score(j)
                  \/ /\ Score(i) = Score(j)
                     /\ edges[i].priority > edges[j].priority
      BY <1>1, <2>2 DEF Pairs
    <2>5. \A i \in C : edges[i].priority \in Nat /\ Score(i) \in Nat
      BY <1>1, <2>2, EdgeNumbers
    <2>6. ResolveNextHop = Along(k)
      BY <1>6 DEF ResolveNextHop, MatchAutoEdge
    <2> HIDE DEF B, C, k
    <2>7. Ranks(B, C)
      BY <2>4, <2>5 DEF Ranks
    <2>8. Best(k, C, B)
      BY <1>1, <2>2, <2>3, <2>7, ForemostIsBest
    <2>9. CASE C = {}
      <3>1. k = 0
        BY <2>8, <2>9 DEF Best
      <3> QED
        BY <2>1, <2>6, <2>9, <3>1, EndsOnNothing DEF End
    <2>10. CASE C # {}
      <3>0. k \in C
        BY <2>8, <2>10 DEF Best
      <3>1. k \in C /\ k \in 1..Len(edges) /\ k # 0
        BY <1>1, <2>2, <3>0
      <3>2. ASSUME NEW j \in C \ {k}
            PROVE  Precedes(k, j)
        <4>1. /\ edges[k].priority \in Nat /\ edges[j].priority \in Nat
              /\ Score(k) \in Nat /\ Score(j) \in Nat
              /\ <<j, k>> \notin B
              /\ j < k => <<k, j>> \in B
          BY <2>5, <2>8, <3>1 DEF Best
        <4>2. j \in Nat /\ k \in Nat
          BY <1>1, <2>2, <3>1
        <4> QED
          BY <2>4, <3>1, <4>1, <4>2 DEF Precedes
      <3> QED
        BY <2>1, <2>6, <3>1, <3>2, AlongTheFirst
    <2> QED
      BY <2>9, <2>10
  <1> QED
    BY <1>5, <1>6

LEMMA DecidesInOrder ==
    ASSUME RoutingTyped
    PROVE  Ordered(Decide)
  <1>1. Chosen(ResolveNextHop) /\ ResolveNextHop.kind \in {"edge", "end"}
    <2>1. CASE Open # {}
      BY <2>1, ExplicitFirst
    <2>2. CASE Open = {} /\ AutoEdges # {} /\ ~Undecided
      BY <2>2, AutoByScore
    <2>3. CASE Open = {} /\ AutoEdges # {} /\ Undecided
      <3>1. InTheRunning = {}
        BY <2>3 DEF InTheRunning
      <3>2. MatchAutoEdge(AutoEdges) = 0
        BY <2>3 DEF MatchAutoEdge
      <3>3. ResolveNextHop = Along(0)
        BY <2>3, <3>2 DEF ResolveNextHop
      <3> QED
        BY <3>1, <3>3, EndsOnNothing DEF End
    <2>4. CASE Open = {} /\ AutoEdges = {}
      <3>1. InTheRunning = {}
        BY <2>4 DEF InTheRunning
      <3>2. ResolveNextHop = End
        BY <2>4 DEF ResolveNextHop
      <3> QED
        BY <3>1, <3>2, EndsOnNothing DEF End
    <2> QED
      BY <2>1, <2>2, <2>3, <2>4
  <1> DEFINE kind == IF self.joins THEN "answer"
                     ELSE IF self.group /\ (Hybrid => output.opens = "all")
                     THEN "consensus"
                     ELSE IF self.map /\ output.listed THEN "map"
                     ELSE "edge"
  <1>2. Decide = IF kind = "edge" THEN ResolveNextHop
                 ELSE [kind |-> kind, edge |-> 0]
    BY DEF Decide
  <1>3. CASE kind = "edge"
    <2>1. ~self.joins
      BY <1>3
    <2>2. Decide = ResolveNextHop
      BY <1>2, <1>3
    <2> QED
      BY <1>1, <2>1, <2>2 DEF Ordered
  <1>4. CASE kind # "edge"
    <2>1. Decide.kind = kind /\ kind \in {"answer", "consensus", "map"}
      BY <1>2, <1>4
    <2>2. kind = "answer" <=> self.joins
      OBVIOUS
    <2>3. kind = "consensus" => self.group /\ (AutoEdges = {}
                                               \/ output.opens = "all")
      BY DEF Hybrid
    <2>4. kind = "map" => self.map /\ output.listed
      OBVIOUS
    <2> HIDE DEF kind
    <2> QED
      BY <2>1, <2>2, <2>3, <2>4 DEF Ordered, Chosen
  <1> QED
    BY <1>3, <1>4

LEMMA InitRouting == RoutingInit => RoutingTyped
  <1> SUFFICES ASSUME RoutingInit PROVE RoutingTyped
    OBVIOUS
  <1>1. PICK c \in Cases : edges = c.edges /\ output = c.output
    BY DEF RoutingInit
  <1>2. edges \in Seq(Edge) /\ output \in Output
    BY <1>1, CasesAssumption
  <1> QED
    BY <1>2 DEF RoutingTyped

\* resolve.ts and the checks of engine.ts before it: the route of an output
\* that opens with no sentinel, asks nothing back and matches several edges
\* is decided by score, priority and stored order alone, and the join that
\* the winner leads into ends the run instead of passing on to the next best;
\* for any node and any sequence of edges.
THEOREM OutputsGoInOrder == RoutingSpec => []RoutesAsOrdered
  <1>1. RoutingInit => RoutingTyped /\ RoutesAsOrdered
    BY InitRouting DEF RoutingInit, RoutesAsOrdered
  <1>2. ASSUME RoutingTyped, RoutesAsOrdered, [RoutingNext]_routingVars
        PROVE  RoutingTyped' /\ RoutesAsOrdered'
    <2>1. UNCHANGED <<self, edges, joins, output, toolCalled>>
      BY <1>2 DEF RoutingNext, Route, routingVars
    <2>2. RoutingTyped'
      BY <1>2, <2>1 DEF RoutingTyped
    <2>3. ASSUME NEW r
          PROVE  Ordered(r)' <=> Ordered(r)
      BY <2>1 DEF Ordered, Chosen, InTheRunning, Open, AutoEdges, Satisfied,
         Undecided, Precedes, Score
    <2>4. RoutesAsOrdered <=> route = Pending \/ Ordered(route)
      BY DEF RoutesAsOrdered, Ordered, Chosen
    <2>5. RoutesAsOrdered' <=> (route' = Pending \/ Ordered(route)')
      BY DEF RoutesAsOrdered, Ordered, Chosen
    <2>6. PICK r : r = route'
      OBVIOUS
    <2>7. Ordered(route)' <=> Ordered(r)
      BY <2>3, <2>6 DEF Ordered, Chosen
    <2>8. CASE RoutingNext
      <3>1. r = Decide
        BY <2>6, <2>8 DEF RoutingNext, Route
      <3>2. Ordered(r)
        BY <1>2, <3>1, DecidesInOrder
      <3> QED
        BY <2>2, <2>5, <2>7, <3>2
    <2>9. CASE UNCHANGED routingVars
      <3>1. r = route
        BY <2>6, <2>9 DEF routingVars
      <3> QED
        BY <1>2, <2>2, <2>4, <2>5, <2>6, <2>7, <3>1
    <2> QED
      BY <1>2, <2>8, <2>9
  <1> QED
    BY <1>1, <1>2, PTL DEF RoutingSpec

=============================================================================
