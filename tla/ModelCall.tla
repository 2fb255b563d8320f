----------------------------- MODULE ModelCall -----------------------------
(***************************************************************************)
(* What a hop does between marking its run and recording its result:       *)
(* callAgent tries the node's provider and then its fallback chain, each   *)
(* with its own tool set, withRetry repeats a call that failed for a       *)
(* passing reason, and withNodeTimeout races all of it against the hop's   *)
(* timer.  Promise.race cancels nothing: a call that lost the race goes on *)
(* by itself.                                                              *)
(*                                                                         *)
(* Three layers keep a call inside the hop: the loop stops itself between  *)
(* two steps, Graceful before the deadline; the call in flight is aborted  *)
(* Abort before it; the timer fires at it.  A tool that does not listen to *)
(* the abort signal holds up the second one.  Time passes in ticks of 5 s. *)
(***************************************************************************)
EXTENDS Integers

CONSTANTS
    Targets,        \* targets.length: the provider and its fallback chain
    Servers,        \* the node's mcpServers
    Deadline,       \* hopTimeoutMs
    Graceful,       \* GRACEFUL_STOP_MARGIN_MS
    Abort,          \* ABORT_MARGIN_MS
    MinCall,        \* the least time a call gets, 1 s
    MaxAttempts,    \* withRetry's maxAttempts
    Delays,         \* its backoff after each attempt
    Hints,          \* the waits a server may ask for
    MaxDelay,       \* MAX_RETRY_DELAY_MS
    Horizon         \* bound: the clock stops there

ASSUME CallAssumption ==
    /\ Targets \in Nat \ {0} /\ MaxAttempts \in Nat \ {0}
    /\ Deadline \in Nat /\ Graceful \in Nat /\ Abort \in Nat \ {0}
    /\ MinCall \in Nat /\ MaxDelay \in Nat /\ Horizon \in Nat
    /\ Abort <= Graceful /\ Graceful < Deadline /\ Deadline < Horizon
    /\ Delays \in [1..MaxAttempts -> Nat] /\ Hints \subseteq Nat

VARIABLES
    now,        \* ticks since the hop started
    tools,      \* whether the node has tools
    target,     \* the index into targets
    attempt,    \* withRetry's attempt
    phase,      \* where callAgent is
    began,      \* when the call in flight, or the last one, began
    due,        \* when it is aborted
    wake,       \* when the backoff ends
    sessions,   \* MCP connections that are open: <<target, server>>
    closers,    \* the ones mcp.closeAll would close
    stranded,   \* history: connections of a set-up that threw
    touched,    \* touchedFiles is not empty
    dirty,      \* the targets whose writes the worktree holds uncommitted
    commits,    \* the commits made: the target it is credited to, its content
    hop         \* how withNodeTimeout's race stands

callVars == <<now, tools, target, attempt, phase, began, due, wake, sessions,
              closers, stranded, touched, dirty, commits, hop>>
sessionVars == <<sessions, closers, stranded>>
treeVars == <<touched, dirty, commits>>

Target == 1..Targets
Session == Target \X Servers
Phases == {"setup", "calling", "tool", "backoff", "commit", "over"}

CallTypeOK ==
    /\ now \in 0..Horizon /\ tools \in BOOLEAN
    /\ target \in Target /\ attempt \in 1..MaxAttempts
    /\ phase \in Phases
    /\ began \in 0..now /\ due \in Nat /\ wake \in Nat
    /\ sessions \subseteq Session /\ closers \subseteq Session
    /\ stranded \subseteq Session
    /\ touched \in BOOLEAN /\ dirty \subseteq Target
    /\ commits \subseteq [by : Target, holds : SUBSET Target]
    /\ hop \in {"racing", "answered", "failed", "timedout"}

CallInit ==
    /\ now = 0 /\ tools \in BOOLEAN
    /\ target = 1 /\ attempt = 1 /\ phase = "setup"
    /\ began = 0 /\ due = 0 /\ wake = 0
    /\ sessions = {} /\ closers = {} /\ stranded = {}
    /\ touched = FALSE /\ dirty = {} /\ commits = {}
    /\ hop = "racing"

-----------------------------------------------------------------------------

Least(a, b) == IF a <= b THEN a ELSE b
Greatest(a, b) == IF a <= b THEN b ELSE a

\* Promise.race: who settles first is what the hop sees.
Settle(outcome) == hop' = IF hop = "racing" THEN outcome ELSE hop

\* Faulty variant: every attempt gets the hop's whole budget.
AbortTimeAfresh == now + Deadline - Abort

\* AbortSignal.timeout, computed again for every attempt.
AbortTime == now + Greatest(MinCall, Deadline - Abort - now)

BeginCall ==
    /\ phase' = "calling"
    /\ began' = now
    /\ due' = AbortTime

\* The catch and finally of one target: only a refused credential and an
\* unknown model fall through to the next one.
CloseSessions == sessions' = sessions \ closers /\ closers' = {}

Fail(class) ==
    /\ IF class \in {"auth", "model"} /\ target < Targets
       THEN target' = target + 1 /\ phase' = "setup" /\ UNCHANGED hop
       ELSE phase' = "over" /\ Settle("failed") /\ UNCHANGED target
    /\ CloseSessions

\* resolveMcpTools: a server that cannot be reached or lists nothing is
\* skipped.
Reached == IF tools THEN SUBSET Servers ELSE {{}}
Connections(reached) == {target} \X reached

\* Credentials, tools, one MCP connect per server.
SetUp ==
    /\ phase = "setup"
    /\ \E reached \in Reached :
           /\ sessions' = sessions \cup Connections(reached)
           /\ closers' = Connections(reached)
    /\ attempt' = 1 /\ touched' = FALSE
    /\ BeginCall
    /\ UNCHANGED <<now, tools, target, wake, stranded, dirty, commits, hop>>

\* No credentials for the provider.
SetUpFails ==
    /\ phase = "setup"
    /\ touched' = FALSE
    /\ Fail("other")
    /\ UNCHANGED <<now, tools, attempt, began, due, wake, stranded, dirty,
                   commits>>

\* A server's stored token does not decrypt: resolveMcpTools throws, and the
\* connections it had opened are known to nobody.
TokenUnreadable ==
    /\ phase = "setup" /\ tools
    /\ \E reached \in Reached :
           /\ reached # Servers
           /\ stranded' = stranded \cup Connections(reached)
           /\ sessions' = sessions \cup Connections(reached)
    /\ touched' = FALSE
    /\ phase' = "over" /\ Settle("failed")
    /\ UNCHANGED <<now, tools, target, attempt, began, due, wake, closers,
                   dirty, commits>>

\* A step of the tool loop; it may write in the worktree.
StartTools ==
    /\ phase = "calling" /\ tools /\ now < due
    /\ phase' = "tool"
    /\ \E writes \in BOOLEAN :
           /\ touched' = (touched \/ writes)
           /\ dirty' = IF writes THEN dirty \cup {target} ELSE dirty
    /\ UNCHANGED <<now, tools, target, attempt, began, due, wake,
                   sessionVars, commits, hop>>

\* The stop condition is looked at here: past the graceful margin the loop
\* ends, before it the model is called again.  A tool need not listen to the
\* abort signal: it may return long after it, or never.
ToolsReturn ==
    /\ phase = "tool"
    /\ phase' = IF now >= Deadline - Graceful THEN "commit" ELSE "calling"
    /\ UNCHANGED <<now, tools, target, attempt, began, due, wake,
                   sessionVars, treeVars, hop>>

\* An aborted call with tools is salvaged, one without is an error like any
\* other.
Aborts ==
    /\ phase = "calling" /\ now >= due
    /\ IF tools
       THEN phase' = "commit" /\ UNCHANGED <<target, sessions, closers, hop>>
       ELSE Fail("other")
    /\ UNCHANGED <<now, tools, attempt, began, due, wake, stranded, treeVars>>

Returns ==
    /\ phase = "calling" /\ now < due
    /\ phase' = "commit"
    /\ UNCHANGED <<now, tools, target, attempt, began, due, wake,
                   sessionVars, treeVars, hop>>

\* 429, 502, 503, 504 or a lost connection, with or without Retry-After.
CallFailsInPassing ==
    /\ phase = "calling" /\ now < due
    /\ IF attempt < MaxAttempts
       THEN /\ phase' = "backoff"
            /\ \E delay \in Hints \cup {Delays[attempt]} :
                   wake' = now + Least(delay, MaxDelay)
            /\ UNCHANGED <<target, sessions, closers, hop>>
       ELSE Fail("other") /\ UNCHANGED wake
    /\ UNCHANGED <<now, tools, attempt, began, due, stranded, treeVars>>

CallThrows ==
    /\ phase = "calling" /\ now < due
    /\ \E class \in {"auth", "model", "other"} : Fail(class)
    /\ UNCHANGED <<now, tools, attempt, began, due, wake, stranded, treeVars>>

Retry ==
    /\ phase = "backoff" /\ now >= wake
    /\ attempt' = attempt + 1
    /\ BeginCall
    /\ UNCHANGED <<now, tools, target, wake, sessionVars, treeVars, hop>>

\* Faulty variant: the sessions stay open when the call answers.
AnswerKeepingSessions == phase' = "over" /\ UNCHANGED <<sessions, closers>>

Answer == phase' = "over" /\ CloseSessions

\* git add -A takes whatever is there.
CommitAll ==
    /\ commits' = commits \cup {[by |-> target, holds |-> dirty]}
    /\ dirty' = {}

\* commitWorktreeChanges, for a target that wrote something.
Commit ==
    /\ phase = "commit"
    /\ IF touched THEN CommitAll ELSE UNCHANGED <<commits, dirty>>
    /\ Answer /\ Settle("answered")
    /\ UNCHANGED <<now, tools, target, attempt, began, due, wake, stranded,
                   touched>>

\* A git command throws, or the insert of agent_commits after the commit.
CommitFails ==
    /\ phase = "commit" /\ touched
    /\ CommitAll \/ UNCHANGED <<commits, dirty>>
    /\ Fail("other")
    /\ UNCHANGED <<now, tools, attempt, began, due, wake, stranded, touched>>

\* Faulty variant: the timer is looked at between model calls.
HopTimesOutBetweenCalls ==
    /\ hop = "racing" /\ now >= Deadline /\ phase # "tool"
    /\ hop' = "timedout"
    /\ UNCHANGED <<now, tools, target, attempt, phase, began, due, wake,
                   sessionVars, treeVars>>

HopTimesOut ==
    /\ hop = "racing" /\ now >= Deadline
    /\ hop' = "timedout"
    /\ UNCHANGED <<now, tools, target, attempt, phase, began, due, wake,
                   sessionVars, treeVars>>

\* Timers that are due fire before time goes on: the abort, the end of a
\* backoff, the hop's own.
CallTick ==
    /\ now < Horizon /\ phase # "over"
    /\ phase = "calling" => now < due
    /\ phase = "backoff" => now < wake
    /\ hop = "racing" => now < Deadline
    /\ now' = now + 1
    /\ UNCHANGED <<tools, target, attempt, phase, began, due, wake,
                   sessionVars, treeVars, hop>>

CallAgent ==
    \/ SetUp \/ SetUpFails \/ TokenUnreadable \/ StartTools \/ ToolsReturn
    \/ Aborts \/ Returns \/ CallFailsInPassing \/ CallThrows \/ Retry
    \/ Commit \/ CommitFails
CallNext == CallAgent \/ HopTimesOut \/ CallTick

CallSpec == CallInit /\ [][CallNext]_callVars

\* Timers fire and time passes; whether a model, a tool or git ever answers
\* is not ours to say.
CallFairness ==
    /\ WF_callVars(Aborts) /\ WF_callVars(Retry)
    /\ WF_callVars(HopTimesOut) /\ WF_callVars(CallTick)

FairCallSpec == CallSpec /\ CallFairness

-----------------------------------------------------------------------------

\* A call that is still in flight at the deadline was begun less than the
\* minimum before: no retry and no fallback hands a call more time than the
\* hop has left, also once the hop has timed out and nobody waits for it.
NoLongZombie ==
    phase = "calling" => now < Deadline \/ now <= began + MinCall

\* A target's MCP connections are closed before the next target opens its
\* own and before callAgent is over, on every way out of it but one: those a
\* set-up had opened when it threw.
SessionsClosed ==
    /\ sessions \subseteq stranded \cup ({target} \X Servers)
    /\ phase \in {"setup", "over"} => sessions \subseteq stranded

\* A hop settles by its deadline whatever the provider and the tools do, a
\* tool that never returns included.
HopSettles == <>(hop # "racing")

\* "A failed provider's partial writes never get attributed to a later
\* successful provider's commit" (docs/orchestration.md).
CommitIsOwn == \A c \in commits : c.holds \subseteq {c.by}

=============================================================================
