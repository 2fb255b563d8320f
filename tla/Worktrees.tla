----------------------------- MODULE Worktrees -----------------------------
(***************************************************************************)
(* The git side of coding nodes: ensureWorktree gives a hop a checkout and *)
(* a branch of their own, named by the node and the run; the hop writes    *)
(* there and commits; agent_commits records what it committed; /push and   *)
(* /pr publish it; pruneWorktrees reclaims old checkouts when the worker   *)
(* boots, which is also when the worker starts on its queue.                *)
(*                                                                         *)
(* Two hops may share a worktree: a job delivered twice, or two branches   *)
(* of a consensus group whose names make the same slug.  One write of each *)
(* hop stands for the files it touches.                                    *)
(***************************************************************************)
EXTENDS Integers, Sequences

CONSTANTS
    Hops,           \* executions of coding nodes
    Worktree,       \* hop -> the worktree its node and run are named after
    CommitAttempts, \* maxAttempts in commitWorktreeChanges
    MaxPushes,      \* bound: /push commands
    MaxSweeps       \* bound: worktrees that pruneWorktrees goes for

Worktrees == {Worktree[h] : h \in Hops}

ASSUME TreeAssumption ==
    /\ Worktree \in [Hops -> Worktrees]
    /\ CommitAttempts \in Nat \ {0} /\ MaxPushes \in Nat /\ MaxSweeps \in Nat

VARIABLES
    step,       \* what each hop is doing
    wrote,      \* the hops whose touchedFiles is not empty
    tries,      \* its attempts at git commit
    sha,        \* what git rev-parse HEAD told it: a place on its branch
    trees,      \* the worktree directories there are
    old,        \* the ones whose mtime is past the retention
    branches,   \* the openbots/* branches there are
    unstaged,   \* worktree -> writes that are not in its index
    staged,     \* worktree -> writes that are, and are not committed
    history,    \* worktree -> its branch: one set of writes per commit
    sweep,      \* worktrees the sweep found clean and is about to remove
    sweeps,     \* how many so far
    rows,       \* agent_commits, in createdAt order
    remote,     \* worktree -> how many of its commits origin has
    push,       \* the row a /push is pushing, 0 if none
    sent,       \* whether its git push is through
    pushes,     \* /push commands so far
    asked,      \* the row a /pr has looked up, 0 if none
    prs         \* branches with an open pull request

dirVars == <<trees, old, branches, unstaged, staged>>
hopVars == <<step, wrote, tries, sha>>
sweepVars == <<sweep, sweeps>>
publishVars == <<remote, push, sent, pushes, asked, prs>>
worktreeVars == <<hopVars, dirVars, history, sweepVars, rows, publishVars>>

Step == {"start", "calling", "staging", "committing", "reading",
         "recording", "answered", "failed"}
CommitRow == [hop : Hops, tree : Worktrees, sha : Nat, pushed : BOOLEAN]

TreeTypeOK ==
    /\ step \in [Hops -> Step] /\ wrote \subseteq Hops
    /\ tries \in [Hops -> 0..CommitAttempts] /\ sha \in [Hops -> Nat]
    /\ trees \subseteq Worktrees /\ old \subseteq Worktrees
    /\ branches \subseteq Worktrees /\ trees \subseteq branches
    /\ unstaged \in [Worktrees -> SUBSET Hops]
    /\ staged \in [Worktrees -> SUBSET Hops]
    /\ history \in [Worktrees -> Seq(SUBSET Hops)]
    /\ sweep \subseteq Worktrees /\ sweeps \in 0..MaxSweeps
    /\ rows \in Seq(CommitRow)
    /\ remote \in [Worktrees -> Nat]
    /\ push \in 0..Len(rows) /\ sent \in BOOLEAN /\ pushes \in 0..MaxPushes
    /\ asked \in 0..Len(rows) /\ prs \subseteq Worktrees

TreeInit ==
    /\ step = [h \in Hops |-> "start"] /\ wrote = {}
    /\ tries = [h \in Hops |-> 0] /\ sha = [h \in Hops |-> 0]
    /\ trees = {} /\ old = {} /\ branches = {}
    /\ unstaged = [w \in Worktrees |-> {}]
    /\ staged = [w \in Worktrees |-> {}]
    /\ history = [w \in Worktrees |-> <<>>]
    /\ sweep = {} /\ sweeps = 0
    /\ rows = <<>>
    /\ remote = [w \in Worktrees |-> 0]
    /\ push = 0 /\ sent = FALSE /\ pushes = 0 /\ asked = 0 /\ prs = {}

-----------------------------------------------------------------------------

Goto(h, s) == step' = [step EXCEPT ![h] = s]
Tree(h) == Worktree[h]
Throws(h) ==
    /\ Goto(h, "failed")
    /\ UNCHANGED <<wrote, tries, sha, dirVars, history, sweepVars, rows,
                   publishVars>>

\* ensureWorktree: git worktree add -b, and whether the path is there
\* afterwards.  The branch outlives a pruned directory, and then it throws.
EnsureWorktree(h) ==
    /\ step[h] = "start"
    /\ IF Tree(h) \in branches
       THEN /\ Goto(h, IF Tree(h) \in trees THEN "calling" ELSE "failed")
            /\ UNCHANGED <<trees, old, branches>>
       ELSE /\ Goto(h, "calling")
            /\ trees' = trees \cup {Tree(h)}
            /\ branches' = branches \cup {Tree(h)}
            /\ old' = old \ {Tree(h)}
    /\ UNCHANGED <<wrote, tries, sha, unstaged, staged, history, sweepVars,
                   rows, publishVars>>

\* write_file, edit_file: outside the directory's top level they leave its
\* mtime alone.
WriteFile(h) ==
    /\ step[h] = "calling" /\ h \notin wrote /\ Tree(h) \in trees
    /\ wrote' = wrote \cup {h}
    /\ unstaged' = [unstaged EXCEPT ![Tree(h)] = @ \cup {h}]
    /\ \E top \in BOOLEAN : old' = IF top THEN old \ {Tree(h)} ELSE old
    /\ UNCHANGED <<step, tries, sha, trees, branches, staged, history,
                   sweepVars, rows, publishVars>>

CallEnds(h) ==
    /\ step[h] = "calling"
    /\ Goto(h, IF h \in wrote THEN "staging" ELSE "answered")
    /\ UNCHANGED <<wrote, tries, sha, dirVars, history, sweepVars, rows,
                   publishVars>>

\* The model call fails for good; what it wrote stays where it is.
CallFails(h) == step[h] = "calling" /\ Throws(h)

\* Another git command holds the worktree's index.lock.
Locked(h) == \E g \in Hops \ {h} :
    Tree(g) = Tree(h) /\ step[g] \in {"staging", "committing"}

\* git add -A
StageAll(h) ==
    /\ step[h] = "staging"
    /\ \/ /\ Tree(h) \in trees
          /\ staged' = [staged EXCEPT ![Tree(h)] = @ \cup unstaged[Tree(h)]]
          /\ unstaged' = [unstaged EXCEPT ![Tree(h)] = {}]
          /\ Goto(h, "committing")
          /\ UNCHANGED <<wrote, tries, sha, trees, old, branches, history,
                         sweepVars, rows, publishVars>>
       \/ (Tree(h) \notin trees \/ Locked(h)) /\ Throws(h)

\* Faulty variant: giving up on the lock looks like nothing to commit.
GitCommitGivingUp(h) ==
    /\ step[h] = "committing" /\ Tree(h) \in trees
    /\ IF staged[Tree(h)] = {}
       THEN Goto(h, "answered") /\ UNCHANGED <<staged, history, tries>>
       ELSE \/ /\ history' = [history EXCEPT ![Tree(h)] =
                                  Append(@, staged[Tree(h)])]
               /\ staged' = [staged EXCEPT ![Tree(h)] = {}]
               /\ Goto(h, "reading") /\ UNCHANGED tries
            \/ /\ Locked(h) /\ tries[h] + 1 < CommitAttempts
               /\ tries' = [tries EXCEPT ![h] = @ + 1]
               /\ UNCHANGED <<step, staged, history>>
            \/ /\ Locked(h) /\ tries[h] + 1 = CommitAttempts
               /\ Goto(h, "answered")
               /\ UNCHANGED <<staged, history, tries>>
    /\ UNCHANGED <<wrote, sha, trees, old, branches, unstaged, sweepVars,
                   rows, publishVars>>

\* git commit: the index as it is now, "nothing to commit", or, after so
\* many attempts at index.lock, an error.
GitCommit(h) ==
    /\ step[h] = "committing" /\ Tree(h) \in trees
    /\ IF staged[Tree(h)] = {}
       THEN Goto(h, "answered") /\ UNCHANGED <<staged, history, tries>>
       ELSE \/ /\ history' = [history EXCEPT ![Tree(h)] =
                                  Append(@, staged[Tree(h)])]
               /\ staged' = [staged EXCEPT ![Tree(h)] = {}]
               /\ Goto(h, "reading") /\ UNCHANGED tries
            \/ /\ Locked(h) /\ tries[h] + 1 < CommitAttempts
               /\ tries' = [tries EXCEPT ![h] = @ + 1]
               /\ UNCHANGED <<step, staged, history>>
            \/ /\ Locked(h) /\ tries[h] + 1 = CommitAttempts
               /\ Goto(h, "failed")
               /\ UNCHANGED <<staged, history, tries>>
    /\ UNCHANGED <<wrote, sha, trees, old, branches, unstaged, sweepVars,
                   rows, publishVars>>

\* The directory is gone: git cannot even be started there.
GitFails(h) ==
    /\ step[h] \in {"committing", "reading"} /\ Tree(h) \notin trees
    /\ Throws(h)

\* git rev-parse HEAD, a command of its own: HEAD may be another hop's.
RevParse(h) ==
    /\ step[h] = "reading" /\ Tree(h) \in trees
    /\ sha' = [sha EXCEPT ![h] = Len(history[Tree(h)])]
    /\ Goto(h, "recording")
    /\ UNCHANGED <<wrote, tries, dirVars, history, sweepVars, rows,
                   publishVars>>

RecordCommit(h) ==
    /\ step[h] = "recording"
    /\ \/ /\ rows' = Append(rows, [hop |-> h, tree |-> Tree(h),
                                   sha |-> sha[h], pushed |-> FALSE])
          /\ Goto(h, "answered")
       \/ Goto(h, "failed") /\ UNCHANGED rows
    /\ UNCHANGED <<wrote, tries, sha, dirVars, history, sweepVars,
                   publishVars>>

\* A week goes by: no hop is at work in the worktree.
GrowOld(w) ==
    /\ w \in trees \ old
    /\ \A h \in Hops : Tree(h) = w =>
           step[h] \in {"start", "answered", "failed"}
    /\ old' = old \cup {w}
    /\ UNCHANGED <<hopVars, trees, branches, unstaged, staged, history,
                   sweepVars, rows, publishVars>>

\* pruneWorktrees: stat and git status, then git worktree remove --force.
FindClean(w) ==
    /\ sweeps < MaxSweeps /\ w \in trees \cap old
    /\ unstaged[w] = {} /\ staged[w] = {}
    /\ sweeps' = sweeps + 1
    /\ sweep' = sweep \cup {w}
    /\ UNCHANGED <<hopVars, dirVars, history, rows, publishVars>>

\* Faulty variant: the branch goes with the directory.
RemoveTreeAndBranch(w) ==
    /\ w \in sweep
    /\ sweep' = sweep \ {w}
    /\ trees' = trees \ {w}
    /\ branches' = branches \ {w}
    /\ history' = [history EXCEPT ![w] = <<>>]
    /\ unstaged' = [unstaged EXCEPT ![w] = {}]
    /\ staged' = [staged EXCEPT ![w] = {}]
    /\ UNCHANGED <<hopVars, old, sweeps, rows, publishVars>>

RemoveTree(w) ==
    /\ w \in sweep
    /\ sweep' = sweep \ {w}
    /\ trees' = trees \ {w}
    /\ unstaged' = [unstaged EXCEPT ![w] = {}]
    /\ staged' = [staged EXCEPT ![w] = {}]
    /\ UNCHANGED <<hopVars, old, branches, history, sweeps, rows, publishVars>>

Newest(I) == CHOOSE i \in I : \A j \in I : j <= i

\* handlePushCommand: the newest row that is not pushed, of any branch or of
\* the one that was named.
PushCommand ==
    /\ push = 0 /\ pushes < MaxPushes
    /\ \E named \in {branches} \cup {{w} : w \in branches} :
           LET candidates == {i \in DOMAIN rows :
                                  ~rows[i].pushed /\ rows[i].tree \in named}
           IN  candidates # {} /\ push' = Newest(candidates)
    /\ sent' = FALSE /\ pushes' = pushes + 1
    /\ UNCHANGED <<hopVars, dirVars, history, sweepVars, rows, remote,
                   asked, prs>>

\* pushBranch sends the whole branch, from the repository's root if the
\* directory is gone.
GitPush ==
    /\ push # 0 /\ ~sent
    /\ remote' = [remote EXCEPT ![rows[push].tree] =
                      Len(history[rows[push].tree])]
    /\ sent' = TRUE
    /\ UNCHANGED <<hopVars, dirVars, history, sweepVars, rows, push, pushes,
                   asked, prs>>

\* No credentials, no origin, or the remote refuses: a 400.
GitPushFails ==
    /\ push # 0 /\ ~sent
    /\ push' = 0
    /\ UNCHANGED <<hopVars, dirVars, history, sweepVars, rows, remote, sent,
                   pushes, asked, prs>>

\* Faulty variant: the row is marked whether or not git push went through.
MarkPushedAnyway ==
    /\ push # 0
    /\ rows' = [rows EXCEPT ![push].pushed = TRUE]
    /\ push' = 0
    /\ UNCHANGED <<hopVars, dirVars, history, sweepVars, remote, sent, pushes,
                   asked, prs>>

\* pushedAt, of this row only: older rows of the branch keep theirs empty.
MarkPushed ==
    /\ push # 0 /\ sent
    /\ rows' = [rows EXCEPT ![push].pushed = TRUE]
    /\ push' = 0
    /\ UNCHANGED <<hopVars, dirVars, history, sweepVars, remote, sent, pushes,
                   asked, prs>>

\* /pr takes the row pushed last, the GitHub tab any row that is pushed.
AskForPr ==
    /\ asked = 0
    /\ \E i \in DOMAIN rows : rows[i].pushed /\ asked' = i
    /\ UNCHANGED <<hopVars, dirVars, history, sweepVars, rows, remote, push,
                   sent, pushes, prs>>

\* createPrForCommit: GitHub lists the open ones, and refuses a second one.
CreatePr ==
    /\ asked # 0
    /\ prs' = prs \cup {rows[asked].tree}
    /\ asked' = 0
    /\ UNCHANGED <<hopVars, dirVars, history, sweepVars, rows, remote, push,
                   sent, pushes>>

PrFails ==
    /\ asked # 0
    /\ asked' = 0
    /\ UNCHANGED <<hopVars, dirVars, history, sweepVars, rows, remote, push,
                   sent, pushes, prs>>

HopStep(h) ==
    \/ EnsureWorktree(h) \/ WriteFile(h) \/ CallEnds(h) \/ CallFails(h)
    \/ StageAll(h) \/ GitCommit(h) \/ GitFails(h) \/ RevParse(h)
    \/ RecordCommit(h)
SweepStep(w) == GrowOld(w) \/ FindClean(w) \/ RemoveTree(w)
PublishStep ==
    \/ PushCommand \/ GitPush \/ GitPushFails \/ MarkPushed
    \/ AskForPr \/ CreatePr \/ PrFails

TreeNext ==
    \/ \E h \in Hops : HopStep(h)
    \/ \E w \in Worktrees : SweepStep(w)
    \/ PublishStep

TreeSpec == TreeInit /\ [][TreeNext]_worktreeVars

-----------------------------------------------------------------------------

Committed(w) == UNION {history[w][k] : k \in DOMAIN history[w]}

\* A hop that answered has what it wrote committed on its branch, be it by
\* the commit of the hop it shares the worktree with, and also if the
\* directory is swept away: losing the race for the index, or the index
\* itself, is an error of the hop and never a quiet "no files committed".
AnsweredWorkIsCommitted ==
    \A h \in Hops : step[h] = "answered" /\ h \in wrote =>
                       h \in Committed(Tree(h))

\* The commit an agent_commits row names is on the branch the row names, for
\* good, and the hop's own work is in it or in one before it, although
\* rev-parse reads whatever HEAD is by then.
RowsNameCommits ==
    \A i \in DOMAIN rows : LET r == rows[i] IN
        /\ r.sha \in DOMAIN history[r.tree]
        /\ \E k \in 1..r.sha : r.hop \in history[r.tree][k]

\* A row that is marked pushed, and with it the row a pull request is asked
\* for, has its commit on the remote, whatever was committed, pushed and
\* swept meanwhile.
PushedIsOnRemote ==
    /\ \A i \in DOMAIN rows : rows[i].pushed =>
           rows[i].sha <= remote[rows[i].tree]
    /\ asked # 0 => rows[asked].pushed

\* "A boot-time sweep can't contend with a hop that's mid-write in the same
\* process" (worker.ts): what a hop wrote is in its worktree or on its
\* branch.
WorkSurvivesSweep ==
    \A h \in wrote :
        h \in unstaged[Tree(h)] \cup staged[Tree(h)] \cup Committed(Tree(h))

=============================================================================
