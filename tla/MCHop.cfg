SPECIFICATION MCSpec
CONSTANTS
    h1 = h1
    h2 = h2
    w = w
    Targets = 2
    Servers = {mcp1, mcp2}
    Deadline = 7
    Graceful = 3
    Abort = 1
    MinCall = 1
    MaxAttempts = 3
    Delays <- MCDelays
    Hints = {3, 9}
    MaxDelay = 5
    Horizon = 10
    Hops = {h1, h2}
    Worktree <- MCWorktree
    CommitAttempts = 3
    MaxPushes = 2
    MaxSweeps = 1
    Agents = {x, y}
    Labels = {l}
    NoLabel = NoLabel
    Priorities = {0, 1}
    MaxScore = 2
    Cases <- MCCases
CHECK_DEADLOCK FALSE
INVARIANTS
    NoLongZombie
    SessionsClosed
    AnsweredWorkIsCommitted
    RowsNameCommits
    PushedIsOnRemote
    RoutesAsOrdered
PROPERTIES
    HopSettles
