SPECIFICATION FairSpec
CONSTANTS
    A = A
    B = B
    Graphs = {A, B}
    Targets <- MCTargets
    Slots = {1, 2}
    MaxDepth = 1
    HopBudget = 3
    PlainBudget = 1
    PollBudget = 2
    Margin = 1
    MaxRounds = 1
    MaxRuns = 3
    MaxHops = 1
    NoGraph = NoGraph
    NoRun = NoRun
CHECK_DEADLOCK FALSE
INVARIANTS
    WaitEndsInTime
    ChainsEnd
    SlotsComeFree
    AnswersHold
PROPERTIES
    QueuedRunsStart
