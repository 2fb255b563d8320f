SPECIFICATION MCSpec
CONSTANTS
    h = h
    a = a
    b = b
    e1 = e1
    e2 = e2
    e3 = e3
    n1 = n1
    n2 = n2
    d1 = d1
    r = r
    s = s
    bot1 = bot1
    first = first
    second = second
    NodeId = {h, a, b}
    EdgeId = {e1, e2, e3}
    NoNode = NoNode
    Requests = {q1, q2}
    StartNodes = {h, a}
    StartEdges <- MCStartEdges
    MaxEdits = 3
    Schedules = {schedule}
    Hooks = {hook}
    TriggerCalls = {t1, t2}
    Firings = {f1, f2}
    Cron = Cron
    NoTrigger = NoTrigger
    MaxPerWindow = 1
    Window = 1
    MaxRequests = 3
    MaxFirings = 3
    MaxFaults = 2
    CanvasNodes = {n1, n2, n3}
    CanvasEdges = {d1, d2}
    FirstNodes = {n1, n2}
    FirstEdges <- MCFirstEdges
    NoEntry = NoEntry
    KeepsId = FALSE
    MaxGestures = 2
    Paused = {r, s}
    Gates <- MCTwoGates
    MaxDrops = 1
    Nothing = Nothing
    Bots = {bot1, bot2}
    MaxTurns = 2
    Sizes = {1, 2}
    Room = 3
    MaxVisits = 2
    Names = {first, second}
    Unknown = Unknown
    NoName = NoName
    MaxPlans = 3
    Links <- MCLinks
    MaxLinks = 2
CHECK_DEADLOCK FALSE
SYMMETRY MCSymmetry
INVARIANT
    ShownIsPending
