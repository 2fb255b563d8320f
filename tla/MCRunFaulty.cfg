SPECIFICATION FaultySpec
CONSTANTS
    writer = writer
    reviewer = reviewer
    publisher = publisher
    s1 = s1
    s2 = s2
    a1 = a1
    a2 = a2
    a3 = a3
    c1 = c1
    Nodes = {writer, publisher}
    Entry = writer
    Gated = {publisher}
    Reviewers = {}
    Edges <- MCShortEdges
    NoNode = NoNode
    Slots = {s1, s2}
    Creator = Creator
    Approvals = {a1, a2}
    Cancels = {c1}
    MaxRedeliveries = 1
VIEW MCView
SYMMETRY MCSymmetry
CHECK_DEADLOCK FALSE
INVARIANTS
    FlightBound
PROPERTIES
    CancelIsSticky
