SPECIFICATION Spec
CONSTANTS
    writer = writer
    reviewer = reviewer
    publisher = publisher
    s1 = s1
    s2 = s2
    a1 = a1
    a2 = a2
    a3 = a3
    c1 = c1
    Nodes = {writer, reviewer, publisher}
    Entry = writer
    Gated = {writer, publisher}
    Reviewers = {reviewer}
    Edges <- MCEdges
    NoNode = NoNode
    Slots = {s1, s2}
    Creator = Creator
    Approvals = {a1, a2}
    Cancels = {c1}
    MaxRedeliveries = 0
SYMMETRY MCSymmetry
CHECK_DEADLOCK FALSE
PROPERTY OneWinnerPerPause
