SPECIFICATION FairSpec
CONSTANTS
    Plans <- MCPlans
CHECK_DEADLOCK FALSE
INVARIANTS
    TypeOK
    BatchTallies
    WithinLimits
PROPERTIES
    CancelIsSticky
    KeepsBarrier
    RunMovesOn
