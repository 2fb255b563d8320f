SPECIFICATION Spec
CONSTANTS
    Plans <- MCPlans
CHECK_DEADLOCK FALSE
PROPERTY RefusalSurfaces
