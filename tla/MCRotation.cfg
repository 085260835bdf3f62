SPECIFICATION Spec
CONSTANTS
    Plans <- MCPlans
    MaxTime = 7
INVARIANTS RetiredNotAccepted
CHECK_DEADLOCK FALSE
