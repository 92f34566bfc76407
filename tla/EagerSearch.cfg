SPECIFICATION Spec
CONSTANTS
    Problems <- MCProblems
    INFTY <- MCINFTY
CHECK_DEADLOCK FALSE
INVARIANTS
    FindsCheapestPlan
    GivesUpOnlyWithoutPlan
    OpenNodesAreQueued
    ClosedNodesAreRelaxed
