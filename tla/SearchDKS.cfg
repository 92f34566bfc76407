SPECIFICATION Spec
CONSTANTS
    Problems <- DKSProblems
    INFTY <- MCINFTY
CHECK_DEADLOCK FALSE
INVARIANT
    FindsCheapestPlan
