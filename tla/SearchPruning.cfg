SPECIFICATION Spec
CONSTANTS
    Problems <- ConditionalProblems
    INFTY <- MCINFTY
CHECK_DEADLOCK FALSE
INVARIANT
    GivesUpOnlyWithoutPlan
