SPECIFICATION Spec
CONSTANTS
    State <- MCState
    Op <- MCOp
    InitialState <- MCInit
    GoalStates <- MCGoals
    Succ <- MCSucc
    Cost <- MCCost
    Groups <- MCGroups
    Interfere <- MCInterfere
    Inputs <- MCInputs
    Unknown = Unknown
INVARIANTS
    IndexesAgree
    SavesAllReorderings
    ClosedUnderSymmetries
    ForbidsOnlySavedPlans
    ForbidsAllSavedPlans
    NeverCriticalError
PROPERTIES
    Terminates
