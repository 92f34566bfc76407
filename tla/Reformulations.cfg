SPECIFICATION SpecAll
CONSTANTS
    east = east
    west = west
    look = look
    wait = wait
    Op <- MCOp
    Operators <- MCOp
    State <- MCState
    InitialState = 0
    GoalStates <- MCGoal
    Succ <- MCSucc
    Generators <- MCGenerators
    Inputs <- MCInputs
    InputPlans <- MCInputPlans
    InputSets <- MCInputSets
    InputMultisets <- MCInputMultisets
    MaxApplications = 4
    MaxSteps = 4
INVARIANTS
    TypeOK
    StillPossibleIffContained
    ExactlyOneCopy
    GoalIsAchievable
    ForbidsWholeOrbits
PROPERTIES
    ImplementsForbiddingTask
    TasksImplementPromises
CHECK_DEADLOCK FALSE
