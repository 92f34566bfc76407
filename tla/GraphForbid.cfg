SPECIFICATION Spec
CONSTANTS
    a = a
    b = b
    c = c
    n1 = n1
    n2 = n2
    n3 = n3
    n4 = n4
    Op <- MCOp
    Node <- MCNode
    State <- MCState
    InitialState = 0
    GoalStates <- MCGoal
    Succ <- MCSucc
    InputGraphs <- MCInputGraphs
    Nowhere = Nowhere
    MaxSteps = 5
INVARIANTS
    TypeOK
    MarksTheWalk
    ExactlyOneCopy
PROPERTY ImplementsForbiddingTask
CHECK_DEADLOCK FALSE
