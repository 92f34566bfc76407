SPECIFICATION Spec
CONSTANTS
    Inputs <- MCInputs
    MaxFunctions = 3
    INF = 1000
CHECK_DEADLOCK FALSE
INVARIANTS
    TransitionsAreInduced
    EstimatesStayBelowDistances
    SumIsAdmissible
    LandmarksAreInOrder
