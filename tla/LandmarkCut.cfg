SPECIFICATION Spec
CONSTANT
    Tasks <- MCTasks
CHECK_DEADLOCK FALSE
INVARIANTS
    HMaxIsUpToDate
    LandmarksAreAdmissible
