SPECIFICATION Spec
CONSTANTS
    Tasks <- MCTasks
    Inputs <- MCInputs
INVARIANTS
    DistancesAreUpToDate
    FactorsAreAbstractions
    EstimatesAreLowerBounds
    BisimulationIsPerfect
    SizesWithinLimits
CHECK_DEADLOCK FALSE
