SPECIFICATION Spec
CONSTANTS
    p1 = p1
    p2 = p2
    p3 = p3
    p4 = p4
    p5 = p5
    p6 = p6
    MaxCost = 2
    Plan <- MCPlan
    Costs <- MCCosts
    Length <- MCLength
    Reorderings <- MCReorderings
    ForbiddenBy <- MCForbiddenBy
    Arguments <- MCArguments
    LeftFiles <- NoFilesLeft
    None = None
    Incomplete = Incomplete
INVARIANTS
    CountedPlansAreOnDisk
    NoPlanTwice
    NeverCrashes
    CopiesTopK
    CopiesTopQuality
    LosesAtMostTheLastPlan
PROPERTIES
    Terminates
CHECK_DEADLOCK FALSE
