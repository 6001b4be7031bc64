\* Every optimisation of up to two designs and every simulation.  A task ends.
SPECIFICATION Spec
CHECK_DEADLOCK FALSE
CONSTANTS
    Geometry <- Weir
    Levels <- SomeLevels
    Blankets <- SomeBlankets
    K = 40
    FoundationRatio = 5
    ContactRatio = 2
    DefaultRatio = 20
    BlanketRatio = 10
    Thickness = 60
    Coarse <- CoarseGrid
    Fine <- FineGrid
    MaxIter = 30
    MinIter = 2
    Tolerance = 2
    MaxEvaluations = 2
INVARIANTS
    TypeOK
    HeadsBounded
    PrescribedLevelsHold
    FlowsFromTheHigherLevel
    DesignsAreIndependent
    ConvergedMeansSettled
    OnlyTheCorrectionUnsettles
