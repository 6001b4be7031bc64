\* Up to four generations of four individuals; wide is over the budget.  A later front
\* may be out of index order, and its slice empty or out of range.
SPECIFICATION Spec
CHECK_DEADLOCK FALSE
CONSTANTS
    thin = thin
    short = short
    fair = fair
    broad = broad
    thick = thick
    long = long
    wide = wide
    Design = {thin, short, fair, broad, thick, long, wide}
    Flow <- SomeFlow
    Cost <- SomeCost
    Founders <- SomeFounders
    Offspring <- SomeOffspring
    MaxBudget = 55
    FlowTolerance = 1
    CostTolerance = 2
    PopulationSize = 4
    MaxGenerations = 4
    StallWindow = 2
    NoFlow = 100000
    NoDesign = NoDesign
INVARIANTS
    TypeOK
    FrontsAreLayers
    ResultsAgree
    CutsKeepEnds
PROPERTIES
    SomeoneUnbeatenSurvives
