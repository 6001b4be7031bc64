\* The selection slices a front that is out of index order.
SPECIFICATION Spec
CHECK_DEADLOCK FALSE
CONSTANTS
    thin = thin
    short = short
    fair = fair
    broad = broad
    thick = thick
    long = long
    wide = wide
    Design = {thin, short, fair, broad, thick, long, wide}
    Flow <- SomeFlow
    Cost <- SomeCost
    Founders <- SomeFounders
    Offspring <- SomeOffspring
    MaxBudget = 55
    FlowTolerance = 1
    CostTolerance = 2
    PopulationSize = 4
    MaxGenerations = 1
    StallWindow = 1
    NoFlow = 100000
    NoDesign = NoDesign
INVARIANTS
    CallReturns
