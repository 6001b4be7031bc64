---------------------------- MODULE SeepageSolver ----------------------------
(***************************************************************************)
(* The finite-difference solver of internal/simulation/seepage_fem.go and  *)
(* the two callers that drive it: GeneticOptimizer.Optimize, which solves  *)
(* a baseline on its own solver, every individual and the final design on  *)
(* shallow copies of it, and SeepageSimulator.Run, which solves one        *)
(* request on a solver of its own.                                         *)
(*                                                                         *)
(* A copy of a solver copies the references to its grid, so the grids are  *)
(* kept apart from the solvers, in the order they were allocated.          *)
(* Lengths, heads and permeabilities are integers; a quotient is rounded   *)
(* down, as a floating-point one is rounded to its last digit.             *)
(***************************************************************************)
EXTENDS Integers, Sequences, FiniteSets, SequencesExt, FiniteSetsExt

CONSTANTS
    Geometry,     \* DamGeometry; the slopes in hundredths
    Levels,       \* pairs of an upstream and a downstream water level
    Blankets,     \* blankets as <<length, thickness>>
    K,            \* PermeabilityK
    FoundationRatio, ContactRatio,  \* FoundationK = ratio * K, contact = K / ratio
    DefaultRatio, \* RunSimulation's blanket permeability is K / DefaultRatio
    BlanketRatio, \* the configured one is K / BlanketRatio
    Thickness,    \* Interface.Thickness
    Coarse, Fine, \* <<GridNX, GridNY>> of an individual, of baseline and final
    MaxIter,      \* 500
    MinIter,      \* no convergence test before so many iterations (10)
    Tolerance,    \* 1e-5
    MaxEvaluations \* bound: individuals evaluated in one optimisation

NoBlanket == [enabled |-> FALSE, length |-> 0, thickness |-> 0, perm |-> 0]

\* The units are fine enough for no permeability, and no conductance over a
\* contact that is not much thicker than the distance, to be rounded to 0.
ASSUME SeepageSolverAssumption ==
    /\ Geometry \in [length : Nat \ {0}, height : Nat, topWidth : Nat,
                     upSlope : Nat, downSlope : Nat, depth : Nat]
    /\ Levels \subseteq Nat \X Nat
    /\ Blankets \subseteq (Nat \ {0}) \X (Nat \ {0})
    /\ {K, FoundationRatio, ContactRatio, DefaultRatio, BlanketRatio,
        MaxIter, Tolerance} \subseteq Nat \ {0}
    /\ {MinIter, Thickness, MaxEvaluations} \subseteq Nat
    /\ {Coarse, Fine} \subseteq (Nat \ 0 .. 2) \X (Nat \ 0 .. 2)
    /\ ContactRatio <= K /\ DefaultRatio <= K /\ BlanketRatio <= K
    /\ \A r \in {Coarse, Fine} :
           \A dist \in {Geometry.length \div (r[1] - 1),
                        (Geometry.height + Geometry.depth) \div (r[2] - 1)} :
               0 < dist /\ Thickness <= 10 * dist

VARIABLES
    levels,       \* UpstreamH and DownstreamH of this task
    solvers,      \* the optimiser's or simulator's "base" and the copy "local"
    grids,        \* the grids allocated so far
    task,         \* "baseline", "search", "final" or "simulate"
    pc,           \* "ready", "sweep", "correct" or "solved"
    running,      \* the solver RunSimulation was called on
    iter,         \* iterations completed
    delta,        \* maxDelta of the last sweep
    results       \* what each call of RunSimulation returned, in order

vars == <<levels, solvers, grids, task, pc, running, iter, delta, results>>

----------------------------------------------------------------------------
(* The grid: coordinates, domain and materials.                            *)

Nodes(nx, ny) == (0 .. nx - 1) \X (0 .. ny - 1)

\* Linspace over the length of the dam, and over its height and foundation.
X(s, i) == (Geometry.length * i) \div (s.nx - 1)
Y(s, j) == ((Geometry.height + Geometry.depth) * j) \div (s.ny - 1) - Geometry.depth

\* First and last point of the dam body at the height y.
DamProfile(y) ==
    LET from == (Geometry.length - Geometry.topWidth) \div 2
        to   == (Geometry.length + Geometry.topWidth) \div 2
        drop == Max({Geometry.height - y, 0})
    IN  << Max({0, from - (drop * Geometry.upSlope) \div 100}),
           Min({Geometry.length, to + (drop * Geometry.downSlope) \div 100}) >>

InBlanket(s, p) ==
    /\ s.blanket.enabled
    /\ Y(s, p[2]) > 0
    /\ Y(s, p[2]) <= s.blanket.thickness
    /\ X(s, p[1]) <= s.blanket.length

InDamBody(s, p) ==
    /\ Y(s, p[2]) > 0
    /\ X(s, p[1]) >= DamProfile(Y(s, p[2]))[1]
    /\ X(s, p[1]) <= DamProfile(Y(s, p[2]))[2]

InFoundation(s, p) == Y(s, p[2]) <= 0

AtContact(s, p) ==
    /\ -Thickness < Y(s, p[2])
    /\ Y(s, p[2]) <= Thickness
    /\ InDamBody(s, p) \/ InFoundation(s, p)

\* The last of dam body, foundation, contact and blanket that applies, 0 for
\* a node outside the domain.
Zone(s, p) ==
    IF InBlanket(s, p) THEN 4
    ELSE IF AtContact(s, p) THEN 3
    ELSE IF InFoundation(s, p) THEN 2
    ELSE IF InDamBody(s, p) THEN 1
    ELSE 0

\* InitializeGrid: newly made slices, every head 0.
NewGrid(s) ==
    [ zone    |-> [p \in Nodes(s.nx, s.ny) |-> Zone(s, p)],
      contact |-> {p \in Nodes(s.nx, s.ny) : AtContact(s, p)},
      head    |-> [p \in Nodes(s.nx, s.ny) |-> 0] ]

InDomain(g, p) == p \in DOMAIN g.zone /\ g.zone[p] # 0

----------------------------------------------------------------------------
(* Boundary and initial heads.                                             *)

HasUpstreamLevel(s, p) == X(s, p[1]) <= X(s, 1) /\ Y(s, p[2]) <= s.up

\* A mutant of HasDownstreamLevel that takes the last column for the last two.
HasDownstreamLevelLast(s, p) ==
    X(s, p[1]) > X(s, s.nx - 2) /\ Y(s, p[2]) <= s.down

HasDownstreamLevel(s, p) ==
    X(s, p[1]) >= X(s, s.nx - 2) /\ Y(s, p[2]) <= s.down

IsPrescribed(s, p) == HasUpstreamLevel(s, p) \/ HasDownstreamLevel(s, p)

PrescribedLevel(s, p) == IF HasUpstreamLevel(s, p) THEN s.up ELSE s.down

\* Interpolated between the levels; on the two lowest rows with three tenths of
\* the slope and a tenth of the mean level on top.
InitialHead(s, p) ==
    LET fall == (s.up - s.down) * X(s, p[1])
    IN  IF Y(s, p[2]) <= Y(s, 1)
        THEN s.up - (3 * fall) \div (10 * Geometry.length) + (s.up + s.down) \div 20
        ELSE s.up - fall \div Geometry.length

SetBoundaryConditions(s, g) ==
    [g EXCEPT !.head = [p \in DOMAIN g.head |->
        IF ~InDomain(g, p) THEN g.head[p]
        ELSE IF IsPrescribed(s, p) THEN PrescribedLevel(s, p)
        ELSE InitialHead(s, p)]]

----------------------------------------------------------------------------
(* Permeabilities.                                                         *)

ContactK == K \div ContactRatio

\* The contact comes before the zones: a blanket node on the contact of the
\* dam and its foundation has the permeability of the contact.
PointPermeability(s, g, p) ==
    IF p \in g.contact THEN ContactK
    ELSE CASE g.zone[p] = 1 -> K
           [] g.zone[p] = 4 -> s.blanket.perm
           [] OTHER         -> K * FoundationRatio

\* Harmonic mean of two permeabilities, in tenths; across the contact the mean
\* over the layer of the contact and the rest of the distance.  A negative
\* denominator (a layer thicker than the distance) falls back to the contact.
Conductance(s, g, p, q) ==
    LET a    == PointPermeability(s, g, p)
        b    == PointPermeability(s, g, q)
        dist == IF p[2] # q[2] THEN (Geometry.height + Geometry.depth) \div (s.ny - 1)
                               ELSE Geometry.length \div (s.nx - 1)
        den  == Thickness * (a + b) + 2 * (dist - Thickness) * ContactK
    IN  IF {p, q} \intersect g.contact = {} \/ Thickness = 0
        THEN (20 * a * b) \div (a + b)
        ELSE IF den <= 0 THEN 10 * ContactK
        ELSE (10 * dist * ContactK * (a + b)) \div den

----------------------------------------------------------------------------
(* One iteration of SolveSteady: a sweep and a correction, row by row.     *)

\* The nodes of the two loops, in their order.
Interior(s) ==
    [n \in 1 .. (s.nx - 2) * (s.ny - 2) |->
        <<1 + ((n - 1) % (s.nx - 2)), 1 + ((n - 1) \div (s.nx - 2))>>]

Around(p) == << <<p[1] - 1, p[2]>>, <<p[1] + 1, p[2]>>,
                <<p[1], p[2] - 1>>, <<p[1], p[2] + 1>> >>

\* A mutant of Neighbours that also takes those outside the domain.
EveryNeighbour(g, p) == {q \in ToSet(Around(p)) : q \in DOMAIN g.zone}

Neighbours(g, p) == {q \in ToSet(Around(p)) : InDomain(g, p) /\ InDomain(g, q)}

\* What the four neighbours of p contribute to a sum.
SumAround(p, part(_)) ==
    part(Around(p)[1]) + part(Around(p)[2]) + part(Around(p)[3]) + part(Around(p)[4])

\* The mean of the neighbours' heads, weighted with the conductances.
Mean(s, g, h, p) ==
    LET perm(q)  == IF q \in Neighbours(g, p) THEN Conductance(s, g, p, q) ELSE 0
        water(q) == IF q \in Neighbours(g, p) THEN Conductance(s, g, p, q) * h[q] ELSE 0
    IN  SumAround(p, water) \div SumAround(p, perm)

\* The new head of one node.  A node with a prescribed level is given it, one
\* with fewer than two neighbours keeps what it has.
Relaxed(s, g, h, p) ==
    IF ~InDomain(g, p) THEN h[p]
    ELSE IF IsPrescribed(s, p) THEN PrescribedLevel(s, p)
    ELSE IF Cardinality(Neighbours(g, p)) < 2 THEN h[p]
    ELSE Mean(s, g, h, p)

IsFree(s, g, p) == InDomain(g, p) /\ ~IsPrescribed(s, p)

Change(a, b) == IF a < b THEN b - a ELSE a - b

\* A mutant of SweptNode that keeps the last change of a free node, not the largest.
SweptNodeLast(s, g, p, old) ==
    LET new == Relaxed(s, g, old.head, p)
    IN  [ head  |-> [old.head EXCEPT ![p] = new],
          delta |-> IF IsFree(s, g, p) THEN Change(old.head[p], new) ELSE old.delta ]

\* One node of the sweep, given the heads and the largest change so far.
SweptNode(s, g, p, old) ==
    LET new == Relaxed(s, g, old.head, p)
    IN  [ head  |-> [old.head EXCEPT ![p] = new],
          delta |-> IF IsFree(s, g, p)
                    THEN Max({old.delta, Change(old.head[p], new)}) ELSE old.delta ]

\* The sweep: the heads it leaves and the largest change of a free node.
Sweep(s, g) ==
    LET after[n \in 0 .. Len(Interior(s))] ==
            IF n = 0 THEN [head |-> g.head, delta |-> 0]
            ELSE SweptNode(s, g, Interior(s)[n], after[n - 1])
    IN  after[Len(Interior(s))]

\* Neighbours whose head is above the height of p, whether or not they are in
\* the domain.
WetAround(s, g, h, p) ==
    {q \in ToSet(Around(p)) : q \in DOMAIN h /\ h[q] > Y(s, p[2])}

\* A dry node upstream of the downstream face is lifted towards its wet
\* neighbours: three tenths of its height, seven tenths of their mean.
Corrected(s, g, h, p) ==
    LET y   == Y(s, p[2])
        wet == WetAround(s, g, h, p)
        water(q) == IF q \in wet THEN h[q] ELSE 0
        one(q)   == IF q \in wet THEN 1 ELSE 0
    IN  IF /\ InDomain(g, p)
           /\ h[p] < y
           /\ X(s, p[1]) < DamProfile(y)[2]
           /\ wet # {}
        THEN (7 * SumAround(p, water) + 3 * y * SumAround(p, one))
                \div (10 * SumAround(p, one))
        ELSE h[p]

CorrectedNode(s, g, p, h) == [h EXCEPT ![p] = Corrected(s, g, h, p)]

\* The heads the correction leaves.
Correction(s, g) ==
    LET after[n \in 0 .. Len(Interior(s))] ==
            IF n = 0 THEN g.head
            ELSE CorrectedNode(s, g, Interior(s)[n], after[n - 1])
    IN  after[Len(Interior(s))]

----------------------------------------------------------------------------
(* What RunSimulation reports of the solved grid.                          *)

\* CalculateVelocities in the direction of the flow, scaled with the distance
\* between columns: central, one-sided at the edge of the domain, and 0 on the
\* outer rows and columns, which are not computed.
VelocityX(s, g, p) ==
    LET west == <<p[1] - 1, p[2]>>
        east == <<p[1] + 1, p[2]>>
        k    == PointPermeability(s, g, p)
    IN  CASE p \notin ToSet(Interior(s)) \/ ~InDomain(g, p) -> 0
          [] InDomain(g, west) /\ InDomain(g, east) -> -k * ((g.head[east] - g.head[west]) \div 2)
          [] InDomain(g, east) /\ ~InDomain(g, west) -> -k * (g.head[east] - g.head[p])
          [] InDomain(g, west) /\ ~InDomain(g, east) -> -k * (g.head[p] - g.head[west])
          [] OTHER -> 0

PorePressure(s, g, p) ==
    IF p \in ToSet(Interior(s)) /\ InDomain(g, p)
    THEN Max({g.head[p] - Y(s, p[2]), 0}) ELSE 0

\* A mutant of Discharge that takes the last column for the last but one.
DischargeOutermost(s, g) ==
    MapThenSumSet(LAMBDA p : VelocityX(s, g, p),
                  {p \in DOMAIN g.zone : InDomain(g, p) /\ p[1] > s.nx - 2})

\* Through the last two columns, of which the last has no velocity.
Discharge(s, g) ==
    MapThenSumSet(LAMBDA p : VelocityX(s, g, p),
                  {p \in DOMAIN g.zone : InDomain(g, p) /\ p[1] >= s.nx - 2})

SeepageFlow(s, g) == Change(0, Discharge(s, g))

MaxPorePressure(s, g) == Max({PorePressure(s, g, p) : p \in DOMAIN g.zone})

----------------------------------------------------------------------------
(* The callers.                                                            *)

\* A blanket of the given length, thickness and permeability: SetBlanket.
Blanket(b, perm) ==
    [enabled |-> TRUE, length |-> b[1], thickness |-> b[2], perm |-> perm]

NewSolver(blanket) ==
    [up |-> 0, down |-> 0, nx |-> Fine[1], ny |-> Fine[2], blanket |-> blanket, grid |-> 0]

\* The solver with what the request says and, if it names no blanket, the one
\* the solver has.
Requested(s, resolution, blanket) ==
    [s EXCEPT !.up = levels[1], !.down = levels[2],
              !.nx = resolution[1], !.ny = resolution[2],
              !.blanket = IF blanket.enabled THEN blanket ELSE @]

\* A mutant of Allocated that makes slices only where there are none.
AllocatedOnce(s) ==
    IF s.grid # 0 THEN SetBoundaryConditions(s, grids[s.grid])
    ELSE SetBoundaryConditions(s, NewGrid(s))

\* A mutant of Allocated that starts from the heads of a grid of the same size.
AllocatedWarm(s) ==
    IF s.grid # 0 /\ DOMAIN grids[s.grid].head = Nodes(s.nx, s.ny)
    THEN [SetBoundaryConditions(s, NewGrid(s)) EXCEPT !.head = grids[s.grid].head]
    ELSE SetBoundaryConditions(s, NewGrid(s))

Allocated(s) == SetBoundaryConditions(s, NewGrid(s))

\* RunSimulation up to the first sweep, on the solver s that is from then on
\* known as name.
RunSimulation(name, s, resolution, blanket) ==
    LET t == [Requested(s, resolution, blanket) EXCEPT !.grid = Len(grids) + 1]
    IN  /\ pc = "ready"
        /\ solvers' = [solvers EXCEPT ![name] = t]
        /\ grids' = Append(grids, Allocated(Requested(s, resolution, blanket)))
        /\ running' = name
        /\ iter' = 0
        /\ delta' = 0
        /\ pc' = "sweep"

\* SeepageSimulator.Run: the solver was made for this request and has its
\* blanket, if it has one.
Simulate ==
    /\ task = "simulate"
    /\ results = <<>>
    /\ RunSimulation("base", solvers["base"], Fine, NoBlanket)
    /\ UNCHANGED <<levels, task, results>>

\* calculateBaselineFlow, on the optimiser's own solver.
SolveBaseline ==
    /\ task = "baseline"
    /\ RunSimulation("base", solvers["base"], Fine, NoBlanket)
    /\ task' = "search"
    /\ UNCHANGED <<levels, results>>

\* evaluateIndividual: a copy of the base solver, the coarse grid, and the
\* permeability RunSimulation gives a blanket without one.
Evaluate(b) ==
    /\ task = "search"
    /\ Len(results) \in 1 .. MaxEvaluations
    /\ RunSimulation("local", solvers["base"], Coarse, Blanket(b, K \div DefaultRatio))
    /\ UNCHANGED <<levels, task, results>>

Evaluated == {results[k].blanket : k \in 2 .. Len(results)}

\* The end of Optimize: a copy, SetBlanket with the configured permeability,
\* and RunSimulation, which replaces it.  The design is one of those evaluated,
\* or the zero Individual if none is within the budget.
SolveFinal(b) ==
    /\ task = "search"
    /\ Len(results) > 1
    /\ RunSimulation("local",
           [solvers["base"] EXCEPT !.blanket = Blanket(b, K \div BlanketRatio)],
           Fine, Blanket(b, K \div DefaultRatio))
    /\ task' = "final"
    /\ UNCHANGED <<levels, results>>

Solver == solvers[running]

Grid == grids[Solver.grid]

\* One pass over the interior.
SweepOnce ==
    /\ pc = "sweep"
    /\ grids' = [grids EXCEPT ![Solver.grid].head = Sweep(Solver, Grid).head]
    /\ delta' = Sweep(Solver, Grid).delta
    /\ pc' = "correct"
    /\ UNCHANGED <<levels, solvers, task, running, iter, results>>

\* A mutant of Enough that stops when the change is small for the first time or
\* MinIter iterations are done.
EnoughEither == iter > MinIter \/ delta < Tolerance \/ iter + 1 = MaxIter

\* After the iteration that is now counted.
Enough == (iter > MinIter /\ delta < Tolerance) \/ iter + 1 = MaxIter

\* The second pass and the test for convergence.
Correct ==
    /\ pc = "correct"
    /\ grids' = [grids EXCEPT ![Solver.grid].head = Correction(Solver, Grid)]
    /\ iter' = iter + 1
    /\ pc' = IF Enough THEN "solved" ELSE "sweep"
    /\ UNCHANGED <<levels, solvers, task, running, delta, results>>

\* The rest of RunSimulation: there is no error, whether or not it converged.
Report ==
    /\ pc = "solved"
    /\ results' = Append(results,
           [ blanket    |-> <<Solver.blanket.length, Solver.blanket.thickness>>,
             grid       |-> Solver.grid,
             iterations |-> iter,
             flow       |-> SeepageFlow(Solver, Grid),
             pore       |-> MaxPorePressure(Solver, Grid) ])
    /\ pc' = "ready"
    /\ UNCHANGED <<levels, solvers, grids, task, running, iter, delta>>

Init ==
    /\ levels \in Levels
    /\ task \in {"baseline", "simulate"}
    /\ \E blanket \in {NoBlanket} \union
            {Blanket(b, K \div BlanketRatio) : b \in {c \in Blankets : task = "simulate"}} :
           solvers = [base |-> NewSolver(blanket), local |-> NewSolver(NoBlanket)]
    /\ grids = <<>>
    /\ pc = "ready"
    /\ running = "base"
    /\ iter = 0
    /\ delta = 0
    /\ results = <<>>

Next ==
    \/ Simulate
    \/ SolveBaseline
    \/ \E b \in Blankets : Evaluate(b)
    \/ \E b \in Evaluated \union {<<0, 0>>} : SolveFinal(b)
    \/ SweepOnce
    \/ Correct
    \/ Report

Spec == Init /\ [][Next]_vars

----------------------------------------------------------------------------
(* Properties.                                                             *)

\* The state of the solver: a solver that has a grid has one of its own size,
\* which GetMaterialZone and the loops over GridNX and GridNY rely on.
TypeOK ==
    /\ levels \in Levels
    /\ task \in {"baseline", "search", "final", "simulate"}
    /\ pc \in {"ready", "sweep", "correct", "solved"}
    /\ iter \in 0 .. MaxIter
    /\ delta \in Nat
    /\ Len(results) <= MaxEvaluations + 2
    /\ \A o \in DOMAIN solvers : solvers[o].grid # 0 =>
           DOMAIN grids[solvers[o].grid].head = Nodes(solvers[o].nx, solvers[o].ny)

HighestHead == Max({levels[1], levels[2]}) + (levels[1] + levels[2]) \div 20

\* Every head lies between the lower of the two water levels and the higher one
\* with the tenth of their mean that the lowest rows start from: the scheme has
\* a maximum principle, whatever the grid, the blanket and the contact.  So no
\* pore pressure is reported that exceeds the column of that height.
HeadsBounded ==
    /\ pc # "ready" =>
           \A p \in DOMAIN Grid.head : InDomain(Grid, p) =>
               Min({levels[1], levels[2]}) <= Grid.head[p] /\ Grid.head[p] <= HighestHead
    /\ \A k \in DOMAIN results : results[k].pore <= HighestHead + Geometry.depth

\* A steady solution discharges through the downstream columns away from the
\* higher water level, converged or not; the flow reported is its amount, which
\* would hide the wrong direction, and the regression programs want it positive.
FlowsFromTheHigherLevel ==
    pc = "solved" =>
        /\ levels[1] > levels[2] => Discharge(Solver, Grid) > 0
        /\ levels[1] < levels[2] => Discharge(Solver, Grid) < 0

\* The nodes on the two outer columns below the water have its level from the
\* boundary conditions to the result: neither pass moves them.
PrescribedLevelsHold ==
    pc # "ready" =>
        \A p \in DOMAIN Grid.head : InDomain(Grid, p) =>
            /\ HasUpstreamLevel(Solver, p) => Grid.head[p] = levels[1]
            /\ p[1] >= Solver.nx - 2 /\ Y(Solver, p[2]) <= levels[2] =>
                   Grid.head[p] \in {levels[1], levels[2]}

\* The n-th iteration of a solver that nobody else uses, if it is not done.
IterationAlone(s, n, old) ==
    IF old.done THEN old
    ELSE LET swept == Sweep(s, old.field)
             fixed == [old.field EXCEPT !.head = swept.head]
         IN  [ field |-> [fixed EXCEPT !.head = Correction(s, fixed)],
               done  |-> n > MinIter + 1 /\ swept.delta < Tolerance ]

\* The field that a solver made for one request reaches.
SolvedAlone(s) ==
    LET after[n \in 0 .. MaxIter] ==
            IF n = 0
            THEN [field |-> SetBoundaryConditions(s, NewGrid(s)), done |-> FALSE]
            ELSE IterationAlone(s, n, after[n - 1])
    IN  after[MaxIter].field

\* A new solver for what the k-th result was asked for, and nothing else.
MadeFor(k) ==
    LET bare  == IF task = "simulate" THEN results[k].blanket = <<0, 0>> ELSE k = 1
        perm  == K \div (IF task = "simulate" THEN BlanketRatio ELSE DefaultRatio)
        nodes == DOMAIN grids[results[k].grid].head
    IN  Requested(NewSolver(IF bare THEN NoBlanket ELSE Blanket(results[k].blanket, perm)),
                  IF nodes = Nodes(Fine[1], Fine[2]) THEN Fine ELSE Coarse, NoBlanket)

\* The grid of every result, the earlier ones included, is the one its request
\* would have on a solver of its own: an optimisation solves many designs on
\* copies that share slices with the base solver, and no design shows in
\* another's field, nor in the baseline's.
DesignsAreIndependent ==
    pc = "ready" =>
        \A k \in DOMAIN results : grids[results[k].grid] = SolvedAlone(MadeFor(k))

\* A run that stops before its last iteration has converged: one more sweep and
\* correction would move no head by as much as the tolerance, although the
\* correction comes after the change was measured.
ConvergedMeansSettled ==
    pc = "solved" /\ iter < MaxIter =>
        LET swept == Sweep(Solver, Grid).head
            again == Correction(Solver, [Grid EXCEPT !.head = swept])
        IN  \A p \in DOMAIN again : Change(Grid.head[p], again[p]) < Tolerance

\* The most that the correction lifts a head, and the grid it leaves.
Lift == LET lifted == Correction(Solver, Grid)
        IN  Max({Change(Grid.head[p], lifted[p]) : p \in DOMAIN lifted})

NextGrid == [Grid EXCEPT !.head = Correction(Solver, Grid)]

\* The next sweep changes no head by more than the last one did and the
\* correction between them lifted: sweeps alone never drive the change up, so
\* that a run which does not converge fails to for its correction, whatever the
\* zones, the contact and the blanket.
OnlyTheCorrectionUnsettles ==
    pc = "correct" => Sweep(Solver, NextGrid).delta <= delta + Lift
=============================================================================
