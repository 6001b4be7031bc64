-------------------------- MODULE GeneticOptimizer --------------------------
(***************************************************************************)
(* One call of GeneticOptimizer.Optimize (internal/optimization/           *)
(* genetic_algo.go), which AntiSeepageOptimizer.Run makes under its mutex  *)
(* on an optimiser of its own: no other goroutine touches this state.      *)
(*                                                                         *)
(* A generation is one step.  Its offspring are any designs: each gene of  *)
(* a child mutates with a positive probability by a normally distributed   *)
(* amount and is then clamped, whatever tournament selection and crossover *)
(* produced, so every design within the bounds can be a child.             *)
(***************************************************************************)
EXTENDS NSGA2

CONSTANTS
    Founders,         \* the initial populations considered
    Offspring,        \* the offspring of a generation considered
    MaxGenerations,   \* GeneticOptimizer.MaxGenerations
    StallWindow,      \* generations the stop criterion looks back over (20)
    NoFlow,           \* 1e20, the flow of an empty Pareto front
    NoDesign          \* the zero Individual: blanket of length and thickness 0

ASSUME GeneticOptimizerAssumption ==
    /\ Founders \subseteq [1 .. PopulationSize -> Design]
    /\ Offspring \subseteq [1 .. PopulationSize -> Design]
    /\ MaxGenerations \in Nat \ {0}
    /\ StallWindow \in Nat \ {0}
    /\ NoFlow \in Nat
    /\ \A d \in Design : Flow[d] < NoFlow
    /\ NoDesign \notin Design

VARIABLES
    pc,           \* "running", "done", or "panicked" (the goroutine died)
    population,   \* sequence of designs
    curve,        \* ConvergenceCurve: best flow on the front, per generation
    paretoFront,  \* ga.ParetoFront, what OptimizeMulti returns beside the result
    best          \* bestOverall, the blanket of the OptimizationResult

vars == <<pc, population, curve, paretoFront, best>>

TypeOK ==
    /\ pc \in {"running", "done", "panicked"}
    /\ population \in Seq(Design)
    /\ Len(population) \in 1 .. PopulationSize
    /\ curve \in Seq({Flow[d] : d \in Design} \union {NoFlow})
    /\ Len(curve) <= MaxGenerations
    /\ ToSet(paretoFront) \subseteq ToSet(population)
    /\ best \in Design \union {NoDesign}

----------------------------------------------------------------------------
Abs(x) == IF x < 0 THEN -x ELSE x

FlowsOf(designs) == {Flow[d] : d \in designs}

BestFlow(front) == Min(FlowsOf(ToSet(front)) \union {NoFlow})

\* The last StallWindow entries are within 0.1 % of the latest one.  Checked
\* after a generation, once there are more entries than the window holds.
Stalled ==
    /\ Len(curve) > StallWindow
    /\ \A i \in Len(curve) - StallWindow + 1 .. Len(curve) :
           1000 * Abs(Last(curve) - curve[i]) <= Abs(Last(curve))

Finished == Len(curve) = MaxGenerations \/ Stalled

ValidIn(c) == {d \in ToSet(c) : Valid(d)}

\* A mutant of BestOverall that does not look at Valid.
BestIgnoresBudget(c) ==
    c[Min({k \in DOMAIN c : \A d \in ToSet(c) : Flow[c[k]] <= Flow[d]})]

\* The first valid individual of the lowest flow; the zero Individual when the
\* population holds no valid one.
BestOverall(c) ==
    LET lowest(k) == Valid(c[k]) /\ \A d \in ValidIn(c) : Flow[c[k]] <= Flow[d]
    IN  IF ValidIn(c) = {} THEN NoDesign
        ELSE c[Min({k \in DOMAIN c : lowest(k)})]

----------------------------------------------------------------------------
\* createInitialPopulation, evaluated and sorted: any designs in any order, of
\* which an instance may consider some.
Init ==
    /\ pc = "running"
    /\ population \in Founders
    /\ curve = <<>>
    /\ paretoFront = ExtractParetoFront(population)
    /\ best = NoDesign

\* One turn of the generation loop, given what the loop over the fronts of
\* parents and offspring has selected.
Evolve(selected) ==
    /\ pc = "running" /\ ~Finished
    /\ selected.state # Panic
    /\ population' = Truncate(selected.kept)
    /\ paretoFront' = ExtractParetoFront(population')
    /\ curve' = Append(curve, BestFlow(paretoFront'))
    /\ UNCHANGED <<pc, best>>

\* The same turn when the selection slices out of range.  Nothing recovers: the
\* panic ends the worker's goroutine and with it the server.
SliceOutOfRange(selected) ==
    /\ pc = "running" /\ ~Finished
    /\ selected.state = Panic
    /\ pc' = "panicked"
    /\ UNCHANGED <<population, curve, paretoFront, best>>

\* What follows the loop: the final front and the recommended blanket.
Finish ==
    /\ pc = "running" /\ Finished
    /\ pc' = "done"
    /\ paretoFront' = ExtractParetoFront(population)
    /\ best' = BestOverall(population)
    /\ UNCHANGED <<population, curve>>

Next ==
    \/ \E offspring \in Offspring :
           \E selected \in {SelectFronts(population \o offspring)} :
               Evolve(selected) \/ SliceOutOfRange(selected)
    \/ Finish

Spec == Init /\ [][Next]_vars

----------------------------------------------------------------------------
(* Properties *)

\* The sort, which counts dominators down front by front, peels the population
\* the way the definition of a non-dominated front does: each front is exactly
\* what nobody outside the earlier fronts dominates, nobody is in two fronts or
\* twice in one, and everybody is in some front.
FrontsAreLayers ==
    LET fronts == FastNonDominatedSort(population)
        earlier(r) == UNION {ToSet(fronts[q]) : q \in 1 .. r - 1}
        rest(r) == DOMAIN population \ earlier(r)
        undominated(R) ==
            {j \in R : \A i \in R : ~Dominates(population[i], population[j])}
    IN  /\ \A r \in DOMAIN fronts :
               /\ ToSet(fronts[r]) = undominated(rest(r))
               /\ Len(fronts[r]) = Cardinality(ToSet(fronts[r]))
        /\ rest(Len(fronts) + 1) = {}

\* A generation never replaces the population by one that it beats: some
\* survivor is dominated by no member of the population before.  In particular
\* a population that holds a design within the budget is never followed by one
\* that holds none.  The selection slices, drops and truncates; this is what it
\* still keeps of elitism.
SomeoneUnbeatenSurvives ==
    [][\E d \in ToSet(population') :
           \A e \in ToSet(population) : ~Dominates(e, d)]_population

\* The members of a front that are lowest or highest in flow or cost.
Lowest(value, c, S, i) == \A j \in S : value[c[i]] <= value[c[j]]

Extreme(c, S, i) ==
    \E value \in {Flow, Cost} :
        Lowest(value, c, S, i) \/ \A j \in S : value[c[j]] <= value[c[i]]

\* When only the first `room' of a front stay, in the order it is cut by, a design
\* of the lowest flow and one of the lowest cost are among them.  There may be four
\* extremes, so with less room an end may go, but then nobody else stays.
SparesEnds(c, front, room) ==
    LET order == MostCrowdedLast(c, front)
        spared == {order[k] : k \in 1 .. room}
        sparesLowest(value) == \E i \in spared : Lowest(value, c, ToSet(front), i)
    IN  \/ sparesLowest(Flow) /\ sparesLowest(Cost)
        \/ room < 4 /\ \A i \in spared : Extreme(c, ToSet(front), i)

\* The front of parents and offspring that does not fit is cut so that its ends are
\* spared, whatever the order of the front and however many designs are equal in
\* one objective.  Three exchange sorts, none of them stable, work together in this.
CutsKeepEnds ==
    pc = "running" /\ ~Finished =>
        \A offspring \in Offspring :
            LET combined == population \o offspring
                fronts == FastNonDominatedSort(combined)
                taken == TakenFrom(combined, fronts)
                cut(n) == taken[n - 1].state = Filling /\ ~Fits(taken[n - 1].kept, fronts[n])
                within(n) == \E i \in ToSet(fronts[n]) : Valid(combined[i])
            IN  \A n \in DOMAIN fronts : cut(n) /\ within(n) =>
                    SparesEnds(combined, fronts[n], PopulationSize - Len(taken[n - 1].kept))

\* The results of a call are computed in three places and agree: when the last
\* population holds a design within the budget, the recommended blanket is one of
\* its valid members, its flow is the last entry of the convergence curve, and the
\* Pareto front holds a design of that flow; when it holds none, the front is empty
\* and the curve says so.  Whether there is a blanket to recommend then is
\* BlanketWithinBounds.
ResultsAgree ==
    pc = "done" =>
        IF ValidIn(population) = {}
        THEN paretoFront = <<>> /\ Last(curve) = NoFlow
        ELSE /\ best \in ValidIn(population)
             /\ Last(curve) = Flow[best]
             /\ Flow[best] \in FlowsOf(ToSet(paretoFront))

\* A call recommends a blanket within the bounds of its request, as every design
\* is.  The code breaks this: when no individual meets the budget it returns the
\* zero Individual, a blanket of length and thickness 0, as its result.
BlanketWithinBounds == pc = "done" => best \in Design

\* The call returns: the goroutine that runs it does not die in the selection.
CallReturns == pc # "panicked"
=============================================================================
