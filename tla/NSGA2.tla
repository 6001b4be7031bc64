------------------------------- MODULE NSGA2 -------------------------------
(***************************************************************************)
(* The pure part of the blanket optimiser, internal/optimization/          *)
(* genetic_algo.go: which of two designs dominates the other, the fast     *)
(* non-dominated sort, the crowding distance and the selection of the      *)
(* individuals that survive a generation.                                  *)
(*                                                                         *)
(* A design stands for a pair (blanket length, blanket thickness).  The    *)
(* solver is deterministic, so a design has one seepage flow and one       *)
(* material cost, and an Individual is its design: Valid follows from the  *)
(* cost, Rank and CrowdingDistance are computed anew from the population   *)
(* whenever they are read here.  Flows and costs are integers in a unit    *)
(* fine enough to tell the designs apart; the code only compares them and  *)
(* takes differences.                                                      *)
(*                                                                         *)
(* Populations and fronts are sequences, as in the code: fronts hold       *)
(* indices, and the order of those indices is what SelectFronts depends on.   *)
(* Indices start at 1 here and at 0 in the code.                           *)
(***************************************************************************)
EXTENDS Integers, SequencesExt

CONSTANTS
    Design,         \* the designs the search can meet
    Flow,           \* seepage flow of a design, TotalSeepageFlow of the solver
    Cost,           \* material cost of a design, calculateMaterialCost
    MaxBudget,      \* CostConfig.MaxBudget; 0 sets no limit
    FlowTolerance,  \* flows closer than this are the same flow (1e-15)
    CostTolerance,  \* costs closer than this are the same cost (1e-6)
    PopulationSize  \* GeneticOptimizer.PopulationSize

ASSUME NSGA2Assumption ==
    /\ Flow \in [Design -> Nat]
    /\ Cost \in [Design -> Nat]
    /\ MaxBudget \in Nat
    /\ FlowTolerance \in Nat \ {0}
    /\ CostTolerance \in Nat \ {0}
    /\ PopulationSize \in Nat \ {0}

----------------------------------------------------------------------------
(* Dominance *)

\* evaluateIndividual: a design over the budget is invalid.  The other way to
\* be invalid, an error of the solver, never happens: SolveSteady returns none.
Valid(d) == MaxBudget > 0 => Cost[d] <= MaxBudget

Near(x, y, tolerance) == x - y < tolerance /\ y - x < tolerance

SameFlow(a, b) == Near(Flow[a], Flow[b], FlowTolerance)
SameCost(a, b) == Near(Cost[a], Cost[b], CostTolerance)

Dominates(a, b) ==
    /\ Valid(a)
    /\ \/ ~Valid(b)
       \/ /\ Flow[a] < Flow[b] \/ SameFlow(a, b)
          /\ Cost[a] < Cost[b] \/ SameCost(a, b)
          /\ ~(SameFlow(a, b) /\ SameCost(a, b))

----------------------------------------------------------------------------
(* Fast non-dominated sort.  Dominance(c) is the relation that dominatedSet *)
(* holds by rows and dominationCount by columns.  An individual enters the  *)
(* next front at the moment the last of its dominators has been visited.    *)
(*                                                                          *)
(* A loop of the code is a recursive function here and below: its value at  *)
(* n is what the variables of the loop hold after n turns.  The body of the *)
(* loop is an operator of its own when it needs the last value twice.       *)

Dominance(c) ==
    {p \in (DOMAIN c) \X (DOMAIN c) : Dominates(c[p[1]], c[p[2]])}

\* A set of individuals of c in index order.
Ascending(c, S) ==
    LET upTo[n \in 0 .. Len(c)] ==
            IF n = 0 THEN <<>>
            ELSE upTo[n - 1] \o (IF n \in S THEN <<n>> ELSE <<>>)
    IN  upTo[Len(c)]

FirstFront(c) ==
    Ascending(c, {j \in DOMAIN c : \A i \in DOMAIN c : ~Dominates(c[i], c[j])})

\* A mutant of NextFront: released by the first dominator visited, as if
\* dominationCount were not counted down to zero.
NextFrontAtOnce(c, dom, front) ==
    Ascending(c, {j \in DOMAIN c : \E k \in DOMAIN front : <<front[k], j>> \in dom})

\* dom holds what is left of dominationCount: the pairs whose dominator is not
\* in an earlier front.  The members of front are visited in order, and each
\* releases, in index order, the individuals it is the last dominator of.
Released(c, dom, front, k) ==
    Ascending(c, {j \in DOMAIN c :
        /\ <<front[k], j>> \in dom
        /\ \A i \in (DOMAIN c) \ {front[m] : m \in 1 .. k} : <<i, j>> \notin dom})

NextFront(c, dom, front) ==
    LET visited[k \in 0 .. Len(front)] ==
            IF k = 0 THEN <<>> ELSE visited[k - 1] \o Released(c, dom, front, k)
    IN  visited[Len(front)]

\* The fronts so far, and the next one when it is not empty.
Peel(c, sort) ==
    LET front == Last(sort.fronts)
        next == NextFront(c, sort.dom, front)
    IN  IF next = <<>> THEN sort
        ELSE [dom |-> {p \in sort.dom : p[1] \notin ToSet(front)},
              fronts |-> Append(sort.fronts, next)]

\* No front is empty, so there are at most Len(c) of them.
FastNonDominatedSort(c) ==
    LET peeled[n \in 0 .. Len(c)] ==
            IF n = 0 THEN [dom |-> Dominance(c), fronts |-> <<FirstFront(c)>>]
            ELSE Peel(c, peeled[n - 1])
    IN  peeled[Len(c)].fronts

----------------------------------------------------------------------------
(* Crowding distance and the order it induces *)

\* The exchange sort the code writes out in both places: for i, for every
\* later j, swap when the element at j belongs before the element at i, as
\* the set of pairs says.  It is not stable, so the order of equals is part of
\* what it computes.
Exchange(t, i, j, before) ==
    IF <<t[j], t[i]>> \in before THEN [t EXCEPT ![i] = t[j], ![j] = t[i]] ELSE t

\* A mutant of ExchangeWithLater that stops before the last element.
ExchangeButLast(t, i, before) ==
    LET upTo[m \in 0 .. Len(t) - i] ==
            IF m = 0 THEN t ELSE Exchange(upTo[m - 1], i, i + m, before)
    IN  upTo[Max({Len(t) - i - 1, 0})]

ExchangeWithLater(t, i, before) ==
    LET upTo[m \in 0 .. Len(t) - i] ==
            IF m = 0 THEN t ELSE Exchange(upTo[m - 1], i, i + m, before)
    IN  upTo[Len(t) - i]

ExchangeSort(s, before) ==
    LET sorted[i \in 0 .. Len(s)] ==
            IF i = 0 THEN s ELSE ExchangeWithLater(sorted[i - 1], i, before)
    IN  sorted[Len(s)]

\* The crowding distance of individual i, given its front in flow order and in
\* cost order.  Distances are multiplied by the ranges of both objectives, which
\* turns the code's sum of quotients into an integer and keeps the order within
\* the front.  The distance 1e18 of a boundary absorbs what is added to it.
CrowdingDistance(c, byFlow, byCost, i) ==
    LET n == Len(byFlow)
        range(x) == IF x > 0 THEN x ELSE 1
        flow(k) == Flow[c[byFlow[k]]]
        cost(k) == Cost[c[byCost[k]]]
        flowRange == range(flow(n) - flow(1))
        costRange == range(cost(n) - cost(1))
        f == CHOOSE k \in 1 .. n : byFlow[k] = i
        g == CHOOSE k \in 1 .. n : byCost[k] = i
    IN  IF n <= 2 \/ f \in {1, n} \/ g \in {1, n}
        THEN 4 * flowRange * costRange
        ELSE (flow(f + 1) - flow(f - 1)) * costRange
             + (cost(g + 1) - cost(g - 1)) * flowRange

\* nsga2Compare(x, y) < 0 for two members of one front: their ranks are equal,
\* and what decides is validity and then the crowding distance.
MostCrowdedLast(c, front) ==
    LET pairs == ToSet(front) \X ToSet(front)
        lessFlow == {p \in pairs : Flow[c[p[1]]] < Flow[c[p[2]]]}
        lessCost == {p \in pairs : Cost[c[p[1]]] < Cost[c[p[2]]]}
        byFlow == ExchangeSort(front, lessFlow)
        byCost == ExchangeSort(front, lessCost)
        distance(i) == CrowdingDistance(c, byFlow, byCost, i)
    IN  ExchangeSort(front, {p \in pairs :
            /\ Valid(c[p[1]])
            /\ Valid(c[p[2]]) => distance(p[1]) > distance(p[2])})

----------------------------------------------------------------------------
(* Environmental selection, the loop over the fronts of the combined        *)
(* population.  A front that fits is appended by slicing the combined       *)
(* population from the front's first index to its last one:                 *)
(* combined[front[0] : front[len(front)-1]+1].  That slice also holds the   *)
(* individuals in between; it is empty when the last index is the one       *)
(* before the first, and Go panics when it is smaller still.                *)

Filling == "filling"
Full == "full"
Panic == "panic"

Individuals(c, indices) == [k \in DOMAIN indices |-> c[indices[k]]]

Fits(kept, front) == Len(kept) + Len(front) <= PopulationSize

\* A mutant of Slice, without the + 1 of the upper bound.
SliceShort(c, front) == SubSeq(c, front[1], Last(front) - 1)

Slice(c, front) == SubSeq(c, front[1], Last(front))

TakeFront(c, taken, front) ==
    LET sorted == SubSeq(MostCrowdedLast(c, front), 1, PopulationSize - Len(taken.kept))
        slice == taken.kept \o Slice(c, front)
    IN  IF taken.state # Filling THEN taken
        ELSE IF Fits(taken.kept, front)
        THEN [kept |-> slice,
              state |-> CASE front[1] > Last(front) + 1 -> Panic
                          [] Len(slice) >= PopulationSize -> Full
                          [] OTHER -> Filling]
        ELSE [kept |-> taken.kept \o Individuals(c, sorted), state |-> Full]

\* What has been taken after each front.
TakenFrom(c, fronts) ==
    LET taken[n \in 0 .. Len(fronts)] ==
            IF n = 0 THEN [kept |-> <<>>, state |-> Filling]
            ELSE TakeFront(c, taken[n - 1], fronts[n])
    IN  taken

SelectFronts(c) ==
    LET fronts == FastNonDominatedSort(c) IN TakenFrom(c, fronts)[Len(fronts)]

\* A mutant of Truncate: the fronts were counted when they were taken.
TruncateNever(kept) == kept

\* The final cut to PopulationSize, which a wide slice makes necessary.
Truncate(kept) == SubSeq(kept, 1, Min({PopulationSize, Len(kept)}))

\* extractParetoFront: the valid members of the first front, in index order.
ExtractParetoFront(c) ==
    Individuals(c, Ascending(c, {j \in ToSet(FirstFront(c)) : Valid(c[j])}))
=============================================================================
