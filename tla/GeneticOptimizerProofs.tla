----------------------- MODULE GeneticOptimizerProofs -----------------------
(***************************************************************************)
(* Theorems about a call of the blanket optimiser, for any designs, flows, *)
(* costs, budget, tolerances and population size, and for any founders and *)
(* offspring: its state stays well-typed, the sort peels the layers of the *)
(* population, a cut spares the ends of a front, no generation loses to    *)
(* the one before, and what the call returns agrees.  NSGA2Proofs has the  *)
(* lemmas about the sorts and the selection.                               *)
(***************************************************************************)
EXTENDS GeneticOptimizer, NSGA2Proofs

\* What a call has written down is what it has: the front that of the population,
\* the last entry of the curve the best flow on it.
Recorded ==
    /\ paretoFront = ExtractParetoFront(population)
    /\ curve # <<>> => Last(curve) = BestFlow(paretoFront)
    /\ pc = "done" => curve # <<>> /\ best = BestOverall(population)

IInv == TypeOK /\ Recorded

----------------------------------------------------------------------------
(* The results of one population *)

LEMMA LeastOf ==
  ASSUME NEW S \in SUBSET Nat, S # {}
  PROVE  Min(S) \in S /\ \A x \in S : Min(S) <= x
<1>1. PICK m \in S : \A k \in S : ~ (<<k, m>> \in OpToRel(<, Nat))
  BY NatLessThanWellFounded, WFMin
<1>2. \A x \in S : m <= x
  <2> TAKE x \in S
  <2>1. ~ (x < m)
    BY <1>1 DEF OpToRel
  <2> QED BY <2>1
<1> QED BY <1>2 DEF Min

LEMMA TruncateKeepsTheFirst ==
  ASSUME NEW kept \in Seq(Design), kept # <<>>
  PROVE  /\ Truncate(kept) \in Seq(Design)
         /\ Len(Truncate(kept)) \in 1 .. PopulationSize
         /\ Truncate(kept)[1] = kept[1]
<1> DEFINE n == Min({PopulationSize, Len(kept)})
<1>1. PopulationSize \in Nat \ {0} /\ Len(kept) \in Nat \ {0}
  BY NSGA2Assumption, EmptySeq
<1>2. n \in {PopulationSize, Len(kept)} /\ n <= PopulationSize /\ n <= Len(kept)
  <2>1. {PopulationSize, Len(kept)} \in SUBSET Nat
    BY <1>1
  <2> QED BY <2>1, LeastOf
<1> HIDE DEF n
<1>3. n \in 1 .. PopulationSize /\ n \in 1 .. Len(kept)
  BY <1>1, <1>2
<1>4. \A i \in 1 .. n : kept[i] \in Design
  BY <1>1, <1>3, ElementOfSeq
<1>5. /\ SubSeq(kept, 1, n) \in Seq(Design)
      /\ Len(SubSeq(kept, 1, n)) = IF 1 <= n THEN n - 1 + 1 ELSE 0
      /\ \A i \in 1 .. n - 1 + 1 : SubSeq(kept, 1, n)[i] = kept[1 + i - 1]
  BY <1>3, <1>4, SubSeqProperties
<1>6. 1 \in 1 .. n - 1 + 1 /\ 1 + 1 - 1 = 1
  BY <1>3
<1>7. SubSeq(kept, 1, n)[1] = kept[1 + 1 - 1]
  BY <1>5, <1>6
<1>8. Len(SubSeq(kept, 1, n)) = n
  BY <1>3, <1>5
<1>9. Truncate(kept) = SubSeq(kept, 1, n)
  BY DEF Truncate, n
<1> QED BY <1>3, <1>5, <1>6, <1>7, <1>8, <1>9

\* extractParetoFront returns the valid undominated individuals.
LEMMA ParetoFrontIs ==
  ASSUME NEW c \in Seq(Design), c # <<>>
  PROVE  LET front == ExtractParetoFront(c) IN
         /\ front \in Seq(Design)
         /\ ToSet(front) = {c[j] : j \in {i \in Undominated(c, DOMAIN c) : Valid(c[i])}}
         /\ ToSet(front) \subseteq ValidIn(c)
         /\ ValidIn(c) = {} => front = <<>>
<1> DEFINE S == {j \in ToSet(FirstFront(c)) : Valid(c[j])}
           list == Ascending(c, S)
           front == ExtractParetoFront(c)
<1>1. ToSet(FirstFront(c)) = Undominated(c, DOMAIN c)
  BY FirstLayer DEF Lists
<1>2. S \in SUBSET (DOMAIN c)
  BY <1>1 DEF Undominated
<1>3. Lists(list, S)
  BY <1>2, AscendingLists
<1>4. list \in Seq(DOMAIN c) /\ ToSet(list) = S
  BY <1>2, <1>3, SeqMonotonic DEF Lists
<1>5. front = Individuals(c, list)
  BY DEF ExtractParetoFront
<1>6. /\ front \in Seq(Design) /\ Len(front) = Len(list)
      /\ ToSet(front) = {c[j] : j \in S}
  BY <1>4, <1>5, IndividualsTyped
<1>7. {c[j] : j \in S} \subseteq ValidIn(c)
  BY <1>2 DEF ValidIn, ToSet
<1>8. ASSUME ValidIn(c) = {} PROVE front = <<>>
  <2>1. S = {}
    BY <1>7, <1>8
  <2>2. list = <<>>
    BY <1>3, <2>1, EmptyList
  <2>3. Len(front) = 0
    BY <1>6, <2>2, EmptySeq
  <2> HIDE DEF front
  <2> QED BY <1>6, <2>3, EmptySeq
<1> QED BY <1>1, <1>6, <1>7, <1>8

LEMMA BestFlowIs ==
  ASSUME NEW front, ToSet(front) \subseteq Design
  PROVE  /\ BestFlow(front) \in FlowsOf(ToSet(front)) \union {NoFlow}
         /\ \A d \in ToSet(front) : BestFlow(front) <= Flow[d]
<1> DEFINE S == FlowsOf(ToSet(front)) \union {NoFlow}
<1>1. S \in SUBSET Nat /\ S # {}
  BY NSGA2Assumption, GeneticOptimizerAssumption DEF FlowsOf
<1>2. Min(S) \in S /\ \A x \in S : Min(S) <= x
  <2> HIDE DEF S
  <2> QED BY <1>1, LeastOf
<1>3. \A d \in ToSet(front) : Flow[d] \in S
  BY DEF FlowsOf
<1> QED BY <1>2, <1>3 DEF BestFlow

\* The recommended blanket is a valid individual of the lowest flow.
LEMMA BestOverallIs ==
  ASSUME NEW c \in Seq(Design)
  PROVE  IF ValidIn(c) = {} THEN BestOverall(c) = NoDesign
         ELSE /\ BestOverall(c) \in ValidIn(c)
              /\ \A d \in ValidIn(c) : Flow[BestOverall(c)] <= Flow[d]
<1>1. CASE ValidIn(c) = {}
  BY <1>1 DEF BestOverall
<1>2. CASE ValidIn(c) # {}
  <2> DEFINE lowest(k) == /\ Valid(c[k])
                          /\ \A d \in ValidIn(c) : Flow[c[k]] <= Flow[d]
             K == {k \in DOMAIN c : lowest(k)}
             flows == {Flow[d] : d \in ValidIn(c)}
  <2>1. DOMAIN c = 1 .. Len(c) /\ ValidIn(c) \subseteq Design
    BY LenProperties, ToSetOfSeq DEF ValidIn
  <2>2. flows \in SUBSET Nat /\ flows # {}
    BY <1>2, <2>1, NSGA2Assumption
  <2>3. PICK b \in ValidIn(c) : \A d \in ValidIn(c) : Flow[b] <= Flow[d]
    <3>1. Min(flows) \in flows /\ \A x \in flows : Min(flows) <= x
      <4> HIDE DEF flows
      <4> QED BY <2>2, LeastOf
    <3>2. PICK b \in ValidIn(c) : Flow[b] = Min(flows)
      BY <3>1
    <3> QED BY <3>1, <3>2
  <2>4. PICK k \in DOMAIN c : b = c[k]
    BY DEF ValidIn, ToSet
  <2>5. k \in K
    BY <2>3, <2>4 DEF ValidIn
  <2>6. K \in SUBSET Nat
    BY <2>1
  <2>7. Min(K) \in K
    <3> HIDE DEF K
    <3> QED BY <2>5, <2>6, LeastOf
  <2>8. BestOverall(c) = c[Min(K)]
    BY <1>2 DEF BestOverall
  <2> HIDE DEF K
  <2>9. c[Min(K)] \in ValidIn(c) /\ \A d \in ValidIn(c) : Flow[c[Min(K)]] <= Flow[d]
    BY <2>7 DEF K, ValidIn, ToSet
  <2> QED BY <1>2, <2>8, <2>9
<1> QED BY <1>1, <1>2

----------------------------------------------------------------------------
(* The inductive invariant *)

LEMMA CombinedTyped ==
  ASSUME TypeOK, NEW offspring \in Offspring
  PROVE  /\ population \o offspring \in Seq(Design)
         /\ population \o offspring # <<>>
         /\ ToSet(population) \subseteq ToSet(population \o offspring)
<1>1. population \in Seq(Design) /\ Len(population) \in Nat \ {0}
  BY NSGA2Assumption DEF TypeOK
<1>2. offspring \in Seq(Design) /\ Len(offspring) \in Nat
  BY NSGA2Assumption, GeneticOptimizerAssumption, FunctionIsSeq
<1>3. /\ population \o offspring \in Seq(Design)
      /\ Len(population \o offspring) = Len(population) + Len(offspring)
  BY <1>1, <1>2, ConcatProperties
<1>4. Len(population \o offspring) # Len(<<>>)
  BY <1>1, <1>2, <1>3, EmptySeq
<1> QED BY <1>1, <1>2, <1>3, <1>4, ToSetOfConcat

\* What a population that has just been replaced, or is the first, satisfies.
LEMMA PopulationRecorded ==
  ASSUME NEW c \in Seq(Design), Len(c) \in 1 .. PopulationSize
  PROVE  LET front == ExtractParetoFront(c) IN
         /\ c # <<>>
         /\ ToSet(front) \subseteq ToSet(c)
         /\ BestFlow(front) \in {Flow[d] : d \in Design} \union {NoFlow}
<1>1. c # <<>>
  BY EmptySeq
<1> DEFINE front == ExtractParetoFront(c)
<1>2. front \in Seq(Design) /\ ToSet(front) \subseteq ValidIn(c)
  BY <1>1, ParetoFrontIs
<1> HIDE DEF front
<1>3. ToSet(front) \subseteq Design
  BY <1>2, ToSetOfSeq
<1>4. BestFlow(front) \in {Flow[d] : d \in Design} \union {NoFlow}
  BY <1>3, BestFlowIs DEF FlowsOf
<1> QED BY <1>1, <1>2, <1>4 DEF front, ValidIn

LEMMA CallInit == Init => IInv
<1> SUFFICES ASSUME Init PROVE IInv
  OBVIOUS
<1>1. population \in Seq(Design) /\ Len(population) = PopulationSize
  BY NSGA2Assumption, GeneticOptimizerAssumption, FunctionIsSeq DEF Init
<1>2. Len(population) \in 1 .. PopulationSize
  BY <1>1, NSGA2Assumption
<1>3. ToSet(paretoFront) \subseteq ToSet(population)
  BY <1>1, <1>2, PopulationRecorded DEF Init
<1>4. curve = <<>> /\ Len(curve) <= MaxGenerations
  BY GeneticOptimizerAssumption, EmptySeq DEF Init
<1>5. curve \in Seq({Flow[d] : d \in Design} \union {NoFlow})
  BY <1>4
<1>6. TypeOK
  BY <1>1, <1>2, <1>3, <1>4, <1>5 DEF TypeOK, Init
<1> QED BY <1>4, <1>6 DEF IInv, Recorded, Init

LEMMA CallStep == IInv /\ [Next]_vars => IInv'
<1> SUFFICES ASSUME IInv, [Next]_vars PROVE IInv'
  OBVIOUS
<1>1. TypeOK /\ Recorded
  BY DEF IInv
<1> DEFINE Entry == {Flow[d] : d \in Design} \union {NoFlow}
<1>2. /\ curve \in Seq(Entry) /\ Len(curve) \in Nat
      /\ population \in Seq(Design) /\ Len(population) \in 1 .. PopulationSize
  BY <1>1, LenProperties DEF TypeOK
<1> HIDE DEF Entry
<1>3. ASSUME NEW offspring \in Offspring,
             Evolve(SelectFronts(population \o offspring))
      PROVE  IInv'
  <2> DEFINE selected == SelectFronts(population \o offspring)
             flow == BestFlow(paretoFront')
  <2>1. selected.kept \in Seq(Design) /\ selected.kept # <<>>
    BY <1>1, CombinedTyped, SelectionKeepsTheUnbeaten DEF Selection
  <2>2. population' = Truncate(selected.kept)
    BY <1>3 DEF Evolve
  <2>3. population' \in Seq(Design) /\ Len(population') \in 1 .. PopulationSize
    BY <2>1, <2>2, TruncateKeepsTheFirst
  <2>4. paretoFront' = ExtractParetoFront(population')
    BY <1>3 DEF Evolve
  <2>5. ToSet(paretoFront') \subseteq ToSet(population') /\ flow \in Entry
    BY <2>3, <2>4, PopulationRecorded DEF Entry
  <2>6. curve' = Append(curve, flow) /\ UNCHANGED <<pc, best>> /\ pc = "running"
    BY <1>3 DEF Evolve
  <2> HIDE DEF flow, selected
  <2>7. /\ curve' \in Seq(Entry) /\ Len(curve') = Len(curve) + 1
        /\ curve'[Len(curve) + 1] = flow
    BY <1>2, <2>5, <2>6, AppendProperties
  <2>8. Len(curve') <= MaxGenerations
    <3>1. Len(curve) # MaxGenerations /\ Len(curve) <= MaxGenerations
      BY <1>1, <1>3 DEF Evolve, Finished, TypeOK
    <3> QED BY <1>2, <2>7, <3>1, GeneticOptimizerAssumption
  <2>9. Last(curve') = flow
    BY <1>2, <2>7 DEF Last
  <2>10. TypeOK'
    BY <1>1, <2>3, <2>5, <2>6, <2>7, <2>8 DEF TypeOK, Entry
  <2>11. Recorded'
    BY <2>4, <2>6, <2>9 DEF Recorded, flow
  <2> QED BY <2>10, <2>11 DEF IInv
<1>4. ASSUME NEW offspring \in Offspring,
             SliceOutOfRange(SelectFronts(population \o offspring))
      PROVE  IInv'
  BY <1>1, <1>4 DEF SliceOutOfRange, IInv, TypeOK, Recorded
<1>5. ASSUME Finish PROVE IInv'
  <2>1. curve # <<>>
    <3>1. Len(curve) # 0
      BY <1>2, <1>5, GeneticOptimizerAssumption DEF Finish, Finished, Stalled
    <3> QED BY <3>1, EmptySeq
  <2>2. BestOverall(population) \in Design \union {NoDesign}
    <3>1. ValidIn(population) \subseteq Design
      BY <1>2, ToSetOfSeq DEF ValidIn
    <3> QED BY <1>2, <3>1, BestOverallIs
  <2>3. paretoFront' = paretoFront /\ UNCHANGED <<population, curve>>
    BY <1>1, <1>5 DEF Finish, Recorded
  <2>4. pc' = "done" /\ best' = BestOverall(population)
    BY <1>5 DEF Finish
  <2>5. TypeOK'
    BY <1>1, <2>2, <2>3, <2>4 DEF TypeOK
  <2>6. Recorded'
    BY <1>1, <2>1, <2>3, <2>4 DEF Recorded
  <2> QED BY <2>5, <2>6 DEF IInv
<1>6. CASE UNCHANGED vars
  BY <1>1, <1>6 DEF vars, IInv, TypeOK, Recorded, ExtractParetoFront
<1> QED BY <1>3, <1>4, <1>5, <1>6 DEF Next

LEMMA CallInvariant == Spec => []IInv
BY CallInit, CallStep, PTL DEF Spec

----------------------------------------------------------------------------
(* The order of a cut *)

\* One of the first four is lowest, and none but extremes come before it.
LeadsWithLowest(value, c, order) ==
  \E k \in DOMAIN order :
    /\ k <= 4
    /\ Lowest(value, c, ToSet(order), order[k])
    /\ \A j \in 1 .. k - 1 : Extreme(c, ToSet(order), order[j])

\* A boundary is an extreme member of its front, and the first boundary in the
\* order of an objective is a lowest one.
LEMMA BoundariesAreExtreme ==
  ASSUME NEW c, NEW front, AFront(c, front)
  PROVE  /\ Lowest(Flow, c, ToSet(front), By(Flow, c, front)[1])
         /\ Lowest(Cost, c, ToSet(front), By(Cost, c, front)[1])
         /\ \A i \in Ends(c, front) : i \in ToSet(front) /\ Extreme(c, ToSet(front), i)
<1> DEFINE S == ToSet(front)
           n == Len(front)
<1>1. ASSUME NEW value \in [Design -> Nat]
      PROVE  LET s == By(value, c, front)
             IN  /\ s[1] \in S /\ Lowest(value, c, S, s[1])
                 /\ s[n] \in S /\ \A j \in S : value[c[j]] <= value[c[s[n]]]
  <2> DEFINE s == By(value, c, front)
  <2>1. /\ n \in Nat \ {0} /\ s \in [1 .. n -> S] /\ S = {s[k] : k \in 1 .. n}
        /\ \A a, b \in 1 .. n : a <= b => value[c[s[a]]] <= value[c[s[b]]]
    BY SMTT(30), ByValue
  <2> HIDE DEF s, n, S
  <2>2. 1 \in 1 .. n /\ n \in 1 .. n /\ \A k \in 1 .. n : 1 <= k /\ k <= n
    BY <2>1
  <2>3. \A k \in 1 .. n : /\ value[c[s[1]]] <= value[c[s[k]]]
                          /\ value[c[s[k]]] <= value[c[s[n]]]
    BY <2>1, <2>2
  <2> QED BY <2>1, <2>2, <2>3 DEF Lowest, s
<1>2. Flow \in [Design -> Nat] /\ Cost \in [Design -> Nat]
  BY NSGA2Assumption
<1> HIDE DEF S, n
<1>3. /\ By(Flow, c, front)[1] \in S /\ Lowest(Flow, c, S, By(Flow, c, front)[1])
      /\ By(Flow, c, front)[n] \in S
      /\ \A j \in S : Flow[c[j]] <= Flow[c[By(Flow, c, front)[n]]]
  BY <1>1, <1>2
<1>4. /\ By(Cost, c, front)[1] \in S /\ Lowest(Cost, c, S, By(Cost, c, front)[1])
      /\ By(Cost, c, front)[n] \in S
      /\ \A j \in S : Cost[c[j]] <= Cost[c[By(Cost, c, front)[n]]]
  BY <1>1, <1>2
<1>5. ASSUME NEW i \in Ends(c, front) PROVE i \in S /\ Extreme(c, S, i)
  <2>1. \/ i = By(Flow, c, front)[1] \/ i = By(Flow, c, front)[n]
        \/ i = By(Cost, c, front)[1] \/ i = By(Cost, c, front)[n]
    BY DEF Ends, n
  <2> QED BY <1>3, <1>4, <2>1 DEF Extreme
<1> QED BY <1>3, <1>4, <1>5 DEF S

LEMMA FrontLeadsWithEnds ==
  ASSUME NEW c, NEW front, AFront(c, front), \A i \in ToSet(front) : Valid(c[i]),
         NEW value \in {Flow, Cost}
  PROVE  LeadsWithLowest(value, c, MostCrowdedLast(c, front))
<1> DEFINE S == ToSet(front)
           n == Len(front)
           t == MostCrowdedLast(c, front)
           least == By(value, c, front)[1]
<1>1. /\ Lowest(value, c, S, least) /\ least \in Ends(c, front)
      /\ \A i \in Ends(c, front) : i \in S /\ Extreme(c, S, i)
  <2>1. least \in Ends(c, front)
    BY DEF Ends
  <2> QED BY <2>1, BoundariesAreExtreme
<1>2. /\ DOMAIN t = 1 .. n /\ ToSet(t) = S /\ S = {t[k] : k \in 1 .. n}
      /\ \A k \in 1 .. n : t[k] \in Ends(c, front) =>
             k <= 4 /\ \A j \in 1 .. k : t[j] \in Ends(c, front)
  BY BoundariesComeFirst
<1> HIDE DEF S, n, t, least
<1>3. PICK k \in 1 .. n : t[k] = least
  BY <1>1, <1>2
<1>4. k <= 4 /\ \A j \in 1 .. k : t[j] \in Ends(c, front)
  BY <1>1, <1>2, <1>3
<1>5. ASSUME NEW j \in 1 .. k - 1 PROVE Extreme(c, S, t[j])
  <2>1. j \in 1 .. k
    OBVIOUS
  <2> QED BY <1>1, <1>4, <2>1
<1>6. LeadsWithLowest(value, c, t)
  BY <1>1, <1>2, <1>3, <1>4, <1>5 DEF LeadsWithLowest
<1> QED BY <1>6 DEF t

\* With four places both ends are spared.  With fewer, the end that is not has only
\* extremes before it.
LEMMA CutSparesEnds ==
  ASSUME NEW c, NEW front, AFront(c, front), \A i \in ToSet(front) : Valid(c[i]),
         NEW room \in Int, room < Len(front)
  PROVE  SparesEnds(c, front, room)
<1> DEFINE S == ToSet(front)
           t == MostCrowdedLast(c, front)
           spared == {t[k] : k \in 1 .. room}
           sparesLowest(value) == \E i \in spared : Lowest(value, c, S, i)
<1>1. ToSet(t) = S /\ DOMAIN t = 1 .. Len(front) /\ Len(front) \in Nat
  BY BoundariesComeFirst, LenProperties DEF AFront
<1>2. LeadsWithLowest(Flow, c, t) /\ LeadsWithLowest(Cost, c, t)
  BY FrontLeadsWithEnds
<1> HIDE DEF S, t
<1>3. ASSUME NEW value, LeadsWithLowest(value, c, t)
      PROVE  sparesLowest(value) \/ (room < 4 /\ \A i \in spared : Extreme(c, S, i))
  <2>1. PICK k \in 1 .. Len(front) :
          /\ k <= 4 /\ Lowest(value, c, S, t[k])
          /\ \A j \in 1 .. k - 1 : Extreme(c, S, t[j])
    BY <1>1, <1>3 DEF LeadsWithLowest
  <2>2. CASE k <= room
    <3>1. k \in 1 .. room
      BY <2>2
    <3>2. t[k] \in spared
      BY <3>1
    <3> QED BY <2>1, <3>2
  <2>3. CASE room < k
    <3>1. room < 4
      BY <2>1, <2>3
    <3>2. \A j \in 1 .. room : j \in 1 .. k - 1
      BY <2>3
    <3>3. \A j \in 1 .. room : Extreme(c, S, t[j])
      BY <2>1, <3>2
    <3> QED BY <3>1, <3>3
  <2> QED BY <1>1, <2>2, <2>3
<1>4. \/ sparesLowest(Flow) /\ sparesLowest(Cost)
      \/ room < 4 /\ \A i \in spared : Extreme(c, S, i)
  BY <1>2, <1>3
<1> QED BY <1>4 DEF SparesEnds, S, t

----------------------------------------------------------------------------
(* Theorems *)

\* A call keeps its state well-typed.  In particular the population never becomes
\* empty, although a later front may add nothing to it, and never larger than
\* PopulationSize, although a slice may add more than it holds.
THEOREM CallTypeCorrect == Spec => []TypeOK
<1>1. IInv => TypeOK
  BY DEF IInv
<1> QED BY <1>1, CallInvariant, PTL

\* The sort peels the layers of every population a call works on: dominators are
\* counted down front by front to the definition of a non-dominated front, nobody
\* is ranked twice and nobody is left unranked.
THEOREM SortIsLayered == Spec => []FrontsAreLayers
<1>1. ASSUME IInv PROVE FrontsAreLayers
  <2> DEFINE c == population
  <2>1. c \in Seq(Design) /\ Len(c) \in 1 .. PopulationSize
    BY <1>1 DEF IInv, TypeOK
  <2>2. c # <<>>
    BY <2>1, EmptySeq
  <2> HIDE DEF c
  <2>3. PICK sort \in Sorts(c) :
          /\ FastNonDominatedSort(c) = sort.fronts
          /\ Rest(c, sort.fronts, Len(sort.fronts) + 1) = {}
    BY <2>1, <2>2, SortPeelsLayers
  <2> DEFINE fronts == sort.fronts
  <2>4. DOMAIN fronts = 1 .. Len(fronts)
    BY LenProperties DEF Sorts, SortRecord
  <2>5. ASSUME NEW r \in DOMAIN fronts
        PROVE  /\ ToSet(fronts[r]) = Undominated(c, Rest(c, fronts, r))
               /\ Len(fronts[r]) = Cardinality(ToSet(fronts[r]))
    <3> DEFINE s == fronts[r]
    <3>1. Lists(s, Undominated(c, Rest(c, fronts, r)))
      BY <2>4 DEF Sorts, Layered
    <3> HIDE DEF s
    <3>2. /\ s \in Seq(ToSet(s)) /\ IsInjective(s) /\ Len(s) \in Nat
          /\ s \in [1 .. Len(s) -> ToSet(s)]
          /\ ToSet(s) = {s[k] : k \in 1 .. Len(s)}
      BY <3>1, LenProperties, ToSetOfSeq DEF Lists
    <3>3. s \in Bijection(1 .. Len(s), ToSet(s))
      BY <3>2 DEF Bijection, Injection, Surjection, IsInjective
    <3>4. IsFiniteSet(1 .. Len(s)) /\ Cardinality(1 .. Len(s)) = Len(s)
      <4>1. /\ IsFiniteSet(1 .. Len(s))
            /\ Cardinality(1 .. Len(s)) = IF 1 > Len(s) THEN 0 ELSE Len(s) - 1 + 1
        <5> DEFINE n == Len(s)
        <5>1. n \in Int /\ 1 \in Int
          BY <3>2
        <5> HIDE DEF n
        <5>2. IsFiniteSet(1 .. n) /\ Cardinality(1 .. n) = IF 1 > n THEN 0 ELSE n - 1 + 1
          BY <5>1, FS_Interval
        <5> QED BY <5>2 DEF n
      <4> QED BY <3>2, <4>1
    <3>5. Cardinality(ToSet(s)) = Len(s)
      BY <3>3, <3>4, FS_Bijection DEF ExistsBijection
    <3> QED BY <3>1, <3>5 DEF Lists, s
  <2> HIDE DEF fronts
  <2>6. FastNonDominatedSort(c) = fronts /\ Rest(c, fronts, Len(fronts) + 1) = {}
    BY <2>3 DEF fronts
  <2> QED BY <2>5, <2>6 DEF FrontsAreLayers, Undominated, Rest, c
<1> QED BY <1>1, CallInvariant, PTL

\* Wherever the loop over the fronts has to cut one, whatever parents and offspring
\* have come together: the sorts by flow and by cost find the boundaries, no other
\* distance reaches that of a boundary, there are four boundaries at most, and the
\* last sort puts them first, so that a cut takes an end only when it leaves nothing
\* but extremes.  It is no matter that none of the sorts is stable.
THEOREM CutsSpareTheEnds == Spec => []CutsKeepEnds
<1>1. ASSUME IInv PROVE CutsKeepEnds
  <2> SUFFICES ASSUME NEW offspring \in Offspring
      PROVE  LET combined == population \o offspring
                 fronts == FastNonDominatedSort(combined)
                 taken == TakenFrom(combined, fronts)
                 cut(n) == taken[n - 1].state = Filling /\ ~Fits(taken[n - 1].kept, fronts[n])
                 within(n) == \E i \in ToSet(fronts[n]) : Valid(combined[i])
             IN  \A n \in DOMAIN fronts : cut(n) /\ within(n) =>
                     SparesEnds(combined, fronts[n], PopulationSize - Len(taken[n - 1].kept))
    BY DEF CutsKeepEnds
  <2> DEFINE c == population \o offspring
             fronts == FastNonDominatedSort(c)
             taken == TakenFrom(c, fronts)
  <2> SUFFICES ASSUME NEW r \in DOMAIN fronts, ~Fits(taken[r - 1].kept, fronts[r]),
                      NEW i \in ToSet(fronts[r]), Valid(c[i])
               PROVE  SparesEnds(c, fronts[r], PopulationSize - Len(taken[r - 1].kept))
    OBVIOUS
  <2>1. c \in Seq(Design) /\ c # <<>>
    BY <1>1, CombinedTyped DEF IInv
  <2>2. \A n \in 0 .. Len(fronts) : taken[n] \in Selection
    BY <2>1, SelectionTurns DEF Taking
  <2> HIDE DEF c, taken
  <2>3. PICK sort \in Sorts(c) : fronts = sort.fronts
    BY <2>1, SortPeelsLayers
  <2> HIDE DEF fronts
  <2>4. fronts \in Seq(Seq(DOMAIN c)) /\ r \in 1 .. Len(fronts) /\ Len(fronts) \in Nat
    BY <2>3, LenProperties DEF Sorts, SortRecord
  <2> DEFINE front == fronts[r]
             x == taken[r - 1]
  <2>5. Len(x.kept) \in Nat
    <3>1. r - 1 \in 0 .. Len(fronts)
      BY <2>4
    <3>2. x \in Selection
      BY <2>2, <3>1
    <3> QED BY <3>2, LenProperties DEF Selection
  <2>6. Lists(front, Undominated(c, Rest(c, fronts, r))) /\ front # <<>>
    BY <2>3, <2>4 DEF Sorts, Layered
  <2>7. front \in Seq(DOMAIN c) /\ Len(front) \in Nat
    BY <2>4, ElementOfSeq, LenProperties
  <2>8. AFront(c, front)
    BY <2>1, <2>6, <2>7 DEF AFront, Lists
  <2>9. ASSUME NEW j \in ToSet(front) PROVE Valid(c[j])
    <3>1. i \in Undominated(c, Rest(c, fronts, r)) /\ j \in Undominated(c, Rest(c, fronts, r))
      BY <2>6, <2>9 DEF Lists
    <3>2. ~Dominates(c[i], c[j])
      BY <3>1 DEF Undominated
    <3> QED BY <3>2 DEF Dominates
  <2> DEFINE room == PopulationSize - Len(x.kept)
  <2>10. room \in Int /\ room < Len(front)
    BY <2>5, <2>7, NSGA2Assumption DEF Fits
  <2> HIDE DEF room, front, x
  <2>11. SparesEnds(c, front, room)
    BY <2>8, <2>9, <2>10, CutSparesEnds
  <2> QED BY <2>11 DEF front, room, x
<1> QED BY <1>1, CallInvariant, PTL

\* No generation is replaced by one that it beats, whatever the selection slices,
\* drops and truncates: the first survivor is dominated by nobody before it.
THEOREM NoGenerationLoses == Spec => SomeoneUnbeatenSurvives
<1> DEFINE Kept == \E d \in ToSet(population') :
                       \A e \in ToSet(population) : ~Dominates(e, d)
<1>1. IInv /\ [Next]_vars => [Kept]_population
  <2> SUFFICES ASSUME IInv, Next, population' # population PROVE Kept
    BY DEF vars
  <2>1. PICK offspring \in Offspring : Evolve(SelectFronts(population \o offspring))
    BY DEF Next, SliceOutOfRange, Finish
  <2> DEFINE c == population \o offspring
             kept == SelectFronts(c).kept
  <2>2. TypeOK
    BY DEF IInv
  <2>3. c \in Seq(Design) /\ c # <<>> /\ ToSet(population) \subseteq ToSet(c)
    BY <2>2, CombinedTyped
  <2>4. population' = Truncate(kept)
    BY <2>1 DEF Evolve
  <2> HIDE DEF c
  <2>5. /\ kept \in Seq(Design) /\ kept # <<>>
        /\ \E j \in DOMAIN c : kept[1] = c[j] /\ \A i \in DOMAIN c : ~Dominates(c[i], c[j])
    BY <2>3, SelectionKeepsTheUnbeaten DEF Selection
  <2> HIDE DEF kept
  <2>6. /\ population' \in Seq(Design) /\ Len(population') \in 1 .. PopulationSize
        /\ population'[1] = kept[1]
    BY <2>4, <2>5, TruncateKeepsTheFirst
  <2>7. kept[1] \in ToSet(population')
    <3>1. 1 \in 1 .. Len(population')
      BY <2>6, NSGA2Assumption
    <3> QED BY <2>6, <3>1, ToSetOfSeq
  <2>8. \A e \in ToSet(c) : ~Dominates(e, kept[1])
    BY <2>5 DEF ToSet
  <2> QED BY <2>3, <2>7, <2>8
<1> QED BY <1>1, CallInvariant, PTL DEF Spec, SomeoneUnbeatenSurvives

\* Designs whose flows differ are told apart by the tolerance of the comparison.
FlowsToldApart == \A d, e \in Design : SameFlow(d, e) => Flow[d] = Flow[e]

\* Then the cheapest of the valid individuals of the lowest flow is undominated.
LEMMA CheapestIsUndominated ==
  ASSUME FlowsToldApart, NEW c \in Seq(Design), ValidIn(c) # {}
  PROVE  \E j \in Undominated(c, DOMAIN c) :
             Valid(c[j]) /\ Flow[c[j]] = Flow[BestOverall(c)]
<1> DEFINE m == Flow[BestOverall(c)]
           V == {d \in ValidIn(c) : Flow[d] = m}
           costs == {Cost[d] : d \in V}
<1>1. BestOverall(c) \in ValidIn(c) /\ \A d \in ValidIn(c) : m <= Flow[d]
  BY BestOverallIs
<1>2. /\ ValidIn(c) \subseteq Design
      /\ \A d \in Design : Flow[d] \in Nat /\ Cost[d] \in Nat
      /\ FlowTolerance \in Nat \ {0} /\ CostTolerance \in Nat \ {0}
  BY ToSetOfSeq, NSGA2Assumption DEF ValidIn
<1>3. costs \in SUBSET Nat /\ costs # {}
  BY <1>1, <1>2
<1>4. PICK d \in V : \A e \in V : Cost[d] <= Cost[e]
  <2>1. Min(costs) \in costs /\ \A x \in costs : Min(costs) <= x
    <3> HIDE DEF costs
    <3> QED BY <1>3, LeastOf
  <2>2. PICK d \in V : Cost[d] = Min(costs)
    BY <2>1
  <2> QED BY <2>1, <2>2
<1>5. PICK j \in DOMAIN c : c[j] = d
  BY DEF ValidIn, ToSet
<1>6. d \in Design /\ d \in ValidIn(c) /\ Flow[d] = m /\ Valid(d) /\ m \in Nat
  BY <1>1, <1>2 DEF ValidIn
<1> HIDE DEF m
<1>7. ASSUME NEW i \in DOMAIN c, Dominates(c[i], d) PROVE FALSE
  <2> DEFINE e == c[i]
  <2>1. /\ Valid(e)
        /\ Flow[e] < Flow[d] \/ SameFlow(e, d)
        /\ Cost[e] < Cost[d] \/ SameCost(e, d)
        /\ ~(SameFlow(e, d) /\ SameCost(e, d))
    BY <1>6, <1>7 DEF Dominates
  <2>2. e \in ValidIn(c) /\ e \in Design
    <3>1. e \in ToSet(c) /\ Valid(e)
      BY <2>1 DEF ToSet
    <3> HIDE DEF e
    <3>2. e \in ValidIn(c)
      BY <3>1 DEF ValidIn
    <3> QED BY <1>2, <3>2
  <2> HIDE DEF e
  <2>3. m <= Flow[e]
    BY <1>1, <2>2 DEF m
  <2>4. Flow[e] = m
    <3>1. CASE Flow[e] < Flow[d]
      BY <1>2, <1>6, <2>2, <2>3, <3>1
    <3>2. CASE SameFlow(e, d)
      BY <1>6, <2>2, <3>2 DEF FlowsToldApart
    <3> QED BY <2>1, <3>1, <3>2
  <2>5. SameFlow(e, d)
    BY <1>2, <1>6, <2>2, <2>4 DEF SameFlow, Near
  <2>6. Cost[e] < Cost[d]
    BY <2>1, <2>5
  <2>7. Cost[d] <= Cost[e]
    BY <1>4, <2>2, <2>4
  <2> QED BY <1>2, <1>6, <2>2, <2>6, <2>7
<1>8. j \in Undominated(c, DOMAIN c)
  BY <1>5, <1>7 DEF Undominated
<1> QED BY <1>5, <1>6, <1>8 DEF m

\* When the tolerance tells flows apart and the last population holds a design within
\* the budget, front, curve and recommended blanket are those of one valid design of
\* the lowest flow; when it holds none, front and curve both say so.  Without the
\* hypothesis they need not agree: a blanket whose flow is lower by less than the
\* tolerance is recommended, while a cheaper one, which dominates it, is on the front.
THEOREM CallResultsAgree == FlowsToldApart => (Spec => []ResultsAgree)
<1> SUFFICES ASSUME FlowsToldApart PROVE Spec => []ResultsAgree
  OBVIOUS
<1>1. ASSUME IInv PROVE ResultsAgree
  <2> SUFFICES ASSUME pc = "done"
               PROVE  IF ValidIn(population) = {}
                      THEN paretoFront = <<>> /\ Last(curve) = NoFlow
                      ELSE /\ best \in ValidIn(population)
                           /\ Last(curve) = Flow[best]
                           /\ Flow[best] \in FlowsOf(ToSet(paretoFront))
    BY DEF ResultsAgree
  <2> DEFINE c == population
  <2>1. c \in Seq(Design) /\ Len(c) \in 1 .. PopulationSize
    BY <1>1 DEF IInv, TypeOK
  <2>2. /\ paretoFront = ExtractParetoFront(c)
        /\ Last(curve) = BestFlow(paretoFront)
        /\ best = BestOverall(c)
    BY <1>1 DEF IInv, Recorded
  <2>3. c # <<>>
    BY <2>1, EmptySeq
  <2> HIDE DEF c
  <2>4. /\ paretoFront \in Seq(Design)
        /\ ToSet(paretoFront) =
             {c[j] : j \in {i \in Undominated(c, DOMAIN c) : Valid(c[i])}}
        /\ ToSet(paretoFront) \subseteq ValidIn(c)
        /\ ValidIn(c) = {} => paretoFront = <<>>
    BY <2>1, <2>2, <2>3, ParetoFrontIs
  <2>5. ToSet(paretoFront) \subseteq Design
    BY <2>4, ToSetOfSeq
  <2>6. /\ BestFlow(paretoFront) \in FlowsOf(ToSet(paretoFront)) \union {NoFlow}
        /\ \A d \in ToSet(paretoFront) : BestFlow(paretoFront) <= Flow[d]
    BY <2>5, BestFlowIs
  <2>7. CASE ValidIn(c) = {}
    <3>1. FlowsOf(ToSet(paretoFront)) = {}
      BY <2>4, <2>7 DEF FlowsOf
    <3> QED BY <2>2, <2>4, <2>6, <2>7, <3>1 DEF c
  <2>8. CASE ValidIn(c) # {}
    <3>1. best \in ValidIn(c) /\ \A d \in ValidIn(c) : Flow[best] <= Flow[d]
      BY <2>1, <2>2, <2>8, BestOverallIs
    <3>2. PICK j \in Undominated(c, DOMAIN c) : Valid(c[j]) /\ Flow[c[j]] = Flow[best]
      BY <2>1, <2>2, <2>8, CheapestIsUndominated
    <3>3. c[j] \in ToSet(paretoFront)
      BY <2>4, <3>2
    <3>4. Flow[best] \in FlowsOf(ToSet(paretoFront)) /\ BestFlow(paretoFront) <= Flow[best]
      BY <2>6, <3>2, <3>3 DEF FlowsOf
    <3>5. /\ Flow[best] \in Nat /\ Flow[best] < NoFlow /\ NoFlow \in Nat
          /\ \A d \in Design : Flow[d] \in Nat
      <4>1. best \in Design
        BY <2>1, <3>1, ToSetOfSeq DEF ValidIn
      <4> QED BY <4>1, NSGA2Assumption, GeneticOptimizerAssumption
    <3>6. PICK d \in ToSet(paretoFront) : BestFlow(paretoFront) = Flow[d]
      BY <2>6, <3>4, <3>5 DEF FlowsOf
    <3>7. Flow[best] <= Flow[d] /\ Flow[d] \in Nat
      BY <2>4, <2>5, <3>1, <3>5, <3>6
    <3>8. BestFlow(paretoFront) = Flow[best]
      BY <3>4, <3>5, <3>6, <3>7
    <3> QED BY <2>2, <2>8, <3>1, <3>4, <3>8 DEF c
  <2> QED BY <2>7, <2>8
<1> QED BY <1>1, CallInvariant, PTL
=============================================================================
