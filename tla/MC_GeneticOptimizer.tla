------------------------ MODULE MC_GeneticOptimizer ------------------------
(***************************************************************************)
(* Instances of GeneticOptimizer for TLC.  Flows come in steps: the solver *)
(* puts the blanket on a 40 x 20 grid, so many designs share a flow and    *)
(* differ in cost only.  thin, fair and thick do not dominate each other;  *)
(* short has the flow of thin and long the flow of thick, each at a higher *)
(* cost; fair dominates broad; wide is the most expensive of all.          *)
(***************************************************************************)
EXTENDS GeneticOptimizer

CONSTANTS thin, short, fair, broad, thick, long, wide

FlowOf == thin :> 40 @@ short :> 40 @@ fair :> 20 @@ broad :> 25
          @@ thick :> 10 @@ long :> 10 @@ wide :> 30
CostOf == thin :> 10 @@ short :> 20 @@ fair :> 20 @@ broad :> 25
          @@ thick :> 30 @@ long :> 45 @@ wide :> 60

SomeFlow == [d \in Design |-> FlowOf[d]]
SomeCost == [d \in Design |-> CostOf[d]]

\* Populations led by designs of the first front, and the children that make a
\* second front out of index order: each of thin and thick dominates a design of
\* its own, and wide fills the places behind.  Populations of one design let
\* the budget exclude everybody, and let children dominate their parents.
Common    == Design \ {broad}
ThinFirst == {c \in [1 .. PopulationSize -> Common] : c[1] = thin /\ c[2] \in {thin, thick}}
Dominated == {c \in [1 .. PopulationSize -> {short, long, wide}] : c[PopulationSize] = wide}
Alike     == {[i \in 1 .. PopulationSize |-> d] : d \in Common}

\* A first front that leaves one place or two to a second one, in which broad lies
\* between short and long.
FirstLayer  == {<<fair, thick, thin, short>>, <<fair, thick, short, short>>}
SecondLayer == {<<short, short, broad, long>>}

SomeFounders == ThinFirst \union Alike \union FirstLayer
SomeOffspring == Dominated \union Alike \union SecondLayer
=============================================================================
