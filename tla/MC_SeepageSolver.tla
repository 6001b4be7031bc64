-------------------------- MODULE MC_SeepageSolver --------------------------
(* A dam 600 long and 300 high on a foundation of 200, on grids of 7 x 6 and *)
(* 5 x 6 nodes.  One water level over the crest, one of them dry, one        *)
(* downstream above upstream; blankets short of the dam and under it.        *)
EXTENDS SeepageSolver

Weir == [length |-> 600, height |-> 300, topWidth |-> 100,
         upSlope |-> 100, downSlope |-> 100, depth |-> 200]

SomeLevels == {<<250, 50>>, <<320, 0>>, <<100, 180>>, <<140, 120>>}

SomeBlankets == {<<150, 100>>, <<300, 200>>}

FineGrid == <<7, 6>>

CoarseGrid == <<5, 6>>
=============================================================================
