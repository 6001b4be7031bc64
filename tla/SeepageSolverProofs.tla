------------------------- MODULE SeepageSolverProofs -------------------------
(***************************************************************************)
(* Proofs about SeepageSolver, for any geometry, water levels, blankets,   *)
(* permeabilities and grids.                                               *)
(***************************************************************************)
EXTENDS SeepageSolver, LoopTheorems, FiniteSetTheorems

----------------------------------------------------------------------------
(***************************************************************************)
(* Arithmetic.                                                             *)
(***************************************************************************)
LEMMA DivBounds ==
  ASSUME NEW a \in Int, NEW b \in Nat \ {0}
  PROVE  /\ a \div b \in Int
         /\ \A k \in Int : k * b <= a <=> k <= a \div b
         /\ \A k \in Int : a <= k * b => a \div b <= k
<1>1. a \div b \in Int /\ b * (a \div b) <= a /\ a < b * (a \div b) + b
  OBVIOUS
<1> DEFINE d == a \div b
<1> HIDE DEF d
<1>2. d \in Int /\ d * b <= a /\ a < d * b + b
  BY <1>1 DEF d
<1>3. ASSUME NEW k \in Int, k * b <= a PROVE k <= d
  <2>1. CASE k >= d + 1
    <3>1. k * b >= (d + 1) * b
      BY <1>2, <2>1
    <3>2. (d + 1) * b = d * b + b
      BY <1>2
    <3> QED BY <1>2, <1>3, <3>1, <3>2
  <2> QED BY <1>2, <2>1
<1>4. ASSUME NEW k \in Int, k <= d PROVE k * b <= a
  <2>1. k * b <= d * b
    BY <1>2, <1>4
  <2> QED BY <1>2, <2>1
<1>5. ASSUME NEW k \in Int, a <= k * b PROVE d <= k
  <2>1. CASE d >= k + 1
    <3>1. d * b >= (k + 1) * b
      BY <1>2, <2>1
    <3>2. (k + 1) * b = k * b + b
      BY <1>2
    <3> QED BY <1>2, <1>5, <3>1, <3>2
  <2> QED BY <1>2, <2>1
<1> QED BY <1>2, <1>3, <1>4, <1>5 DEF d

LEMMA Times ==
  ASSUME NEW c \in Nat, NEW x \in Int, NEW y \in Int, x <= y
  PROVE  c * x \in Int /\ c * y \in Int /\ c * x <= c * y
OBVIOUS

LEMMA PositiveProduct ==
  ASSUME NEW x \in Nat \ {0}, NEW y \in Nat \ {0}
  PROVE  x * y \in Nat \ {0} /\ x <= x * y /\ y <= x * y
OBVIOUS

\* A weighted mean of up to four values lies between bounds of the values.
LEMMA WeightedMean ==
  ASSUME NEW lo \in Int, NEW hi \in Int,
         NEW c1 \in Nat, NEW c2 \in Nat, NEW c3 \in Nat, NEW c4 \in Nat,
         NEW w1 \in Int, NEW w2 \in Int, NEW w3 \in Int, NEW w4 \in Int,
         c1 * lo <= w1 /\ w1 <= c1 * hi, c2 * lo <= w2 /\ w2 <= c2 * hi,
         c3 * lo <= w3 /\ w3 <= c3 * hi, c4 * lo <= w4 /\ w4 <= c4 * hi,
         c1 + c2 + c3 + c4 > 0
  PROVE  LET mean == (w1 + w2 + w3 + w4) \div (c1 + c2 + c3 + c4)
         IN  mean \in Int /\ lo <= mean /\ mean <= hi
<1> DEFINE w == w1 + w2 + w3 + w4
           c == c1 + c2 + c3 + c4
<1>1. w \in Int /\ c \in Nat \ {0}
  OBVIOUS
<1>2. /\ c1 * lo \in Int /\ c2 * lo \in Int /\ c3 * lo \in Int /\ c4 * lo \in Int
      /\ c1 * hi \in Int /\ c2 * hi \in Int /\ c3 * hi \in Int /\ c4 * hi \in Int
  OBVIOUS
<1>3. lo * c = c1 * lo + c2 * lo + c3 * lo + c4 * lo
  OBVIOUS
<1>4. hi * c = c1 * hi + c2 * hi + c3 * hi + c4 * hi
  OBVIOUS
<1>5. lo * c <= w /\ w <= hi * c
  BY <1>2, <1>3, <1>4
<1> HIDE DEF w, c
<1>6. w \div c \in Int /\ lo <= w \div c /\ w \div c <= hi
  BY <1>1, <1>5, DivBounds
<1> QED BY <1>6 DEF w, c

LEMMA MaxOfTwo ==
  ASSUME NEW a \in Int, NEW b \in Int
  PROVE  /\ Max({a, b}) = IF a < b THEN b ELSE a
         /\ Min({a, b}) = IF a < b THEN a ELSE b
<1>1. \E x \in {a, b} : \A y \in {a, b} : x >= y
  OBVIOUS
<1>2. \E x \in {a, b} : \A y \in {a, b} : x =< y
  OBVIOUS
<1>3. Max({a, b}) \in {a, b} /\ \A y \in {a, b} : Max({a, b}) >= y
  BY <1>1 DEF Max
<1>4. Min({a, b}) \in {a, b} /\ \A y \in {a, b} : Min({a, b}) =< y
  BY <1>2 DEF Min
<1> QED BY <1>3, <1>4

----------------------------------------------------------------------------
(***************************************************************************)
(* Solvers, grids and heads.                                               *)
(***************************************************************************)
BlanketRecord ==
  {b \in [enabled : BOOLEAN, length : Nat, thickness : Nat, perm : Nat] :
     b.enabled => b.perm > 0}

SolverRecord ==
  {s \in [up : Nat, down : Nat, nx : Nat, ny : Nat, blanket : BlanketRecord, grid : Nat] :
     <<s.nx, s.ny>> \in {Coarse, Fine}}

Area(s) == Nodes(s.nx, s.ny)

\* A grid laid out for s: a node in the blanket has a permeability.
GridRecord(s) ==
  {g \in [zone : [Area(s) -> 0 .. 4], contact : SUBSET Area(s), head : [Area(s) -> Int]] :
     \A p \in Area(s) : g.zone[p] = 4 => s.blanket.perm > 0}

Low(s) == IF s.up < s.down THEN s.up ELSE s.down
High(s) == (IF s.up < s.down THEN s.down ELSE s.up) + (s.up + s.down) \div 20

\* Heads within the bounds, the prescribed ones as prescribed, on the zones z.
Heads(s, z) ==
  {h \in [Area(s) -> Int] :
     \A p \in Area(s) :
       IF z[p] = 0 THEN h[p] = 0
       ELSE /\ Low(s) <= h[p] /\ h[p] <= High(s)
            /\ IsPrescribed(s, p) => h[p] = PrescribedLevel(s, p)}

LEMMA SolverTyped ==
  ASSUME NEW s \in SolverRecord
  PROVE  /\ s.nx \in Nat /\ s.ny \in Nat /\ s.nx > 2 /\ s.ny > 2
         /\ s.up \in Nat /\ s.down \in Nat
         /\ s.blanket \in BlanketRecord
         /\ Low(s) \in Nat /\ High(s) \in Nat
         /\ s.up \in Low(s) .. High(s) /\ s.down \in Low(s) .. High(s)
<1>1. <<s.nx, s.ny>> \in (Nat \ 0 .. 2) \X (Nat \ 0 .. 2)
  BY SeepageSolverAssumption DEF SolverRecord
<1>2. s.nx \in Nat /\ s.ny \in Nat /\ s.nx > 2 /\ s.ny > 2
  BY <1>1
<1>3. s.up \in Nat /\ s.down \in Nat /\ s.blanket \in BlanketRecord
  BY DEF SolverRecord
<1>4. (s.up + s.down) \div 20 \in Int /\ 0 <= (s.up + s.down) \div 20
  BY <1>3, DivBounds
<1> QED BY <1>2, <1>3, <1>4 DEF Low, High

LEMMA GeometryTyped ==
  /\ Geometry.length \in Nat \ {0} /\ Geometry.height \in Nat /\ Geometry.depth \in Nat
  /\ Thickness \in Nat /\ K \in Nat \ {0} /\ FoundationRatio \in Nat \ {0}
BY SeepageSolverAssumption

LEMMA AreaPoints ==
  ASSUME NEW s, NEW p \in Area(s)
  PROVE  p[1] \in 0 .. s.nx - 1 /\ p[2] \in 0 .. s.ny - 1 /\ p = <<p[1], p[2]>>
BY DEF Area, Nodes

\* The coordinates: from 0 to the length of the dam, and up from the bottom of
\* the foundation.
LEMMA Coordinates ==
  ASSUME NEW s \in SolverRecord
  PROVE  /\ \A i \in 0 .. s.nx - 1 : X(s, i) \in 0 .. Geometry.length
         /\ \A i, k \in 0 .. s.nx - 1 : i <= k => X(s, i) <= X(s, k)
         /\ \A j \in 0 .. s.ny - 1 : Y(s, j) \in Int /\ Y(s, j) >= - Geometry.depth
<1>1. s.nx - 1 \in Nat \ {0} /\ s.ny - 1 \in Nat \ {0} /\ s.nx \in Nat /\ s.ny \in Nat
  BY SolverTyped
<1> DEFINE len == Geometry.length
           tall == Geometry.height + Geometry.depth
<1>2. len \in Nat /\ tall \in Nat /\ Geometry.depth \in Nat
  BY GeometryTyped
<1> HIDE DEF len, tall
<1>3. ASSUME NEW i \in 0 .. s.nx - 1 PROVE (len * i) \div (s.nx - 1) \in 0 .. len
  <2>1. len * i \in Int /\ 0 <= len * i /\ len * i <= len * (s.nx - 1)
    BY <1>1, <1>2, Times
  <2>2. 0 * (s.nx - 1) <= len * i
    BY <1>1, <2>1
  <2> QED BY <1>1, <1>2, <2>1, <2>2, DivBounds
<1>4. ASSUME NEW i \in 0 .. s.nx - 1, NEW k \in 0 .. s.nx - 1, i <= k
      PROVE  (len * i) \div (s.nx - 1) <= (len * k) \div (s.nx - 1)
  <2> DEFINE d == (len * i) \div (s.nx - 1)
  <2>1. len * i \in Int /\ len * k \in Int /\ len * i <= len * k
    BY <1>2, <1>4, Times
  <2>2. d \in Int /\ d * (s.nx - 1) <= len * i
    BY <1>1, <2>1, DivBounds
  <2> HIDE DEF d
  <2>3. d * (s.nx - 1) \in Int
    BY <1>1, <2>2
  <2>4. d * (s.nx - 1) <= len * k
    BY <2>1, <2>2, <2>3
  <2>5. d <= (len * k) \div (s.nx - 1)
    BY <1>1, <2>1, <2>2, <2>4, DivBounds
  <2> QED BY <2>5 DEF d
<1>5. ASSUME NEW j \in 0 .. s.ny - 1
      PROVE  (tall * j) \div (s.ny - 1) \in Int /\ 0 <= (tall * j) \div (s.ny - 1)
  <2>1. tall * j \in Int /\ 0 * (s.ny - 1) <= tall * j
    BY <1>1, <1>2, Times
  <2> QED BY <1>1, <2>1, DivBounds
<1>6. \A i : X(s, i) = (len * i) \div (s.nx - 1)
  BY DEF X, len
<1>7. \A j : Y(s, j) = (tall * j) \div (s.ny - 1) - Geometry.depth
  BY DEF Y, tall
<1>8. \A i \in 0 .. s.nx - 1 : X(s, i) \in 0 .. len
  BY <1>3, <1>6
<1>9. \A i, k \in 0 .. s.nx - 1 : i <= k => X(s, i) <= X(s, k)
  BY <1>4, <1>6
<1>10. \A j \in 0 .. s.ny - 1 : Y(s, j) \in Int /\ Y(s, j) >= - Geometry.depth
  BY <1>2, <1>5, <1>7
<1> QED BY <1>8, <1>9, <1>10 DEF len

\* A prescribed level is one of the two, not below its node, and the nodes of
\* the two last columns under the lower water level have one.
LEMMA Prescribed ==
  ASSUME NEW s \in SolverRecord, NEW p \in Area(s)
  PROVE  /\ IsPrescribed(s, p) => /\ PrescribedLevel(s, p) \in {s.up, s.down}
                                  /\ Y(s, p[2]) <= PrescribedLevel(s, p)
         /\ HasUpstreamLevel(s, p) => PrescribedLevel(s, p) = s.up
         /\ p[1] >= s.nx - 2 /\ Y(s, p[2]) <= s.down => IsPrescribed(s, p)
<1>1. s.nx \in Nat /\ s.nx > 2 /\ p[1] \in 0 .. s.nx - 1
  BY SolverTyped, AreaPoints
<1>2. p[1] >= s.nx - 2 => X(s, p[1]) >= X(s, s.nx - 2)
  <2>1. s.nx - 2 \in 0 .. s.nx - 1
    BY <1>1
  <2>2. X(s, p[1]) \in Int /\ X(s, s.nx - 2) \in Int
    BY <1>1, <2>1, Coordinates, GeometryTyped
  <2> QED BY <1>1, <2>1, <2>2, Coordinates
<1> QED BY <1>2 DEF IsPrescribed, PrescribedLevel, HasUpstreamLevel, HasDownstreamLevel

----------------------------------------------------------------------------
(***************************************************************************)
(* Conductances are positive.                                              *)
(***************************************************************************)
LEMMA RatiosTyped ==
  /\ ContactK \in Nat \ {0}
  /\ K \div DefaultRatio \in Nat \ {0}
  /\ K \div BlanketRatio \in Nat \ {0}
<1>1. ASSUME NEW r \in Nat \ {0}, r <= K PROVE K \div r \in Nat \ {0}
  <2>1. K \in Int /\ 1 * r <= K
    BY <1>1, SeepageSolverAssumption
  <2>2. K \div r \in Int /\ 1 <= K \div r
    BY <2>1, DivBounds
  <2> QED BY <2>2
<1> QED BY <1>1, SeepageSolverAssumption DEF ContactK

LEMMA PermeabilityPositive ==
  ASSUME NEW s \in SolverRecord, NEW g \in GridRecord(s), NEW p \in Area(s)
  PROVE  PointPermeability(s, g, p) \in Nat \ {0}
<1>1. s.blanket.perm \in Nat /\ (g.zone[p] = 4 => s.blanket.perm > 0)
  BY SolverTyped DEF GridRecord, BlanketRecord
<1>2. K * FoundationRatio \in Nat \ {0} /\ K \in Nat \ {0}
  BY GeometryTyped, PositiveProduct
<1>3. CASE p \in g.contact
  BY <1>3, RatiosTyped DEF PointPermeability
<1>4. CASE p \notin g.contact /\ g.zone[p] = 1
  BY <1>2, <1>4 DEF PointPermeability
<1>5. CASE p \notin g.contact /\ g.zone[p] = 4
  BY <1>1, <1>5 DEF PointPermeability
<1>6. CASE p \notin g.contact /\ g.zone[p] # 1 /\ g.zone[p] # 4
  BY <1>2, <1>6 DEF PointPermeability
<1> QED BY <1>3, <1>4, <1>5, <1>6

LEMMA HarmonicPositive ==
  ASSUME NEW a \in Nat \ {0}, NEW b \in Nat \ {0}
  PROVE  (20 * a * b) \div (a + b) \in Nat \ {0}
<1>1. a * b \in Nat \ {0} /\ a <= a * b /\ b <= a * b
  BY PositiveProduct
<1>2. 20 * a * b = 20 * (a * b)
  OBVIOUS
<1>3. 20 * a * b \in Int /\ 1 * (a + b) <= 20 * a * b /\ a + b \in Nat \ {0}
  BY <1>1, <1>2
<1>4. (20 * a * b) \div (a + b) \in Int /\ 1 <= (20 * a * b) \div (a + b)
  BY <1>3, DivBounds
<1> QED BY <1>4

LEMMA ContactPositive ==
  ASSUME NEW a \in Nat \ {0}, NEW b \in Nat \ {0}, NEW k \in Nat \ {0},
         NEW t \in Nat, NEW dist \in Nat \ {0}, t <= 10 * dist,
         NEW den \in Int, den = t * (a + b) + 2 * (dist - t) * k, den > 0
  PROVE  (10 * dist * k * (a + b)) \div den \in Nat \ {0}
<1> DEFINE c == a + b
           m == k * c
<1>1. c \in Nat \ {0} /\ c >= 2 /\ m \in Nat \ {0} /\ c <= m
  BY PositiveProduct
<1>2. 2 * k <= m
  BY <1>1
<1> HIDE DEF c, m
<1>3. 10 * dist * k * (a + b) = 10 * (dist * m)
  BY DEF c, m
<1>4. t * c <= t * m /\ t * c \in Nat /\ t * m \in Nat /\ dist * m \in Nat
  BY <1>1
<1>5. den <= 10 * (dist * m)
  <2>1. CASE t >= dist
    <3>1. (dist - t) * k <= 0 /\ (dist - t) * k \in Int
      BY <2>1
    <3>2. 2 * (dist - t) * k = 2 * ((dist - t) * k)
      OBVIOUS
    <3>3. t * m <= (10 * dist) * m /\ (10 * dist) * m = 10 * (dist * m)
      BY <1>1
    <3> QED BY <1>4, <3>1, <3>2, <3>3 DEF c
  <2>2. CASE t < dist
    <3>1. 2 * (dist - t) * k = (dist - t) * (2 * k)
      OBVIOUS
    <3>2. (dist - t) * (2 * k) <= (dist - t) * m /\ (dist - t) * (2 * k) \in Int
      BY <1>1, <1>2, <2>2
    <3>3. t * m + (dist - t) * m = dist * m
      BY <1>1
    <3> QED BY <1>4, <3>1, <3>2, <3>3, <1>1 DEF c
  <2> QED BY <2>1, <2>2
<1>6. 10 * (dist * m) \in Int /\ 1 * den <= 10 * (dist * m) /\ den \in Nat \ {0}
  BY <1>4, <1>5
<1>7. (10 * (dist * m)) \div den \in Int /\ 1 <= (10 * (dist * m)) \div den
  BY <1>6, DivBounds
<1> QED BY <1>3, <1>7

LEMMA ConductancePositive ==
  ASSUME NEW s \in SolverRecord, NEW g \in GridRecord(s), NEW p \in Area(s), NEW q \in Area(s)
  PROVE  Conductance(s, g, p, q) \in Nat \ {0}
<1> DEFINE a == PointPermeability(s, g, p)
           b == PointPermeability(s, g, q)
           dist == IF p[2] # q[2] THEN (Geometry.height + Geometry.depth) \div (s.ny - 1)
                                  ELSE Geometry.length \div (s.nx - 1)
           den == Thickness * (a + b) + 2 * (dist - Thickness) * ContactK
<1>1. Conductance(s, g, p, q) =
        IF {p, q} \intersect g.contact = {} \/ Thickness = 0
        THEN (20 * a * b) \div (a + b)
        ELSE IF den <= 0 THEN 10 * ContactK
        ELSE (10 * dist * ContactK * (a + b)) \div den
  BY DEF Conductance
<1>2. a \in Nat \ {0} /\ b \in Nat \ {0}
  BY PermeabilityPositive
<1>3. dist \in Nat \ {0} /\ Thickness <= 10 * dist
  <2>1. PICK r \in {Coarse, Fine} : s.nx = r[1] /\ s.ny = r[2]
    BY DEF SolverRecord
  <2>2. r[1] - 1 \in Nat \ {0} /\ r[2] - 1 \in Nat \ {0}
    BY <2>1, SolverTyped
  <2>3. /\ Geometry.length \div (r[1] - 1) \in Int
        /\ (Geometry.height + Geometry.depth) \div (r[2] - 1) \in Int
    <3>1. Geometry.length \in Int /\ Geometry.height + Geometry.depth \in Int
      BY GeometryTyped
    <3> QED BY <2>2, <3>1, DivBounds
  <2>4. \A d \in {Geometry.length \div (r[1] - 1),
                  (Geometry.height + Geometry.depth) \div (r[2] - 1)} :
          0 < d /\ Thickness <= 10 * d
    BY <2>1, SeepageSolverAssumption
  <2> QED BY <2>1, <2>3, <2>4
<1> HIDE DEF a, b, dist
<1>4. den \in Int
  BY <1>2, <1>3, RatiosTyped, GeometryTyped
<1>5. CASE den > 0
  <2>1. (10 * dist * ContactK * (a + b)) \div den \in Nat \ {0}
    BY <1>2, <1>3, <1>4, <1>5, RatiosTyped, GeometryTyped, ContactPositive
  <2> HIDE DEF den
  <2> QED BY <1>1, <1>2, <1>4, <1>5, <2>1, RatiosTyped, HarmonicPositive
<1>6. CASE den <= 0
  <2> HIDE DEF den
  <2> QED BY <1>1, <1>2, <1>6, RatiosTyped, HarmonicPositive
<1> QED BY <1>4, <1>5, <1>6

----------------------------------------------------------------------------
(***************************************************************************)
(* The passes over one node.                                               *)
(***************************************************************************)
LEMMA AroundMembers ==
  ASSUME NEW p
  PROVE  ToSet(Around(p)) = {Around(p)[1], Around(p)[2], Around(p)[3], Around(p)[4]}
<1>1. DOMAIN Around(p) = 1 .. 4
  BY DEF Around
<1> QED BY <1>1 DEF ToSet

\* What one neighbour contributes to the mean.
LEMMA Contribution ==
  ASSUME NEW s \in SolverRecord, NEW g \in GridRecord(s), NEW h \in Heads(s, g.zone),
         NEW p \in Area(s), NEW q
  PROVE  LET perm  == IF q \in Neighbours(g, p) THEN Conductance(s, g, p, q) ELSE 0
             water == IF q \in Neighbours(g, p) THEN Conductance(s, g, p, q) * h[q] ELSE 0
         IN  /\ perm \in Nat /\ water \in Int
             /\ q \in Neighbours(g, p) => perm > 0
             /\ perm * Low(s) <= water /\ water <= perm * High(s)
<1>1. Low(s) \in Nat /\ High(s) \in Nat
  BY SolverTyped
<1>2. CASE q \notin Neighbours(g, p)
  BY <1>1, <1>2
<1>3. CASE q \in Neighbours(g, p)
  <2>1. q \in Area(s) /\ g.zone[q] # 0
    BY <1>3 DEF Neighbours, InDomain, GridRecord
  <2>2. h[q] \in Int /\ Low(s) <= h[q] /\ h[q] <= High(s)
    BY <2>1 DEF Heads
  <2>3. Conductance(s, g, p, q) \in Nat \ {0}
    BY <2>1, ConductancePositive
  <2> QED BY <1>1, <1>3, <2>2, <2>3, Times
<1> QED BY <1>2, <1>3

LEMMA MeanBounds ==
  ASSUME NEW s \in SolverRecord, NEW g \in GridRecord(s), NEW h \in Heads(s, g.zone),
         NEW p \in Area(s), Neighbours(g, p) # {}
  PROVE  Mean(s, g, h, p) \in Low(s) .. High(s)
<1> DEFINE perm(q)  == IF q \in Neighbours(g, p) THEN Conductance(s, g, p, q) ELSE 0
           water(q) == IF q \in Neighbours(g, p) THEN Conductance(s, g, p, q) * h[q] ELSE 0
           c(d) == perm(Around(p)[d])
           w(d) == water(Around(p)[d])
<1>1. \A q : /\ perm(q) \in Nat /\ water(q) \in Int
             /\ q \in Neighbours(g, p) => perm(q) > 0
             /\ perm(q) * Low(s) <= water(q) /\ water(q) <= perm(q) * High(s)
  BY Contribution
<1>2. Mean(s, g, h, p) = (w(1) + w(2) + w(3) + w(4)) \div (c(1) + c(2) + c(3) + c(4))
  BY DEF Mean, SumAround
<1> HIDE DEF perm, water
<1>3. \E d \in 1 .. 4 : Around(p)[d] \in Neighbours(g, p)
  <2>1. Neighbours(g, p) \subseteq {Around(p)[1], Around(p)[2], Around(p)[3], Around(p)[4]}
    BY AroundMembers DEF Neighbours
  <2> QED BY <2>1
<1>4. \A d \in 1 .. 4 : /\ c(d) \in Nat /\ w(d) \in Int
                        /\ c(d) * Low(s) <= w(d) /\ w(d) <= c(d) * High(s)
  BY <1>1
<1>5. c(1) > 0 \/ c(2) > 0 \/ c(3) > 0 \/ c(4) > 0
  BY <1>1, <1>3
<1> HIDE DEF c, w
<1>6. c(1) + c(2) + c(3) + c(4) > 0
  BY <1>4, <1>5
<1>7. Low(s) \in Int /\ High(s) \in Int
  BY SolverTyped
<1>8. /\ c(1) * Low(s) <= w(1) /\ w(1) <= c(1) * High(s)
      /\ c(2) * Low(s) <= w(2) /\ w(2) <= c(2) * High(s)
      /\ c(3) * Low(s) <= w(3) /\ w(3) <= c(3) * High(s)
      /\ c(4) * Low(s) <= w(4) /\ w(4) <= c(4) * High(s)
      /\ c(1) \in Nat /\ c(2) \in Nat /\ c(3) \in Nat /\ c(4) \in Nat
      /\ w(1) \in Int /\ w(2) \in Int /\ w(3) \in Int /\ w(4) \in Int
  BY <1>4
<1>9. LET mean == (w(1) + w(2) + w(3) + w(4)) \div (c(1) + c(2) + c(3) + c(4))
      IN  mean \in Int /\ Low(s) <= mean /\ mean <= High(s)
  BY <1>6, <1>7, <1>8, WeightedMean
<1> QED BY <1>2, <1>7, <1>9

\* A node keeps the heads within their bounds when it is swept.
LEMMA RelaxedKeeps ==
  ASSUME NEW s \in SolverRecord, NEW g \in GridRecord(s), NEW h \in Heads(s, g.zone),
         NEW p \in Area(s)
  PROVE  /\ Relaxed(s, g, h, p) \in Int
         /\ [h EXCEPT ![p] = Relaxed(s, g, h, p)] \in Heads(s, g.zone)
<1> DEFINE new == Relaxed(s, g, h, p)
<1>1. h \in [Area(s) -> Int] /\ (InDomain(g, p) <=> g.zone[p] # 0)
  BY DEF Heads, InDomain, GridRecord
<1>2. /\ new \in Int
      /\ IF g.zone[p] = 0 THEN new = 0
         ELSE /\ Low(s) <= new /\ new <= High(s)
              /\ IsPrescribed(s, p) => new = PrescribedLevel(s, p)
  <2>1. CASE ~ InDomain(g, p)
    BY <1>1, <2>1 DEF Relaxed, Heads
  <2>2. CASE InDomain(g, p) /\ IsPrescribed(s, p)
    <3>1. new = PrescribedLevel(s, p) /\ new \in {s.up, s.down}
      BY <2>2, Prescribed DEF Relaxed
    <3> HIDE DEF new
    <3> QED BY <1>1, <2>2, <3>1, SolverTyped
  <2>3. CASE /\ InDomain(g, p) /\ ~ IsPrescribed(s, p)
             /\ Cardinality(Neighbours(g, p)) < 2
    BY <1>1, <2>3 DEF Relaxed, Heads
  <2>4. CASE /\ InDomain(g, p) /\ ~ IsPrescribed(s, p)
             /\ ~ (Cardinality(Neighbours(g, p)) < 2)
    <3>1. Neighbours(g, p) # {}
      BY <2>4, FS_EmptySet
    <3>2. new = Mean(s, g, h, p)
      BY <2>4 DEF Relaxed
    <3>3. new \in Low(s) .. High(s)
      BY <3>1, <3>2, MeanBounds
    <3> HIDE DEF new
    <3> QED BY <1>1, <2>4, <3>3, SolverTyped
  <2> QED BY <2>1, <2>2, <2>3, <2>4
<1> HIDE DEF new
<1> QED BY <1>1, <1>2 DEF Heads, new

\* A node keeps the heads within their bounds when it is corrected: it is only
\* lifted, and not above a neighbour.
LEMMA CorrectedKeeps ==
  ASSUME NEW s \in SolverRecord, NEW g \in GridRecord(s), NEW h \in Heads(s, g.zone),
         NEW p \in Area(s)
  PROVE  /\ [h EXCEPT ![p] = Corrected(s, g, h, p)] \in Heads(s, g.zone)
         /\ Corrected(s, g, h, p) \in Int /\ h[p] <= Corrected(s, g, h, p)
<1> DEFINE new == Corrected(s, g, h, p)
           y   == Y(s, p[2])
           wet == WetAround(s, g, h, p)
           water(q) == IF q \in wet THEN h[q] ELSE 0
           one(q)   == IF q \in wet THEN 1 ELSE 0
           c(d) == one(Around(p)[d])
           w(d) == water(Around(p)[d])
           lifts == /\ InDomain(g, p) /\ h[p] < y
                    /\ X(s, p[1]) < DamProfile(y)[2] /\ wet # {}
<1>1. h \in [Area(s) -> Int] /\ (InDomain(g, p) <=> g.zone[p] # 0)
  BY DEF Heads, InDomain, GridRecord
<1>2. new = IF lifts
            THEN (7 * (w(1) + w(2) + w(3) + w(4)) + 3 * y * (c(1) + c(2) + c(3) + c(4)))
                   \div (10 * (c(1) + c(2) + c(3) + c(4)))
            ELSE h[p]
  BY DEF Corrected, SumAround
<1>3. y \in Int
  BY AreaPoints, Coordinates
<1> HIDE DEF y
<1>4. CASE ~ lifts
  <2>1. new = h[p]
    BY <1>2, <1>4
  <2>2. [h EXCEPT ![p] = new] = h
    BY <1>1, <2>1
  <2>3. h[p] \in Int
    BY <1>1
  <2> HIDE DEF new
  <2>4. new \in Int /\ h[p] <= new /\ [h EXCEPT ![p] = new] \in Heads(s, g.zone)
    BY <2>1, <2>2, <2>3
  <2> QED BY <2>4 DEF new
<1>5. CASE lifts
  <2>1. Low(s) \in Nat /\ High(s) \in Nat /\ Low(s) < y /\ g.zone[p] # 0
    <3>1. Low(s) <= h[p] /\ h[p] < y /\ h[p] \in Int
      BY <1>1, <1>5 DEF Heads
    <3> QED BY <1>1, <1>3, <1>5, <3>1, SolverTyped
  <2>2. \A q \in wet : h[q] \in Int /\ y <= h[q] /\ h[q] <= High(s)
    <3> SUFFICES ASSUME NEW q \in wet PROVE h[q] \in Int /\ y <= h[q] /\ h[q] <= High(s)
      OBVIOUS
    <3>1. q \in Area(s) /\ h[q] > y /\ h[q] \in Int
      BY <1>1 DEF WetAround, y
    <3>2. g.zone[q] # 0
      BY <1>3, <2>1, <3>1 DEF Heads
    <3> QED BY <1>3, <3>1, <3>2 DEF Heads
  <2>3. wet \subseteq {Around(p)[1], Around(p)[2], Around(p)[3], Around(p)[4]}
    BY AroundMembers DEF WetAround
  <2> HIDE DEF wet
  <2>4. \A d \in 1 .. 4 :
          /\ c(d) \in {0, 1} /\ w(d) \in Int
          /\ c(d) = 0 => w(d) = 0
          /\ c(d) = 1 => y <= w(d) /\ w(d) <= High(s)
    BY <2>2
  <2>5. c(1) = 1 \/ c(2) = 1 \/ c(3) = 1 \/ c(4) = 1
    BY <1>5, <2>3
  <2> HIDE DEF c, w
  <2>6. ASSUME NEW d \in 1 .. 4
        PROVE  /\ 10 * c(d) \in Nat
               /\ 7 * w(d) + 3 * y * c(d) \in Int
               /\ (10 * c(d)) * y <= 7 * w(d) + 3 * y * c(d)
               /\ 7 * w(d) + 3 * y * c(d) <= (10 * c(d)) * High(s)
    <3>1. CASE c(d) = 0
      BY <1>3, <2>1, <2>4, <3>1
    <3>2. CASE c(d) = 1
      BY <1>3, <2>1, <2>2, <2>4, <2>5, <3>2
    <3> QED BY <2>4, <3>1, <3>2
  <2> DEFINE m(d) == 10 * c(d)
             v(d) == 7 * w(d) + 3 * y * c(d)
  <2>7. /\ m(1) \in Nat /\ m(2) \in Nat /\ m(3) \in Nat /\ m(4) \in Nat
        /\ v(1) \in Int /\ v(2) \in Int /\ v(3) \in Int /\ v(4) \in Int
        /\ m(1) * y <= v(1) /\ v(1) <= m(1) * High(s)
        /\ m(2) * y <= v(2) /\ v(2) <= m(2) * High(s)
        /\ m(3) * y <= v(3) /\ v(3) <= m(3) * High(s)
        /\ m(4) * y <= v(4) /\ v(4) <= m(4) * High(s)
    BY <2>6
  <2>8. m(1) + m(2) + m(3) + m(4) > 0
    BY <2>4, <2>5
  <2>9. /\ 7 * (w(1) + w(2) + w(3) + w(4)) + 3 * y * (c(1) + c(2) + c(3) + c(4))
             = v(1) + v(2) + v(3) + v(4)
        /\ 10 * (c(1) + c(2) + c(3) + c(4)) = m(1) + m(2) + m(3) + m(4)
    <3>1. \A d \in 1 .. 4 : c(d) \in Int /\ w(d) \in Int
      BY <2>4
    <3> QED BY <1>3, <3>1
  <2> HIDE DEF m, v, lifts
  <2>10. LET mean == (v(1) + v(2) + v(3) + v(4)) \div (m(1) + m(2) + m(3) + m(4))
         IN  mean \in Int /\ y <= mean /\ mean <= High(s)
    <3>1. y \in Int /\ High(s) \in Int
      BY <1>3, <2>1
    <3> QED BY <2>7, <2>8, <3>1, WeightedMean
  <2>11. new \in Int /\ y <= new /\ new <= High(s)
    BY <1>2, <1>5, <2>9, <2>10
  <2>12. ~ IsPrescribed(s, p)
    <3> SUFFICES ASSUME IsPrescribed(s, p) PROVE FALSE
      OBVIOUS
    <3>1. h[p] = PrescribedLevel(s, p) /\ y <= PrescribedLevel(s, p) /\ h[p] \in Int
      BY <1>1, <2>1, Prescribed DEF Heads, y
    <3> QED BY <1>3, <1>5, <3>1 DEF lifts
  <2>13. Low(s) <= new
    <3> HIDE DEF new
    <3> QED BY <1>3, <2>1, <2>11
  <2> HIDE DEF new
  <2>14. [h EXCEPT ![p] = new] \in Heads(s, g.zone)
    BY <1>1, <2>1, <2>11, <2>12, <2>13 DEF Heads
  <2>15. h[p] <= new
    BY <1>1, <1>3, <1>5, <2>11 DEF lifts
  <2> QED BY <2>11, <2>14, <2>15 DEF new
<1> QED BY <1>4, <1>5

----------------------------------------------------------------------------
(***************************************************************************)
(* The two passes.                                                         *)
(***************************************************************************)
LEMMA InteriorTyped ==
  ASSUME NEW s \in SolverRecord
  PROVE  /\ Len(Interior(s)) \in Nat
         /\ \A n \in 1 .. Len(Interior(s)) : Interior(s)[n] \in Area(s)
<1> DEFINE w == s.nx - 2
           m == s.ny - 2
<1>1. w \in Nat \ {0} /\ m \in Nat \ {0} /\ w * m \in Nat \ {0} /\ s.nx \in Nat /\ s.ny \in Nat
  <2>1. w \in Nat \ {0} /\ m \in Nat \ {0} /\ s.nx \in Nat /\ s.ny \in Nat
    BY SolverTyped
  <2> HIDE DEF w, m
  <2> QED BY <2>1, PositiveProduct
<1>2. Interior(s) = [n \in 1 .. w * m |-> <<1 + ((n - 1) % w), 1 + ((n - 1) \div w)>>]
  BY DEF Interior
<1>3. ASSUME NEW n \in 1 .. w * m
      PROVE  <<1 + ((n - 1) % w), 1 + ((n - 1) \div w)>> \in Area(s)
  <2> HIDE DEF w, m
  <2>1. (n - 1) % w \in 0 .. w - 1
    BY <1>1
  <2>2. n - 1 \in Int /\ 0 * w <= n - 1 /\ n - 1 < w * m
    BY <1>1
  <2>3. (n - 1) \div w \in Int /\ 0 <= (n - 1) \div w
    BY <1>1, <2>2, DivBounds
  <2>4. (n - 1) \div w < m
    <3>1. m <= (n - 1) \div w => m * w <= n - 1
      BY <1>1, <2>2, DivBounds
    <3>2. m * w = w * m
      BY <1>1
    <3> QED BY <1>1, <2>2, <2>3, <3>1, <3>2
  <2>5. 1 + ((n - 1) % w) \in 0 .. s.nx - 1 /\ 1 + ((n - 1) \div w) \in 0 .. s.ny - 1
    BY <1>1, <2>1, <2>3, <2>4 DEF w, m
  <2> QED BY <2>5 DEF Area, Nodes
<1> HIDE DEF w, m
<1>4. Len(Interior(s)) = w * m
  BY <1>1, <1>2
<1> QED BY <1>1, <1>2, <1>3, <1>4

SweepState(s, g) == [head : Heads(s, g.zone), delta : Nat]

LEMMA SweptNodeTyped ==
  ASSUME NEW s \in SolverRecord, NEW g \in GridRecord(s), NEW p \in Area(s),
         NEW old \in SweepState(s, g)
  PROVE  SweptNode(s, g, p, old) \in SweepState(s, g)
<1> DEFINE new == Relaxed(s, g, old.head, p)
           change == Change(old.head[p], new)
<1>1. old.head \in Heads(s, g.zone) /\ old.delta \in Nat /\ old.head[p] \in Int
  BY DEF SweepState, Heads
<1>2. new \in Int /\ [old.head EXCEPT ![p] = new] \in Heads(s, g.zone)
  BY <1>1, RelaxedKeeps
<1> HIDE DEF new
<1>3. change \in Nat
  BY <1>1, <1>2 DEF Change
<1> HIDE DEF change
<1>4. Max({old.delta, change}) \in Nat
  BY <1>1, <1>3, MaxOfTwo
<1>5. SweptNode(s, g, p, old) =
        [head |-> [old.head EXCEPT ![p] = new],
         delta |-> IF IsFree(s, g, p) THEN Max({old.delta, change}) ELSE old.delta]
  BY DEF SweptNode, new, change
<1> QED BY <1>1, <1>2, <1>4, <1>5 DEF SweepState

\* The turns of a sweep, as the function its definition chooses.
Sweeping(s, g) ==
  LET after[n \in 0 .. Len(Interior(s))] ==
        IF n = 0 THEN [head |-> g.head, delta |-> 0]
        ELSE SweptNode(s, g, Interior(s)[n], after[n - 1])
  IN  after

LEMMA SweepTurns ==
  ASSUME NEW s \in SolverRecord, NEW g \in GridRecord(s), g.head \in Heads(s, g.zone)
  PROVE  LET f == Sweeping(s, g)  len == Len(Interior(s)) IN
         /\ Sweep(s, g) = f[len]
         /\ f[0] = [head |-> g.head, delta |-> 0]
         /\ \A n \in 1 .. len : f[n] = SweptNode(s, g, Interior(s)[n], f[n - 1])
         /\ \A n \in 0 .. len : f[n] \in SweepState(s, g)
<1> DEFINE len == Len(Interior(s))
           nodes == Interior(s)
           start == [head |-> g.head, delta |-> 0]
           State == SweepState(s, g)
           f == Sweeping(s, g)
           turn == [n \in 1 .. len |-> [x \in State |-> SweptNode(s, g, nodes[n], x)]]
<1>1. len \in Nat /\ start \in State
  BY InteriorTyped DEF SweepState
<1>2. \A n \in 1 .. len : \A x \in State : SweptNode(s, g, nodes[n], x) \in State
  BY InteriorTyped, SweptNodeTyped
<1>3. turn \in [1 .. len -> [State -> State]]
  BY <1>2
<1>4. PICK run \in [0 .. len -> State] :
        run[0] = start /\ \A n \in 1 .. len : run[n] = turn[n][run[n - 1]]
  <2>1. IsLoop(State, start, len, turn)
    BY <1>1, <1>3 DEF IsLoop
  <2> HIDE DEF turn, State, start, len
  <2> QED BY <2>1, LoopExists
<1> HIDE DEF len, nodes, start, State
<1>5. run = [n \in 0 .. len |-> IF n = 0 THEN start ELSE SweptNode(s, g, nodes[n], run[n - 1])]
  <2>1. \A n \in 0 .. len :
          run[n] = IF n = 0 THEN start ELSE SweptNode(s, g, nodes[n], run[n - 1])
    <3> TAKE n \in 0 .. len
    <3>1. CASE n = 0
      BY <1>4, <3>1
    <3>2. CASE n # 0
      <4>1. n \in 1 .. len /\ n - 1 \in 0 .. len /\ run[n - 1] \in State
        BY <1>1, <3>2
      <4>2. run[n] = turn[n][run[n - 1]]
        BY <1>4, <4>1
      <4> QED BY <3>2, <4>1, <4>2
    <3> QED BY <3>1, <3>2
  <2> QED BY <2>1
<1>6. f = [n \in 0 .. len |-> IF n = 0 THEN start ELSE SweptNode(s, g, nodes[n], f[n - 1])]
  BY <1>5, Zenon DEF Sweeping, len, nodes, start
<1> HIDE DEF f
<1>7. f[0] = start /\ \A n \in 1 .. len : f[n] = SweptNode(s, g, nodes[n], f[n - 1])
  BY <1>1, <1>6
<1>8. \A n \in 0 .. len : f[n] \in State
  <2> DEFINE S == {n \in 0 .. len : f[n] \in State}
  <2>1. 0 \in S
    BY <1>1, <1>7
  <2>2. \A n \in 1 .. len : n - 1 \in S => n \in S
    BY <1>1, <1>2, <1>7
  <2> HIDE DEF S
  <2>3. \A n \in 0 .. len : n \in S
    BY <1>1, <2>1, <2>2, LoopInduction
  <2> QED BY <2>3 DEF S
<1>9. Sweep(s, g) = f[len]
  BY DEF Sweep, f, Sweeping, len
<1> QED BY <1>7, <1>8, <1>9 DEF f, len, nodes, start, State

\* A sweep leaves heads within their bounds.
LEMMA SweepTyped ==
  ASSUME NEW s \in SolverRecord, NEW g \in GridRecord(s), g.head \in Heads(s, g.zone)
  PROVE  Sweep(s, g) \in SweepState(s, g)
<1>1. Len(Interior(s)) \in 0 .. Len(Interior(s))
  BY InteriorTyped
<1> QED BY <1>1, SweepTurns

Correcting(s, g) ==
  LET after[n \in 0 .. Len(Interior(s))] ==
        IF n = 0 THEN g.head
        ELSE CorrectedNode(s, g, Interior(s)[n], after[n - 1])
  IN  after

LEMMA CorrectionTurns ==
  ASSUME NEW s \in SolverRecord, NEW g \in GridRecord(s), g.head \in Heads(s, g.zone)
  PROVE  LET f == Correcting(s, g)  len == Len(Interior(s)) IN
         /\ Correction(s, g) = f[len]
         /\ f[0] = g.head
         /\ \A n \in 1 .. len : f[n] = CorrectedNode(s, g, Interior(s)[n], f[n - 1])
         /\ \A n \in 0 .. len : f[n] \in Heads(s, g.zone)
<1> DEFINE len == Len(Interior(s))
           nodes == Interior(s)
           start == g.head
           State == Heads(s, g.zone)
           f == Correcting(s, g)
           turn == [n \in 1 .. len |-> [x \in State |-> CorrectedNode(s, g, nodes[n], x)]]
<1>1. len \in Nat /\ start \in State
  BY InteriorTyped
<1>2. \A n \in 1 .. len : \A x \in State : CorrectedNode(s, g, nodes[n], x) \in State
  BY InteriorTyped, CorrectedKeeps DEF CorrectedNode
<1>3. turn \in [1 .. len -> [State -> State]]
  BY <1>2
<1>4. PICK run \in [0 .. len -> State] :
        run[0] = start /\ \A n \in 1 .. len : run[n] = turn[n][run[n - 1]]
  <2>1. IsLoop(State, start, len, turn)
    BY <1>1, <1>3 DEF IsLoop
  <2> HIDE DEF turn, State, start, len
  <2> QED BY <2>1, LoopExists
<1> HIDE DEF len, nodes, start, State
<1>5. run = [n \in 0 .. len |->
               IF n = 0 THEN start ELSE CorrectedNode(s, g, nodes[n], run[n - 1])]
  <2>1. \A n \in 0 .. len :
          run[n] = IF n = 0 THEN start ELSE CorrectedNode(s, g, nodes[n], run[n - 1])
    <3> TAKE n \in 0 .. len
    <3>1. CASE n = 0
      BY <1>4, <3>1
    <3>2. CASE n # 0
      <4>1. n \in 1 .. len /\ n - 1 \in 0 .. len /\ run[n - 1] \in State
        BY <1>1, <3>2
      <4>2. run[n] = turn[n][run[n - 1]]
        BY <1>4, <4>1
      <4> QED BY <3>2, <4>1, <4>2
    <3> QED BY <3>1, <3>2
  <2> QED BY <2>1
<1>6. f = [n \in 0 .. len |->
             IF n = 0 THEN start ELSE CorrectedNode(s, g, nodes[n], f[n - 1])]
  BY <1>5, Zenon DEF Correcting, len, nodes, start
<1> HIDE DEF f
<1>7. f[0] = start /\ \A n \in 1 .. len : f[n] = CorrectedNode(s, g, nodes[n], f[n - 1])
  BY <1>1, <1>6
<1>8. \A n \in 0 .. len : f[n] \in State
  <2> DEFINE S == {n \in 0 .. len : f[n] \in State}
  <2>1. 0 \in S
    BY <1>1, <1>7
  <2>2. \A n \in 1 .. len : n - 1 \in S => n \in S
    BY <1>1, <1>2, <1>7
  <2> HIDE DEF S
  <2>3. \A n \in 0 .. len : n \in S
    BY <1>1, <2>1, <2>2, LoopInduction
  <2> QED BY <2>3 DEF S
<1>9. Correction(s, g) = f[len]
  BY DEF Correction, f, Correcting, len
<1> QED BY <1>7, <1>8, <1>9 DEF f, len, nodes, start, State

\* A correction leaves heads within their bounds.
LEMMA CorrectionTyped ==
  ASSUME NEW s \in SolverRecord, NEW g \in GridRecord(s), g.head \in Heads(s, g.zone)
  PROVE  Correction(s, g) \in Heads(s, g.zone)
<1>1. Len(Interior(s)) \in 0 .. Len(Interior(s))
  BY InteriorTyped
<1> QED BY <1>1, CorrectionTurns

----------------------------------------------------------------------------
(***************************************************************************)
(* The grid a task starts with.                                            *)
(***************************************************************************)
LEMMA NewGridTyped ==
  ASSUME NEW s \in SolverRecord
  PROVE  /\ NewGrid(s) \in GridRecord(s)
         /\ \A p \in Area(s) : NewGrid(s).head[p] = 0
<1>1. \A p \in Area(s) : Zone(s, p) \in 0 .. 4
  BY DEF Zone
<1>2. \A p \in Area(s) : Zone(s, p) = 4 => s.blanket.perm > 0
  <2>1. \A p \in Area(s) : Zone(s, p) = 4 => InBlanket(s, p)
    BY DEF Zone
  <2> QED BY <2>1, SolverTyped DEF InBlanket, BlanketRecord
<1> DEFINE g == NewGrid(s)
<1>3. g = [ zone    |-> [p \in Area(s) |-> Zone(s, p)],
            contact |-> {p \in Area(s) : AtContact(s, p)},
            head    |-> [p \in Area(s) |-> 0] ]
  BY DEF NewGrid, Area
<1> HIDE DEF g
<1>4. g.zone \in [Area(s) -> 0 .. 4] /\ g.contact \in SUBSET Area(s)
      /\ g.head \in [Area(s) -> Int]
  BY <1>1, <1>3
<1>5. g \in [zone : [Area(s) -> 0 .. 4], contact : SUBSET Area(s), head : [Area(s) -> Int]]
  BY <1>3, <1>4
<1>6. \A p \in Area(s) : g.zone[p] = 4 => s.blanket.perm > 0
  BY <1>2, <1>3
<1>7. \A p \in Area(s) : g.head[p] = 0
  BY <1>3
<1> QED BY <1>5, <1>6, <1>7 DEF GridRecord, g

LEMMA InitialHeadBounds ==
  ASSUME NEW s \in SolverRecord, NEW p \in Area(s)
  PROVE  InitialHead(s, p) \in Low(s) .. High(s)
<1> DEFINE len  == Geometry.length
           x    == X(s, p[1])
           fall == (s.up - s.down) * x
           plus == (s.up + s.down) \div 20
<1>1. len \in Nat \ {0} /\ x \in 0 .. len /\ s.up \in Nat /\ s.down \in Nat
  BY GeometryTyped, Coordinates, AreaPoints, SolverTyped
<1> HIDE DEF len, x
<1>2. plus \in Int /\ 0 <= plus
  BY <1>1, DivBounds
<1> HIDE DEF plus
<1>3. fall \in Int
  BY <1>1
<1>4. /\ fall \div len \in Int
      /\ s.up >= s.down => 0 <= fall \div len /\ fall \div len <= s.up - s.down
      /\ s.up < s.down => s.up - s.down <= fall \div len /\ fall \div len <= 0
  <2>1. CASE s.up >= s.down
    <3>1. 0 * len <= fall /\ fall <= (s.up - s.down) * len
      BY <1>1, <2>1, Times
    <3> HIDE DEF fall
    <3> QED BY <1>1, <1>3, <2>1, <3>1, DivBounds
  <2>2. CASE s.up < s.down
    <3>1. (s.down - s.up) * x <= (s.down - s.up) * len /\ 0 <= (s.down - s.up) * x
      BY <1>1, <2>2, Times
    <3>2. fall = - ((s.down - s.up) * x)
          /\ (s.up - s.down) * len = - ((s.down - s.up) * len)
      BY <1>1
    <3>3. (s.up - s.down) * len <= fall /\ fall <= 0 * len
      BY <1>1, <3>1, <3>2
    <3> HIDE DEF fall
    <3> QED BY <1>1, <1>3, <2>2, <3>3, DivBounds
  <2> QED BY <1>1, <2>1, <2>2
<1>5. /\ (3 * fall) \div (10 * len) \in Int
      /\ s.up >= s.down => /\ 0 <= (3 * fall) \div (10 * len)
                           /\ (3 * fall) \div (10 * len) <= s.up - s.down
      /\ s.up < s.down => /\ s.up - s.down <= (3 * fall) \div (10 * len)
                          /\ (3 * fall) \div (10 * len) <= 0
  <2> DEFINE wide  == 10 * len
             steep == 3 * fall
  <2>1. wide \in Nat \ {0} /\ steep \in Int
    BY <1>1, <1>3
  <2>2. CASE s.up >= s.down
    <3>1. 0 <= fall /\ fall <= (s.up - s.down) * len /\ (s.up - s.down) * len \in Nat
      BY <1>1, <2>2, Times
    <3>2. (s.up - s.down) * wide = 10 * ((s.up - s.down) * len)
      BY <1>1
    <3>3. 0 * wide <= steep /\ steep <= (s.up - s.down) * wide
      BY <1>1, <1>3, <3>1, <3>2
    <3> HIDE DEF wide, steep
    <3>4. /\ steep \div wide \in Int
          /\ 0 <= steep \div wide /\ steep \div wide <= s.up - s.down
      BY <1>1, <2>1, <2>2, <3>3, DivBounds
    <3> QED BY <1>1, <2>2, <3>4 DEF wide, steep
  <2>3. CASE s.up < s.down
    <3>1. (s.down - s.up) * x <= (s.down - s.up) * len /\ 0 <= (s.down - s.up) * x
          /\ (s.down - s.up) * len \in Nat
      BY <1>1, <2>3, Times
    <3>2. fall = - ((s.down - s.up) * x)
          /\ (s.up - s.down) * wide = - (10 * ((s.down - s.up) * len))
      BY <1>1
    <3>3. (s.up - s.down) * wide <= steep /\ steep <= 0 * wide
      BY <1>1, <1>3, <3>1, <3>2
    <3> HIDE DEF wide, steep
    <3>4. /\ steep \div wide \in Int
          /\ s.up - s.down <= steep \div wide /\ steep \div wide <= 0
      BY <1>1, <2>1, <2>3, <3>3, DivBounds
    <3> QED BY <1>1, <2>3, <3>4 DEF wide, steep
  <2> QED BY <1>1, <2>2, <2>3
<1>6. InitialHead(s, p) = IF Y(s, p[2]) <= Y(s, 1)
                          THEN s.up - (3 * fall) \div (10 * len) + plus
                          ELSE s.up - fall \div len
  BY DEF InitialHead, fall, len, x, plus
<1> HIDE DEF fall
<1>7. Low(s) = (IF s.up < s.down THEN s.up ELSE s.down)
      /\ High(s) = (IF s.up < s.down THEN s.down ELSE s.up) + plus
  BY DEF Low, High, plus
<1> QED BY <1>1, <1>2, <1>4, <1>5, <1>6, <1>7

\* The heads a run starts from are within the bounds.
LEMMA AllocatedTyped ==
  ASSUME NEW s \in SolverRecord
  PROVE  /\ Allocated(s) \in GridRecord(s)
         /\ Allocated(s).head \in Heads(s, Allocated(s).zone)
<1> DEFINE n == NewGrid(s)
           head == [p \in DOMAIN n.head |->
                      IF ~ InDomain(n, p) THEN n.head[p]
                      ELSE IF IsPrescribed(s, p) THEN PrescribedLevel(s, p)
                      ELSE InitialHead(s, p)]
           g == [n EXCEPT !.head = head]
<1>1. Allocated(s) = g
  BY DEF Allocated, SetBoundaryConditions
<1>2. n \in GridRecord(s) /\ \A p \in Area(s) : n.head[p] = 0
  BY NewGridTyped
<1> HIDE DEF n
<1>3. DOMAIN n.head = Area(s) /\ \A p \in Area(s) : InDomain(n, p) <=> n.zone[p] # 0
  BY <1>2 DEF GridRecord, InDomain
<1>4. \A p \in Area(s) :
        /\ head[p] \in Int
        /\ IF n.zone[p] = 0 THEN head[p] = 0
           ELSE /\ Low(s) <= head[p] /\ head[p] <= High(s)
                /\ IsPrescribed(s, p) => head[p] = PrescribedLevel(s, p)
  <2> TAKE p \in Area(s)
  <2>1. CASE n.zone[p] = 0
    BY <1>2, <1>3, <2>1
  <2>2. CASE n.zone[p] # 0 /\ IsPrescribed(s, p)
    <3>1. head[p] = PrescribedLevel(s, p)
      BY <1>3, <2>2
    <3> HIDE DEF head
    <3> QED BY <2>2, <3>1, Prescribed, SolverTyped
  <2>3. CASE n.zone[p] # 0 /\ ~ IsPrescribed(s, p)
    <3>1. head[p] = InitialHead(s, p)
      BY <1>3, <2>3
    <3> HIDE DEF head
    <3> QED BY <2>3, <3>1, InitialHeadBounds, SolverTyped
  <2> QED BY <2>1, <2>2, <2>3
<1>5. DOMAIN head = Area(s)
  BY <1>3
<1>6. head \in [Area(s) -> Int]
  <2>1. head = [p \in Area(s) |-> head[p]]
    BY <1>3
  <2> HIDE DEF head
  <2> QED BY <1>4, <2>1
<1> HIDE DEF head
<1>7. head \in Heads(s, n.zone)
  BY <1>4, <1>6 DEF Heads
<1>8. g \in GridRecord(s) /\ g.zone = n.zone /\ g.head = head
  BY <1>2, <1>6 DEF GridRecord
<1> QED BY <1>1, <1>7, <1>8

----------------------------------------------------------------------------
(***************************************************************************)
(* The invariant: types, and the bounds of the heads while a task is being *)
(* solved.                                                                 *)
(***************************************************************************)
AnyGrid == UNION {GridRecord(s) : s \in SolverRecord}

Shape ==
  /\ levels \in Levels
  /\ task \in {"baseline", "search", "final", "simulate"}
  /\ pc \in {"ready", "sweep", "correct", "solved"}
  /\ running \in {"base", "local"}
  /\ solvers \in [base : SolverRecord, local : SolverRecord]
  /\ grids \in Seq(AnyGrid)
  /\ iter \in 0 .. MaxIter
  /\ pc \in {"sweep", "correct"} => iter < MaxIter
  /\ delta \in Nat
  /\ results \in Seq(ToSet(results))
  /\ \A k \in DOMAIN results : results[k].blanket \in Nat \X Nat

\* A solver that has a grid has one laid out for it, and no other solver has it.
Owned ==
  /\ \A o \in {"base", "local"} :
       /\ solvers[o].grid \in 0 .. Len(grids)
       /\ solvers[o].grid # 0 => grids[solvers[o].grid] \in GridRecord(solvers[o])
  /\ solvers["base"].grid = solvers["local"].grid => solvers["base"].grid = 0

\* A task that is being solved works on its levels, within the bounds.
Bounded ==
  pc # "ready" =>
    /\ Solver.up = levels[1] /\ Solver.down = levels[2]
    /\ Solver.grid = Len(grids) /\ Solver.grid # 0
    /\ Grid.head \in Heads(Solver, Grid.zone)

\* How many results there are, from the part of the task.
Counted ==
  LET n == Len(results) + (IF pc = "ready" THEN 0 ELSE 1) IN
  /\ task = "baseline" => n = 0
  /\ task = "simulate" => n <= 1
  /\ task = "search"   => n <= MaxEvaluations + 1
  /\ n <= MaxEvaluations + 2

Reported ==
  \A k \in DOMAIN results : results[k].pore <= HighestHead + Geometry.depth

SInv == Shape /\ Owned /\ Bounded /\ Counted /\ Reported

----------------------------------------------------------------------------
(***************************************************************************)
(* Sequences and maxima.                                                   *)
(***************************************************************************)
LEMMA AppendTyped ==
  ASSUME NEW S, NEW q \in Seq(S), NEW e
  PROVE  /\ Append(q, e) \in Seq(S \union {e})
         /\ Len(Append(q, e)) = Len(q) + 1 /\ Len(q) \in Nat
         /\ DOMAIN q = 1 .. Len(q)
         /\ DOMAIN Append(q, e) = 1 .. Len(q) + 1
         /\ \A k \in 1 .. Len(q) : Append(q, e)[k] = q[k]
         /\ Append(q, e)[Len(q) + 1] = e
<1>1. q \in Seq(S \union {e}) /\ e \in S \union {e}
  OBVIOUS
<1> QED BY <1>1

LEMMA ReplaceTyped ==
  ASSUME NEW S, NEW q \in Seq(S), NEW n \in 1 .. Len(q), NEW e \in S
  PROVE  LET r == [q EXCEPT ![n] = e] IN
         /\ r \in Seq(S) /\ Len(r) = Len(q) /\ r[n] = e
         /\ \A k \in 1 .. Len(q) : k # n => r[k] = q[k]
<1>1. Len(q) \in Nat /\ q \in [1 .. Len(q) -> S]
  OBVIOUS
<1>2. [q EXCEPT ![n] = e] \in [1 .. Len(q) -> S]
  BY <1>1
<1>3. [q EXCEPT ![n] = e] \in Seq(S)
  BY <1>1, <1>2
<1>4. Len([q EXCEPT ![n] = e]) = Len(q)
  BY <1>1, <1>2, <1>3
<1> QED BY <1>1, <1>2, <1>3, <1>4

LEMMA MaxMember ==
  ASSUME NEW S \in SUBSET Int, S # {}, NEW b \in Int, \A x \in S : x <= b
  PROVE  Max(S) \in S /\ \A x \in S : Max(S) >= x
<1> DEFINE Gaps == {b - x : x \in S}
<1>1. Gaps \subseteq Nat /\ Gaps # {}
  <2>1. \A x \in S : b - x \in Nat
    OBVIOUS
  <2>2. PICK x \in S : TRUE
    OBVIOUS
  <2>3. b - x \in Gaps
    OBVIOUS
  <2> QED BY <2>1, <2>3
<1>2. PICK m \in Gaps : \A k \in Gaps : ~ (<<k, m>> \in OpToRel(<, Nat))
  BY <1>1, NatLessThanWellFounded, WFMin
<1>3. \A k \in Gaps : ~ (k < m)
  BY <1>1, <1>2 DEF OpToRel
<1>4. PICK x \in S : m = b - x
  OBVIOUS
<1>5. \A y \in S : x >= y
  <2> TAKE y \in S
  <2>1. b - y \in Gaps /\ ~ (b - y < b - x)
    BY <1>3, <1>4
  <2> QED BY <2>1
<1> QED BY <1>5 DEF Max

\* No pore pressure exceeds the column of the highest head.
LEMMA PoreBounded ==
  ASSUME NEW s \in SolverRecord, NEW g \in GridRecord(s), g.head \in Heads(s, g.zone)
  PROVE  MaxPorePressure(s, g) <= High(s) + Geometry.depth
<1> DEFINE S == {PorePressure(s, g, p) : p \in DOMAIN g.zone}
           b == High(s) + Geometry.depth
<1>1. DOMAIN g.zone = Area(s) /\ g.head \in [Area(s) -> Int]
  BY DEF GridRecord
<1>2. b \in Nat /\ High(s) \in Nat /\ Geometry.depth \in Nat
  BY SolverTyped, GeometryTyped
<1>3. ASSUME NEW p \in Area(s)
      PROVE  PorePressure(s, g, p) \in Int /\ PorePressure(s, g, p) <= b
  <2>1. Y(s, p[2]) \in Int /\ Y(s, p[2]) >= - Geometry.depth
    BY Coordinates, AreaPoints
  <2>2. g.head[p] \in Int /\ (InDomain(g, p) => g.head[p] <= High(s))
    BY <1>1 DEF Heads, InDomain
  <2> DEFINE d == g.head[p] - Y(s, p[2])
  <2>3. d \in Int /\ (InDomain(g, p) => d <= b)
    BY <1>2, <2>1, <2>2
  <2> HIDE DEF d, b
  <2>4. PorePressure(s, g, p) = 0 \/ (InDomain(g, p) /\ PorePressure(s, g, p) = Max({d, 0}))
    <3> DEFINE c == p \in ToSet(Interior(s)) /\ InDomain(g, p)
    <3>1. PorePressure(s, g, p) = IF c THEN Max({d, 0}) ELSE 0
      BY DEF PorePressure, d
    <3>2. c \in BOOLEAN /\ (c => InDomain(g, p))
      BY DEF InDomain
    <3> HIDE DEF c
    <3> QED BY <3>1, <3>2
  <2>5. Max({d, 0}) = IF d < 0 THEN 0 ELSE d
    BY <2>3, MaxOfTwo
  <2> QED BY <1>2, <2>3, <2>4, <2>5
<1>4. S \in SUBSET Int /\ \A x \in S : x <= b
  BY <1>1, <1>3
<1>5. S # {}
  <2>1. <<0, 0>> \in Area(s)
    BY SolverTyped DEF Area, Nodes
  <2> QED BY <1>1, <2>1
<1> HIDE DEF S, b
<1>6. Max(S) \in S
  BY <1>2, <1>4, <1>5, MaxMember
<1> QED BY <1>4, <1>6 DEF MaxPorePressure, S, b

----------------------------------------------------------------------------
(***************************************************************************)
(* Which of a solver's fields the grid depends on.                         *)
(***************************************************************************)
Twins(s, t) ==
  /\ s \in SolverRecord /\ t \in SolverRecord
  /\ t.up = s.up /\ t.down = s.down /\ t.nx = s.nx /\ t.ny = s.ny
  /\ t.blanket = s.blanket

LEMMA TwinPlaces ==
  ASSUME NEW s, NEW t, Twins(s, t)
  PROVE  /\ \A i : X(t, i) = X(s, i)
         /\ \A j : Y(t, j) = Y(s, j)
         /\ Area(t) = Area(s) /\ Interior(t) = Interior(s)
         /\ \A p : /\ HasUpstreamLevel(t, p) <=> HasUpstreamLevel(s, p)
                   /\ IsPrescribed(t, p) <=> IsPrescribed(s, p)
                   /\ PrescribedLevel(t, p) = PrescribedLevel(s, p)
         /\ GridRecord(t) = GridRecord(s)
         /\ \A z : Heads(t, z) = Heads(s, z)
<1>1. /\ t.up = s.up /\ t.down = s.down /\ t.nx = s.nx /\ t.ny = s.ny
      /\ t.blanket = s.blanket
  BY DEF Twins
<1>2. Area(t) = Area(s) /\ Low(t) = Low(s) /\ High(t) = High(s)
  BY <1>1 DEF Area, Low, High
<1>3. GridRecord(t) = GridRecord(s)
  BY <1>1, <1>2 DEF GridRecord
<1>4. (\A i : X(t, i) = X(s, i)) /\ (\A j : Y(t, j) = Y(s, j))
  BY <1>1 DEF X, Y
<1>5. \A p : HasUpstreamLevel(t, p) <=> HasUpstreamLevel(s, p)
  BY <1>1, <1>4 DEF HasUpstreamLevel
<1>6. \A p : HasDownstreamLevel(t, p) <=> HasDownstreamLevel(s, p)
  BY <1>1, <1>4 DEF HasDownstreamLevel
<1>7. \A p : /\ IsPrescribed(t, p) <=> IsPrescribed(s, p)
             /\ PrescribedLevel(t, p) = PrescribedLevel(s, p)
  BY <1>1, <1>5, <1>6 DEF IsPrescribed, PrescribedLevel
<1>8. \A z : Heads(t, z) = Heads(s, z)
  BY <1>2, <1>7 DEF Heads
<1>9. Interior(t) = Interior(s)
  BY <1>1 DEF Interior
<1> QED BY <1>2, <1>3, <1>4, <1>5, <1>7, <1>8, <1>9

LEMMA TwinGrids ==
  ASSUME NEW s, NEW t, Twins(s, t)
  PROVE  Allocated(t) = Allocated(s)
<1>1. /\ t.up = s.up /\ t.down = s.down /\ t.nx = s.nx /\ t.ny = s.ny
      /\ t.blanket = s.blanket
  BY DEF Twins
<1>2. (\A i : X(t, i) = X(s, i)) /\ (\A j : Y(t, j) = Y(s, j))
  BY TwinPlaces
<1>3. \A p : InBlanket(t, p) <=> InBlanket(s, p)
  BY <1>1, <1>2 DEF InBlanket
<1>4. \A p : InDamBody(t, p) <=> InDamBody(s, p)
  BY <1>2 DEF InDamBody
<1>5. \A p : InFoundation(t, p) <=> InFoundation(s, p)
  BY <1>2 DEF InFoundation
<1>6. \A p : AtContact(t, p) <=> AtContact(s, p)
  BY <1>2, <1>4, <1>5 DEF AtContact
<1>7. \A p : Zone(t, p) = Zone(s, p)
  BY <1>3, <1>4, <1>5, <1>6 DEF Zone
<1>8. NewGrid(t) = NewGrid(s)
  BY <1>1, <1>6, <1>7 DEF NewGrid
<1>9. \A p : InitialHead(t, p) = InitialHead(s, p)
  BY <1>1, <1>2 DEF InitialHead
<1>10. \A g : SetBoundaryConditions(t, g) = SetBoundaryConditions(s, g)
  BY <1>9, TwinPlaces DEF SetBoundaryConditions
<1> QED BY <1>8, <1>10 DEF Allocated

LEMMA TwinNodes ==
  ASSUME NEW s, NEW t, Twins(s, t)
  PROVE  /\ \A g, p, old : SweptNode(t, g, p, old) = SweptNode(s, g, p, old)
         /\ \A g, p, h : CorrectedNode(t, g, p, h) = CorrectedNode(s, g, p, h)
<1>1. t.nx = s.nx /\ t.ny = s.ny /\ t.blanket = s.blanket
  BY DEF Twins
<1>2. \A g, p : PointPermeability(t, g, p) = PointPermeability(s, g, p)
  BY <1>1 DEF PointPermeability
<1>3. \A g, p, q : Conductance(t, g, p, q) = Conductance(s, g, p, q)
  BY <1>1, <1>2 DEF Conductance
<1>4. \A g, h, p : Mean(t, g, h, p) = Mean(s, g, h, p)
  BY <1>3 DEF Mean, SumAround
<1>5. \A g, h, p : Relaxed(t, g, h, p) = Relaxed(s, g, h, p)
  BY <1>4, TwinPlaces DEF Relaxed
<1>6. \A g, p : IsFree(t, g, p) <=> IsFree(s, g, p)
  BY TwinPlaces DEF IsFree
<1>7. \A g, p, old : SweptNode(t, g, p, old) = SweptNode(s, g, p, old)
  BY <1>5, <1>6 DEF SweptNode
<1>8. \A g, h, p : WetAround(t, g, h, p) = WetAround(s, g, h, p)
  BY TwinPlaces DEF WetAround
<1>9. \A g, h, p : Corrected(t, g, h, p) = Corrected(s, g, h, p)
  BY <1>8, TwinPlaces DEF Corrected, SumAround
<1>10. \A g, p, h : CorrectedNode(t, g, p, h) = CorrectedNode(s, g, p, h)
  BY <1>9 DEF CorrectedNode
<1> QED BY <1>7, <1>10

LEMMA TwinPasses ==
  ASSUME NEW s, NEW t, Twins(s, t), NEW g \in GridRecord(s), g.head \in Heads(s, g.zone)
  PROVE  Sweep(t, g) = Sweep(s, g) /\ Correction(t, g) = Correction(s, g)
<1> DEFINE len == Len(Interior(s))
           nodes == Interior(s)
<1>1. s \in SolverRecord /\ t \in SolverRecord /\ g \in GridRecord(t)
      /\ g.head \in Heads(t, g.zone) /\ Interior(t) = nodes
  BY TwinPlaces DEF Twins
<1>2. len \in Nat
  BY <1>1, InteriorTyped
<1> HIDE DEF nodes, len
<1>3. Sweep(t, g) = Sweep(s, g)
  <2> DEFINE a == Sweeping(s, g)
             b == Sweeping(t, g)
             S == {n \in 0 .. len : a[n] = b[n]}
  <2>1. /\ Sweep(s, g) = a[len] /\ a[0] = [head |-> g.head, delta |-> 0]
        /\ \A n \in 1 .. len : a[n] = SweptNode(s, g, nodes[n], a[n - 1])
    BY <1>1, SweepTurns DEF len, nodes
  <2>2. /\ Sweep(t, g) = b[len] /\ b[0] = [head |-> g.head, delta |-> 0]
        /\ \A n \in 1 .. len : b[n] = SweptNode(t, g, nodes[n], b[n - 1])
    BY <1>1, SweepTurns DEF len, nodes
  <2> HIDE DEF a, b
  <2>3. 0 \in S
    BY <1>2, <2>1, <2>2
  <2>4. \A n \in 1 .. len : n - 1 \in S => n \in S
    BY <2>1, <2>2, TwinNodes
  <2> HIDE DEF S
  <2>5. len \in S
    BY <1>2, <2>3, <2>4, LoopInduction
  <2> QED BY <2>1, <2>2, <2>5 DEF S
<1>4. Correction(t, g) = Correction(s, g)
  <2> DEFINE a == Correcting(s, g)
             b == Correcting(t, g)
             S == {n \in 0 .. len : a[n] = b[n]}
  <2>1. /\ Correction(s, g) = a[len] /\ a[0] = g.head
        /\ \A n \in 1 .. len : a[n] = CorrectedNode(s, g, nodes[n], a[n - 1])
    BY <1>1, CorrectionTurns DEF len, nodes
  <2>2. /\ Correction(t, g) = b[len] /\ b[0] = g.head
        /\ \A n \in 1 .. len : b[n] = CorrectedNode(t, g, nodes[n], b[n - 1])
    BY <1>1, CorrectionTurns DEF len, nodes
  <2> HIDE DEF a, b
  <2>3. 0 \in S
    BY <1>2, <2>1, <2>2
  <2>4. \A n \in 1 .. len : n - 1 \in S => n \in S
    BY <2>1, <2>2, TwinNodes
  <2> HIDE DEF S
  <2>5. len \in S
    BY <1>2, <2>3, <2>4, LoopInduction
  <2> QED BY <2>1, <2>2, <2>5 DEF S
<1> QED BY <1>3, <1>4

LEMMA GridNumber ==
  ASSUME NEW s \in SolverRecord, NEW n \in Nat, NEW t, t = [s EXCEPT !.grid = n]
  PROVE  /\ Twins(s, t) /\ t.grid = n
         /\ GridRecord(t) = GridRecord(s)
         /\ \A z : Heads(t, z) = Heads(s, z)
<1>1. Twins(s, t) /\ t.grid = n
  BY DEF SolverRecord, Twins
<1> QED BY <1>1, TwinPlaces

LEMMA BlanketTyped ==
  /\ NoBlanket \in BlanketRecord /\ NoBlanket.enabled = FALSE
  /\ \A b \in Nat \X Nat :
       /\ Blanket(b, K \div DefaultRatio) \in BlanketRecord
       /\ Blanket(b, K \div BlanketRatio) \in BlanketRecord
<1>1. \A b \in Nat \X Nat : \A k \in Nat \ {0} : Blanket(b, k) \in BlanketRecord
  BY DEF Blanket, BlanketRecord
<1> QED BY <1>1, RatiosTyped DEF NoBlanket, BlanketRecord

LEMMA RequestedTyped ==
  ASSUME NEW s \in SolverRecord, NEW size \in {Coarse, Fine}, NEW blanket \in BlanketRecord,
         levels \in Levels
  PROVE  LET t == Requested(s, size, blanket) IN
         /\ t \in SolverRecord
         /\ t.up = levels[1] /\ t.down = levels[2]
         /\ t.nx = size[1] /\ t.ny = size[2]
         /\ t.blanket = IF blanket.enabled THEN blanket ELSE s.blanket
<1>1. levels \in Nat \X Nat /\ size \in Nat \X Nat /\ size = <<size[1], size[2]>>
  BY SeepageSolverAssumption
<1> QED BY <1>1 DEF Requested, SolverRecord

----------------------------------------------------------------------------
(***************************************************************************)
(* Every step keeps the invariant.                                         *)
(***************************************************************************)
LEMMA LevelsTyped ==
  ASSUME levels \in Levels
  PROVE  /\ levels[1] \in Nat /\ levels[2] \in Nat
         /\ \A s \in SolverRecord : s.up = levels[1] /\ s.down = levels[2] =>
              /\ HighestHead = High(s)
              /\ Min({levels[1], levels[2]}) = Low(s)
<1>1. levels[1] \in Nat /\ levels[2] \in Nat
  BY SeepageSolverAssumption
<1>2. /\ Max({levels[1], levels[2]}) = IF levels[1] < levels[2] THEN levels[2] ELSE levels[1]
      /\ Min({levels[1], levels[2]}) = IF levels[1] < levels[2] THEN levels[1] ELSE levels[2]
  <2> DEFINE a == levels[1]
             b == levels[2]
  <2>1. a \in Int /\ b \in Int
    BY <1>1
  <2> HIDE DEF a, b
  <2>2. /\ Max({a, b}) = IF a < b THEN b ELSE a
        /\ Min({a, b}) = IF a < b THEN a ELSE b
    BY <2>1, MaxOfTwo
  <2> QED BY <2>2 DEF a, b
<1> SUFFICES ASSUME NEW s \in SolverRecord, s.up = levels[1], s.down = levels[2]
             PROVE  HighestHead = High(s) /\ Min({levels[1], levels[2]}) = Low(s)
  BY <1>1
<1>3. HighestHead = High(s)
  BY <1>2 DEF HighestHead, High
<1>4. Min({levels[1], levels[2]}) = Low(s)
  BY <1>2 DEF Low
<1> QED BY <1>3, <1>4

LEMMA SolverInit == Init => SInv
<1> SUFFICES ASSUME Init PROVE SInv
  OBVIOUS
<1> USE DEF Init
<1>1. ASSUME NEW blanket \in BlanketRecord PROVE NewSolver(blanket) \in SolverRecord
  <2>1. Fine \in Nat \X Nat
    BY SeepageSolverAssumption
  <2> QED BY <2>1 DEF NewSolver, SolverRecord
<1>2. PICK blanket \in {NoBlanket} \union
              {Blanket(b, K \div BlanketRatio) : b \in {c \in Blankets : task = "simulate"}} :
        solvers = [base |-> NewSolver(blanket), local |-> NewSolver(NoBlanket)]
  OBVIOUS
<1>3. blanket \in BlanketRecord /\ NoBlanket \in BlanketRecord
  BY BlanketTyped, SeepageSolverAssumption
<1>4. solvers \in [base : SolverRecord, local : SolverRecord]
  BY <1>1, <1>2, <1>3
<1>5. solvers["base"].grid = 0 /\ solvers["local"].grid = 0
  BY <1>2 DEF NewSolver
<1>6. Len(grids) = 0 /\ Len(results) = 0 /\ DOMAIN results = {}
  OBVIOUS
<1>7. MaxIter \in Nat \ {0}
  BY SeepageSolverAssumption
<1>8. Shape
  BY <1>4, <1>6, <1>7 DEF Shape
<1>9. Owned
  BY <1>5, <1>6 DEF Owned
<1>10. Bounded /\ Reported
  BY <1>6 DEF Bounded, Reported
<1>11. Counted
  <2>1. MaxEvaluations \in Nat
    BY SeepageSolverAssumption
  <2> QED BY <1>6, <2>1 DEF Counted
<1> QED BY <1>8, <1>9, <1>10, <1>11 DEF SInv

\* The new task has the levels, a grid of its own and heads within the bounds.
LEMMA RunningKept ==
  ASSUME SInv, NEW name \in {"base", "local"}, NEW s \in SolverRecord,
         NEW size \in {Coarse, Fine}, NEW blanket \in BlanketRecord,
         RunSimulation(name, s, size, blanket), levels' = levels
  PROVE  /\ pc = "ready" /\ pc' = "sweep" /\ running' \in {"base", "local"}
         /\ solvers' \in [base : SolverRecord, local : SolverRecord]
         /\ grids' \in Seq(AnyGrid)
         /\ iter' \in 0 .. MaxIter /\ iter' < MaxIter /\ delta' \in Nat
         /\ Owned' /\ Bounded'
<1> DEFINE r == Requested(s, size, blanket)
           n == Len(grids) + 1
           t == [r EXCEPT !.grid = n]
           g == Allocated(r)
<1>1. /\ pc = "ready" /\ pc' = "sweep" /\ running' = name /\ iter' = 0 /\ delta' = 0
      /\ solvers' = [solvers EXCEPT ![name] = t] /\ grids' = Append(grids, g)
  BY DEF RunSimulation
<1>2. levels \in Levels /\ grids \in Seq(AnyGrid) /\ Len(grids) \in Nat
      /\ solvers \in [base : SolverRecord, local : SolverRecord]
  BY DEF SInv, Shape
<1>3. r \in SolverRecord /\ r.up = levels[1] /\ r.down = levels[2]
  BY <1>2, RequestedTyped
<1> HIDE DEF r
<1>4. n \in Nat /\ n # 0
  BY <1>2
<1>5. g \in GridRecord(r) /\ g.head \in Heads(r, g.zone)
  BY <1>3, AllocatedTyped
<1> HIDE DEF g
<1>6. /\ t \in SolverRecord /\ t.grid = n
      /\ t.up = levels[1] /\ t.down = levels[2]
      /\ GridRecord(t) = GridRecord(r) /\ \A z : Heads(t, z) = Heads(r, z)
  BY <1>3, <1>4, GridNumber DEF Twins
<1> HIDE DEF t
<1>7. g \in AnyGrid
  BY <1>3, <1>5 DEF AnyGrid
<1>8. grids' \in Seq(AnyGrid) /\ Len(grids') = n /\ grids'[n] = g
      /\ \A k \in 1 .. Len(grids) : grids'[k] = grids[k]
  BY <1>1, <1>2, <1>7
<1>9. solvers' \in [base : SolverRecord, local : SolverRecord]
  BY <1>1, <1>2, <1>6
<1>10. solvers'[name] = t /\ \A o \in {"base", "local"} \ {name} : solvers'[o] = solvers[o]
  BY <1>1, <1>2
<1>11. Owned'
  <2>1. /\ \A o \in {"base", "local"} :
             /\ solvers[o].grid \in 0 .. Len(grids)
             /\ solvers[o].grid # 0 => grids[solvers[o].grid] \in GridRecord(solvers[o])
    BY DEF SInv, Owned
  <2>2. ASSUME NEW o \in {"base", "local"}
        PROVE  /\ solvers'[o].grid \in 0 .. Len(grids')
               /\ solvers'[o].grid # 0 => grids'[solvers'[o].grid] \in GridRecord(solvers'[o])
               /\ o # name => solvers'[o].grid # n
    <3>1. CASE o = name
      BY <1>4, <1>5, <1>6, <1>8, <1>10, <3>1
    <3>2. CASE o # name
      <4>1. solvers'[o] = solvers[o]
        BY <1>10, <3>2
      <4>2. solvers[o].grid # 0 => grids'[solvers[o].grid] = grids[solvers[o].grid]
        BY <1>2, <1>8, <2>1
      <4> QED BY <1>2, <1>8, <2>1, <4>1, <4>2
    <3> QED BY <3>1, <3>2
  <2>3. solvers'["base"].grid # solvers'["local"].grid
    BY <1>6, <1>10, <2>2
  <2> QED BY <2>2, <2>3 DEF Owned
<1>12. Bounded'
  BY <1>1, <1>4, <1>5, <1>6, <1>8, <1>10 DEF Bounded, Solver, Grid
<1>13. MaxIter \in Nat \ {0}
  BY SeepageSolverAssumption
<1> QED BY <1>1, <1>8, <1>9, <1>11, <1>12, <1>13

LEMMA Requests ==
  ASSUME SInv
  PROVE  /\ solvers["base"] \in SolverRecord
         /\ \A b \in Blankets \union Evaluated \union {<<0, 0>>} :
              /\ Blanket(b, K \div DefaultRatio) \in BlanketRecord
              /\ [solvers["base"] EXCEPT !.blanket = Blanket(b, K \div BlanketRatio)]
                   \in SolverRecord
<1>1. solvers["base"] \in SolverRecord
  BY DEF SInv, Shape
<1>2. \A b \in Blankets \union Evaluated \union {<<0, 0>>} : b \in Nat \X Nat
  <2>1. \A b \in Blankets : b \in Nat \X Nat
    BY SeepageSolverAssumption
  <2>2. \A k \in 2 .. Len(results) : results[k].blanket \in Nat \X Nat
    <3>1. DOMAIN results = 1 .. Len(results) /\ Len(results) \in Nat
      BY AppendTyped DEF SInv, Shape
    <3> QED BY <3>1 DEF SInv, Shape
  <2> QED BY <2>1, <2>2 DEF Evaluated
<1>3. ASSUME NEW s \in SolverRecord, NEW b \in BlanketRecord
      PROVE  [s EXCEPT !.blanket = b] \in SolverRecord
  BY DEF SolverRecord
<1> QED BY <1>1, <1>2, <1>3, BlanketTyped

\* A step that starts a task.
LEMMA StartStep ==
  ASSUME SInv,
         \/ Simulate
         \/ SolveBaseline
         \/ \E b \in Blankets : Evaluate(b)
         \/ \E b \in Evaluated \union {<<0, 0>>} : SolveFinal(b)
  PROVE  SInv'
<1>1. NoBlanket \in BlanketRecord /\ Coarse \in {Coarse, Fine} /\ Fine \in {Coarse, Fine}
      /\ "base" \in {"base", "local"} /\ "local" \in {"base", "local"}
  BY BlanketTyped
<1>2. levels' = levels /\ results' = results
  BY DEF Simulate, SolveBaseline, Evaluate, SolveFinal
<1>3. \E name \in {"base", "local"} : \E s \in SolverRecord :
        \E size \in {Coarse, Fine} : \E blanket \in BlanketRecord :
          RunSimulation(name, s, size, blanket)
  <2>1. CASE Simulate
    BY <1>1, <2>1, Requests DEF Simulate
  <2>2. CASE SolveBaseline
    BY <1>1, <2>2, Requests DEF SolveBaseline
  <2>3. CASE \E b \in Blankets : Evaluate(b)
    BY <1>1, <2>3, Requests DEF Evaluate
  <2>4. CASE \E b \in Evaluated \union {<<0, 0>>} : SolveFinal(b)
    BY <1>1, <2>4, Requests DEF SolveFinal
  <2> QED BY <2>1, <2>2, <2>3, <2>4
<1>4. /\ pc = "ready" /\ pc' = "sweep" /\ running' \in {"base", "local"}
      /\ solvers' \in [base : SolverRecord, local : SolverRecord]
      /\ grids' \in Seq(AnyGrid)
      /\ iter' \in 0 .. MaxIter /\ iter' < MaxIter /\ delta' \in Nat
      /\ Owned' /\ Bounded'
  BY <1>2, <1>3, RunningKept
<1>5. task' \in {"baseline", "search", "final", "simulate"}
  BY DEF Simulate, SolveBaseline, Evaluate, SolveFinal, SInv, Shape
<1>6. Shape'
  BY <1>2, <1>4, <1>5 DEF SInv, Shape
<1>7. Counted'
  <2>1. MaxEvaluations \in Nat /\ Len(results) \in Nat
    BY SeepageSolverAssumption, AppendTyped DEF SInv, Shape
  <2>2. CASE Simulate
    <3>1. Len(results) = 0 /\ task' = "simulate"
      BY <2>2 DEF Simulate
    <3> QED BY <1>2, <1>4, <2>1, <3>1 DEF Counted
  <2>3. CASE SolveBaseline
    <3>1. Len(results) = 0 /\ task' = "search"
      BY <1>4, <2>1, <2>3 DEF SolveBaseline, SInv, Counted
    <3> QED BY <1>2, <1>4, <2>1, <3>1 DEF Counted
  <2>4. CASE \E b \in Blankets : Evaluate(b)
    <3>1. Len(results) <= MaxEvaluations /\ task' = "search"
      BY <2>1, <2>4 DEF Evaluate
    <3> QED BY <1>2, <1>4, <2>1, <3>1 DEF Counted
  <2>5. CASE \E b \in Evaluated \union {<<0, 0>>} : SolveFinal(b)
    <3>1. Len(results) <= MaxEvaluations + 1 /\ task' = "final"
      BY <1>4, <2>1, <2>5 DEF SolveFinal, SInv, Counted
    <3> QED BY <1>2, <1>4, <2>1, <3>1 DEF Counted
  <2> QED BY <2>2, <2>3, <2>4, <2>5
<1>8. Reported'
  BY <1>2 DEF SInv, Reported, HighestHead
<1> QED BY <1>4, <1>6, <1>7, <1>8 DEF SInv

\* What is known of the task that is being solved.
LEMMA Solving ==
  ASSUME SInv, pc # "ready"
  PROVE  /\ running \in {"base", "local"} /\ Solver \in SolverRecord
         /\ Solver.up = levels[1] /\ Solver.down = levels[2]
         /\ Grid \in GridRecord(Solver) /\ Grid.head \in Heads(Solver, Grid.zone)
         /\ Solver.grid = Len(grids) /\ Solver.grid \in 1 .. Len(grids) /\ Len(grids) \in Nat
<1>1. running \in {"base", "local"} /\ Len(grids) \in Nat
  BY DEF SInv, Shape
<1>2. Solver \in SolverRecord
  BY <1>1 DEF SInv, Shape, Solver
<1>3. Solver.up = levels[1] /\ Solver.down = levels[2] /\ Solver.grid = Len(grids)
      /\ Solver.grid # 0 /\ Grid.head \in Heads(Solver, Grid.zone)
  BY DEF SInv, Bounded
<1>4. Grid \in GridRecord(Solver)
  BY <1>1, <1>3 DEF SInv, Owned, Solver, Grid
<1> QED BY <1>1, <1>2, <1>3, <1>4

\* A pass writes the heads of the grid of the task, and of no other.
LEMMA PassKept ==
  ASSUME SInv, pc # "ready", NEW h \in Heads(Solver, Grid.zone),
         grids' = [grids EXCEPT ![Solver.grid].head = h],
         solvers' = solvers, running' = running, levels' = levels
  PROVE  /\ grids' \in Seq(AnyGrid) /\ Len(grids') = Len(grids)
         /\ Owned' /\ Bounded'
<1> DEFINE n == Solver.grid
           g == [Grid EXCEPT !.head = h]
<1>1. /\ running \in {"base", "local"} /\ Solver \in SolverRecord
      /\ Solver.up = levels[1] /\ Solver.down = levels[2]
      /\ Grid \in GridRecord(Solver)
      /\ n = Len(grids) /\ n \in 1 .. Len(grids) /\ Len(grids) \in Nat
  BY Solving
<1>2. h \in [Area(Solver) -> Int]
  BY DEF Heads
<1>3. g \in GridRecord(Solver) /\ g.zone = Grid.zone /\ g.head = h
  BY <1>1, <1>2 DEF GridRecord
<1>4. grids' = [grids EXCEPT ![n] = g]
  BY DEF Grid
<1>5. g \in AnyGrid
  BY <1>1, <1>3 DEF AnyGrid
<1> HIDE DEF g, n
<1>6. grids \in Seq(AnyGrid)
  BY DEF SInv, Shape
<1>7. /\ grids' \in Seq(AnyGrid) /\ Len(grids') = Len(grids) /\ grids'[n] = g
      /\ \A k \in 1 .. Len(grids) : k # n => grids'[k] = grids[k]
  <2> DEFINE r == [grids EXCEPT ![n] = g]
  <2>1. /\ r \in Seq(AnyGrid) /\ Len(r) = Len(grids) /\ r[n] = g
        /\ \A k \in 1 .. Len(grids) : k # n => r[k] = grids[k]
    BY <1>1, <1>5, <1>6, ReplaceTyped
  <2>2. grids' = r
    BY <1>4
  <2> HIDE DEF r
  <2> QED BY <2>1, <2>2
<1>8. Owned'
  <2>1. ASSUME NEW o \in {"base", "local"}
        PROVE  /\ solvers'[o].grid \in 0 .. Len(grids')
               /\ solvers'[o].grid # 0 => grids'[solvers'[o].grid] \in GridRecord(solvers'[o])
    <3>1. solvers[o].grid \in 0 .. Len(grids) /\ solvers' = solvers
      BY DEF SInv, Owned
    <3>2. CASE o = running
      BY <1>1, <1>3, <1>7, <3>1, <3>2 DEF Solver, n
    <3>3. CASE o # running
      <4>1. solvers[o].grid = 0 \/ solvers[o].grid # n
        BY <1>1, <3>3 DEF SInv, Owned, Solver, n
      <4>2. solvers[o].grid # 0 => grids'[solvers[o].grid] = grids[solvers[o].grid]
        BY <1>1, <1>7, <3>1, <4>1
      <4> QED BY <1>7, <3>1, <4>2 DEF SInv, Owned
    <3> QED BY <3>2, <3>3
  <2>2. solvers' = solvers
    OBVIOUS
  <2> QED BY <2>1, <2>2 DEF SInv, Owned
<1>9. Solver' = Solver /\ Grid' = g
  BY <1>7 DEF Solver, Grid, n
<1>10. Bounded'
  BY <1>1, <1>3, <1>7, <1>9 DEF Bounded, n
<1> QED BY <1>7, <1>8, <1>10

LEMMA SweepStep == SInv /\ SweepOnce => SInv'
<1> SUFFICES ASSUME SInv, SweepOnce PROVE SInv'
  OBVIOUS
<1> DEFINE swept == Sweep(Solver, Grid)
<1>1. /\ pc = "sweep" /\ pc' = "correct" /\ delta' = swept.delta
      /\ grids' = [grids EXCEPT ![Solver.grid].head = swept.head]
      /\ UNCHANGED <<levels, solvers, task, running, iter, results>>
  BY DEF SweepOnce
<1>2. swept \in SweepState(Solver, Grid)
  BY <1>1, Solving, SweepTyped
<1>3. swept.head \in Heads(Solver, Grid.zone) /\ swept.delta \in Nat
  BY <1>2 DEF SweepState
<1> HIDE DEF swept
<1>4. grids' \in Seq(AnyGrid) /\ Owned' /\ Bounded'
  BY <1>1, <1>3, PassKept
<1>5. Shape'
  BY <1>1, <1>3, <1>4 DEF SInv, Shape
<1>6. Counted' /\ Reported'
  BY <1>1 DEF SInv, Counted, Reported, HighestHead
<1> QED BY <1>4, <1>5, <1>6 DEF SInv

LEMMA CorrectStep == SInv /\ Correct => SInv'
<1> SUFFICES ASSUME SInv, Correct PROVE SInv'
  OBVIOUS
<1> DEFINE h == Correction(Solver, Grid)
<1>1. /\ pc = "correct" /\ iter' = iter + 1
      /\ pc' = IF Enough THEN "solved" ELSE "sweep"
      /\ grids' = [grids EXCEPT ![Solver.grid].head = h]
      /\ UNCHANGED <<levels, solvers, task, running, delta, results>>
  BY DEF Correct
<1>2. h \in Heads(Solver, Grid.zone)
  BY <1>1, Solving, CorrectionTyped
<1> HIDE DEF h
<1>3. grids' \in Seq(AnyGrid) /\ Owned' /\ Bounded'
  BY <1>1, <1>2, PassKept
<1>4. pc' \in {"sweep", "solved"} /\ (pc' = "sweep" => iter + 1 # MaxIter)
  BY <1>1 DEF Enough
<1>5. MaxIter \in Nat /\ iter \in 0 .. MaxIter /\ iter < MaxIter
  BY <1>1, SeepageSolverAssumption DEF SInv, Shape
<1>6. iter' \in 0 .. MaxIter /\ (pc' \in {"sweep", "correct"} => iter' < MaxIter)
  BY <1>1, <1>4, <1>5
<1>7. Shape'
  BY <1>1, <1>3, <1>4, <1>6 DEF SInv, Shape
<1>8. Counted' /\ Reported'
  BY <1>1, <1>4 DEF SInv, Counted, Reported, HighestHead
<1> QED BY <1>3, <1>7, <1>8 DEF SInv

LEMMA ReportStep == SInv /\ Report => SInv'
<1> SUFFICES ASSUME SInv, Report PROVE SInv'
  OBVIOUS
<1> DEFINE r == [ blanket    |-> <<Solver.blanket.length, Solver.blanket.thickness>>,
                  grid       |-> Solver.grid,
                  iterations |-> iter,
                  flow       |-> SeepageFlow(Solver, Grid),
                  pore       |-> MaxPorePressure(Solver, Grid) ]
<1>1. /\ pc = "solved" /\ pc' = "ready" /\ results' = Append(results, r)
      /\ UNCHANGED <<levels, solvers, grids, task, running, iter, delta>>
  BY DEF Report
<1>2. r.blanket \in Nat \X Nat
  <2>1. Solver.blanket \in BlanketRecord
    BY <1>1, Solving, SolverTyped
  <2> QED BY <2>1 DEF BlanketRecord
<1>3. r.pore <= HighestHead + Geometry.depth
  <2>1. MaxPorePressure(Solver, Grid) <= High(Solver) + Geometry.depth
    BY <1>1, Solving, PoreBounded
  <2>2. HighestHead = High(Solver)
    <3>1. levels \in Levels
      BY DEF SInv, Shape
    <3> QED BY <1>1, <3>1, Solving, LevelsTyped
  <2> QED BY <2>1, <2>2
<1> HIDE DEF r
<1>4. results \in Seq(ToSet(results))
  BY DEF SInv, Shape
<1>5. /\ Len(results') = Len(results) + 1 /\ Len(results) \in Nat
      /\ DOMAIN results = 1 .. Len(results)
      /\ DOMAIN results' = 1 .. Len(results) + 1
      /\ \A k \in 1 .. Len(results) : results'[k] = results[k]
      /\ results'[Len(results) + 1] = r
      /\ results' \in Seq(ToSet(results) \union {r})
  BY <1>1, <1>4, AppendTyped
<1>6. results' \in Seq(ToSet(results'))
  <2>1. ToSet(results') = {results'[k] : k \in DOMAIN results'}
    BY DEF ToSet
  <2> QED BY <1>5, <2>1
<1>7. \A k \in DOMAIN results' : k \in DOMAIN results \/ k = Len(results) + 1
  BY <1>5
<1>8. \A k \in DOMAIN results' : results'[k].blanket \in Nat \X Nat
  BY <1>2, <1>5, <1>7 DEF SInv, Shape
<1>9. Shape'
  BY <1>1, <1>6, <1>8 DEF SInv, Shape
<1>10. Owned' /\ Bounded'
  BY <1>1 DEF SInv, Owned, Bounded
<1>11. Counted'
  <2>1. MaxEvaluations \in Nat
    BY SeepageSolverAssumption
  <2> QED BY <1>1, <1>5, <2>1 DEF SInv, Counted
<1>12. Reported'
  BY <1>1, <1>3, <1>5, <1>7 DEF SInv, Reported, HighestHead
<1> QED BY <1>9, <1>10, <1>11, <1>12 DEF SInv

LEMMA SolverStep == SInv /\ [Next]_vars => SInv'
<1> SUFFICES ASSUME SInv, [Next]_vars PROVE SInv'
  OBVIOUS
<1>1. CASE Simulate \/ SolveBaseline \/ (\E b \in Blankets : Evaluate(b))
           \/ (\E b \in Evaluated \union {<<0, 0>>} : SolveFinal(b))
  BY <1>1, StartStep
<1>2. CASE SweepOnce
  BY <1>2, SweepStep
<1>3. CASE Correct
  BY <1>3, CorrectStep
<1>4. CASE Report
  BY <1>4, ReportStep
<1>5. CASE UNCHANGED vars
  BY <1>5 DEF vars, SInv, Shape, Owned, Bounded, Counted, Reported, Solver, Grid, HighestHead
<1> QED BY <1>1, <1>2, <1>3, <1>4, <1>5 DEF Next

\* The invariant holds in every behaviour.
LEMMA SolverInvariant == Spec => []SInv
BY SolverInit, SolverStep, PTL DEF Spec

----------------------------------------------------------------------------
(***************************************************************************)
(* The properties.                                                         *)
(***************************************************************************)
\* A solver that has a grid has one of its own size, whatever the optimiser has
\* copied or allocated before.
THEOREM SolverTypeCorrect == Spec => []TypeOK
<1>1. SInv => TypeOK
  <2> SUFFICES ASSUME SInv PROVE TypeOK
    OBVIOUS
  <2>1. \A o \in DOMAIN solvers : solvers[o].grid # 0 =>
          DOMAIN grids[solvers[o].grid].head = Nodes(solvers[o].nx, solvers[o].ny)
    <3>1. DOMAIN solvers = {"base", "local"}
      BY DEF SInv, Shape
    <3> QED BY <3>1 DEF SInv, Owned, GridRecord, Area
  <2>2. Len(results) <= MaxEvaluations + 2
    <3>1. Len(results) \in Nat /\ MaxEvaluations \in Nat
      BY SeepageSolverAssumption, AppendTyped DEF SInv, Shape
    <3> QED BY <3>1 DEF SInv, Counted
  <2> QED BY <2>1, <2>2 DEF SInv, Shape, TypeOK
<1> QED BY <1>1, SolverInvariant, PTL

\* The maximum principle: every head and every reported pore pressure lies
\* within the bounds of the water levels, for every dam, blanket and grid.
THEOREM HeadsStayBounded == Spec => []HeadsBounded
<1>1. SInv => HeadsBounded
  <2> SUFFICES ASSUME SInv PROVE HeadsBounded
    OBVIOUS
  <2>1. ASSUME pc # "ready", NEW p \in DOMAIN Grid.head, InDomain(Grid, p)
        PROVE  Min({levels[1], levels[2]}) <= Grid.head[p] /\ Grid.head[p] <= HighestHead
    <3>1. levels \in Levels /\ Solver \in SolverRecord
          /\ Solver.up = levels[1] /\ Solver.down = levels[2]
          /\ Grid.head \in Heads(Solver, Grid.zone)
      BY <2>1, Solving DEF SInv, Shape
    <3>2. HighestHead = High(Solver) /\ Min({levels[1], levels[2]}) = Low(Solver)
      BY <3>1, LevelsTyped
    <3>3. p \in Area(Solver) /\ Grid.zone[p] # 0
      BY <2>1, <3>1 DEF Heads, InDomain
    <3> QED BY <3>1, <3>2, <3>3 DEF Heads
  <2> QED BY <2>1 DEF SInv, Reported, HeadsBounded
<1> QED BY <1>1, SolverInvariant, PTL

\* The levels at the two outer columns hold from the boundary conditions to the
\* result, in both passes of every iteration.
THEOREM LevelsAreKept == Spec => []PrescribedLevelsHold
<1>1. SInv => PrescribedLevelsHold
  <2> SUFFICES ASSUME SInv, pc # "ready",
                      NEW p \in DOMAIN Grid.head, InDomain(Grid, p)
               PROVE  /\ HasUpstreamLevel(Solver, p) => Grid.head[p] = levels[1]
                      /\ p[1] >= Solver.nx - 2 /\ Y(Solver, p[2]) <= levels[2] =>
                           Grid.head[p] \in {levels[1], levels[2]}
    BY DEF PrescribedLevelsHold
  <2>1. /\ Solver \in SolverRecord /\ Solver.up = levels[1] /\ Solver.down = levels[2]
        /\ Grid.head \in Heads(Solver, Grid.zone)
    BY Solving
  <2>2. p \in Area(Solver) /\ Grid.zone[p] # 0
    BY <2>1 DEF Heads, InDomain
  <2>3. IsPrescribed(Solver, p) => Grid.head[p] = PrescribedLevel(Solver, p)
    BY <2>1, <2>2 DEF Heads
  <2>4. HasUpstreamLevel(Solver, p) => IsPrescribed(Solver, p)
    BY DEF IsPrescribed
  <2> QED BY <2>1, <2>2, <2>3, <2>4, Prescribed
<1> QED BY <1>1, SolverInvariant, PTL

----------------------------------------------------------------------------
(***************************************************************************)
(* Two runs of a sweep over the same zones, from heads that lie close.     *)
(***************************************************************************)
Within(s, x, y, lo, hi) == \A q \in Area(s) : lo <= y[q] - x[q] /\ y[q] - x[q] <= hi

Margins == {m \in Int \X Int : m[1] <= 0 /\ 0 <= m[2]}

\* Weighted sums that differ by no more than lo .. hi times the weight.
LEMMA MeansWithin ==
  ASSUME NEW v \in Int, NEW w \in Int, NEW c \in Nat \ {0}, NEW lo \in Int, NEW hi \in Int,
         lo * c <= w - v, w - v <= hi * c
  PROVE  lo <= (w \div c) - (v \div c) /\ (w \div c) - (v \div c) <= hi
<1> DEFINE a == v \div c
           b == w \div c
<1>1. a \in Int /\ b \in Int /\ a * c <= v /\ b * c <= w
  BY DivBounds
<1>2. \A k \in Int : (k * c <= v => k <= a) /\ (k * c <= w => k <= b)
  BY DivBounds
<1> HIDE DEF a, b
<1>3. (a + lo) * c = a * c + lo * c /\ (b - hi) * c = b * c - hi * c
  BY <1>1
<1>4. a * c \in Int /\ b * c \in Int /\ lo * c \in Int /\ hi * c \in Int
  BY <1>1
<1>5. (a + lo) * c <= w /\ (b - hi) * c <= v
  BY <1>1, <1>3, <1>4
<1>6. a + lo <= b /\ b - hi <= a
  BY <1>1, <1>2, <1>5
<1>7. lo <= b - a /\ b - a <= hi
  BY <1>1, <1>6
<1> QED BY <1>7 DEF a, b

\* What one neighbour contributes to the difference of two means.
LEMMA Difference ==
  ASSUME NEW s \in SolverRecord, NEW g \in GridRecord(s), NEW x \in Heads(s, g.zone),
         NEW y \in Heads(s, g.zone), NEW lo \in Int, NEW hi \in Int,
         Within(s, x, y, lo, hi), NEW p \in Area(s), NEW q
  PROVE  LET perm == IF q \in Neighbours(g, p) THEN Conductance(s, g, p, q) ELSE 0
             a == IF q \in Neighbours(g, p) THEN Conductance(s, g, p, q) * x[q] ELSE 0
             b == IF q \in Neighbours(g, p) THEN Conductance(s, g, p, q) * y[q] ELSE 0
         IN  /\ perm \in Nat /\ a \in Int /\ b \in Int
             /\ q \in Neighbours(g, p) => perm > 0
             /\ lo * perm <= b - a /\ b - a <= hi * perm
<1>1. CASE q \notin Neighbours(g, p)
  BY <1>1
<1>2. CASE q \in Neighbours(g, p)
  <2>1. q \in Area(s)
    BY <1>2 DEF Neighbours, InDomain, GridRecord
  <2> DEFINE c == Conductance(s, g, p, q)
             u == x[q]
             v == y[q]
  <2>2. u \in Int /\ v \in Int /\ lo <= v - u /\ v - u <= hi
    BY <2>1 DEF Heads, Within
  <2>3. c \in Nat \ {0}
    BY <2>1, ConductancePositive
  <2> HIDE DEF c, u, v
  <2>4. c * lo <= c * (v - u) /\ c * (v - u) <= c * hi
    BY <2>2, <2>3, Times
  <2>5. c * (v - u) = c * v - c * u /\ c * lo = lo * c /\ c * hi = hi * c
    BY <2>2, <2>3
  <2>6. c * u \in Int /\ c * v \in Int
    BY <2>2, <2>3
  <2>7. lo * c <= c * v - c * u /\ c * v - c * u <= hi * c
    BY <2>4, <2>5
  <2> QED BY <1>2, <2>3, <2>6, <2>7 DEF c, u, v
<1> QED BY <1>1, <1>2

LEMMA MeanWithin ==
  ASSUME NEW s \in SolverRecord, NEW g \in GridRecord(s), NEW x \in Heads(s, g.zone),
         NEW y \in Heads(s, g.zone), NEW lo \in Int, NEW hi \in Int,
         Within(s, x, y, lo, hi), NEW p \in Area(s), Neighbours(g, p) # {}
  PROVE  /\ lo <= Mean(s, g, y, p) - Mean(s, g, x, p)
         /\ Mean(s, g, y, p) - Mean(s, g, x, p) <= hi
<1> DEFINE perm(q) == IF q \in Neighbours(g, p) THEN Conductance(s, g, p, q) ELSE 0
           a(q) == IF q \in Neighbours(g, p) THEN Conductance(s, g, p, q) * x[q] ELSE 0
           b(q) == IF q \in Neighbours(g, p) THEN Conductance(s, g, p, q) * y[q] ELSE 0
           c(d) == perm(Around(p)[d])
           v(d) == a(Around(p)[d])
           w(d) == b(Around(p)[d])
<1>1. \A q : /\ perm(q) \in Nat /\ a(q) \in Int /\ b(q) \in Int
             /\ q \in Neighbours(g, p) => perm(q) > 0
             /\ lo * perm(q) <= b(q) - a(q) /\ b(q) - a(q) <= hi * perm(q)
  BY Difference
<1>2. /\ Mean(s, g, x, p) = (v(1) + v(2) + v(3) + v(4)) \div (c(1) + c(2) + c(3) + c(4))
      /\ Mean(s, g, y, p) = (w(1) + w(2) + w(3) + w(4)) \div (c(1) + c(2) + c(3) + c(4))
  BY DEF Mean, SumAround
<1> HIDE DEF perm, a, b
<1>3. \E d \in 1 .. 4 : Around(p)[d] \in Neighbours(g, p)
  <2>1. Neighbours(g, p) \subseteq {Around(p)[1], Around(p)[2], Around(p)[3], Around(p)[4]}
    BY AroundMembers DEF Neighbours
  <2> QED BY <2>1
<1>4. \A d \in 1 .. 4 : /\ c(d) \in Nat /\ v(d) \in Int /\ w(d) \in Int
                        /\ lo * c(d) <= w(d) - v(d) /\ w(d) - v(d) <= hi * c(d)
  BY <1>1
<1>5. c(1) > 0 \/ c(2) > 0 \/ c(3) > 0 \/ c(4) > 0
  BY <1>1, <1>3
<1> HIDE DEF c, v, w
<1> DEFINE C == c(1) + c(2) + c(3) + c(4)
           V == v(1) + v(2) + v(3) + v(4)
           W == w(1) + w(2) + w(3) + w(4)
<1>6. C \in Nat \ {0} /\ V \in Int /\ W \in Int
  <2>1. /\ c(1) \in Nat /\ c(2) \in Nat /\ c(3) \in Nat /\ c(4) \in Nat
        /\ v(1) \in Int /\ v(2) \in Int /\ v(3) \in Int /\ v(4) \in Int
        /\ w(1) \in Int /\ w(2) \in Int /\ w(3) \in Int /\ w(4) \in Int
    BY <1>4
  <2> QED BY <1>5, <2>1
<1>7. /\ lo * C = lo * c(1) + lo * c(2) + lo * c(3) + lo * c(4)
      /\ hi * C = hi * c(1) + hi * c(2) + hi * c(3) + hi * c(4)
  BY <1>4
<1>8. lo * C <= W - V /\ W - V <= hi * C
  <2>1. \A d \in 1 .. 4 : lo * c(d) \in Int /\ hi * c(d) \in Int
    BY <1>4
  <2> QED BY <1>4, <1>7, <2>1
<1> HIDE DEF C, V, W
<1>9. lo <= (W \div C) - (V \div C) /\ (W \div C) - (V \div C) <= hi
  BY <1>6, <1>8, MeansWithin
<1> QED BY <1>2, <1>9 DEF C, V, W

\* One node: what it becomes in the two runs differs by no more than the heads.
LEMMA RelaxedWithin ==
  ASSUME NEW s \in SolverRecord, NEW g \in GridRecord(s), NEW x \in Heads(s, g.zone),
         NEW y \in Heads(s, g.zone), NEW m \in Margins,
         Within(s, x, y, m[1], m[2]), NEW p \in Area(s)
  PROVE  /\ m[1] <= Relaxed(s, g, y, p) - Relaxed(s, g, x, p)
         /\ Relaxed(s, g, y, p) - Relaxed(s, g, x, p) <= m[2]
<1>1. x[p] \in Int /\ y[p] \in Int /\ m[1] <= y[p] - x[p] /\ y[p] - x[p] <= m[2]
  BY DEF Heads, Within
<1>2. m[1] \in Int /\ m[2] \in Int /\ m[1] <= 0 /\ 0 <= m[2]
  BY DEF Margins
<1>3. CASE ~ InDomain(g, p)
  BY <1>1, <1>3 DEF Relaxed
<1>4. CASE InDomain(g, p) /\ IsPrescribed(s, p)
  <2>1. Relaxed(s, g, x, p) = PrescribedLevel(s, p) /\ Relaxed(s, g, y, p) = PrescribedLevel(s, p)
    BY <1>4 DEF Relaxed
  <2>2. PrescribedLevel(s, p) \in Int
    BY SolverTyped DEF PrescribedLevel
  <2> QED BY <1>2, <2>1, <2>2
<1>5. CASE InDomain(g, p) /\ ~ IsPrescribed(s, p) /\ Cardinality(Neighbours(g, p)) < 2
  BY <1>1, <1>5 DEF Relaxed
<1>6. CASE InDomain(g, p) /\ ~ IsPrescribed(s, p) /\ ~ (Cardinality(Neighbours(g, p)) < 2)
  <2>1. Neighbours(g, p) # {}
    BY <1>6, FS_EmptySet
  <2>2. Relaxed(s, g, x, p) = Mean(s, g, x, p) /\ Relaxed(s, g, y, p) = Mean(s, g, y, p)
    BY <1>6 DEF Relaxed
  <2> QED BY <1>2, <2>1, <2>2, MeanWithin
<1> QED BY <1>3, <1>4, <1>5, <1>6

\* What a node becomes depends on the zones and the contact of the grid only.
LEMMA SameGround ==
  ASSUME NEW s, NEW g, NEW k, k.zone = g.zone, k.contact = g.contact
  PROVE  /\ \A h, p : Relaxed(s, k, h, p) = Relaxed(s, g, h, p)
         /\ \A p : IsFree(s, k, p) <=> IsFree(s, g, p)
<1>1. \A p : InDomain(k, p) <=> InDomain(g, p)
  BY DEF InDomain
<1>2. \A p : Neighbours(k, p) = Neighbours(g, p)
  BY <1>1 DEF Neighbours
<1>3. \A p : PointPermeability(s, k, p) = PointPermeability(s, g, p)
  BY DEF PointPermeability
<1>4. \A p, q : Conductance(s, k, p, q) = Conductance(s, g, p, q)
  BY <1>3 DEF Conductance
<1>5. \A h, p : Mean(s, k, h, p) = Mean(s, g, h, p)
  BY <1>2, <1>4 DEF Mean, SumAround
<1>6. \A h, p : Relaxed(s, k, h, p) = Relaxed(s, g, h, p)
  BY <1>1, <1>2, <1>5 DEF Relaxed
<1> QED BY <1>1, <1>6 DEF IsFree

\* A pass visits no node twice.
LEMMA VisitedOnce ==
  ASSUME NEW s \in SolverRecord, NEW m \in 1 .. Len(Interior(s)), NEW n \in 1 .. Len(Interior(s)),
         Interior(s)[m] = Interior(s)[n]
  PROVE  m = n
<1> DEFINE w == s.nx - 2
           t == s.ny - 2
<1>1. w \in Nat \ {0} /\ w * t \in Nat
  <2>1. w \in Nat \ {0} /\ t \in Nat \ {0}
    BY SolverTyped
  <2> HIDE DEF w, t
  <2> QED BY <2>1, PositiveProduct
<1>2. Interior(s) = [k \in 1 .. w * t |-> <<1 + ((k - 1) % w), 1 + ((k - 1) \div w)>>]
  BY DEF Interior
<1> HIDE DEF w, t
<1>3. m \in 1 .. w * t /\ n \in 1 .. w * t
  BY <1>1, <1>2
<1>4. 1 + ((m - 1) % w) = 1 + ((n - 1) % w) /\ 1 + ((m - 1) \div w) = 1 + ((n - 1) \div w)
  BY <1>2, <1>3
<1>5. ASSUME NEW k \in 1 .. w * t
      PROVE  /\ (k - 1) % w \in Int /\ (k - 1) \div w \in Int
             /\ k - 1 = w * ((k - 1) \div w) + ((k - 1) % w)
  BY <1>1
<1>6. (m - 1) % w = (n - 1) % w /\ (m - 1) \div w = (n - 1) \div w
  BY <1>3, <1>4, <1>5
<1>7. m - 1 = n - 1
  BY <1>3, <1>5, <1>6
<1> QED BY <1>3, <1>7

\* What a sweep has done after m turns: the nodes it has yet to visit have their
\* heads, those it has visited keep what they got, no head has changed by more
\* than delta, and delta has not fallen.
LEMMA SweepMoves ==
  ASSUME NEW s \in SolverRecord, NEW g \in GridRecord(s), g.head \in Heads(s, g.zone)
  PROVE  LET f == Sweeping(s, g)  len == Len(Interior(s)) IN
         \A m \in 0 .. len :
           /\ \A n \in 1 .. len : m < n => f[m].head[Interior(s)[n]] = g.head[Interior(s)[n]]
           /\ \A n \in 1 .. m : f[m].head[Interior(s)[n]] = f[n].head[Interior(s)[n]]
           /\ \A q \in Area(s) : Change(g.head[q], f[m].head[q]) <= f[m].delta
<1> DEFINE f == Sweeping(s, g)
           len == Len(Interior(s))
           nodes == Interior(s)
           State == SweepState(s, g)
           Ahead(m) == \A n \in 1 .. len : m < n => f[m].head[nodes[n]] = g.head[nodes[n]]
           Behind(m) == \A n \in 1 .. m : f[m].head[nodes[n]] = f[n].head[nodes[n]]
           Measured(m) == \A q \in Area(s) : Change(g.head[q], f[m].head[q]) <= f[m].delta
           S == {m \in 0 .. len : Ahead(m) /\ Behind(m) /\ Measured(m)}
<1>1. /\ f[0] = [head |-> g.head, delta |-> 0]
      /\ \A n \in 1 .. len : f[n] = SweptNode(s, g, nodes[n], f[n - 1])
      /\ \A n \in 0 .. len : f[n] \in State
  BY SweepTurns
<1>2. len \in Nat /\ \A n \in 1 .. len : nodes[n] \in Area(s)
  BY InteriorTyped
<1>3. \A m, n \in 1 .. len : nodes[m] = nodes[n] => m = n
  BY VisitedOnce
<1>4. \A q \in Area(s) : g.head[q] \in Int
  BY DEF Heads
<1>5. \A n \in 0 .. len : /\ f[n].head \in [Area(s) -> Int] /\ f[n].delta \in Nat
                          /\ f[n].head \in Heads(s, g.zone)
  BY <1>1 DEF SweepState, Heads
<1> HIDE DEF f, len, nodes, State
<1>6. 0 \in S
  <2>1. Ahead(0) /\ Behind(0)
    BY <1>1
  <2>2. Measured(0)
    BY <1>1, <1>4 DEF Change
  <2> QED BY <1>2, <2>1, <2>2
<1>7. ASSUME NEW m \in 1 .. len, m - 1 \in S PROVE m \in S
  <2> DEFINE p == nodes[m]
             old == f[m - 1]
             new == Relaxed(s, g, old.head, p)
  <2>1. m - 1 \in 0 .. len /\ m \in 0 .. len /\ p \in Area(s)
    BY <1>2
  <2>2. /\ f[m] = SweptNode(s, g, p, old)
        /\ old.head \in [Area(s) -> Int] /\ old.delta \in Nat
        /\ old.head \in Heads(s, g.zone)
    BY <1>1, <1>5, <2>1
  <2>3. Ahead(m - 1) /\ Behind(m - 1) /\ Measured(m - 1)
    BY <1>7
  <2>4. new \in Int
    BY <2>1, <2>2, RelaxedKeeps
  <2>5. f[m].head = [old.head EXCEPT ![p] = new]
    BY <2>2 DEF SweptNode
  <2>6. /\ f[m].head[p] = new
        /\ \A q \in Area(s) : q # p => f[m].head[q] = old.head[q]
    BY <2>1, <2>2, <2>5
  <2>7. f[m].delta = IF IsFree(s, g, p) THEN Max({old.delta, Change(old.head[p], new)})
                     ELSE old.delta
    BY <2>2 DEF SweptNode
  <2>8. old.head[p] = g.head[p]
    <3>1. m - 1 < m
      BY <1>2
    <3> QED BY <2>3, <3>1
  <2>9. old.head[p] \in Int /\ Change(old.head[p], new) \in Nat
    <3>1. old.head[p] \in Int
      BY <2>1, <2>2
    <3> QED BY <2>4, <3>1 DEF Change
  <2>10. ~ IsFree(s, g, p) => new = old.head[p]
    <3>1. InDomain(g, p) <=> g.zone[p] # 0
      BY <2>1 DEF InDomain, GridRecord
    <3> QED BY <2>1, <2>2, <3>1 DEF IsFree, Relaxed, Heads
  <2>11. f[m].delta \in Nat /\ old.delta <= f[m].delta /\ Change(old.head[p], new) <= f[m].delta
    <3>1. CASE IsFree(s, g, p)
      <4>1. Max({old.delta, Change(old.head[p], new)}) =
              IF old.delta < Change(old.head[p], new) THEN Change(old.head[p], new) ELSE old.delta
        BY <2>2, <2>9, MaxOfTwo
      <4> QED BY <2>2, <2>7, <2>9, <3>1, <4>1
    <3>2. CASE ~ IsFree(s, g, p)
      <4>1. Change(old.head[p], new) = 0
        BY <2>9, <2>10, <3>2 DEF Change
      <4> QED BY <2>2, <2>7, <3>2, <4>1
    <3> QED BY <3>1, <3>2
  <2>12. Ahead(m)
    <3> SUFFICES ASSUME NEW n \in 1 .. len, m < n
                 PROVE  f[m].head[nodes[n]] = g.head[nodes[n]]
      OBVIOUS
    <3>1. nodes[n] # p /\ nodes[n] \in Area(s) /\ m - 1 < n
      BY <1>2, <1>3
    <3> QED BY <2>3, <2>6, <3>1
  <2>13. Behind(m)
    <3> SUFFICES ASSUME NEW n \in 1 .. m, n # m
                 PROVE  f[m].head[nodes[n]] = f[n].head[nodes[n]]
      OBVIOUS
    <3>1. n \in 1 .. m - 1 /\ n \in 1 .. len
      BY <1>2
    <3>2. nodes[n] # p /\ nodes[n] \in Area(s)
      BY <1>2, <1>3, <3>1
    <3> QED BY <2>3, <2>6, <3>1, <3>2
  <2>14. Measured(m)
    <3> SUFFICES ASSUME NEW q \in Area(s) PROVE Change(g.head[q], f[m].head[q]) <= f[m].delta
      OBVIOUS
    <3>1. CASE q = p
      BY <2>6, <2>8, <2>11, <3>1
    <3>2. CASE q # p
      <4>1. Change(g.head[q], old.head[q]) <= old.delta /\ f[m].head[q] = old.head[q]
        BY <2>3, <2>6, <3>2
      <4>2. Change(g.head[q], old.head[q]) \in Int
        BY <1>4, <2>2 DEF Change
      <4> QED BY <2>2, <2>11, <4>1, <4>2
    <3> QED BY <3>1, <3>2
  <2> QED BY <2>1, <2>12, <2>13, <2>14
<1> HIDE DEF S
<1>8. \A m \in 0 .. len : m \in S
  BY <1>2, <1>6, <1>7, LoopInduction
<1> QED BY <1>8 DEF S, f, len, nodes

\* The correction lowers no head.
LEMMA CorrectionLifts ==
  ASSUME NEW s \in SolverRecord, NEW g \in GridRecord(s), g.head \in Heads(s, g.zone)
  PROVE  \A q \in Area(s) : g.head[q] <= Correction(s, g)[q]
<1> DEFINE f == Correcting(s, g)
           len == Len(Interior(s))
           nodes == Interior(s)
           S == {m \in 0 .. len : \A q \in Area(s) : g.head[q] <= f[m][q]}
<1>1. /\ Correction(s, g) = f[len] /\ f[0] = g.head
      /\ \A n \in 1 .. len : f[n] = CorrectedNode(s, g, nodes[n], f[n - 1])
      /\ \A n \in 0 .. len : f[n] \in Heads(s, g.zone)
  BY CorrectionTurns
<1>2. len \in Nat /\ \A n \in 1 .. len : nodes[n] \in Area(s)
  BY InteriorTyped
<1>3. \A q \in Area(s) : g.head[q] \in Int
  BY DEF Heads
<1> HIDE DEF f, len, nodes
<1>4. 0 \in S
  BY <1>1, <1>2, <1>3
<1>5. ASSUME NEW m \in 1 .. len, m - 1 \in S PROVE m \in S
  <2> DEFINE p == nodes[m]
             h == f[m - 1]
  <2>1. m - 1 \in 0 .. len /\ m \in 0 .. len /\ p \in Area(s)
    BY <1>2
  <2>2. h \in Heads(s, g.zone) /\ h \in [Area(s) -> Int]
    BY <1>1, <2>1 DEF Heads
  <2>3. f[m] = [h EXCEPT ![p] = Corrected(s, g, h, p)]
    BY <1>1 DEF CorrectedNode
  <2>4. Corrected(s, g, h, p) \in Int /\ h[p] <= Corrected(s, g, h, p)
    BY <2>1, <2>2, CorrectedKeeps
  <2>5. \A q \in Area(s) : g.head[q] <= h[q]
    BY <1>5
  <2> HIDE DEF p, h
  <2>6. \A q \in Area(s) : g.head[q] <= f[m][q]
    BY <1>3, <2>1, <2>2, <2>3, <2>4, <2>5
  <2> QED BY <2>1, <2>6
<1> HIDE DEF S
<1>6. len \in S
  BY <1>2, <1>4, <1>5, LoopInduction
<1> QED BY <1>1, <1>6 DEF S

\* The sweep that follows on a sweep and a correction.
LEMMA NextSweep ==
  ASSUME NEW s \in SolverRecord, NEW g \in GridRecord(s), g.head \in Heads(s, g.zone),
         NEW k \in GridRecord(s), k.zone = g.zone, k.contact = g.contact,
         k.head \in Heads(s, g.zone), NEW lift \in Nat,
         \A q \in Area(s) : /\ Sweep(s, g).head[q] <= k.head[q]
                            /\ k.head[q] - Sweep(s, g).head[q] <= lift
  PROVE  Sweep(s, k).delta <= Sweep(s, g).delta + lift
<1> DEFINE a == Sweeping(s, g)
           b == Sweeping(s, k)
           len == Len(Interior(s))
           nodes == Interior(s)
           most == Sweep(s, g).delta
           m == <<- most, most + lift>>
           Near(n) == Within(s, a[n].head, b[n].head, m[1], m[2])
           S == {n \in 0 .. len : Near(n) /\ b[n].delta <= most + lift}
<1>1. /\ Sweep(s, g) = a[len] /\ a[0] = [head |-> g.head, delta |-> 0]
      /\ \A n \in 1 .. len : a[n] = SweptNode(s, g, nodes[n], a[n - 1])
      /\ \A n \in 0 .. len : a[n] \in SweepState(s, g)
  BY SweepTurns
<1>2. /\ Sweep(s, k) = b[len] /\ b[0] = [head |-> k.head, delta |-> 0]
      /\ \A n \in 1 .. len : b[n] = SweptNode(s, k, nodes[n], b[n - 1])
      /\ \A n \in 0 .. len : b[n] \in SweepState(s, k)
  BY SweepTurns
<1>3. len \in Nat /\ \A n \in 1 .. len : nodes[n] \in Area(s)
  BY InteriorTyped
<1>4. /\ \A n \in 1 .. len : a[len].head[nodes[n]] = a[n].head[nodes[n]]
      /\ \A q \in Area(s) : Change(g.head[q], a[len].head[q]) <= most
  <2>1. len \in 0 .. len
    BY <1>3
  <2> QED BY <1>1, <2>1, SweepMoves
<1>5. \A i \in 0 .. len : \A n \in 1 .. len : i < n => b[i].head[nodes[n]] = k.head[nodes[n]]
  BY SweepMoves
<1>6. /\ \A n \in 0 .. len : a[n].head \in Heads(s, g.zone) /\ a[n].head \in [Area(s) -> Int]
      /\ \A n \in 0 .. len : /\ b[n].head \in Heads(s, g.zone) /\ b[n].head \in [Area(s) -> Int]
                             /\ b[n].delta \in Nat
  <2>1. \A n \in 0 .. len : a[n].head \in Heads(s, g.zone)
    BY <1>1 DEF SweepState
  <2>2. \A n \in 0 .. len : b[n].head \in Heads(s, g.zone) /\ b[n].delta \in Nat
    BY <1>2 DEF SweepState
  <2>3. Heads(s, g.zone) \subseteq [Area(s) -> Int]
    BY DEF Heads
  <2> HIDE DEF a, b
  <2> QED BY <2>1, <2>2, <2>3
<1>7. most \in Nat
  BY <1>1, <1>3 DEF SweepState
<1>8. \A q \in Area(s) : g.head[q] \in Int /\ k.head[q] \in Int
  BY DEF Heads
<1>9. /\ \A h, p : Relaxed(s, k, h, p) = Relaxed(s, g, h, p)
      /\ \A p : IsFree(s, k, p) <=> IsFree(s, g, p)
  BY SameGround
<1>10. \A q \in Area(s) : /\ a[len].head[q] <= k.head[q]
                          /\ k.head[q] - a[len].head[q] <= lift
                          /\ a[len].head[q] \in Int
  BY <1>1, <1>3, <1>6
<1> HIDE DEF a, b, len, nodes, most
<1>11. m \in Margins /\ m[1] = - most /\ m[2] = most + lift
  BY <1>7 DEF Margins
<1> HIDE DEF m
<1>12. 0 \in S
  <2>1. ASSUME NEW q \in Area(s)
        PROVE  - most <= k.head[q] - g.head[q] /\ k.head[q] - g.head[q] <= most + lift
    <3>1. g.head[q] \in Int /\ k.head[q] \in Int /\ a[len].head[q] \in Int
      BY <1>8, <1>10
    <3>2. Change(g.head[q], a[len].head[q]) <= most
      BY <1>4
    <3>3. a[len].head[q] <= k.head[q] /\ k.head[q] - a[len].head[q] <= lift
      BY <1>10
    <3>4. - most <= a[len].head[q] - g.head[q] /\ a[len].head[q] - g.head[q] <= most
      BY <1>7, <3>1, <3>2 DEF Change
    <3> QED BY <1>7, <3>1, <3>3, <3>4
  <2>2. Near(0)
    BY <1>1, <1>2, <1>11, <2>1 DEF Within
  <2>3. b[0].delta <= most + lift
    BY <1>2, <1>7
  <2> QED BY <1>3, <2>2, <2>3
<1>13. ASSUME NEW n \in 1 .. len, n - 1 \in S PROVE n \in S
  <2> DEFINE p == nodes[n]
             x == a[n - 1].head
             y == b[n - 1].head
             u == Relaxed(s, g, x, p)
             v == Relaxed(s, g, y, p)
  <2>1. n - 1 \in 0 .. len /\ n \in 0 .. len /\ p \in Area(s)
    BY <1>3
  <2>2. /\ x \in Heads(s, g.zone) /\ x \in [Area(s) -> Int]
        /\ y \in Heads(s, g.zone) /\ y \in [Area(s) -> Int]
        /\ b[n - 1].delta \in Nat
    BY <1>6, <2>1
  <2>3. Within(s, x, y, m[1], m[2]) /\ b[n - 1].delta <= most + lift
    BY <1>13
  <2>4. /\ a[n] = SweptNode(s, g, p, a[n - 1]) /\ b[n] = SweptNode(s, k, p, b[n - 1])
         /\ Relaxed(s, k, y, p) = v /\ (IsFree(s, k, p) <=> IsFree(s, g, p))
    BY <1>1, <1>2, <1>9
  <2>5. a[n].head = [x EXCEPT ![p] = u] /\ b[n].head = [y EXCEPT ![p] = v]
    <3>1. a[n].head = [x EXCEPT ![p] = u]
      BY <2>4 DEF SweptNode
    <3>2. b[n].head = [y EXCEPT ![p] = Relaxed(s, k, y, p)]
      BY <2>4 DEF SweptNode
    <3> QED BY <2>4, <3>1, <3>2
  <2>6. b[n].delta = IF IsFree(s, g, p) THEN Max({b[n - 1].delta, Change(y[p], v)})
                     ELSE b[n - 1].delta
    <3>1. b[n].delta = IF IsFree(s, k, p)
                       THEN Max({b[n - 1].delta, Change(y[p], Relaxed(s, k, y, p))})
                       ELSE b[n - 1].delta
      BY <2>4 DEF SweptNode
    <3> QED BY <2>4, <3>1
  <2>7. u \in Int /\ v \in Int
    BY <2>1, <2>2, RelaxedKeeps
  <2>8. m[1] <= v - u /\ v - u <= m[2]
    BY <1>11, <2>1, <2>2, <2>3, RelaxedWithin
  <2>9. y[p] = k.head[p] /\ a[len].head[p] = u
    <3>1. n - 1 < n
      BY <1>3
    <3>2. y[p] = k.head[p]
      BY <1>5, <2>1, <3>1
    <3>3. a[n].head[p] = u
      BY <2>1, <2>2, <2>5
    <3> QED BY <1>4, <3>2, <3>3
  <2>10. k.head[p] \in Int /\ u <= k.head[p] /\ k.head[p] - u <= lift
    BY <1>8, <1>10, <2>1, <2>9
  <2> HIDE DEF p, x, y, u, v
  <2>11. Near(n)
    <3> SUFFICES ASSUME NEW q \in Area(s)
                 PROVE  /\ m[1] <= b[n].head[q] - a[n].head[q]
                        /\ b[n].head[q] - a[n].head[q] <= m[2]
      BY DEF Within
    <3>1. CASE q = p
      BY <2>1, <2>2, <2>5, <2>8, <3>1
    <3>2. CASE q # p
      <4>1. a[n].head[q] = x[q] /\ b[n].head[q] = y[q]
        BY <2>2, <2>5, <3>2
      <4> QED BY <2>3, <4>1 DEF Within
    <3> QED BY <3>1, <3>2
  <2>12. b[n].delta <= most + lift
    <3>1. Change(y[p], v) \in Nat /\ Change(y[p], v) <= most + lift
      <4>1. - most <= v - u /\ v - u <= most + lift
        BY <1>11, <2>8
      <4>2. y[p] \in Int /\ u <= y[p] /\ y[p] - u <= lift
        BY <2>9, <2>10
      <4> QED BY <1>7, <2>7, <4>1, <4>2 DEF Change
    <3>2. Max({b[n - 1].delta, Change(y[p], v)}) =
            IF b[n - 1].delta < Change(y[p], v) THEN Change(y[p], v) ELSE b[n - 1].delta
      BY <2>2, <3>1, MaxOfTwo
    <3> QED BY <2>3, <2>6, <3>1, <3>2
  <2> QED BY <2>1, <2>11, <2>12
<1> HIDE DEF S
<1>14. len \in S
  BY <1>3, <1>12, <1>13, LoopInduction
<1>15. b[len].delta <= most + lift
  BY <1>14 DEF S
<1> QED BY <1>2, <1>15 DEF most

----------------------------------------------------------------------------
(***************************************************************************)
(* The measure of convergence.                                             *)
(***************************************************************************)
\* What is left of the heads the sweep started from: delta is its largest change.
Measured ==
  pc = "correct" =>
    \E h \in Heads(Solver, Grid.zone) :
      LET before == [Grid EXCEPT !.head = h]
      IN  Grid.head = Sweep(Solver, before).head /\ delta = Sweep(Solver, before).delta

LEMMA MeasuredStep == SInv /\ Measured /\ [Next]_vars => Measured'
<1> SUFFICES ASSUME SInv, Measured, [Next]_vars PROVE Measured'
  OBVIOUS
<1>1. CASE SweepOnce
  <2> DEFINE swept == Sweep(Solver, Grid)
             n == Solver.grid
             g == [Grid EXCEPT !.head = swept.head]
  <2>1. /\ pc = "sweep" /\ delta' = swept.delta
        /\ grids' = [grids EXCEPT ![Solver.grid].head = swept.head]
        /\ UNCHANGED <<solvers, running>>
    BY <1>1 DEF SweepOnce
  <2>2. /\ Solver \in SolverRecord /\ Grid \in GridRecord(Solver)
        /\ Grid.head \in Heads(Solver, Grid.zone)
        /\ n \in 1 .. Len(grids) /\ Len(grids) \in Nat
    BY <2>1, Solving
  <2>3. Solver' = Solver
    BY <2>1 DEF Solver
  <2>4. grids \in Seq(AnyGrid) /\ DOMAIN grids = 1 .. Len(grids)
    BY DEF SInv, Shape
  <2>5. Grid' = g
    BY <2>1, <2>2, <2>3, <2>4 DEF Grid
  <2> HIDE DEF swept, n
  <2>6. Grid'.zone = Grid.zone /\ Grid'.head = swept.head /\ [Grid' EXCEPT !.head = Grid.head] = Grid
    BY <2>2, <2>5 DEF GridRecord
  <2> HIDE DEF g
  <2>7. /\ Grid'.head = Sweep(Solver', [Grid' EXCEPT !.head = Grid.head]).head
        /\ delta' = Sweep(Solver', [Grid' EXCEPT !.head = Grid.head]).delta
        /\ Grid.head \in Heads(Solver', Grid'.zone)
    BY <2>1, <2>2, <2>3, <2>6 DEF swept
  <2> QED BY <2>7 DEF Measured
<1>2. CASE ~ SweepOnce /\ Next
  <2>1. pc' # "correct"
    BY <1>2 DEF Next, Simulate, SolveBaseline, Evaluate, SolveFinal, RunSimulation,
                Correct, Report
  <2> QED BY <2>1 DEF Measured
<1>3. CASE UNCHANGED vars
  BY <1>3 DEF vars, Measured, Solver, Grid
<1> QED BY <1>1, <1>2, <1>3

\* Sweeps alone never drive the change up: the next sweep changes no head by more
\* than the last one and the correction between them did, for every dam, blanket
\* and grid, so that it is the correction that keeps a run from converging.
THEOREM CorrectionUnsettles == Spec => []OnlyTheCorrectionUnsettles
<1>1. SInv /\ Measured => OnlyTheCorrectionUnsettles
  <2> SUFFICES ASSUME SInv, Measured, pc = "correct"
               PROVE  Sweep(Solver, NextGrid).delta <= delta + Lift
    BY DEF OnlyTheCorrectionUnsettles
  <2> DEFINE c == Correction(Solver, Grid)
             lifts == {Change(Grid.head[p], c[p]) : p \in DOMAIN c}
  <2>1. /\ Solver \in SolverRecord /\ Grid \in GridRecord(Solver)
        /\ Grid.head \in Heads(Solver, Grid.zone)
    BY Solving
  <2>2. PICK h \in Heads(Solver, Grid.zone) :
          /\ Grid.head = Sweep(Solver, [Grid EXCEPT !.head = h]).head
          /\ delta = Sweep(Solver, [Grid EXCEPT !.head = h]).delta
    BY DEF Measured
  <2> DEFINE g == [Grid EXCEPT !.head = h]
  <2>3. c \in Heads(Solver, Grid.zone) /\ c \in [Area(Solver) -> Int]
    BY <2>1, CorrectionTyped DEF Heads
  <2>4. \A q \in Area(Solver) : Grid.head[q] \in Int /\ c[q] \in Int /\ Grid.head[q] <= c[q]
    BY <2>1, <2>3, CorrectionLifts DEF Heads
  <2>5. /\ g \in GridRecord(Solver) /\ g.head = h
        /\ g.zone = Grid.zone /\ g.contact = Grid.contact
    BY <2>1 DEF GridRecord, Heads
  <2>6. /\ NextGrid \in GridRecord(Solver) /\ NextGrid.head = c
        /\ NextGrid.zone = Grid.zone /\ NextGrid.contact = Grid.contact
    BY <2>1, <2>3 DEF GridRecord, NextGrid
  <2>7. Lift = Max(lifts)
    BY DEF Lift
  <2> HIDE DEF c, g
  <2>8. Lift \in Nat /\ \A q \in Area(Solver) : c[q] - Grid.head[q] <= Lift
    <3>1. ASSUME NEW q \in Area(Solver)
          PROVE  /\ Change(Grid.head[q], c[q]) = c[q] - Grid.head[q]
                 /\ c[q] - Grid.head[q] \in Nat
                 /\ c[q] - Grid.head[q] <= High(Solver) - Low(Solver) + High(Solver)
      <4>1. CASE Grid.zone[q] = 0
        BY <2>1, <2>3, <2>4, <4>1, SolverTyped DEF Change, Heads
      <4>2. CASE Grid.zone[q] # 0
        BY <2>1, <2>3, <2>4, <4>2, SolverTyped DEF Change, Heads
      <4> QED BY <4>1, <4>2
    <3>2. DOMAIN c = Area(Solver)
      BY <2>3
    <3>3. lifts \in SUBSET Nat /\ lifts # {}
      <4>1. <<0, 0>> \in Area(Solver)
        BY <2>1, SolverTyped DEF Area, Nodes
      <4> QED BY <3>1, <3>2, <4>1
    <3>4. \A x \in lifts : x <= High(Solver) - Low(Solver) + High(Solver)
      BY <3>1, <3>2
    <3>5. \A q \in Area(Solver) : c[q] - Grid.head[q] \in lifts
      BY <3>1, <3>2
    <3> HIDE DEF lifts
    <3>6. Max(lifts) \in lifts /\ \A x \in lifts : Max(lifts) >= x
      <4>1. High(Solver) - Low(Solver) + High(Solver) \in Int
        BY <2>1, SolverTyped
      <4>2. lifts \in SUBSET Int
        BY <3>3
      <4> QED BY <3>3, <3>4, <4>1, <4>2, MaxMember
    <3> QED BY <2>4, <2>7, <3>3, <3>5, <3>6
  <2>9. Sweep(Solver, NextGrid).delta <= Sweep(Solver, g).delta + Lift
    BY <2>1, <2>2, <2>3, <2>4, <2>5, <2>6, <2>8, NextSweep DEF g
  <2> QED BY <2>2, <2>9 DEF g
<1>2. Init => Measured
  BY DEF Init, Measured
<1> QED BY <1>1, <1>2, SolverInit, MeasuredStep, SolverStep, PTL DEF Spec

----------------------------------------------------------------------------
(***************************************************************************)
(* The iterations of a solver that nobody else uses.                       *)
(***************************************************************************)
AloneState(s) ==
  {x \in [field : GridRecord(s), done : BOOLEAN] : x.field.head \in Heads(s, x.field.zone)}

LEMMA IterationTyped ==
  ASSUME NEW s \in SolverRecord, NEW n \in Nat, NEW old \in AloneState(s)
  PROVE  IterationAlone(s, n, old) \in AloneState(s)
<1>1. CASE old.done
  BY <1>1 DEF IterationAlone
<1>2. CASE ~ old.done
  <2> DEFINE swept == Sweep(s, old.field)
             fixed == [old.field EXCEPT !.head = swept.head]
             h     == Correction(s, fixed)
             done  == n > MinIter + 1 /\ swept.delta < Tolerance
  <2>1. old.field \in GridRecord(s) /\ old.field.head \in Heads(s, old.field.zone)
    BY DEF AloneState
  <2>2. swept \in SweepState(s, old.field)
    BY <2>1, SweepTyped
  <2>3. swept.head \in Heads(s, old.field.zone) /\ swept.head \in [Area(s) -> Int]
    BY <2>2 DEF SweepState, Heads
  <2>4. IterationAlone(s, n, old) =
          [field |-> [fixed EXCEPT !.head = h], done |-> done]
    BY <1>2, Zenon DEF IterationAlone, swept, fixed, h, done
  <2> HIDE DEF swept
  <2>5. fixed \in GridRecord(s) /\ fixed.head = swept.head /\ fixed.zone = old.field.zone
    BY <2>1, <2>3 DEF GridRecord
  <2> HIDE DEF fixed
  <2>6. h \in Heads(s, fixed.zone)
    BY <2>3, <2>5, CorrectionTyped
  <2> HIDE DEF h
  <2>7. h \in [Area(s) -> Int]
    BY <2>6 DEF Heads
  <2>8. /\ [fixed EXCEPT !.head = h] \in GridRecord(s)
        /\ [fixed EXCEPT !.head = h].head = h
        /\ [fixed EXCEPT !.head = h].zone = fixed.zone
    BY <2>5, <2>7 DEF GridRecord
  <2>9. done \in BOOLEAN
    OBVIOUS
  <2> DEFINE field == [fixed EXCEPT !.head = h]
  <2>10. field \in GridRecord(s) /\ field.head \in Heads(s, field.zone)
    BY <2>6, <2>8
  <2>11. IterationAlone(s, n, old) = [field |-> field, done |-> done]
    BY <2>4
  <2> HIDE DEF done, field
  <2> QED BY <2>9, <2>10, <2>11 DEF AloneState
<1> QED BY <1>1, <1>2 DEF AloneState

\* What SolvedAlone computes, after each iteration.
Going(s) ==
  LET after[n \in 0 .. MaxIter] ==
        IF n = 0
        THEN [field |-> SetBoundaryConditions(s, NewGrid(s)), done |-> FALSE]
        ELSE IterationAlone(s, n, after[n - 1])
  IN  after

LEMMA AloneTurns ==
  ASSUME NEW s \in SolverRecord
  PROVE  LET a == Going(s) IN
         /\ SolvedAlone(s) = a[MaxIter].field
         /\ a[0] = [field |-> Allocated(s), done |-> FALSE]
         /\ \A n \in 1 .. MaxIter : a[n] = IterationAlone(s, n, a[n - 1])
         /\ \A n \in 0 .. MaxIter : a[n] \in AloneState(s)
<1> DEFINE len == MaxIter
           start == [field |-> SetBoundaryConditions(s, NewGrid(s)), done |-> FALSE]
           State == AloneState(s)
           f == Going(s)
           turn == [n \in 1 .. len |-> [x \in State |-> IterationAlone(s, n, x)]]
<1>1. len \in Nat /\ start \in State /\ start = [field |-> Allocated(s), done |-> FALSE]
  BY SeepageSolverAssumption, AllocatedTyped DEF AloneState, Allocated
<1>2. \A n \in 1 .. len : \A x \in State : IterationAlone(s, n, x) \in State
  BY <1>1, IterationTyped
<1>3. turn \in [1 .. len -> [State -> State]]
  BY <1>2
<1>4. PICK run \in [0 .. len -> State] :
        run[0] = start /\ \A n \in 1 .. len : run[n] = turn[n][run[n - 1]]
  <2>1. IsLoop(State, start, len, turn)
    BY <1>1, <1>3 DEF IsLoop
  <2> HIDE DEF turn, State, start, len
  <2> QED BY <2>1, LoopExists
<1> HIDE DEF len, start, State
<1>5. run = [n \in 0 .. len |-> IF n = 0 THEN start ELSE IterationAlone(s, n, run[n - 1])]
  <2>1. \A n \in 0 .. len :
          run[n] = IF n = 0 THEN start ELSE IterationAlone(s, n, run[n - 1])
    <3> TAKE n \in 0 .. len
    <3>1. CASE n = 0
      BY <1>4, <3>1
    <3>2. CASE n # 0
      <4>1. n \in 1 .. len /\ n - 1 \in 0 .. len /\ run[n - 1] \in State
        BY <1>1, <3>2
      <4>2. run[n] = turn[n][run[n - 1]]
        BY <1>4, <4>1
      <4> QED BY <3>2, <4>1, <4>2
    <3> QED BY <3>1, <3>2
  <2> QED BY <2>1
<1>6. f = [n \in 0 .. len |-> IF n = 0 THEN start ELSE IterationAlone(s, n, f[n - 1])]
  BY <1>5, Zenon DEF Going, len, start
<1> HIDE DEF f
<1>7. f[0] = start /\ \A n \in 1 .. len : f[n] = IterationAlone(s, n, f[n - 1])
  <2>1. \A n \in 0 .. len :
          f[n] = IF n = 0 THEN start ELSE IterationAlone(s, n, f[n - 1])
    BY <1>6, Zenon
  <2>2. 0 \in 0 .. len /\ \A n \in 1 .. len : n \in 0 .. len /\ n # 0
    BY <1>1
  <2> QED BY <2>1, <2>2
<1>8. \A n \in 0 .. len : f[n] \in State
  <2> DEFINE S == {n \in 0 .. len : f[n] \in State}
  <2>1. 0 \in S
    BY <1>1, <1>7
  <2>2. \A n \in 1 .. len : n - 1 \in S => n \in S
    BY <1>1, <1>2, <1>7
  <2> HIDE DEF S
  <2>3. \A n \in 0 .. len : n \in S
    BY <1>1, <2>1, <2>2, LoopInduction
  <2> QED BY <2>3 DEF S
<1>9. SolvedAlone(s) = f[len].field
  BY DEF SolvedAlone, f, Going, len
<1> QED BY <1>1, <1>7, <1>8, <1>9 DEF f, len, State

LEMMA DoneStays ==
  ASSUME NEW s \in SolverRecord, NEW k \in 0 .. MaxIter, Going(s)[k].done
  PROVE  SolvedAlone(s) = Going(s)[k].field
<1> DEFINE a == Going(s)
           S == {n \in 0 .. MaxIter : n >= k => a[n] = a[k]}
<1>1. MaxIter \in Nat
  BY SeepageSolverAssumption
<1>2. /\ SolvedAlone(s) = a[MaxIter].field
      /\ \A n \in 1 .. MaxIter : a[n] = IterationAlone(s, n, a[n - 1])
  BY AloneTurns
<1>3. a[k].done
  OBVIOUS
<1> HIDE DEF a
<1>4. 0 \in S
  BY <1>1
<1>5. ASSUME NEW n \in 1 .. MaxIter, n - 1 \in S PROVE n \in S
  <2>1. CASE n <= k
    BY <1>1, <2>1
  <2>2. CASE n > k
    <3>1. a[n - 1] = a[k]
      BY <1>1, <1>5, <2>2
    <3>2. a[n] = IterationAlone(s, n, a[k])
      BY <1>2, <3>1
    <3>3. a[n] = a[k]
      BY <1>3, <3>2 DEF IterationAlone
    <3> QED BY <3>3
  <2> QED BY <1>1, <2>1, <2>2
<1> HIDE DEF S
<1>6. MaxIter \in S
  BY <1>1, <1>4, <1>5, LoopInduction
<1> QED BY <1>1, <1>2, <1>6 DEF S, a

----------------------------------------------------------------------------
(***************************************************************************)
(* A task keeps in step with a solver made for it alone.                   *)
(***************************************************************************)
SimulationBlankets ==
  {NoBlanket} \union {Blanket(b, K \div BlanketRatio) : b \in Blankets}

Equipped ==
  solvers["base"].blanket \in IF task = "simulate" THEN SimulationBlankets ELSE {NoBlanket}

\* The blanket of the task that is being solved is the one it was asked for.
Asked ==
  pc # "ready" =>
    IF task = "simulate"
    THEN Len(results) = 0 /\ Solver.blanket \in SimulationBlankets
    ELSE IF Len(results) = 0 THEN Solver.blanket = NoBlanket
    ELSE \E b \in Nat \X Nat : Solver.blanket = Blanket(b, K \div DefaultRatio)

Bare == [Solver EXCEPT !.grid = 0]

InStep ==
  pc # "ready" =>
    LET alone == Going(Bare)[iter] IN
    /\ pc = "sweep" => ~ alone.done /\ Grid = alone.field
    /\ pc = "correct" =>
         /\ ~ alone.done
         /\ Grid = [alone.field EXCEPT !.head = Sweep(Bare, alone.field).head]
         /\ delta = Sweep(Bare, alone.field).delta
    /\ pc = "solved" => Grid = SolvedAlone(Bare)

\* The task that is being solved does not write the grid of a result.
Apart ==
  \A k \in DOMAIN results :
    /\ results[k].grid \in 1 .. Len(grids)
    /\ pc # "ready" => results[k].grid # Solver.grid

\* Whatever is being solved, the earlier results stay what they would be alone.
EachAlone == \A k \in DOMAIN results : grids[results[k].grid] = SolvedAlone(MadeFor(k))

Separate == SInv /\ Equipped /\ Asked /\ InStep /\ Apart /\ EachAlone

\* The grids of the results stay as they are, and so does what they were made
\* for.
LEMMA ResultsStay ==
  ASSUME SInv, EachAlone, results' = results, levels' = levels,
         (task = "simulate") <=> (task' = "simulate"),
         \A k \in DOMAIN results : grids'[results[k].grid] = grids[results[k].grid]
  PROVE  EachAlone'
<1>1. \A k \in DOMAIN results : MadeFor(k)' = MadeFor(k)
  <2> TAKE k \in DOMAIN results
  <2>1. \A s, size, b : Requested(s, size, b)' = Requested(s, size, b)
    BY DEF Requested
  <2> QED BY <2>1 DEF MadeFor
<1> QED BY <1>1 DEF EachAlone

LEMMA SeparateInit == Init => Separate
<1> SUFFICES ASSUME Init PROVE Separate
  OBVIOUS
<1>1. SInv
  BY SolverInit
<1>2. DOMAIN results = {}
  BY DEF Init
<1>3. Equipped
  <2>1. PICK blanket \in {NoBlanket} \union
                {Blanket(b, K \div BlanketRatio) : b \in {c \in Blankets : task = "simulate"}} :
          solvers = [base |-> NewSolver(blanket), local |-> NewSolver(NoBlanket)]
    BY DEF Init
  <2>2. solvers["base"].blanket = blanket
    BY <2>1 DEF NewSolver
  <2> QED BY <2>2 DEF Equipped, SimulationBlankets
<1>4. Asked /\ InStep
  BY DEF Init, Asked, InStep
<1> QED BY <1>1, <1>2, <1>3, <1>4 DEF Separate, Apart, EachAlone

\* A new task starts as it would on a solver made for it.
LEMMA StartInStep ==
  ASSUME SInv, Apart, NEW name \in {"base", "local"}, NEW s \in SolverRecord,
         NEW size \in {Coarse, Fine}, NEW blanket \in BlanketRecord,
         RunSimulation(name, s, size, blanket), levels' = levels, results' = results
  PROVE  /\ InStep' /\ Apart' /\ pc' = "sweep"
         /\ Solver'.blanket = IF blanket.enabled THEN blanket ELSE s.blanket
         /\ \A o \in {"base", "local"} : o # name => solvers'[o] = solvers[o]
         /\ solvers'[name] = Solver'
         /\ \A k \in DOMAIN results : grids'[results[k].grid] = grids[results[k].grid]
<1> DEFINE r == Requested(s, size, blanket)
           n == Len(grids) + 1
           t == [r EXCEPT !.grid = n]
           g == Allocated(r)
           b == [t EXCEPT !.grid = 0]
<1>1. /\ pc' = "sweep" /\ running' = name /\ iter' = 0
      /\ solvers' = [solvers EXCEPT ![name] = t] /\ grids' = Append(grids, g)
  BY DEF RunSimulation
<1>2. levels \in Levels /\ grids \in Seq(AnyGrid) /\ Len(grids) \in Nat
      /\ solvers \in [base : SolverRecord, local : SolverRecord]
  BY DEF SInv, Shape
<1>3. r \in SolverRecord
      /\ r.blanket = IF blanket.enabled THEN blanket ELSE s.blanket
  BY <1>2, RequestedTyped
<1> HIDE DEF r
<1>4. n \in Nat /\ n # 0
  BY <1>2
<1>5. Twins(r, t) /\ t.grid = n /\ t \in SolverRecord /\ t.blanket = r.blanket
  BY <1>3, <1>4, GridNumber DEF Twins
<1> HIDE DEF t
<1>6. Twins(t, b) /\ b \in SolverRecord
  <2>1. b = [t EXCEPT !.grid = 0] /\ 0 \in Nat
    OBVIOUS
  <2> HIDE DEF b
  <2>2. Twins(t, b)
    BY <1>5, <2>1, GridNumber
  <2> QED BY <2>2 DEF Twins
<1>7. Allocated(b) = g
  BY <1>5, <1>6, TwinGrids
<1> HIDE DEF g
<1>8. Len(grids') = n /\ grids'[n] = g /\ \A k \in 1 .. Len(grids) : grids'[k] = grids[k]
  BY <1>1, <1>2, AppendTyped
<1>9. solvers'[name] = t /\ \A o \in {"base", "local"} : o # name => solvers'[o] = solvers[o]
  BY <1>1, <1>2
<1>10. Solver' = t /\ Grid' = g /\ Bare' = b
  BY <1>1, <1>5, <1>8, <1>9 DEF Solver, Grid, Bare
<1>11. InStep'
  <2>1. Going(b)[0] = [field |-> g, done |-> FALSE]
    BY <1>6, <1>7, AloneTurns
  <2> HIDE DEF b
  <2>2. (pc' = "sweep" => ~ Going(Bare')[iter'].done /\ Grid' = Going(Bare')[iter'].field)
    BY <1>1, <1>10, <2>1
  <2> QED BY <1>1, <2>2 DEF InStep
<1>12. Apart'
  BY <1>1, <1>2, <1>4, <1>5, <1>8, <1>10 DEF Apart
<1>13. \A k \in DOMAIN results : grids'[results[k].grid] = grids[results[k].grid]
  BY <1>8 DEF Apart
<1> QED BY <1>1, <1>3, <1>5, <1>9, <1>10, <1>11, <1>12, <1>13

LEMMA SeparateStart ==
  ASSUME Separate,
         \/ Simulate
         \/ SolveBaseline
         \/ \E b \in Blankets : Evaluate(b)
         \/ \E b \in Evaluated \union {<<0, 0>>} : SolveFinal(b)
  PROVE  Separate'
<1> USE DEF Separate
<1>1. NoBlanket \in BlanketRecord /\ NoBlanket.enabled = FALSE
      /\ Coarse \in {Coarse, Fine} /\ Fine \in {Coarse, Fine}
      /\ "base" \in {"base", "local"} /\ "local" \in {"base", "local"} /\ "base" # "local"
  BY BlanketTyped
<1>2. levels' = levels /\ results' = results
  BY DEF Simulate, SolveBaseline, Evaluate, SolveFinal
<1>3. SInv'
  BY StartStep
<1>4. Len(results) \in Nat
  BY AppendTyped DEF SInv, Shape
<1>5. ASSUME NEW b \in Blankets \union Evaluated \union {<<0, 0>>}
      PROVE  /\ b \in Nat \X Nat
             /\ Blanket(b, K \div DefaultRatio) \in BlanketRecord
             /\ Blanket(b, K \div DefaultRatio).enabled
  <2>1. b \in Nat \X Nat
    <3>1. \A c \in Blankets : c \in Nat \X Nat
      BY SeepageSolverAssumption
    <3>2. \A k \in 2 .. Len(results) : results[k].blanket \in Nat \X Nat
      <4>1. DOMAIN results = 1 .. Len(results)
        BY AppendTyped DEF SInv, Shape
      <4> QED BY <1>4, <4>1 DEF SInv, Shape
    <3> QED BY <3>1, <3>2 DEF Evaluated
  <2> QED BY <2>1, Requests DEF Blanket
<1>6. CASE Simulate
  <2>1. RunSimulation("base", solvers["base"], Fine, NoBlanket) /\ task = "simulate"
        /\ task' = "simulate" /\ results = <<>>
    BY <1>6 DEF Simulate
  <2>2. /\ InStep' /\ Apart' /\ pc' = "sweep"
        /\ Solver'.blanket = solvers["base"].blanket
        /\ solvers'["base"] = Solver'
        /\ \A k \in DOMAIN results : grids'[results[k].grid] = grids[results[k].grid]
    BY <1>1, <1>2, <2>1, Requests, StartInStep
  <2>3. Equipped' /\ Asked'
    BY <1>2, <2>1, <2>2 DEF Equipped, Asked
  <2> QED BY <1>2, <1>3, <2>1, <2>2, <2>3, ResultsStay
<1>7. CASE SolveBaseline
  <2>1. RunSimulation("base", solvers["base"], Fine, NoBlanket) /\ task = "baseline"
        /\ task' = "search" /\ pc = "ready"
    BY <1>7 DEF SolveBaseline, RunSimulation
  <2>2. /\ InStep' /\ Apart' /\ pc' = "sweep"
        /\ Solver'.blanket = solvers["base"].blanket
        /\ solvers'["base"] = Solver'
        /\ \A k \in DOMAIN results : grids'[results[k].grid] = grids[results[k].grid]
    BY <1>1, <1>2, <2>1, Requests, StartInStep
  <2>3. Len(results) = 0
    BY <1>4, <2>1 DEF SInv, Counted
  <2>4. Equipped' /\ Asked'
    BY <1>2, <2>1, <2>2, <2>3 DEF Equipped, Asked
  <2> QED BY <1>2, <1>3, <2>1, <2>2, <2>4, ResultsStay
<1>8. CASE \E b \in Blankets : Evaluate(b)
  <2>1. PICK b \in Blankets : Evaluate(b)
    BY <1>8
  <2> DEFINE blanket == Blanket(b, K \div DefaultRatio)
  <2>2. RunSimulation("local", solvers["base"], Coarse, blanket) /\ task = "search"
        /\ task' = "search" /\ Len(results) # 0
    BY <1>4, <2>1 DEF Evaluate
  <2>3. b \in Nat \X Nat /\ blanket \in BlanketRecord /\ blanket.enabled
    BY <1>5
  <2> HIDE DEF blanket
  <2>4. /\ InStep' /\ Apart' /\ pc' = "sweep"
        /\ Solver'.blanket = blanket
        /\ solvers'["base"] = solvers["base"]
        /\ \A k \in DOMAIN results : grids'[results[k].grid] = grids[results[k].grid]
    BY <1>1, <1>2, <2>2, <2>3, Requests, StartInStep
  <2>5. Equipped' /\ Asked'
    BY <1>2, <2>2, <2>3, <2>4 DEF Equipped, Asked, blanket
  <2> QED BY <1>2, <1>3, <2>2, <2>4, <2>5, ResultsStay
<1>9. CASE \E b \in Evaluated \union {<<0, 0>>} : SolveFinal(b)
  <2>1. PICK b \in Evaluated \union {<<0, 0>>} : SolveFinal(b)
    BY <1>9
  <2> DEFINE blanket == Blanket(b, K \div DefaultRatio)
             s == [solvers["base"] EXCEPT !.blanket = Blanket(b, K \div BlanketRatio)]
  <2>2. RunSimulation("local", s, Fine, blanket) /\ task = "search"
        /\ task' = "final" /\ Len(results) # 0
    BY <1>4, <2>1 DEF SolveFinal
  <2>3. b \in Nat \X Nat /\ blanket \in BlanketRecord /\ blanket.enabled
    BY <1>5
  <2>4. s \in SolverRecord
    BY Requests
  <2> HIDE DEF blanket, s
  <2>5. /\ InStep' /\ Apart' /\ pc' = "sweep"
        /\ Solver'.blanket = blanket
        /\ solvers'["base"] = solvers["base"]
        /\ \A k \in DOMAIN results : grids'[results[k].grid] = grids[results[k].grid]
    BY <1>1, <1>2, <2>2, <2>3, <2>4, StartInStep
  <2>6. Equipped' /\ Asked'
    BY <1>2, <2>2, <2>3, <2>5 DEF Equipped, Asked, blanket
  <2> QED BY <1>2, <1>3, <2>2, <2>5, <2>6, ResultsStay
<1> QED BY <1>6, <1>7, <1>8, <1>9

\* What is known of the grid of the task and of its solver alone.
LEMMA InStepWith ==
  ASSUME SInv, pc # "ready"
  PROVE  /\ Twins(Solver, Bare) /\ Bare \in SolverRecord
         /\ GridRecord(Bare) = GridRecord(Solver)
         /\ \A z : Heads(Bare, z) = Heads(Solver, z)
         /\ Sweep(Bare, Grid) = Sweep(Solver, Grid)
         /\ Correction(Bare, Grid) = Correction(Solver, Grid)
<1>1. Solver \in SolverRecord /\ Grid \in GridRecord(Solver)
      /\ Grid.head \in Heads(Solver, Grid.zone)
  BY Solving
<1>2. Bare = [Solver EXCEPT !.grid = 0] /\ 0 \in Nat
  BY DEF Bare
<1>3. Twins(Solver, Bare) /\ GridRecord(Bare) = GridRecord(Solver)
      /\ \A z : Heads(Bare, z) = Heads(Solver, z)
  BY <1>1, <1>2, GridNumber
<1>4. Sweep(Bare, Grid) = Sweep(Solver, Grid) /\ Correction(Bare, Grid) = Correction(Solver, Grid)
  BY <1>1, <1>3, TwinPasses
<1> QED BY <1>3, <1>4 DEF Twins

\* A pass leaves the solvers and the grids of the results alone.
LEMMA SeparatePass ==
  ASSUME Separate, pc # "ready", pc' # "ready", NEW h,
         grids' = [grids EXCEPT ![Solver.grid].head = h],
         UNCHANGED <<levels, solvers, task, running, results>>
  PROVE  /\ Equipped' /\ Asked' /\ Apart' /\ EachAlone'
         /\ Solver' = Solver /\ Bare' = Bare
         /\ Grid' = [Grid EXCEPT !.head = h]
<1> USE DEF Separate
<1>1. Solver.grid \in 1 .. Len(grids) /\ Len(grids) \in Nat
  BY Solving
<1>2. grids \in Seq(AnyGrid) /\ DOMAIN grids = 1 .. Len(grids)
  BY AppendTyped DEF SInv, Shape
<1>3. Solver' = Solver /\ Bare' = Bare
  BY DEF Solver, Bare
<1>4. Grid' = [Grid EXCEPT !.head = h]
  BY <1>1, <1>2, <1>3 DEF Grid
<1>5. \A k \in 1 .. Len(grids) : k # Solver.grid => grids'[k] = grids[k]
  BY <1>2
<1>6. \A k \in DOMAIN results : grids'[results[k].grid] = grids[results[k].grid]
  BY <1>5 DEF Apart
<1>7. EachAlone'
  BY <1>6, ResultsStay
<1>8. Equipped' /\ Asked'
  BY <1>3 DEF Equipped, Asked
<1>9. Len(grids') = Len(grids)
  BY <1>2
<1>10. Apart'
  BY <1>3, <1>9 DEF Apart
<1> QED BY <1>3, <1>4, <1>7, <1>8, <1>10

LEMMA SeparateSweep == Separate /\ SweepOnce => Separate'
<1> SUFFICES ASSUME Separate, SweepOnce PROVE Separate'
  OBVIOUS
<1> USE DEF Separate
<1> DEFINE swept == Sweep(Solver, Grid)
<1>1. /\ pc = "sweep" /\ pc' = "correct" /\ delta' = swept.delta /\ iter' = iter
      /\ grids' = [grids EXCEPT ![Solver.grid].head = swept.head]
      /\ UNCHANGED <<levels, solvers, task, running, results>>
  BY DEF SweepOnce
<1>2. SInv'
  BY SweepStep
<1>3. swept = Sweep(Bare, Grid)
  BY <1>1, InStepWith
<1> HIDE DEF swept
<1>4. /\ Equipped' /\ Asked' /\ Apart' /\ EachAlone'
      /\ Bare' = Bare /\ Grid' = [Grid EXCEPT !.head = swept.head]
  BY <1>1, SeparatePass
<1>5. ~ Going(Bare)[iter].done /\ Grid = Going(Bare)[iter].field
  BY <1>1 DEF InStep
<1>6. InStep'
  <2>1. ~ Going(Bare')[iter'].done
    BY <1>1, <1>4, <1>5
  <2>2. Grid' = [Going(Bare')[iter'].field EXCEPT
                   !.head = Sweep(Bare', Going(Bare')[iter'].field).head]
    BY <1>1, <1>3, <1>4, <1>5
  <2>3. delta' = Sweep(Bare', Going(Bare')[iter'].field).delta
    BY <1>1, <1>3, <1>4, <1>5
  <2>4. pc' # "sweep" /\ pc' # "solved"
    BY <1>1
  <2> QED BY <2>1, <2>2, <2>3, <2>4, Zenon DEF InStep
<1> QED BY <1>2, <1>4, <1>6

LEMMA SeparateCorrect == Separate /\ Correct => Separate'
<1> SUFFICES ASSUME Separate, Correct PROVE Separate'
  OBVIOUS
<1> USE DEF Separate
<1> DEFINE h == Correction(Solver, Grid)
           old == Going(Bare)[iter]
           new == Going(Bare)[iter + 1]
           swept == Sweep(Bare, old.field)
<1>1. /\ pc = "correct" /\ iter' = iter + 1
      /\ pc' = IF Enough THEN "solved" ELSE "sweep"
      /\ grids' = [grids EXCEPT ![Solver.grid].head = h]
      /\ UNCHANGED <<levels, solvers, task, running, delta, results>>
  BY DEF Correct
<1>2. SInv'
  BY CorrectStep
<1>3. h = Correction(Bare, Grid) /\ Bare \in SolverRecord
  BY <1>1, InStepWith
<1> HIDE DEF h
<1>4. /\ Equipped' /\ Asked' /\ Apart' /\ EachAlone'
      /\ Bare' = Bare /\ Grid' = [Grid EXCEPT !.head = h]
  BY <1>1, SeparatePass
<1>5. /\ ~ old.done /\ Grid = [old.field EXCEPT !.head = swept.head]
      /\ delta = swept.delta
  BY <1>1 DEF InStep
<1>6. iter \in Nat /\ iter + 1 \in 1 .. MaxIter /\ MaxIter \in Nat /\ MinIter \in Nat
  <2>1. iter \in 0 .. MaxIter /\ iter < MaxIter
    BY <1>1 DEF SInv, Shape
  <2>2. MaxIter \in Nat /\ MinIter \in Nat
    BY SeepageSolverAssumption
  <2> QED BY <2>1, <2>2
<1>7. new = [field |-> Grid', done |-> iter + 1 > MinIter + 1 /\ delta < Tolerance]
  <2>1. new = IterationAlone(Bare, iter + 1, old)
    <3>1. (iter + 1) - 1 = iter
      BY <1>6
    <3> QED BY <1>3, <1>6, <3>1, AloneTurns
  <2> HIDE DEF old, new
  <2>2. IterationAlone(Bare, iter + 1, old) =
          [field |-> [Grid EXCEPT !.head = Correction(Bare, Grid)],
           done |-> iter + 1 > MinIter + 1 /\ delta < Tolerance]
    BY <1>5 DEF IterationAlone
  <2> QED BY <1>3, <1>4, <2>1, <2>2
<1> HIDE DEF old, swept
<1>8. new.field = Grid' /\ (new.done <=> iter > MinIter /\ delta < Tolerance)
  <2>1. iter + 1 > MinIter + 1 <=> iter > MinIter
    BY <1>6
  <2> DEFINE late == iter + 1 > MinIter + 1 /\ delta < Tolerance
  <2>2. new = [field |-> Grid', done |-> late]
    BY <1>7
  <2> HIDE DEF late, new
  <2>3. new.field = Grid' /\ new.done = late
    BY <2>2
  <2> QED BY <2>1, <2>3 DEF late
<1> HIDE DEF new
<1>9. InStep'
  <2>1. CASE iter > MinIter /\ delta < Tolerance
    <3>1. SolvedAlone(Bare) = new.field
      BY <1>3, <1>6, <1>8, <2>1, DoneStays DEF new
    <3>2. pc' = "solved"
      BY <1>1, <2>1 DEF Enough
    <3> QED BY <1>4, <1>8, <3>1, <3>2 DEF InStep
  <2>2. CASE iter + 1 = MaxIter
    <3>1. SolvedAlone(Bare) = new.field
      BY <1>3, <2>2, AloneTurns DEF new
    <3>2. pc' = "solved"
      BY <1>1, <2>2 DEF Enough
    <3> QED BY <1>4, <1>8, <3>1, <3>2 DEF InStep
  <2>3. CASE ~ (iter > MinIter /\ delta < Tolerance) /\ iter + 1 # MaxIter
    <3>1. pc' = "sweep" /\ ~ new.done
      BY <1>1, <1>8, <2>3 DEF Enough
    <3>2. Going(Bare')[iter'] = new
      BY <1>1, <1>4 DEF new
    <3> QED BY <1>8, <3>1, <3>2 DEF InStep
  <2> QED BY <2>1, <2>2, <2>3
<1> QED BY <1>2, <1>4, <1>9

LEMMA NodesDetermine ==
  ASSUME NEW a \in Nat \ 0 .. 2, NEW b \in Nat \ 0 .. 2,
         NEW c \in Nat \ 0 .. 2, NEW d \in Nat \ 0 .. 2, Nodes(a, b) = Nodes(c, d)
  PROVE  a = c /\ b = d
<1>1. /\ <<a - 1, 0>> \in Nodes(a, b) /\ <<0, b - 1>> \in Nodes(a, b)
      /\ <<c - 1, 0>> \in Nodes(c, d) /\ <<0, d - 1>> \in Nodes(c, d)
  BY DEF Nodes
<1>2. /\ <<a - 1, 0>> \in (0 .. c - 1) \X (0 .. d - 1)
      /\ <<0, b - 1>> \in (0 .. c - 1) \X (0 .. d - 1)
      /\ <<c - 1, 0>> \in (0 .. a - 1) \X (0 .. b - 1)
      /\ <<0, d - 1>> \in (0 .. a - 1) \X (0 .. b - 1)
  BY <1>1 DEF Nodes
<1> QED BY <1>2

\* A new solver that is given what the task was given is the task's but for the
\* number of its grid.
LEMMA MadeForTask ==
  ASSUME SInv, pc # "ready", NEW size \in {Coarse, Fine},
         size = <<Solver.nx, Solver.ny>>
  PROVE  Requested(NewSolver(Solver.blanket), size, NoBlanket) = Bare
<1>1. Solver \in SolverRecord /\ Solver.up = levels[1] /\ Solver.down = levels[2]
  BY Solving
<1>2. Bare = [up |-> levels[1], down |-> levels[2], nx |-> Solver.nx, ny |-> Solver.ny,
              blanket |-> Solver.blanket, grid |-> 0]
  BY <1>1 DEF Bare, SolverRecord
<1>3. Requested(NewSolver(Solver.blanket), size, NoBlanket) =
        [up |-> levels[1], down |-> levels[2], nx |-> size[1], ny |-> size[2],
         blanket |-> Solver.blanket, grid |-> 0]
  <2> DEFINE new == NewSolver(Solver.blanket)
  <2>1. new = [up |-> 0, down |-> 0, nx |-> Fine[1], ny |-> Fine[2],
               blanket |-> Solver.blanket, grid |-> 0]
    BY DEF NewSolver
  <2> HIDE DEF new
  <2>2. Requested(new, size, NoBlanket) =
          [new EXCEPT !.up = levels[1], !.down = levels[2], !.nx = size[1], !.ny = size[2],
                      !.blanket = new.blanket]
    BY <2>1 DEF Requested, NoBlanket
  <2>3. Requested(new, size, NoBlanket) =
          [up |-> levels[1], down |-> levels[2], nx |-> size[1], ny |-> size[2],
           blanket |-> Solver.blanket, grid |-> 0]
    BY <2>1, <2>2
  <2> QED BY <2>3 DEF new
<1>4. size[1] = Solver.nx /\ size[2] = Solver.ny
  OBVIOUS
<1> QED BY <1>2, <1>3, <1>4

LEMMA SeparateReport == Separate /\ Report => Separate'
<1> SUFFICES ASSUME Separate, Report PROVE Separate'
  OBVIOUS
<1> USE DEF Separate
<1> DEFINE r == [ blanket    |-> <<Solver.blanket.length, Solver.blanket.thickness>>,
                  grid       |-> Solver.grid,
                  iterations |-> iter,
                  flow       |-> SeepageFlow(Solver, Grid),
                  pore       |-> MaxPorePressure(Solver, Grid) ]
<1> PICK n : n = Len(results) + 1
  OBVIOUS
<1>1. /\ pc = "solved" /\ pc' = "ready" /\ results' = Append(results, r)
      /\ UNCHANGED <<levels, solvers, grids, task, running, iter, delta>>
  BY DEF Report
<1>2. r.blanket = <<Solver.blanket.length, Solver.blanket.thickness>> /\ r.grid = Solver.grid
  OBVIOUS
<1> HIDE DEF r
<1>3. SInv'
  BY ReportStep
<1>4. /\ Solver \in SolverRecord /\ Grid \in GridRecord(Solver)
      /\ Solver.grid \in 1 .. Len(grids)
  BY <1>1, Solving
<1>5. results \in Seq(ToSet(results))
  BY DEF SInv, Shape
<1>6. /\ Len(results) \in Nat /\ DOMAIN results = 1 .. Len(results)
      /\ DOMAIN results' = 1 .. n
      /\ \A k \in 1 .. Len(results) : results'[k] = results[k]
      /\ results'[n] = r
  BY <1>1, <1>5, AppendTyped
<1>7. \A s, size, b : Requested(s, size, b)' = Requested(s, size, b)
  BY <1>1 DEF Requested
<1>8. \A k \in DOMAIN results : MadeFor(k)' = MadeFor(k)
  BY <1>1, <1>6, <1>7 DEF MadeFor
<1>9. MadeFor(n)' = Bare
  <2> DEFINE bare == IF task = "simulate" THEN r.blanket = <<0, 0>> ELSE n = 1
             perm == K \div (IF task = "simulate" THEN BlanketRatio ELSE DefaultRatio)
             asked == IF bare THEN NoBlanket ELSE Blanket(r.blanket, perm)
             size == IF DOMAIN Grid.head = Nodes(Fine[1], Fine[2]) THEN Fine ELSE Coarse
  <2>1. MadeFor(n)' = Requested(NewSolver(asked), size, NoBlanket)
    <3>1. grids'[results'[n].grid] = Grid /\ results'[n].blanket = r.blanket /\ task' = task
      BY <1>1, <1>2, <1>6 DEF Grid
    <3> QED BY <1>7, <3>1 DEF MadeFor
  <2>2. asked = Solver.blanket
    <3>1. CASE task = "simulate"
      <4>1. Solver.blanket \in SimulationBlankets
        BY <1>1, <3>1 DEF Asked
      <4>2. CASE Solver.blanket = NoBlanket
        BY <1>2, <3>1, <4>2 DEF NoBlanket
      <4>3. CASE \E b \in Blankets : Solver.blanket = Blanket(b, K \div BlanketRatio)
        <5>1. PICK b \in Blankets : Solver.blanket = Blanket(b, K \div BlanketRatio)
          BY <4>3
        <5>2. b \in (Nat \ {0}) \X (Nat \ {0})
          BY SeepageSolverAssumption
        <5>3. r.blanket = b /\ b # <<0, 0>>
          BY <1>2, <5>1, <5>2 DEF Blanket
        <5> QED BY <3>1, <5>1, <5>3
      <4> QED BY <4>1, <4>2, <4>3 DEF SimulationBlankets
    <3>2. CASE task # "simulate" /\ Len(results) = 0
      BY <1>1, <3>2 DEF Asked
    <3>3. CASE task # "simulate" /\ Len(results) # 0
      <4>1. PICK b \in Nat \X Nat : Solver.blanket = Blanket(b, K \div DefaultRatio)
        BY <1>1, <3>3 DEF Asked
      <4>2. r.blanket = b /\ n # 1
        BY <1>2, <1>6, <3>3, <4>1 DEF Blanket
      <4> QED BY <3>3, <4>1, <4>2
    <3> QED BY <3>1, <3>2, <3>3
  <2>3. size = <<Solver.nx, Solver.ny>> /\ size \in {Coarse, Fine}
    <3>1. DOMAIN Grid.head = Nodes(Solver.nx, Solver.ny)
      BY <1>4 DEF GridRecord, Area
    <3>2. <<Solver.nx, Solver.ny>> \in {Coarse, Fine}
      BY <1>4 DEF SolverRecord
    <3>3. /\ Fine \in (Nat \ 0 .. 2) \X (Nat \ 0 .. 2)
          /\ Solver.nx \in Nat \ 0 .. 2 /\ Solver.ny \in Nat \ 0 .. 2
      <4>1. Solver.nx \in Nat /\ Solver.ny \in Nat /\ Solver.nx > 2 /\ Solver.ny > 2
        BY <1>4, SolverTyped
      <4>2. {Coarse, Fine} \subseteq (Nat \ 0 .. 2) \X (Nat \ 0 .. 2)
        BY SeepageSolverAssumption
      <4>3. Fine \in (Nat \ 0 .. 2) \X (Nat \ 0 .. 2)
        BY <4>2
      <4> HIDE DEF size, asked
      <4> QED BY <4>1, <4>3
    <3>4. CASE Nodes(Solver.nx, Solver.ny) = Nodes(Fine[1], Fine[2])
      <4>1. Solver.nx = Fine[1] /\ Solver.ny = Fine[2]
        BY <3>3, <3>4, NodesDetermine
      <4>2. Fine = <<Fine[1], Fine[2]>>
        BY <3>3
      <4> QED BY <3>1, <3>4, <4>1, <4>2
    <3>5. CASE Nodes(Solver.nx, Solver.ny) # Nodes(Fine[1], Fine[2])
      <4>1. <<Solver.nx, Solver.ny>> # Fine
        BY <3>3, <3>5
      <4> QED BY <3>1, <3>2, <3>5, <4>1
    <3> QED BY <3>4, <3>5
  <2> HIDE DEF asked, size
  <2> QED BY <1>1, <2>1, <2>2, <2>3, MadeForTask
<1>10. Grid = SolvedAlone(Bare)
  BY <1>1 DEF InStep
<1>11. \A k \in DOMAIN results' : k \in DOMAIN results \/ k = n
  BY <1>6
<1>12. EachAlone'
  <2>1. \A k \in DOMAIN results : grids'[results'[k].grid] = SolvedAlone(MadeFor(k)')
    BY <1>1, <1>6, <1>8 DEF EachAlone
  <2>2. grids'[results'[n].grid] = SolvedAlone(MadeFor(n)')
    BY <1>1, <1>2, <1>6, <1>9, <1>10 DEF Grid
  <2> QED BY <1>11, <2>1, <2>2 DEF EachAlone
<1>13. Apart'
  BY <1>1, <1>2, <1>4, <1>6, <1>11 DEF Apart
<1>14. Equipped' /\ Asked' /\ InStep'
  BY <1>1 DEF Equipped, Asked, InStep
<1> QED BY <1>3, <1>12, <1>13, <1>14

LEMMA SeparateStep == Separate /\ [Next]_vars => Separate'
<1> SUFFICES ASSUME Separate, [Next]_vars PROVE Separate'
  OBVIOUS
<1>1. CASE Simulate \/ SolveBaseline \/ (\E b \in Blankets : Evaluate(b))
           \/ (\E b \in Evaluated \union {<<0, 0>>} : SolveFinal(b))
  BY <1>1, SeparateStart
<1>2. CASE SweepOnce
  BY <1>2, SeparateSweep
<1>3. CASE Correct
  BY <1>3, SeparateCorrect
<1>4. CASE Report
  BY <1>4, SeparateReport
<1>5. CASE UNCHANGED vars
  <2> USE <1>5 DEF vars, Separate
  <2>1. SInv'
    BY SolverStep
  <2>2. Solver' = Solver /\ Grid' = Grid /\ Bare' = Bare
    BY DEF Solver, Grid, Bare
  <2>3. Equipped' /\ Asked' /\ InStep' /\ Apart'
    BY <2>2 DEF Equipped, Asked, InStep, Apart
  <2>4. EachAlone'
    BY ResultsStay
  <2> QED BY <2>1, <2>3, <2>4
<1> QED BY <1>1, <1>2, <1>3, <1>4, <1>5 DEF Next

\* No design leaves a trace in another's field: the grid of every result is the
\* one a solver made for its request alone arrives at, although the copies share
\* the slices of the base solver and a solver keeps those of its last design.
THEOREM DesignsKeepApart == Spec => []DesignsAreIndependent
<1>1. Separate => DesignsAreIndependent
  BY DEF Separate, EachAlone, DesignsAreIndependent
<1> QED BY <1>1, SeparateInit, SeparateStep, PTL DEF Spec
=============================================================================
