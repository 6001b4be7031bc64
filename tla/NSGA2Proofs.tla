---------------------------- MODULE NSGA2Proofs ----------------------------
(***************************************************************************)
(* Theorems about the dominance of the blanket optimiser.  With tolerances *)
(* it is no partial order: it is not transitive.  What the sort needs of   *)
(* it holds for any tolerances, flows, costs and budget: two designs never *)
(* dominate each other, and among any designs there is one that none of    *)
(* them dominates.                                                         *)
(*                                                                         *)
(* The argument is a potential: the sum of both objectives, each in units  *)
(* of its tolerance, grows from a valid design to any valid design that it *)
(* dominates.  To dominate is to gain at least a tolerance in one          *)
(* objective and to lose less than one in the other.                       *)
(*                                                                         *)
(* Then lemmas about the non-dominated sort, the exchange sort, the order  *)
(* a front is cut by, and the selection.                                   *)
(***************************************************************************)
EXTENDS NSGA2, LoopTheorems, SequenceTheorems, FiniteSetTheorems,
        WellFoundedInduction, TLAPS

Potential(d) == Flow[d] * CostTolerance + Cost[d] * FlowTolerance

LEMMA DesignTypes ==
  ASSUME NEW d \in Design
  PROVE  /\ Flow[d] \in Nat /\ Cost[d] \in Nat
         /\ Potential(d) \in Nat
<1>1. Flow[d] \in Nat /\ Cost[d] \in Nat
  BY NSGA2Assumption
<1>2. FlowTolerance \in Nat /\ CostTolerance \in Nat
  BY NSGA2Assumption
<1>3. /\ Flow[d] * CostTolerance \in Nat
      /\ Cost[d] * FlowTolerance \in Nat
  BY <1>1, <1>2
<1> QED
  BY <1>1, <1>3 DEF Potential

\* A gain of at least s in the first objective outweighs a loss of less than t in
\* the second, once each is measured in the other's tolerance.
LEMMA GainOutweighsLoss ==
  ASSUME NEW x \in Int, NEW y \in Int, NEW s \in Nat \ {0}, NEW t \in Nat \ {0},
         x >= s, -t < y
  PROVE  x * t + y * s > 0
<1>1. x * t >= s * t
  <2>1. (x - s) * t >= 0
    <3>1. x - s \in Nat
      OBVIOUS
    <3> QED
      BY <3>1
  <2> QED
    BY <2>1
<1>2. y * s > -(t * s)
  <2>1. (y + t) * s > 0
    <3>1. y + t \in Nat \ {0}
      OBVIOUS
    <3> QED
      BY <3>1
  <2> QED
    BY <2>1
<1> QED
  BY <1>1, <1>2

\* Between valid designs the potential grows along dominance.
LEMMA PotentialGrows ==
  ASSUME NEW a \in Design, NEW b \in Design, Valid(b), Dominates(a, b)
  PROVE  Potential(a) < Potential(b)
<1> DEFINE f == Flow[b] - Flow[a]
           c == Cost[b] - Cost[a]
           F == FlowTolerance
           C == CostTolerance
<1>1. /\ Flow[a] \in Nat /\ Cost[a] \in Nat
      /\ Flow[b] \in Nat /\ Cost[b] \in Nat
  BY DesignTypes
<1>2. F \in Nat \ {0} /\ C \in Nat \ {0}
  BY NSGA2Assumption
<1>3. f \in Int /\ c \in Int
  BY <1>1
<1>4. /\ -F < f /\ -C < c
      /\ f >= F \/ c >= C
  BY <1>1, <1>2 DEF Dominates, SameFlow, SameCost, Near
<1>5. f * C + c * F > 0
  <2>1. CASE f >= F
    BY <2>1, <1>2, <1>3, <1>4, GainOutweighsLoss
  <2>2. CASE c >= C
    <3>1. c * F + f * C > 0
      BY <2>2, <1>2, <1>3, <1>4, GainOutweighsLoss
    <3>2. c * F \in Int /\ f * C \in Int
      BY <1>2, <1>3
    <3> HIDE DEF f, c, F, C
    <3> QED
      BY <3>1, <3>2
  <2> QED
    BY <1>4, <2>1, <2>2
<1>6. f * C + c * F = Potential(b) - Potential(a)
  <2>1. f * C = Flow[b] * C - Flow[a] * C
    BY <1>1, <1>2
  <2>2. c * F = Cost[b] * F - Cost[a] * F
    BY <1>1, <1>2
  <2>3. /\ Flow[b] * C \in Nat /\ Flow[a] * C \in Nat
        /\ Cost[b] * F \in Nat /\ Cost[a] * F \in Nat
    BY <1>1, <1>2
  <2> QED
    BY <2>1, <2>2, <2>3 DEF Potential
<1> QED
  BY <1>5, <1>6, DesignTypes

\* Two designs never dominate each other, and none dominates itself: the sort may
\* skip its second comparison when the first succeeds (genetic_algo.go:344-350).
THEOREM DominanceIsAsymmetric ==
  ASSUME NEW a \in Design, NEW b \in Design, Dominates(a, b)
  PROVE  ~Dominates(b, a)
<1> SUFFICES ASSUME Dominates(b, a) PROVE FALSE
  OBVIOUS
<1>1. Valid(a) /\ Valid(b)
  BY DEF Dominates
<1>2. Potential(a) < Potential(b) /\ Potential(b) < Potential(a)
  BY <1>1, PotentialGrows
<1> QED
  BY <1>2, DesignTypes

\* In any set of designs, however large, one is dominated by none of them.  So a
\* sort always finds a first front, and a next one as long as anybody is left: it
\* ranks every individual, and the selection always has somebody to take.
THEOREM SomeoneIsUndominated ==
  ASSUME NEW S \in SUBSET Design, S # {}
  PROVE  \E d \in S : \A e \in S : ~Dominates(e, d)
<1> DEFINE V == {d \in S : Valid(d)}
           P == {Potential(d) : d \in V}
<1>1. CASE V = {}
  <2>1. \A d, e \in S : ~Dominates(e, d)
    BY <1>1 DEF Dominates
  <2> QED
    BY <2>1
<1>2. CASE V # {}
  <2>1. P \subseteq Nat /\ P # {}
    BY <1>2, DesignTypes
  <2>2. \E m \in P : \A x \in P : <<x, m>> \notin OpToRel(<, Nat)
    BY <2>1, NatLessThanWellFounded, WFMin
  <2>3. PICK m \in P : \A x \in P : ~(x < m)
    BY <2>1, <2>2 DEF OpToRel
  <2>4. PICK d \in V : Potential(d) = m
    BY <2>3
  <2>5. ASSUME NEW e \in S, Dominates(e, d) PROVE FALSE
    <3>1. e \in V
      BY <2>5 DEF Dominates
    <3>2. Potential(e) < Potential(d)
      BY <2>4, <2>5, PotentialGrows
    <3> QED
      BY <2>3, <2>4, <3>1, <3>2
  <2> QED
    BY <2>4, <2>5
<1> QED
  BY <1>1, <1>2

----------------------------------------------------------------------------
(* Lists of indices *)

\* s lists the members of S, each of them once.
Lists(s, S) == s \in Seq(S) /\ ToSet(s) = S /\ IsInjective(s)

Rising(s) == \A x, y \in DOMAIN s : x < y => s[x] < s[y]

LEMMA ToSetOfSeq ==
  ASSUME NEW X, NEW s \in Seq(X)
  PROVE  ToSet(s) = {s[k] : k \in 1 .. Len(s)} /\ ToSet(s) \subseteq X
BY LenProperties DEF ToSet

LEMMA ToSetOfConcat ==
  ASSUME NEW X, NEW s \in Seq(X), NEW t \in Seq(X)
  PROVE  ToSet(s \o t) = ToSet(s) \union ToSet(t)
<1> DEFINE u == s \o t
<1>1. /\ u \in Seq(X) /\ Len(u) = Len(s) + Len(t)
      /\ \A i \in 1 .. Len(s) + Len(t) :
             u[i] = IF i <= Len(s) THEN s[i] ELSE t[i - Len(s)]
  BY ConcatProperties
<1>2. Len(s) \in Nat /\ Len(t) \in Nat
  BY LenProperties
<1>3. /\ ToSet(s) = {s[k] : k \in 1 .. Len(s)}
      /\ ToSet(t) = {t[k] : k \in 1 .. Len(t)}
      /\ ToSet(u) = {u[k] : k \in 1 .. Len(u)}
  BY <1>1, ToSetOfSeq
<1> HIDE DEF u
<1>4. ASSUME NEW k \in 1 .. Len(s) PROVE s[k] \in ToSet(u)
  <2>1. k \in 1 .. Len(u) /\ u[k] = s[k]
    BY <1>1, <1>2
  <2> QED BY <1>3, <2>1
<1>5. ASSUME NEW k \in 1 .. Len(t) PROVE t[k] \in ToSet(u)
  <2>1. Len(s) + k \in 1 .. Len(u) /\ u[Len(s) + k] = t[k]
    BY <1>1, <1>2
  <2> QED BY <1>3, <2>1
<1>6. ASSUME NEW k \in 1 .. Len(u) PROVE u[k] \in ToSet(s) \union ToSet(t)
  <2>1. CASE k <= Len(s)
    <3>1. k \in 1 .. Len(s) /\ u[k] = s[k]
      BY <1>1, <1>2, <2>1
    <3> QED BY <1>3, <3>1
  <2>2. CASE ~ (k <= Len(s))
    <3>1. k - Len(s) \in 1 .. Len(t) /\ u[k] = t[k - Len(s)]
      BY <1>1, <1>2, <2>2
    <3> QED BY <1>3, <3>1
  <2> QED BY <2>1, <2>2
<1> QED BY <1>3, <1>4, <1>5, <1>6 DEF u

\* Two lists of different things, one after the other.
LEMMA ListConcat ==
  ASSUME NEW S, NEW T, S \intersect T = {}, NEW s, NEW t, Lists(s, S), Lists(t, T)
  PROVE  Lists(s \o t, S \union T)
<1> DEFINE u == s \o t
           X == S \union T
<1>1. s \in Seq(X) /\ t \in Seq(X)
  BY SeqMonotonic DEF Lists
<1>2. /\ u \in Seq(X) /\ Len(u) = Len(s) + Len(t)
      /\ \A i \in 1 .. Len(s) + Len(t) :
             u[i] = IF i <= Len(s) THEN s[i] ELSE t[i - Len(s)]
  BY <1>1, ConcatProperties
<1>3. ToSet(u) = X
  BY <1>1, ToSetOfConcat DEF Lists
<1>4. /\ Len(s) \in Nat /\ Len(t) \in Nat
      /\ s \in [1 .. Len(s) -> S] /\ t \in [1 .. Len(t) -> T]
  BY LenProperties DEF Lists
<1>5. DOMAIN u = 1 .. Len(u)
  BY <1>2, LenProperties
<1> HIDE DEF u
<1>6. ASSUME NEW a \in 1 .. Len(u), NEW b \in 1 .. Len(u), u[a] = u[b] PROVE a = b
  <2>1. CASE a <= Len(s) /\ b <= Len(s)
    BY <1>2, <1>4, <1>6, <2>1 DEF Lists, IsInjective
  <2>2. CASE a > Len(s) /\ b > Len(s)
    <3>1. a - Len(s) \in 1 .. Len(t) /\ b - Len(s) \in 1 .. Len(t)
      BY <1>2, <1>4, <2>2
    <3>2. t[a - Len(s)] = t[b - Len(s)]
      BY <1>2, <1>4, <1>6, <2>2
    <3>3. a - Len(s) = b - Len(s)
      BY <1>4, <3>1, <3>2 DEF Lists, IsInjective
    <3> QED BY <1>4, <3>3
  <2>3. CASE a <= Len(s) /\ b > Len(s)
    <3>1. a \in 1 .. Len(s) /\ b - Len(s) \in 1 .. Len(t)
      BY <1>2, <1>4, <2>3
    <3>2. u[a] = s[a] /\ u[b] = t[b - Len(s)]
      BY <1>2, <1>4, <2>3, <3>1
    <3>3. u[a] \in S /\ u[b] \in T
      BY <1>4, <3>1, <3>2
    <3> QED BY <1>6, <3>3
  <2>4. CASE a > Len(s) /\ b <= Len(s)
    <3>1. b \in 1 .. Len(s) /\ a - Len(s) \in 1 .. Len(t)
      BY <1>2, <1>4, <2>4
    <3>2. u[b] = s[b] /\ u[a] = t[a - Len(s)]
      BY <1>2, <1>4, <2>4, <3>1
    <3>3. u[b] \in S /\ u[a] \in T
      BY <1>4, <3>1, <3>2
    <3> QED BY <1>6, <3>3
  <2> QED BY <1>2, <1>4, <2>1, <2>2, <2>3, <2>4
<1> QED BY <1>2, <1>3, <1>5, <1>6 DEF Lists, IsInjective, u

OneOf(S, n) == IF n \in S THEN <<n>> ELSE <<>>

\* The loop of Ascending, as the function its definition chooses.
Counting(c, S) ==
  LET upTo[n \in 0 .. Len(c)] ==
        IF n = 0 THEN <<>> ELSE upTo[n - 1] \o OneOf(S, n)
  IN  upTo

LEMMA AscendingTurns ==
  ASSUME NEW X, NEW c \in Seq(X), NEW S
  PROVE  LET f == Counting(c, S) IN
         /\ Ascending(c, S) = f[Len(c)]
         /\ f[0] = <<>>
         /\ \A n \in 1 .. Len(c) :
                f[n] = f[n - 1] \o OneOf(S, n)
<1> DEFINE len == Len(c)
           Type == Seq(1 .. len)
           start == <<>>
           f == Counting(c, S)
           turn == [n \in 1 .. len |-> [x \in Type |-> x \o OneOf(S, n)]]
<1>1. len \in Nat /\ start \in Type
  BY LenProperties, EmptySeq
<1>2. \A n \in 1 .. len : \A x \in Type : x \o OneOf(S, n) \in Type
  <2> TAKE n \in 1 .. len
  <2> TAKE x \in Type
  <2>1. OneOf(S, n) \in Type
    <3>1. <<n>> \in Type /\ <<>> \in Type
      BY <1>1
    <3> QED BY <3>1 DEF OneOf
  <2> QED BY <2>1, ConcatProperties
<1> HIDE DEF Type, start
<1>3. turn \in [1 .. len -> [Type -> Type]]
  BY <1>2
<1>4. PICK run \in [0 .. len -> Type] :
        run[0] = start /\ \A n \in 1 .. len : run[n] = turn[n][run[n - 1]]
  <2>1. IsLoop(Type, start, len, turn)
    BY <1>1, <1>3 DEF IsLoop
  <2> HIDE DEF turn, len
  <2> QED BY <2>1, LoopExists
<1> HIDE DEF len, turn
<1>5. run = [n \in 0 .. len |-> IF n = 0 THEN start ELSE run[n - 1] \o OneOf(S, n)]
  <2>1. ASSUME NEW n \in 0 .. len
        PROVE  run[n] = IF n = 0 THEN start ELSE run[n - 1] \o OneOf(S, n)
    <3>1. CASE n = 0
      BY <1>4, <3>1
    <3>2. CASE n # 0
      <4>1. n \in 1 .. len /\ n - 1 \in 0 .. len /\ run[n - 1] \in Type
        BY <1>1, <1>4, <3>2
      <4> QED BY <1>4, <3>2, <4>1 DEF turn
    <3> QED BY <3>1, <3>2
  <2> QED BY <2>1
<1>6. f = [n \in 0 .. len |-> IF n = 0 THEN start ELSE f[n - 1] \o OneOf(S, n)]
  BY <1>5, Zenon DEF Counting, len, start
<1> HIDE DEF f
<1>7. f[0] = start /\ \A n \in 1 .. len : f[n] = f[n - 1] \o OneOf(S, n)
  <2>1. 0 \in 0 .. len /\ \A n \in 1 .. len : n \in 0 .. len /\ n # 0
    BY <1>1
  <2>2. f[0] = IF 0 = 0 THEN start ELSE f[0 - 1] \o OneOf(S, 0)
    BY <1>6, <2>1, Zenon
  <2>3. \A n \in 1 .. len : f[n] = IF n = 0 THEN start ELSE f[n - 1] \o OneOf(S, n)
    BY <1>6, <2>1, Zenon
  <2> QED BY <2>1, <2>2, <2>3, Zenon
<1>8. Ascending(c, S) = f[len]
  BY DEF Ascending, Counting, OneOf, f, len
<1> QED BY <1>7, <1>8 DEF f, len, start

\* It lists the members of S in index order.
LEMMA AscendingLists ==
  ASSUME NEW X, NEW c \in Seq(X), NEW S \in SUBSET (DOMAIN c)
  PROVE  Lists(Ascending(c, S), S) /\ Rising(Ascending(c, S))
<1> DEFINE f == Counting(c, S)
           N == Len(c)
           upTo(n) == {i \in S : i <= n}
           Good == {n \in 0 .. N : Lists(f[n], upTo(n)) /\ Rising(f[n])}
<1>1. N \in Nat /\ DOMAIN c = 1 .. N
  BY LenProperties
<1>2. /\ Ascending(c, S) = f[N] /\ f[0] = <<>>
      /\ \A n \in 1 .. N : f[n] = f[n - 1] \o OneOf(S, n)
  BY AscendingTurns
<1> HIDE DEF f, N
<1>3. 0 \in Good
  <2>1. upTo(0) = {}
    BY <1>1
  <2>2. Lists(<<>>, {}) /\ Rising(<<>>)
    BY DEF Lists, Rising, IsInjective, ToSet
  <2>3. Lists(f[0], upTo(0)) /\ Rising(f[0])
    BY <1>2, <2>1, <2>2
  <2> QED BY <1>1, <2>3
<1>4. ASSUME NEW n \in 1 .. N, n - 1 \in Good PROVE n \in Good
  <2>1. Lists(f[n - 1], upTo(n - 1)) /\ Rising(f[n - 1])
    BY <1>4
  <2>2. CASE n \in S
    <3>1. f[n] = f[n - 1] \o <<n>>
      BY <1>2, <2>2 DEF OneOf
    <3>2. Lists(<<n>>, {n})
      BY DEF Lists, IsInjective, ToSet
    <3>3. upTo(n) = upTo(n - 1) \union {n} /\ upTo(n - 1) \intersect {n} = {}
      BY <1>1, <2>2
    <3>4. Lists(f[n], upTo(n))
      BY <2>1, <3>1, <3>2, <3>3, ListConcat
    <3>5. Rising(f[n])
      <4> DEFINE g == f[n - 1]
                 h == f[n]
      <4>1. g \in Seq(upTo(n - 1)) /\ g \in Seq(1 .. N) /\ <<n>> \in Seq(1 .. N)
        BY <1>1, <2>1, SeqMonotonic DEF Lists
      <4>2. /\ Len(g) \in Nat /\ DOMAIN g = 1 .. Len(g)
            /\ \A k \in 1 .. Len(g) : g[k] \in upTo(n - 1)
        BY <4>1, LenProperties
      <4>3. /\ Len(h) = Len(g) + 1 /\ DOMAIN h = 1 .. Len(h)
            /\ \A k \in 1 .. Len(g) : h[k] = g[k]
            /\ h[Len(g) + 1] = n
        <5>1. Len(<<n>>) = 1 /\ <<n>>[1] = n
          OBVIOUS
        <5>2. /\ h \in Seq(1 .. N) /\ Len(h) = Len(g) + 1
              /\ \A k \in 1 .. Len(g) + 1 : h[k] = IF k <= Len(g) THEN g[k] ELSE <<n>>[k - Len(g)]
          BY <3>1, <4>1, <5>1, ConcatProperties
        <5>3. DOMAIN h = 1 .. Len(h)
          BY <5>2, LenProperties
        <5> HIDE DEF g, h
        <5>4. ASSUME NEW k \in 1 .. Len(g) PROVE h[k] = g[k]
          BY <4>2, <5>2
        <5>5. h[Len(g) + 1] = n
          <6>1. Len(g) + 1 \in 1 .. Len(g) + 1 /\ Len(g) + 1 - Len(g) = 1
            BY <4>2
          <6>2. h[Len(g) + 1] = <<n>>[1]
            BY <4>2, <5>2, <6>1
          <6> QED BY <5>1, <6>2
        <5> QED BY <5>2, <5>3, <5>4, <5>5
      <4> HIDE DEF g, h
      <4>4. ASSUME NEW x \in DOMAIN h, NEW y \in DOMAIN h, x < y PROVE h[x] < h[y]
        <5>1. CASE y <= Len(g)
          BY <2>1, <4>2, <4>3, <4>4, <5>1 DEF Rising, g
        <5>2. CASE y = Len(g) + 1
          BY <1>1, <4>2, <4>3, <4>4, <5>2
        <5> QED BY <4>2, <4>3, <5>1, <5>2
      <4> QED BY <4>4 DEF Rising, h
    <3> QED BY <3>4, <3>5
  <2>3. CASE n \notin S
    <3>1. f[n] = f[n - 1] \o <<>>
      BY <1>2, <2>3 DEF OneOf
    <3>2. f[n] = f[n - 1]
      BY <2>1, <3>1, ConcatEmptySeq DEF Lists
    <3>3. upTo(n) = upTo(n - 1)
      BY <1>1, <2>3
    <3>4. Lists(f[n], upTo(n)) /\ Rising(f[n])
      BY <2>1, <3>2, <3>3
    <3> QED BY <3>4
  <2> QED BY <2>2, <2>3
<1> HIDE DEF Good
<1>5. N \in Good
  BY <1>1, <1>3, <1>4, LoopInduction
<1>6. upTo(N) = S
  BY <1>1
<1> QED BY <1>2, <1>5, <1>6 DEF Good

----------------------------------------------------------------------------
(* The next front *)

ReleasedAt(c, dom, front, k) ==
  {j \in DOMAIN c :
      /\ <<front[k], j>> \in dom
      /\ \A i \in (DOMAIN c) \ {front[m] : m \in 1 .. k} : <<i, j>> \notin dom}

\* Dominated by one of the first k members of front and by nobody else that is left.
ReleasedBy(c, dom, front, k) ==
  {j \in DOMAIN c :
      /\ \E m \in 1 .. k : <<front[m], j>> \in dom
      /\ \A i \in (DOMAIN c) \ {front[m] : m \in 1 .. k} : <<i, j>> \notin dom}

LEMMA ReleasedLists ==
  ASSUME NEW X, NEW c \in Seq(X), NEW dom, NEW front, NEW k
  PROVE  /\ Lists(Released(c, dom, front, k), ReleasedAt(c, dom, front, k))
         /\ Released(c, dom, front, k) \in Seq(DOMAIN c)
<1>1. ReleasedAt(c, dom, front, k) \in SUBSET (DOMAIN c)
  BY DEF ReleasedAt
<1>2. Released(c, dom, front, k) = Ascending(c, ReleasedAt(c, dom, front, k))
  BY DEF Released, ReleasedAt
<1>3. Lists(Released(c, dom, front, k), ReleasedAt(c, dom, front, k))
  BY <1>1, <1>2, AscendingLists
<1> QED BY <1>1, <1>3, SeqMonotonic DEF Lists

Visiting(c, dom, front) ==
  LET visited[k \in 0 .. Len(front)] ==
        IF k = 0 THEN <<>> ELSE visited[k - 1] \o Released(c, dom, front, k)
  IN  visited

LEMMA NextFrontTurns ==
  ASSUME NEW X, NEW c \in Seq(X), NEW dom, NEW front \in Seq(DOMAIN c)
  PROVE  LET f == Visiting(c, dom, front) IN
         /\ NextFront(c, dom, front) = f[Len(front)]
         /\ f[0] = <<>>
         /\ \A n \in 1 .. Len(front) : f[n] = f[n - 1] \o Released(c, dom, front, n)
         /\ \A n \in 0 .. Len(front) : f[n] \in Seq(DOMAIN c)
<1> DEFINE len == Len(front)
           Type == Seq(DOMAIN c)
           start == <<>>
           f == Visiting(c, dom, front)
           turn == [n \in 1 .. len |-> [x \in Type |-> x \o Released(c, dom, front, n)]]
<1>1. len \in Nat /\ start \in Type
  BY LenProperties, EmptySeq
<1>2. \A n \in 1 .. len : \A x \in Type : x \o Released(c, dom, front, n) \in Type
  BY ReleasedLists, ConcatProperties
<1> HIDE DEF Type, start
<1>3. turn \in [1 .. len -> [Type -> Type]]
  BY <1>2
<1>4. PICK run \in [0 .. len -> Type] :
        run[0] = start /\ \A n \in 1 .. len : run[n] = turn[n][run[n - 1]]
  <2>1. IsLoop(Type, start, len, turn)
    BY <1>1, <1>3 DEF IsLoop
  <2> HIDE DEF turn, len
  <2> QED BY <2>1, LoopExists
<1> HIDE DEF len, turn
<1>5. run = [n \in 0 .. len |-> IF n = 0 THEN start ELSE run[n - 1] \o Released(c, dom, front, n)]
  <2>1. ASSUME NEW n \in 0 .. len
        PROVE  run[n] = IF n = 0 THEN start ELSE run[n - 1] \o Released(c, dom, front, n)
    <3>1. CASE n = 0
      BY <1>4, <3>1
    <3>2. CASE n # 0
      <4>1. n \in 1 .. len /\ n - 1 \in 0 .. len /\ run[n - 1] \in Type
        BY <1>1, <1>4, <3>2
      <4> QED BY <1>4, <3>2, <4>1 DEF turn
    <3> QED BY <3>1, <3>2
  <2> QED BY <2>1
<1>6. f = [n \in 0 .. len |-> IF n = 0 THEN start ELSE f[n - 1] \o Released(c, dom, front, n)]
  BY <1>5, Zenon DEF Visiting, len, start
<1> HIDE DEF f
<1>7. f[0] = start /\ \A n \in 1 .. len : f[n] = f[n - 1] \o Released(c, dom, front, n)
  <2>1. 0 \in 0 .. len /\ \A n \in 1 .. len : n \in 0 .. len /\ n # 0
    BY <1>1
  <2>2. f[0] = start
    BY <1>6, <2>1, Zenon
  <2>3. \A n \in 1 .. len : f[n] = IF n = 0 THEN start ELSE f[n - 1] \o Released(c, dom, front, n)
    BY <1>6, <2>1, Zenon
  <2> QED BY <2>1, <2>2, <2>3, Zenon
<1>8. \A n \in 0 .. len : f[n] \in Type
  <2> DEFINE Typed == {n \in 0 .. len : f[n] \in Type}
  <2>1. 0 \in Typed
    BY <1>1, <1>7
  <2>2. ASSUME NEW n \in 1 .. len, n - 1 \in Typed PROVE n \in Typed
    <3>1. n \in 0 .. len /\ f[n - 1] \in Type
      BY <1>1, <2>2
    <3>2. f[n] \in Type
      BY <1>2, <1>7, <3>1
    <3> QED BY <3>1, <3>2
  <2> HIDE DEF Typed
  <2>3. \A n \in 0 .. len : n \in Typed
    BY <1>1, <2>1, <2>2, LoopInduction
  <2> QED BY <2>3 DEF Typed
<1>9. NextFront(c, dom, front) = f[len]
  BY DEF NextFront, Visiting, f, len
<1> QED BY <1>7, <1>8, <1>9 DEF f, len, Type, start


\* The visit of a front releases whom its members were the last to dominate, each
\* of them once, however often they are dominated.
LEMMA NextFrontLists ==
  ASSUME NEW X, NEW c \in Seq(X), NEW dom, NEW front \in Seq(DOMAIN c), IsInjective(front)
  PROVE  Lists(NextFront(c, dom, front), ReleasedBy(c, dom, front, Len(front)))
<1> DEFINE f == Visiting(c, dom, front)
           N == Len(front)
           by(n) == ReleasedBy(c, dom, front, n)
           at(n) == ReleasedAt(c, dom, front, n)
           Good == {n \in 0 .. N : Lists(f[n], by(n))}
<1>1. N \in Nat /\ DOMAIN front = 1 .. N /\ \A n \in 1 .. N : front[n] \in DOMAIN c
  BY LenProperties
<1>2. /\ NextFront(c, dom, front) = f[N] /\ f[0] = <<>>
      /\ \A n \in 1 .. N : f[n] = f[n - 1] \o Released(c, dom, front, n)
  BY NextFrontTurns
<1> HIDE DEF f, N
<1>3. 0 \in Good
  <2>1. by(0) = {}
    BY DEF ReleasedBy
  <2>2. Lists(<<>>, {})
    BY DEF Lists, IsInjective, ToSet
  <2>3. Lists(f[0], by(0))
    BY <1>2, <2>1, <2>2
  <2> QED BY <1>1, <2>3
<1>4. ASSUME NEW n \in 1 .. N, n - 1 \in Good PROVE n \in Good
  <2>1. Lists(f[n - 1], by(n - 1))
    BY <1>4
  <2>2. Lists(Released(c, dom, front, n), at(n))
    BY ReleasedLists
  <2> DEFINE seen(k) == {front[m] : m \in 1 .. k}
  <2>3. seen(n) = seen(n - 1) \union {front[n]} /\ front[n] \notin seen(n - 1)
    <3>1. 1 .. n = 1 .. n - 1 \union {n} /\ n \notin 1 .. n - 1 /\ n \in 1 .. N
      BY <1>1
    <3>2. \A m \in 1 .. n - 1 : m \in 1 .. N /\ m # n
      BY <1>1
    <3>3. \A m \in 1 .. n - 1 : front[m] # front[n]
      BY <1>1, <3>1, <3>2 DEF IsInjective
    <3> QED BY <3>1, <3>3
  <2>4. ASSUME NEW j \in by(n - 1) PROVE j \notin at(n) /\ j \in by(n)
    <3>1. <<front[n], j>> \notin dom
      BY <1>1, <2>3, <2>4 DEF ReleasedBy
    <3> QED BY <1>1, <2>3, <2>4, <3>1 DEF ReleasedBy, ReleasedAt
  <2>5. ASSUME NEW j \in by(n), <<front[n], j>> \notin dom PROVE j \in by(n - 1)
    <3>1. PICK m \in 1 .. n : <<front[m], j>> \in dom
      BY <2>5 DEF ReleasedBy
    <3>2. m \in 1 .. n - 1
      <4>1. m # n
        BY <2>5, <3>1
      <4> QED BY <1>1, <4>1
    <3>3. \A i \in (DOMAIN c) \ seen(n - 1) : <<i, j>> \notin dom
      BY <2>3, <2>5 DEF ReleasedBy
    <3> QED BY <2>5, <3>1, <3>2, <3>3 DEF ReleasedBy
  <2>6. ASSUME NEW j \in by(n), <<front[n], j>> \in dom PROVE j \in at(n)
    BY <2>6 DEF ReleasedBy, ReleasedAt
  <2>7. ASSUME NEW j \in at(n) PROVE j \in by(n)
    <3>1. n \in 1 .. n
      BY <1>1
    <3> QED BY <2>7, <3>1 DEF ReleasedBy, ReleasedAt
  <2>8. by(n) = by(n - 1) \union at(n) /\ by(n - 1) \intersect at(n) = {}
    BY <2>4, <2>5, <2>6, <2>7
  <2> HIDE DEF by, at
  <2>9. Lists(f[n], by(n))
    <3>1. f[n] = f[n - 1] \o Released(c, dom, front, n)
      BY <1>2
    <3>2. Lists(f[n - 1] \o Released(c, dom, front, n), by(n - 1) \union at(n))
      BY <2>1, <2>2, <2>8, ListConcat
    <3> QED BY <2>8, <3>1, <3>2
  <2> QED BY <2>9
<1> HIDE DEF Good
<1>5. N \in Nat /\ 0 \in Good /\ \A n \in 1 .. N : n - 1 \in Good => n \in Good
  BY <1>1, <1>3, <1>4
<1>6. \A n \in 0 .. N : n \in Good
  BY <1>5, LoopInduction
<1>7. N \in Good
  BY <1>5, <1>6
<1>8. Lists(f[N], by(N))
  BY <1>7 DEF Good
<1> QED BY <1>2, <1>8 DEF N

----------------------------------------------------------------------------
(* The layers *)

\* What is left of the individuals of c once the fronts before the r-th are taken.
Rest(c, fronts, r) == (DOMAIN c) \ UNION {ToSet(fronts[q]) : q \in 1 .. r - 1}

Undominated(c, R) == {j \in R : \A i \in R : ~Dominates(c[i], c[j])}

SortRecord(c) ==
  [dom : SUBSET ((DOMAIN c) \X (DOMAIN c)), fronts : Seq(Seq(DOMAIN c))]

\* Every front is what is undominated in the rest, and what is left of the
\* dominance are the pairs whose dominator is in the last front or behind it.
Layered(c, sort) ==
  /\ sort.fronts # <<>>
  /\ \A r \in 1 .. Len(sort.fronts) :
         /\ Lists(sort.fronts[r], Undominated(c, Rest(c, sort.fronts, r)))
         /\ sort.fronts[r] # <<>>
  /\ sort.dom = {p \in Dominance(c) : p[1] \in Rest(c, sort.fronts, Len(sort.fronts))}

Sorts(c) == {sort \in SortRecord(c) : Layered(c, sort)}

LEMMA SomebodyIsNext ==
  ASSUME NEW c \in Seq(Design), NEW R \in SUBSET (DOMAIN c), R # {}
  PROVE  Undominated(c, R) # {}
<1> DEFINE S == {c[i] : i \in R}
<1>1. S \in SUBSET Design /\ S # {}
  BY LenProperties
<1>2. PICK d \in S : \A e \in S : ~Dominates(e, d)
  <2> HIDE DEF S
  <2> QED BY <1>1, SomeoneIsUndominated
<1>3. PICK j \in R : d = c[j]
  OBVIOUS
<1>4. j \in Undominated(c, R)
  BY <1>2, <1>3 DEF Undominated
<1> QED BY <1>4

LEMMA SameRest ==
  ASSUME NEW c, NEW f, NEW g, NEW r \in Nat, \A q \in 1 .. r - 1 : f[q] = g[q]
  PROVE  Rest(c, f, r) = Rest(c, g, r)
BY DEF Rest

LEMMA EmptyList ==
  ASSUME NEW s, NEW S, Lists(s, S)
  PROVE  s = <<>> <=> S = {}
<1>1. s \in Seq(S) /\ Len(s) \in Nat /\ ToSet(s) = {s[k] : k \in 1 .. Len(s)} /\ ToSet(s) = S
  BY LenProperties, ToSetOfSeq DEF Lists
<1>2. ASSUME s = <<>> PROVE S = {}
  BY <1>1, <1>2
<1>3. ASSUME s # <<>> PROVE S # {}
  <2>1. Len(s) \in Nat \ {0}
    BY <1>1, <1>3, EmptySeq
  <2>2. s[1] \in S
    BY <1>1, <2>1
  <2> QED BY <2>2
<1> QED BY <1>2, <1>3

\* Where the sort starts: the undominated individuals, before anybody is taken.
FirstSort(c) == [dom |-> Dominance(c), fronts |-> <<FirstFront(c)>>]

LEMMA FirstLayer ==
  ASSUME NEW c \in Seq(Design), c # <<>>
  PROVE  /\ FirstSort(c) \in Sorts(c)
         /\ Lists(FirstFront(c), Undominated(c, DOMAIN c)) /\ Rising(FirstFront(c))
         /\ FirstFront(c) # <<>>
<1> DEFINE first == FirstFront(c)
           fronts == <<first>>
<1>1. DOMAIN c = 1 .. Len(c) /\ Len(c) \in Nat \ {0}
  BY LenProperties, EmptySeq
<1>2. Undominated(c, DOMAIN c) \in SUBSET (DOMAIN c) /\ Undominated(c, DOMAIN c) # {}
  <2>1. DOMAIN c # {}
    <3>1. 1 \in 1 .. Len(c)
      BY <1>1
    <3> QED BY <1>1, <3>1
  <2>2. Undominated(c, DOMAIN c) \in SUBSET (DOMAIN c)
    BY DEF Undominated
  <2> QED BY <2>1, <2>2, SomebodyIsNext
<1>3. first = Ascending(c, Undominated(c, DOMAIN c))
  BY DEF FirstFront, Undominated
<1>4. Lists(first, Undominated(c, DOMAIN c)) /\ Rising(first)
  BY <1>2, <1>3, AscendingLists
<1>5. first # <<>> /\ first \in Seq(DOMAIN c)
  BY <1>2, <1>4, EmptyList, SeqMonotonic DEF Lists
<1> HIDE DEF first
<1>6. fronts \in Seq(Seq(DOMAIN c)) /\ Len(fronts) = 1 /\ fronts[1] = first /\ fronts # <<>>
  BY <1>5
<1> HIDE DEF fronts
<1>7. Rest(c, fronts, 1) = DOMAIN c
  <2>1. {ToSet(fronts[q]) : q \in 1 .. 1 - 1} = {}
    OBVIOUS
  <2> QED BY <2>1 DEF Rest
<1>8. Dominance(c) \in SUBSET ((DOMAIN c) \X (DOMAIN c))
  BY DEF Dominance
<1>9. Dominance(c) = {p \in Dominance(c) : p[1] \in DOMAIN c}
  BY DEF Dominance
<1>10. FirstSort(c) = [dom |-> Dominance(c), fronts |-> fronts]
  BY DEF FirstSort, fronts, first
<1>11. FirstSort(c) \in SortRecord(c)
  BY <1>6, <1>8, <1>10 DEF SortRecord
<1>12. Layered(c, FirstSort(c))
  <2>1. FirstSort(c).fronts = fronts /\ FirstSort(c).dom = Dominance(c)
    BY <1>10
  <2>2. ASSUME NEW r \in 1 .. Len(fronts)
        PROVE  Lists(fronts[r], Undominated(c, Rest(c, fronts, r))) /\ fronts[r] # <<>>
    <3>1. r = 1
      BY <1>6
    <3> QED BY <1>4, <1>5, <1>6, <1>7, <3>1
  <2> QED BY <1>6, <1>7, <1>9, <2>1, <2>2 DEF Layered
<1> QED BY <1>4, <1>5, <1>11, <1>12 DEF Sorts, first

\* The next front, of a sort that has peeled layers so far, is the next layer.
LEMMA NextLayer ==
  ASSUME NEW c \in Seq(Design), NEW sort \in Sorts(c)
  PROVE  LET front == Last(sort.fronts)
             R == Rest(c, sort.fronts, Len(sort.fronts) + 1)
         IN  /\ Lists(NextFront(c, sort.dom, front), Undominated(c, R))
             /\ R = Rest(c, sort.fronts, Len(sort.fronts)) \ ToSet(front)
<1> DEFINE fronts == sort.fronts
           L == Len(fronts)
           front == Last(fronts)
           R == Rest(c, fronts, L)
           S == Rest(c, fronts, L + 1)
           F == ToSet(front)
<1>1. /\ fronts \in Seq(Seq(DOMAIN c)) /\ fronts # <<>>
      /\ L \in Nat \ {0} /\ front = fronts[L]
      /\ sort.dom = {p \in Dominance(c) : p[1] \in R}
  BY EmptySeq DEF Sorts, SortRecord, Layered, Last
<1>2. \A r \in 1 .. L : Lists(fronts[r], Undominated(c, Rest(c, fronts, r)))
  BY DEF Sorts, Layered
<1> HIDE DEF fronts, L
<1>3. front \in Seq(DOMAIN c) /\ IsInjective(front) /\ F = Undominated(c, R)
  <2>1. L \in 1 .. L
    BY <1>1
  <2>2. fronts[L] \in Seq(DOMAIN c)
    BY <1>1, <2>1, ElementOfSeq DEF L
  <2> QED BY <1>1, <1>2, <2>1, <2>2 DEF Lists
<1>4. S = R \ F
  <2>1. 1 .. (L + 1) - 1 = (1 .. L - 1) \union {L}
    BY <1>1
  <2>2. \A i : i \in UNION {ToSet(fronts[q]) : q \in 1 .. (L + 1) - 1}
                <=> i \in UNION {ToSet(fronts[q]) : q \in 1 .. L - 1} \/ i \in F
    BY <1>1, <2>1
  <2> QED BY <2>2 DEF Rest
<1> DEFINE by == ReleasedBy(c, sort.dom, front, Len(front))
<1>5. Lists(NextFront(c, sort.dom, front), by)
  BY <1>3, NextFrontLists
<1>6. F = {front[m] : m \in 1 .. Len(front)}
  BY <1>3, ToSetOfSeq
\* nobody in the rest dominates a member of an earlier front
<1>7. ASSUME NEW i \in R, NEW j \in (DOMAIN c) \ R PROVE ~Dominates(c[i], c[j])
  <2>1. PICK q \in 1 .. L - 1 : j \in ToSet(fronts[q])
    BY <1>7 DEF Rest
  <2>2. j \in Undominated(c, Rest(c, fronts, q))
    <3>1. q \in 1 .. L
      BY <1>1, <2>1
    <3> QED BY <1>2, <2>1, <3>1 DEF Lists
  <2>3. i \in Rest(c, fronts, q)
    BY <1>1, <1>7, <2>1 DEF Rest
  <2> QED BY <2>2, <2>3 DEF Undominated
<1>8. R \subseteq DOMAIN c /\ S \subseteq DOMAIN c
  BY DEF Rest
<1> HIDE DEF R, S, F, front
<1>9. \A i, j \in DOMAIN c : <<i, j>> \in sort.dom <=> i \in R /\ Dominates(c[i], c[j])
  BY <1>1 DEF Dominance
<1>10. ASSUME NEW j \in by PROVE j \in Undominated(c, S)
  <2>1. PICK m \in 1 .. Len(front) : <<front[m], j>> \in sort.dom
    BY DEF ReleasedBy
  <2>2. front[m] \in F /\ F \subseteq R /\ front[m] \in DOMAIN c /\ j \in DOMAIN c
    BY <1>3, <1>6, <1>8 DEF ReleasedBy, Undominated
  <2>3. Dominates(c[front[m]], c[j])
    BY <1>9, <2>1, <2>2
  <2>4. j \in R /\ j \notin F
    BY <1>3, <1>7, <2>2, <2>3 DEF Undominated
  <2>5. ASSUME NEW i \in S PROVE ~Dominates(c[i], c[j])
    <3>1. i \in R /\ i \in (DOMAIN c) \ F
      BY <1>4, <1>8
    <3>2. <<i, j>> \notin sort.dom
      BY <1>6, <3>1 DEF ReleasedBy
    <3> QED BY <1>9, <2>2, <3>1, <3>2
  <2> QED BY <1>4, <2>4, <2>5 DEF Undominated
<1>11. ASSUME NEW j \in Undominated(c, S) PROVE j \in by
  <2>1. j \in R /\ j \notin F /\ j \in DOMAIN c
    BY <1>4, <1>8 DEF Undominated
  <2>2. PICK i \in R : Dominates(c[i], c[j])
    BY <1>3, <2>1 DEF Undominated
  <2>3. i \in F
    BY <1>4, <2>2 DEF Undominated
  <2>4. PICK m \in 1 .. Len(front) : i = front[m]
    BY <1>6, <2>3
  <2>5. <<front[m], j>> \in sort.dom
    BY <1>8, <1>9, <2>1, <2>2, <2>4
  <2>6. ASSUME NEW k \in (DOMAIN c) \ F PROVE <<k, j>> \notin sort.dom
    BY <1>4, <1>9, <2>1, <2>6 DEF Undominated
  <2> QED BY <1>6, <2>1, <2>5, <2>6 DEF ReleasedBy
<1>12. by = Undominated(c, S)
  BY <1>10, <1>11
<1> QED BY <1>4, <1>5, <1>12 DEF fronts, L, R, S, F, front

LEMMA PeelKeepsLayers ==
  ASSUME NEW c \in Seq(Design), NEW sort \in Sorts(c)
  PROVE  LET R == Rest(c, sort.fronts, Len(sort.fronts) + 1) IN
         /\ Peel(c, sort) \in Sorts(c)
         /\ R = {} => Peel(c, sort) = sort
         /\ R # {} => Len(Peel(c, sort).fronts) = Len(sort.fronts) + 1
<1> DEFINE fronts == sort.fronts
           L == Len(fronts)
           front == Last(fronts)
           next == NextFront(c, sort.dom, front)
           longer == Append(fronts, next)
           left == {p \in sort.dom : p[1] \notin ToSet(front)}
           new == [dom |-> left, fronts |-> longer]
           R == Rest(c, fronts, L + 1)
<1>1. /\ fronts \in Seq(Seq(DOMAIN c)) /\ fronts # <<>>
      /\ L \in Nat \ {0} /\ front = fronts[L]
      /\ sort.dom = {p \in Dominance(c) : p[1] \in Rest(c, fronts, L)}
      /\ sort.dom \in SUBSET ((DOMAIN c) \X (DOMAIN c))
  BY EmptySeq DEF Sorts, SortRecord, Layered, Last
<1>2. \A r \in 1 .. L : /\ Lists(fronts[r], Undominated(c, Rest(c, fronts, r)))
                        /\ fronts[r] # <<>>
  BY DEF Sorts, Layered
<1>3. Lists(next, Undominated(c, R)) /\ R = Rest(c, fronts, L) \ ToSet(front)
  BY NextLayer
<1>4. R \in SUBSET (DOMAIN c)
  BY DEF Rest
<1>5. next = <<>> <=> R = {}
  <2>1. next = <<>> <=> Undominated(c, R) = {}
    BY <1>3, EmptyList
  <2>2. R # {} => Undominated(c, R) # {}
    BY <1>4, SomebodyIsNext
  <2>3. R = {} => Undominated(c, R) = {}
    BY DEF Undominated
  <2> QED BY <2>1, <2>2, <2>3
<1>6. Peel(c, sort) = IF next = <<>> THEN sort ELSE new
  BY DEF Peel
<1>7. next \in Seq(DOMAIN c)
  BY <1>3, <1>4, SeqMonotonic DEF Lists, Undominated
<1> HIDE DEF next, fronts, L, front
<1>8. /\ longer \in Seq(Seq(DOMAIN c)) /\ longer # <<>> /\ Len(longer) = L + 1
      /\ \A r \in 1 .. L : longer[r] = fronts[r]
      /\ longer[L + 1] = next
  <2> DEFINE X == Seq(DOMAIN c)
  <2>1. fronts \in Seq(X) /\ next \in X
    BY <1>1, <1>7
  <2> HIDE DEF X
  <2>2. /\ longer \in Seq(X) /\ longer # <<>> /\ Len(longer) = Len(fronts) + 1
        /\ \A r \in 1 .. Len(fronts) : longer[r] = fronts[r]
        /\ longer[Len(fronts) + 1] = next
    BY <2>1, AppendProperties
  <2> QED BY <2>2 DEF L, X
<1> HIDE DEF longer
<1>9. \A r \in 1 .. L + 1 : Rest(c, longer, r) = Rest(c, fronts, r)
  <2> TAKE r \in 1 .. L + 1
  <2>1. \A q \in 1 .. r - 1 : longer[q] = fronts[q]
    BY <1>1, <1>8
  <2>2. r \in Nat
    <3>1. L \in Nat
      BY <1>1
    <3> QED BY <3>1
  <2> QED BY ONLY <2>1, <2>2, SameRest
<1>10. CASE R # {}
  <2>1. new \in SortRecord(c)
    BY <1>1, <1>8 DEF SortRecord
  <2>2. ASSUME NEW r \in 1 .. L + 1
        PROVE  Lists(longer[r], Undominated(c, Rest(c, longer, r))) /\ longer[r] # <<>>
    <3>1. CASE r = L + 1
      BY <1>3, <1>5, <1>8, <1>9, <1>10, <3>1
    <3>2. CASE r # L + 1
      <4>1. r \in 1 .. L
        BY <1>1, <3>2
      <4> QED BY <1>2, <1>8, <1>9, <4>1
    <3> QED BY <3>1, <3>2
  <2>3. left = {p \in Dominance(c) : p[1] \in Rest(c, longer, L + 1)}
    <3>1. Rest(c, longer, L + 1) = R /\ L + 1 \in 1 .. L + 1
      BY <1>1, <1>9
    <3> QED BY <1>1, <1>3, <3>1
  <2>4. new.fronts = longer /\ new.dom = left
    OBVIOUS
  <2> HIDE DEF new, left
  <2>5. Layered(c, new)
    BY <1>8, <2>2, <2>3, <2>4 DEF Layered
  <2> QED BY <1>5, <1>6, <1>8, <1>10, <2>1, <2>4, <2>5 DEF Sorts, R, L, fronts
<1>11. CASE R = {}
  BY <1>5, <1>6, <1>11 DEF R, L, fronts
<1> QED BY <1>10, <1>11 DEF R, L, fronts

Peeling(c) ==
  LET peeled[n \in 0 .. Len(c)] ==
        IF n = 0 THEN FirstSort(c) ELSE Peel(c, peeled[n - 1])
  IN  peeled

LEMMA SortTurns ==
  ASSUME NEW c \in Seq(Design), c # <<>>
  PROVE  LET f == Peeling(c) IN
         /\ FastNonDominatedSort(c) = f[Len(c)].fronts
         /\ f[0] = FirstSort(c)
         /\ \A n \in 1 .. Len(c) : f[n] = Peel(c, f[n - 1])
         /\ \A n \in 0 .. Len(c) : f[n] \in Sorts(c)
<1> DEFINE len == Len(c)
           Type == Sorts(c)
           start == FirstSort(c)
           f == Peeling(c)
           turn == [n \in 1 .. len |-> [x \in Type |-> Peel(c, x)]]
<1>1. len \in Nat /\ start \in Type
  BY LenProperties, FirstLayer
<1>2. \A n \in 1 .. len : \A x \in Type : Peel(c, x) \in Type
  BY PeelKeepsLayers
<1> HIDE DEF Type, start
<1>3. turn \in [1 .. len -> [Type -> Type]]
  BY <1>2
<1>4. PICK run \in [0 .. len -> Type] :
        run[0] = start /\ \A n \in 1 .. len : run[n] = turn[n][run[n - 1]]
  <2>1. IsLoop(Type, start, len, turn)
    BY <1>1, <1>3 DEF IsLoop
  <2> HIDE DEF turn, len
  <2> QED BY <2>1, LoopExists
<1> HIDE DEF len, turn
<1>5. run = [n \in 0 .. len |-> IF n = 0 THEN start ELSE Peel(c, run[n - 1])]
  <2>1. ASSUME NEW n \in 0 .. len
        PROVE  run[n] = IF n = 0 THEN start ELSE Peel(c, run[n - 1])
    <3>1. CASE n = 0
      BY <1>4, <3>1
    <3>2. CASE n # 0
      <4>1. n \in 1 .. len /\ n - 1 \in 0 .. len /\ run[n - 1] \in Type
        BY <1>1, <1>4, <3>2
      <4> QED BY <1>4, <3>2, <4>1 DEF turn
    <3> QED BY <3>1, <3>2
  <2> QED BY <2>1
<1>6. f = [n \in 0 .. len |-> IF n = 0 THEN start ELSE Peel(c, f[n - 1])]
  BY <1>5, Zenon DEF Peeling, FirstSort, len, start
<1> HIDE DEF f
<1>7. f[0] = start /\ \A n \in 1 .. len : f[n] = Peel(c, f[n - 1])
  <2>1. 0 \in 0 .. len /\ \A n \in 1 .. len : n \in 0 .. len /\ n # 0
    BY <1>1
  <2>2. f[0] = start
    BY <1>6, <2>1, Zenon
  <2>3. \A n \in 1 .. len : f[n] = IF n = 0 THEN start ELSE Peel(c, f[n - 1])
    BY <1>6, <2>1, Zenon
  <2> QED BY <2>1, <2>2, <2>3, Zenon
<1>8. \A n \in 0 .. len : f[n] \in Type
  <2> DEFINE Typed == {n \in 0 .. len : f[n] \in Type}
  <2>1. 0 \in Typed
    BY <1>1, <1>7
  <2>2. ASSUME NEW n \in 1 .. len, n - 1 \in Typed PROVE n \in Typed
    <3>1. n \in 0 .. len /\ f[n - 1] \in Type
      BY <1>1, <2>2
    <3>2. f[n] \in Type
      BY <1>2, <1>7, <3>1
    <3> QED BY <3>1, <3>2
  <2> HIDE DEF Typed
  <2>3. \A n \in 0 .. len : n \in Typed
    BY <1>1, <2>1, <2>2, LoopInduction
  <2> QED BY <2>3 DEF Typed
<1>9. FastNonDominatedSort(c) = f[len].fronts
  BY DEF FastNonDominatedSort, Peeling, FirstSort, f, len
<1> QED BY <1>7, <1>8, <1>9 DEF f, len, Type, start


\* The fronts of a sort are disjoint.
LEMMA LayersAreApart ==
  ASSUME NEW c, NEW sort \in Sorts(c),
         NEW q \in 1 .. Len(sort.fronts), NEW r \in 1 .. Len(sort.fronts),
         NEW i \in ToSet(sort.fronts[q]), i \in ToSet(sort.fronts[r])
  PROVE  q = r
<1>1. Len(sort.fronts) \in Nat
  BY LenProperties DEF Sorts, SortRecord
<1>2. ASSUME NEW a \in 1 .. Len(sort.fronts), NEW b \in 1 .. Len(sort.fronts), a < b,
             i \in ToSet(sort.fronts[a]), i \in ToSet(sort.fronts[b])
      PROVE  FALSE
  <2>1. i \in Rest(c, sort.fronts, b)
    BY <1>2 DEF Sorts, Layered, Lists, Undominated
  <2>2. a \in 1 .. b - 1
    BY <1>1, <1>2
  <2> QED BY <1>2, <2>1, <2>2 DEF Rest
<1>3. ~ (q < r) /\ ~ (r < q)
  BY <1>2
<1> QED BY <1>1, <1>3

\* A sort of more fronts than individuals would put somebody in two of them.
LEMMA FewFronts ==
  ASSUME NEW c \in Seq(Design), NEW sort \in Sorts(c)
  PROVE  Len(sort.fronts) <= Len(c)
<1> DEFINE L == Len(sort.fronts)
           N == Len(c)
           head == [r \in 1 .. L |-> sort.fronts[r][1]]
<1>1. L \in Nat /\ N \in Nat /\ DOMAIN c = 1 .. N
  BY LenProperties DEF Sorts, SortRecord
<1>2. ASSUME NEW r \in 1 .. L
      PROVE  head[r] \in ToSet(sort.fronts[r]) /\ head[r] \in 1 .. N
  <2>1. sort.fronts[r] \in Seq(DOMAIN c) /\ sort.fronts[r] # <<>>
    BY ElementOfSeq DEF Sorts, SortRecord, Layered
  <2>2. Len(sort.fronts[r]) \in Nat \ {0}
    BY <2>1, EmptySeq
  <2>3. /\ ToSet(sort.fronts[r]) = {sort.fronts[r][k] : k \in 1 .. Len(sort.fronts[r])}
        /\ ToSet(sort.fronts[r]) \subseteq DOMAIN c
    BY <2>1, ToSetOfSeq
  <2>4. head[r] = sort.fronts[r][1] /\ 1 \in 1 .. Len(sort.fronts[r])
    BY <2>2
  <2> QED BY <1>1, <2>3, <2>4
<1> HIDE DEF head
<1>3. SUFFICES ASSUME L > N PROVE FALSE
  BY <1>1
<1>4. /\ IsFiniteSet(1 .. L) /\ IsFiniteSet(1 .. N)
      /\ Cardinality(1 .. L) = L /\ Cardinality(1 .. N) = N
  <2> HIDE DEF L, N
  <2>1. /\ IsFiniteSet(1 .. L) /\ Cardinality(1 .. L) = IF 1 > L THEN 0 ELSE L - 1 + 1
        /\ IsFiniteSet(1 .. N) /\ Cardinality(1 .. N) = IF 1 > N THEN 0 ELSE N - 1 + 1
    BY <1>1, FS_Interval
  <2> QED BY <1>1, <2>1
<1>5. head \in [1 .. L -> 1 .. N]
  BY <1>2 DEF head
<1>6. PICK q \in 1 .. L, r \in 1 .. L : q # r /\ head[q] = head[r]
  BY <1>1, <1>3, <1>4, <1>5, FS_PigeonHole
<1> QED BY <1>2, <1>6, LayersAreApart

\* The sort peels layers until nobody is left.
LEMMA SortPeelsLayers ==
  ASSUME NEW c \in Seq(Design), c # <<>>
  PROVE  \E sort \in Sorts(c) : /\ FastNonDominatedSort(c) = sort.fronts
                                /\ sort.fronts[1] = FirstFront(c)
                                /\ Rest(c, sort.fronts, Len(sort.fronts) + 1) = {}
<1> DEFINE f == Peeling(c)
           N == Len(c)
           done(n) == Rest(c, f[n].fronts, Len(f[n].fronts) + 1) = {}
           Good == {n \in 0 .. N : /\ f[n].fronts[1] = FirstFront(c)
                                   /\ Len(f[n].fronts) = n + 1 \/ done(n)}
<1>1. N \in Nat
  BY LenProperties
<1>2. /\ FastNonDominatedSort(c) = f[N].fronts /\ f[0] = FirstSort(c)
      /\ \A n \in 1 .. N : f[n] = Peel(c, f[n - 1])
      /\ \A n \in 0 .. N : f[n] \in Sorts(c)
  BY SortTurns
<1> HIDE DEF f, N
<1>3. 0 \in Good
  BY <1>1, <1>2 DEF FirstSort
<1>4. ASSUME NEW n \in 1 .. N, n - 1 \in Good PROVE n \in Good
  <2>1. f[n - 1] \in Sorts(c) /\ f[n] = Peel(c, f[n - 1]) /\ n \in 0 .. N
    BY <1>1, <1>2
  <2>2. /\ done(n - 1) => f[n] = f[n - 1]
        /\ ~done(n - 1) => Len(f[n].fronts) = Len(f[n - 1].fronts) + 1
    BY <2>1, PeelKeepsLayers
  <2>3. f[n].fronts[1] = f[n - 1].fronts[1]
    <3>1. f[n - 1].fronts \in Seq(Seq(DOMAIN c)) /\ f[n - 1].fronts # <<>>
      BY <2>1 DEF Sorts, SortRecord, Layered
    <3>2. 1 \in 1 .. Len(f[n - 1].fronts)
      BY <3>1, EmptySeq
    <3> DEFINE next == NextFront(c, f[n - 1].dom, Last(f[n - 1].fronts))
    <3>3. CASE next = <<>>
      BY <2>1, <3>3 DEF Peel
    <3>4. CASE next # <<>>
      <4>1. f[n].fronts = Append(f[n - 1].fronts, next)
        BY <2>1, <3>4 DEF Peel
      <4>2. next \in Seq(DOMAIN c)
        <5>1. Lists(next, Undominated(c, Rest(c, f[n - 1].fronts, Len(f[n - 1].fronts) + 1)))
          BY <2>1, NextLayer
        <5> QED BY <5>1, SeqMonotonic DEF Lists, Undominated, Rest
      <4> HIDE DEF next
      <4> QED BY <3>1, <3>2, <4>1, <4>2, AppendProperties
    <3> QED BY <3>3, <3>4
  <2>4. Len(f[n].fronts) = n + 1 \/ done(n)
    <3>1. CASE done(n - 1)
      BY <2>2, <3>1
    <3>2. CASE ~done(n - 1)
      BY <1>1, <1>4, <2>2, <3>2
    <3> QED BY <3>1, <3>2
  <2> QED BY <1>4, <2>1, <2>3, <2>4
<1>5. N \in Nat /\ 0 \in Good /\ \A n \in 1 .. N : n - 1 \in Good => n \in Good
  BY <1>1, <1>3, <1>4
<1> HIDE DEF Good
<1>6. \A n \in 0 .. N : n \in Good
  BY <1>5, LoopInduction
<1>7. N \in Good /\ N \in 0 .. N
  BY <1>5, <1>6
<1>8. f[N].fronts[1] = FirstFront(c) /\ (Len(f[N].fronts) = N + 1 \/ done(N))
  BY <1>7 DEF Good
<1>9. f[N] \in Sorts(c) /\ Len(f[N].fronts) <= N
  BY <1>2, <1>7, FewFronts DEF N
<1>10. done(N)
  BY <1>1, <1>8, <1>9
<1> QED BY <1>2, <1>8, <1>9, <1>10

----------------------------------------------------------------------------
(* The exchange sort *)

Reorderings(s) == {t \in Seq(ToSet(s)) : Len(t) = Len(s) /\ ToSet(t) = ToSet(s)}

LEMMA SeqOfToSet ==
  ASSUME NEW X, NEW s \in Seq(X)
  PROVE  s \in Seq(ToSet(s))
<1>1. ToSet(s) = {s[k] : k \in 1 .. Len(s)} /\ Len(s) \in Nat /\ s \in [1 .. Len(s) -> X]
  BY LenProperties, ToSetOfSeq
<1>2. s \in [1 .. Len(s) -> ToSet(s)]
  BY <1>1
<1> QED BY <1>1, <1>2, SeqDef

LEMMA ExchangeReorders ==
  ASSUME NEW X, NEW s \in Seq(X), NEW t \in Reorderings(s),
         NEW i \in 1 .. Len(s), NEW j \in 1 .. Len(s), NEW before
  PROVE  Exchange(t, i, j, before) \in Reorderings(s)
<1> DEFINE S == ToSet(s)
           N == Len(s)
           u == [t EXCEPT ![i] = t[j], ![j] = t[i]]
<1>1. N \in Nat /\ Len(t) = N /\ t \in [1 .. N -> S] /\ S = {t[k] : k \in 1 .. N}
  BY LenProperties, ToSetOfSeq DEF Reorderings
<1>2. i \in 1 .. N /\ j \in 1 .. N
  OBVIOUS
<1> HIDE DEF S, N
<1>3. u \in [1 .. N -> S]
  BY <1>1, <1>2
<1>4. /\ u[j] = t[i] /\ u[i] = t[j]
      /\ \A k \in 1 .. N : k # i /\ k # j => u[k] = t[k]
  BY <1>1, <1>2
<1> HIDE DEF u
<1>5. u \in Seq(S) /\ Len(u) = N /\ DOMAIN u = 1 .. N
  <2>1. u \in Seq(S)
    <3>1. Seq(S) = UNION {[1 .. n -> S] : n \in Nat}
      BY SeqDef
    <3>2. [1 .. N -> S] \in {[1 .. n -> S] : n \in Nat}
      BY <1>1
    <3> QED BY <1>3, <3>1, <3>2, Zenon
  <2> QED BY <1>1, <1>3, <2>1, LenProperties
<1>6. ToSet(u) = {u[k] : k \in 1 .. N}
  BY <1>5 DEF ToSet
<1>7. ASSUME NEW k \in 1 .. N PROVE t[k] \in ToSet(u)
  <2>1. CASE k = i
    BY <1>2, <1>4, <1>6, <2>1
  <2>2. CASE k = j
    BY <1>2, <1>4, <1>6, <2>2
  <2>3. CASE k # i /\ k # j
    <3>1. u[k] = t[k]
      BY <1>4, <2>3
    <3> QED BY <1>6, <3>1
  <2> QED BY <2>1, <2>2, <2>3
<1>8. ToSet(u) = S
  BY <1>1, <1>3, <1>6, <1>7
<1>9. Exchange(t, i, j, before) \in {t, u}
  BY DEF Exchange, u
<1> QED BY <1>5, <1>8, <1>9 DEF Reorderings, S, N

Passing(t, i, before) ==
  LET upTo[n \in 0 .. Len(t) - i] ==
        IF n = 0 THEN t ELSE Exchange(upTo[n - 1], i, i + n, before)
  IN  upTo

LEMMA PassTurns ==
  ASSUME NEW X, NEW s \in Seq(X), NEW t \in Reorderings(s), NEW i \in 1 .. Len(s), NEW before
  PROVE  LET f == Passing(t, i, before) IN
         /\ ExchangeWithLater(t, i, before) = f[Len(t) - i]
         /\ f[0] = t
         /\ \A n \in 1 .. Len(t) - i : f[n] = Exchange(f[n - 1], i, i + n, before)
         /\ \A n \in 0 .. Len(t) - i : f[n] \in Reorderings(s)
<1> DEFINE len == Len(t) - i
           Type == Reorderings(s)
           start == t
           f == Passing(t, i, before)
           turn == [n \in 1 .. len |-> [x \in Type |-> Exchange(x, i, i + n, before)]]
<1>1. len \in Nat /\ start \in Type
  <2>1. Len(t) = Len(s) /\ Len(s) \in Nat
    BY LenProperties DEF Reorderings
  <2> QED BY <2>1
<1>2. \A n \in 1 .. len : \A x \in Type : Exchange(x, i, i + n, before) \in Type
  <2> TAKE n \in 1 .. len
  <2> TAKE x \in Type
  <2>1. i + n \in 1 .. Len(s)
    BY LenProperties DEF Reorderings
  <2> QED BY <2>1, ExchangeReorders
<1> HIDE DEF Type, start
<1>3. turn \in [1 .. len -> [Type -> Type]]
  BY <1>2
<1>4. PICK run \in [0 .. len -> Type] :
        run[0] = start /\ \A n \in 1 .. len : run[n] = turn[n][run[n - 1]]
  <2>1. IsLoop(Type, start, len, turn)
    BY <1>1, <1>3 DEF IsLoop
  <2> HIDE DEF turn, len
  <2> QED BY <2>1, LoopExists
<1> HIDE DEF len, turn
<1>5. run = [n \in 0 .. len |-> IF n = 0 THEN start ELSE Exchange(run[n - 1], i, i + n, before)]
  <2>1. ASSUME NEW n \in 0 .. len
        PROVE  run[n] = IF n = 0 THEN start ELSE Exchange(run[n - 1], i, i + n, before)
    <3>1. CASE n = 0
      BY <1>4, <3>1
    <3>2. CASE n # 0
      <4>1. n \in 1 .. len /\ n - 1 \in 0 .. len /\ run[n - 1] \in Type
        BY <1>1, <1>4, <3>2
      <4> QED BY <1>4, <3>2, <4>1 DEF turn
    <3> QED BY <3>1, <3>2
  <2> QED BY <2>1
<1>6. f = [n \in 0 .. len |-> IF n = 0 THEN start ELSE Exchange(f[n - 1], i, i + n, before)]
  BY <1>5, Zenon DEF Passing, len, start
<1> HIDE DEF f
<1>7. f[0] = start /\ \A n \in 1 .. len : f[n] = Exchange(f[n - 1], i, i + n, before)
  <2>1. 0 \in 0 .. len /\ \A n \in 1 .. len : n \in 0 .. len /\ n # 0
    BY <1>1
  <2>2. f[0] = start
    BY <1>6, <2>1, Zenon
  <2>3. \A n \in 1 .. len : f[n] = IF n = 0 THEN start ELSE Exchange(f[n - 1], i, i + n, before)
    BY <1>6, <2>1, Zenon
  <2> QED BY <2>1, <2>2, <2>3, Zenon
<1>8. \A n \in 0 .. len : f[n] \in Type
  <2> DEFINE Typed == {n \in 0 .. len : f[n] \in Type}
  <2>1. 0 \in Typed
    BY <1>1, <1>7
  <2>2. ASSUME NEW n \in 1 .. len, n - 1 \in Typed PROVE n \in Typed
    <3>1. n \in 0 .. len /\ f[n - 1] \in Type
      BY <1>1, <2>2
    <3>2. f[n] \in Type
      BY <1>2, <1>7, <3>1
    <3> QED BY <3>1, <3>2
  <2> HIDE DEF Typed
  <2>3. \A n \in 0 .. len : n \in Typed
    BY <1>1, <2>1, <2>2, LoopInduction
  <2> QED BY <2>3 DEF Typed
<1>9. ExchangeWithLater(t, i, before) = f[len]
  BY DEF ExchangeWithLater, Passing, f, len
<1> QED BY <1>7, <1>8, <1>9 DEF f, len, Type, start


LEMMA PassReorders ==
  ASSUME NEW X, NEW s \in Seq(X), NEW t \in Reorderings(s), NEW i \in 1 .. Len(s),
         NEW before
  PROVE  ExchangeWithLater(t, i, before) \in Reorderings(s)
<1>1. Len(t) = Len(s) /\ Len(s) \in Nat
  BY LenProperties DEF Reorderings
<1>2. Len(t) - i \in 0 .. Len(t) - i
  BY <1>1
<1> QED BY <1>2, PassTurns

Exchanging(s, before) ==
  LET sorted[n \in 0 .. Len(s)] ==
        IF n = 0 THEN s ELSE ExchangeWithLater(sorted[n - 1], n, before)
  IN  sorted

LEMMA ExchangeTurns ==
  ASSUME NEW X, NEW s \in Seq(X), NEW before
  PROVE  LET f == Exchanging(s, before) IN
         /\ ExchangeSort(s, before) = f[Len(s)]
         /\ f[0] = s
         /\ \A n \in 1 .. Len(s) : f[n] = ExchangeWithLater(f[n - 1], n, before)
         /\ \A n \in 0 .. Len(s) : f[n] \in Reorderings(s)
<1> DEFINE len == Len(s)
           Type == Reorderings(s)
           start == s
           f == Exchanging(s, before)
           turn == [n \in 1 .. len |-> [x \in Type |-> ExchangeWithLater(x, n, before)]]
<1>1. len \in Nat /\ start \in Type
  BY LenProperties, ToSetOfSeq, SeqOfToSet DEF Reorderings
<1>2. \A n \in 1 .. len : \A x \in Type : ExchangeWithLater(x, n, before) \in Type
  BY PassReorders
<1> HIDE DEF Type, start
<1>3. turn \in [1 .. len -> [Type -> Type]]
  BY <1>2
<1>4. PICK run \in [0 .. len -> Type] :
        run[0] = start /\ \A n \in 1 .. len : run[n] = turn[n][run[n - 1]]
  <2>1. IsLoop(Type, start, len, turn)
    BY <1>1, <1>3 DEF IsLoop
  <2> HIDE DEF turn, len
  <2> QED BY <2>1, LoopExists
<1> HIDE DEF len, turn
<1>5. run = [n \in 0 .. len |-> IF n = 0 THEN start ELSE ExchangeWithLater(run[n - 1], n, before)]
  <2>1. ASSUME NEW n \in 0 .. len
        PROVE  run[n] = IF n = 0 THEN start ELSE ExchangeWithLater(run[n - 1], n, before)
    <3>1. CASE n = 0
      BY <1>4, <3>1
    <3>2. CASE n # 0
      <4>1. n \in 1 .. len /\ n - 1 \in 0 .. len /\ run[n - 1] \in Type
        BY <1>1, <1>4, <3>2
      <4> QED BY <1>4, <3>2, <4>1 DEF turn
    <3> QED BY <3>1, <3>2
  <2> QED BY <2>1
<1>6. f = [n \in 0 .. len |-> IF n = 0 THEN start ELSE ExchangeWithLater(f[n - 1], n, before)]
  BY <1>5, Zenon DEF Exchanging, len, start
<1> HIDE DEF f
<1>7. f[0] = start /\ \A n \in 1 .. len : f[n] = ExchangeWithLater(f[n - 1], n, before)
  <2>1. 0 \in 0 .. len /\ \A n \in 1 .. len : n \in 0 .. len /\ n # 0
    BY <1>1
  <2>2. f[0] = start
    BY <1>6, <2>1, Zenon
  <2>3. \A n \in 1 .. len : f[n] = IF n = 0 THEN start ELSE ExchangeWithLater(f[n - 1], n, before)
    BY <1>6, <2>1, Zenon
  <2> QED BY <2>1, <2>2, <2>3, Zenon
<1>8. \A n \in 0 .. len : f[n] \in Type
  <2> DEFINE Typed == {n \in 0 .. len : f[n] \in Type}
  <2>1. 0 \in Typed
    BY <1>1, <1>7
  <2>2. ASSUME NEW n \in 1 .. len, n - 1 \in Typed PROVE n \in Typed
    <3>1. n \in 0 .. len /\ f[n - 1] \in Type
      BY <1>1, <2>2
    <3>2. f[n] \in Type
      BY <1>2, <1>7, <3>1
    <3> QED BY <3>1, <3>2
  <2> HIDE DEF Typed
  <2>3. \A n \in 0 .. len : n \in Typed
    BY <1>1, <2>1, <2>2, LoopInduction
  <2> QED BY <2>3 DEF Typed
<1>9. ExchangeSort(s, before) = f[len]
  BY DEF ExchangeSort, Exchanging, f, len
<1> QED BY <1>7, <1>8, <1>9 DEF f, len, Type, start


\* Whatever the order, the sort neither loses nor invents anybody.
LEMMA SortReorders ==
  ASSUME NEW X, NEW s \in Seq(X), NEW before
  PROVE  ExchangeSort(s, before) \in Reorderings(s)
<1>1. Len(s) \in 0 .. Len(s)
  BY LenProperties
<1> QED BY <1>1, ExchangeTurns

LEMMA MostCrowdedLastReorders ==
  ASSUME NEW X, NEW c, NEW front \in Seq(X)
  PROVE  MostCrowdedLast(c, front) \in Reorderings(front)
BY SortReorders DEF MostCrowdedLast

----------------------------------------------------------------------------
(* The exchange sort sorts, by an order that comes from an integer key *)

Orders(before, key, S) ==
  /\ key \in [S -> Int]
  /\ \A a, b \in S : <<a, b>> \in before <=> key[a] < key[b]

Sorted(t, key) == \A a, b \in DOMAIN t : a < b => key[t[a]] <= key[t[b]]

\* What place i has after it was compared with the m places behind it, and what
\* became of the others: nothing before place i moved, and what is at it and
\* behind it was there already.
Compared(t, u, i, m, key) ==
  /\ \A k \in 1 .. i - 1 : u[k] = t[k]
  /\ \A k \in i .. Len(t) : \E l \in i .. Len(t) : u[k] = t[l]
  /\ \A k \in i + 1 .. i + m : key[u[i]] <= key[u[k]]

LEMMA ReorderingTyped ==
  ASSUME NEW X, NEW s \in Seq(X), NEW t \in Reorderings(s)
  PROVE  /\ Len(s) \in Nat /\ Len(t) = Len(s) /\ DOMAIN t = 1 .. Len(s)
         /\ t \in [1 .. Len(s) -> ToSet(s)]
         /\ ToSet(s) = {t[k] : k \in 1 .. Len(s)}
         /\ ToSet(s) \subseteq X
<1>1. t \in Seq(ToSet(s)) /\ Len(t) = Len(s) /\ ToSet(t) = ToSet(s)
  BY DEF Reorderings
<1>2. ToSet(t) = {t[k] : k \in 1 .. Len(t)}
  BY <1>1, ToSetOfSeq
<1> QED BY <1>1, <1>2, LenProperties, ToSetOfSeq

LEMMA ExchangeCompares ==
  ASSUME NEW X, NEW s \in Seq(X), NEW before, NEW key, Orders(before, key, ToSet(s)),
         NEW t \in Reorderings(s), NEW u \in Reorderings(s),
         NEW i \in 1 .. Len(s), NEW m \in Nat \ {0}, i + m <= Len(s),
         Compared(t, u, i, m - 1, key)
  PROVE  Compared(t, Exchange(u, i, i + m, before), i, m, key)
<1> DEFINE N == Len(s)
           S == ToSet(s)
           j == i + m
           w == Exchange(u, i, j, before)
<1>1. /\ N \in Nat /\ Len(t) = N
      /\ u \in [1 .. N -> S]
      /\ key \in [S -> Int]
      /\ \A a, b \in S : <<a, b>> \in before <=> key[a] < key[b]
  BY ReorderingTyped DEF Orders
<1>2. i \in 1 .. N /\ j \in 1 .. N /\ i < j /\ m \in Nat /\ j = i + m
  BY <1>1
<1>3. /\ \A k \in 1 .. i - 1 : u[k] = t[k]
      /\ \A k \in i .. N : \E l \in i .. N : u[k] = t[l]
      /\ \A k \in i + 1 .. j - 1 : key[u[i]] <= key[u[k]]
  <2>1. i + (m - 1) = j - 1
    BY <1>2
  <2> QED BY <1>1, <2>1 DEF Compared
<1> HIDE DEF N, S, j
<1>4. CASE <<u[j], u[i]>> \in before
  <2>1. w = [u EXCEPT ![i] = u[j], ![j] = u[i]]
    BY <1>4 DEF Exchange
  <2>2. /\ w[j] = u[i] /\ w[i] = u[j]
        /\ \A k \in 1 .. N : k # i /\ k # j => w[k] = u[k]
    BY <1>1, <1>2, <2>1
  <2>3. key[u[j]] < key[u[i]] /\ \A k \in 1 .. N : key[u[k]] \in Int
    BY <1>1, <1>2, <1>4
  <2> HIDE DEF w
  <2>4. \A k \in 1 .. i - 1 : w[k] = t[k]
    <3> TAKE k \in 1 .. i - 1
    <3>1. k \in 1 .. N /\ k # i /\ k # j
      BY <1>1, <1>2
    <3> QED BY <1>3, <2>2, <3>1
  <2>5. \A k \in i .. N : \E l \in i .. N : w[k] = t[l]
    <3> TAKE k \in i .. N
    <3>1. \E q \in i .. N : w[k] = u[q]
      <4>1. CASE k = i
        BY <1>1, <1>2, <2>2, <4>1
      <4>2. CASE k = j
        BY <1>1, <1>2, <2>2, <4>2
      <4>3. CASE k # i /\ k # j
        <5>1. k \in 1 .. N
          BY <1>1, <1>2
        <5> QED BY <2>2, <4>3, <5>1
      <4> QED BY <4>1, <4>2, <4>3
    <3> QED BY <1>3, <3>1
  <2>6. \A k \in i + 1 .. i + m : key[w[i]] <= key[w[k]]
    <3> TAKE k \in i + 1 .. i + m
    <3>1. k \in 1 .. N /\ k # i
      BY <1>1, <1>2
    <3>2. CASE k = j
      BY <1>2, <2>2, <2>3, <3>2
    <3>3. CASE k # j
      <4>1. k \in i + 1 .. j - 1 /\ w[k] = u[k]
        BY SMTT(30), <1>1, <1>2, <2>2, <3>1, <3>3
      <4>2. key[u[i]] <= key[u[k]]
        BY <1>3, <4>1
      <4> QED BY <1>2, <2>2, <2>3, <3>1, <4>1, <4>2
    <3> QED BY <3>2, <3>3
  <2> QED BY <1>1, <2>4, <2>5, <2>6 DEF Compared, w, j
<1>5. CASE ~ (<<u[j], u[i]>> \in before)
  <2>1. w = u
    BY <1>5 DEF Exchange
  <2>2. key[u[i]] <= key[u[j]]
    BY <1>1, <1>2, <1>5
  <2>3. \A k \in i + 1 .. i + m : key[u[i]] <= key[u[k]]
    <3> TAKE k \in i + 1 .. i + m
    <3>1. k = j \/ k \in i + 1 .. j - 1
      BY <1>2
    <3> QED BY <1>3, <2>2, <3>1
  <2> QED BY <1>1, <1>3, <2>1, <2>3 DEF Compared, w, j
<1> QED BY <1>4, <1>5

\* After its pass, place i holds a least of what is at it and behind it.
LEMMA PassCompares ==
  ASSUME NEW X, NEW s \in Seq(X), NEW before, NEW key, Orders(before, key, ToSet(s)),
         NEW t \in Reorderings(s), NEW i \in 1 .. Len(s)
  PROVE  Compared(t, ExchangeWithLater(t, i, before), i, Len(s) - i, key)
<1> DEFINE f == Passing(t, i, before)
           len == Len(s) - i
           Good == {n \in 0 .. len : Compared(t, f[n], i, n, key)}
<1>1. Len(t) = Len(s) /\ Len(s) \in Nat /\ len \in Nat
  BY ReorderingTyped
<1>2. /\ ExchangeWithLater(t, i, before) = f[len]
      /\ f[0] = t
      /\ \A n \in 1 .. len : f[n] = Exchange(f[n - 1], i, i + n, before)
      /\ \A n \in 0 .. len : f[n] \in Reorderings(s)
  BY <1>1, PassTurns
<1> HIDE DEF f
<1>3. 0 \in Good
  <2>1. \A k \in i .. Len(t) : \E l \in i .. Len(t) : t[k] = t[l]
    OBVIOUS
  <2>2. i + 1 .. i + 0 = {}
    BY <1>1
  <2>3. Compared(t, t, i, 0, key)
    BY <2>1, <2>2 DEF Compared
  <2> QED BY <1>1, <1>2, <2>3
<1>4. ASSUME NEW n \in 1 .. len, n - 1 \in Good PROVE n \in Good
  <2>1. f[n - 1] \in Reorderings(s) /\ f[n] = Exchange(f[n - 1], i, i + n, before)
    BY <1>1, <1>2, <1>4
  <2>2. n \in Nat \ {0} /\ i + n <= Len(s) /\ n \in 0 .. len
    BY <1>1
  <2>3. Compared(t, f[n - 1], i, n - 1, key)
    BY <1>4
  <2>4. Compared(t, f[n], i, n, key)
    BY <2>1, <2>2, <2>3, ExchangeCompares
  <2> QED BY <2>2, <2>4
<1> HIDE DEF Good
<1>5. \A n \in 0 .. len : n \in Good
  BY <1>1, <1>3, <1>4, LoopInduction
<1>6. len \in Good
  BY <1>1, <1>5
<1> QED BY <1>2, <1>6 DEF Good

\* The exchange sort, which crowdingDistanceAssignment and Optimize write out by
\* hand, sorts: whatever is equal and wherever it starts, no later element has a
\* smaller key than an earlier one.
THEOREM ExchangeSortSorts ==
  ASSUME NEW X, NEW s \in Seq(X), NEW before, NEW key, Orders(before, key, ToSet(s))
  PROVE  Sorted(ExchangeSort(s, before), key)
<1> DEFINE f == Exchanging(s, before)
           N == Len(s)
           settled(t, n) == \A a \in 1 .. n : \A b \in a + 1 .. N : key[t[a]] <= key[t[b]]
           Good == {n \in 0 .. N : settled(f[n], n)}
<1>1. N \in Nat
  BY LenProperties
<1>2. /\ ExchangeSort(s, before) = f[N]
      /\ \A n \in 1 .. N : f[n] = ExchangeWithLater(f[n - 1], n, before)
      /\ \A n \in 0 .. N : f[n] \in Reorderings(s)
  BY ExchangeTurns
<1> HIDE DEF f
<1>3. 0 \in Good
  BY <1>1
<1>4. ASSUME NEW n \in 1 .. N, n - 1 \in Good PROVE n \in Good
  <2> DEFINE t == f[n - 1]
             u == f[n]
  <2>1. t \in Reorderings(s) /\ u = ExchangeWithLater(t, n, before) /\ n \in 0 .. N
    BY <1>1, <1>2, <1>4
  <2>2. settled(t, n - 1)
    BY <1>4
  <2>3. Compared(t, u, n, N - n, key) /\ Len(t) = N
    BY <2>1, PassCompares, ReorderingTyped
  <2> HIDE DEF t, u, N
  <2>4. /\ \A k \in 1 .. n - 1 : u[k] = t[k]
        /\ \A k \in n .. N : \E l \in n .. N : u[k] = t[l]
        /\ \A k \in n + 1 .. N : key[u[n]] <= key[u[k]]
    <3>1. n + (N - n) = N
      BY <1>1
    <3> QED BY <2>3, <3>1 DEF Compared
  <2>5. ASSUME NEW a \in 1 .. n, NEW b \in a + 1 .. N PROVE key[u[a]] <= key[u[b]]
    <3>1. CASE a = n
      BY <2>4, <3>1
    <3>2. CASE a # n
      <4>1. a \in 1 .. n - 1 /\ u[a] = t[a]
        BY <1>1, <2>4, <3>2
      <4>2. PICK l \in a + 1 .. N : u[b] = t[l]
        <5>1. CASE b < n
          BY <1>1, <2>4, <4>1, <5>1
        <5>2. CASE ~ (b < n)
          <6>1. b \in n .. N
            BY <1>1, <5>2
          <6>2. PICK l \in n .. N : u[b] = t[l]
            BY <2>4, <6>1
          <6>3. l \in a + 1 .. N
            BY <1>1, <4>1
          <6> QED BY <6>2, <6>3
        <5> QED BY <5>1, <5>2
      <4> QED BY <2>2, <4>1, <4>2
    <3> QED BY <3>1, <3>2
  <2>6. settled(u, n)
    BY <2>5
  <2> QED BY <2>1, <2>6 DEF u
<1> HIDE DEF Good
<1>5. \A n \in 0 .. N : n \in Good
  BY <1>1, <1>3, <1>4, LoopInduction
<1>6. N \in Good /\ f[N] \in Reorderings(s)
  BY <1>1, <1>2, <1>5
<1>7. settled(f[N], N) /\ DOMAIN f[N] = 1 .. N
  BY <1>6, ReorderingTyped DEF Good
<1>8. Sorted(f[N], key)
  <2> SUFFICES ASSUME NEW a \in DOMAIN f[N], NEW b \in DOMAIN f[N], a < b
               PROVE  key[f[N][a]] <= key[f[N][b]]
    BY DEF Sorted
  <2>1. a \in 1 .. N /\ b \in a + 1 .. N
    BY <1>1, <1>7
  <2> QED BY <1>7, <2>1
<1> QED BY <1>2, <1>8

\* A sort of different things has different things.
LEMMA ReorderingInjective ==
  ASSUME NEW X, NEW s \in Seq(X), IsInjective(s), NEW t \in Reorderings(s)
  PROVE  IsInjective(t)
<1> DEFINE N == Len(s)
           S == ToSet(s)
<1>1. /\ N \in Nat /\ DOMAIN t = 1 .. N /\ t \in [1 .. N -> S]
      /\ S = {t[k] : k \in 1 .. N}
  BY ReorderingTyped
<1>2. s \in [1 .. N -> S] /\ S = {s[k] : k \in 1 .. N} /\ DOMAIN s = 1 .. N
  BY LenProperties, ToSetOfSeq, SeqOfToSet
<1> HIDE DEF N, S
<1>3. s \in Bijection(1 .. N, S)
  BY <1>2 DEF Bijection, Injection, Surjection, IsInjective
<1>4. IsFiniteSet(1 .. N)
  <2>1. N \in Int /\ 1 \in Int
    BY <1>1
  <2> QED BY <2>1, FS_Interval
<1>5. Cardinality(1 .. N) = Cardinality(S)
  BY <1>3, <1>4, FS_Bijection DEF ExistsBijection
<1>6. t \in Surjection(1 .. N, S)
  BY <1>1 DEF Surjection
<1>7. t \in Injection(1 .. N, S)
  BY <1>4, <1>5, <1>6, FS_SurjSameCardinalityImpliesInj
<1> QED BY <1>1, <1>7 DEF Injection, IsInjective

----------------------------------------------------------------------------
(* The ends of a front come first *)

By(value, c, front) ==
  ExchangeSort(front, {p \in ToSet(front) \X ToSet(front) : value[c[p[1]]] < value[c[p[2]]]})

\* The boundaries: first and last of the front in flow order and in cost order.
Ends(c, front) ==
  LET n == Len(front)
  IN  {By(Flow, c, front)[1], By(Flow, c, front)[n],
       By(Cost, c, front)[1], By(Cost, c, front)[n]}

Distance(c, front, i) ==
  CrowdingDistance(c, By(Flow, c, front), By(Cost, c, front), i)

\* A sequence of different individuals of c, as a front is.
AFront(c, front) ==
  c \in Seq(Design) /\ front \in Seq(DOMAIN c) /\ front # <<>> /\ IsInjective(front)

LEMMA ByValue ==
  ASSUME NEW c, NEW front, AFront(c, front), NEW value \in [Design -> Nat]
  PROVE  LET s == By(value, c, front)
             n == Len(front)
         IN  /\ n \in Nat \ {0}
             /\ Len(s) = n /\ s \in [1 .. n -> ToSet(front)]
             /\ ToSet(front) = {s[k] : k \in 1 .. n}
             /\ IsInjective(s)
             /\ \A i \in ToSet(front) : c[i] \in Design /\ value[c[i]] \in Nat
             /\ \A a, b \in 1 .. n : a <= b => value[c[s[a]]] <= value[c[s[b]]]
<1> DEFINE S == ToSet(front)
           n == Len(front)
           before == {p \in S \X S : value[c[p[1]]] < value[c[p[2]]]}
           key == [i \in S |-> value[c[i]]]
           s == By(value, c, front)
<1>1. n \in Nat \ {0} /\ front \in Seq(DOMAIN c) /\ S \subseteq DOMAIN c
  BY EmptySeq, LenProperties, ToSetOfSeq DEF AFront
<1>2. \A i \in S : c[i] \in Design /\ value[c[i]] \in Nat
  BY <1>1, LenProperties DEF AFront
<1> HIDE DEF n
<1>3. Orders(before, key, S)
  <2> HIDE DEF S
  <2> QED BY <1>2 DEF Orders
<1>4. s = ExchangeSort(front, before)
  BY DEF By
<1> HIDE DEF s, before
<1>5. s \in Reorderings(front) /\ Sorted(s, key)
  BY <1>1, <1>3, <1>4, SortReorders, ExchangeSortSorts DEF S
<1>6. /\ Len(s) = n /\ DOMAIN s = 1 .. n /\ s \in [1 .. n -> S]
  BY <1>1, <1>5, ReorderingTyped DEF n, S
<1>7. S = {s[k] : k \in 1 .. n}
  <2>1. ToSet(s) = S
    BY <1>5 DEF Reorderings, S
  <2> QED BY <1>6, <2>1 DEF ToSet
<1>8. IsInjective(s)
  BY <1>1, <1>5, ReorderingInjective DEF AFront
<1>9. ASSUME NEW a \in 1 .. n, NEW b \in 1 .. n, a <= b
      PROVE  value[c[s[a]]] <= value[c[s[b]]]
  <2>1. s[a] \in S /\ s[b] \in S
    BY <1>6
  <2>2. CASE a = b
    BY <1>2, <2>1, <2>2
  <2>3. CASE a # b
    <3>1. key[s[a]] <= key[s[b]]
      <4> HIDE DEF key, n
      <4> QED BY <1>5, <1>6, <1>9, <2>3 DEF Sorted
    <3> HIDE DEF S
    <3> QED BY <2>1, <3>1
  <2> QED BY <2>2, <2>3
<1> QED BY <1>1, <1>2, <1>6, <1>7, <1>8, <1>9 DEF n, S, s

LEMMA LessThanABoundary ==
  ASSUME NEW A \in Nat \ {0}, NEW B \in Nat \ {0}, NEW a \in Int, NEW b \in Int,
         a <= A, b <= B
  PROVE  a * B + b * A \in Int /\ 4 * A * B \in Int /\ a * B + b * A < 4 * A * B
<1>1. A * B \in Int /\ A * B >= 1
  OBVIOUS
<1>2. a * B \in Int /\ a * B <= A * B
  <2>1. (A - a) * B >= 0
    <3>1. A - a \in Nat /\ B \in Nat
      OBVIOUS
    <3> QED BY <3>1
  <2>2. (A - a) * B = A * B - a * B
    OBVIOUS
  <2> QED BY <2>1, <2>2
<1>3. b * A \in Int /\ b * A <= A * B
  <2>1. (B - b) * A >= 0
    <3>1. B - b \in Nat /\ A \in Nat
      OBVIOUS
    <3> QED BY <3>1
  <2>2. (B - b) * A = A * B - b * A
    OBVIOUS
  <2> QED BY <2>1, <2>2
<1>4. 4 * A * B = 4 * (A * B)
  OBVIOUS
<1> DEFINE x == a * B
           y == b * A
           z == A * B
<1>5. /\ x \in Int /\ y \in Int /\ z \in Int /\ x <= z /\ y <= z /\ z >= 1
  BY <1>1, <1>2, <1>3
<1> HIDE DEF x, y, z
<1>6. x + y \in Int /\ 4 * z \in Int /\ x + y < 4 * z
  BY <1>5
<1> QED BY <1>4, <1>6 DEF x, y, z

\* One of the two terms of a distance that is not that of a boundary: the gap
\* between the neighbours is no wider than the range.
LEMMA GapInRange ==
  ASSUME NEW c, NEW front, AFront(c, front), NEW value \in [Design -> Nat],
         NEW k \in 1 .. Len(front), k # 1, k # Len(front)
  PROVE  LET s == By(value, c, front)
             n == Len(front)
             at(q) == value[c[s[q]]]
             range == at(n) - at(1)
         IN  /\ at(k + 1) - at(k - 1) \in Int
             /\ at(k + 1) - at(k - 1) <= IF range > 0 THEN range ELSE 1
<1> DEFINE s == By(value, c, front)
           n == Len(front)
           at(q) == value[c[s[q]]]
<1>1. /\ n \in Nat \ {0}
      /\ s \in [1 .. n -> ToSet(front)]
      /\ \A i \in ToSet(front) : value[c[i]] \in Nat
      /\ \A a, b \in 1 .. n : a <= b => at(a) <= at(b)
  BY ByValue
<1> HIDE DEF s, n
<1>2. /\ 1 \in 1 .. n /\ k - 1 \in 1 .. n /\ k + 1 \in 1 .. n /\ n \in 1 .. n
      /\ 1 <= k - 1 /\ k + 1 <= n
  BY <1>1 DEF n
<1>3. \A q \in 1 .. n : at(q) \in Nat
  BY <1>1
<1>4. at(1) <= at(k - 1) /\ at(k + 1) <= at(n)
  BY <1>1, <1>2
<1>5. at(1) \in Nat /\ at(n) \in Nat /\ at(k - 1) \in Nat /\ at(k + 1) \in Nat
  BY <1>2, <1>3
<1> HIDE DEF at
<1>6. /\ at(k + 1) - at(k - 1) \in Int
      /\ at(k + 1) - at(k - 1) <= IF at(n) - at(1) > 0 THEN at(n) - at(1) ELSE 1
  BY <1>4, <1>5
<1> QED BY <1>6 DEF at, s, n

\* All boundaries have one distance, and everybody else a smaller one.
LEMMA BoundariesAreFarthest ==
  ASSUME NEW c, NEW front, AFront(c, front)
  PROVE  \E top \in Int : \A i \in ToSet(front) :
             /\ Distance(c, front, i) \in Int
             /\ i \in Ends(c, front) => Distance(c, front, i) = top
             /\ i \notin Ends(c, front) => Distance(c, front, i) < top
<1> DEFINE S == ToSet(front)
           n == Len(front)
           byFlow == By(Flow, c, front)
           byCost == By(Cost, c, front)
           flow(k) == Flow[c[byFlow[k]]]
           cost(k) == Cost[c[byCost[k]]]
           A == IF flow(n) - flow(1) > 0 THEN flow(n) - flow(1) ELSE 1
           B == IF cost(n) - cost(1) > 0 THEN cost(n) - cost(1) ELSE 1
           top == 4 * A * B
<1>1. Flow \in [Design -> Nat] /\ Cost \in [Design -> Nat]
  BY NSGA2Assumption
<1>2. /\ n \in Nat \ {0} /\ Len(byFlow) = n
      /\ byFlow \in [1 .. n -> S] /\ S = {byFlow[k] : k \in 1 .. n}
      /\ IsInjective(byFlow)
      /\ \A i \in S : Flow[c[i]] \in Nat
  BY <1>1, ByValue
<1>3. /\ byCost \in [1 .. n -> S] /\ S = {byCost[k] : k \in 1 .. n}
      /\ IsInjective(byCost)
      /\ \A i \in S : Cost[c[i]] \in Nat
  <2>1. Cost \in [Design -> Nat]
    BY <1>1
  <2> QED BY <2>1, ByValue
<1>4. A \in Nat \ {0} /\ B \in Nat \ {0}
  <2> HIDE DEF n, byFlow, byCost, S
  <2>1. 1 \in 1 .. n /\ n \in 1 .. n
    BY <1>2
  <2>2. flow(1) \in Nat /\ flow(n) \in Nat /\ cost(1) \in Nat /\ cost(n) \in Nat
    BY <1>2, <1>3, <2>1
  <2> HIDE DEF flow, cost
  <2> QED BY <2>2
<1>5. top \in Int
  <2> HIDE DEF A, B
  <2> QED BY <1>4
<1>6. ASSUME NEW i \in S
      PROVE  /\ Distance(c, front, i) \in Int
             /\ i \in Ends(c, front) => Distance(c, front, i) = top
             /\ i \notin Ends(c, front) => Distance(c, front, i) < top
  <2> DEFINE f == CHOOSE k \in 1 .. n : byFlow[k] = i
             g == CHOOSE k \in 1 .. n : byCost[k] = i
             inside == (flow(f + 1) - flow(f - 1)) * B + (cost(g + 1) - cost(g - 1)) * A
             boundary == n <= 2 \/ f \in {1, n} \/ g \in {1, n}
  <2>1. f \in 1 .. n /\ byFlow[f] = i
    <3> HIDE DEF n, byFlow, S
    <3> QED BY <1>2
  <2>2. g \in 1 .. n /\ byCost[g] = i
    <3> HIDE DEF n, byCost, S
    <3> QED BY <1>3
  <2>3. Distance(c, front, i) = IF boundary THEN top ELSE inside
    BY <1>2 DEF Distance, CrowdingDistance
  <2> HIDE DEF f, g
  <2>4. boundary <=> i \in Ends(c, front)
    <3>1. i \in Ends(c, front) <=> i \in {byFlow[1], byFlow[n], byCost[1], byCost[n]}
      BY DEF Ends
    <3> HIDE DEF byFlow, byCost, n, S
    <3>2. 1 \in 1 .. n /\ n \in 1 .. n
      BY <1>2
    <3>3. ASSUME NEW e \in {1, n} PROVE (byFlow[e] = i <=> f = e) /\ (byCost[e] = i <=> g = e)
      <4>1. e \in 1 .. n
        BY <3>2
      <4>2. \A a, b \in 1 .. n : byFlow[a] = byFlow[b] => a = b
        BY <1>2 DEF IsInjective
      <4>3. \A a, b \in 1 .. n : byCost[a] = byCost[b] => a = b
        BY <1>3 DEF IsInjective
      <4> QED BY <2>1, <2>2, <4>1, <4>2, <4>3
    <3>4. n <= 2 => f \in {1, n}
      <4>1. n \in Nat \ {0} /\ f \in 1 .. n
        BY <1>2, <2>1
      <4> QED BY <4>1
    <3> QED BY <3>1, <3>3, <3>4
  <2>5. CASE boundary
    BY <1>5, <2>3, <2>4, <2>5
  <2>6. CASE ~boundary
    <3> DEFINE p == flow(f + 1) - flow(f - 1)
               q == cost(g + 1) - cost(g - 1)
    <3>1. p \in Int /\ p <= A
      BY <1>1, <2>1, <2>6, GapInRange
    <3>2. q \in Int /\ q <= B
      BY <1>1, <2>2, <2>6, GapInRange
    <3>3. Distance(c, front, i) = p * B + q * A
      BY <2>3, <2>6
    <3> HIDE DEF p, q, A, B
    <3>4. p * B + q * A \in Int /\ p * B + q * A < 4 * A * B
      BY <1>4, <3>1, <3>2, LessThanABoundary
    <3> QED BY <2>4, <2>6, <3>3, <3>4
  <2> QED BY <2>5, <2>6
<1> HIDE DEF top
<1> QED BY <1>5, <1>6 DEF S

\* In the order a front is cut by, nobody comes before a boundary but boundaries,
\* and there are four of them at most.
LEMMA BoundariesComeFirst ==
  ASSUME NEW c, NEW front, AFront(c, front), \A i \in ToSet(front) : Valid(c[i])
  PROVE  LET t == MostCrowdedLast(c, front)
             n == Len(front)
         IN  /\ DOMAIN t = 1 .. n
             /\ ToSet(t) = ToSet(front)
             /\ ToSet(front) = {t[k] : k \in 1 .. n}
             /\ \A k \in 1 .. n : t[k] \in Ends(c, front) =>
                    k <= 4 /\ \A j \in 1 .. k : t[j] \in Ends(c, front)
<1> DEFINE S == ToSet(front)
           n == Len(front)
           t == MostCrowdedLast(c, front)
           E == Ends(c, front)
           before == {p \in S \X S : /\ Valid(c[p[1]])
                                     /\ Valid(c[p[2]]) =>
                                            Distance(c, front, p[1]) > Distance(c, front, p[2])}
           key == [i \in S |-> 0 - Distance(c, front, i)]
<1>1. front \in Seq(DOMAIN c) /\ IsInjective(front)
  BY DEF AFront
<1>2. PICK top \in Int : \A i \in S :
        /\ Distance(c, front, i) \in Int
        /\ i \in E => Distance(c, front, i) = top
        /\ i \notin E => Distance(c, front, i) < top
  BY BoundariesAreFarthest
<1>3. t = ExchangeSort(front, before)
  BY DEF MostCrowdedLast, Distance, By
<1>4. Orders(before, key, S)
  <2> HIDE DEF S
  <2>1. \A i \in S : Valid(c[i])
    BY DEF S
  <2>2. key \in [S -> Int]
    BY <1>2
  <2>3. ASSUME NEW a \in S, NEW b \in S
        PROVE  <<a, b>> \in before <=> key[a] < key[b]
    <3>1. <<a, b>> \in before <=> Distance(c, front, a) > Distance(c, front, b)
      BY <2>1
    <3>2. Distance(c, front, a) \in Int /\ Distance(c, front, b) \in Int
      BY <1>2
    <3> QED BY <3>1, <3>2
  <2> HIDE DEF before, key
  <2> QED BY <2>2, <2>3 DEF Orders
<1> HIDE DEF t, before
<1>5. t \in Reorderings(front) /\ Sorted(t, key) /\ IsInjective(t)
  BY <1>1, <1>3, <1>4, SortReorders, ExchangeSortSorts, ReorderingInjective DEF S
<1>6. n \in Nat /\ DOMAIN t = 1 .. n /\ t \in [1 .. n -> S] /\ ToSet(t) = S
  BY <1>1, <1>5, ReorderingTyped DEF Reorderings
<1>7. S = {t[k] : k \in 1 .. n}
  <2> HIDE DEF S, n
  <2> QED BY <1>6 DEF ToSet
<1> HIDE DEF S, n
<1>8. ASSUME NEW k \in 1 .. n, t[k] \in E, NEW j \in 1 .. k PROVE t[j] \in E
  <2>1. j \in 1 .. n /\ (j = k \/ j < k)
    BY <1>6
  <2>2. CASE j = k
    BY <1>8, <2>2
  <2>3. CASE j < k
    <3>1. key[t[j]] <= key[t[k]]
      BY <1>5, <1>6, <2>1, <2>3 DEF Sorted
    <3>2. t[j] \in S /\ t[k] \in S
      BY <1>6, <2>1
    <3>3. Distance(c, front, t[j]) >= Distance(c, front, t[k])
      BY <1>2, <3>1, <3>2
    <3> QED BY <1>2, <1>8, <3>2, <3>3
  <2> QED BY <2>1, <2>2, <2>3
<1>9. ASSUME NEW k \in 1 .. n, t[k] \in E PROVE k <= 4
  <2> SUFFICES ASSUME k >= 5 PROVE FALSE
    BY <1>6
  <2>1. /\ 1 \in 1 .. n /\ 2 \in 1 .. n /\ 3 \in 1 .. n /\ 4 \in 1 .. n /\ 5 \in 1 .. n
        /\ 1 \in 1 .. k /\ 2 \in 1 .. k /\ 3 \in 1 .. k /\ 4 \in 1 .. k /\ 5 \in 1 .. k
    BY <1>6
  <2>2. t[1] \in E /\ t[2] \in E /\ t[3] \in E /\ t[4] \in E /\ t[5] \in E
    BY <1>8, <1>9, <2>1
  <2>3. /\ t[1] # t[2] /\ t[1] # t[3] /\ t[1] # t[4] /\ t[1] # t[5]
        /\ t[2] # t[3] /\ t[2] # t[4] /\ t[2] # t[5]
        /\ t[3] # t[4] /\ t[3] # t[5] /\ t[4] # t[5]
    BY <1>5, <1>6, <2>1 DEF IsInjective
  <2>4. \E w, x, y, z : E = {w, x, y, z}
    BY DEF Ends
  <2> QED BY <2>2, <2>3, <2>4
<1> QED BY <1>6, <1>7, <1>8, <1>9 DEF S, n, t, E

----------------------------------------------------------------------------
(* The selection *)

Selection == [kept : Seq(Design), state : {Filling, Full, Panic}]

Nothing == [kept |-> <<>>, state |-> Filling]

LEMMA FunctionIsSeq ==
  ASSUME NEW S, NEW n \in Nat, NEW f \in [1 .. n -> S]
  PROVE  f \in Seq(S) /\ Len(f) = n
<1>1. Seq(S) = UNION {[1 .. k -> S] : k \in Nat}
  BY SeqDef
<1>2. [1 .. n -> S] \in {[1 .. k -> S] : k \in Nat}
  OBVIOUS
<1>3. f \in Seq(S)
  BY <1>1, <1>2, Zenon
<1> QED BY <1>3, LenProperties

LEMMA IndividualsTyped ==
  ASSUME NEW c \in Seq(Design), NEW s \in Seq(DOMAIN c)
  PROVE  /\ Individuals(c, s) \in Seq(Design)
         /\ Len(Individuals(c, s)) = Len(s)
         /\ \A k \in 1 .. Len(s) : Individuals(c, s)[k] = c[s[k]]
         /\ ToSet(Individuals(c, s)) = {c[j] : j \in ToSet(s)}
<1>1. /\ Len(s) \in Nat /\ DOMAIN s = 1 .. Len(s)
      /\ \A k \in 1 .. Len(s) : s[k] \in DOMAIN c
      /\ ToSet(s) = {s[k] : k \in 1 .. Len(s)}
  BY LenProperties, ToSetOfSeq
<1>2. \A j \in DOMAIN c : c[j] \in Design
  BY LenProperties
<1> DEFINE t == Individuals(c, s)
<1>3. t = [k \in 1 .. Len(s) |-> c[s[k]]]
  BY <1>1 DEF Individuals
<1>4. t \in [1 .. Len(s) -> Design] /\ \A k \in 1 .. Len(s) : t[k] = c[s[k]]
  BY <1>1, <1>2, <1>3
<1> HIDE DEF t
<1>5. t \in Seq(Design) /\ Len(t) = Len(s)
  BY <1>1, <1>4, FunctionIsSeq
<1>6. ToSet(t) = {t[k] : k \in 1 .. Len(s)}
  BY <1>5, ToSetOfSeq
<1>7. ToSet(t) = {c[j] : j \in ToSet(s)}
  BY <1>1, <1>4, <1>6
<1> QED BY <1>4, <1>5, <1>7 DEF t

\* What a front adds comes behind what is kept already.
LEMMA TakeFrontTyped ==
  ASSUME NEW c \in Seq(Design), NEW front \in Seq(DOMAIN c) \ {<<>>}, NEW x \in Selection
  PROVE  /\ TakeFront(c, x, front) \in Selection
         /\ \E more \in Seq(Design) : TakeFront(c, x, front).kept = x.kept \o more
<1> DEFINE N == Len(front)
           slice == Slice(c, front)
           room == PopulationSize - Len(x.kept)
           sorted == MostCrowdedLast(c, front)
           cut == SubSeq(sorted, 1, room)
           state == CASE front[1] > Last(front) + 1 -> Panic
                      [] Len(x.kept \o slice) >= PopulationSize -> Full
                      [] OTHER -> Filling
           taken == TakeFront(c, x, front)
<1>1. /\ x.kept \in Seq(Design) /\ x.state \in {Filling, Full, Panic}
      /\ Len(x.kept) \in Nat
      /\ DOMAIN c = 1 .. Len(c) /\ Len(c) \in Nat
      /\ \A j \in DOMAIN c : c[j] \in Design
      /\ N \in Nat \ {0} /\ \A k \in 1 .. N : front[k] \in DOMAIN c
  BY LenProperties, EmptySeq DEF Selection
<1>2. slice \in Seq(Design)
  <2>1. front[1] \in 1 .. Len(c) /\ Last(front) \in 1 .. Len(c)
    BY <1>1 DEF Last
  <2>2. \A i \in front[1] .. Last(front) : c[i] \in Design
    BY <1>1, <2>1
  <2>3. front[1] \in Int /\ Last(front) \in Int
    BY <1>1, <2>1
  <2>4. SubSeq(c, front[1], Last(front)) \in Seq(Design)
    BY <2>2, <2>3, SubSeqProperties
  <2> QED BY <2>4 DEF Slice
<1>3. taken = IF x.state # Filling THEN x
              ELSE IF Fits(x.kept, front) THEN [kept |-> x.kept \o slice, state |-> state]
              ELSE [kept |-> x.kept \o Individuals(c, cut), state |-> Full]
  BY DEF TakeFront
<1>4. CASE x.state # Filling
  <2>1. x.kept = x.kept \o <<>> /\ <<>> \in Seq(Design)
    BY <1>1, ConcatEmptySeq
  <2> QED BY <1>3, <1>4, <2>1
<1>5. CASE x.state = Filling /\ Fits(x.kept, front)
  <2>1. taken = [kept |-> x.kept \o slice, state |-> state]
    BY <1>3, <1>5
  <2>2. state \in {Filling, Full, Panic}
    OBVIOUS
  <2> HIDE DEF state, slice, taken
  <2>3. x.kept \o slice \in Seq(Design)
    BY <1>1, <1>2, ConcatProperties
  <2>4. taken \in Selection /\ taken.kept = x.kept \o slice
    BY <2>1, <2>2, <2>3 DEF Selection
  <2> QED BY <1>2, <2>4 DEF taken
<1>6. CASE x.state = Filling /\ ~Fits(x.kept, front)
  <2> DEFINE more == Individuals(c, cut)
  <2>1. taken = [kept |-> x.kept \o more, state |-> Full]
    BY <1>3, <1>6
  <2>2. sorted \in Seq(DOMAIN c) /\ Len(sorted) = N
    <3>1. sorted \in Reorderings(front)
      BY MostCrowdedLastReorders
    <3>2. ToSet(front) \subseteq DOMAIN c
      BY ToSetOfSeq
    <3> QED BY <3>1, <3>2, SeqMonotonic DEF Reorderings
  <2>3. cut \in Seq(DOMAIN c)
    <3>1. PopulationSize \in Nat \ {0} /\ room \in Int /\ room < N
      BY <1>1, <1>6, NSGA2Assumption DEF Fits
    <3> HIDE DEF room, sorted, N
    <3>2. \A i \in 1 .. room : sorted[i] \in DOMAIN c
      BY <1>1, <2>2, <3>1, ElementOfSeq
    <3> QED BY <3>1, <3>2, SubSeqProperties
  <2> HIDE DEF cut
  <2>4. more \in Seq(Design)
    BY <2>3, IndividualsTyped
  <2> HIDE DEF more, taken
  <2>5. x.kept \o more \in Seq(Design)
    BY <1>1, <2>4, ConcatProperties
  <2>6. taken \in Selection /\ taken.kept = x.kept \o more
    BY <2>1, <2>5 DEF Selection
  <2> QED BY <2>4, <2>6 DEF taken
<1> QED BY <1>4, <1>5, <1>6

\* The first front, which is in index order, always gives somebody.
LEMMA TakeFirstFront ==
  ASSUME NEW c \in Seq(Design), NEW front \in Seq(DOMAIN c) \ {<<>>}, Rising(front)
  PROVE  LET kept == TakeFront(c, Nothing, front).kept IN
         kept # <<>> /\ \E j \in ToSet(front) : kept[1] = c[j]
<1> DEFINE N == Len(front)
           slice == Slice(c, front)
           sorted == MostCrowdedLast(c, front)
           cut == SubSeq(sorted, 1, PopulationSize - 0)
           kept == TakeFront(c, Nothing, front).kept
<1>1. /\ DOMAIN c = 1 .. Len(c) /\ Len(c) \in Nat
      /\ \A j \in DOMAIN c : c[j] \in Design
      /\ N \in Nat \ {0} /\ \A k \in 1 .. N : front[k] \in DOMAIN c
      /\ DOMAIN front = 1 .. N /\ Len(<<>>) = 0
      /\ ToSet(front) = {front[k] : k \in 1 .. N}
  BY LenProperties, EmptySeq, ToSetOfSeq
<1>2. PopulationSize \in Nat \ {0}
  BY NSGA2Assumption
<1>3. /\ slice \in Seq(Design) /\ Len(slice) \in Nat \ {0}
      /\ slice[1] = c[front[1]] /\ front[1] \in ToSet(front)
  <2> DEFINE m == front[1]
             n == Last(front)
  <2>1. m \in 1 .. Len(c) /\ n \in 1 .. Len(c) /\ n = front[N]
    BY <1>1 DEF Last
  <2>2. m <= n
    <3>1. CASE N = 1
      BY <1>1, <2>1, <3>1
    <3>2. CASE N # 1
      <4>1. 1 \in DOMAIN front /\ N \in DOMAIN front /\ 1 < N
        BY <1>1, <3>2
      <4>2. front[1] < front[N]
        BY <4>1 DEF Rising
      <4> QED BY <1>1, <2>1, <4>2
    <3> QED BY <3>1, <3>2
  <2>3. slice = SubSeq(c, m, n)
    BY DEF Slice
  <2>4. front[1] \in ToSet(front)
    BY <1>1
  <2> HIDE DEF m, n, slice
  <2>5. m \in Int /\ n \in Int /\ \A i \in m .. n : c[i] \in Design
    BY <1>1, <2>1
  <2>6. /\ SubSeq(c, m, n) \in Seq(Design)
        /\ Len(SubSeq(c, m, n)) = IF m <= n THEN n - m + 1 ELSE 0
        /\ \A i \in 1 .. n - m + 1 : SubSeq(c, m, n)[i] = c[m + i - 1]
    BY <2>5, SubSeqProperties
  <2>7. 1 \in 1 .. n - m + 1 /\ m + 1 - 1 = m /\ n - m + 1 \in Nat \ {0}
    BY <2>2, <2>5
  <2>8. slice[1] = c[m + 1 - 1]
    BY <2>3, <2>6, <2>7
  <2> QED BY <2>2, <2>3, <2>4, <2>6, <2>7, <2>8 DEF m
<1>4. CASE Fits(<<>>, front)
  <2>1. kept = <<>> \o slice
    BY <1>4 DEF TakeFront, Nothing
  <2>2. kept = slice
    BY <1>3, <2>1, ConcatEmptySeq
  <2> QED BY <1>3, <2>2, EmptySeq
<1>5. CASE ~Fits(<<>>, front)
  <2> DEFINE more == Individuals(c, cut)
  <2>1. kept = <<>> \o more
    BY <1>1, <1>5 DEF TakeFront, Nothing
  <2>2. sorted \in Seq(DOMAIN c) /\ Len(sorted) = N /\ ToSet(sorted) = ToSet(front)
    <3>1. sorted \in Reorderings(front)
      BY MostCrowdedLastReorders
    <3>2. ToSet(front) \subseteq DOMAIN c
      BY ToSetOfSeq
    <3> QED BY <3>1, <3>2, SeqMonotonic DEF Reorderings
  <2>3. PopulationSize < N
    BY <1>1, <1>2, <1>5 DEF Fits
  <2>4. cut \in Seq(DOMAIN c) /\ Len(cut) = PopulationSize /\ cut[1] = sorted[1]
    <3> DEFINE P == PopulationSize
    <3> HIDE DEF sorted, N, P
    <3>1. P \in Nat \ {0} /\ P < N
      BY <1>2, <2>3 DEF P
    <3>2. \A i \in 1 .. P : sorted[i] \in DOMAIN c
      BY <1>1, <2>2, <3>1, ElementOfSeq
    <3>3. /\ SubSeq(sorted, 1, P) \in Seq(DOMAIN c)
          /\ Len(SubSeq(sorted, 1, P)) = IF 1 <= P THEN P - 1 + 1 ELSE 0
          /\ \A i \in 1 .. P - 1 + 1 : SubSeq(sorted, 1, P)[i] = sorted[1 + i - 1]
      BY <3>1, <3>2, SubSeqProperties
    <3>4. cut = SubSeq(sorted, 1, P)
      BY <1>2 DEF P
    <3>5. 1 \in 1 .. P - 1 + 1 /\ 1 + 1 - 1 = 1 /\ P - 1 + 1 = P
      BY <3>1
    <3>6. SubSeq(sorted, 1, P)[1] = sorted[1 + 1 - 1]
      BY <3>3, <3>5
    <3> QED BY <3>1, <3>3, <3>4, <3>5, <3>6 DEF P
  <2>5. sorted[1] \in ToSet(front)
    <3> HIDE DEF sorted, N
    <3>1. ToSet(sorted) = {sorted[k] : k \in 1 .. N}
      BY <2>2, ToSetOfSeq
    <3>2. 1 \in 1 .. N
      BY <1>1
    <3> QED BY <2>2, <3>1, <3>2
  <2> HIDE DEF cut, kept, sorted
  <2>6. more \in Seq(Design) /\ Len(more) \in Nat \ {0} /\ more[1] = c[cut[1]]
    <3>1. /\ more \in Seq(Design) /\ Len(more) = Len(cut)
          /\ \A k \in 1 .. Len(cut) : more[k] = c[cut[k]]
      BY <2>4, IndividualsTyped
    <3>2. 1 \in 1 .. Len(cut)
      BY <1>2, <2>4
    <3> QED BY <1>2, <2>4, <3>1, <3>2
  <2> HIDE DEF more
  <2>7. kept = more
    BY <2>1, <2>6, ConcatEmptySeq
  <2> QED BY <2>4, <2>5, <2>6, <2>7, EmptySeq DEF kept
<1> QED BY <1>4, <1>5

LEMMA SortTyped ==
  ASSUME NEW c \in Seq(Design), c # <<>>
  PROVE  /\ FastNonDominatedSort(c) \in Seq(Seq(DOMAIN c))
         /\ Len(FastNonDominatedSort(c)) \in Nat \ {0}
         /\ \A r \in 1 .. Len(FastNonDominatedSort(c)) :
                FastNonDominatedSort(c)[r] \in Seq(DOMAIN c) \ {<<>>}
         /\ FastNonDominatedSort(c)[1] = FirstFront(c)
<1>1. PICK sort \in Sorts(c) : /\ FastNonDominatedSort(c) = sort.fronts
                               /\ sort.fronts[1] = FirstFront(c)
  BY SortPeelsLayers
<1>2. sort.fronts \in Seq(Seq(DOMAIN c)) /\ sort.fronts # <<>>
  BY DEF Sorts, SortRecord, Layered
<1>3. \A r \in 1 .. Len(sort.fronts) : sort.fronts[r] # <<>>
  BY DEF Sorts, Layered
<1> QED BY <1>1, <1>2, <1>3, EmptySeq, ElementOfSeq

Taking(c) == TakenFrom(c, FastNonDominatedSort(c))

LEMMA SelectionTurns ==
  ASSUME NEW c \in Seq(Design), c # <<>>
  PROVE  LET f == Taking(c) IN
         /\ SelectFronts(c) = f[Len(FastNonDominatedSort(c))]
         /\ f[0] = Nothing
         /\ \A n \in 1 .. Len(FastNonDominatedSort(c)) : f[n] = TakeFront(c, f[n - 1], FastNonDominatedSort(c)[n])
         /\ \A n \in 0 .. Len(FastNonDominatedSort(c)) : f[n] \in Selection
<1> DEFINE len == Len(FastNonDominatedSort(c))
           Type == Selection
           start == Nothing
           f == Taking(c)
           turn == [n \in 1 .. len |-> [x \in Type |-> TakeFront(c, x, FastNonDominatedSort(c)[n])]]
<1>1. len \in Nat /\ start \in Type
  BY SortTyped DEF Selection, Nothing
<1>2. \A n \in 1 .. len : \A x \in Type : TakeFront(c, x, FastNonDominatedSort(c)[n]) \in Type
  BY SortTyped, TakeFrontTyped
<1> HIDE DEF Type, start
<1>3. turn \in [1 .. len -> [Type -> Type]]
  BY <1>2
<1>4. PICK run \in [0 .. len -> Type] :
        run[0] = start /\ \A n \in 1 .. len : run[n] = turn[n][run[n - 1]]
  <2>1. IsLoop(Type, start, len, turn)
    BY <1>1, <1>3 DEF IsLoop
  <2> HIDE DEF turn, len
  <2> QED BY <2>1, LoopExists
<1> HIDE DEF len, turn
<1>5. run = [n \in 0 .. len |-> IF n = 0 THEN start ELSE TakeFront(c, run[n - 1], FastNonDominatedSort(c)[n])]
  <2>1. ASSUME NEW n \in 0 .. len
        PROVE  run[n] = IF n = 0 THEN start ELSE TakeFront(c, run[n - 1], FastNonDominatedSort(c)[n])
    <3>1. CASE n = 0
      BY <1>4, <3>1
    <3>2. CASE n # 0
      <4>1. n \in 1 .. len /\ n - 1 \in 0 .. len /\ run[n - 1] \in Type
        BY <1>1, <1>4, <3>2
      <4> QED BY <1>4, <3>2, <4>1 DEF turn
    <3> QED BY <3>1, <3>2
  <2> QED BY <2>1
<1>6. f = [n \in 0 .. len |-> IF n = 0 THEN start ELSE TakeFront(c, f[n - 1], FastNonDominatedSort(c)[n])]
  BY <1>5, Zenon DEF Taking, TakenFrom, Nothing, len, start
<1> HIDE DEF f
<1>7. f[0] = start /\ \A n \in 1 .. len : f[n] = TakeFront(c, f[n - 1], FastNonDominatedSort(c)[n])
  <2>1. 0 \in 0 .. len /\ \A n \in 1 .. len : n \in 0 .. len /\ n # 0
    BY <1>1
  <2>2. f[0] = start
    BY <1>6, <2>1, Zenon
  <2>3. \A n \in 1 .. len : f[n] = IF n = 0 THEN start ELSE TakeFront(c, f[n - 1], FastNonDominatedSort(c)[n])
    BY <1>6, <2>1, Zenon
  <2> QED BY <2>1, <2>2, <2>3, Zenon
<1>8. \A n \in 0 .. len : f[n] \in Type
  <2> DEFINE Typed == {n \in 0 .. len : f[n] \in Type}
  <2>1. 0 \in Typed
    BY <1>1, <1>7
  <2>2. ASSUME NEW n \in 1 .. len, n - 1 \in Typed PROVE n \in Typed
    <3>1. n \in 0 .. len /\ f[n - 1] \in Type
      BY <1>1, <2>2
    <3>2. f[n] \in Type
      BY <1>2, <1>7, <3>1
    <3> QED BY <3>1, <3>2
  <2> HIDE DEF Typed
  <2>3. \A n \in 0 .. len : n \in Typed
    BY <1>1, <2>1, <2>2, LoopInduction
  <2> QED BY <2>3 DEF Typed
<1>9. SelectFronts(c) = f[len]
  BY DEF SelectFronts, Taking, f, len
<1> QED BY <1>7, <1>8, <1>9 DEF f, len, Type, start


\* What a selection keeps starts with somebody whom nobody dominates.
LEMMA SelectionKeepsTheUnbeaten ==
  ASSUME NEW c \in Seq(Design), c # <<>>
  PROVE  LET selected == SelectFronts(c) IN
         /\ selected \in Selection
         /\ selected.kept # <<>>
         /\ \E j \in DOMAIN c : /\ selected.kept[1] = c[j]
                                /\ \A i \in DOMAIN c : ~Dominates(c[i], c[j])
<1> DEFINE f == Taking(c)
           fronts == FastNonDominatedSort(c)
           N == Len(fronts)
           Led(n) == /\ f[n].kept # <<>>
                     /\ \E j \in ToSet(FirstFront(c)) : f[n].kept[1] = c[j]
           Good == {n \in 0 .. N : n = 0 \/ Led(n)}
<1>1. /\ N \in Nat \ {0} /\ fronts[1] = FirstFront(c)
      /\ \A r \in 1 .. N : fronts[r] \in Seq(DOMAIN c) \ {<<>>}
  BY SortTyped
<1>2. /\ SelectFronts(c) = f[N] /\ f[0] = Nothing
      /\ \A n \in 1 .. N : f[n] = TakeFront(c, f[n - 1], fronts[n])
      /\ \A n \in 0 .. N : f[n] \in Selection
  BY SelectionTurns
<1> HIDE DEF f, fronts, N
<1>3. 0 \in Good
  BY <1>1
<1>4. ASSUME NEW n \in 1 .. N, n - 1 \in Good PROVE n \in Good
  <2>1. /\ f[n] = TakeFront(c, f[n - 1], fronts[n]) /\ f[n - 1] \in Selection
        /\ fronts[n] \in Seq(DOMAIN c) \ {<<>>} /\ n \in 0 .. N
    BY <1>1, <1>2
  <2>2. CASE n = 1
    <3>1. f[1] = TakeFront(c, Nothing, FirstFront(c))
      BY <1>1, <1>2, <2>1, <2>2
    <3>2. Rising(FirstFront(c)) /\ FirstFront(c) \in Seq(DOMAIN c) \ {<<>>}
      BY <1>1, <2>1, <2>2, FirstLayer
    <3>3. Led(1)
      BY <3>1, <3>2, TakeFirstFront
    <3> QED BY <2>1, <2>2, <3>3
  <2>3. CASE n # 1
    <3>1. Led(n - 1)
      BY <1>1, <1>4, <2>3
    <3>2. PICK more \in Seq(Design) : f[n].kept = f[n - 1].kept \o more
      <4>1. \E more \in Seq(Design) :
              TakeFront(c, f[n - 1], fronts[n]).kept = f[n - 1].kept \o more
        BY <2>1, TakeFrontTyped
      <4> QED BY <2>1, <4>1
    <3>3. f[n - 1].kept \in Seq(Design) /\ Len(f[n - 1].kept) \in Nat \ {0}
      BY <2>1, <3>1, EmptySeq DEF Selection
    <3>4. /\ f[n].kept \in Seq(Design)
          /\ Len(f[n].kept) = Len(f[n - 1].kept) + Len(more)
          /\ f[n].kept[1] = f[n - 1].kept[1]
      <4> DEFINE s == f[n - 1].kept
      <4>1. s \in Seq(Design) /\ Len(s) \in Nat \ {0} /\ Len(more) \in Nat
        BY <3>3, LenProperties
      <4> HIDE DEF s
      <4>2. /\ s \o more \in Seq(Design) /\ Len(s \o more) = Len(s) + Len(more)
            /\ \A i \in 1 .. Len(s) + Len(more) :
                   (s \o more)[i] = IF i <= Len(s) THEN s[i] ELSE more[i - Len(s)]
        BY <4>1, ConcatProperties
      <4>3. (s \o more)[1] = s[1]
        BY <4>1, <4>2
      <4> QED BY <3>2, <4>2, <4>3 DEF s
    <3>5. Len(more) \in Nat /\ Len(<<>>) = 0
      BY LenProperties
    <3>6. f[n].kept # <<>>
      BY <3>3, <3>4, <3>5
    <3>7. Led(n)
      BY <3>1, <3>4, <3>6
    <3> QED BY <2>1, <3>7
  <2> QED BY <2>2, <2>3
<1>5. N \in Nat /\ 0 \in Good /\ \A n \in 1 .. N : n - 1 \in Good => n \in Good
  BY <1>1, <1>3, <1>4
<1> HIDE DEF Good
<1>6. \A n \in 0 .. N : n \in Good
  BY <1>5, LoopInduction
<1>7. N \in Good /\ N \in 0 .. N /\ N # 0
  BY <1>1, <1>5, <1>6
<1>8. Led(N)
  BY <1>7 DEF Good
<1>9. PICK j \in ToSet(FirstFront(c)) : f[N].kept[1] = c[j]
  BY <1>8
<1>10. j \in Undominated(c, DOMAIN c)
  BY FirstLayer DEF Lists
<1> QED BY <1>2, <1>7, <1>8, <1>9, <1>10 DEF Undominated
=============================================================================
