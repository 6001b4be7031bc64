---------------------------- MODULE LoopTheorems ----------------------------
(***************************************************************************)
(* Facts about loops written as recursive functions on 0 .. N, where the   *)
(* body of the loop is given as a sequence of functions on the values the  *)
(* loop works on.                                                          *)
(***************************************************************************)
EXTENDS Integers, WellFoundedInduction, TLAPS

\* Induction over the turns of a loop.
LEMMA LoopInduction ==
  ASSUME NEW N \in Nat, NEW S, 0 \in S, \A n \in 1 .. N : n - 1 \in S => n \in S
  PROVE  \A n \in 0 .. N : n \in S
<1> SUFFICES ASSUME NEW m \in 0 .. N, m \notin S PROVE FALSE
  OBVIOUS
<1> DEFINE Bad == {n \in 0 .. N : n \notin S}
<1>1. Bad \subseteq Nat /\ Bad # {}
  OBVIOUS
<1>2. PICK n \in Bad : \A k \in Bad : ~ (<<k, n>> \in OpToRel(<, Nat))
  BY <1>1, NatLessThanWellFounded, WFMin
<1>3. \A k \in Bad : ~ (k < n)
  BY <1>1, <1>2 DEF OpToRel
<1>4. n # 0 /\ n \in 1 .. N
  OBVIOUS
<1>5. n - 1 \in 0 .. N /\ n - 1 < n
  BY <1>4
<1>6. n - 1 \in S
  BY <1>3, <1>5
<1> QED BY <1>4, <1>6

\* A loop of N turns over the values T, from a, the n-th turn by D[n].
IsLoop(T, a, N, D) == a \in T /\ N \in Nat /\ D \in [1 .. N -> [T -> T]]

\* A loop can be run to its end.
LEMMA LoopExists ==
  ASSUME NEW T, NEW a, NEW N, NEW D, IsLoop(T, a, N, D)
  PROVE  \E loop \in [0 .. N -> T] :
           loop[0] = a /\ \A i \in 1 .. N : loop[i] = D[i][loop[i - 1]]
<1> USE DEF IsLoop
<1> DEFINE Prefix(m, g) == /\ g \in [0 .. m -> T] /\ g[0] = a
                           /\ \A n \in 1 .. m : g[n] = D[n][g[n - 1]]
           S == {m \in 0 .. N : \E g \in [0 .. m -> T] : Prefix(m, g)}
<1>1. 0 \in S
  <2>1. [i \in 0 .. 0 |-> a] \in [0 .. 0 -> T]
    OBVIOUS
  <2>2. Prefix(0, [i \in 0 .. 0 |-> a])
    BY <2>1
  <2> HIDE DEF Prefix
  <2> QED BY <2>1, <2>2
<1>2. ASSUME NEW m \in 1 .. N, m - 1 \in S PROVE m \in S
  <2>1. PICK g \in [0 .. m - 1 -> T] : Prefix(m - 1, g)
    BY <1>2
  <2> DEFINE h == [i \in 0 .. m |-> IF i = m THEN D[m][g[m - 1]] ELSE g[i]]
  <2>2. m - 1 \in 0 .. m - 1 /\ D[m][g[m - 1]] \in T
    OBVIOUS
  <2>3. h \in [0 .. m -> T]
    BY <2>2
  <2>4. h[0] = a
    BY <2>1
  <2>5. ASSUME NEW n \in 1 .. m PROVE h[n] = D[n][h[n - 1]]
    <3>1. n - 1 \in 0 .. m - 1 /\ h[n - 1] = g[n - 1]
      OBVIOUS
    <3>2. CASE n = m
      BY <3>1, <3>2
    <3>3. CASE n # m
      BY <2>1, <3>1, <3>3
    <3> QED BY <3>2, <3>3
  <2>6. Prefix(m, h)
    BY <2>3, <2>4, <2>5
  <2> HIDE DEF Prefix, h
  <2> QED BY <2>3, <2>6
<1> HIDE DEF S
<1>3. \A m \in 0 .. N : m \in S
  BY <1>1, <1>2, LoopInduction
<1>4. N \in S
  BY <1>3
<1> QED BY <1>4 DEF S
=============================================================================
