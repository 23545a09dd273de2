----------------------------- MODULE Recursion -----------------------------
(* What proofs about recursive functions rest on: every set of numbers has a *)
(* least, and the equations of a function on 0..n, or on the nodes of a      *)
(* forest, have a solution.  Induction is by a least counterexample.         *)
EXTENDS Integers, Sequences, FiniteSets, FiniteSetTheorems, WellFoundedInduction, TLAPS

\* The least number of a set.
LEMMA LeastNat ==
  ASSUME NEW T \in SUBSET Nat, T # {}
  PROVE  \E x \in T : \A y \in T : x <= y
<1>1. IsWellFoundedOn(OpToRel(<, Nat), Nat)
  BY NatLessThanWellFounded
<1>2. PICK x \in T : \A y \in T : ~ (<<y, x>> \in OpToRel(<, Nat))
  BY <1>1, WFMin
<1>3. \A y \in T : ~(y < x)
  BY <1>2 DEF OpToRel
<1> QED BY <1>3

\* The equations of a recursive function on 0..n have a solution.
Iterates(A, a, step, n) ==
  \E g \in [0..n -> A] : g[0] = a /\ \A k \in 1..n : g[k] = step[k - 1][g[k - 1]]

LEMMA NatRecursion ==
  ASSUME NEW A, NEW a \in A, NEW step \in [Nat -> [A -> A]], NEW n \in Nat
  PROVE  Iterates(A, a, step, n)
<1> DEFINE Sol(m, g) == g[0] = a /\ \A k \in 1..m : g[k] = step[k - 1][g[k - 1]]
           T == {m \in Nat : ~ \E g \in [0..m -> A] : Sol(m, g)}
<1>1. ASSUME T # {} PROVE FALSE
  <2>1. PICK m \in T : \A y \in T : m <= y
    BY <1>1, LeastNat
  <2>2. m \in Nat /\ ~ \E g \in [0..m -> A] : Sol(m, g)
    BY <2>1
  <2>3. CASE m = 0
    <3> DEFINE g == [i \in 0..0 |-> a]
    <3>1. g \in [0..m -> A] /\ Sol(m, g)
      BY <2>3
    <3> QED BY <2>2, <3>1
  <2>4. CASE m > 0
    <3> HIDE DEF T
    <3>1. m - 1 \in Nat /\ m - 1 \notin T
      BY <2>1, <2>2, <2>4
    <3> USE DEF T
    <3>2. PICK g \in [0..(m - 1) -> A] : Sol(m - 1, g)
      BY <3>1
    <3> DEFINE h == [i \in 0..m |-> IF i = m THEN step[m - 1][g[m - 1]] ELSE g[i]]
    <3>3. m - 1 \in 0..(m - 1) /\ g[m - 1] \in A /\ step[m - 1] \in [A -> A]
      BY <2>2, <3>1, <3>2
    <3>4. h \in [0..m -> A]
      BY <2>2, <3>2, <3>3
    <3>5. h[0] = a /\ \A k \in 1..m : h[k] = step[k - 1][h[k - 1]]
      <4>1. h[0] = a
        BY <2>2, <2>4, <3>2
      <4>2. ASSUME NEW k \in 1..m PROVE h[k] = step[k - 1][h[k - 1]]
        <5>1. h[k - 1] = g[k - 1]
          BY <2>2
        <5>2. CASE k = m
          BY <2>2, <5>1, <5>2
        <5>3. CASE k # m
          <6>1. k \in 1..(m - 1) /\ h[k] = g[k]
            BY <2>2, <5>3
          <6> QED BY <3>2, <5>1, <6>1
        <5> QED BY <5>2, <5>3
      <4> QED BY <4>1, <4>2
    <3> QED BY <2>2, <3>4, <3>5
  <2> QED BY <2>2, <2>3, <2>4
<1>2. n \notin T
  BY <1>1
<1> QED BY <1>2 DEF Iterates

\* The equations of a recursive function along parent have a solution.
Solvable(N, none, parent, S, base, step) ==
  \E F \in [N -> S] :
    \A x \in N : F[x] = IF parent[x] = none THEN base[x] ELSE step[x][F[parent[x]]]

LEMMA TreeRecursion ==
  ASSUME NEW N, NEW none, none \notin N, NEW parent \in [N -> N \cup {none}],
         \A X \in SUBSET N : X # {} => \E x \in X : parent[x] \notin X,
         NEW S, NEW base \in [N -> S], NEW step \in [N -> [S -> S]]
  PROVE  Solvable(N, none, parent, S, base, step)
<1> DEFINE Eq(f, x) == f[x] = IF parent[x] = none THEN base[x] ELSE step[x][f[parent[x]]]
           Sol(X, f) == \A x \in X : parent[x] \in X \cup {none} /\ Eq(f, x)
           Val(x, v) == \E X \in SUBSET N : \E f \in [X -> S] : Sol(X, f) /\ x \in X /\ v = f[x]
\* Two solutions agree.
<1>1. ASSUME NEW X \in SUBSET N, NEW f, Sol(X, f), NEW Y \in SUBSET N, NEW g, Sol(Y, g),
             NEW x \in X \cap Y
      PROVE  f[x] = g[x]
  <2> DEFINE D == {z \in X \cap Y : f[z] # g[z]}
  <2>1. ASSUME D # {} PROVE FALSE
    <3>1. PICK z \in D : parent[z] \notin D
      BY <2>1
    <3>2. z \in X /\ z \in Y /\ Eq(f, z) /\ Eq(g, z) /\ f[z] # g[z]
      BY <1>1, <3>1
    <3>3. parent[z] # none
      BY <3>2
    <3>4. parent[z] \in X \cap Y /\ f[parent[z]] = g[parent[z]]
      BY <1>1, <3>1, <3>2, <3>3
    <3> QED BY <3>2, <3>4
  <2> QED BY <2>1
\* There is one at every node.
<1>2. ASSUME NEW x \in N PROVE \E v \in S : Val(x, v)
  <2> DEFINE D == {z \in N : ~ \E v \in S : Val(z, v)}
  <2>1. ASSUME D # {} PROVE FALSE
    <3>1. PICK z \in D : parent[z] \notin D
      BY <2>1
    <3>2. z \in N /\ ~ \E v \in S : Val(z, v)
      BY <3>1
    <3>3. CASE parent[z] = none
      <4> DEFINE f == [y \in {z} |-> base[z]]
      <4>1. {z} \in SUBSET N /\ f \in [{z} -> S] /\ Sol({z}, f) /\ f[z] \in S
        BY <3>2, <3>3
      <4>2. Val(z, f[z])
        BY <4>1, z \in {z}
      <4> QED BY <3>2, <4>1, <4>2
    <3>4. CASE parent[z] # none
      <4>1. parent[z] \in N /\ \E v \in S : Val(parent[z], v)
        BY <3>1, <3>2, <3>4
      <4>2. PICK X \in SUBSET N : \E f \in [X -> S] : Sol(X, f) /\ parent[z] \in X
        BY <4>1
      <4>3. PICK f \in [X -> S] : Sol(X, f) /\ parent[z] \in X
        BY <4>2
      <4> DEFINE Y == X \cup {z}
                 new == step[z][f[parent[z]]]
                 g == [y \in Y |-> IF y \in X THEN f[y] ELSE new]
      <4>4. new \in S
        BY <3>2, <4>3
      <4>5. g \in [Y -> S] /\ Y \in SUBSET N /\ z \in Y /\ g[z] \in S
        BY <3>2, <4>3, <4>4
      <4>6. ASSUME NEW y \in Y PROVE parent[y] \in Y \cup {none} /\ Eq(g, y)
        <5>1. CASE y \in X
          <6>1. parent[y] \in X \cup {none} /\ Eq(f, y) /\ g[y] = f[y]
            BY <4>3, <5>1
          <6>2. parent[y] # none => g[parent[y]] = f[parent[y]]
            BY <6>1
          <6> QED BY <6>1, <6>2
        <5>2. CASE y \notin X
          <6>1. y = z /\ g[y] = new /\ g[parent[z]] = f[parent[z]]
            BY <4>3, <5>2
          <6> QED BY <3>4, <4>3, <6>1
        <5> QED BY <5>1, <5>2
      <4>7. Sol(Y, g)
        BY <4>6
      <4>8. Val(z, g[z])
        BY <4>5, <4>7
      <4> QED BY <3>2, <4>5, <4>8
    <3> QED BY <3>3, <3>4
  <2> QED BY <2>1
<1> DEFINE F == [x \in N |-> CHOOSE v \in S : Val(x, v)]
<1>3. ASSUME NEW x \in N PROVE F[x] \in S /\ Val(x, F[x])
  BY <1>2
<1> HIDE DEF F
<1>4. ASSUME NEW X \in SUBSET N, NEW f \in [X -> S], Sol(X, f), NEW x \in X
      PROVE  F[x] = f[x]
  <2>1. PICK Y \in SUBSET N : \E g \in [Y -> S] : Sol(Y, g) /\ x \in Y /\ F[x] = g[x]
    <3> HIDE DEF Sol
    <3> QED BY <1>3
  <2>2. PICK g \in [Y -> S] : Sol(Y, g) /\ x \in Y /\ F[x] = g[x]
    BY <2>1
  <2>3. f[x] = g[x]
    <3> HIDE DEF Sol
    <3> QED BY <1>1, <1>4, <2>2
  <2> QED BY <2>2, <2>3
<1>5. ASSUME NEW x \in N PROVE Eq(F, x)
  <2>1. PICK X \in SUBSET N : \E f \in [X -> S] : Sol(X, f) /\ x \in X
    <3> HIDE DEF Sol
    <3> QED BY <1>3
  <2>2. PICK f \in [X -> S] : Sol(X, f) /\ x \in X
    BY <2>1
  <2>3. parent[x] # none => parent[x] \in X
    BY <2>2
  <2>4. F[x] = f[x] /\ (parent[x] # none => F[parent[x]] = f[parent[x]])
    <3> HIDE DEF Sol
    <3> QED BY <1>4, <2>2, <2>3
  <2> QED BY <2>2, <2>4
<1>6. F \in [N -> S]
  BY <1>3 DEF F
<1> QED BY <1>5, <1>6 DEF Solvable

\* The sum of f over the subsets of 1..n: any element may be taken first.
Summed(n, f, G) ==
  /\ G \in [SUBSET (1..n) -> Nat]
  /\ G[{}] = 0
  /\ \A S \in SUBSET (1..n) : \A x \in S : G[S] = f[x] + G[S \ {x}]

LEMMA SumExists ==
  ASSUME NEW n \in Nat, NEW f \in [1..n -> Nat]
  PROVE  \E G : Summed(n, f, G)
<1> DEFINE A == [SUBSET (1..n) -> Nat]
           a == [S \in SUBSET (1..n) |-> 0]
           val(k, S) == IF k + 1 \in S THEN f[k + 1] ELSE 0
           step == [k \in Nat |-> [g \in A |-> [S \in SUBSET (1..n) |-> g[S] + val(k, S)]]]
<1>1. a \in A
  OBVIOUS
<1>2. ASSUME NEW k \in Nat, NEW S \in SUBSET (1..n) PROVE val(k, S) \in Nat
  BY <1>2
<1> HIDE DEF val
<1>3. ASSUME NEW k \in Nat, NEW g \in A
      PROVE  [S \in SUBSET (1..n) |-> g[S] + val(k, S)] \in A
  BY <1>2, <1>3
<1>4. step \in [Nat -> [A -> A]]
  BY <1>3
<1>5. Iterates(A, a, step, n)
  <2> HIDE DEF A, a, step
  <2> QED BY <1>1, <1>4, NatRecursion
<1>6. PICK P \in [0..n -> A] : P[0] = a /\ \A k \in 1..n : P[k] = step[k - 1][P[k - 1]]
  <2> HIDE DEF A, a, step
  <2> QED BY <1>5 DEF Iterates
<1>7. ASSUME NEW k \in 1..n, NEW S \in SUBSET (1..n)
      PROVE  P[k][S] = P[k - 1][S] + val(k - 1, S)
  <2>1. k - 1 \in Nat /\ k - 1 \in 0..n /\ P[k - 1] \in A
    BY <1>6
  <2>2. P[k] = [T \in SUBSET (1..n) |-> P[k - 1][T] + val(k - 1, T)]
    BY <1>6, <2>1
  <2> QED BY <2>2
<1>8. ASSUME NEW k \in 0..n, NEW S \in SUBSET (1..n) PROVE P[k][S] \in Nat
  BY <1>6, P[k] \in A
<1>9. ASSUME NEW S \in SUBSET (1..n), NEW x \in S
      PROVE  \A k \in 0..n : P[k][S] = P[k][S \ {x}] + (IF k >= x THEN f[x] ELSE 0)
  <2> DEFINE due(k) == IF k >= x THEN f[x] ELSE 0
             T == {k \in 0..n : P[k][S] # P[k][S \ {x}] + due(k)}
  <2>1. x \in 1..n /\ f[x] \in Nat /\ S \ {x} \in SUBSET (1..n)
    OBVIOUS
  <2>2. ASSUME T # {} PROVE FALSE
    <3>1. T \in SUBSET Nat
      OBVIOUS
    <3>2. PICK k \in T : \A y \in T : k <= y
      BY <2>2, <3>1, LeastNat
    <3>3. k \in 0..n /\ P[k][S] # P[k][S \ {x}] + due(k)
      BY <3>2
    <3>4. k # 0
      <4>1. ASSUME k = 0 PROVE FALSE
        <5>1. P[0][S] = 0 /\ P[0][S \ {x}] = 0
          BY <1>6, <2>1
        <5> QED BY <3>3, <4>1, <5>1, <2>1
      <4> QED BY <4>1
    <3>5. k \in 1..n /\ k - 1 \in 0..n /\ k - 1 \in Nat
      BY <3>3, <3>4
    <3>6. k - 1 \notin T
      <4> HIDE DEF T
      <4> QED BY <3>2, <3>5
    <3>7. P[k - 1][S] = P[k - 1][S \ {x}] + due(k - 1)
      BY <3>5, <3>6
    <3>8. /\ P[k][S] = P[k - 1][S] + val(k - 1, S)
          /\ P[k][S \ {x}] = P[k - 1][S \ {x}] + val(k - 1, S \ {x})
      BY <1>7, <3>5, <2>1
    <3>9. /\ P[k - 1][S \ {x}] \in Nat /\ val(k - 1, S \ {x}) \in Nat
      BY <1>8, <1>2, <3>5, <2>1
    <3>10. due(k - 1) + val(k - 1, S) = val(k - 1, S \ {x}) + due(k)
      BY <2>1, <3>5 DEF val
    <3>11. due(k - 1) \in Nat /\ due(k) \in Nat /\ val(k - 1, S) \in Nat
      BY <2>1, <3>5, <1>2
    <3> HIDE DEF due, T
    <3>12. ASSUME NEW A1 \in Nat, NEW D1 \in Nat, NEW V \in Nat, NEW W \in Nat, NEW D \in Nat,
                  D1 + V = W + D
           PROVE  (A1 + D1) + V = (A1 + W) + D
      BY <3>12
    <3>13. P[k][S] = (P[k - 1][S \ {x}] + due(k - 1)) + val(k - 1, S)
      BY <3>7, <3>8
    <3>14. P[k][S] = P[k][S \ {x}] + due(k)
      BY <3>8, <3>9, <3>10, <3>11, <3>12, <3>13
    <3> QED BY <3>3, <3>14
  <2> QED BY <2>2
<1>10. \A k \in 0..n : P[k][{}] = 0
  <2> DEFINE T == {k \in 0..n : P[k][{}] # 0}
  <2>1. ASSUME T # {} PROVE FALSE
    <3>1. T \in SUBSET Nat
      OBVIOUS
    <3>2. PICK k \in T : \A y \in T : k <= y
      BY <2>1, <3>1, LeastNat
    <3>3. k \in 0..n /\ P[k][{}] # 0
      BY <3>2
    <3>4. P[0][{}] = 0
      BY <1>6
    <3>5. k \in 1..n /\ k - 1 \in 0..n /\ k - 1 \in Nat
      BY <3>3, <3>4
    <3>6. P[k - 1][{}] = 0
      BY <3>2, <3>5
    <3>7. P[k][{}] = P[k - 1][{}] + val(k - 1, {})
      BY <1>7, <3>5
    <3>8. val(k - 1, {}) = 0
      BY DEF val
    <3> QED BY <3>3, <3>6, <3>7, <3>8
  <2> QED BY <2>1
<1>11. P[n] \in [SUBSET (1..n) -> Nat]
  BY <1>6
<1>12. n \in 0..n /\ \A S \in SUBSET (1..n) : \A x \in S : n >= x /\ f[x] \in Nat /\ P[n][S \ {x}] \in Nat
  BY <1>8
<1>13. \A S \in SUBSET (1..n) : \A x \in S : P[n][S] = f[x] + P[n][S \ {x}]
  <2> SUFFICES ASSUME NEW S \in SUBSET (1..n), NEW x \in S
               PROVE  P[n][S] = f[x] + P[n][S \ {x}]
    OBVIOUS
  <2>1. \A k \in 0..n : P[k][S] = P[k][S \ {x}] + (IF k >= x THEN f[x] ELSE 0)
    BY <1>9
  <2>2. n \in 0..n /\ n >= x /\ f[x] \in Nat /\ P[n][S \ {x}] \in Nat
    BY <1>12
  <2>3. P[n][S] = P[n][S \ {x}] + f[x]
    BY <2>1, <2>2
  <2> QED BY <2>2, <2>3
<1>14. Summed(n, f, P[n])
  BY <1>10, <1>11, <1>12, <1>13 DEF Summed
<1> QED BY <1>14

\* The sum is the one that a fold over B computes, whichever elements it
\* chooses.
SumFold(f, B, g) ==
  g = [S \in SUBSET B |-> IF S = {} THEN 0
                          ELSE f[CHOOSE x \in S : TRUE]
                                 + g[S \ {CHOOSE x \in S : TRUE}]]

LEMMA SumFolds ==
  ASSUME NEW n \in Nat, NEW f \in [1..n -> Nat], NEW G, Summed(n, f, G),
         NEW B \in SUBSET (1..n), NEW g, SumFold(f, B, g)
  PROVE  g[B] = G[B]
<1> DEFINE some(S) == CHOOSE x \in S : TRUE
           T == {k \in Nat : \E S \in SUBSET B : Cardinality(S) = k /\ g[S] # G[S]}
<1>1. ASSUME T # {} PROVE FALSE
  <2>1. T \in SUBSET Nat
    OBVIOUS
  <2>2. PICK k \in T : \A y \in T : k <= y
    <3> HIDE DEF T
    <3> QED BY <1>1, <2>1, LeastNat
  <2>3. PICK S \in SUBSET B : Cardinality(S) = k /\ g[S] # G[S]
    BY <2>2
  <2>4. S # {}
    BY <2>3 DEF Summed, SumFold
  <2>5. some(S) \in S
    BY <2>4
  <2> DEFINE R == S \ {some(S)}
  <2>6. g[S] = f[some(S)] + g[R]
    BY <2>4 DEF SumFold
  <2>7. G[S] = f[some(S)] + G[R]
    BY <2>5 DEF Summed
  <2>8. IsFiniteSet(S)
    <3>1. IsFiniteSet(1..n)
      BY FS_Interval
    <3> QED BY <3>1, FS_Subset
  <2>9. Cardinality(S) \in Nat /\ Cardinality(R) = Cardinality(S) - 1 /\ Cardinality(R) \in Nat
    <3> HIDE DEF some
    <3> QED BY <2>5, <2>8, FS_CardinalityType, FS_RemoveElement
  <2>10. R \in SUBSET B
    OBVIOUS
  <2>11. Cardinality(R) \notin T
    <3> HIDE DEF T, R
    <3> QED BY <2>1, <2>2, <2>3, <2>9
  <2>12. g[R] = G[R]
    <3> HIDE DEF R
    <3> QED BY <2>9, <2>10, <2>11
  <2> QED BY <2>3, <2>6, <2>7, <2>12
<1>2. ASSUME g[B] # G[B] PROVE FALSE
  <2>1. IsFiniteSet(B)
    <3>1. IsFiniteSet(1..n)
      BY FS_Interval
    <3> QED BY <3>1, FS_Subset
  <2>2. Cardinality(B) \in T
    BY <1>2, <2>1, FS_CardinalityType
  <2> QED BY <1>1, <2>2
<1> QED BY <1>2

LEMMA SumMonotone ==
  ASSUME NEW n \in Nat, NEW f \in [1..n -> Nat], NEW G, Summed(n, f, G),
         NEW B \in SUBSET (1..n), NEW S \in SUBSET B
  PROVE  G[S] <= G[B]
<1> DEFINE T == {k \in Nat : \E R \in SUBSET B :
                   S \subseteq R /\ Cardinality(R) = k /\ ~(G[S] <= G[R])}
<1>1. \A R \in SUBSET (1..n) : G[R] \in Nat /\ IsFiniteSet(R)
  <2>1. IsFiniteSet(1..n)
    BY FS_Interval
  <2> QED BY <2>1, FS_Subset DEF Summed
<1>2. ASSUME T # {} PROVE FALSE
  <2>1. T \in SUBSET Nat
    OBVIOUS
  <2>2. PICK k \in T : \A y \in T : k <= y
    <3> HIDE DEF T
    <3> QED BY <1>2, <2>1, LeastNat
  <2>3. PICK R \in SUBSET B : S \subseteq R /\ Cardinality(R) = k /\ ~(G[S] <= G[R])
    BY <2>2
  <2>4. PICK x \in R : x \notin S
    <3>1. S # R
      BY <2>3, <1>1
    <3> QED BY <3>1, <2>3
  <2>5. G[R] = f[x] + G[R \ {x}] /\ f[x] \in Nat /\ G[R \ {x}] \in Nat /\ G[S] \in Nat
    BY <1>1 DEF Summed
  <2>6. Cardinality(R \ {x}) = Cardinality(R) - 1 /\ Cardinality(R \ {x}) \in Nat
    BY <1>1, FS_RemoveElement, FS_CardinalityType
  <2>7. Cardinality(R \ {x}) \notin T
    <3> HIDE DEF T
    <3> QED BY <2>1, <2>2, <2>3, <2>6
  <2>8. R \ {x} \in SUBSET B /\ S \subseteq R \ {x}
    BY <2>3, <2>4
  <2>9. G[S] <= G[R \ {x}]
    BY <2>6, <2>7, <2>8
  <2> QED BY <2>3, <2>5, <2>9
<1>3. ASSUME ~(G[S] <= G[B]) PROVE FALSE
  <2>1. Cardinality(B) \in T
    BY <1>1, <1>3, FS_CardinalityType
  <2> QED BY <1>2, <2>1
<1> QED BY <1>3
==============================================================================
