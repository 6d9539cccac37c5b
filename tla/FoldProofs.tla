----------------------------- MODULE FoldProofs -----------------------------
(***************************************************************************)
(* Lemmas about loops and sums, which the other proofs share.  A loop of   *)
(* the code is a recursive function over the rounds made; what holds in    *)
(* every round is shown by the least counterexample.  A sum over the       *)
(* values of a function is the community modules' SumFunction.             *)
(***************************************************************************)
EXTENDS Integers, Functions, FiniteSetTheorems, WellFoundedInduction, TLAPS

(* The least element of a set of naturals.                                 *)
LEMMA LeastNat ==
    ASSUME NEW T, T \subseteq Nat, T # {}
    PROVE  \E m \in T : \A k \in T : m <= k
<1>1. PICK m \in T : \A k \in T : <<k, m>> \notin OpToRel(<, Nat)
  BY WFMin, NatLessThanWellFounded, Zenon
<1>2. \A k \in T : ~(k < m)
  BY <1>1, Zenon DEF OpToRel
<1> QED
  BY <1>2

(* A loop that stays in X as long as it was there stays in X.              *)
LEMMA LoopStays ==
    ASSUME NEW X, NEW N \in Nat, NEW f, f[0] \in X,
           \A n \in 1..N : f[n - 1] \in X => f[n] \in X
    PROVE  f[N] \in X
<1> DEFINE T == {n \in 0..N : f[n] \notin X}
<1>1. ASSUME T # {} PROVE FALSE
  <2>1. T \subseteq Nat
    OBVIOUS
  <2> HIDE DEF T
  <2>2. PICK m \in T : \A k \in T : m <= k
    BY <1>1, <2>1, LeastNat
  <2>3. m \in 0..N /\ f[m] \notin X
    BY DEF T
  <2>4. m \in 1..N /\ m - 1 \in 0..N
    BY <2>3
  <2>5. f[m - 1] \notin X
    BY <2>3, <2>4
  <2>6. m - 1 \in T
    BY <2>4, <2>5 DEF T
  <2> QED
    BY <2>2, <2>3, <2>6
<1>2. N \in 0..N
  OBVIOUS
<1> QED
  BY <1>1, <1>2

(* A loop over 1..N with a total step runs to its end.                     *)
LEMMA LoopRuns ==
    ASSUME NEW X, NEW x \in X, NEW N \in Nat, NEW step \in [1..N -> [X -> X]]
    PROVE  \E g \in [0..N -> X] :
              g[0] = x /\ \A n \in 1..N : g[n] = step[n][g[n - 1]]
<1> DEFINE Runs(m) == \E g \in [0..m -> X] :
                         g[0] = x /\ \A n \in 1..m : g[n] = step[n][g[n - 1]]
           T == {m \in 0..N : ~Runs(m)}
<1>1. Runs(0)
  <2> DEFINE g == [n \in 0..0 |-> x]
  <2>1. g \in [0..0 -> X] /\ g[0] = x /\ \A n \in 1..0 : FALSE
    OBVIOUS
  <2> HIDE DEF g
  <2> QED
    BY <2>1
<1>2. ASSUME NEW m \in 1..N, Runs(m - 1)
      PROVE  Runs(m)
  <2>1. PICK g \in [0..(m - 1) -> X] :
            g[0] = x /\ \A n \in 1..(m - 1) : g[n] = step[n][g[n - 1]]
    BY <1>2
  <2>2. m - 1 \in 0..(m - 1) /\ g[m - 1] \in X
    BY <2>1
  <2>3. step[m][g[m - 1]] \in X
    BY <2>2
  <2> DEFINE h == [n \in 0..m |-> IF n = m THEN step[m][g[m - 1]] ELSE g[n]]
  <2>4. \A n \in 0..m : n # m => n \in 0..(m - 1)
    OBVIOUS
  <2>5. h \in [0..m -> X]
    BY <2>1, <2>3, <2>4
  <2>6. h[0] = x /\ h[m] = step[m][g[m - 1]]
    BY <2>1
  <2>7. \A n \in 0..(m - 1) : h[n] = g[n]
    OBVIOUS
  <2> HIDE DEF h
  <2>8. ASSUME NEW n \in 1..m
        PROVE  h[n] = step[n][h[n - 1]]
    <3>1. n - 1 \in 0..(m - 1) /\ h[n - 1] = g[n - 1]
      BY <2>7
    <3>2. CASE n = m
      BY <2>6, <3>1, <3>2
    <3>3. CASE n # m
      BY <2>1, <2>7, <3>1, <3>3
    <3> QED
      BY <3>2, <3>3
  <2> QED
    BY <2>5, <2>6, <2>8
<1> HIDE DEF Runs
<1>3. ASSUME T # {} PROVE FALSE
  <2>1. T \subseteq Nat
    OBVIOUS
  <2> HIDE DEF T
  <2>2. PICK m \in T : \A k \in T : m <= k
    BY <1>3, <2>1, LeastNat
  <2>3. m \in 0..N /\ ~Runs(m)
    BY DEF T
  <2>4. m \in 1..N /\ m - 1 \in 0..N
    BY <1>1, <2>3
  <2>5. m - 1 \in T
    BY <1>2, <2>3, <2>4 DEF T
  <2> QED
    BY <2>2, <2>3, <2>5
<1>4. Runs(N)
  BY <1>3
<1> QED
  BY <1>4 DEF Runs
-----------------------------------------------------------------------------
(* Sums.                                                                   *)

Chosen(s) == CHOOSE x \in s : TRUE

(* g adds up the values of f on every set of them.                         *)
AddsUp(g, f) ==
    g = [s \in SUBSET DOMAIN f |->
            IF s = {} THEN 0 ELSE f[Chosen(s)] + g[s \ {Chosen(s)}]]

(* A part without its chosen element.                                      *)
LEMMA Smaller ==
    ASSUME NEW S, IsFiniteSet(S), NEW s \in SUBSET S, s # {}
    PROVE  /\ Chosen(s) \in s /\ Chosen(s) \in S
           /\ s \ {Chosen(s)} \in SUBSET S
           /\ Cardinality(s) \in Nat /\ Cardinality(s) <= Cardinality(S)
           /\ Cardinality(s \ {Chosen(s)}) = Cardinality(s) - 1
           /\ Cardinality(s \ {Chosen(s)}) \in Nat
<1>1. Chosen(s) \in s
  BY DEF Chosen
<1>2. IsFiniteSet(s) /\ Cardinality(s) <= Cardinality(S)
  BY FS_Subset
<1>3. Cardinality(s \ {Chosen(s)}) = Cardinality(s) - 1 /\ IsFiniteSet(s \ {Chosen(s)})
  BY <1>1, <1>2, FS_RemoveElement
<1> QED
  BY <1>1, <1>2, <1>3, FS_CardinalityType

(* Rounds of adding one value to every partial sum settle after as many    *)
(* as there are values.                                                    *)
LEMMA SumExists ==
    ASSUME NEW S, IsFiniteSet(S), NEW f \in [S -> Int]
    PROVE  \E g : AddsUp(g, f)
<1> DEFINE N == Cardinality(S)
           X == [SUBSET S -> Int]
           zero == [s \in SUBSET S |-> 0]
           Round(q) == [s \in SUBSET S |->
                           IF s = {} THEN 0 ELSE f[Chosen(s)] + q[s \ {Chosen(s)}]]
           step == [n \in 1..(N + 1) |-> [q \in X |-> Round(q)]]
<1>1. N \in Nat /\ N + 1 \in Nat
  BY FS_CardinalityType
<1>2. zero \in X
  OBVIOUS
<1>3. \A q \in X : Round(q) \in X
  <2> SUFFICES ASSUME NEW q \in X, NEW s \in SUBSET S, s # {}
               PROVE  f[Chosen(s)] + q[s \ {Chosen(s)}] \in Int
    OBVIOUS
  <2>1. Chosen(s) \in S /\ s \ {Chosen(s)} \in SUBSET S
    BY Smaller
  <2> QED
    BY <2>1
<1> HIDE DEF X, N, zero
<1>4. step \in [1..(N + 1) -> [X -> X]]
  BY <1>3
<1>5. \A n \in 1..(N + 1) : \A q \in X : step[n][q] = Round(q)
  OBVIOUS
<1> HIDE DEF step
<1>6. PICK g \in [0..(N + 1) -> X] :
          g[0] = zero /\ \A n \in 1..(N + 1) : g[n] = step[n][g[n - 1]]
  <2> DEFINE M == N + 1
  <2>1. M \in Nat /\ step \in [1..M -> [X -> X]]
    BY <1>1, <1>4
  <2> HIDE DEF M
  <2>2. \E g \in [0..M -> X] : g[0] = zero /\ \A n \in 1..M : g[n] = step[n][g[n - 1]]
    BY <1>2, <2>1, LoopRuns
  <2> QED
    BY <2>2 DEF M
<1>7. \A n \in 1..(N + 1) : g[n] = Round(g[n - 1]) /\ n - 1 \in 0..(N + 1)
  <2> SUFFICES ASSUME NEW n \in 1..(N + 1)
               PROVE  g[n] = Round(g[n - 1]) /\ n - 1 \in 0..(N + 1)
    OBVIOUS
  <2> HIDE DEF Round
  <2>1. n - 1 \in 0..(N + 1)
    BY <1>1
  <2>2. g[n - 1] \in X
    BY <1>6, <2>1
  <2> QED
    BY <1>5, <1>6, <2>1, <2>2
<1> HIDE DEF Round
<1> DEFINE Settled(n) == \A s \in SUBSET S : Cardinality(s) <= n => g[n + 1][s] = g[n][s]
           T == {n \in 0..N : ~Settled(n)}
<1>8. \A q \in X : \A s \in SUBSET S :
          Round(q)[s] = IF s = {} THEN 0 ELSE f[Chosen(s)] + q[s \ {Chosen(s)}]
  BY DEF Round
<1>9. \A s \in SUBSET S : zero[s] = 0
  BY DEF zero
<1>10. Settled(0)
  <2> SUFFICES ASSUME NEW s \in SUBSET S, Cardinality(s) <= 0
               PROVE  g[1][s] = g[0][s]
    OBVIOUS
  <2>1. s = {}
    <3>1. IsFiniteSet(s)
      BY FS_Subset
    <3> QED
      BY <3>1, FS_CardinalityType, FS_EmptySet
  <2>2. 1 \in 1..(N + 1) /\ g[1] = Round(g[0]) /\ g[0] \in X
    BY <1>1, <1>6, <1>7
  <2> QED
    <3>1. g[1][s] = 0
      BY <1>8, <2>1, <2>2
    <3>2. g[0][s] = 0
      BY <1>6, <1>9
    <3> QED
      BY <3>1, <3>2
<1>11. ASSUME NEW n \in 1..N, Settled(n - 1)
       PROVE  Settled(n)
  <2> SUFFICES ASSUME NEW s \in SUBSET S, Cardinality(s) <= n
               PROVE  g[n + 1][s] = g[n][s]
    OBVIOUS
  <2>1. /\ n + 1 \in 1..(N + 1) /\ (n + 1) - 1 = n /\ n \in 1..(N + 1)
        /\ g[n] \in X /\ g[n - 1] \in X
    BY <1>1, <1>6
  <2>2. g[n + 1] = Round(g[n]) /\ g[n] = Round(g[n - 1])
    BY <1>7, <2>1
  <2>3. CASE s = {}
    BY <1>8, <2>1, <2>2, <2>3
  <2>4. CASE s # {}
    <3> DEFINE r == s \ {Chosen(s)}
    <3>1. r \in SUBSET S /\ Cardinality(r) <= n - 1
      BY <2>4, Smaller
    <3>2. g[(n - 1) + 1][r] = g[n - 1][r] /\ (n - 1) + 1 = n
      BY <1>11, <3>1
    <3>3. g[n][r] = g[n - 1][r]
      BY <3>2
    <3> HIDE DEF r
    <3>4. /\ g[n + 1][s] = f[Chosen(s)] + g[n][r]
          /\ g[n][s] = f[Chosen(s)] + g[n - 1][r]
      BY <1>8, <2>1, <2>2, <2>4 DEF r
    <3> QED
      BY <3>3, <3>4
  <2> QED
    BY <2>3, <2>4
<1> HIDE DEF Settled
<1>12. ASSUME T # {} PROVE FALSE
  <2>1. T \subseteq Nat
    OBVIOUS
  <2> HIDE DEF T
  <2>2. PICK m \in T : \A k \in T : m <= k
    BY <1>12, <2>1, LeastNat
  <2>3. m \in 0..N /\ ~Settled(m)
    BY DEF T
  <2>4. m \in 1..N /\ m - 1 \in 0..N
    <3>1. m # 0
      BY <1>10, <2>3
    <3> QED
      BY <1>1, <2>3, <3>1
  <2>5. m - 1 \in T
    BY <1>11, <2>3, <2>4 DEF T
  <2> QED
    BY <2>2, <2>3, <2>5
<1>13. Settled(N)
  BY <1>1, <1>12
<1>14. \A s \in SUBSET S : g[N + 1][s] = g[N][s]
  <2>1. \A s \in SUBSET S : Cardinality(s) <= N
    BY FS_Subset DEF N
  <2> QED
    BY <1>13, <2>1 DEF Settled
<1>15. /\ N + 1 \in 1..(N + 1) /\ (N + 1) - 1 = N
       /\ g[N + 1] \in X /\ g[N] \in X
  BY <1>1, <1>6
<1>16. g[N + 1] = g[N]
  BY <1>14, <1>15 DEF X
<1>17. g[N] = Round(g[N])
  BY <1>7, <1>15, <1>16
<1> DEFINE h == g[N]
<1>18. h = Round(h)
  BY <1>17
<1> HIDE DEF h
<1>19. DOMAIN f = S
  OBVIOUS
<1>20. AddsUp(h, f)
  BY <1>18, <1>19 DEF AddsUp, Round
<1> QED
  BY <1>20

LEMMA SumUnfolds ==
    ASSUME NEW S, IsFiniteSet(S), NEW f \in [S -> Int]
    PROVE  \E g : AddsUp(g, f) /\ SumFunction(f) = g[S]
<1> DEFINE it == CHOOSE g :
                    g = [s \in SUBSET DOMAIN f |->
                            IF s = {} THEN 0
                            ELSE LET x == CHOOSE x \in s : TRUE IN f[x] + g[s \ {x}]]
<1>1. SumFunction(f) = it[S]
  BY DEF SumFunction, SumFunctionOnSet, FoldFunctionOnSet, MapThenFoldSet
<1>2. it = CHOOSE g : AddsUp(g, f)
  BY DEF AddsUp, Chosen
<1>3. AddsUp(it, f)
  BY <1>2, SumExists
<1> QED
  BY <1>1, <1>3

(* One value moves the sum by as much as it moves.                         *)
LEMMA SumMoves ==
    ASSUME NEW S, IsFiniteSet(S), NEW f \in [S -> Int], NEW e \in [S -> Int],
           NEW x \in S, \A y \in S \ {x} : e[y] = f[y]
    PROVE  /\ SumFunction(f) \in Int
           /\ SumFunction(e) = SumFunction(f) + (e[x] - f[x])
<1>1. PICK g : AddsUp(g, f) /\ SumFunction(f) = g[S]
  BY SumUnfolds
<1>2. PICK h : AddsUp(h, e) /\ SumFunction(e) = h[S]
  BY SumUnfolds
<1>3. \A s \in SUBSET S :
          /\ g[s] = IF s = {} THEN 0 ELSE f[Chosen(s)] + g[s \ {Chosen(s)}]
          /\ h[s] = IF s = {} THEN 0 ELSE e[Chosen(s)] + h[s \ {Chosen(s)}]
  <2>1. g = [s \in SUBSET S |-> IF s = {} THEN 0 ELSE f[Chosen(s)] + g[s \ {Chosen(s)}]]
    BY <1>1 DEF AddsUp
  <2>2. h = [s \in SUBSET S |-> IF s = {} THEN 0 ELSE e[Chosen(s)] + h[s \ {Chosen(s)}]]
    BY <1>2 DEF AddsUp
  <2>3. \A s \in SUBSET S :
            g[s] = IF s = {} THEN 0 ELSE f[Chosen(s)] + g[s \ {Chosen(s)}]
    BY <2>1, Zenon
  <2>4. \A s \in SUBSET S :
            h[s] = IF s = {} THEN 0 ELSE e[Chosen(s)] + h[s \ {Chosen(s)}]
    BY <2>2, Zenon
  <2> QED
    BY <2>3, <2>4
<1> DEFINE Moves(s) == /\ g[s] \in Int
                       /\ h[s] = g[s] + IF x \in s THEN e[x] - f[x] ELSE 0
           T == {Cardinality(s) : s \in {s \in SUBSET S : ~Moves(s)}}
<1>4. Moves({})
  <2>1. {} \in SUBSET S
    OBVIOUS
  <2>2. g[{}] = 0 /\ h[{}] = 0
    BY <1>3, <2>1
  <2> QED
    BY <2>2
<1>5. ASSUME NEW s \in SUBSET S, s # {}, Moves(s \ {Chosen(s)})
      PROVE  Moves(s)
  <2> DEFINE c == Chosen(s)
             r == s \ {c}
  <2>1. c \in s /\ c \in S
    BY <1>5, Smaller
  <2>2. g[s] = f[c] + g[r] /\ h[s] = e[c] + h[r]
    BY <1>3, <1>5
  <2>3. x \in r <=> x \in s /\ x # c
    OBVIOUS
  <2>4. g[r] \in Int /\ h[r] = g[r] + IF x \in r THEN e[x] - f[x] ELSE 0
    BY <1>5
  <2> HIDE DEF c, r
  <2>5. f[c] \in Int /\ e[c] \in Int /\ f[x] \in Int /\ e[x] \in Int
    BY <2>1
  <2>6. CASE x = c
    BY <2>1, <2>2, <2>3, <2>4, <2>5, <2>6
  <2>7. CASE x # c
    <3>1. e[c] = f[c]
      BY <2>1, <2>7
    <3> QED
      BY <2>2, <2>3, <2>4, <2>5, <2>7, <3>1
  <2> QED
    BY <2>6, <2>7
<1> HIDE DEF Moves
<1>6. ASSUME T # {} PROVE FALSE
  <2>1. T \subseteq Nat
    BY FS_Subset, FS_CardinalityType
  <2>2. PICK m \in T : \A k \in T : m <= k
    <3> HIDE DEF T
    <3> QED
      BY <1>6, <2>1, LeastNat
  <2>3. PICK s \in SUBSET S : ~Moves(s) /\ Cardinality(s) = m
    OBVIOUS
  <2>4. s # {}
    BY <1>4, <2>3
  <2> DEFINE r == s \ {Chosen(s)}
  <2>5. r \in SUBSET S /\ ~Moves(r)
    BY <1>5, <2>3, <2>4
  <2>6. Cardinality(r) \in T
    BY <2>5
  <2>7. Cardinality(r) = m - 1 /\ m \in Nat
    BY <2>3, <2>4, Smaller
  <2> HIDE DEF T, r
  <2>8. m <= Cardinality(r)
    BY <2>2, <2>6
  <2> QED
    BY <2>7, <2>8
<1>7. Moves(S)
  <2>1. S \in SUBSET S
    OBVIOUS
  <2> QED
    BY <1>6, <2>1
<1>8. h[S] = g[S] + (e[x] - f[x]) /\ g[S] \in Int
  BY <1>7 DEF Moves
<1> QED
  BY <1>1, <1>2, <1>8

LEMMA SumType ==
    ASSUME NEW S, IsFiniteSet(S), NEW f \in [S -> Int]
    PROVE  SumFunction(f) \in Int
<1>1. CASE S = {}
  <2>1. PICK g : AddsUp(g, f) /\ SumFunction(f) = g[S]
    BY SumUnfolds
  <2>2. {} \in SUBSET DOMAIN f
    OBVIOUS
  <2>3. g[{}] = 0
    BY <2>1, <2>2 DEF AddsUp
  <2> QED
    BY <1>1, <2>1, <2>3
<1>2. CASE S # {}
  <2>1. PICK x : x \in S
    BY <1>2
  <2> QED
    BY <2>1, SumMoves
<1> QED
  BY <1>1, <1>2

(* The sum of zeros.                                                       *)
LEMMA SumOfZeros ==
    ASSUME NEW S, IsFiniteSet(S)
    PROVE  SumFunction([y \in S |-> 0]) = 0
<1> DEFINE f == [y \in S |-> 0]
<1>1. f \in [S -> Int] /\ \A y \in S : f[y] = 0
  OBVIOUS
<1> HIDE DEF f
<1>2. PICK g : AddsUp(g, f) /\ SumFunction(f) = g[S]
  BY <1>1, SumUnfolds
<1>3. \A s \in SUBSET S :
          g[s] = IF s = {} THEN 0 ELSE f[Chosen(s)] + g[s \ {Chosen(s)}]
  <2>1. g = [s \in SUBSET S |-> IF s = {} THEN 0 ELSE f[Chosen(s)] + g[s \ {Chosen(s)}]]
    BY <1>1, <1>2 DEF AddsUp
  <2> QED
    BY <2>1, Zenon
<1> DEFINE T == {Cardinality(s) : s \in {s \in SUBSET S : g[s] # 0}}
<1>4. ASSUME T # {} PROVE FALSE
  <2>1. T \subseteq Nat
    BY FS_Subset, FS_CardinalityType
  <2>2. PICK m \in T : \A k \in T : m <= k
    <3> HIDE DEF T
    <3> QED
      BY <1>4, <2>1, LeastNat
  <2>3. PICK s \in SUBSET S : g[s] # 0 /\ Cardinality(s) = m
    OBVIOUS
  <2>4. s # {}
    BY <1>3, <2>3
  <2> DEFINE r == s \ {Chosen(s)}
  <2>5. Chosen(s) \in S /\ r \in SUBSET S
    BY <2>4, Smaller
  <2>6. g[r] # 0
    <3>1. g[s] = f[Chosen(s)] + g[r]
      BY <1>3, <2>4
    <3>2. f[Chosen(s)] = 0
      BY <1>1, <2>5
    <3> HIDE DEF r
    <3> QED
      BY <2>3, <3>1, <3>2
  <2>7. Cardinality(r) \in T
    BY <2>5, <2>6
  <2>8. Cardinality(r) = m - 1 /\ m \in Nat
    BY <2>3, <2>4, Smaller
  <2> HIDE DEF T, r
  <2>9. m <= Cardinality(r)
    BY <2>2, <2>7
  <2> QED
    BY <2>8, <2>9
<1>5. g[S] = 0
  <2>1. S \in SUBSET S
    OBVIOUS
  <2> QED
    BY <1>4, <2>1
<1> QED
  BY <1>2, <1>5 DEF f
=============================================================================
