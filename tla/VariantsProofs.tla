--------------------------- MODULE VariantsProofs ---------------------------
(***************************************************************************)
(* Lemmas about the operators of Variants: what a list of variants may     *)
(* hold and what it begins with, for every base config, detection and      *)
(* profile.  The loops of the generator and the selector are recursive     *)
(* functions; what they compute is shown by the least counterexample.      *)
(***************************************************************************)
EXTENDS Variants, FoldProofs

-----------------------------------------------------------------------------
(* Lists.                                                                  *)

LEMMA ListOf ==
    ASSUME NEW X, NEW s \in Seq(X)
    PROVE  IsList(s) /\ ToSet(s) \subseteq X
BY DEF IsList, ToSet

(* The rounds of the loop.                                                 *)
LEMMA AmongUnrolls ==
    ASSUME NEW s, IsList(s), NEW S
    PROVE  \E kept :
              /\ Among(s, S) = kept[Len(s)] /\ kept[0] = <<>>
              /\ \A n \in 1..Len(s) :
                    kept[n] = IF s[n] \in S THEN Append(kept[n - 1], s[n]) ELSE kept[n - 1]
              /\ \A n \in 0..Len(s) : kept[n] \in Seq(ToSet(s) \cap S)
<1> DEFINE N == Len(s)
           X == Seq(ToSet(s) \cap S)
           Body(g) == [n \in 0..Len(s) |->
                          IF n = 0 THEN <<>>
                          ELSE LET before == g[n - 1]
                               IN IF s[n] \in S THEN Append(before, s[n]) ELSE before]
           kept == CHOOSE g : g = Body(g)
           step == [n \in 1..N |-> [q \in X |->
                       IF s[n] \in S THEN Append(q, s[n]) ELSE q]]
<1>1. N \in Nat /\ N = Len(s) /\ \A n \in 1..N : s[n] \in ToSet(s)
  BY DEF IsList, ToSet
<1>2. \A q \in X, n \in 1..N : s[n] \in S => Append(q, s[n]) \in X
  BY <1>1
<1>3. <<>> \in X
  OBVIOUS
<1>4. step \in [1..N -> [X -> X]] /\ \A q \in X, n \in 1..N :
          step[n][q] = IF s[n] \in S THEN Append(q, s[n]) ELSE q
  BY <1>2
<1> HIDE DEF X, step, N
<1>5. PICK g \in [0..N -> X] :
          g[0] = <<>> /\ \A n \in 1..N : g[n] = step[n][g[n - 1]]
  <2>1. N \in Nat /\ step \in [1..N -> [X -> X]]
    BY <1>1, <1>4
  <2> DEFINE none == <<>>
  <2>2. none \in X
    BY <1>3
  <2> HIDE DEF none
  <2>3. \E g \in [0..N -> X] :
          g[0] = none /\ \A n \in 1..N : g[n] = step[n][g[n - 1]]
    BY <2>1, <2>2, LoopRuns
  <2> QED
    BY <2>3 DEF none
<1>6. ASSUME NEW n \in 0..N
      PROVE  g[n] = IF n = 0 THEN <<>>
                    ELSE LET before == g[n - 1]
                         IN IF s[n] \in S THEN Append(before, s[n]) ELSE before
  <2>1. CASE n = 0
    BY <1>5, <2>1
  <2>2. CASE n # 0
    <3>1. n \in 1..N /\ n - 1 \in 0..N
      BY <1>1, <2>2
    <3> QED
      BY <1>4, <1>5, <2>2, <3>1
  <2> QED
    BY <2>1, <2>2
<1>7. g = Body(g)
  BY <1>5, <1>6 DEF N
<1>8. kept = Body(kept)
  BY <1>7
<1>9. Among(s, S) = kept[N]
  BY DEF Among, N
<1> HIDE DEF kept
<1>10. \A n \in 0..N : kept[n] = IF n = 0 THEN <<>>
                                ELSE LET before == kept[n - 1]
                                     IN IF s[n] \in S THEN Append(before, s[n]) ELSE before
  <2>1. \A n \in 0..N : kept[n] = Body(kept)[n]
    BY <1>8, Zenon
  <2> QED
    BY <2>1 DEF N
<1>11. kept[0] = <<>> /\ \A n \in 1..N :
           kept[n] = IF s[n] \in S THEN Append(kept[n - 1], s[n]) ELSE kept[n - 1]
  BY <1>1, <1>10
<1>12. \A n \in 1..N : kept[n - 1] \in X => kept[n] \in X
  BY <1>2, <1>11
<1>13. \A m \in 0..N : kept[m] \in X
  <2> SUFFICES ASSUME NEW m \in 0..N PROVE kept[m] \in X
    OBVIOUS
  <2>1. m \in Nat /\ \A n \in 1..m : kept[n - 1] \in X => kept[n] \in X
    BY <1>1, <1>12
  <2> QED
    BY <1>3, <1>11, <2>1, LoopStays
<1> QED
  BY <1>9, <1>11, <1>13 DEF X, N

LEMMA AmongList ==
    ASSUME NEW s, IsList(s), NEW S
    PROVE  IsList(Among(s, S)) /\ ToSet(Among(s, S)) \subseteq ToSet(s) \cap S
<1>1. Len(s) \in Nat
  BY DEF IsList
<1>2. Among(s, S) \in Seq(ToSet(s) \cap S)
  BY <1>1, AmongUnrolls
<1> QED
  BY <1>2, ListOf

LEMMA Listing ==
    ASSUME NEW n \in Nat, NEW X, NEW f, f \in [1..n -> X]
    PROVE  IsList(f) /\ ToSet(f) \subseteq X /\ Len(f) = n
<1>1. \A Y : \A m \in Nat : \A g \in [1..m -> Y] : g \in Seq(Y) /\ Len(g) = m
  OBVIOUS
<1>2. DOMAIN f = 1..n /\ f \in [1..n -> ToSet(f)] /\ ToSet(f) \subseteq X
  BY DEF ToSet
<1> QED
  BY <1>1, <1>2 DEF IsList

LEMMA Joined ==
    ASSUME NEW s, NEW t, IsList(s), IsList(t)
    PROVE  IsList(s \o t) /\ ToSet(s \o t) \subseteq ToSet(s) \cup ToSet(t)
<1> DEFINE X == ToSet(s) \cup ToSet(t)
<1>1. s \in Seq(ToSet(s)) /\ t \in Seq(ToSet(t)) /\ ToSet(s) \subseteq X /\ ToSet(t) \subseteq X
  BY DEF IsList
<1> HIDE DEF X
<1>2. s \in Seq(X) /\ t \in Seq(X)
  BY <1>1
<1>3. s \o t \in Seq(X)
  BY <1>2
<1> QED
  BY <1>3, ListOf DEF X

LEMMA Beginning ==
    ASSUME NEW s, IsList(s), NEW n \in Nat
    PROVE  IsList(FirstOf(n, s)) /\ ToSet(FirstOf(n, s)) \subseteq ToSet(s)
<1> DEFINE X == ToSet(s)
           k == IF Len(s) < n THEN Len(s) ELSE n
<1>1. s \in Seq(X) /\ Len(s) \in Nat
  BY DEF IsList
<1>2. k \in Nat /\ k <= Len(s) /\ FirstOf(n, s) = SubSeq(s, 1, k)
  BY <1>1 DEF FirstOf
<1> HIDE DEF X, k
<1>3. SubSeq(s, 1, k) \in Seq(X)
  BY <1>1, <1>2
<1> QED
  BY <1>2, <1>3, ListOf DEF X

LEMMA Backwards ==
    ASSUME NEW s, IsList(s)
    PROVE  IsList(Reverse(s)) /\ ToSet(Reverse(s)) \subseteq ToSet(s)
<1> DEFINE r == [i \in 1..Len(s) |-> s[(Len(s) - i) + 1]]
<1>1. Len(s) \in Nat /\ \A i \in 1..Len(s) : s[i] \in ToSet(s)
  BY DEF IsList, ToSet
<1>2. r \in [1..Len(s) -> ToSet(s)]
  BY <1>1
<1>3. Reverse(s) = r
  BY Zenon DEF Reverse
<1> HIDE DEF r
<1> QED
  BY <1>1, <1>2, <1>3, Listing

(* q has an element of c's ID.                                             *)
Holds(q, c) == \E i \in DOMAIN q : q[i].id = c.id

LEMMA UniqueUnrolls ==
    ASSUME NEW dst, IsList(dst), NEW src, IsList(src)
    PROVE  \E out :
              /\ appendUnique(dst, src) = out[Len(src)] /\ out[0] = dst
              /\ \A n \in 1..Len(src) :
                    out[n] = IF Holds(out[n - 1], src[n]) THEN out[n - 1]
                             ELSE Append(out[n - 1], src[n])
              /\ \A n \in 0..Len(src) : out[n] \in Seq(ToSet(dst) \cup ToSet(src))
<1> DEFINE N == Len(src)
           Y == ToSet(dst) \cup ToSet(src)
           X == Seq(Y)
           Known(q, n) == \E i \in DOMAIN q : q[i].id = src[n].id
           Body(g) == [n \in 0..Len(src) |->
                          IF n = 0 THEN dst
                          ELSE LET before == g[n - 1]
                               IN IF \E i \in DOMAIN before : before[i].id = src[n].id
                                  THEN before ELSE Append(before, src[n])]
           out == CHOOSE g : g = Body(g)
           step == [n \in 1..N |-> [q \in X |-> IF Known(q, n) THEN q ELSE Append(q, src[n])]]
<1>1. N \in Nat /\ N = Len(src) /\ \A n \in 1..N : src[n] \in Y
  BY DEF IsList, ToSet
<1>2. \A q \in X, n \in 1..N : Append(q, src[n]) \in X
  BY <1>1
<1>3. dst \in X
  <2>1. dst \in Seq(ToSet(dst)) /\ ToSet(dst) \subseteq Y
    BY DEF IsList
  <2> HIDE DEF Y
  <2> QED
    BY <2>1
<1> HIDE DEF X, N, Known
<1>4. step \in [1..N -> [X -> X]] /\ \A q \in X, n \in 1..N :
          step[n][q] = IF Known(q, n) THEN q ELSE Append(q, src[n])
  BY <1>2
<1> HIDE DEF step
<1>5. PICK g \in [0..N -> X] :
          g[0] = dst /\ \A n \in 1..N : g[n] = step[n][g[n - 1]]
  <2>1. N \in Nat /\ step \in [1..N -> [X -> X]]
    BY <1>1, <1>4
  <2> QED
    BY <1>3, <2>1, LoopRuns
<1>6. ASSUME NEW n \in 0..N
      PROVE  g[n] = IF n = 0 THEN dst
                    ELSE LET before == g[n - 1]
                         IN IF \E i \in DOMAIN before : before[i].id = src[n].id
                            THEN before ELSE Append(before, src[n])
  <2>1. CASE n = 0
    BY <1>5, <2>1
  <2>2. CASE n # 0
    <3>1. n \in 1..N /\ n - 1 \in 0..N
      BY <1>1, <2>2
    <3>2. g[n] = IF Known(g[n - 1], n) THEN g[n - 1] ELSE Append(g[n - 1], src[n])
      BY <1>4, <1>5, <3>1
    <3> QED
      BY <2>2, <3>2 DEF Known
  <2> QED
    BY <2>1, <2>2
<1>7. g = Body(g)
  BY <1>5, <1>6 DEF N
<1>8. out = Body(out)
  BY <1>7
<1>9. appendUnique(dst, src) = out[N]
  BY DEF appendUnique, N
<1> HIDE DEF out
<1>10. \A n \in 0..N : out[n] = IF n = 0 THEN dst
                                ELSE LET before == out[n - 1]
                                     IN IF \E i \in DOMAIN before : before[i].id = src[n].id
                                        THEN before ELSE Append(before, src[n])
  <2>1. \A n \in 0..N : out[n] = Body(out)[n]
    BY <1>8, Zenon
  <2> QED
    BY <2>1 DEF N
<1>11. /\ out[0] = dst
       /\ \A n \in 1..N : out[n] = IF Known(out[n - 1], n) THEN out[n - 1]
                                   ELSE Append(out[n - 1], src[n])
  <2>1. \A n \in 0..N : out[n] = IF n = 0 THEN dst
                                ELSE IF Known(out[n - 1], n) THEN out[n - 1]
                                     ELSE Append(out[n - 1], src[n])
    BY <1>10, Zenon DEF Known
  <2>2. 0 \in 0..N /\ \A n \in 1..N : n \in 0..N /\ n # 0
    BY <1>1
  <2> QED
    BY <2>1, <2>2, Zenon
<1>12. \A n \in 1..N : out[n - 1] \in X => out[n] \in X
  BY <1>2, <1>11
<1>13. \A m \in 0..N : out[m] \in X
  <2> SUFFICES ASSUME NEW m \in 0..N PROVE out[m] \in X
    OBVIOUS
  <2>1. m \in Nat /\ \A n \in 1..m : out[n - 1] \in X => out[n] \in X
    BY <1>1, <1>12
  <2> QED
    BY <1>3, <1>11, <2>1, LoopStays
<1>14. \A q, n : Known(q, n) <=> Holds(q, src[n])
  BY DEF Known, Holds
<1> QED
  BY <1>9, <1>11, <1>13, <1>14 DEF X, N

LEMMA UniqueList ==
    ASSUME NEW dst, IsList(dst), NEW src, IsList(src)
    PROVE  /\ IsList(appendUnique(dst, src))
           /\ ToSet(appendUnique(dst, src)) \subseteq ToSet(dst) \cup ToSet(src)
<1>1. Len(src) \in Nat
  BY DEF IsList
<1>2. appendUnique(dst, src) \in Seq(ToSet(dst) \cup ToSet(src))
  BY <1>1, UniqueUnrolls
<1> QED
  BY <1>2, ListOf

LEMMA OrderUnrolls ==
    ASSUME NEW patterns, Len(patterns) \in Nat, NEW variants, IsList(variants)
    PROVE  \E out :
              /\ InOrderOf(patterns, variants) = out[Len(patterns)] /\ out[0] = <<>>
              /\ \A n \in 1..Len(patterns) :
                    out[n] = appendUnique(out[n - 1], matchByPattern(variants, patterns[n]))
              /\ \A n \in 0..Len(patterns) : out[n] \in Seq(ToSet(variants))
<1> DEFINE N == Len(patterns)
           X == Seq(ToSet(variants))
           More(q, n) == appendUnique(q, matchByPattern(variants, patterns[n]))
           Body(g) == [n \in 0..Len(patterns) |->
                          IF n = 0 THEN <<>>
                          ELSE appendUnique(g[n - 1], matchByPattern(variants, patterns[n]))]
           out == CHOOSE g : g = Body(g)
           step == [n \in 1..N |-> [q \in X |-> More(q, n)]]
           none == <<>>
<1>1. N \in Nat /\ N = Len(patterns)
  BY DEF IsList
<1>2. ASSUME NEW q \in X, NEW n \in 1..N
      PROVE  More(q, n) \in X
  <2> DEFINE found == matchByPattern(variants, patterns[n])
  <2>1. IsList(found) /\ ToSet(found) \subseteq ToSet(variants)
    BY AmongList DEF matchByPattern
  <2>2. IsList(q) /\ ToSet(q) \subseteq ToSet(variants)
    BY ListOf
  <2> HIDE DEF found
  <2>3. /\ IsList(appendUnique(q, found))
        /\ ToSet(appendUnique(q, found)) \subseteq ToSet(q) \cup ToSet(found)
    BY <2>1, <2>2, UniqueList
  <2>4. ToSet(appendUnique(q, found)) \subseteq ToSet(variants)
    BY <2>1, <2>2, <2>3
  <2>5. \A s, A, B : s \in Seq(A) /\ A \subseteq B => s \in Seq(B)
    OBVIOUS
  <2> QED
    BY <2>3, <2>4, <2>5 DEF IsList, found
<1>3. none \in X
  OBVIOUS
<1> HIDE DEF X, N, More, none
<1>4. step \in [1..N -> [X -> X]] /\ \A q \in X, n \in 1..N : step[n][q] = More(q, n)
  BY <1>2
<1> HIDE DEF step
<1>5. PICK g \in [0..N -> X] :
          g[0] = none /\ \A n \in 1..N : g[n] = step[n][g[n - 1]]
  <2>1. N \in Nat /\ step \in [1..N -> [X -> X]]
    BY <1>1, <1>4
  <2> QED
    BY <1>3, <2>1, LoopRuns
<1>6. ASSUME NEW n \in 0..N
      PROVE  g[n] = IF n = 0 THEN <<>>
                    ELSE appendUnique(g[n - 1], matchByPattern(variants, patterns[n]))
  <2>1. CASE n = 0
    BY <1>5, <2>1 DEF none
  <2>2. CASE n # 0
    <3>1. n \in 1..N /\ n - 1 \in 0..N
      BY <1>1, <2>2
    <3>2. g[n] = More(g[n - 1], n)
      BY <1>4, <1>5, <3>1
    <3> QED
      BY <2>2, <3>2 DEF More
  <2> QED
    BY <2>1, <2>2
<1>7. g = Body(g)
  BY <1>5, <1>6 DEF N
<1>8. out = Body(out)
  BY <1>7
<1>9. InOrderOf(patterns, variants) = out[N]
  BY DEF InOrderOf, N
<1> HIDE DEF out
<1>10. \A n \in 0..N : out[n] = IF n = 0 THEN <<>>
                                ELSE appendUnique(out[n - 1],
                                                  matchByPattern(variants, patterns[n]))
  <2>1. \A n \in 0..N : out[n] = Body(out)[n]
    BY <1>8, Zenon
  <2> QED
    BY <2>1 DEF N
<1>11. out[0] = none /\ \A n \in 1..N : out[n] = More(out[n - 1], n)
  BY <1>1, <1>10 DEF none, More
<1>12. \A n \in 1..N : out[n - 1] \in X => out[n] \in X
  BY <1>2, <1>11
<1>13. \A m \in 0..N : out[m] \in X
  <2> SUFFICES ASSUME NEW m \in 0..N PROVE out[m] \in X
    OBVIOUS
  <2>1. m \in Nat /\ \A n \in 1..m : out[n - 1] \in X => out[n] \in X
    BY <1>1, <1>12
  <2> QED
    BY <1>3, <1>11, <2>1, LoopStays
<1> QED
  BY <1>9, <1>11, <1>13 DEF X, N, More, none

LEMMA OrderedList ==
    ASSUME NEW patterns, Len(patterns) \in Nat, NEW variants, IsList(variants)
    PROVE  /\ IsList(InOrderOf(patterns, variants))
           /\ ToSet(InOrderOf(patterns, variants)) \subseteq ToSet(variants)
<1>1. InOrderOf(patterns, variants) \in Seq(ToSet(variants))
  BY OrderUnrolls
<1> QED
  BY <1>1, ListOf
-----------------------------------------------------------------------------
(* The order of lists.                                                     *)

LEMMA AmongFirst ==
    ASSUME NEW s, IsList(s), NEW S, s # <<>>, s[1] \in S
    PROVE  Among(s, S) # <<>> /\ Among(s, S)[1] = s[1]
<1> DEFINE N == Len(s)
           Y == Seq(ToSet(s) \cap S)
           X == {q \in Y : q # <<>> /\ q[1] = s[1]}
<1>1. N \in Nat \ {0} /\ s[1] \in ToSet(s) \cap S
  BY DEF IsList, ToSet
<1>2. PICK kept :
          /\ Among(s, S) = kept[N] /\ kept[0] = <<>>
          /\ \A n \in 1..N :
                kept[n] = IF s[n] \in S THEN Append(kept[n - 1], s[n]) ELSE kept[n - 1]
          /\ \A n \in 0..N : kept[n] \in Y
  BY AmongUnrolls
<1>3. kept[1] \in X
  <2>1. 1 \in 1..N /\ 1 \in 0..N /\ 1 - 1 = 0
    BY <1>1
  <2>2. kept[1] = Append(<<>>, s[1])
    BY <1>2, <2>1
  <2>3. Append(<<>>, s[1]) # <<>> /\ Append(<<>>, s[1])[1] = s[1]
    OBVIOUS
  <2> QED
    BY <1>2, <2>1, <2>2, <2>3
<1>4. \A q \in X : \A x : Append(q, x) # <<>> /\ Append(q, x)[1] = s[1]
  OBVIOUS
<1>5. \A q \in X : q # <<>> /\ q[1] = s[1]
  OBVIOUS
<1>6. \A q \in Y : q # <<>> /\ q[1] = s[1] => q \in X
  OBVIOUS
<1> DEFINE f == [m \in 0..(N - 1) |-> kept[m + 1]]
<1>7. ASSUME NEW m \in 1..(N - 1), f[m - 1] \in X
      PROVE  f[m] \in X
  <2>1. m + 1 \in 1..N /\ m + 1 \in 0..N /\ f[m] = kept[m + 1] /\ f[m - 1] = kept[m]
    BY <1>1
  <2>2. (m + 1) - 1 = m
    OBVIOUS
  <2> HIDE DEF f, X
  <2>3. \/ kept[m + 1] = Append(kept[m], s[m + 1])
        \/ kept[m + 1] = kept[m]
    BY <1>2, <2>1, <2>2
  <2>4. kept[m] \in X /\ kept[m + 1] \in Y
    BY <1>2, <1>7, <2>1
  <2> QED
    BY <1>4, <1>5, <1>6, <2>1, <2>3, <2>4
<1>8. N - 1 \in Nat /\ f[0] = kept[1] /\ f[N - 1] = kept[N]
  BY <1>1
<1> HIDE DEF f, X
<1>9. f[N - 1] \in X
  <2> DEFINE M == N - 1
  <2>1. M \in Nat /\ f[0] \in X /\ \A m \in 1..M : f[m - 1] \in X => f[m] \in X
    BY <1>3, <1>7, <1>8
  <2> HIDE DEF M
  <2>2. f[M] \in X
    BY <2>1, LoopStays
  <2> QED
    BY <2>2 DEF M
<1> QED
  BY <1>2, <1>5, <1>8, <1>9

(* No ID is twice in q.                                                    *)
Distinct(q) == \A i, j \in 1..Len(q) : q[i].id = q[j].id => i = j

(* q goes on from dst with elements of src.                                *)
Extends(q, dst, src) ==
    /\ q \in Seq(ToSet(dst) \cup ToSet(src))
    /\ Len(q) >= Len(dst) /\ \A i \in 1..Len(dst) : q[i] = dst[i]
    /\ \A i \in 1..Len(q) : i > Len(dst) => q[i] \in ToSet(src)
    /\ Distinct(dst) => Distinct(q)

LEMMA ExtendsFurther ==
    ASSUME NEW dst, IsList(dst), NEW src, IsList(src), NEW q, Extends(q, dst, src),
           NEW c \in ToSet(src), ~Holds(q, c)
    PROVE  Extends(Append(q, c), dst, src)
<1> DEFINE Y == ToSet(dst) \cup ToSet(src)
           r == Append(q, c)
<1>1. q \in Seq(Y) /\ c \in Y /\ Len(q) \in Nat /\ Len(dst) \in Nat
  BY DEF Extends, IsList
<1> HIDE DEF Y
<1>2. /\ r \in Seq(Y) /\ Len(r) = Len(q) + 1 /\ r[Len(q) + 1] = c
      /\ \A i \in 1..Len(q) : r[i] = q[i]
  BY <1>1
<1> HIDE DEF r
<1>3. Len(r) >= Len(dst) /\ \A i \in 1..Len(dst) : r[i] = dst[i]
  BY <1>1, <1>2 DEF Extends
<1>4. \A i \in 1..Len(r) : i > Len(dst) => r[i] \in ToSet(src)
  BY <1>1, <1>2 DEF Extends
<1>5. ASSUME Distinct(dst) PROVE Distinct(r)
  <2>1. \A i, j \in 1..Len(q) : q[i].id = q[j].id => i = j
    BY <1>5 DEF Extends, Distinct
  <2>2. \A i \in 1..Len(q) : q[i].id # c.id
    BY <1>1 DEF Holds
  <2> SUFFICES ASSUME NEW i \in 1..Len(r), NEW j \in 1..Len(r), r[i].id = r[j].id
               PROVE  i = j
    BY DEF Distinct
  <2>3. \A k \in 1..Len(r) : k \in 1..Len(q) \/ k = Len(q) + 1
    BY <1>1, <1>2
  <2> QED
    BY <1>2, <2>1, <2>2, <2>3
<1> QED
  BY <1>2, <1>3, <1>4, <1>5 DEF Extends, Y, r

LEMMA UniqueExtends ==
    ASSUME NEW dst, IsList(dst), NEW src, IsList(src)
    PROVE  Extends(appendUnique(dst, src), dst, src)
<1> DEFINE N == Len(src)
           X == {q \in Seq(ToSet(dst) \cup ToSet(src)) : Extends(q, dst, src)}
<1>1. N \in Nat /\ \A n \in 1..N : src[n] \in ToSet(src)
  BY DEF IsList, ToSet
<1>2. PICK out :
          /\ appendUnique(dst, src) = out[N] /\ out[0] = dst
          /\ \A n \in 1..N : out[n] = IF Holds(out[n - 1], src[n]) THEN out[n - 1]
                                     ELSE Append(out[n - 1], src[n])
          /\ \A n \in 0..N : out[n] \in Seq(ToSet(dst) \cup ToSet(src))
  BY UniqueUnrolls
<1>3. out[0] \in X
  <2>1. 0 \in 0..N /\ Len(dst) \in Nat
    BY <1>1 DEF IsList
  <2>2. Extends(dst, dst, src)
    BY <1>2, <2>1 DEF Extends
  <2> QED
    BY <1>2, <2>1, <2>2
<1>4. ASSUME NEW n \in 1..N, out[n - 1] \in X PROVE out[n] \in X
  <2>1. n \in 0..N
    OBVIOUS
  <2>2. Extends(out[n], dst, src)
    <3>1. CASE Holds(out[n - 1], src[n])
      BY <1>2, <1>4, <3>1
    <3>2. CASE ~Holds(out[n - 1], src[n])
      BY <1>1, <1>2, <1>4, <3>2, ExtendsFurther
    <3> QED
      BY <3>1, <3>2
  <2> QED
    BY <1>2, <2>1, <2>2
<1>5. out[N] \in X
  <2> HIDE DEF X
  <2> QED
    BY <1>1, <1>3, <1>4, LoopStays
<1> QED
  BY <1>2, <1>5

(* The first of src comes next if it is new.                               *)
LEMMA UniqueNext ==
    ASSUME NEW dst, IsList(dst), NEW src, IsList(src), src # <<>>, ~Holds(dst, src[1])
    PROVE  LET q == appendUnique(dst, src)
           IN Len(q) > Len(dst) /\ q[Len(dst) + 1] = src[1]
<1> DEFINE N == Len(src)
           Y == Seq(ToSet(dst) \cup ToSet(src))
           X == {q \in Y : Len(q) > Len(dst) /\ q[Len(dst) + 1] = src[1]}
<1>1. N \in Nat \ {0} /\ Len(dst) \in Nat /\ src[1] \in ToSet(src) /\ dst \in Y
  BY DEF IsList, ToSet
<1>2. PICK out :
          /\ appendUnique(dst, src) = out[N] /\ out[0] = dst
          /\ \A n \in 1..N : out[n] = IF Holds(out[n - 1], src[n]) THEN out[n - 1]
                                     ELSE Append(out[n - 1], src[n])
          /\ \A n \in 0..N : out[n] \in Y
  BY UniqueUnrolls
<1>3. out[1] \in X
  <2>1. 1 \in 1..N /\ 1 \in 0..N /\ 1 - 1 = 0
    BY <1>1
  <2>2. out[1] = Append(dst, src[1])
    BY <1>2, <2>1
  <2>3. /\ Len(Append(dst, src[1])) = Len(dst) + 1
        /\ Append(dst, src[1])[Len(dst) + 1] = src[1]
    BY <1>1
  <2> QED
    BY <1>1, <1>2, <2>1, <2>2, <2>3
<1>4. \A q \in X : \A x : /\ Len(Append(q, x)) > Len(dst)
                          /\ Append(q, x)[Len(dst) + 1] = src[1]
  BY <1>1
<1>5. \A q \in X : Len(q) > Len(dst) /\ q[Len(dst) + 1] = src[1]
  OBVIOUS
<1>6. \A q \in Y : Len(q) > Len(dst) /\ q[Len(dst) + 1] = src[1] => q \in X
  OBVIOUS
<1> DEFINE f == [m \in 0..(N - 1) |-> out[m + 1]]
<1>7. ASSUME NEW m \in 1..(N - 1), f[m - 1] \in X
      PROVE  f[m] \in X
  <2>1. m + 1 \in 1..N /\ m + 1 \in 0..N /\ f[m] = out[m + 1] /\ f[m - 1] = out[m]
    BY <1>1
  <2>2. (m + 1) - 1 = m
    OBVIOUS
  <2> HIDE DEF f, X
  <2>3. \/ out[m + 1] = Append(out[m], src[m + 1])
        \/ out[m + 1] = out[m]
    BY <1>2, <2>1, <2>2
  <2>4. out[m] \in X /\ out[m + 1] \in Y
    BY <1>2, <1>7, <2>1
  <2> QED
    BY <1>4, <1>5, <1>6, <2>1, <2>3, <2>4
<1>8. N - 1 \in Nat /\ f[0] = out[1] /\ f[N - 1] = out[N]
  BY <1>1
<1> HIDE DEF f, X
<1>9. f[N - 1] \in X
  <2> DEFINE M == N - 1
  <2>1. M \in Nat /\ f[0] \in X /\ \A m \in 1..M : f[m - 1] \in X => f[m] \in X
    BY <1>3, <1>7, <1>8
  <2> HIDE DEF M
  <2>2. f[M] \in X
    BY <2>1, LoopStays
  <2> QED
    BY <2>2 DEF M
<1> QED
  BY <1>2, <1>5, <1>8, <1>9

LEMMA JoinedFirst ==
    ASSUME NEW s, IsList(s), NEW t, IsList(t), s # <<>>
    PROVE  s \o t # <<>> /\ (s \o t)[1] = s[1]
<1> DEFINE X == ToSet(s) \cup ToSet(t)
<1>1. s \in Seq(X) /\ t \in Seq(X)
  BY DEF IsList
<1> HIDE DEF X
<1>2. Len(s) \in Nat \ {0} /\ Len(t) \in Nat
  BY <1>1
<1>3. Len(s \o t) = Len(s) + Len(t) /\ (s \o t)[1] = s[1] /\ s \o t \in Seq(X)
  BY <1>1, <1>2
<1> QED
  BY <1>2, <1>3

LEMMA BeginningKeeps ==
    ASSUME NEW s, IsList(s), NEW n \in Nat, NEW i \in 1..Len(s), i <= n
    PROVE  /\ FirstOf(n, s) # <<>> /\ FirstOf(n, s)[i] = s[i]
           /\ s[i] \in ToSet(FirstOf(n, s))
<1> DEFINE k == IF Len(s) < n THEN Len(s) ELSE n
           X == ToSet(s)
           t == SubSeq(s, 1, k)
<1>1. s \in Seq(X) /\ Len(s) \in Nat
  BY DEF IsList
<1>2. k \in Nat /\ k <= Len(s) /\ i \in 1..k
  BY <1>1
<1>3. FirstOf(n, s) = t
  BY Zenon DEF FirstOf
<1> HIDE DEF k, X
<1>4. t \in Seq(X) /\ Len(t) = k /\ t[i] = s[i]
  BY <1>1, <1>2
<1> HIDE DEF t
<1>5. DOMAIN t = 1..k /\ t # <<>>
  BY <1>2, <1>4
<1>6. t[i] \in ToSet(t)
  BY <1>2, <1>5 DEF ToSet
<1> QED
  BY <1>3, <1>4, <1>5, <1>6

(* What a pattern finds.                                                   *)
LEMMA PatternFinds ==
    ASSUME NEW variants, IsList(variants), NEW pattern
    PROVE  LET found == matchByPattern(variants, pattern)
           IN /\ IsList(found) /\ ToSet(found) \subseteq ToSet(variants)
              /\ \A c \in ToSet(found) : Matches(c, pattern)
              /\ variants # <<>> /\ Matches(variants[1], pattern)
                    => found # <<>> /\ found[1] = variants[1]
<1> DEFINE S == {c \in ToSet(variants) : Matches(c, pattern)}
<1>1. /\ IsList(Among(variants, S))
      /\ ToSet(Among(variants, S)) \subseteq ToSet(variants) \cap S
  BY AmongList
<1>2. ASSUME variants # <<>>, Matches(variants[1], pattern)
      PROVE  Among(variants, S) # <<>> /\ Among(variants, S)[1] = variants[1]
  <2>1. variants[1] \in S
    <3>1. 1 \in DOMAIN variants
      BY <1>2 DEF IsList
    <3> QED
      BY <1>2, <3>1 DEF ToSet
  <2> HIDE DEF S
  <2> QED
    BY <1>2, <2>1, AmongFirst
<1>3. matchByPattern(variants, pattern) = Among(variants, S)
  BY Zenon DEF matchByPattern
<1>4. \A c \in S : Matches(c, pattern)
  OBVIOUS
<1> HIDE DEF S
<1> QED
  BY <1>1, <1>2, <1>3, <1>4

(* The patterns' variants: no ID is twice among them, each is matched, and *)
(* they begin with what the first pattern finds first.                     *)
LEMMA OrderedHold ==
    ASSUME NEW patterns, Len(patterns) \in Nat, NEW variants, IsList(variants)
    PROVE  /\ Distinct(InOrderOf(patterns, variants))
           /\ \A c \in ToSet(InOrderOf(patterns, variants)) :
                 \E n \in 1..Len(patterns) : Matches(c, patterns[n])
           /\ /\ variants # <<>> /\ Len(patterns) > 0 /\ Matches(variants[1], patterns[1])
              => /\ InOrderOf(patterns, variants) # <<>>
                 /\ InOrderOf(patterns, variants)[1] = variants[1]
<1> DEFINE N == Len(patterns)
           Y == Seq(ToSet(variants))
           Found(n) == matchByPattern(variants, patterns[n])
           Matched(c) == \E n \in 1..N : Matches(c, patterns[n])
           X == {q \in Y : Distinct(q) /\ \A c \in ToSet(q) : Matched(c)}
           Led == variants # <<>> /\ N > 0 /\ Matches(variants[1], patterns[1])
           Z == {q \in Y : q # <<>> /\ q[1] = variants[1]}
<1>1. PICK out :
          /\ InOrderOf(patterns, variants) = out[N] /\ out[0] = <<>>
          /\ \A n \in 1..N : out[n] = appendUnique(out[n - 1], Found(n))
          /\ \A n \in 0..N : out[n] \in Y
  BY OrderUnrolls
<1>2. \A n \in 1..N :
          /\ IsList(Found(n)) /\ ToSet(Found(n)) \subseteq ToSet(variants)
          /\ \A c \in ToSet(Found(n)) : Matched(c)
  BY PatternFinds
<1>3. Led => Found(1) # <<>> /\ Found(1)[1] = variants[1]
  BY PatternFinds
<1> HIDE DEF Found, Matched
<1>4. \A n \in 1..N : n \in 0..N /\ n - 1 \in 0..N
  OBVIOUS
<1>5. ASSUME NEW n \in 1..N
      PROVE  /\ IsList(out[n - 1]) /\ out[n] \in Y
             /\ Extends(out[n], out[n - 1], Found(n))
             /\ ToSet(out[n]) \subseteq ToSet(out[n - 1]) \cup ToSet(Found(n))
  <2>1. out[n - 1] \in Y /\ out[n] \in Y
    BY <1>1, <1>4
  <2>2. IsList(out[n - 1])
    BY <2>1, ListOf
  <2> QED
    BY <1>1, <1>2, <2>1, <2>2, UniqueExtends, UniqueList
<1>6. out[N] \in X
  <2>1. out[0] \in X
    BY <1>1 DEF Distinct, ToSet
  <2>2. ASSUME NEW n \in 1..N, out[n - 1] \in X PROVE out[n] \in X
    <3>1. Distinct(out[n])
      BY <1>5, <2>2 DEF Extends
    <3>2. \A c \in ToSet(out[n]) : Matched(c)
      BY <1>2, <1>5, <2>2
    <3> QED
      BY <1>5, <3>1, <3>2
  <2> HIDE DEF X
  <2> QED
    BY <2>1, <2>2, LoopStays
<1>7. ASSUME Led PROVE out[N] \in Z
  <2> DEFINE f == [m \in 0..(N - 1) |-> out[m + 1]]
             M == N - 1
  <2>1. M \in Nat /\ f[0] = out[1] /\ f[M] = out[N] /\ 1 \in 1..N /\ 1 - 1 = 0
    BY <1>7
  <2>2. out[1] \in Z
    <3> DEFINE none == out[0]
               q == appendUnique(none, Found(1))
    <3>1. IsList(none) /\ Len(none) = 0 /\ ~Holds(none, Found(1)[1])
      BY <1>1, <1>5, <2>1 DEF Holds
    <3> HIDE DEF none
    <3>2. Len(q) > Len(none) /\ q[Len(none) + 1] = Found(1)[1]
      BY <1>2, <1>3, <1>7, <2>1, <3>1, UniqueNext
    <3>3. out[1] = q
      BY <1>1, <2>1 DEF none
    <3> QED
      BY <1>3, <1>5, <1>7, <2>1, <3>1, <3>2, <3>3
  <2>3. ASSUME NEW m \in 1..M, f[m - 1] \in Z PROVE f[m] \in Z
    <3> DEFINE n == m + 1
    <3>1. n \in 1..N /\ f[m] = out[n] /\ f[m - 1] = out[n - 1]
      OBVIOUS
    <3> HIDE DEF n, f, M
    <3>2. /\ out[n - 1] \in Y /\ out[n - 1] # <<>> /\ out[n - 1][1] = variants[1]
      BY <2>3, <3>1
    <3>3. 1 \in 1..Len(out[n - 1])
      BY <3>2
    <3>4. out[n] \in Y /\ Len(out[n]) >= Len(out[n - 1]) /\ out[n][1] = out[n - 1][1]
      BY <1>5, <3>1, <3>3 DEF Extends
    <3> QED
      BY <3>1, <3>2, <3>3, <3>4
  <2> HIDE DEF f, M, Z
  <2>4. f[M] \in Z
    BY <2>1, <2>2, <2>3, LoopStays
  <2> QED
    BY <2>1, <2>4
<1> QED
  BY <1>1, <1>6, <1>7 DEF Matched
-----------------------------------------------------------------------------
(***************************************************************************)
(* What a generated or selected variant has in common with its base        *)
(* config: the ID's first part, the protocol, and for a protocol without   *)
(* them the TLS fields.  An AWG profile's variant is named after the       *)
(* profile it has.                                                         *)
(***************************************************************************)
Families == {"mtu", "ep", "port", "awg", "fp", "tr", "path", "ech"}

HasFields(tc) == DOMAIN tc.params = DOMAIN Unset

MadeOf(c, tc) ==
    /\ BaseIDOf(c) = BaseIDOf(tc) /\ Family(c) \in Families
    /\ c.protocol = tc.protocol /\ HasFields(c)
    /\ tc.protocol # "vless" => c.params.fp = tc.params.fp /\ c.params.tr = tc.params.tr
    /\ Family(c) = "awg" =>
          /\ tc.protocol = "awg" /\ c.id[3] \in ToSet(Profiles)
          /\ c.params.junk = c.id[3] /\ c.params.pads = PadsOf(c.id[3])

Made(s, tc) == IsList(s) /\ \A c \in ToSet(s) : MadeOf(c, tc)

LEMMA IDParts ==
    ASSUME NEW c, NEW b, NEW family, NEW value, c.id = <<b, family, value>>
    PROVE  BaseIDOf(c) = b /\ Family(c) = family
<1> DEFINE id == c.id
<1>1. id = <<b, family, value>>
  OBVIOUS
<1> HIDE DEF id
<1>2. id[1] = b /\ id[2] = family
  BY <1>1
<1> QED
  BY <1>2 DEF BaseIDOf, Family, id

LEMMA Fields ==
    DOMAIN Unset = {"mtu", "port", "fp", "tr", "path", "ech", "security", "junk", "pads",
                    "headers"}
BY DEF Unset

LEMMA MadePart ==
    ASSUME NEW tc, NEW s, Made(s, tc), NEW t, IsList(t), ToSet(t) \subseteq ToSet(s)
    PROVE  Made(t, tc)
BY DEF Made

LEMMA MadeBoth ==
    ASSUME NEW tc, NEW s, NEW t, Made(s, tc), Made(t, tc)
    PROVE  Made(s \o t, tc)
<1>1. IsList(s \o t) /\ ToSet(s \o t) \subseteq ToSet(s) \cup ToSet(t)
  BY Joined DEF Made
<1> QED
  BY <1>1 DEF Made

LEMMA MadeNone ==
    ASSUME NEW tc
    PROVE  Made(<<>>, tc)
BY DEF Made, IsList, ToSet

LEMMA VariantMade ==
    ASSUME NEW tc, NEW family \in Families \ {"awg"}, NEW value, NEW params,
           DOMAIN params = DOMAIN Unset,
           tc.protocol # "vless" => params.fp = tc.params.fp /\ params.tr = tc.params.tr
    PROVE  MadeOf(Variant(tc, family, value, params), tc)
BY DEF MadeOf, Variant, BaseIDOf, Family, HasFields

LEMMA RotationsMade ==
    ASSUME NEW tc, HasFields(tc), NEW family \in Families \ {"awg"}, NEW field,
           tc.protocol # "vless" => field \in {"mtu", "port"},
           NEW choices, IsList(choices)
    PROVE  Made(Rotations(tc, family, field, choices), tc)
<1> DEFINE others == Among(choices, ToSet(choices) \ {tc.params[field]})
           With(v) == [tc.params EXCEPT ![field] = v]
           X == {Variant(tc, family, others[i], With(others[i])) : i \in DOMAIN others}
           r == [i \in DOMAIN others |-> Variant(tc, family, others[i], With(others[i]))]
<1>1. IsList(others)
  BY AmongList
<1>2. Len(others) \in Nat /\ DOMAIN others = 1..Len(others)
  BY <1>1 DEF IsList
<1>3. Rotations(tc, family, field, choices) = r
  BY Zenon DEF Rotations
<1>4. ASSUME NEW c \in X PROVE MadeOf(c, tc)
  <2>1. PICK v : c = Variant(tc, family, v, With(v))
    OBVIOUS
  <2>2. DOMAIN With(v) = DOMAIN Unset
    BY DEF HasFields
  <2>3. tc.protocol # "vless" => With(v).fp = tc.params.fp /\ With(v).tr = tc.params.tr
    BY Fields DEF HasFields
  <2> HIDE DEF With, X
  <2> QED
    BY <2>1, <2>2, <2>3, VariantMade
<1>5. r \in [1..Len(others) -> X]
  BY <1>2
<1> HIDE DEF others, X, r
<1>6. IsList(r) /\ ToSet(r) \subseteq X
  BY <1>2, <1>5, Listing
<1> QED
  BY <1>3, <1>4, <1>6 DEF Made

LEMMA PortsMade ==
    ASSUME NEW tc, HasFields(tc), NEW family \in {"ep", "port"}
    PROVE  Made(mtuVariants(tc), tc) /\ Made(portVariants(tc, family), tc)
<1>1. /\ "mtu" \in Families \ {"awg"} /\ family \in Families \ {"awg"}
      /\ IsList(MTUs) /\ IsList(Ports)
  BY ListsAssumption DEF Families
<1>2. Made(mtuVariants(tc), tc)
  BY <1>1, RotationsMade DEF mtuVariants
<1>3. Made(Rotations(tc, family, "port", Ports), tc)
  BY <1>1, RotationsMade
<1>4. Made(portVariants(tc, family), tc)
  BY <1>3, MadeNone DEF portVariants
<1> QED
  BY <1>2, <1>4

LEMMA WgMade ==
    ASSUME NEW tc, HasFields(tc), NEW hint
    PROVE  Made(wgVariants(tc, hint), tc)
<1>1. Made(mtuVariants(tc), tc) /\ Made(portVariants(tc, "ep"), tc) /\ Made(<<>>, tc)
  BY PortsMade, MadeNone
<1>2. Made(IF hint \in PortHints THEN portVariants(tc, "ep") ELSE <<>>, tc)
  BY <1>1
<1> QED
  BY <1>1, <1>2, MadeBoth DEF wgVariants

LEMMA ProfilesMade ==
    ASSUME NEW tc, HasFields(tc), tc.protocol = "awg",
           NEW profiles, IsList(profiles), ToSet(profiles) \subseteq ToSet(Profiles)
    PROVE  Made(awgProfileVariants(tc, profiles), tc)
<1> DEFINE own == {p \in {tc.params.junk} : tc.params.headers = "profile"}
           others == Among(profiles, ToSet(profiles) \ own)
           With(p) == [tc.params EXCEPT !.junk = p, !.pads = PadsOf(p), !.headers = "drawn"]
           X == {Variant(tc, "awg", p, With(p)) : p \in ToSet(Profiles)}
           r == [i \in DOMAIN others |-> Variant(tc, "awg", others[i], With(others[i]))]
<1>1. IsList(others) /\ ToSet(others) \subseteq ToSet(Profiles)
  BY AmongList
<1>2. /\ Len(others) \in Nat /\ DOMAIN others = 1..Len(others)
      /\ \A i \in DOMAIN others : others[i] \in ToSet(Profiles)
  <2> HIDE DEF others
  <2>1. Len(others) \in Nat /\ DOMAIN others = 1..Len(others)
    BY <1>1 DEF IsList
  <2>2. \A i \in DOMAIN others : others[i] \in ToSet(others)
    BY DEF ToSet
  <2> QED
    BY <1>1, <2>1, <2>2
<1>3. awgProfileVariants(tc, profiles) = r
  BY Zenon DEF awgProfileVariants
<1>4. ASSUME NEW p \in ToSet(Profiles)
      PROVE  MadeOf(Variant(tc, "awg", p, With(p)), tc)
  <2>1. /\ DOMAIN With(p) = DOMAIN Unset
        /\ With(p).fp = tc.params.fp /\ With(p).tr = tc.params.tr
        /\ With(p).junk = p /\ With(p).pads = PadsOf(p)
    BY Fields DEF HasFields
  <2> HIDE DEF With
  <2> QED
    BY <2>1 DEF MadeOf, Variant, BaseIDOf, Family, Families, HasFields
<1>5. r \in [1..Len(others) -> X]
  BY <1>2
<1> HIDE DEF others, r
<1>6. IsList(r) /\ ToSet(r) \subseteq X
  <2> HIDE DEF X
  <2> QED
    BY <1>2, <1>5, Listing
<1> QED
  BY <1>3, <1>4, <1>6 DEF Made

LEMMA AwgMade ==
    ASSUME NEW tc, HasFields(tc), tc.protocol = "awg", NEW hint
    PROVE  Made(awgVariants(tc, hint), tc)
<1> DEFINE profiles == IF hint = "protocol_dpi" THEN Reverse(Profiles) ELSE Profiles
           ports == IF hint \in PortHints THEN portVariants(tc, "ep") ELSE <<>>
<1>1. Made(mtuVariants(tc), tc) /\ Made(ports, tc)
  BY PortsMade, MadeNone
<1>2. IsList(profiles) /\ ToSet(profiles) \subseteq ToSet(Profiles)
  BY ListsAssumption, Backwards
<1> HIDE DEF profiles, ports
<1>3. Made(awgProfileVariants(tc, profiles), tc)
  BY <1>2, ProfilesMade
<1>4. Made(awgProfileVariants(tc, profiles) \o mtuVariants(tc) \o ports, tc)
  BY <1>1, <1>3, MadeBoth
<1> QED
  BY <1>4 DEF awgVariants, profiles, ports

LEMMA PathsMade ==
    ASSUME NEW tc, HasFields(tc), tc.protocol = "vless"
    PROVE  Made(vlessPathVariantsForTransport(tc), tc)
<1> DEFINE norm(p) == normalizeTransportPath(tc.params.tr, p)
           others == Among(Paths, {p \in ToSet(Paths) : norm(p) # tc.params.path})
           With(p) == [tc.params EXCEPT !.path = norm(p)]
           X == {Variant(tc, "path", others[i].slug, With(others[i])) : i \in DOMAIN others}
           r == [i \in DOMAIN others |->
                    Variant(tc, "path", others[i].slug, With(others[i]))]
<1>1. IsList(others)
  BY ListsAssumption, AmongList
<1>2. Len(others) \in Nat /\ DOMAIN others = 1..Len(others)
  BY <1>1 DEF IsList
<1>3. vlessPathVariantsForTransport(tc) = r \/ vlessPathVariantsForTransport(tc) = <<>>
  BY Zenon DEF vlessPathVariantsForTransport
<1>4. ASSUME NEW c \in X PROVE MadeOf(c, tc)
  <2>1. PICK p : c = Variant(tc, "path", p.slug, With(p))
    OBVIOUS
  <2>2. DOMAIN With(p) = DOMAIN Unset /\ "path" \in Families \ {"awg"}
    BY DEF HasFields, Families
  <2> HIDE DEF With, X
  <2> QED
    BY <2>1, <2>2, VariantMade
<1>5. r \in [1..Len(others) -> X]
  BY <1>2
<1> HIDE DEF others, X, r
<1>6. IsList(r) /\ ToSet(r) \subseteq X
  BY <1>2, <1>5, Listing
<1> QED
  BY <1>3, <1>4, <1>6, MadeNone DEF Made

LEMMA TransportsMade ==
    ASSUME NEW tc, HasFields(tc), tc.protocol = "vless",
           tc = [id |-> tc.id, protocol |-> tc.protocol, params |-> tc.params]
    PROVE  /\ Made(vlessFingerprintVariants(tc), tc)
           /\ Made(vlessTransportVariants(tc), tc)
<1>1. IsList(Fingerprints) /\ IsList(Transports) /\ {"fp", "tr"} \subseteq Families \ {"awg"}
  BY ListsAssumption DEF Families
<1>2. Made(vlessFingerprintVariants(tc), tc)
  BY <1>1, RotationsMade DEF vlessFingerprintVariants
<1> DEFINE withPath == [tc EXCEPT !.params.path = IF @ = "" THEN "/" ELSE @]
<1>3. /\ withPath.id = tc.id /\ withPath.protocol = tc.protocol
      /\ DOMAIN withPath.params = DOMAIN tc.params
  OBVIOUS
<1>4. vlessTransportVariants(tc) = Rotations(withPath, "tr", "tr", Transports)
  BY Zenon DEF vlessTransportVariants
<1> HIDE DEF withPath
<1>5. HasFields(withPath) /\ withPath.protocol = "vless"
  BY <1>3 DEF HasFields
<1>6. Made(Rotations(withPath, "tr", "tr", Transports), withPath)
  BY <1>1, <1>5, RotationsMade
<1>7. \A c : MadeOf(c, withPath) => MadeOf(c, tc)
  BY <1>3 DEF MadeOf, BaseIDOf
<1> QED
  BY <1>2, <1>4, <1>6, <1>7 DEF Made

LEMMA VlessMade ==
    ASSUME NEW tc, HasFields(tc), tc.protocol = "vless",
           tc = [id |-> tc.id, protocol |-> tc.protocol, params |-> tc.params],
           NEW hint
    PROVE  Made(vlessVariants(tc, hint), tc)
<1> DEFINE fp == vlessFingerprintVariants(tc)
           tr == vlessTransportVariants(tc)
           ech == vlessECHVariants(tc)
           first == IF hint = "http_dpi" THEN tr \o fp ELSE fp \o tr \o ech
           paths == IF hint \in {"http_dpi", "tls_dpi", "none"}
                    THEN vlessPathVariantsForTransport(tc) ELSE <<>>
           ports == IF hint \in PortHints THEN portVariants(tc, "port") ELSE <<>>
<1>1. Made(fp, tc) /\ Made(tr, tc)
  BY TransportsMade
<1>2. Made(ech, tc)
  <2> DEFINE on == [tc.params EXCEPT !.ech = TRUE]
             c == Variant(tc, "ech", "on", on)
  <2>1. DOMAIN on = DOMAIN Unset /\ "ech" \in Families \ {"awg"}
    BY DEF HasFields, Families
  <2> HIDE DEF on
  <2>2. MadeOf(c, tc)
    BY <2>1, VariantMade
  <2>3. ech = <<c>> \/ ech = <<>>
    BY Zenon DEF vlessECHVariants, on
  <2> HIDE DEF c
  <2>4. IsList(<<c>>) /\ ToSet(<<c>>) = {c}
    BY DEF IsList, ToSet
  <2>5. Made(<<c>>, tc)
    BY <2>2, <2>4 DEF Made
  <2> QED
    BY <2>3, <2>5, MadeNone
<1>3. Made(paths, tc) /\ Made(ports, tc)
  BY PathsMade, PortsMade, MadeNone
<1> HIDE DEF fp, tr, ech, paths, ports
<1>4. Made(first, tc)
  BY <1>1, <1>2, MadeBoth
<1> HIDE DEF first
<1>5. Made(first \o paths \o ports, tc)
  BY <1>3, <1>4, MadeBoth
<1> QED
  BY <1>5, Zenon DEF vlessVariants, fp, tr, ech, first, paths, ports

(* A base config as the daemon reads it.                                   *)
IsBase(tc) ==
    /\ tc = [id |-> tc.id, protocol |-> tc.protocol, params |-> tc.params]
    /\ tc.protocol \in {"wg", "awg", "vless"} /\ HasFields(tc)

LEMMA GeneratedMade ==
    ASSUME NEW tc, IsBase(tc), NEW hint, NEW maxVariants \in Nat
    PROVE  Made(GenerateVariants(tc, hint, maxVariants), tc)
<1> DEFINE cap == IF maxVariants <= 0 THEN 8 ELSE maxVariants
<1>1. cap \in Nat
  OBVIOUS
<1> HIDE DEF cap
<1>2. ASSUME NEW s, Made(s, tc)
      PROVE  Made(FirstOf(cap, s), tc)
  <2>1. IsList(FirstOf(cap, s)) /\ ToSet(FirstOf(cap, s)) \subseteq ToSet(s)
    BY <1>1, <1>2, Beginning DEF Made
  <2> QED
    BY <1>2, <2>1, MadePart
<1>3. CASE tc.protocol = "wg"
  <2>1. GenerateVariants(tc, hint, maxVariants) = FirstOf(cap, wgVariants(tc, hint))
    BY <1>3 DEF GenerateVariants, cap
  <2> QED
    BY <1>2, <2>1, WgMade DEF IsBase
<1>4. CASE tc.protocol = "awg"
  <2>1. GenerateVariants(tc, hint, maxVariants) = FirstOf(cap, awgVariants(tc, hint))
    BY <1>4 DEF GenerateVariants, cap
  <2> QED
    BY <1>2, <1>4, <2>1, AwgMade DEF IsBase
<1>5. CASE tc.protocol = "vless"
  <2>1. GenerateVariants(tc, hint, maxVariants) = FirstOf(cap, vlessVariants(tc, hint))
    BY <1>5 DEF GenerateVariants, cap
  <2> QED
    BY <1>2, <1>5, <2>1, VlessMade DEF IsBase
<1> QED
  BY <1>3, <1>4, <1>5 DEF IsBase
-----------------------------------------------------------------------------
(* What a profile selects, it selects from the generated variants.         *)

LEMMA PatternsLength ==
    ASSUME NEW reason, NEW hint, NEW safeOnly \in BOOLEAN
    PROVE  Len(patternsForReason(reason, hint, safeOnly)) \in Nat
BY DEF patternsForReason

LEMMA OrderedMade ==
    ASSUME NEW tc, NEW variants, Made(variants, tc), NEW reason, NEW hint,
           NEW safeOnly \in BOOLEAN
    PROVE  Made(InOrderOf(patternsForReason(reason, hint, safeOnly), variants), tc)
<1> DEFINE patterns == patternsForReason(reason, hint, safeOnly)
<1>1. Len(patterns) \in Nat
  BY PatternsLength
<1> HIDE DEF patterns
<1>2. /\ IsList(InOrderOf(patterns, variants))
      /\ ToSet(InOrderOf(patterns, variants)) \subseteq ToSet(variants)
  BY <1>1, OrderedList DEF Made
<1>3. Made(InOrderOf(patterns, variants), tc)
  BY <1>2, MadePart
<1> QED
  BY <1>3 DEF patterns

LEMMA UniqueMade ==
    ASSUME NEW tc, NEW s, NEW t, Made(s, tc), Made(t, tc)
    PROVE  Made(appendUnique(s, t), tc)
<1>1. /\ IsList(appendUnique(s, t))
      /\ ToSet(appendUnique(s, t)) \subseteq ToSet(s) \cup ToSet(t)
  BY UniqueList DEF Made
<1> QED
  BY <1>1 DEF Made

LEMMA FirstMade ==
    ASSUME NEW tc, NEW s, Made(s, tc), NEW n \in Nat
    PROVE  Made(FirstOf(n, s), tc)
<1>1. IsList(FirstOf(n, s)) /\ ToSet(FirstOf(n, s)) \subseteq ToSet(s)
  BY Beginning DEF Made
<1> QED
  BY <1>1, MadePart

LEMMA CompatMade ==
    ASSUME NEW tc, NEW variants, Made(variants, tc), variants # <<>>, NEW reason, NEW hint
    PROVE  Made(compatSelect(reason, hint, variants), tc)
<1> DEFINE chosen == InOrderOf(patternsForReason(reason, hint, TRUE), variants)
           mild == <<<<"mtu">>, <<"awg", "mild">>>>
           safest == InOrderOf(mild, variants)
           picked == CASE chosen # <<>> -> chosen
                       [] chosen = <<>> /\ safest # <<>> -> safest
                       [] OTHER -> <<variants[1]>>
<1>1. Made(chosen, tc)
  BY OrderedMade
<1>2. Made(safest, tc)
  <2>1. Len(mild) \in Nat
    OBVIOUS
  <2> HIDE DEF mild
  <2>2. /\ IsList(InOrderOf(mild, variants))
        /\ ToSet(InOrderOf(mild, variants)) \subseteq ToSet(variants)
    BY <2>1, OrderedList DEF Made
  <2> QED
    BY <2>2, MadePart
<1>3. Made(<<variants[1]>>, tc)
  <2> DEFINE c == variants[1]
  <2>1. 1 \in DOMAIN variants
    BY DEF Made, IsList
  <2>2. c \in ToSet(variants)
    BY <2>1 DEF ToSet
  <2> HIDE DEF c
  <2>3. IsList(<<c>>) /\ ToSet(<<c>>) = {c}
    BY DEF IsList, ToSet
  <2>4. Made(<<c>>, tc)
    BY <2>2, <2>3 DEF Made
  <2> QED
    BY <2>4 DEF c
<1> HIDE DEF chosen, safest
<1>4. Made(picked, tc)
  BY <1>1, <1>2, <1>3
<1>5. compatSelect(reason, hint, variants) = FirstOf(3, picked)
  BY Zenon DEF compatSelect, chosen, safest, mild
<1> HIDE DEF picked
<1> QED
  BY <1>4, <1>5, FirstMade

LEMMA BalancedMade ==
    ASSUME NEW tc, NEW variants, Made(variants, tc), NEW reason, NEW hint
    PROVE  Made(balancedSelect(reason, hint, variants), tc)
<1> DEFINE tame(c) == hint = "protocol_dpi" \/ ~Matches(c, <<"awg", "aggressive">>)
           rest == Among(variants, {c \in ToSet(variants) : tame(c)})
           chosen == InOrderOf(patternsForReason(reason, hint, FALSE), variants)
<1>1. Made(chosen, tc)
  BY OrderedMade
<1>2. Made(rest, tc)
  <2>1. IsList(rest) /\ ToSet(rest) \subseteq ToSet(variants)
    BY AmongList DEF Made
  <2> HIDE DEF rest
  <2> QED
    BY <2>1, MadePart
<1>3. balancedSelect(reason, hint, variants) = FirstOf(6, appendUnique(chosen, rest))
  BY Zenon DEF balancedSelect
<1> HIDE DEF chosen, rest
<1>4. Made(appendUnique(chosen, rest), tc)
  BY <1>1, <1>2, UniqueMade
<1> QED
  BY <1>3, <1>4, FirstMade

LEMMA SelectedMade ==
    ASSUME NEW tc, NEW variants, Made(variants, tc), NEW profile, NEW reason, NEW hint,
           NEW confidence
    PROVE  Made(SelectVariants(profile, reason, hint, confidence, variants), tc)
<1> DEFINE low == compatSelect(<<"low_confidence">>, hint, variants)
           compat == compatSelect(reason, hint, variants)
           aggressive == aggressiveSelect(reason, hint, variants)
           balanced == balancedSelect(reason, hint, variants)
           selected == SelectVariants(profile, reason, hint, confidence, variants)
<1>1. Made(aggressive, tc) /\ Made(balanced, tc)
  BY OrderedMade, UniqueMade, BalancedMade DEF aggressiveSelect
<1>2. variants # <<>> => Made(low, tc) /\ Made(compat, tc)
  BY CompatMade
<1>3. \/ selected = <<>> \/ selected = aggressive \/ selected = balanced
      \/ variants # <<>> /\ (selected = low \/ selected = compat)
  BY DEF SelectVariants
<1> HIDE DEF low, compat, aggressive, balanced, selected
<1>4. Made(selected, tc)
  BY <1>1, <1>2, <1>3, MadeNone
<1> QED
  BY <1>4 DEF selected
-----------------------------------------------------------------------------
(***************************************************************************)
(* What the diagnosis asked for gets past both caps.  A fingerprint comes  *)
(* first of what is generated and of what is selected.  A transport comes  *)
(* first of what is generated, but after the paths in what is selected: it *)
(* is within the first six as long as there are no more than five paths.   *)
(***************************************************************************)
FewPaths == Len(Paths) <= 5

PathIDs(b) == {<<b, "path", p.slug>> : p \in ToSet(Paths)}

LEMMA MatchedFamily ==
    ASSUME NEW c, NEW pattern, Matches(c, pattern)
    PROVE  pattern[1] = Family(c)
<1> DEFINE family == c.id[2]
           value == c.id[3]
<1>1. pattern = <<family>> \/ pattern = <<family, value>>
  BY Zenon DEF Matches
<1> HIDE DEF family, value
<1>2. pattern[1] = family
  BY <1>1
<1> QED
  BY <1>2 DEF Family, family

LEMMA RotationsFamily ==
    ASSUME NEW tc, NEW family, NEW field, NEW choices, IsList(choices)
    PROVE  /\ IsList(Rotations(tc, family, field, choices))
           /\ \A c \in ToSet(Rotations(tc, family, field, choices)) : Family(c) = family
<1> DEFINE others == Among(choices, ToSet(choices) \ {tc.params[field]})
           With(v) == [tc.params EXCEPT ![field] = v]
           X == {Variant(tc, family, others[i], With(others[i])) : i \in DOMAIN others}
           r == [i \in DOMAIN others |-> Variant(tc, family, others[i], With(others[i]))]
<1>1. IsList(others)
  BY AmongList
<1>2. Len(others) \in Nat /\ DOMAIN others = 1..Len(others)
  BY <1>1 DEF IsList
<1>3. Rotations(tc, family, field, choices) = r
  BY Zenon DEF Rotations
<1>4. \A c \in X : Family(c) = family
  BY DEF Variant, Family
<1>5. r \in [1..Len(others) -> X]
  BY <1>2
<1> HIDE DEF others, X, r
<1>6. IsList(r) /\ ToSet(r) \subseteq X
  BY <1>2, <1>5, Listing
<1> QED
  BY <1>3, <1>4, <1>6

LEMMA PathsKnown ==
    ASSUME NEW tc
    PROVE  /\ IsList(vlessPathVariantsForTransport(tc))
           /\ \A c \in ToSet(vlessPathVariantsForTransport(tc)) :
                 c.id \in PathIDs(BaseIDOf(tc))
<1> DEFINE norm(p) == normalizeTransportPath(tc.params.tr, p)
           others == Among(Paths, {p \in ToSet(Paths) : norm(p) # tc.params.path})
           With(p) == [tc.params EXCEPT !.path = norm(p)]
           X == {Variant(tc, "path", others[i].slug, With(others[i])) : i \in DOMAIN others}
           r == [i \in DOMAIN others |->
                    Variant(tc, "path", others[i].slug, With(others[i]))]
<1>1. IsList(others) /\ ToSet(others) \subseteq ToSet(Paths)
  BY ListsAssumption, AmongList
<1>2. Len(others) \in Nat /\ DOMAIN others = 1..Len(others)
  BY <1>1 DEF IsList
<1>3. vlessPathVariantsForTransport(tc) = r \/ vlessPathVariantsForTransport(tc) = <<>>
  BY Zenon DEF vlessPathVariantsForTransport
<1>4. ASSUME NEW c \in X PROVE c.id \in PathIDs(BaseIDOf(tc))
  <2>1. PICK i \in DOMAIN others : c = Variant(tc, "path", others[i].slug, With(others[i]))
    OBVIOUS
  <2>2. others[i] \in ToSet(Paths)
    BY <1>1, <2>1 DEF ToSet
  <2> HIDE DEF With, X, others
  <2>3. c.id = <<BaseIDOf(tc), "path", others[i].slug>>
    BY <2>1 DEF Variant
  <2> QED
    BY <2>2, <2>3 DEF PathIDs
<1>5. r \in [1..Len(others) -> X]
  BY <1>2
<1> HIDE DEF others, X, r
<1>6. IsList(r) /\ ToSet(r) \subseteq X
  BY <1>2, <1>5, Listing
<1>7. IsList(<<>>) /\ ToSet(<<>>) = {}
  BY DEF IsList, ToSet
<1> QED
  BY <1>3, <1>4, <1>6, <1>7

(* Paths of different IDs are no more than there are.                      *)
LEMMA PathsFew ==
    ASSUME FewPaths, NEW b, NEW q, IsList(q), Distinct(q), NEW k \in 0..Len(q),
           \A i \in 1..k : q[i].id \in PathIDs(b)
    PROVE  k <= 5
<1> DEFINE N == Len(Paths)
           f == [i \in 1..N |-> <<b, "path", Paths[i].slug>>]
           g == [i \in 1..k |-> q[i].id]
<1>1. N \in Nat /\ ToSet(Paths) = {Paths[i] : i \in 1..N} /\ Len(q) \in Nat
  BY ListsAssumption DEF IsList, ToSet
<1>2. f \in Surjection(1..N, PathIDs(b))
  <2>1. PathIDs(b) = {<<b, "path", Paths[i].slug>> : i \in 1..N}
    BY <1>1 DEF PathIDs
  <2>2. \A i \in 1..N : f[i] = <<b, "path", Paths[i].slug>>
    OBVIOUS
  <2> HIDE DEF N
  <2>3. f \in [1..N -> PathIDs(b)]
    BY <2>1
  <2>4. \A id \in PathIDs(b) : \E i \in 1..N : f[i] = id
    BY <2>1, <2>2
  <2> HIDE DEF f
  <2> QED
    BY <2>3, <2>4 DEF Surjection
<1>3. \A m \in Nat : IsFiniteSet(1..m) /\ Cardinality(1..m) = m
  BY FS_Interval
<1>4. /\ IsFiniteSet(1..N) /\ Cardinality(1..N) = N
      /\ IsFiniteSet(1..k) /\ Cardinality(1..k) = k
  <2>1. k \in Nat
    BY <1>1
  <2> HIDE DEF N
  <2> QED
    BY <1>1, <1>3, <2>1
<1>5. g \in Injection(1..k, PathIDs(b))
  BY <1>1 DEF Injection, IsInjective, Distinct
<1> HIDE DEF f, g
<1>6. IsFiniteSet(PathIDs(b)) /\ Cardinality(PathIDs(b)) <= N
  BY <1>2, <1>4, FS_Surjection
<1>7. k <= Cardinality(PathIDs(b))
  BY <1>4, <1>5, <1>6, FS_Injection
<1>8. Cardinality(PathIDs(b)) \in Nat
  BY <1>6, FS_CardinalityType
<1> QED
  BY <1>1, <1>6, <1>7, <1>8 DEF FewPaths

(* The first transport in a list of distinct variants that are transports  *)
(* or paths is among the first six.                                        *)
LEMMA TransportWithinSix ==
    ASSUME FewPaths, NEW b, NEW q, IsList(q), Distinct(q), NEW j \in 1..Len(q),
           Family(q[j]) = "tr",
           \A i \in 1..(j - 1) : Family(q[i]) = "tr" \/ q[i].id \in PathIDs(b)
    PROVE  \E c \in ToSet(FirstOf(6, q)) : Family(c) = "tr"
<1> DEFINE T == {i \in 1..j : Family(q[i]) = "tr"}
<1>1. Len(q) \in Nat /\ T \subseteq Nat /\ j \in T
  BY DEF IsList
<1>2. PICK m \in T : \A i \in T : m <= i
  <2> HIDE DEF T
  <2> QED
    BY <1>1, LeastNat
<1>3. m \in 1..j /\ Family(q[m]) = "tr" /\ \A i \in 1..(m - 1) : i \notin T
  BY <1>2
<1>4. \A i \in 1..(m - 1) : i \in 1..(j - 1) /\ Family(q[i]) # "tr"
  BY <1>3
<1> HIDE DEF T
<1> DEFINE k == m - 1
<1>5. k \in 0..Len(q) /\ \A i \in 1..k : q[i].id \in PathIDs(b)
  BY <1>1, <1>3, <1>4
<1> HIDE DEF k
<1>6. k <= 5
  BY <1>5, PathsFew
<1>7. m \in 1..Len(q) /\ m <= 6
  BY <1>1, <1>3, <1>6 DEF k
<1>8. q[m] \in ToSet(FirstOf(6, q))
  BY <1>7, BeginningKeeps
<1> QED
  BY <1>3, <1>8

LEMMA TransportJoins ==
    ASSUME FewPaths, NEW b, NEW chosen, IsList(chosen), Distinct(chosen),
           \A c \in ToSet(chosen) : Family(c) = "tr" \/ c.id \in PathIDs(b),
           NEW rest, IsList(rest), rest # <<>>, Family(rest[1]) = "tr"
    PROVE  \E c \in ToSet(FirstOf(6, appendUnique(chosen, rest))) : Family(c) = "tr"
<1> DEFINE q == appendUnique(chosen, rest)
           n == Len(chosen)
<1>1. IsList(q) /\ Extends(q, chosen, rest)
  BY UniqueList, UniqueExtends
<1>2. Len(q) \in Nat /\ n \in Nat /\ DOMAIN chosen = 1..n
  BY <1>1 DEF IsList
<1>3. \A i \in 1..n : chosen[i] \in ToSet(chosen)
  BY <1>2 DEF ToSet
<1>4. Distinct(q) /\ Len(q) >= n /\ \A i \in 1..n : q[i] = chosen[i]
  BY <1>1 DEF Extends
<1>5. \A i \in 1..n : Family(q[i]) = "tr" \/ q[i].id \in PathIDs(b)
  BY <1>3, <1>4
<1> DEFINE Leads(j) ==
               /\ Family(q[j]) = "tr"
               /\ \A i \in 1..(j - 1) : Family(q[i]) = "tr" \/ q[i].id \in PathIDs(b)
<1>6. ASSUME Holds(chosen, rest[1])
      PROVE  \E j \in 1..Len(q) : Leads(j)
  <2>1. PICK j \in 1..n : chosen[j].id = rest[1].id
    BY <1>2, <1>6 DEF Holds
  <2>2. Family(q[j]) = "tr"
    BY <1>4, <2>1 DEF Family
  <2>3. j \in 1..Len(q) /\ \A i \in 1..(j - 1) : i \in 1..n
    BY <1>2, <1>4
  <2> HIDE DEF q, n
  <2> QED
    BY <1>5, <2>2, <2>3
<1>7. ASSUME ~Holds(chosen, rest[1])
      PROVE  \E j \in 1..Len(q) : Leads(j)
  <2>1. Len(q) > n /\ q[n + 1] = rest[1]
    BY <1>7, UniqueNext
  <2> DEFINE j == n + 1
  <2>2. j \in 1..Len(q) /\ Family(q[j]) = "tr" /\ \A i \in 1..(j - 1) : i \in 1..n
    BY <1>2, <2>1
  <2> HIDE DEF q, n, j
  <2> QED
    BY <1>5, <2>2
<1>8. \E c \in ToSet(FirstOf(6, q)) : Family(c) = "tr"
  <2> HIDE DEF q
  <2> QED
    BY <1>1, <1>4, <1>6, <1>7, TransportWithinSix
<1> QED
  BY <1>8

(* What the generator begins with.                                         *)
LEMMA GeneratedFirst ==
    ASSUME NEW tc, IsBase(tc), tc.protocol = "vless", NEW hint, NEW maxVariants \in Nat
    PROVE  LET v == GenerateVariants(tc, hint, maxVariants)
           IN /\ hint # "http_dpi" /\ vlessFingerprintVariants(tc) # <<>>
                    => v # <<>> /\ Family(v[1]) = "fp"
              /\ hint = "http_dpi" =>
                    \A c \in ToSet(v) :
                        Family(c) \in {"tr", "fp"} \/ c.id \in PathIDs(BaseIDOf(tc))
              /\ hint = "http_dpi" /\ vlessTransportVariants(tc) # <<>>
                    => v # <<>> /\ Family(v[1]) = "tr"
<1> DEFINE fp == vlessFingerprintVariants(tc)
           tr == vlessTransportVariants(tc)
           ech == vlessECHVariants(tc)
           paths == IF hint \in {"http_dpi", "tls_dpi", "none"}
                    THEN vlessPathVariantsForTransport(tc) ELSE <<>>
           ports == IF hint \in PortHints THEN portVariants(tc, "port") ELSE <<>>
           first == IF hint = "http_dpi" THEN tr \o fp ELSE fp \o tr \o ech
           all == first \o paths \o ports
           cap == IF maxVariants <= 0 THEN 8 ELSE maxVariants
           v == GenerateVariants(tc, hint, maxVariants)
<1>1. cap \in Nat /\ 1 <= cap
  OBVIOUS
<1>2. v = FirstOf(cap, all)
  <2>1. vlessVariants(tc, hint) = all
    BY Zenon DEF vlessVariants
  <2>2. v = FirstOf(cap, vlessVariants(tc, hint))
    <3> HIDE DEF fp, tr, ech, paths, ports
    <3> QED
      BY DEF GenerateVariants
  <2> HIDE DEF all, v
  <2> QED
    BY <2>1, <2>2
<1>3. IsList(<<>>) /\ ToSet(<<>>) = {}
  BY DEF IsList, ToSet
<1>4. IsList(fp) /\ \A c \in ToSet(fp) : Family(c) = "fp"
  BY ListsAssumption, RotationsFamily DEF vlessFingerprintVariants
<1>5. IsList(tr) /\ \A c \in ToSet(tr) : Family(c) = "tr"
  <2> DEFINE withPath == [tc EXCEPT !.params.path = IF @ = "" THEN "/" ELSE @]
  <2>1. tr = Rotations(withPath, "tr", "tr", Transports)
    BY Zenon DEF vlessTransportVariants
  <2> HIDE DEF withPath, tr
  <2> QED
    BY <2>1, ListsAssumption, RotationsFamily
<1>6. /\ IsList(paths)
      /\ \A c \in ToSet(paths) : c.id \in PathIDs(BaseIDOf(tc))
  BY <1>3, PathsKnown
<1>7. IsList(ports) /\ (hint = "http_dpi" => ports = <<>>)
  BY <1>3, PortsMade DEF IsBase, Made, PortHints
<1>8. IsList(ech)
  <2> DEFINE c == Variant(tc, "ech", "on", [tc.params EXCEPT !.ech = TRUE])
  <2>1. ech = <<c>> \/ ech = <<>>
    BY Zenon DEF vlessECHVariants
  <2> HIDE DEF c, ech
  <2>2. IsList(<<c>>)
    BY DEF IsList, ToSet
  <2> QED
    BY <1>3, <2>1, <2>2
<1>9. \A s : IsList(s) /\ s # <<>> => 1 \in 1..Len(s) /\ s[1] \in ToSet(s)
  BY DEF IsList, ToSet
<1> HIDE DEF fp, tr, ech, paths, ports
<1>10. IsList(first) /\ IsList(all)
  BY <1>4, <1>5, <1>6, <1>7, <1>8, Joined
<1>11. first # <<>> => all # <<>> /\ all[1] = first[1]
  <2> HIDE DEF first
  <2>1. first # <<>> => /\ IsList(first \o paths) /\ first \o paths # <<>>
                        /\ (first \o paths)[1] = first[1]
    BY <1>6, <1>10, Joined, JoinedFirst
  <2> QED
    BY <1>7, <2>1, JoinedFirst
<1>12. all # <<>> => v # <<>> /\ v[1] = all[1]
  <2> HIDE DEF all, cap, v
  <2> QED
    BY <1>1, <1>2, <1>9, <1>10, BeginningKeeps
<1>13. ASSUME hint # "http_dpi", fp # <<>>
       PROVE  v # <<>> /\ Family(v[1]) = "fp"
  <2>1. IsList(fp \o tr) /\ fp \o tr # <<>> /\ (fp \o tr)[1] = fp[1]
    BY <1>4, <1>5, <1>13, Joined, JoinedFirst
  <2>2. first # <<>> /\ first[1] = fp[1]
    BY <1>8, <1>13, <2>1, JoinedFirst
  <2> HIDE DEF first, all, v
  <2> QED
    BY <1>4, <1>9, <1>11, <1>12, <1>13, <2>2
<1>14. ASSUME hint = "http_dpi", tr # <<>>
       PROVE  v # <<>> /\ Family(v[1]) = "tr"
  <2>1. first # <<>> /\ first[1] = tr[1]
    BY <1>4, <1>5, <1>14, JoinedFirst
  <2> HIDE DEF first, all, v
  <2> QED
    BY <1>5, <1>9, <1>11, <1>12, <1>14, <2>1
<1>15. ASSUME hint = "http_dpi", NEW c \in ToSet(v)
       PROVE  Family(c) \in {"tr", "fp"} \/ c.id \in PathIDs(BaseIDOf(tc))
  <2>1. ToSet(v) \subseteq ToSet(all)
    <3> HIDE DEF all, cap, v
    <3> QED
      BY <1>1, <1>2, <1>10, Beginning
  <2>2. first = tr \o fp /\ ports = <<>>
    BY <1>7, <1>15
  <2>3. IsList(tr \o fp) /\ ToSet(tr \o fp) \subseteq ToSet(tr) \cup ToSet(fp)
    BY <1>4, <1>5, Joined
  <2>4. /\ IsList((tr \o fp) \o paths)
        /\ ToSet((tr \o fp) \o paths) \subseteq ToSet(tr \o fp) \cup ToSet(paths)
    BY <1>6, <2>3, Joined
  <2>5. ToSet(all) \subseteq ToSet((tr \o fp) \o paths) \cup ToSet(<<>>)
    <3> DEFINE s == (tr \o fp) \o paths
    <3>1. all = s \o <<>>
      BY <2>2
    <3> HIDE DEF s, all
    <3> QED
      BY <1>3, <2>4, <3>1, Joined DEF s
  <2> HIDE DEF all, v, first
  <2> QED
    BY <1>3, <1>4, <1>5, <1>6, <1>15, <2>1, <2>3, <2>4, <2>5
<1> QED
  BY <1>13, <1>14, <1>15 DEF fp, tr

(* The patterns a diagnosis begins with.                                   *)
LEMMA TLSPatterns ==
    ASSUME NEW reason, reason[1] = "tls", NEW hint, NEW safeOnly \in BOOLEAN
    PROVE  LET patterns == patternsForReason(reason, hint, safeOnly)
           IN Len(patterns) \in Nat /\ Len(patterns) > 0 /\ patterns[1] = <<"fp">>
<1>1. patternsForReason(reason, hint, safeOnly) =
          IF safeOnly THEN <<<<"fp">>, <<"mtu">>>>
          ELSE <<<<"fp">>, <<"path">>, <<"tr", "tcp">>, <<"tr", "ws">>, <<"mtu">>>>
  BY DEF patternsForReason
<1> QED
  BY <1>1

LEMMA HTTPPatterns ==
    ASSUME NEW reason, reason[1] = "http", NEW hint
    PROVE  LET patterns == patternsForReason(reason, hint, FALSE)
           IN /\ Len(patterns) \in Nat
              /\ \A n \in 1..Len(patterns) : patterns[n][1] \in {"path", "tr", "mtu"}
<1> DEFINE patterns == <<<<"path">>, <<"tr", "ws">>, <<"tr", "httpupgrade">>,
                         <<"tr", "grpc">>, <<"mtu">>>>
<1>1. patternsForReason(reason, hint, FALSE) = patterns
  BY DEF patternsForReason
<1>2. Len(patterns) = 5
  OBVIOUS
<1>3. \A n \in 1..5 : patterns[n][1] \in {"path", "tr", "mtu"}
  <2>1. /\ patterns[1][1] = "path" /\ patterns[2][1] = "tr" /\ patterns[3][1] = "tr"
        /\ patterns[4][1] = "tr" /\ patterns[5][1] = "mtu"
    OBVIOUS
  <2>2. \A n \in 1..5 : n = 1 \/ n = 2 \/ n = 3 \/ n = 4 \/ n = 5
    OBVIOUS
  <2> HIDE DEF patterns
  <2> QED
    BY <2>1, <2>2
<1> HIDE DEF patterns
<1>4. \A n \in 1..Len(patterns) : patterns[n][1] \in {"path", "tr", "mtu"}
  BY <1>2, <1>3
<1>5. Len(patterns) \in Nat
  BY <1>2
<1> QED
  BY <1>1, <1>4, <1>5, Zenon

LEMMA FingerprintSelected ==
    ASSUME NEW v, IsList(v), v # <<>>, Family(v[1]) = "fp",
           NEW reason, reason[1] = "tls", NEW hint, NEW profile,
           NEW confidence \in Int, confidence >= 60
    PROVE  \E c \in ToSet(SelectVariants(profile, reason, hint, confidence, v)) :
               Family(c) = "fp"
<1> DEFINE Begins(s) == IsList(s) /\ s # <<>> /\ s[1] = v[1]
           ordered(safeOnly) == InOrderOf(patternsForReason(reason, hint, safeOnly), v)
           selected == SelectVariants(profile, reason, hint, confidence, v)
<1>1. Matches(v[1], <<"fp">>)
  BY DEF Matches, Family
<1>2. ASSUME NEW safeOnly \in BOOLEAN PROVE Begins(ordered(safeOnly))
  <2> DEFINE patterns == patternsForReason(reason, hint, safeOnly)
  <2>1. Len(patterns) \in Nat /\ Len(patterns) > 0 /\ patterns[1] = <<"fp">>
    BY TLSPatterns
  <2> HIDE DEF patterns
  <2>2. InOrderOf(patterns, v) # <<>> /\ InOrderOf(patterns, v)[1] = v[1]
    BY <1>1, <2>1, OrderedHold
  <2>3. IsList(InOrderOf(patterns, v))
    BY <2>1, OrderedList
  <2> QED
    BY <2>2, <2>3 DEF patterns
<1>3. ASSUME NEW s, Begins(s), NEW t, IsList(t) PROVE Begins(appendUnique(s, t))
  <2> DEFINE q == appendUnique(s, t)
  <2>1. IsList(q) /\ Extends(q, s, t)
    BY <1>3, UniqueList, UniqueExtends
  <2>2. Len(s) \in Nat /\ 1 \in 1..Len(s)
    BY <1>3 DEF IsList
  <2> HIDE DEF q
  <2>3. q[1] = s[1] /\ Len(q) >= Len(s)
    BY <2>1, <2>2 DEF Extends
  <2>4. q # <<>>
    BY <2>1, <2>2, <2>3 DEF IsList
  <2> QED
    BY <1>3, <2>1, <2>3, <2>4 DEF q
<1>4. ASSUME NEW s, Begins(s), NEW n \in Nat, n >= 1 PROVE Begins(FirstOf(n, s))
  <2>1. 1 \in 1..Len(s) /\ 1 <= n
    BY <1>4 DEF IsList
  <2>2. FirstOf(n, s) # <<>> /\ FirstOf(n, s)[1] = s[1] /\ IsList(FirstOf(n, s))
    BY <1>4, <2>1, BeginningKeeps, Beginning
  <2> QED
    BY <1>4, <2>2
<1> HIDE DEF Begins
<1>5. Begins(compatSelect(reason, hint, v))
  <2>1. ordered(TRUE) # <<>>
    BY <1>2 DEF Begins
  <2> DEFINE chosen == ordered(TRUE)
             safest == InOrderOf(<<<<"mtu">>, <<"awg", "mild">>>>, v)
             picked == CASE chosen # <<>> -> chosen
                         [] chosen = <<>> /\ safest # <<>> -> safest
                         [] OTHER -> <<v[1]>>
  <2>2. compatSelect(reason, hint, v) = FirstOf(3, picked)
    BY Zenon DEF compatSelect
  <2>3. Begins(chosen)
    BY <1>2
  <2> HIDE DEF ordered, safest
  <2>4. picked = chosen
    BY <2>1
  <2> HIDE DEF picked, chosen
  <2>5. Begins(FirstOf(3, picked))
    BY <1>4, <2>3, <2>4
  <2> QED
    BY <2>2, <2>5
<1>6. Begins(aggressiveSelect(reason, hint, v))
  BY <1>2, <1>3 DEF aggressiveSelect
<1>7. Begins(balancedSelect(reason, hint, v))
  <2> DEFINE tame(c) == hint = "protocol_dpi" \/ ~Matches(c, <<"awg", "aggressive">>)
             rest == Among(v, {c \in ToSet(v) : tame(c)})
  <2>1. balancedSelect(reason, hint, v) = FirstOf(6, appendUnique(ordered(FALSE), rest))
    BY Zenon DEF balancedSelect
  <2>2. IsList(rest)
    BY AmongList
  <2>3. Begins(ordered(FALSE))
    BY <1>2
  <2> DEFINE all == appendUnique(ordered(FALSE), rest)
  <2> HIDE DEF rest, ordered
  <2>4. Begins(all)
    BY <1>3, <2>2, <2>3
  <2> HIDE DEF all
  <2>5. Begins(FirstOf(6, all))
    BY <1>4, <2>4
  <2> QED
    BY <2>1, <2>5 DEF all
<1>8. Begins(selected)
  <2> DEFINE low == compatSelect(<<"low_confidence">>, hint, v)
             compat == compatSelect(reason, hint, v)
             aggressive == aggressiveSelect(reason, hint, v)
             balanced == balancedSelect(reason, hint, v)
  <2>1. ~(confidence < 40) /\ confidence >= 40
    OBVIOUS
  <2>2. selected \in {compat, aggressive, balanced}
    BY <2>1 DEF SelectVariants
  <2> HIDE DEF low, compat, aggressive, balanced, selected
  <2> QED
    BY <1>5, <1>6, <1>7, <2>2 DEF compat, aggressive, balanced
<1> HIDE DEF selected
<1>9. selected[1] \in ToSet(selected) /\ selected[1] = v[1]
  BY <1>8 DEF Begins, IsList, ToSet
<1> QED
  BY <1>9 DEF selected

LEMMA TransportSelected ==
    ASSUME FewPaths, NEW b, NEW v, IsList(v), v # <<>>, Family(v[1]) = "tr",
           \A c \in ToSet(v) : Family(c) \in {"tr", "fp"} \/ c.id \in PathIDs(b),
           NEW reason, reason[1] = "http", NEW hint, NEW profile, profile # "compat",
           NEW confidence \in Int, confidence >= 60
    PROVE  \E c \in ToSet(SelectVariants(profile, reason, hint, confidence, v)) :
               Family(c) = "tr"
<1> DEFINE patterns == patternsForReason(reason, hint, FALSE)
           chosen == InOrderOf(patterns, v)
           tame(c) == hint = "protocol_dpi" \/ ~Matches(c, <<"awg", "aggressive">>)
           rest == Among(v, {c \in ToSet(v) : tame(c)})
           selected == SelectVariants(profile, reason, hint, confidence, v)
<1>1. /\ Len(patterns) \in Nat
      /\ \A n \in 1..Len(patterns) : patterns[n][1] \in {"path", "tr", "mtu"}
  BY HTTPPatterns
<1>2. v[1] \in ToSet(v)
  BY DEF IsList, ToSet
<1>3. IsList(rest) /\ rest # <<>> /\ rest[1] = v[1]
  <2>1. ~Matches(v[1], <<"awg", "aggressive">>)
    <3> DEFINE pattern == <<"awg", "aggressive">>
    <3>1. pattern[1] # Family(v[1])
      OBVIOUS
    <3> HIDE DEF pattern
    <3>2. ~Matches(v[1], pattern)
      BY <3>1, MatchedFamily
    <3> QED
      BY <3>2 DEF pattern
  <2>2. v[1] \in {c \in ToSet(v) : tame(c)}
    BY <1>2, <2>1
  <2> HIDE DEF tame
  <2> QED
    BY <2>2, AmongFirst, AmongList
<1>4. balancedSelect(reason, hint, v) = FirstOf(6, appendUnique(chosen, rest))
  BY Zenon DEF balancedSelect
<1>5. aggressiveSelect(reason, hint, v) = appendUnique(chosen, v)
  BY Zenon DEF aggressiveSelect
<1> HIDE DEF patterns, rest
<1>6. /\ IsList(chosen) /\ ToSet(chosen) \subseteq ToSet(v) /\ Distinct(chosen)
      /\ \A c \in ToSet(chosen) : \E n \in 1..Len(patterns) : Matches(c, patterns[n])
  BY <1>1, OrderedList, OrderedHold
<1> HIDE DEF chosen
<1>7. \A c \in ToSet(chosen) : Family(c) = "tr" \/ c.id \in PathIDs(b)
  <2> SUFFICES ASSUME NEW c \in ToSet(chosen), c.id \notin PathIDs(b)
               PROVE  Family(c) = "tr"
    OBVIOUS
  <2>1. PICK n \in 1..Len(patterns) : Matches(c, patterns[n])
    BY <1>6
  <2>2. Family(c) \in {"path", "tr", "mtu"}
    BY <1>1, <2>1, MatchedFamily
  <2>3. Family(c) \in {"tr", "fp"}
    BY <1>6
  <2> QED
    BY <2>2, <2>3
<1>8. \E c \in ToSet(balancedSelect(reason, hint, v)) : Family(c) = "tr"
  BY <1>3, <1>4, <1>6, <1>7, TransportJoins
<1>9. \E c \in ToSet(aggressiveSelect(reason, hint, v)) : Family(c) = "tr"
  <2> DEFINE q == appendUnique(chosen, v)
  <2>1. IsList(q)
    BY <1>6, UniqueList
  <2>2. \E c \in ToSet(FirstOf(6, q)) : Family(c) = "tr"
    BY <1>6, <1>7, TransportJoins
  <2> HIDE DEF q
  <2>3. ToSet(FirstOf(6, q)) \subseteq ToSet(q)
    BY <2>1, Beginning
  <2> QED
    BY <1>5, <2>2, <2>3 DEF q
<1>10. selected \in {aggressiveSelect(reason, hint, v), balancedSelect(reason, hint, v)}
  <2> DEFINE low == compatSelect(<<"low_confidence">>, hint, v)
             compat == compatSelect(reason, hint, v)
             aggressive == aggressiveSelect(reason, hint, v)
             balanced == balancedSelect(reason, hint, v)
  <2>1. ~(confidence < 40) /\ confidence >= 40
    OBVIOUS
  <2> QED
    BY <2>1 DEF SelectVariants
<1> HIDE DEF selected
<1> QED
  BY <1>8, <1>9, <1>10 DEF selected
-----------------------------------------------------------------------------
(* Candidates rebuilt from an entry and made from a recommendation.        *)

LEMMA RebuiltID ==
    ASSUME NEW tc, NEW id, NEW e
    PROVE  rebuildVariant(tc, id, e).id = id
BY DEF rebuildVariant

(* A field of an entry that says something.                                *)
Says(x) == x # ""

(* What rebuilding keeps of the base config and takes from the entry.      *)
LEMMA Rebuilt ==
    ASSUME NEW tc, HasFields(tc), NEW id, NEW e, NEW c, c = rebuildVariant(tc, id, e)
    PROVE  /\ c.id = id /\ c.protocol = tc.protocol /\ HasFields(c)
           /\ c.params.mtu = IF e.mtu > 0 THEN e.mtu ELSE tc.params.mtu
           /\ c.params.port = tc.params.port
           /\ ~Says(e.profile) => c.params.junk = tc.params.junk
           /\ c.params.fp = IF tc.protocol = "vless" /\ Says(e.fp) THEN e.fp ELSE tc.params.fp
           /\ c.params.tr = IF tc.protocol = "vless" /\ Says(e.tr) THEN e.tr ELSE tc.params.tr
           /\ tc.protocol = "awg" /\ Says(e.profile)
                 => c.params.junk = e.profile /\ c.params.pads = PadsOf(e.profile)
<1> DEFINE p == tc.params
           mtu == IF e.mtu > 0 THEN e.mtu ELSE p.mtu
           fp == IF tc.protocol = "vless" /\ e.fp # "" THEN e.fp ELSE p.fp
           tr == IF tc.protocol = "vless" /\ e.tr # "" THEN e.tr ELSE p.tr
           junk == IF tc.protocol = "awg" /\ e.profile # "" THEN e.profile ELSE p.junk
           pads == IF tc.protocol = "awg" /\ e.profile # "" THEN PadsOf(e.profile) ELSE p.pads
           q == [p EXCEPT !.mtu = mtu, !.fp = fp, !.tr = tr, !.junk = junk, !.pads = pads]
<1>1. c = [id |-> id, protocol |-> tc.protocol, params |-> q]
  BY DEF rebuildVariant
<1>2. DOMAIN p = DOMAIN Unset
  BY DEF HasFields
<1> HIDE DEF p, mtu, fp, tr, junk, pads
<1>3. /\ DOMAIN q = DOMAIN Unset /\ q.mtu = mtu /\ q.fp = fp /\ q.tr = tr
      /\ q.port = p.port /\ q.junk = junk /\ q.pads = pads
  BY <1>2, Fields
<1> HIDE DEF q
<1>4. c.id = id /\ c.protocol = tc.protocol /\ c.params = q
  BY <1>1
<1>5. c.params.mtu = IF e.mtu > 0 THEN e.mtu ELSE tc.params.mtu
  BY <1>3, <1>4 DEF p, mtu
<1>6. c.params.port = tc.params.port /\ HasFields(c)
  BY <1>3, <1>4 DEF HasFields, p
<1>7. /\ ~Says(e.profile) => c.params.junk = tc.params.junk
      /\ tc.protocol = "awg" /\ Says(e.profile)
            => c.params.junk = e.profile /\ c.params.pads = PadsOf(e.profile)
  BY <1>3, <1>4, Zenon DEF Says, p, junk, pads
<1>8. /\ c.params.fp = IF tc.protocol = "vless" /\ Says(e.fp) THEN e.fp ELSE tc.params.fp
      /\ c.params.tr = IF tc.protocol = "vless" /\ Says(e.tr) THEN e.tr ELSE tc.params.tr
  BY <1>3, <1>4, Zenon DEF Says, p, fp, tr
<1> QED
  BY <1>4, <1>5, <1>6, <1>7, <1>8, Zenon

(* What an accepted recommendation can change.                             *)
LEMMA Recommended ==
    ASSUME NEW tc, HasFields(tc), NEW r, NEW c, c = BuildVariantFromRecommendation(tc, r)
    PROVE  /\ c = [id |-> c.id, protocol |-> tc.protocol, params |-> c.params]
           /\ BaseIDOf(c) = BaseIDOf(tc) /\ Family(c) = "ai" /\ HasFields(c)
           /\ c.params.tr = IF tc.protocol = "vless" /\ Says(r.tr) THEN r.tr
                            ELSE tc.params.tr
           /\ tc.protocol # "vless" => c.params.fp = tc.params.fp
           /\ c.params.mtu = tc.params.mtu \/ (r.mtu > 0 /\ c.params.mtu = r.mtu)
           /\ c.params.port = tc.params.port \/ (r.port > 0 /\ c.params.port = r.port)
           /\ c.params.junk = tc.params.junk \/ (Says(r.junk) /\ c.params.junk = r.junk)
<1> DEFINE p == tc.params
           vless == tc.protocol = "vless"
           mtu == IF r.mtu > 0 THEN r.mtu ELSE p.mtu
           port == IF r.port > 0 /\ (p.port > 0 \/ vless) THEN r.port ELSE p.port
           tr == IF vless /\ r.tr # "" THEN r.tr ELSE p.tr
           fp == IF vless /\ r.fp # "" THEN r.fp ELSE p.fp
           path == IF vless /\ r.path # NoPath THEN normalizeTransportPath(tr, r.path)
                   ELSE p.path
           junk == IF tc.protocol = "awg" /\ r.junk # "" THEN r.junk ELSE p.junk
           q == [p EXCEPT !.mtu = mtu, !.port = port, !.tr = tr, !.fp = fp, !.path = path,
                          !.junk = junk]
<1>1. c = [id |-> <<BaseIDOf(tc), "ai", "">>, protocol |-> tc.protocol, params |-> q]
  BY DEF BuildVariantFromRecommendation, Variant
<1>2. DOMAIN p = DOMAIN Unset
  BY DEF HasFields
<1> HIDE DEF p, mtu, port, tr, fp, path, junk
<1>3. /\ DOMAIN q = DOMAIN Unset /\ q.tr = tr /\ q.fp = fp
      /\ q.mtu = mtu /\ q.port = port /\ q.junk = junk
  BY <1>2, Fields
<1> HIDE DEF q
<1>4. /\ c.id = <<BaseIDOf(tc), "ai", "">> /\ c.protocol = tc.protocol /\ c.params = q
      /\ c = [id |-> c.id, protocol |-> tc.protocol, params |-> c.params]
  <2>1. \A i, s, t : c = [id |-> i, protocol |-> s, params |-> t]
            => /\ c.id = i /\ c.protocol = s /\ c.params = t
               /\ c = [id |-> c.id, protocol |-> s, params |-> c.params]
    OBVIOUS
  <2> QED
    BY <1>1, <2>1, Zenon
<1>5. /\ c.params.mtu = tc.params.mtu \/ (r.mtu > 0 /\ c.params.mtu = r.mtu)
      /\ c.params.port = tc.params.port \/ (r.port > 0 /\ c.params.port = r.port)
  BY <1>3, <1>4 DEF p, mtu, port
<1>6. c.params.junk = tc.params.junk \/ (Says(r.junk) /\ c.params.junk = r.junk)
  BY <1>3, <1>4, Zenon DEF Says, p, junk
<1>7. /\ c.params.tr = IF tc.protocol = "vless" /\ Says(r.tr) THEN r.tr ELSE tc.params.tr
      /\ tc.protocol # "vless" => c.params.fp = tc.params.fp
      /\ HasFields(c)
  BY <1>3, <1>4, Zenon DEF HasFields, Says, p, vless, tr, fp
<1>8. BaseIDOf(c) = BaseIDOf(tc) /\ Family(c) = "ai"
  BY <1>4, IDParts, Zenon
<1> QED
  BY <1>4, <1>5, <1>6, <1>7, <1>8, Zenon

(* The bounds of the validator, and what an accepted answer can say.       *)
MTURange == 1200..1420
PortRange == 1..MaxPort
AllowedTransports == {"tcp", "ws", "grpc", "httpupgrade"}

Bounded(r) ==
    /\ r.mtu > 0 => r.mtu \in MTURange
    /\ r.port > 0 => r.port \in PortRange
    /\ Says(r.tr) => r.tr \in AllowedTransports
    /\ Says(r.junk) => r.junk \in ToSet(Profiles)

LEMMA Validated ==
    ASSUME NEW r, NEW least, ValidateRecommendation(r, least)
    PROVE  Bounded(r)
<1>1. r.mtu = 0 \/ r.mtu \in MTURange
  BY Zenon DEF ValidateRecommendation, MTURange
<1>2. r.port \in 0..MaxPort
  BY Zenon DEF ValidateRecommendation
<1>3. Says(r.tr) => r.tr \in AllowedTransports
  <2>1. r.tr \in {"", "tcp", "ws", "grpc", "httpupgrade"}
    BY Zenon DEF ValidateRecommendation
  <2> QED
    BY <2>1, Zenon DEF Says, AllowedTransports
<1>4. Says(r.junk) => r.junk \in ToSet(Profiles)
  <2>1. r.junk \in {""} \cup ToSet(Profiles)
    BY Zenon DEF ValidateRecommendation
  <2> QED
    BY <2>1, Zenon DEF Says
<1>5. r.mtu > 0 => r.mtu \in MTURange
  BY <1>1
<1>6. r.port > 0 => r.port \in PortRange
  BY <1>2 DEF PortRange
<1> QED
  BY <1>3, <1>4, <1>5, <1>6 DEF Bounded
=============================================================================
