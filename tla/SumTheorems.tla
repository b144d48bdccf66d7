------------------------------ MODULE SumTheorems ------------------------------
(***************************************************************************)
(* Facts about sums over finite sets, for every function and set.          *)
(***************************************************************************)
EXTENDS Sums, FiniteSetTheorems, NaturalsInduction, WellFoundedInduction, TLAPS

-----------------------------------------------------------------------------
(***************************************************************************)
(* What a sum is.                                                          *)
(***************************************************************************)

\* The element of s that is taken first.
Pick(s) == CHOOSE x \in s : TRUE

\* g[s] is the sum of f over s, for every part s of S, taken in that order.
IsSum(g, f, S) ==
  g = [s \in SUBSET S |-> IF s = {} THEN 0 ELSE f[Pick(s)] + g[s \ {Pick(s)}]]

\* A set of finite sets that is not empty has one of least cardinality.
LEMMA LeastSet ==
  ASSUME NEW C, C # {}, \A s \in C : IsFiniteSet(s)
  PROVE  \E s \in C : \A t \in C : ~(Cardinality(t) < Cardinality(s))
<1> DEFINE sizes == {Cardinality(s) : s \in C}
<1>1. sizes \subseteq Nat /\ sizes # {}
  BY FS_CardinalityType
<1>2. \A s \in C : Cardinality(s) \in sizes
  OBVIOUS
<1>3. \A n \in sizes : \E s \in C : Cardinality(s) = n
  OBVIOUS
<1> HIDE DEF sizes
<1>4. \E x \in sizes : \A y \in sizes : ~(<<y, x>> \in OpToRel(<, Nat))
  BY <1>1, WFMin, NatLessThanWellFounded, Zenon
<1>5. \E x \in sizes : \A y \in sizes : ~(y < x)
  BY <1>1, <1>4, Zenon DEF OpToRel
<1> QED BY <1>2, <1>3, <1>5

\* Without one of its elements a finite set is smaller.
LEMMA Smaller ==
  ASSUME NEW s, IsFiniteSet(s), NEW x \in s
  PROVE  IsFiniteSet(s \ {x}) /\ Cardinality(s \ {x}) < Cardinality(s)
<1>1. IsFiniteSet(s \ {x}) /\ Cardinality(s \ {x}) = Cardinality(s) - 1
  BY FS_RemoveElement
<1>2. Cardinality(s) \in Nat
  BY FS_CardinalityType
<1> QED BY <1>1, <1>2

\* What the definition of a sum gives for a part of the set.
LEMMA SumUnfolds ==
  ASSUME NEW S, NEW f, NEW g, IsSum(g, f, S), NEW s \in SUBSET S
  PROVE  /\ s = {} => g[s] = 0
         /\ s # {} => Pick(s) \in s /\ g[s] = f[Pick(s)] + g[s \ {Pick(s)}]
<1>1. g[s] = IF s = {} THEN 0 ELSE f[Pick(s)] + g[s \ {Pick(s)}]
  BY DEF IsSum
<1>2. s # {} => Pick(s) \in s
  BY DEF Pick
<1> QED BY <1>1, <1>2

\* Sums of natural numbers are natural numbers.
LEMMA SumNat ==
  ASSUME NEW S, IsFiniteSet(S), NEW f, \A x \in S : f[x] \in Nat, NEW g, IsSum(g, f, S)
  PROVE  \A s \in SUBSET S : g[s] \in Nat
<1> DEFINE C == {s \in SUBSET S : g[s] \notin Nat}
<1> SUFFICES ASSUME C # {} PROVE FALSE
  OBVIOUS
<1>1. \A s \in C : IsFiniteSet(s)
  BY FS_Subset
<1> HIDE DEF C
<1>2. PICK s \in C : \A t \in C : ~(Cardinality(t) < Cardinality(s))
  BY <1>1, LeastSet
<1>3. s \in SUBSET S /\ g[s] \notin Nat
  BY <1>2 DEF C
<1>4. s # {}
  <2>1. s = {} => g[s] = 0
    BY <1>3, SumUnfolds
  <2> QED BY <1>3, <2>1
<1>5. PICK x \in s : g[s] = f[x] + g[s \ {x}]
  BY <1>3, <1>4, SumUnfolds
<1>6. s \ {x} \notin C
  BY <1>1, <1>2, <1>5, Smaller
<1>7. g[s \ {x}] \in Nat /\ f[x] \in Nat
  BY <1>3, <1>5, <1>6 DEF C
<1> QED BY <1>3, <1>5, <1>7

\* Two sums of the same values agree.
LEMMA SumAgrees ==
  ASSUME NEW S, IsFiniteSet(S), NEW f, NEW g, IsSum(g, f, S),
         NEW T, NEW h, NEW k, IsSum(k, h, T), T \subseteq S, \A x \in T : h[x] = f[x]
  PROVE  \A s \in SUBSET T : k[s] = g[s]
<1> DEFINE C == {s \in SUBSET T : k[s] # g[s]}
<1> SUFFICES ASSUME C # {} PROVE FALSE
  OBVIOUS
<1>1. \A s \in C : IsFiniteSet(s)
  BY FS_Subset
<1> HIDE DEF C
<1>2. PICK s \in C : \A t \in C : ~(Cardinality(t) < Cardinality(s))
  BY <1>1, LeastSet
<1>3. s \in SUBSET T /\ s \in SUBSET S /\ k[s] # g[s]
  BY <1>2 DEF C
<1>4. s # {}
  BY <1>3, SumUnfolds
<1>5. PICK x \in s : x = Pick(s) /\ g[s] = f[x] + g[s \ {x}]
  BY <1>3, <1>4, SumUnfolds
<1>6. k[s] = h[x] + k[s \ {x}]
  BY <1>3, <1>4, <1>5, SumUnfolds
<1>7. s \ {x} \notin C
  BY <1>1, <1>2, <1>5, Smaller
<1>8. k[s \ {x}] = g[s \ {x}] /\ h[x] = f[x]
  BY <1>3, <1>5, <1>7 DEF C
<1> QED BY <1>3, <1>5, <1>6, <1>8

\* Any element may be taken out of a sum first.
LEMMA SumRemoves ==
  ASSUME NEW S, IsFiniteSet(S), NEW f, \A x \in S : f[x] \in Nat, NEW g, IsSum(g, f, S)
  PROVE  \A s \in SUBSET S : \A x \in s : g[s] = f[x] + g[s \ {x}]
<1> DEFINE C == {s \in SUBSET S : \E x \in s : g[s] # f[x] + g[s \ {x}]}
<1> SUFFICES ASSUME C # {} PROVE FALSE
  OBVIOUS
<1>1. \A s \in C : IsFiniteSet(s)
  BY FS_Subset
<1> HIDE DEF C
<1>2. PICK s \in C : \A t \in C : ~(Cardinality(t) < Cardinality(s))
  BY <1>1, LeastSet
<1>3. s \in SUBSET S /\ IsFiniteSet(s)
  BY <1>1, <1>2 DEF C
<1>4. PICK x \in s : g[s] # f[x] + g[s \ {x}]
  BY <1>2 DEF C
<1>5. PICK y \in s : g[s] = f[y] + g[s \ {y}]
  <2>1. Pick(s) \in s /\ g[s] = f[Pick(s)] + g[s \ {Pick(s)}]
    BY <1>3, <1>4, SumUnfolds
  <2> QED BY <2>1
<1>6. x # y
  BY <1>4, <1>5
<1>7. s \ {x} \notin C /\ s \ {y} \notin C
  BY <1>2, <1>3, <1>4, <1>5, Smaller
<1>8. g[s \ {x}] = f[y] + g[(s \ {x}) \ {y}]
  BY <1>3, <1>5, <1>6, <1>7 DEF C
<1>9. (s \ {x}) \ {y} = (s \ {y}) \ {x}
  OBVIOUS
<1>10. g[s \ {y}] = f[x] + g[(s \ {x}) \ {y}]
  <2>1. g[s \ {y}] = f[x] + g[(s \ {y}) \ {x}]
    BY <1>3, <1>4, <1>6, <1>7 DEF C
  <2> QED BY <1>9, <2>1
<1>11. g[(s \ {x}) \ {y}] \in Nat /\ f[x] \in Nat /\ f[y] \in Nat
  <2>1. (s \ {x}) \ {y} \in SUBSET S
    BY <1>3
  <2> QED BY <1>3, <1>4, <1>5, <2>1, SumNat
<1> DEFINE rest == g[(s \ {x}) \ {y}]
           a == f[x]
           b == f[y]
<1>12. g[s \ {x}] = b + rest /\ g[s] = b + (a + rest)
  BY <1>5, <1>8, <1>10
<1>13. b + (a + rest) = a + (b + rest)
  <2>1. a \in Nat /\ b \in Nat /\ rest \in Nat
    BY <1>11
  <2> HIDE DEF a, b, rest
  <2> QED BY <2>1
<1> QED BY <1>4, <1>12, <1>13

\* A sum over s, if there is one.
SumOver(f, s) == (CHOOSE g : IsSum(g, f, s))[s]

\* Every finite set has a sum.
LEMMA SumExists ==
  ASSUME NEW S, IsFiniteSet(S), NEW f
  PROVE  \E g : IsSum(g, f, S)
<1> DEFINE C == {s \in SUBSET S : ~\E g : IsSum(g, f, s)}
<1> SUFFICES ASSUME C # {} PROVE FALSE
  OBVIOUS
<1>1. \A s \in C : IsFiniteSet(s)
  BY FS_Subset
<1> HIDE DEF C
<1>2. PICK s \in C : \A t \in C : ~(Cardinality(t) < Cardinality(s))
  BY <1>1, LeastSet
<1>3. s \in SUBSET S /\ IsFiniteSet(s) /\ ~\E g : IsSum(g, f, s)
  BY <1>1, <1>2 DEF C
<1>4. ASSUME NEW t \in SUBSET s, t # s
      PROVE  IsFiniteSet(t) /\ IsSum(CHOOSE g : IsSum(g, f, t), f, t)
  <2>1. PICK x \in s : x \notin t
    BY <1>4
  <2>2. t \subseteq s \ {x} /\ IsFiniteSet(s \ {x}) /\ Cardinality(s \ {x}) < Cardinality(s)
    BY <1>3, <2>1, Smaller
  <2>3. IsFiniteSet(t) /\ Cardinality(t) <= Cardinality(s \ {x})
    BY <2>2, FS_Subset
  <2>4. Cardinality(t) \in Nat /\ Cardinality(s \ {x}) \in Nat /\ Cardinality(s) \in Nat
    BY <1>3, <2>2, <2>3, FS_CardinalityType
  <2>5. Cardinality(t) < Cardinality(s)
    BY <2>2, <2>3, <2>4
  <2>6. t \notin C
    BY <1>2, <2>5
  <2>7. \E g : IsSum(g, f, t)
    BY <1>3, <2>6 DEF C
  <2> QED BY <2>3, <2>7
<1> DEFINE g == [t \in SUBSET s |-> IF t = {} THEN 0 ELSE f[Pick(t)] + SumOver(f, t \ {Pick(t)})]
<1>5. ASSUME NEW u \in SUBSET s, u # s
      PROVE  g[u] = SumOver(f, u)
  <2> DEFINE h == CHOOSE k : IsSum(k, f, u)
  <2>1. IsFiniteSet(u) /\ IsSum(h, f, u)
    BY <1>4, <1>5
  <2>2. SumOver(f, u) = h[u]
    BY DEF SumOver
  <2> HIDE DEF h
  <2>3. CASE u = {}
    BY <2>1, <2>2, <2>3, SumUnfolds
  <2>4. CASE u # {}
    <3> DEFINE v == u \ {Pick(u)}
               k == CHOOSE j : IsSum(j, f, v)
    <3>1. Pick(u) \in u /\ h[u] = f[Pick(u)] + h[v]
      BY <2>1, <2>4, SumUnfolds
    <3>2. v \in SUBSET s /\ v # s /\ v \subseteq u
      BY <1>5, <3>1
    <3>3. IsSum(k, f, v)
      BY <1>4, <3>2
    <3>4. SumOver(f, v) = k[v]
      BY DEF SumOver
    <3>5. g[u] = f[Pick(u)] + SumOver(f, v)
      BY <2>4
    <3> HIDE DEF v, k, g
    <3>6. k[v] = h[v]
      BY <2>1, <3>2, <3>3, SumAgrees
    <3> QED BY <2>2, <3>1, <3>4, <3>5, <3>6
  <2> QED BY <2>3, <2>4
<1>6. ASSUME NEW t \in SUBSET s
      PROVE  g[t] = IF t = {} THEN 0 ELSE f[Pick(t)] + g[t \ {Pick(t)}]
  <2>1. CASE t = {}
    BY <2>1
  <2>2. CASE t # {}
    <3>1. Pick(t) \in t
      BY <2>2 DEF Pick
    <3>2. t \ {Pick(t)} \in SUBSET s /\ t \ {Pick(t)} # s
      BY <3>1
    <3>3. g[t \ {Pick(t)}] = SumOver(f, t \ {Pick(t)})
      BY <1>5, <3>2
    <3> QED BY <2>2, <3>3
  <2> QED BY <2>1, <2>2
<1>7. IsSum(g, f, s)
  <2> DEFINE G == [t \in SUBSET s |-> IF t = {} THEN 0 ELSE f[Pick(t)] + g[t \ {Pick(t)}]]
  <2>1. g = [t \in SUBSET s |-> g[t]]
    OBVIOUS
  <2> HIDE DEF g
  <2>2. g = G
    BY <1>6, <2>1
  <2> QED BY <2>2 DEF IsSum
<1> QED BY <1>3, <1>7

\* The sum of a function, and of a part of it.
LEMMA TotalIsSum ==
  ASSUME NEW f, IsFiniteSet(DOMAIN f)
  PROVE  Total(f) = SumOver(f, DOMAIN f) /\ IsSum(CHOOSE g : IsSum(g, f, DOMAIN f), f, DOMAIN f)
<1>1. Total(f) = SumOver(f, DOMAIN f)
  BY DEF Total, SumOver, MapThenSumSet, MapThenFoldSet, IsSum, Pick
<1>2. \E g : IsSum(g, f, DOMAIN f)
  BY SumExists
<1> QED BY <1>1, <1>2

\* Nothing sums up to nothing.
LEMMA TotalEmpty ==
  ASSUME NEW f, DOMAIN f = {}
  PROVE  Total(f) = 0
<1>1. IsFiniteSet(DOMAIN f)
  BY FS_EmptySet
<1> DEFINE g == CHOOSE k : IsSum(k, f, DOMAIN f)
<1>2. IsSum(g, f, DOMAIN f) /\ Total(f) = g[DOMAIN f]
  BY <1>1, TotalIsSum DEF SumOver
<1> HIDE DEF g
<1> QED BY <1>2, SumUnfolds

\* The sum of natural numbers is one.
LEMMA TotalNat ==
  ASSUME NEW f, IsFiniteSet(DOMAIN f), \A x \in DOMAIN f : f[x] \in Nat
  PROVE  Total(f) \in Nat
<1> DEFINE g == CHOOSE k : IsSum(k, f, DOMAIN f)
<1>1. IsSum(g, f, DOMAIN f) /\ Total(f) = g[DOMAIN f]
  BY TotalIsSum DEF SumOver
<1> HIDE DEF g
<1> QED BY <1>1, SumNat

\* A sum depends on the values alone.
LEMMA TotalSame ==
  ASSUME NEW f, IsFiniteSet(DOMAIN f), NEW h, DOMAIN h = DOMAIN f,
         \A x \in DOMAIN f : h[x] = f[x]
  PROVE  Total(h) = Total(f)
<1> DEFINE g == CHOOSE j : IsSum(j, f, DOMAIN f)
           k == CHOOSE j : IsSum(j, h, DOMAIN h)
<1>1. /\ IsSum(g, f, DOMAIN f) /\ Total(f) = g[DOMAIN f]
      /\ IsSum(k, h, DOMAIN h) /\ Total(h) = k[DOMAIN h]
  BY TotalIsSum DEF SumOver
<1> HIDE DEF g, k
<1>2. \A s \in SUBSET DOMAIN h : k[s] = g[s]
  BY <1>1, SumAgrees
<1> QED BY <1>1, <1>2

\* One value more.
LEMMA TotalGrows ==
  ASSUME NEW f, IsFiniteSet(DOMAIN f), \A x \in DOMAIN f : f[x] \in Nat,
         NEW x, x \notin DOMAIN f, NEW h, DOMAIN h = DOMAIN f \cup {x}, h[x] \in Nat,
         \A y \in DOMAIN f : h[y] = f[y]
  PROVE  Total(h) = h[x] + Total(f)
<1> DEFINE g == CHOOSE j : IsSum(j, f, DOMAIN f)
           k == CHOOSE j : IsSum(j, h, DOMAIN h)
<1>1. IsFiniteSet(DOMAIN h) /\ \A y \in DOMAIN h : h[y] \in Nat
  BY FS_AddElement
<1>2. /\ IsSum(g, f, DOMAIN f) /\ Total(f) = g[DOMAIN f]
      /\ IsSum(k, h, DOMAIN h) /\ Total(h) = k[DOMAIN h]
  BY <1>1, TotalIsSum DEF SumOver
<1> HIDE DEF g, k
<1>3. k[DOMAIN h] = h[x] + k[DOMAIN h \ {x}]
  BY <1>1, <1>2, SumRemoves
<1>4. DOMAIN h \ {x} = DOMAIN f
  OBVIOUS
<1>5. g[DOMAIN f] = k[DOMAIN f]
  BY <1>1, <1>2, SumAgrees
<1> QED BY <1>2, <1>3, <1>4, <1>5

-----------------------------------------------------------------------------
(***************************************************************************)
(* What sums do.                                                           *)
(***************************************************************************)

\* What holds of nothing, and with each element more, holds of a finite set.
LEMMA SetInduction ==
  ASSUME NEW S, IsFiniteSet(S), NEW C, {} \in C,
         \A s \in SUBSET S : \A x \in S \ s : s \in C => s \cup {x} \in C
  PROVE  S \in C
<1> DEFINE D == {s \in SUBSET S : s \notin C}
<1> SUFFICES ASSUME S \notin C PROVE FALSE
  OBVIOUS
<1>1. D # {} /\ \A s \in D : IsFiniteSet(s)
  BY FS_Subset
<1> HIDE DEF D
<1>2. PICK s \in D : \A t \in D : ~(Cardinality(t) < Cardinality(s))
  BY <1>1, LeastSet
<1>3. s \in SUBSET S /\ s \notin C
  BY DEF D
<1>4. PICK x \in s : TRUE
  BY <1>3
<1>5. s \ {x} \notin D
  BY <1>1, <1>2, Smaller
<1>6. s \ {x} \in C /\ s \ {x} \in SUBSET S /\ x \in S \ (s \ {x})
  BY <1>3, <1>5 DEF D
<1>7. (s \ {x}) \cup {x} = s
  OBVIOUS
<1> QED BY <1>3, <1>6, <1>7

\* The sum of f over s.
Part(f, s) == Total([x \in s |-> f[x]])

\* A sum over nothing.
LEMMA TotalNone ==
  ASSUME NEW f
  PROVE  Part(f, {}) = 0
BY TotalEmpty DEF Part

\* A sum over a part of S is a natural number; and one element more.
LEMMA TotalAdds ==
  ASSUME NEW S, IsFiniteSet(S), NEW f, \A x \in S : f[x] \in Nat, NEW s \in SUBSET S
  PROVE  /\ Part(f, s) \in Nat
         /\ \A x \in S \ s : Part(f, s \cup {x}) = f[x] + Part(f, s)
<1>1. IsFiniteSet(s)
  BY FS_Subset
<1> DEFINE g == [y \in s |-> f[y]]
<1>2. DOMAIN g = s /\ \A y \in s : g[y] = f[y] /\ g[y] \in Nat
  OBVIOUS
<1>3. ASSUME NEW x \in S \ s
      PROVE  Part(f, s \cup {x}) = f[x] + Total(g)
  <2> DEFINE h == [y \in s \cup {x} |-> f[y]]
  <2>1. DOMAIN h = s \cup {x} /\ h[x] = f[x] /\ h[x] \in Nat /\ \A y \in s : h[y] = f[y]
    OBVIOUS
  <2> HIDE DEF g, h
  <2>2. Total(h) = h[x] + Total(g)
    BY <1>1, <1>2, <2>1, TotalGrows
  <2> QED BY <2>1, <2>2 DEF h, Part
<1>4. Total(g) \in Nat
  <2> HIDE DEF g
  <2> QED BY <1>1, <1>2, TotalNat
<1> QED BY <1>3, <1>4 DEF Part

\* How many there are is a sum of ones.
LEMMA TotalOnes ==
  ASSUME NEW S, IsFiniteSet(S)
  PROVE  Cardinality(S) = Total([x \in S |-> 1])
<1> DEFINE one == [x \in S |-> 1]
           C == {s \in SUBSET S : Cardinality(s) = Part(one, s)}
<1>1. \A x \in S : one[x] \in Nat /\ one[x] = 1
  OBVIOUS
<1>2. one = [x \in S |-> 1] /\ one = [x \in S |-> one[x]]
  OBVIOUS
<1> HIDE DEF one
<1>3. {} \in C
  BY TotalNone, FS_EmptySet
<1>4. ASSUME NEW s \in SUBSET S, NEW x \in S \ s, s \in C PROVE s \cup {x} \in C
  <2>1. IsFiniteSet(s) /\ Cardinality(s) \in Nat
    BY FS_Subset, FS_CardinalityType
  <2>2. Cardinality(s \cup {x}) = Cardinality(s) + 1
    BY <2>1, FS_AddElement
  <2>3. Part(one, s \cup {x}) = one[x] + Part(one, s)
    BY <1>1, TotalAdds
  <2>4. Cardinality(s) = Part(one, s)
    BY <1>4
  <2> QED BY <1>1, <2>1, <2>2, <2>3, <2>4
<1> HIDE DEF C
<1>5. S \in C
  BY <1>3, <1>4, SetInduction
<1>6. Cardinality(S) = Part(one, S)
  BY <1>5 DEF C
<1>7. Part(one, S) = Total(one)
  BY <1>2 DEF Part
<1> QED BY <1>2, <1>6, <1>7

\* Two sums over parts that share nothing add up.
LEMMA TotalSplits ==
  ASSUME NEW S, IsFiniteSet(S), NEW f, \A x \in S : f[x] \in Nat,
         NEW A \in SUBSET S, NEW B \in SUBSET S, A \cap B = {}
  PROVE  Part(f, A \cup B) = Part(f, A) + Part(f, B)
<1> DEFINE P(b) == Part(f, A \cup b) = Part(f, A) + Part(f, b)
           C == {b \in SUBSET B : P(b)}
<1>1. \A s \in SUBSET S : Part(f, s) \in Nat
  BY TotalAdds
<1>2. {} \in C
  <2>1. A \cup {} = A
    OBVIOUS
  <2> QED BY <1>1, <2>1, TotalNone
<1>3. ASSUME NEW b \in SUBSET B, NEW x \in B \ b, b \in C PROVE b \cup {x} \in C
  <2>1. A \cup (b \cup {x}) = (A \cup b) \cup {x} /\ x \in S \ (A \cup b) /\ x \in S \ b
    OBVIOUS
  <2>2. /\ Part(f, (A \cup b) \cup {x}) = f[x] + Part(f, A \cup b)
        /\ Part(f, b \cup {x}) = f[x] + Part(f, b)
    BY <2>1, TotalAdds
  <2> DEFINE ta == Part(f, A)
             tb == Part(f, b)
             tab == Part(f, A \cup b)
  <2>3. ta \in Nat /\ tb \in Nat /\ tab \in Nat /\ f[x] \in Nat /\ tab = ta + tb
    BY <1>1, <1>3
  <2>4. f[x] + tab = ta + (f[x] + tb)
    <3> HIDE DEF ta, tb, tab
    <3> QED BY <2>3
  <2>5. P(b \cup {x})
    BY <2>1, <2>2, <2>4
  <2> QED BY <2>5
<1>4. IsFiniteSet(B)
  BY FS_Subset
<1> HIDE DEF C
<1>5. B \in C
  BY <1>2, <1>3, <1>4, SetInduction
<1> QED BY <1>5 DEF C

\* A part of a set sums up to no more than the set.
LEMMA TotalOfPart ==
  ASSUME NEW S, IsFiniteSet(S), NEW f, \A x \in S : f[x] \in Nat, NEW s \in SUBSET S
  PROVE  Part(f, s) <= Part(f, S)
<1>1. s \cup (S \ s) = S /\ s \cap (S \ s) = {} /\ S \ s \in SUBSET S
  OBVIOUS
<1>2. Part(f, S) = Part(f, s) + Part(f, S \ s)
  BY <1>1, TotalSplits
<1>3. Part(f, s) \in Nat /\ Part(f, S \ s) \in Nat
  BY <1>1, TotalAdds
<1> QED BY <1>2, <1>3

\* A sum where one value is larger by d is larger by d.
LEMMA TotalRaised ==
  ASSUME NEW T, IsFiniteSet(T), NEW g, NEW h, NEW t \in T, NEW d \in Nat,
         \A u \in T : g[u] \in Nat, \A u \in T : u # t => h[u] = g[u], h[t] = d + g[t]
  PROVE  Part(h, T) = d + Part(g, T)
<1> DEFINE r == T \ {t}
<1>1. r \cup {t} = T /\ r \in SUBSET T /\ t \in T \ r /\ \A u \in r : h[u] = g[u]
  OBVIOUS
<1>2. \A u \in T : h[u] \in Nat
  OBVIOUS
<1> HIDE DEF r
<1>3. Part(g, r) \in Nat /\ \A x \in T \ r : Part(g, r \cup {x}) = g[x] + Part(g, r)
  BY <1>1, TotalAdds
<1>4. \A x \in T \ r : Part(h, r \cup {x}) = h[x] + Part(h, r)
  BY <1>1, <1>2, TotalAdds
<1>5. Part(h, r) = Part(g, r)
  <2>1. [x \in r |-> h[x]] = [x \in r |-> g[x]]
    BY <1>1
  <2> QED BY <2>1 DEF Part
<1>6. Part(g, T) = g[t] + Part(g, r) /\ Part(h, T) = h[t] + Part(h, r)
  BY <1>1, <1>3, <1>4
<1> QED BY <1>3, <1>5, <1>6

\* A sum over S may be taken class by class, k being the class of an element.
LEMMA TotalByClass ==
  ASSUME NEW S, IsFiniteSet(S), NEW f, \A x \in S : f[x] \in Nat,
         NEW T, IsFiniteSet(T), NEW k, \A x \in S : k[x] \in T
  PROVE  Part(f, S) = Total([t \in T |-> Part(f, {x \in S : k[x] = t})])
<1> DEFINE G(s) == [t \in T |-> Part(f, {x \in s : k[x] = t})]
           C == {s \in SUBSET S : Part(f, s) = Part(G(s), T)}
<1>1. \A s \in SUBSET S : \A t \in T : G(s)[t] = Part(f, {x \in s : k[x] = t}) /\ G(s)[t] \in Nat
  <2> SUFFICES ASSUME NEW s \in SUBSET S, NEW t \in T
               PROVE  Part(f, {x \in s : k[x] = t}) \in Nat
    OBVIOUS
  <2>1. {x \in s : k[x] = t} \in SUBSET S
    OBVIOUS
  <2> HIDE DEF G, C
  <2> QED BY <2>1, TotalAdds
<1>2. G(S) = [t \in T |-> Part(f, {x \in S : k[x] = t})] /\ G(S) = [t \in T |-> G(S)[t]]
  OBVIOUS
<1> HIDE DEF G
<1>3. {} \in C
  <2>1. \A t \in T : G({})[t] = 0
    <3>1. \A t \in T : {x \in {} : k[x] = t} = {}
      OBVIOUS
    <3> QED BY <1>1, <3>1, TotalNone
  <2>2. Part(G({}), {}) = 0 /\ Part(f, {}) = 0
    BY TotalNone
  <2> DEFINE z == G({})
             Z == {u \in SUBSET T : Part(z, u) = 0}
  <2>3. {} \in Z
    BY <2>2
  <2>4. \A t \in T : z[t] = 0 /\ z[t] \in Nat
    BY <2>1
  <2> HIDE DEF z
  <2>5. ASSUME NEW u \in SUBSET T, NEW t \in T \ u, u \in Z PROVE u \cup {t} \in Z
    <3>1. Part(z, u \cup {t}) = z[t] + Part(z, u)
      <4> HIDE DEF Z, C
      <4> QED BY <2>4, TotalAdds
    <3>2. Part(z, u) = 0 /\ z[t] = 0
      BY <2>4, <2>5
    <3> QED BY <3>1, <3>2
  <2> HIDE DEF Z
  <2>6. T \in Z
    BY <2>3, <2>5, SetInduction
  <2> QED BY <2>2, <2>6 DEF z, Z
<1>4. ASSUME NEW s \in SUBSET S, NEW x \in S \ s, s \in C PROVE s \cup {x} \in C
  <2> DEFINE t == k[x]
             g == G(s)
             h == G(s \cup {x})
  <2>1. t \in T /\ s \cup {x} \in SUBSET S
    OBVIOUS
  <2>2. \A u \in T : /\ g[u] = Part(f, {y \in s : k[y] = u}) /\ g[u] \in Nat
                     /\ h[u] = Part(f, {y \in s \cup {x} : k[y] = u})
    BY <1>1, <2>1
  <2>3. \A u \in T : u # t => h[u] = g[u]
    <3>1. \A u \in T : u # t => {y \in s \cup {x} : k[y] = u} = {y \in s : k[y] = u}
      OBVIOUS
    <3> HIDE DEF g, h, t
    <3> QED BY <2>2, <3>1
  <2>4. h[t] = f[x] + g[t]
    <3> DEFINE a == {y \in s : k[y] = t}
    <3>1. {y \in s \cup {x} : k[y] = t} = a \cup {x} /\ a \in SUBSET S /\ x \in S \ a
      OBVIOUS
    <3>2. h[t] = Part(f, a \cup {x}) /\ g[t] = Part(f, a)
      BY <2>1, <2>2, <3>1
    <3> HIDE DEF a, g, h, t, C
    <3> QED BY <3>1, <3>2, TotalAdds
  <2>5. Part(h, T) = f[x] + Part(g, T)
    <3>1. f[x] \in Nat
      OBVIOUS
    <3>2. \A u \in T : g[u] \in Nat
      BY <2>2
    <3> DEFINE d == f[x]
    <3> HIDE DEF g, h, t, d, C
    <3>3. d \in Nat /\ h[t] = d + g[t]
      BY <2>4, <3>1 DEF d
    <3>4. Part(h, T) = d + Part(g, T)
      BY <2>1, <2>3, <3>2, <3>3, TotalRaised
    <3> QED BY <3>4 DEF d
  <2>6. Part(f, s \cup {x}) = f[x] + Part(f, s)
    <3> HIDE DEF g, h, t, C
    <3> QED BY TotalAdds
  <2>7. Part(f, s) = Part(g, T)
    BY <1>4
  <2> QED BY <2>1, <2>5, <2>6, <2>7
<1> HIDE DEF C
<1>5. S \in C
  BY <1>3, <1>4, SetInduction
<1> QED BY <1>2, <1>5 DEF C, Part

\* A sum lies between as many of the least as of the greatest value.
LEMMA TotalBetween ==
  ASSUME NEW S, IsFiniteSet(S), NEW f, NEW lo \in Nat, NEW hi \in Nat,
         \A x \in S : f[x] \in Nat /\ lo <= f[x] /\ f[x] <= hi
  PROVE  lo * Cardinality(S) <= Part(f, S) /\ Part(f, S) <= hi * Cardinality(S)
<1> DEFINE P(s) == lo * Cardinality(s) <= Part(f, s) /\ Part(f, s) <= hi * Cardinality(s)
           C == {s \in SUBSET S : P(s)}
<1>1. \A x \in S : f[x] \in Nat
  OBVIOUS
<1>2. {} \in C
  <2>1. Part(f, {}) = 0 /\ Cardinality({}) = 0
    BY TotalNone, FS_EmptySet
  <2>2. lo * 0 = 0 /\ hi * 0 = 0
    OBVIOUS
  <2> QED BY <2>1, <2>2
<1>3. ASSUME NEW s \in SUBSET S, NEW x \in S \ s, s \in C PROVE s \cup {x} \in C
  <2> DEFINE n == Cardinality(s)
             a == Part(f, s)
             b == f[x]
  <2>1. n \in Nat /\ Cardinality(s \cup {x}) = n + 1
    <3>1. IsFiniteSet(s)
      BY FS_Subset
    <3> QED BY <3>1, FS_CardinalityType, FS_AddElement
  <2>2. a \in Nat /\ Part(f, s \cup {x}) = b + a
    <3> HIDE DEF C, P
    <3> QED BY <1>1, TotalAdds
  <2>3. b \in Nat /\ lo <= b /\ b <= hi /\ lo * n <= a /\ a <= hi * n
    BY <1>3
  <2>4. lo * (n + 1) <= b + a /\ b + a <= hi * (n + 1)
    <3> HIDE DEF n, a, b
    <3>1. lo * (n + 1) = lo * n + lo /\ hi * (n + 1) = hi * n + hi /\ lo * n \in Nat /\ hi * n \in Nat
      BY <2>1
    <3> QED BY <2>2, <2>3, <3>1
  <2>5. s \cup {x} \in SUBSET S
    OBVIOUS
  <2> QED BY <2>1, <2>2, <2>4, <2>5
<1> HIDE DEF C
<1>4. S \in C
  BY <1>2, <1>3, SetInduction
<1> QED BY <1>4 DEF C

\* Values summed up through an injection are those of its range.
LEMMA TotalMoved ==
  ASSUME NEW T, IsFiniteSet(T), NEW f, \A y \in T : f[y] \in Nat,
         NEW S, IsFiniteSet(S), NEW h, \A x \in S : h[x] \in T,
         \A x, y \in S : h[x] = h[y] => x = y
  PROVE  Total([x \in S |-> f[h[x]]]) = Part(f, {h[x] : x \in S})
<1> DEFINE g == [x \in S |-> f[h[x]]]
           C == {s \in SUBSET S : Part(g, s) = Part(f, {h[x] : x \in s})}
<1>1. \A x \in S : g[x] = f[h[x]] /\ g[x] \in Nat
  OBVIOUS
<1>2. g = [x \in S |-> f[h[x]]] /\ g = [x \in S |-> g[x]]
  OBVIOUS
<1> HIDE DEF g
<1>3. {} \in C
  <2>1. {h[x] : x \in {}} = {}
    OBVIOUS
  <2> QED BY <2>1, TotalNone
<1>4. ASSUME NEW s \in SUBSET S, NEW x \in S \ s, s \in C PROVE s \cup {x} \in C
  <2> DEFINE u == {h[y] : y \in s}
  <2>1. {h[y] : y \in s \cup {x}} = u \cup {h[x]} /\ u \in SUBSET T /\ h[x] \in T \ u
    OBVIOUS
  <2>2. Part(g, s) = Part(f, u) /\ s \cup {x} \in SUBSET S
    BY <1>4
  <2>3. Part(f, u \cup {h[x]}) = f[h[x]] + Part(f, u)
    <3> HIDE DEF u, C
    <3> QED BY <2>1, TotalAdds
  <2>4. Part(g, s \cup {x}) = g[x] + Part(g, s)
    <3> HIDE DEF u, C
    <3> QED BY <1>1, TotalAdds
  <2> QED BY <1>1, <2>1, <2>2, <2>3, <2>4
<1> HIDE DEF C
<1>5. S \in C
  BY <1>3, <1>4, SetInduction
<1> QED BY <1>2, <1>5 DEF C, Part

\* A finite set that is not empty has a greatest element in a total preorder.
LEMMA GreatestExists ==
  ASSUME NEW S, IsFiniteSet(S), S # {}, NEW R,
         \A x, y \in S : <<x, y>> \in R \/ <<y, x>> \in R,
         \A x, y, z \in S : <<x, y>> \in R /\ <<y, z>> \in R => <<x, z>> \in R
  PROVE  \E m \in S : \A x \in S : <<x, m>> \in R
<1> DEFINE C == {s \in SUBSET S : s # {} => \E m \in s : \A x \in s : <<x, m>> \in R}
<1>1. {} \in C
  OBVIOUS
<1>2. ASSUME NEW s \in SUBSET S, NEW x \in S \ s, s \in C PROVE s \cup {x} \in C
  <2>1. <<x, x>> \in R /\ s \cup {x} \in SUBSET S
    OBVIOUS
  <2>2. CASE s = {}
    <3>1. \A y \in s \cup {x} : <<y, x>> \in R
      BY <2>1, <2>2
    <3> QED BY <2>1, <3>1
  <2>3. CASE s # {}
    <3>1. PICK m \in s : \A y \in s : <<y, m>> \in R
      BY <1>2, <2>3
    <3>2. CASE <<x, m>> \in R
      <4>1. \A y \in s \cup {x} : <<y, m>> \in R
        BY <3>1, <3>2
      <4> QED BY <2>1, <3>1, <4>1
    <3>3. CASE <<m, x>> \in R
      <4>1. \A y \in s \cup {x} : <<y, x>> \in R
        BY <2>1, <3>1, <3>3
      <4> QED BY <2>1, <4>1
    <3> QED BY <3>1, <3>2, <3>3
  <2> QED BY <2>2, <2>3
<1> HIDE DEF C
<1>3. S \in C
  BY <1>1, <1>2, SetInduction
<1> QED BY <1>3 DEF C

\* A finite set of integers that is not empty has a maximum and a minimum.
LEMMA Extremes ==
  ASSUME NEW S, IsFiniteSet(S), S # {}, S \subseteq Int
  PROVE  /\ Max(S) \in S /\ \A x \in S : x <= Max(S)
         /\ Min(S) \in S /\ \A x \in S : Min(S) <= x
<1> DEFINE R == {p \in S \X S : p[1] <= p[2]}
           Q == {p \in S \X S : p[2] <= p[1]}
<1>1. \A x, y \in S : (<<x, y>> \in R <=> x <= y) /\ (<<x, y>> \in Q <=> y <= x)
  OBVIOUS
<1> HIDE DEF R, Q
<1>2. \A x, y \in S : x <= y \/ y <= x
  OBVIOUS
<1>3. \A x, y, z \in S : x <= y /\ y <= z => x <= z
  OBVIOUS
<1>4. \E m \in S : \A x \in S : <<x, m>> \in R
  BY <1>1, <1>2, <1>3, GreatestExists
<1>5. \E m \in S : \A x \in S : <<x, m>> \in Q
  BY <1>1, <1>2, <1>3, GreatestExists
<1>6. (\E m \in S : \A x \in S : m >= x) /\ (\E m \in S : \A x \in S : m <= x)
  BY <1>1, <1>4, <1>5
<1> QED BY <1>6 DEF Max, Min

\* A function has finitely many values on a finite set.
LEMMA ValuesFinite ==
  ASSUME NEW S, IsFiniteSet(S), NEW k
  PROVE  IsFiniteSet({k[x] : x \in S})
<1> DEFINE T == {k[x] : x \in S}
           f == [x \in S |-> k[x]]
<1>1. f \in Surjection(S, T)
  BY DEF Surjection
<1> HIDE DEF T, f
<1>2. IsFiniteSet(T)
  BY <1>1, FS_Surjection
<1> QED BY <1>2 DEF T
=============================================================================
