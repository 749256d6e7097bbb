------------------------------ MODULE SumTheorems ------------------------------
(***************************************************************************)
(* Sums over finite sets: SumFunctionOnSet of module FiniteSetsExt, which  *)
(* adds the values of a function in the order in which CHOOSE picks them,  *)
(* depends neither on that order nor on anything but the values.           *)
(* Then what is needed of smallest and largest elements.                   *)
(***************************************************************************)
EXTENDS Integers, FiniteSets, FiniteSetsExt, FiniteSetTheorems, TLAPS

\* Induction over finite sets: a set of subsets of a finite set has a member
\* with no proper subset in it.
LEMMA MinimalSubset ==
  ASSUME NEW S, IsFiniteSet(S), NEW T, T \subseteq SUBSET S, T # {}
  PROVE  \E U \in T : \A V \in T : V \subseteq U => V = U
<1>1. IsWellFoundedOn(StrictSubsetOrdering(S), SUBSET S)
  BY Zenon, FS_StrictSubsetOrderingWellFounded, FS_FiniteSubsetsOfFinite
<1>2. PICK U \in T : \A V \in T : ~ (<<V, U>> \in StrictSubsetOrdering(S))
  BY Zenon, <1>1, WFMin
<1>3. \A V \in T : V \subseteq U /\ V # U => <<V, U>> \in StrictSubsetOrdering(S)
  BY DEF StrictSubsetOrdering
<1> WITNESS U \in T
<1> QED
  BY Zenon, <1>2, <1>3

\* The element that the fold takes first.
Pick(s) == CHOOSE x \in s : TRUE

\* g is the table of partial sums that the fold behind SumFunctionOnSet recurses on.
SumEq(f, U, g) ==
  g = [s \in SUBSET U |-> IF s = {} THEN 0 ELSE f[Pick(s)] + g[s \ {Pick(s)}]]

\* The sum is what the table of partial sums has for the whole set.
LEMMA SumUnfold ==
  ASSUME NEW f, NEW S
  PROVE  SumFunctionOnSet(f, S) = (CHOOSE g : SumEq(f, S, g))[S]
BY DEF SumFunctionOnSet, FoldFunctionOnSet, MapThenFoldSet, SumEq, Pick

\* A non-empty set has an element to pick.
LEMMA PickIn == \A s : s # {} => Pick(s) \in s
BY Zenon DEF Pick

\* A row of the table.
LEMMA SumEqAt ==
  ASSUME NEW f, NEW U, NEW g, SumEq(f, U, g), NEW s \in SUBSET U
  PROVE  /\ s = {} => g[s] = 0
         /\ s # {} => g[s] = f[Pick(s)] + g[s \ {Pick(s)}]
<1>1. g[s] = [t \in SUBSET U |-> IF t = {} THEN 0 ELSE f[Pick(t)] + g[t \ {Pick(t)}]][s]
  BY Zenon DEF SumEq
<1> QED
  BY Zenon, <1>1

\* The table of one set agrees with the table of another where both are defined.
LEMMA SumEqUnique ==
  ASSUME NEW f, NEW U, NEW V, IsFiniteSet(U), NEW g, NEW h, SumEq(f, U, g), SumEq(f, V, h),
         NEW t \in SUBSET (U \cap V)
  PROVE  g[t] = h[t]
<1> DEFINE Bad == {s \in SUBSET (U \cap V) : g[s] # h[s]}
<1>1. SUFFICES ASSUME Bad # {} PROVE FALSE
  BY Zenon
<1>2. PICK s \in Bad : \A r \in Bad : r \subseteq s => r = s
  <2>1. Bad \subseteq SUBSET U
    BY Zenon
  <2> HIDE DEF Bad
  <2> QED
    BY <1>1, <2>1, MinimalSubset
<1>3. s \in SUBSET U /\ s \in SUBSET V /\ g[s] # h[s]
  BY Zenon
<1>4. s # {}
  BY Zenon, <1>3, SumEqAt
<1>5. s \ {Pick(s)} \in SUBSET (U \cap V) /\ s \ {Pick(s)} # s
  BY Zenon, <1>3, <1>4, PickIn
<1>6. g[s \ {Pick(s)}] = h[s \ {Pick(s)}]
  BY Zenon, <1>2, <1>5
<1>7. QED
  <2>1. g[s] = f[Pick(s)] + g[s \ {Pick(s)}]
    BY <1>3, <1>4, SumEqAt
  <2>2. h[s] = f[Pick(s)] + h[s \ {Pick(s)}]
    BY <1>3, <1>4, SumEqAt
  <2> QED
    BY Zenon, <1>3, <1>6, <2>1, <2>2

\* There is such a table for every finite set.
LEMMA SumEqExists ==
  ASSUME NEW f, NEW S, IsFiniteSet(S)
  PROVE  \E g : SumEq(f, S, g)
<1> DEFINE Bad == {U \in SUBSET S : ~ \E g : SumEq(f, U, g)}
<1>1. SUFFICES ASSUME Bad # {} PROVE FALSE
  BY Zenon
<1>2. PICK U \in Bad : \A r \in Bad : r \subseteq U => r = U
  <2>1. Bad \subseteq SUBSET S
    BY Zenon
  <2> HIDE DEF Bad
  <2> QED
    BY <1>1, <2>1, MinimalSubset
<1> DEFINE G(s) == CHOOSE g : SumEq(f, s, g)
           h == [s \in SUBSET U |-> IF s = {} THEN 0
                                    ELSE f[Pick(s)] + G(s \ {Pick(s)})[s \ {Pick(s)}]]
<1>3. \A s \in SUBSET U : s # U => SumEq(f, s, G(s))
  <2> SUFFICES ASSUME NEW s \in SUBSET U, s # U PROVE \E g : SumEq(f, s, g)
    BY Zenon
  <2> QED
    BY Zenon, <1>2
<1>4. \A s \in SUBSET U : IsFiniteSet(s)
  BY Zenon, FS_Subset
<1> HIDE DEF G
<1>5. ASSUME NEW s \in SUBSET U, s # {}
      PROVE  h[s \ {Pick(s)}] = G(s \ {Pick(s)})[s \ {Pick(s)}]
  <2> DEFINE t == s \ {Pick(s)}
             r == t \ {Pick(t)}
  <2>1. t \in SUBSET U /\ t # U /\ r \in SUBSET U /\ r \in SUBSET t
    BY Zenon, <1>5, PickIn
  <2>2. SumEq(f, t, G(t)) /\ IsFiniteSet(t)
    BY Zenon, <2>1, <1>3, <1>4
  <2>3. CASE t = {}
    <3>1. h[t] = 0
      BY Zenon, <2>1, <2>3
    <3>2. G(t)[t] = 0
      BY Zenon, <2>2, <2>3, SumEqAt
    <3> QED
      BY Zenon, <3>1, <3>2
  <2>4. CASE t # {}
    <3>1. h[t] = f[Pick(t)] + G(r)[r]
      BY Zenon, <2>1, <2>4
    <3>2. G(t)[t] = f[Pick(t)] + G(t)[r]
      <4> HIDE DEF t
      <4> QED
        BY <2>2, <2>4, SumEqAt
    <3>3. r # U
      BY Zenon, <2>1, <2>4, PickIn
    <3>4. SumEq(f, r, G(r)) /\ IsFiniteSet(r)
      BY Zenon, <2>1, <3>3, <1>3, <1>4
    <3>5. G(t)[r] = G(r)[r]
      <4> HIDE DEF t, r
      <4>1. r \in SUBSET (t \cap r)
        BY Zenon, <2>1
      <4> QED
        BY <2>2, <3>4, <4>1, SumEqUnique
    <3> QED
      BY Zenon, <3>1, <3>2, <3>5
  <2> QED
    BY Zenon, <2>3, <2>4
<1>6. SumEq(f, U, h)
  <2> DEFINE k == [s \in SUBSET U |-> IF s = {} THEN 0 ELSE f[Pick(s)] + h[s \ {Pick(s)}]]
  <2>1. \A s \in SUBSET U : h[s] = IF s = {} THEN 0
                                    ELSE f[Pick(s)] + G(s \ {Pick(s)})[s \ {Pick(s)}]
    BY Zenon
  <2>2. h = [s \in SUBSET U |-> h[s]]
    BY Zenon
  <2> HIDE DEF h
  <2>3. \A s \in SUBSET U : h[s] = IF s = {} THEN 0 ELSE f[Pick(s)] + h[s \ {Pick(s)}]
    BY Zenon, <2>1, <1>5
  <2> QED
    BY Zenon, <2>2, <2>3 DEF SumEq
<1> QED
  BY Zenon, <1>6

\* The sum in terms of the sum over one element less, the picked one.
LEMMA SumRec ==
  ASSUME NEW f, NEW S, IsFiniteSet(S)
  PROVE  /\ S = {} => SumFunctionOnSet(f, S) = 0
         /\ S # {} => SumFunctionOnSet(f, S) = f[Pick(S)] + SumFunctionOnSet(f, S \ {Pick(S)})
<1> DEFINE G(s) == CHOOSE g : SumEq(f, s, g)
           t == S \ {Pick(S)}
<1>1. SumEq(f, S, G(S))
  BY Zenon, SumEqExists
<1>2. IsFiniteSet(t)
  BY Zenon, FS_Subset
<1>3. SumEq(f, t, G(t))
  BY Zenon, <1>2, SumEqExists
<1>4. SumFunctionOnSet(f, S) = G(S)[S] /\ SumFunctionOnSet(f, t) = G(t)[t]
  BY Zenon, SumUnfold
<1> HIDE DEF G
<1>5. G(S)[t] = G(t)[t]
  <2>1. t \in SUBSET (S \cap t)
    BY Zenon
  <2> HIDE DEF t
  <2> QED
    BY <1>1, <1>3, <2>1, SumEqUnique
<1>6. S = {} => G(S)[S] = 0
  BY <1>1, SumEqAt
<1>7. S # {} => G(S)[S] = f[Pick(S)] + G(S)[t]
  BY <1>1, SumEqAt
<1> QED
  BY Zenon, <1>4, <1>5, <1>6, <1>7

\* A sum of integers is an integer.
LEMMA SumType ==
  ASSUME NEW S, IsFiniteSet(S), NEW f, \A x \in S : f[x] \in Int
  PROVE  SumFunctionOnSet(f, S) \in Int
<1> DEFINE Bad == {U \in SUBSET S : SumFunctionOnSet(f, U) \notin Int}
<1>1. SUFFICES ASSUME Bad # {} PROVE FALSE
  BY Zenon
<1>2. PICK U \in Bad : \A r \in Bad : r \subseteq U => r = U
  <2>1. Bad \subseteq SUBSET S
    BY Zenon
  <2> HIDE DEF Bad
  <2> QED
    BY <1>1, <2>1, MinimalSubset
<1> DEFINE t == U \ {Pick(U)}
<1>3. U \in SUBSET S /\ IsFiniteSet(U) /\ SumFunctionOnSet(f, U) \notin Int
  BY Zenon, FS_Subset
<1>4. U # {} /\ SumFunctionOnSet(f, U) = f[Pick(U)] + SumFunctionOnSet(f, t)
  BY <1>3, SumRec
<1>5. Pick(U) \in U /\ t \in SUBSET S /\ t \subseteq U /\ t # U
  BY Zenon, <1>3, <1>4, PickIn
<1>6. SumFunctionOnSet(f, t) \in Int /\ f[Pick(U)] \in Int
  BY Zenon, <1>2, <1>3, <1>5
<1> QED
  BY <1>3, <1>4, <1>6

\* Any element can be taken out first: the order does not matter.
LEMMA SumRemove ==
  ASSUME NEW S, IsFiniteSet(S), NEW f, \A y \in S : f[y] \in Int, NEW x \in S
  PROVE  SumFunctionOnSet(f, S) = f[x] + SumFunctionOnSet(f, S \ {x})
<1> DEFINE Bad == {U \in SUBSET S : \E y \in U : SumFunctionOnSet(f, U) # f[y] + SumFunctionOnSet(f, U \ {y})}
<1>1. SUFFICES ASSUME Bad # {} PROVE FALSE
  BY Zenon
<1>2. PICK U \in Bad : \A r \in Bad : r \subseteq U => r = U
  <2>1. Bad \subseteq SUBSET S
    BY Zenon
  <2> HIDE DEF Bad
  <2> QED
    BY <1>1, <2>1, MinimalSubset
<1>3. PICK y \in U : SumFunctionOnSet(f, U) # f[y] + SumFunctionOnSet(f, U \ {y})
  BY Zenon
<1> DEFINE z == Pick(U)
           a == U \ {y}
           b == U \ {z}
           c == (U \ {y}) \ {z}
<1>4. U \in SUBSET S /\ U # {} /\ z \in U /\ IsFiniteSet(U)
  BY Zenon, FS_Subset, PickIn
<1>5. SumFunctionOnSet(f, U) = f[z] + SumFunctionOnSet(f, b)
  BY <1>4, SumRec
<1>6. z # y
  BY Zenon, <1>3, <1>5
<1>7. /\ a \in SUBSET S /\ a \subseteq U /\ a # U /\ z \in a
      /\ b \in SUBSET S /\ b \subseteq U /\ b # U /\ y \in b
      /\ b \ {y} = c
  BY Zenon, <1>4, <1>6
<1>8. SumFunctionOnSet(f, a) = f[z] + SumFunctionOnSet(f, c)
  BY Zenon, <1>2, <1>7
<1>9. SumFunctionOnSet(f, b) = f[y] + SumFunctionOnSet(f, c)
  BY Zenon, <1>2, <1>7
<1>10. f[y] \in Int /\ f[z] \in Int
  BY Zenon, <1>4
<1>11. SumFunctionOnSet(f, c) \in Int
  <2>1. IsFiniteSet(c) /\ \A w \in c : f[w] \in Int
    BY Zenon, <1>4, FS_Subset
  <2> QED
    BY Zenon, <2>1, SumType
<1> HIDE DEF a, b, c, z
<1>12. SumFunctionOnSet(f, U) # f[y] + SumFunctionOnSet(f, a)
  BY Zenon, <1>3 DEF a
<1> QED
  BY <1>5, <1>8, <1>9, <1>10, <1>11, <1>12

\* The sum depends on the values only.
LEMMA SumSame ==
  ASSUME NEW S, IsFiniteSet(S), NEW f, NEW g, \A x \in S : f[x] = g[x]
  PROVE  SumFunctionOnSet(f, S) = SumFunctionOnSet(g, S)
<1> DEFINE Bad == {U \in SUBSET S : SumFunctionOnSet(f, U) # SumFunctionOnSet(g, U)}
<1>1. SUFFICES ASSUME Bad # {} PROVE FALSE
  BY Zenon
<1>2. PICK U \in Bad : \A r \in Bad : r \subseteq U => r = U
  <2>1. Bad \subseteq SUBSET S
    BY Zenon
  <2> HIDE DEF Bad
  <2> QED
    BY <1>1, <2>1, MinimalSubset
<1> DEFINE t == U \ {Pick(U)}
<1>3. U \in SUBSET S /\ IsFiniteSet(U) /\ SumFunctionOnSet(f, U) # SumFunctionOnSet(g, U)
  BY Zenon, FS_Subset
<1>4. U # {} /\ SumFunctionOnSet(f, U) = f[Pick(U)] + SumFunctionOnSet(f, t) /\ SumFunctionOnSet(g, U) = g[Pick(U)] + SumFunctionOnSet(g, t)
  BY <1>3, SumRec
<1>5. Pick(U) \in U /\ t \in SUBSET S /\ t \subseteq U /\ t # U
  BY Zenon, <1>3, <1>4, PickIn
<1>6. SumFunctionOnSet(f, t) = SumFunctionOnSet(g, t) /\ f[Pick(U)] = g[Pick(U)]
  BY Zenon, <1>2, <1>3, <1>5
<1> QED
  BY Zenon, <1>3, <1>4, <1>6

\* One value changes, and the sum changes by the difference.
LEMMA SumUpdate ==
  ASSUME NEW S, IsFiniteSet(S), NEW f \in [S -> Int], NEW g \in [S -> Int],
         NEW x \in S,
         \A y \in S : y # x => g[y] = f[y]
  PROVE  SumFunctionOnSet(g, S) = SumFunctionOnSet(f, S) - f[x] + g[x]
<1> DEFINE t == S \ {x}
<1>1. IsFiniteSet(t) /\ t \subseteq S
  BY Zenon, FS_Subset
<1>2. /\ SumFunctionOnSet(f, S) = f[x] + SumFunctionOnSet(f, t)
      /\ SumFunctionOnSet(g, S) = g[x] + SumFunctionOnSet(g, t)
  BY SumRemove
<1>3. SumFunctionOnSet(g, t) = SumFunctionOnSet(f, t)
  BY Zenon, <1>1, SumSame
<1>4. SumFunctionOnSet(f, t) \in Int
  BY <1>1, SumType
<1> HIDE DEF t
<1> QED
  BY <1>2, <1>3, <1>4

\* A sum of natural numbers is one.
LEMMA SumNat ==
  ASSUME NEW S, IsFiniteSet(S), NEW f, \A x \in S : f[x] \in Nat
  PROVE  SumFunctionOnSet(f, S) \in Nat
<1> DEFINE Bad == {U \in SUBSET S : SumFunctionOnSet(f, U) \notin Nat}
<1>1. SUFFICES ASSUME Bad # {} PROVE FALSE
  BY Zenon
<1>2. PICK U \in Bad : \A r \in Bad : r \subseteq U => r = U
  <2>1. Bad \subseteq SUBSET S
    BY Zenon
  <2> HIDE DEF Bad
  <2> QED
    BY <1>1, <2>1, MinimalSubset
<1> DEFINE t == U \ {Pick(U)}
<1>3. U \in SUBSET S /\ IsFiniteSet(U) /\ SumFunctionOnSet(f, U) \notin Nat
  BY Zenon, FS_Subset
<1>4. U # {} /\ SumFunctionOnSet(f, U) = f[Pick(U)] + SumFunctionOnSet(f, t)
  BY <1>3, SumRec
<1>5. Pick(U) \in U /\ t \in SUBSET S /\ t \subseteq U /\ t # U
  BY Zenon, <1>3, <1>4, PickIn
<1>6. SumFunctionOnSet(f, t) \in Nat /\ f[Pick(U)] \in Nat
  BY Zenon, <1>2, <1>3, <1>5
<1> QED
  BY <1>3, <1>4, <1>6

\* Smaller terms make a smaller sum.
LEMMA SumMonotone ==
  ASSUME NEW S, IsFiniteSet(S), NEW f, NEW g,
         \A x \in S : f[x] \in Int /\ g[x] \in Int /\ f[x] <= g[x]
  PROVE  SumFunctionOnSet(f, S) <= SumFunctionOnSet(g, S)
<1> DEFINE Bad == {U \in SUBSET S : ~ (SumFunctionOnSet(f, U) <= SumFunctionOnSet(g, U))}
<1>1. SUFFICES ASSUME Bad # {} PROVE FALSE
  BY Zenon
<1>2. PICK U \in Bad : \A r \in Bad : r \subseteq U => r = U
  <2>1. Bad \subseteq SUBSET S
    BY Zenon
  <2> HIDE DEF Bad
  <2> QED
    BY <1>1, <2>1, MinimalSubset
<1> DEFINE t == U \ {Pick(U)}
<1>3. U \in SUBSET S /\ IsFiniteSet(U) /\ ~ (SumFunctionOnSet(f, U) <= SumFunctionOnSet(g, U))
  BY Zenon, FS_Subset
<1>4. /\ U = {} => SumFunctionOnSet(f, U) = 0 /\ SumFunctionOnSet(g, U) = 0
      /\ U # {} => /\ SumFunctionOnSet(f, U) = f[Pick(U)] + SumFunctionOnSet(f, t)
                   /\ SumFunctionOnSet(g, U) = g[Pick(U)] + SumFunctionOnSet(g, t)
  BY <1>3, SumRec
<1>5. U # {}
  BY <1>3, <1>4
<1>6. Pick(U) \in U /\ t \in SUBSET S /\ t \subseteq U /\ t # U
  BY Zenon, <1>3, <1>5, PickIn
<1>7. SumFunctionOnSet(f, t) <= SumFunctionOnSet(g, t)
  BY Zenon, <1>2, <1>6
<1>8. /\ SumFunctionOnSet(f, t) \in Int /\ SumFunctionOnSet(g, t) \in Int
      /\ f[Pick(U)] \in Int /\ g[Pick(U)] \in Int /\ f[Pick(U)] <= g[Pick(U)]
  <2>1. IsFiniteSet(t) /\ \A x \in t : f[x] \in Int /\ g[x] \in Int
    BY Zenon, <1>3, <1>6, FS_Subset
  <2> QED
    BY Zenon, <1>3, <1>6, <2>1, SumType
<1> QED
  BY <1>3, <1>4, <1>5, <1>7, <1>8

\* No term is larger than the sum of natural numbers it is part of.
LEMMA SumBound ==
  ASSUME NEW S, IsFiniteSet(S), NEW f, \A y \in S : f[y] \in Nat, NEW x \in S
  PROVE  f[x] <= SumFunctionOnSet(f, S)
<1> DEFINE t == S \ {x}
<1>1. IsFiniteSet(t) /\ \A y \in t : f[y] \in Nat
  BY Zenon, FS_Subset
<1>2. SumFunctionOnSet(f, S) = f[x] + SumFunctionOnSet(f, t)
  BY SumRemove
<1>3. SumFunctionOnSet(f, t) \in Nat
  BY Zenon, <1>1, SumNat
<1> QED
  BY <1>2, <1>3

\* A sum of zeroes is zero.
LEMMA SumZero ==
  ASSUME NEW S, IsFiniteSet(S)
  PROVE  SumFunctionOnSet([x \in S |-> 0], S) = 0
<1> DEFINE f == [x \in S |-> 0]
           Bad == {U \in SUBSET S : SumFunctionOnSet(f, U) # 0}
<1>1. SUFFICES ASSUME Bad # {} PROVE FALSE
  BY Zenon
<1>2. PICK U \in Bad : \A r \in Bad : r \subseteq U => r = U
  <2>1. Bad \subseteq SUBSET S
    BY Zenon
  <2> HIDE DEF Bad
  <2> QED
    BY <1>1, <2>1, MinimalSubset
<1> DEFINE t == U \ {Pick(U)}
<1>3. U \in SUBSET S /\ IsFiniteSet(U) /\ SumFunctionOnSet(f, U) # 0
  BY Zenon, FS_Subset
<1>4. U # {} /\ SumFunctionOnSet(f, U) = f[Pick(U)] + SumFunctionOnSet(f, t)
  BY <1>3, SumRec
<1>5. Pick(U) \in U /\ t \in SUBSET S /\ t \subseteq U /\ t # U
  BY Zenon, <1>3, <1>4, PickIn
<1>6. SumFunctionOnSet(f, t) = 0 /\ f[Pick(U)] = 0
  BY Zenon, <1>2, <1>3, <1>5
<1> QED
  BY <1>3, <1>4, <1>6

-------------------------------------------------------------------------------
(* Smallest and largest elements *)

\* A nonempty set of naturals has a smallest element.
LEMMA SmallestElement ==
  ASSUME NEW S \in SUBSET Nat, S # {}
  PROVE  \E m \in S : \A k \in S : m <= k
<1> DEFINE R == OpToRel(<, Nat)
<1>1. IsWellFoundedOn(R, Nat)
  BY Zenon, NatLessThanWellFounded
<1>2. \A x, y \in Nat : x < y => <<x, y>> \in R
  BY DEF OpToRel
<1> HIDE DEF R
<1>3. PICK m \in S : \A k \in S : ~(<<k, m>> \in R)
  BY Zenon, <1>1, WFMin
<1>4. \A k \in S : ~(k < m)
  BY Zenon, <1>2, <1>3
<1>5. \A k \in S : m <= k
  BY <1>4
<1> QED
  BY Zenon, <1>5

\* A nonempty set of naturals has a smallest element, and Min is it.
LEMMA MinIn ==
  ASSUME NEW n \in Nat, NEW S \in SUBSET (0 .. n), S # {}
  PROVE  Min(S) \in S /\ \A y \in S : Min(S) <= y
<1>1. S \in SUBSET Nat
  OBVIOUS
<1>2. \E m \in S : \A k \in S : m =< k
  BY Zenon, <1>1, SmallestElement
<1> QED
  BY Zenon, <1>2 DEF Min

\* A nonempty bounded set of naturals has a largest element, and Max is it.
LEMMA MaxIn ==
  ASSUME NEW n \in Nat, NEW S \in SUBSET (0 .. n), S # {}
  PROVE  Max(S) \in S /\ \A y \in S : y <= Max(S)
<1> DEFINE T == {n - x : x \in S}
<1>1. \A x \in S : n - x \in Nat
  OBVIOUS
<1>2. T \in SUBSET Nat /\ T # {}
  BY Zenon, <1>1
<1>3. PICK m \in T : \A k \in T : m <= k
  <2> HIDE DEF T
  <2> QED BY Zenon, <1>2, SmallestElement
<1>4. PICK x \in S : m = n - x
  BY Zenon
<1>5. \A y \in S : n - x <= n - y
  BY Zenon, <1>3, <1>4
<1>6. \E z \in S : \A y \in S : z >= y
  BY <1>5
<1>7. Max(S) \in S /\ \A y \in S : Max(S) >= y
  BY Zenon, <1>6 DEF Max
<1> QED
  BY <1>7

\* With 0 added, the largest of at most one natural.
LEMMA MaxWithZero ==
  ASSUME NEW n \in Nat
  PROVE  Max({n, 0}) = n
<1>1. {n, 0} \in SUBSET (0 .. n) /\ {n, 0} # {}
  OBVIOUS
<1>2. Max({n, 0}) \in {n, 0} /\ \A y \in {n, 0} : y <= Max({n, 0})
  BY Zenon, <1>1, MaxIn
<1>3. PICK x : x = Max({n, 0})
  BY Zenon
<1>4. x \in {n, 0} /\ n <= x
  BY Zenon, <1>2, <1>3
<1>5. x = n
  BY <1>4
<1> QED
  BY Zenon, <1>3, <1>5

=============================================================================
