------------------------------ MODULE SumLemmas ------------------------------
(***************************************************************************)
(* Facts about SumFunctionOnSet(f, S), the sum of f over a finite set S,   *)
(* which the balances and the counters of this project are.  The operator  *)
(* is a fold, that is a recursive function, and these facts need induction *)
(* over S.  Where a proof by induction would assume the fact of every      *)
(* smaller set, the proofs here take a smallest set for which it fails     *)
(* (lemma SmallestSubset) and look for a contradiction.                    *)
(***************************************************************************)
EXTENDS FiniteSetsExt, FiniteSetTheorems, TLAPS

-----------------------------------------------------------------------------
\* The recursion

\* Of any sets of elements of a finite set, one has none of the others within it.
LEMMA SmallestSubset ==
    ASSUME NEW S, IsFiniteSet(S), NEW W, W \subseteq SUBSET S, W # {}
    PROVE  \E T \in W : \A U \in W : U \subseteq T => U = T
<1>1. IsWellFoundedOn(StrictSubsetOrdering(S), SUBSET S)
  BY FS_StrictSubsetOrderingWellFounded, FS_FiniteSubsetsOfFinite
<1>2. PICK T \in W : \A U \in W : <<U, T>> \notin StrictSubsetOrdering(S)
  BY <1>1, WFMin
<1>. QED  BY <1>2 DEF StrictSubsetOrdering

\* An element of U, the one that the fold takes first.
First(U) == CHOOSE x \in U : TRUE

\* The first element is an element.
LEMMA FirstIsElement ==
    ASSUME NEW U, U # {}
    PROVE  First(U) \in U
BY DEF First

\* g has the sums of f over the subsets of S.
HasSums(g, f, S) ==
    g = [U \in SUBSET S |-> IF U = {} THEN 0 ELSE f[First(U)] + g[U \ {First(U)}]]

\* The sum is the value for S of the function that the recursion defines.
LEMMA SumUnfolds ==
    ASSUME NEW f, NEW S
    PROVE  SumFunctionOnSet(f, S) = (CHOOSE g : HasSums(g, f, S))[S]
BY DEF SumFunctionOnSet, FoldFunctionOnSet, MapThenFoldSet, HasSums, First

\* What has the sums of f over the subsets of S and over those of a part of S
\* agrees there.
LEMMA SumsAgree ==
    ASSUME NEW f, NEW S, IsFiniteSet(S), NEW T \in SUBSET S,
           NEW g, HasSums(g, f, S), NEW h, HasSums(h, f, T)
    PROVE  \A U \in SUBSET T : g[U] = h[U]
<1>. DEFINE W == {U \in SUBSET T : g[U] # h[U]}
<1>. SUFFICES ASSUME W # {} PROVE FALSE
  OBVIOUS
<1>1. PICK U \in W : \A V \in W : V \subseteq U => V = U
  <2>1. W \subseteq SUBSET S
    OBVIOUS
  <2>. HIDE DEF W
  <2>. QED  BY <2>1, SmallestSubset
<1>2. CASE U = {}
  BY <1>1, <1>2 DEF HasSums
<1>3. CASE U # {}
  <2>1. First(U) \in U
    BY <1>3, FirstIsElement
  <2>2. U \ {First(U)} \in SUBSET T /\ U \ {First(U)} \notin W
    BY <1>1, <2>1
  <2>3. /\ g[U] = f[First(U)] + g[U \ {First(U)}]
        /\ h[U] = f[First(U)] + h[U \ {First(U)}]
    BY <1>1, <1>3 DEF HasSums
  <2>. QED  BY <1>1, <2>2, <2>3
<1>. QED  BY <1>2, <1>3

\* The recursion has a solution.
LEMMA SumsExist ==
    ASSUME NEW f, NEW S, IsFiniteSet(S)
    PROVE  \E g : HasSums(g, f, S)
<1>. DEFINE W == {T \in SUBSET S : ~ \E g : HasSums(g, f, T)}
<1>. SUFFICES ASSUME W # {} PROVE FALSE
  OBVIOUS
<1>1. PICK T \in W : \A V \in W : V \subseteq T => V = T
  <2>1. W \subseteq SUBSET S
    OBVIOUS
  <2>. HIDE DEF W
  <2>. QED  BY <2>1, SmallestSubset
<1>. DEFINE sums(V) == CHOOSE h : HasSums(h, f, V)
<1>2. \A V \in SUBSET T : V # T => HasSums(sums(V), f, V)
  <2>1. \A V \in SUBSET T : V # T => \E h : HasSums(h, f, V)
    BY <1>1
  <2>. QED  BY <2>1
<1>3. \A V \in SUBSET T : IsFiniteSet(V)
  BY FS_Subset
<1>. HIDE DEF sums
<1>. DEFINE g == [U \in SUBSET T |->
                    IF U = {} THEN 0
                    ELSE f[First(U)] + sums(U \ {First(U)})[U \ {First(U)}]]
<1>4. ASSUME NEW U \in SUBSET T, U # {}
      PROVE  g[U \ {First(U)}] = sums(U \ {First(U)})[U \ {First(U)}]
  <2>1. PICK V : V = U \ {First(U)}
    OBVIOUS
  <2>2. V \in SUBSET T /\ V # T /\ HasSums(sums(V), f, V)
    BY <1>2, <1>4, <2>1, FirstIsElement
  <2>3. CASE V = {}
    <3>1. sums(V)[V] = 0
      BY <2>2, <2>3 DEF HasSums
    <3>. QED  BY <2>1, <2>2, <2>3, <3>1
  <2>4. CASE V # {}
    <3>1. PICK Z : Z = V \ {First(V)}
      OBVIOUS
    <3>2. Z \in SUBSET V /\ Z \in SUBSET T /\ Z # T
      BY <2>2, <2>4, <3>1, FirstIsElement
    <3>3. sums(V)[Z] = sums(Z)[Z]
      BY <1>2, <1>3, <2>2, <3>2, SumsAgree
    <3>4. sums(V)[V] = f[First(V)] + sums(V)[Z]
      BY <2>2, <2>4, <3>1 DEF HasSums
    <3>5. g[V] = f[First(V)] + sums(Z)[Z]
      BY <2>2, <2>4, <3>1
    <3>. QED  BY <2>1, <3>3, <3>4, <3>5
  <2>. QED  BY <2>3, <2>4
<1>5. g = [U \in SUBSET T |-> IF U = {} THEN 0 ELSE f[First(U)] + g[U \ {First(U)}]]
  BY <1>4
<1>. HIDE DEF g
<1>. QED  BY <1>1, <1>5 DEF HasSums

\* The sum over the empty set.
LEMMA SumEmpty ==
    ASSUME NEW f
    PROVE  SumFunctionOnSet(f, {}) = 0
<1>1. PICK g : g = CHOOSE h : HasSums(h, f, {})
  OBVIOUS
<1>2. HasSums(g, f, {})
  BY <1>1, SumsExist, FS_EmptySet
<1>. QED  BY <1>1, <1>2, SumUnfolds DEF HasSums

\* The sum over another set, by its first element.
LEMMA SumFirst ==
    ASSUME NEW f, NEW S, IsFiniteSet(S), S # {}
    PROVE  SumFunctionOnSet(f, S) =
               f[First(S)] + SumFunctionOnSet(f, S \ {First(S)})
<1>1. PICK T : T = S \ {First(S)}
  OBVIOUS
<1>2. PICK g : g = CHOOSE h : HasSums(h, f, S)
  OBVIOUS
<1>3. PICK k : k = CHOOSE h : HasSums(h, f, T)
  OBVIOUS
<1>4. IsFiniteSet(T) /\ T \in SUBSET S
  BY <1>1, FS_Subset
<1>5. HasSums(g, f, S) /\ HasSums(k, f, T)
  BY <1>2, <1>3, <1>4, SumsExist
<1>6. g[T] = k[T]
  BY <1>4, <1>5, SumsAgree
<1>7. g[S] = f[First(S)] + g[T]
  BY <1>1, <1>5 DEF HasSums
<1>. QED  BY <1>1, <1>2, <1>3, <1>6, <1>7, SumUnfolds

-----------------------------------------------------------------------------
\* What the other modules use

\* A sum of integers is an integer.
LEMMA SumType ==
    ASSUME NEW f, NEW S, IsFiniteSet(S), \A x \in S : f[x] \in Int
    PROVE  SumFunctionOnSet(f, S) \in Int
<1>. DEFINE W == {T \in SUBSET S : SumFunctionOnSet(f, T) \notin Int}
<1>. SUFFICES ASSUME W # {} PROVE FALSE
  OBVIOUS
<1>0. W \subseteq SUBSET S
  OBVIOUS
<1>1. PICK T \in W : \A V \in W : V \subseteq T => V = T
  <2>. HIDE DEF W
  <2>. QED  BY <1>0, SmallestSubset
<1>2. T # {} /\ IsFiniteSet(T)
  <2>1. SumFunctionOnSet(f, {}) \in Int
    BY SumEmpty
  <2>2. IsFiniteSet(T)
    BY <1>0, FS_Subset
  <2>. QED  BY <1>1, <2>1, <2>2
<1>3. First(T) \in T /\ T \ {First(T)} \notin W
  BY <1>1, <1>2, FirstIsElement
<1>. QED  BY <1>1, <1>2, <1>3, SumFirst

\* A sum of natural numbers is one.
LEMMA SumNat ==
    ASSUME NEW f, NEW S, IsFiniteSet(S), \A x \in S : f[x] \in Nat
    PROVE  SumFunctionOnSet(f, S) \in Nat
<1>. DEFINE W == {T \in SUBSET S : SumFunctionOnSet(f, T) \notin Nat}
<1>. SUFFICES ASSUME W # {} PROVE FALSE
  OBVIOUS
<1>0. W \subseteq SUBSET S
  OBVIOUS
<1>1. PICK T \in W : \A V \in W : V \subseteq T => V = T
  <2>. HIDE DEF W
  <2>. QED  BY <1>0, SmallestSubset
<1>2. T # {} /\ IsFiniteSet(T)
  <2>1. SumFunctionOnSet(f, {}) \in Nat
    BY SumEmpty
  <2>2. IsFiniteSet(T)
    BY <1>0, FS_Subset
  <2>. QED  BY <1>1, <2>1, <2>2
<1>3. First(T) \in T /\ T \ {First(T)} \notin W
  BY <1>1, <1>2, FirstIsElement
<1>. QED  BY <1>1, <1>2, <1>3, SumFirst

\* A sum, by any of its elements.
LEMMA SumElement ==
    ASSUME NEW f, NEW S, IsFiniteSet(S), \A y \in S : f[y] \in Int, NEW x \in S
    PROVE  SumFunctionOnSet(f, S) = f[x] + SumFunctionOnSet(f, S \ {x})
<1>. DEFINE sum(T) == SumFunctionOnSet(f, T)
            W == {T \in SUBSET S : \E y \in T : sum(T) # f[y] + sum(T \ {y})}
<1>. SUFFICES ASSUME W # {} PROVE FALSE
  OBVIOUS
<1>0. W \subseteq SUBSET S
  OBVIOUS
<1>1. PICK T \in W : \A V \in W : V \subseteq T => V = T
  <2>. HIDE DEF W
  <2>. QED  BY <1>0, SmallestSubset
<1>2. PICK y \in T : sum(T) # f[y] + sum(T \ {y})
  BY <1>1
<1>3. PICK z \in T : z = First(T)
  BY <1>2, FirstIsElement
<1>4. \A V \in SUBSET T : IsFiniteSet(V) /\ sum(V) \in Int
  <2>1. \A V \in SUBSET S : IsFiniteSet(V)
    BY FS_Subset
  <2>. QED  BY <2>1, <1>0, <1>1, SumType
<1>5. sum(T) = f[z] + sum(T \ {z})
  BY <1>3, <1>4, SumFirst
<1>6. y # z
  BY <1>2, <1>5
<1>7. T \ {y} \notin W /\ T \ {z} \notin W
  BY <1>1
<1>8. /\ sum(T \ {z}) = f[y] + sum((T \ {z}) \ {y})
      /\ sum(T \ {y}) = f[z] + sum((T \ {y}) \ {z})
  BY <1>0, <1>1, <1>6, <1>7
<1>9. (T \ {z}) \ {y} = (T \ {y}) \ {z}
  OBVIOUS
<1>10. f[y] \in Int /\ f[z] \in Int /\ sum((T \ {y}) \ {z}) \in Int
  BY <1>0, <1>1, <1>4
<1>. HIDE DEF sum
<1>. QED  BY <1>2, <1>5, <1>8, <1>9, <1>10

\* A sum with one more element.
LEMMA SumAdd ==
    ASSUME NEW f, NEW S, IsFiniteSet(S), NEW x, x \notin S,
           \A y \in S \cup {x} : f[y] \in Int
    PROVE  /\ IsFiniteSet(S \cup {x})
           /\ SumFunctionOnSet(f, S \cup {x}) = SumFunctionOnSet(f, S) + f[x]
<1>1. IsFiniteSet(S \cup {x})
  BY FS_AddElement
<1>2. (S \cup {x}) \ {x} = S
  OBVIOUS
<1>3. SumFunctionOnSet(f, S \cup {x}) = f[x] + SumFunctionOnSet(f, S)
  BY <1>1, <1>2, SumElement
<1>4. SumFunctionOnSet(f, S) \in Int
  BY SumType
<1>. QED  BY <1>1, <1>3, <1>4

\* The sum of g over the values of an injection h is no less than the sum of f
\* when g is no less than f for each value.
LEMMA SumOfValues ==
    ASSUME NEW f, NEW g, NEW h, NEW S, IsFiniteSet(S),
           \A x \in S : f[x] \in Int /\ g[h[x]] \in Int /\ f[x] <= g[h[x]],
           \A x, y \in S : h[x] = h[y] => x = y
    PROVE  /\ IsFiniteSet({h[x] : x \in S})
           /\ SumFunctionOnSet(f, S) <= SumFunctionOnSet(g, {h[x] : x \in S})
<1>. DEFINE values(T) == {h[x] : x \in T}
            fsum(T) == SumFunctionOnSet(f, T)
            gsum(T) == SumFunctionOnSet(g, values(T))
            W == {T \in SUBSET S : ~(IsFiniteSet(values(T)) /\ fsum(T) <= gsum(T))}
<1>. SUFFICES ASSUME W # {} PROVE FALSE
  OBVIOUS
<1>0. W \subseteq SUBSET S
  OBVIOUS
<1>1. PICK T \in W : \A V \in W : V \subseteq T => V = T
  <2>. HIDE DEF W
  <2>. QED  BY <1>0, SmallestSubset
<1>2. T \subseteq S /\ IsFiniteSet(T)
  BY <1>0, <1>1, FS_Subset
<1>3. T # {}
  <2>1. SUFFICES ASSUME T = {} PROVE FALSE
    OBVIOUS
  <2>2. values(T) = {}
    BY <2>1
  <2>3. fsum(T) = 0
    BY <2>1, SumEmpty
  <2>4. gsum(T) = 0
    BY <2>2, SumEmpty
  <2>5. IsFiniteSet(values(T))
    BY <2>2, FS_EmptySet
  <2>. QED  BY <1>1, <2>3, <2>4, <2>5
<1>4. PICK x \in T : TRUE
  BY <1>3
<1>5. PICK V : V = T \ {x}
  OBVIOUS
<1>6. V \notin W /\ V \subseteq S /\ IsFiniteSet(V)
  BY <1>1, <1>2, <1>4, <1>5, FS_Subset
<1>7. IsFiniteSet(values(V)) /\ fsum(V) <= gsum(V)
  BY <1>6
<1>8. values(T) = values(V) \cup {h[x]} /\ h[x] \notin values(V)
  BY <1>2, <1>4, <1>5
<1>9. fsum(T) = f[x] + fsum(V) /\ f[x] \in Int /\ fsum(V) \in Int
  <2>1. (\A y \in T : f[y] \in Int) /\ (\A y \in V : f[y] \in Int)
    BY <1>2, <1>6
  <2>2. fsum(T) = f[x] + fsum(V)
    BY <1>2, <1>4, <1>5, <2>1, SumElement
  <2>3. fsum(V) \in Int
    BY <1>6, <2>1, SumType
  <2>. QED  BY <1>4, <2>1, <2>2, <2>3
<1>10. \A v \in values(V) \cup {h[x]} : g[v] \in Int
  BY <1>2, <1>4, <1>6
<1>11. /\ IsFiniteSet(values(T)) /\ gsum(T) = gsum(V) + g[h[x]]
       /\ gsum(V) \in Int
  <2>. HIDE DEF values
  <2>. QED  BY <1>7, <1>8, <1>10, SumAdd, SumType
<1>12. f[x] <= g[h[x]] /\ g[h[x]] \in Int
  BY <1>2, <1>4
<1>13. fsum(T) <= gsum(T)
  <2>. HIDE DEF fsum, gsum
  <2>. QED  BY <1>7, <1>9, <1>11, <1>12
<1>. QED  BY <1>1, <1>11, <1>13

\* A sum does not fall when its function does not, or when it gets more elements
\* that are not negative.
LEMMA SumMonotone ==
    ASSUME NEW f, NEW g, NEW T, IsFiniteSet(T), NEW S \in SUBSET T,
           \A x \in S : f[x] \in Int /\ f[x] <= g[x],
           \A x \in T : g[x] \in Int,
           \A x \in T \ S : g[x] >= 0
    PROVE  SumFunctionOnSet(f, S) <= SumFunctionOnSet(g, T)
<1>. DEFINE fsum(V) == SumFunctionOnSet(f, V \cap S)
            gsum(V) == SumFunctionOnSet(g, V)
            W == {V \in SUBSET T : ~(fsum(V) <= gsum(V))}
<1>0. W \subseteq SUBSET T
  OBVIOUS
<1>1. ASSUME W # {} PROVE FALSE
  <2>1. PICK U \in W : \A V \in W : V \subseteq U => V = U
    <3>. HIDE DEF W
    <3>. QED  BY <1>0, <1>1, SmallestSubset
  <2>2. CASE U = {}
    <3>1. fsum(U) = 0 /\ gsum(U) = 0
      <4>1. U \cap S = {}
        BY <2>2
      <4>. QED  BY <2>2, <4>1, SumEmpty
    <3>. QED  BY <2>1, <3>1
  <2>3. CASE U # {}
    <3>1. PICK x \in U : TRUE
      BY <2>3
    <3>2. PICK V : V = U \ {x}
      OBVIOUS
    <3>3. V \notin W /\ V \in SUBSET T /\ U \in SUBSET T
      BY <1>0, <2>1, <3>1, <3>2
    <3>4. fsum(V) <= gsum(V)
      BY <3>3
    <3>5. gsum(U) = g[x] + gsum(V) /\ gsum(V) \in Int /\ g[x] \in Int
      <4>1. IsFiniteSet(U) /\ IsFiniteSet(V)
        BY <3>3, FS_Subset
      <4>2. (\A y \in U : g[y] \in Int) /\ (\A y \in V : g[y] \in Int)
        BY <3>3
      <4>3. gsum(U) = g[x] + gsum(V)
        BY <3>1, <3>2, <4>1, <4>2, SumElement
      <4>4. gsum(V) \in Int
        BY <4>1, <4>2, SumType
      <4>. QED  BY <3>1, <4>2, <4>3, <4>4
    <3>6. fsum(V) \in Int
      <4>1. IsFiniteSet(V \cap S)
        BY <3>3, FS_Subset
      <4>2. \A y \in V \cap S : f[y] \in Int
        OBVIOUS
      <4>. QED  BY <4>1, <4>2, SumType
    <3>7. CASE x \in S
      <4>1. IsFiniteSet(U \cap S) /\ x \in U \cap S
        BY <3>1, <3>3, <3>7, FS_Subset
      <4>2. (U \cap S) \ {x} = V \cap S
        BY <3>2
      <4>3. \A y \in U \cap S : f[y] \in Int
        OBVIOUS
      <4>4. fsum(U) = f[x] + fsum(V)
        BY <4>1, <4>2, <4>3, SumElement
      <4>5. f[x] \in Int /\ f[x] <= g[x]
        BY <3>7
      <4>6. fsum(U) <= gsum(U)
        <5>. HIDE DEF fsum, gsum
        <5>. QED  BY <3>4, <3>5, <3>6, <4>4, <4>5
      <4>. QED  BY <2>1, <4>6
    <3>8. CASE x \notin S
      <4>1. U \cap S = V \cap S
        BY <3>2, <3>8
      <4>2. g[x] >= 0
        BY <3>1, <3>3, <3>8
      <4>3. fsum(U) <= gsum(U)
        <5>1. fsum(U) = fsum(V)
          BY <4>1
        <5>. HIDE DEF fsum, gsum
        <5>. QED  BY <3>4, <3>5, <3>6, <4>2, <5>1
      <4>. QED  BY <2>1, <4>3
    <3>. QED  BY <3>7, <3>8
  <2>. QED  BY <2>2, <2>3
<1>2. T \cap S = S /\ T \in SUBSET T
  OBVIOUS
<1>3. fsum(T) <= gsum(T)
  BY <1>1, <1>2
<1>. QED  BY <1>2, <1>3

\* The sum of g over a set P into which h maps S injectively is no less than that
\* of f over S, when g is nowhere negative and no less than f for each value.
LEMMA SumInjected ==
    ASSUME NEW f, NEW g, NEW h, NEW S, NEW P, IsFiniteSet(P),
           \A x \in S : h[x] \in P /\ f[x] \in Int /\ f[x] <= g[h[x]],
           \A x, y \in S : h[x] = h[y] => x = y,
           \A i \in P : g[i] \in Int /\ g[i] >= 0
    PROVE  /\ IsFiniteSet(S)
           /\ SumFunctionOnSet(f, S) <= SumFunctionOnSet(g, P)
<1>1. PICK V : V = {h[x] : x \in S}
  OBVIOUS
<1>2. V \in SUBSET P
  BY <1>1
<1>3. IsFiniteSet(S)
  <2>. DEFINE k == [x \in S |-> h[x]]
  <2>1. k \in Injection(S, P)
    BY DEF Injection, IsInjective
  <2>. HIDE DEF k
  <2>. QED  BY <2>1, FS_Injection
<1>4. /\ \A x \in S : f[x] \in Int /\ g[h[x]] \in Int /\ f[x] <= g[h[x]]
      /\ \A x \in V : g[x] \in Int /\ g[x] <= g[x]
      /\ \A x \in P : g[x] \in Int
      /\ \A x \in P \ V : g[x] >= 0
  BY <1>1
<1>5. SumFunctionOnSet(f, S) <= SumFunctionOnSet(g, V)
  BY <1>1, <1>3, <1>4, SumOfValues
<1>6. SumFunctionOnSet(g, V) <= SumFunctionOnSet(g, P)
  BY <1>2, <1>4, SumMonotone
<1>7. /\ SumFunctionOnSet(f, S) \in Int /\ SumFunctionOnSet(g, V) \in Int
      /\ SumFunctionOnSet(g, P) \in Int
  BY <1>2, <1>3, <1>4, FS_Subset, SumType
<1>. QED  BY <1>3, <1>5, <1>6, <1>7

\* Functions that agree have the same sum.
LEMMA SumSame ==
    ASSUME NEW f, NEW g, NEW S, IsFiniteSet(S),
           \A x \in S : f[x] \in Int /\ f[x] = g[x]
    PROVE  SumFunctionOnSet(f, S) = SumFunctionOnSet(g, S)
<1>1. \A x \in S : /\ f[x] \in Int /\ g[x] \in Int
                   /\ f[x] <= g[x] /\ g[x] <= f[x]
  OBVIOUS
<1>2. SumFunctionOnSet(f, S) \in Int /\ SumFunctionOnSet(g, S) \in Int
  <2>1. (\A x \in S : f[x] \in Int) /\ (\A x \in S : g[x] \in Int)
    BY <1>1
  <2>. QED  BY <2>1, SumType
<1>3. SumFunctionOnSet(f, S) <= SumFunctionOnSet(g, S)
  BY <1>1, SumMonotone
<1>4. SumFunctionOnSet(g, S) <= SumFunctionOnSet(f, S)
  BY <1>1, SumMonotone
<1>. QED  BY <1>2, <1>3, <1>4

\* The sum of two functions.
LEMMA SumPlus ==
    ASSUME NEW f, NEW g, NEW h, NEW S, IsFiniteSet(S),
           \A x \in S : f[x] \in Int /\ g[x] \in Int /\ h[x] = f[x] + g[x]
    PROVE  SumFunctionOnSet(h, S) = SumFunctionOnSet(f, S) + SumFunctionOnSet(g, S)
<1>. DEFINE fsum(V) == SumFunctionOnSet(f, V)
            gsum(V) == SumFunctionOnSet(g, V)
            hsum(V) == SumFunctionOnSet(h, V)
            W == {V \in SUBSET S : hsum(V) # fsum(V) + gsum(V)}
<1>0. W \subseteq SUBSET S
  OBVIOUS
<1>. SUFFICES ASSUME W # {} PROVE FALSE
  OBVIOUS
<1>1. PICK U \in W : \A V \in W : V \subseteq U => V = U
  <2>. HIDE DEF W
  <2>. QED  BY <1>0, SmallestSubset
<1>2. CASE U = {}
  <2>1. fsum(U) = 0 /\ gsum(U) = 0 /\ hsum(U) = 0
    BY <1>2, SumEmpty
  <2>. QED  BY <1>1, <2>1
<1>3. CASE U # {}
  <2>1. PICK x \in U : TRUE
    BY <1>3
  <2>2. PICK V : V = U \ {x}
    OBVIOUS
  <2>3. V \notin W /\ V \in SUBSET S /\ U \in SUBSET S
    BY <1>0, <1>1, <2>1, <2>2
  <2>4. hsum(V) = fsum(V) + gsum(V)
    BY <2>3
  <2>5. IsFiniteSet(U) /\ IsFiniteSet(V)
    BY <2>3, FS_Subset
  <2>6. /\ \A y \in U : f[y] \in Int
        /\ \A y \in U : g[y] \in Int
        /\ \A y \in U : h[y] \in Int
        /\ \A y \in V : f[y] \in Int
        /\ \A y \in V : g[y] \in Int
    BY <2>3
  <2>7. fsum(U) = f[x] + fsum(V)
    BY <2>1, <2>2, <2>5, <2>6, SumElement
  <2>8. gsum(U) = g[x] + gsum(V)
    BY <2>1, <2>2, <2>5, <2>6, SumElement
  <2>9. hsum(U) = h[x] + hsum(V)
    BY <2>1, <2>2, <2>5, <2>6, SumElement
  <2>10. fsum(V) \in Int /\ gsum(V) \in Int
    BY <2>5, <2>6, SumType
  <2>11. f[x] \in Int /\ g[x] \in Int /\ h[x] = f[x] + g[x]
    BY <2>1, <2>3
  <2>12. hsum(U) = fsum(U) + gsum(U)
    <3>. HIDE DEF fsum, gsum, hsum
    <3>. QED  BY <2>4, <2>7, <2>8, <2>9, <2>10, <2>11
  <2>. QED  BY <1>1, <2>12
<1>. QED  BY <1>2, <1>3

\* A multiple of a sum.
LEMMA SumTimes ==
    ASSUME NEW f, NEW g, NEW S, IsFiniteSet(S), NEW c \in Int,
           \A x \in S : f[x] \in Int /\ g[x] = c * f[x]
    PROVE  SumFunctionOnSet(g, S) = c * SumFunctionOnSet(f, S)
<1>. DEFINE fsum(V) == SumFunctionOnSet(f, V)
            gsum(V) == SumFunctionOnSet(g, V)
            W == {V \in SUBSET S : gsum(V) # c * fsum(V)}
<1>0. W \subseteq SUBSET S
  OBVIOUS
<1>. SUFFICES ASSUME W # {} PROVE FALSE
  OBVIOUS
<1>1. PICK U \in W : \A V \in W : V \subseteq U => V = U
  <2>. HIDE DEF W
  <2>. QED  BY <1>0, SmallestSubset
<1>2. CASE U = {}
  <2>1. fsum(U) = 0 /\ gsum(U) = 0
    BY <1>2, SumEmpty
  <2>. QED  BY <1>1, <2>1
<1>3. CASE U # {}
  <2>1. PICK x \in U : TRUE
    BY <1>3
  <2>2. PICK V : V = U \ {x}
    OBVIOUS
  <2>3. V \notin W /\ V \in SUBSET S /\ U \in SUBSET S
    BY <1>0, <1>1, <2>1, <2>2
  <2>4. gsum(V) = c * fsum(V)
    BY <2>3
  <2>5. IsFiniteSet(U) /\ IsFiniteSet(V)
    BY <2>3, FS_Subset
  <2>6. /\ \A y \in U : f[y] \in Int
        /\ \A y \in U : g[y] \in Int
        /\ \A y \in V : f[y] \in Int
    BY <2>3
  <2>7. fsum(U) = f[x] + fsum(V)
    BY <2>1, <2>2, <2>5, <2>6, SumElement
  <2>8. gsum(U) = g[x] + gsum(V)
    BY <2>1, <2>2, <2>5, <2>6, SumElement
  <2>9. fsum(V) \in Int
    BY <2>5, <2>6, SumType
  <2>10. f[x] \in Int /\ g[x] = c * f[x]
    BY <2>1, <2>3
  <2>11. \A a, b \in Int : c * (a + b) = c * a + c * b
    OBVIOUS
  <2>12. gsum(U) = c * fsum(U)
    <3>. HIDE DEF fsum, gsum
    <3>. QED  BY <2>4, <2>7, <2>8, <2>9, <2>10, <2>11
  <2>. QED  BY <1>1, <2>12
<1>. QED  BY <1>2, <1>3

\* Elements where the function is 0 add nothing.
LEMMA SumMoreZeros ==
    ASSUME NEW f, NEW T, IsFiniteSet(T), NEW S \in SUBSET T,
           \A x \in T : f[x] \in Int,
           \A x \in T \ S : f[x] = 0
    PROVE  SumFunctionOnSet(f, T) = SumFunctionOnSet(f, S)
<1>0. PICK c \in Int : c = -1
  OBVIOUS
<1>1. PICK g : g = [x \in T |-> c * f[x]]
  OBVIOUS
<1>2. IsFiniteSet(S) /\ \A x \in S : f[x] \in Int
  BY FS_Subset
<1>3. /\ \A x \in T : g[x] \in Int /\ g[x] = c * f[x]
      /\ \A x \in S : g[x] \in Int /\ g[x] = c * f[x]
  BY <1>1
<1>4. SumFunctionOnSet(f, S) <= SumFunctionOnSet(f, T)
  BY SumMonotone
<1>5. SumFunctionOnSet(g, S) <= SumFunctionOnSet(g, T)
  <2>1. \A x \in T \ S : g[x] >= 0
    BY <1>0, <1>1
  <2>. QED  BY <1>3, <2>1, SumMonotone
<1>6. /\ SumFunctionOnSet(g, S) = c * SumFunctionOnSet(f, S)
      /\ SumFunctionOnSet(g, T) = c * SumFunctionOnSet(f, T)
  BY <1>2, <1>3, SumTimes
<1>7. SumFunctionOnSet(f, S) \in Int /\ SumFunctionOnSet(f, T) \in Int
  BY <1>2, SumType
<1>. QED  BY <1>0, <1>4, <1>5, <1>6, <1>7

\* A sum over a set is that over a part and that over the rest.
LEMMA SumSplit ==
    ASSUME NEW f, NEW S, IsFiniteSet(S), NEW A \in SUBSET S, \A x \in S : f[x] \in Int
    PROVE  SumFunctionOnSet(f, S) = SumFunctionOnSet(f, A) + SumFunctionOnSet(f, S \ A)
<1>1. PICK B : B = S \ A
  OBVIOUS
<1>2. PICK g, h : /\ g = [x \in S |-> IF x \in A THEN f[x] ELSE 0]
                  /\ h = [x \in S |-> IF x \in A THEN 0 ELSE f[x]]
  OBVIOUS
<1>3. SumFunctionOnSet(f, S) = SumFunctionOnSet(g, S) + SumFunctionOnSet(h, S)
  <2>1. \A x \in S : g[x] \in Int /\ h[x] \in Int /\ f[x] = g[x] + h[x]
    BY <1>2
  <2>. QED  BY <2>1, SumPlus
<1>4. SumFunctionOnSet(g, S) = SumFunctionOnSet(f, A)
  <2>1. /\ IsFiniteSet(A)
        /\ \A x \in S : g[x] \in Int
        /\ \A x \in S \ A : g[x] = 0
        /\ \A x \in A : g[x] \in Int /\ g[x] = f[x]
    BY <1>2, FS_Subset
  <2>2. SumFunctionOnSet(g, S) = SumFunctionOnSet(g, A)
    BY <2>1, SumMoreZeros
  <2>. QED  BY <2>1, <2>2, SumSame
<1>5. SumFunctionOnSet(h, S) = SumFunctionOnSet(f, B)
  <2>1. /\ IsFiniteSet(B) /\ B \in SUBSET S
        /\ \A x \in S : h[x] \in Int
        /\ \A x \in S \ B : h[x] = 0
        /\ \A x \in B : h[x] \in Int /\ h[x] = f[x]
    BY <1>1, <1>2, FS_Subset
  <2>2. SumFunctionOnSet(h, S) = SumFunctionOnSet(h, B)
    BY <2>1, SumMoreZeros
  <2>. QED  BY <2>1, <2>2, SumSame
<1>. QED  BY <1>1, <1>3, <1>4, <1>5

\* A sum follows its function when that changes at x and nowhere else, whatever
\* elements come along where it is 0.
LEMMA SumFollows ==
    ASSUME NEW f, NEW g, NEW T, IsFiniteSet(T), NEW S \in SUBSET T, NEW x \in S,
           \A y \in S : f[y] \in Int,
           \A y \in T : g[y] \in Int,
           \A y \in S : y # x => g[y] = f[y],
           \A y \in T \ S : g[y] = 0
    PROVE  SumFunctionOnSet(g, T) = SumFunctionOnSet(f, S) + (g[x] - f[x])
<1>1. IsFiniteSet(S)
  BY FS_Subset
<1>2. SumFunctionOnSet(g, T) = SumFunctionOnSet(g, S)
  BY SumMoreZeros
<1>3. PICK U : U = S \ {x}
  OBVIOUS
<1>4. /\ IsFiniteSet(U) /\ (\A y \in U : f[y] \in Int)
      /\ (\A y \in U : f[y] \in Int /\ f[y] = g[y])
  BY <1>1, <1>3, FS_Subset
<1>5. /\ SumFunctionOnSet(f, S) = f[x] + SumFunctionOnSet(f, U)
      /\ SumFunctionOnSet(g, S) = g[x] + SumFunctionOnSet(g, U)
  <2>1. \A y \in S : g[y] \in Int
    OBVIOUS
  <2>. QED  BY <1>1, <1>3, <2>1, SumElement
<1>6. SumFunctionOnSet(f, U) = SumFunctionOnSet(g, U)
  BY <1>4, SumSame
<1>7. SumFunctionOnSet(f, U) \in Int /\ f[x] \in Int /\ g[x] \in Int
  BY <1>4, SumType
<1>. QED  BY <1>2, <1>5, <1>6, <1>7

\* A sum of at most n elements, each of at most c, is at most n * c.
LEMMA SumBounded ==
    ASSUME NEW f, NEW S, IsFiniteSet(S), NEW c \in Nat,
           \A x \in S : f[x] \in Int /\ f[x] <= c,
           NEW n \in Nat, Cardinality(S) <= n
    PROVE  SumFunctionOnSet(f, S) <= n * c
<1>. DEFINE sum(V) == SumFunctionOnSet(f, V)
            W == {V \in SUBSET S : ~(sum(V) <= Cardinality(V) * c)}
<1>0. W \subseteq SUBSET S
  OBVIOUS
<1>1. ASSUME W # {} PROVE FALSE
  <2>1. PICK U \in W : \A V \in W : V \subseteq U => V = U
    <3>. HIDE DEF W
    <3>. QED  BY <1>0, <1>1, SmallestSubset
  <2>2. CASE U = {}
    <3>1. sum(U) = 0 /\ Cardinality(U) = 0
      BY <2>2, SumEmpty, FS_EmptySet
    <3>2. 0 * c = 0
      OBVIOUS
    <3>. QED  BY <2>1, <3>1, <3>2
  <2>3. CASE U # {}
    <3>1. PICK x \in U : TRUE
      BY <2>3
    <3>2. PICK V : V = U \ {x}
      OBVIOUS
    <3>3. V \notin W /\ V \in SUBSET S /\ U \in SUBSET S
      BY <1>0, <2>1, <3>1, <3>2
    <3>4. sum(V) <= Cardinality(V) * c
      BY <3>3
    <3>5. IsFiniteSet(U) /\ IsFiniteSet(V)
      BY <3>3, FS_Subset
    <3>6. (\A y \in U : f[y] \in Int) /\ (\A y \in V : f[y] \in Int)
      BY <3>3
    <3>7. sum(U) = f[x] + sum(V)
      BY <3>1, <3>2, <3>5, <3>6, SumElement
    <3>8. sum(V) \in Int
      BY <3>5, <3>6, SumType
    <3>9. f[x] \in Int /\ f[x] <= c
      BY <3>1, <3>3
    <3>10. PICK k \in Nat : k = Cardinality(V) /\ Cardinality(U) = k + 1
      BY <3>1, <3>2, <3>5, FS_RemoveElement, FS_CardinalityType
    <3>11. (k + 1) * c = k * c + c /\ k * c \in Int
      OBVIOUS
    <3>12. sum(U) <= Cardinality(U) * c
      <4>. HIDE DEF sum
      <4>. QED  BY <3>4, <3>7, <3>8, <3>9, <3>10, <3>11
    <3>. QED  BY <2>1, <3>12
  <2>. QED  BY <2>2, <2>3
<1>2. sum(S) <= Cardinality(S) * c
  BY <1>1
<1>3. sum(S) \in Int
  BY SumType
<1>4. PICK k \in Nat : k = Cardinality(S)
  BY FS_CardinalityType
<1>5. k * c <= n * c /\ k * c \in Int /\ n * c \in Int
  <2>1. PICK d \in Nat : d = n - k /\ n = k + d
    <3>1. n - k \in Nat /\ n = k + (n - k)
      BY <1>4
    <3>. QED  BY <3>1
  <2>2. (k + d) * c = k * c + d * c /\ d * c \in Nat /\ k * c \in Nat
    OBVIOUS
  <2>. QED  BY <2>1, <2>2
<1>. HIDE DEF sum
<1>6. sum(S) <= n * c
  BY <1>2, <1>3, <1>4, <1>5
<1>. QED  BY <1>6 DEF sum

=============================================================================
