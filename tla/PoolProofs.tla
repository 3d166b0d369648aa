----------------------------- MODULE PoolProofs ------------------------------
(***************************************************************************)
(* The two pools of ward/pool.py: what the health of a risk pool counts    *)
(* and what its gate rests on, and what the members of a mutual pool bear, *)
(* for any policies, members, amounts and accounts.                        *)
(***************************************************************************)
EXTENDS PoolHealth, MutualPool, FiniteSetTheorems, SequenceTheorems, TLAPS

-----------------------------------------------------------------------------
(* Sums over finite sets                                                   *)

LEMMA MinimalSubset ==
    ASSUME NEW S, IsFiniteSet(S), NEW T, T \subseteq SUBSET S, T # {}
    PROVE  \E m \in T : \A t \in T : t \subseteq m => t = m
<1>1. IsWellFoundedOn(StrictSubsetOrdering(S), SUBSET S)
  BY FS_StrictSubsetOrderingWellFounded, FS_FiniteSubsetsOfFinite
<1>2. PICK m \in T : \A t \in T : ~(<<t, m>> \in StrictSubsetOrdering(S))
  BY <1>1, WFMin
<1> QED
  BY <1>2 DEF StrictSubsetOrdering

\* A family with the empty set that grows element by element up to S has S.
LEMMA ElementByElement ==
    ASSUME NEW S, IsFiniteSet(S), NEW T, {} \in T,
           \A s \in SUBSET S, x \in S : s \in T => s \cup {x} \in T
    PROVE  S \in T
<1> DEFINE Bad == {s \in SUBSET S : s \notin T}
<1>1. ASSUME Bad # {} PROVE FALSE
  <2>1. PICK b \in Bad : \A t \in Bad : t \subseteq b => t = b
    <3>1. Bad \subseteq SUBSET S
      OBVIOUS
    <3> HIDE DEF Bad
    <3> QED
      BY <1>1, <3>1, MinimalSubset
  <2>2. PICK x \in b : TRUE
    OBVIOUS
  <2>3. b \ {x} \in T
    BY <2>1, <2>2
  <2>4. (b \ {x}) \cup {x} = b
    OBVIOUS
  <2> QED
    BY <2>3, <2>4
<1> QED
  BY <1>1

Picked(s) == CHOOSE y \in s : TRUE
IterStep(g, f, s) == IF s = {} THEN 0 ELSE f[Picked(s)] + g[s \ {Picked(s)}]

\* g is a sum of f over each subset of S, as SumFunctionOnSet recurs.
Solves(g, f, S) == \A s \in SUBSET S : g[s] = IterStep(g, f, s)

LEMMA SolvesOnce ==
    ASSUME NEW S, IsFiniteSet(S), NEW f, NEW h, \A x \in S : f[x] = h[x],
           NEW g, NEW k, Solves(g, f, S), Solves(k, h, S)
    PROVE  \A s \in SUBSET S : g[s] = k[s]
<1> DEFINE Bad == {s \in SUBSET S : g[s] # k[s]}
<1>1. ASSUME Bad # {} PROVE FALSE
  <2>1. PICK b \in Bad : \A t \in Bad : t \subseteq b => t = b
    <3>1. Bad \subseteq SUBSET S
      OBVIOUS
    <3> HIDE DEF Bad
    <3> QED
      BY <1>1, <3>1, MinimalSubset
  <2>2. g[b] = IterStep(g, f, b) /\ k[b] = IterStep(k, h, b)
    BY DEF Solves
  <2>3. b # {}
    BY <2>2 DEF IterStep
  <2>4. Picked(b) \in b
    BY <2>3 DEF Picked
  <2>5. g[b \ {Picked(b)}] = k[b \ {Picked(b)}]
    BY <2>1, <2>4
  <2> QED
    BY <2>2, <2>3, <2>4, <2>5 DEF IterStep
<1> QED
  BY <1>1

LEMMA SolvesAll ==
    ASSUME NEW S, IsFiniteSet(S), NEW f
    PROVE  \E g : Solves(g, f, S)
<1> DEFINE Bad == {s \in SUBSET S : ~ \E g : Solves(g, f, s)}
<1>1. ASSUME Bad # {} PROVE FALSE
  <2>1. PICK b \in Bad : \A t \in Bad : t \subseteq b => t = b
    <3>1. Bad \subseteq SUBSET S
      OBVIOUS
    <3> HIDE DEF Bad
    <3> QED
      BY <1>1, <3>1, MinimalSubset
  <2> DEFINE part(s) == CHOOSE g : Solves(g, f, s)
             low == [s \in SUBSET b |-> part(s)[s]]
             all == [s \in SUBSET b |-> IF s = b THEN IterStep(low, f, b) ELSE low[s]]
  <2>2. \A s \in SUBSET b : s # b => Solves(part(s), f, s)
    <3>1. \A s \in SUBSET b : s # b => \E g : Solves(g, f, s)
      BY <2>1
    <3> QED
      BY <3>1
  <2>3. ASSUME NEW s \in SUBSET b, s # b PROVE all[s] = IterStep(all, f, s)
    <3>1. low[s] = IterStep(part(s), f, s)
      BY <2>2, <2>3 DEF Solves
    <3>2. CASE s = {}
      BY <2>3, <3>1, <3>2 DEF IterStep
    <3>3. CASE s # {}
      <4> DEFINE r == s \ {Picked(s)}
      <4>1. Picked(s) \in s
        BY <3>3 DEF Picked
      <4>2. r \in SUBSET b /\ r # b /\ r \in SUBSET s
        BY <4>1
      <4>3. Solves(part(s), f, r) /\ Solves(part(r), f, r)
        BY <2>2, <2>3, <4>2 DEF Solves
      <4>4. IsFiniteSet(r)
        BY <4>2, FS_Subset
      <4> HIDE DEF part
      <4>5. part(s)[r] = part(r)[r]
        BY <4>3, <4>4, SolvesOnce
      <4>6. all[s] = low[s] /\ all[r] = part(r)[r]
        BY <2>3, <4>2
      <4> QED
        BY <3>1, <3>3, <4>5, <4>6 DEF IterStep
    <3> QED
      BY <3>2, <3>3
  <2>4. all[b] = IterStep(all, f, b)
    <3>1. all[b] = IterStep(low, f, b)
      OBVIOUS
    <3>2. CASE b = {}
      BY <3>1, <3>2 DEF IterStep
    <3>3. CASE b # {}
      <4>1. b \ {Picked(b)} # b /\ b \ {Picked(b)} \in SUBSET b
        BY <3>3 DEF Picked
      <4> HIDE DEF low
      <4>2. all[b \ {Picked(b)}] = low[b \ {Picked(b)}]
        BY <4>1
      <4> QED
        BY <3>1, <3>3, <4>2 DEF IterStep
    <3> QED
      BY <3>2, <3>3
  <2>5. Solves(all, f, b)
    BY <2>3, <2>4 DEF Solves
  <2> QED
    BY <2>5
<1>2. S \notin Bad
  BY <1>1
<1> QED
  BY <1>2

LEMMA SumIs ==
    ASSUME NEW S, IsFiniteSet(S), NEW f, NEW g, Solves(g, f, S)
    PROVE  SumFunctionOnSet(f, S) = g[S]
<1> DEFINE Body(i) == [s \in SUBSET S |->
                         IF s = {} THEN 0
                         ELSE LET x == CHOOSE y \in s : TRUE IN f[x] + i[s \ {x}]]
           iter == CHOOSE i : i = Body(i)
           own == [s \in SUBSET S |-> g[s]]
<1>1. SumFunctionOnSet(f, S) = iter[S]
  BY DEF SumFunctionOnSet, FoldFunctionOnSet, MapThenFoldSet
<1>2. own = Body(own)
  <2>1. ASSUME NEW s \in SUBSET S PROVE own[s] = Body(own)[s]
    <3>1. own[s] = IterStep(g, f, s)
      BY DEF Solves
    <3>2. CASE s = {}
      BY <3>1, <3>2 DEF IterStep
    <3>3. CASE s # {}
      BY <3>1, <3>3 DEF IterStep, Picked
    <3> QED
      BY <3>2, <3>3
  <2> QED
    BY <2>1
<1>3. iter = Body(iter)
  <2> HIDE DEF Body, own
  <2> QED
    BY <1>2
<1> HIDE DEF iter
<1>4. Solves(iter, f, S)
  BY <1>3 DEF Solves, IterStep, Picked
<1> QED
  BY <1>1, <1>4, SolvesOnce
LEMMA SumEmpty == \A f : SumFunctionOnSet(f, {}) = 0
<1> SUFFICES ASSUME NEW f PROVE SumFunctionOnSet(f, {}) = 0
  OBVIOUS
<1>1. PICK g : Solves(g, f, {})
  BY FS_EmptySet, SolvesAll
<1>2. SumFunctionOnSet(f, {}) = g[{}]
  BY <1>1, FS_EmptySet, SumIs
<1> QED
  BY <1>1, <1>2 DEF Solves, IterStep

LEMMA SumSame ==
    ASSUME NEW S, IsFiniteSet(S), NEW f, NEW h, \A x \in S : f[x] = h[x]
    PROVE  SumFunctionOnSet(f, S) = SumFunctionOnSet(h, S)
<1>1. PICK g : Solves(g, f, S)
  BY SolvesAll
<1>2. PICK k : Solves(k, h, S)
  BY SolvesAll
<1>3. SumFunctionOnSet(f, S) = g[S] /\ SumFunctionOnSet(h, S) = k[S]
  BY <1>1, <1>2, SumIs
<1> QED
  BY <1>1, <1>2, <1>3, SolvesOnce

\* The recursion, for the element that CHOOSE picks.
LEMMA SumPicked ==
    ASSUME NEW S, IsFiniteSet(S), NEW f, S # {}
    PROVE  SumFunctionOnSet(f, S)
             = f[Picked(S)] + SumFunctionOnSet(f, S \ {Picked(S)})
<1>1. PICK g : Solves(g, f, S)
  BY SolvesAll
<1> DEFINE rest == S \ {Picked(S)}
<1>2. IsFiniteSet(rest) /\ rest \in SUBSET S
  BY FS_Subset
<1>3. Solves(g, f, rest)
  BY <1>1, <1>2 DEF Solves
<1> HIDE DEF rest
<1>4. SumFunctionOnSet(f, S) = g[S] /\ SumFunctionOnSet(f, rest) = g[rest]
  BY <1>1, <1>2, <1>3, SumIs
<1>5. g[S] = f[Picked(S)] + g[rest]
  BY <1>1 DEF Solves, IterStep, rest
<1> QED
  BY <1>4, <1>5 DEF rest

LEMMA SumInt ==
    ASSUME NEW S, IsFiniteSet(S), NEW f, \A x \in S : f[x] \in Int
    PROVE  SumFunctionOnSet(f, S) \in Int
<1> DEFINE Bad == {s \in SUBSET S : SumFunctionOnSet(f, s) \notin Int}
<1>1. ASSUME Bad # {} PROVE FALSE
  <2>1. PICK b \in Bad : \A t \in Bad : t \subseteq b => t = b
    <3>1. Bad \subseteq SUBSET S
      OBVIOUS
    <3> HIDE DEF Bad
    <3> QED
      BY <1>1, <3>1, MinimalSubset
  <2>2. b # {}
    BY SumEmpty
  <2>3. Picked(b) \in b
    BY <2>2 DEF Picked
  <2>4. SumFunctionOnSet(f, b \ {Picked(b)}) \in Int
    BY <2>1, <2>3
  <2>5. SumFunctionOnSet(f, b) = f[Picked(b)] + SumFunctionOnSet(f, b \ {Picked(b)})
    BY <2>2, FS_Subset, SumPicked
  <2> QED
    BY <2>3, <2>4, <2>5
<1>2. S \notin Bad
  BY <1>1
<1> QED
  BY <1>2

\* The order in which the elements are taken does not matter.
LEMMA SumTake ==
    ASSUME NEW S, IsFiniteSet(S), NEW f, \A x \in S : f[x] \in Int, NEW z \in S
    PROVE  SumFunctionOnSet(f, S) = f[z] + SumFunctionOnSet(f, S \ {z})
<1> DEFINE Sum(s) == SumFunctionOnSet(f, s)
           Bad == {s \in SUBSET S : \E x \in s : Sum(s) # f[x] + Sum(s \ {x})}
<1> HIDE DEF Sum
<1>1. ASSUME Bad # {} PROVE FALSE
  <2>1. PICK b \in Bad : \A t \in Bad : t \subseteq b => t = b
    <3>1. Bad \subseteq SUBSET S
      OBVIOUS
    <3> HIDE DEF Bad
    <3> QED
      BY <1>1, <3>1, MinimalSubset
  <2>2. PICK x \in b : Sum(b) # f[x] + Sum(b \ {x})
    OBVIOUS
  <2> DEFINE y == Picked(b)
  <2>3. y \in b
    BY <2>2 DEF Picked
  <2> HIDE DEF y
  <2>4. Sum(b) = f[y] + Sum(b \ {y})
    BY <2>2, FS_Subset, SumPicked DEF Sum, y
  <2>5. x # y
    BY <2>2, <2>4
  <2>6. Sum(b \ {y}) = f[x] + Sum((b \ {y}) \ {x})
    <3>1. b \ {y} \notin Bad /\ x \in b \ {y}
      BY <2>1, <2>3, <2>5
    <3> QED
      BY <3>1
  <2>7. Sum(b \ {x}) = f[y] + Sum((b \ {x}) \ {y})
    <3>1. b \ {x} \notin Bad /\ y \in b \ {x}
      BY <2>1, <2>2, <2>3, <2>5
    <3> QED
      BY <3>1
  <2>8. (b \ {y}) \ {x} = (b \ {x}) \ {y}
    OBVIOUS
  <2>9. Sum((b \ {x}) \ {y}) \in Int
    <3>1. IsFiniteSet((b \ {x}) \ {y})
      BY FS_Subset
    <3> QED
      BY <3>1, SumInt DEF Sum
  <2>10. f[x] \in Int /\ f[y] \in Int
    BY <2>3
  <2>11. PICK k \in Int : k = Sum((b \ {x}) \ {y})
    BY <2>9
  <2>12. Sum(b) = f[y] + (f[x] + k)
    BY <2>4, <2>6, <2>8, <2>11
  <2>13. f[x] + Sum(b \ {x}) = f[x] + (f[y] + k)
    BY <2>7, <2>11
  <2>14. f[y] + (f[x] + k) = f[x] + (f[y] + k)
    BY <2>10
  <2> QED
    BY <2>2, <2>12, <2>13, <2>14
<1>2. S \notin Bad
  BY <1>1
<1>3. Sum(S) = f[z] + Sum(S \ {z})
  BY <1>2
<1> QED
  BY <1>3 DEF Sum

LEMMA SumAdd ==
    ASSUME NEW S, IsFiniteSet(S), NEW f, NEW z, z \notin S,
           \A x \in S \cup {z} : f[x] \in Int
    PROVE  SumFunctionOnSet(f, S \cup {z}) = SumFunctionOnSet(f, S) + f[z]
<1>1. IsFiniteSet(S \cup {z}) /\ (S \cup {z}) \ {z} = S
  BY FS_AddElement
<1>2. SumFunctionOnSet(f, S \cup {z}) = f[z] + SumFunctionOnSet(f, S)
  BY <1>1, SumTake
<1>3. SumFunctionOnSet(f, S) \in Int
  BY SumInt
<1> QED
  BY <1>2, <1>3

LEMMA SumNat ==
    ASSUME NEW S, IsFiniteSet(S), NEW f, \A x \in S : f[x] \in Nat
    PROVE  SumFunctionOnSet(f, S) \in Nat
<1> DEFINE T == {s \in SUBSET S : SumFunctionOnSet(f, s) \in Nat}
<1>1. {} \in T
  BY SumEmpty
<1>2. ASSUME NEW s \in SUBSET S, NEW x \in S, s \in T PROVE s \cup {x} \in T
  <2>1. CASE x \in s
    <3>1. s \cup {x} = s
      BY <2>1
    <3> QED
      BY <1>2, <3>1
  <2>2. CASE x \notin s
    <3>1. IsFiniteSet(s) /\ \A y \in s \cup {x} : f[y] \in Int
      BY FS_Subset
    <3>2. SumFunctionOnSet(f, s \cup {x}) = SumFunctionOnSet(f, s) + f[x]
      BY <2>2, <3>1, SumAdd
    <3> QED
      BY <1>2, <3>2
  <2> QED
    BY <2>1, <2>2
<1> HIDE DEF T
<1>3. S \in T
  BY <1>1, <1>2, ElementByElement
<1> QED
  BY <1>3 DEF T

LEMMA SumDisjoint ==
    ASSUME NEW S, IsFiniteSet(S), NEW R, IsFiniteSet(R), S \cap R = {},
           NEW f, \A x \in S \cup R : f[x] \in Int
    PROVE  SumFunctionOnSet(f, S \cup R) = SumFunctionOnSet(f, S) + SumFunctionOnSet(f, R)
<1> DEFINE Sum(s) == SumFunctionOnSet(f, s)
           T == {s \in SUBSET S : Sum(s \cup R) = Sum(s) + Sum(R)}
<1>1. {} \in T
  <2>1. Sum({}) = 0 /\ Sum(R) \in Int /\ {} \cup R = R
    BY SumEmpty, SumInt
  <2> HIDE DEF Sum
  <2> QED
    BY <2>1
<1>2. ASSUME NEW s \in SUBSET S, NEW x \in S, s \in T PROVE s \cup {x} \in T
  <2>1. CASE x \in s
    <3>1. s \cup {x} = s
      BY <2>1
    <3> QED
      BY <1>2, <3>1
  <2>2. CASE x \notin s
    <3>1. IsFiniteSet(s) /\ IsFiniteSet(s \cup R)
      BY FS_Subset, FS_Union
    <3>2. Sum(s \cup {x}) = Sum(s) + f[x]
      BY <2>2, <3>1, SumAdd
    <3>3. x \notin s \cup R
      BY <2>2
    <3>4. Sum((s \cup R) \cup {x}) = Sum(s \cup R) + f[x]
      BY <3>1, <3>3, SumAdd
    <3>5. (s \cup {x}) \cup R = (s \cup R) \cup {x}
      OBVIOUS
    <3>6. Sum(s) \in Int /\ Sum(R) \in Int /\ f[x] \in Int
      BY <3>1, SumInt
    <3>7. Sum(s \cup R) = Sum(s) + Sum(R)
      BY <1>2
    <3> HIDE DEF Sum
    <3>8. Sum((s \cup {x}) \cup R) = (Sum(s) + Sum(R)) + f[x]
      BY <3>4, <3>5, <3>7
    <3>9. (Sum(s) + Sum(R)) + f[x] = (Sum(s) + f[x]) + Sum(R)
      BY <3>6
    <3>10. Sum((s \cup {x}) \cup R) = Sum(s \cup {x}) + Sum(R)
      BY <3>2, <3>8, <3>9
    <3> QED
      BY <3>10
  <2> QED
    BY <2>1, <2>2
<1>3. S \in T
  <2> HIDE DEF T
  <2> QED
    BY <1>1, <1>2, ElementByElement
<1> QED
  BY <1>3

\* A function of naturals sums to no more over some of the elements.
LEMMA SumSubset ==
    ASSUME NEW S, IsFiniteSet(S), NEW R \in SUBSET S, NEW f, \A x \in S : f[x] \in Nat
    PROVE  SumFunctionOnSet(f, R) <= SumFunctionOnSet(f, S)
<1>1. IsFiniteSet(R) /\ IsFiniteSet(S \ R) /\ R \cup (S \ R) = S /\ R \cap (S \ R) = {}
  BY FS_Subset
<1>2. SumFunctionOnSet(f, S) = SumFunctionOnSet(f, R) + SumFunctionOnSet(f, S \ R)
  BY <1>1, SumDisjoint
<1>3. SumFunctionOnSet(f, R) \in Nat /\ SumFunctionOnSet(f, S \ R) \in Nat
  BY <1>1, SumNat
<1> QED
  BY <1>2, <1>3

\* What S sums to is at most what the image of S sums to, when nothing shrinks.
LEMMA SumInject ==
    ASSUME NEW S, IsFiniteSet(S), NEW R, IsFiniteSet(R), NEW f, NEW g, NEW h,
           \A x \in S : f[x] \in Nat /\ h[x] \in R /\ f[x] <= g[h[x]],
           \A y \in R : g[y] \in Nat,
           \A x, y \in S : h[x] = h[y] => x = y
    PROVE  SumFunctionOnSet(f, S) <= SumFunctionOnSet(g, R)
<1> DEFINE image(s) == {y \in R : \E x \in s : y = h[x]}
           T == {s \in SUBSET S : SumFunctionOnSet(f, s) <= SumFunctionOnSet(g, image(s))}
<1>1. {} \in T
  <2>1. image({}) = {}
    OBVIOUS
  <2> QED
    BY <2>1, SumEmpty
<1>2. ASSUME NEW s \in SUBSET S, NEW z \in S, s \in T PROVE s \cup {z} \in T
  <2>1. CASE z \in s
    <3>1. s \cup {z} = s
      BY <2>1
    <3> QED
      BY <1>2, <3>1
  <2>2. CASE z \notin s
    <3>1. image(s \cup {z}) = image(s) \cup {h[z]} /\ h[z] \notin image(s)
      BY <2>2
    <3>2. IsFiniteSet(s) /\ IsFiniteSet(image(s))
      BY FS_Subset
    <3>3. SumFunctionOnSet(f, s \cup {z}) = SumFunctionOnSet(f, s) + f[z]
      BY <2>2, <3>2, SumAdd
    <3>4. \A y \in image(s) \cup {h[z]} : g[y] \in Int
      OBVIOUS
    <3>5. SumFunctionOnSet(f, s) \in Int /\ SumFunctionOnSet(g, image(s)) \in Int
      BY <3>2, <3>4, SumInt
    <3>6. SumFunctionOnSet(f, s) <= SumFunctionOnSet(g, image(s))
      BY <1>2
    <3> HIDE DEF image
    <3>7. SumFunctionOnSet(g, image(s) \cup {h[z]}) = SumFunctionOnSet(g, image(s)) + g[h[z]]
      BY <3>1, <3>2, <3>4, SumAdd
    <3>8. SumFunctionOnSet(g, image(s \cup {z})) = SumFunctionOnSet(g, image(s)) + g[h[z]]
      BY <3>1, <3>7
    <3>9. f[z] \in Nat /\ g[h[z]] \in Nat /\ f[z] <= g[h[z]]
      OBVIOUS
    <3>10. SumFunctionOnSet(f, s) + f[z] <= SumFunctionOnSet(g, image(s)) + g[h[z]]
      BY <3>5, <3>6, <3>9
    <3>11. SumFunctionOnSet(f, s \cup {z}) <= SumFunctionOnSet(g, image(s \cup {z}))
      BY <3>3, <3>8, <3>10
    <3> QED
      BY <3>11
  <2> QED
    BY <2>1, <2>2
<1>3. S \in T
  <2> HIDE DEF T
  <2> QED
    BY <1>1, <1>2, ElementByElement
<1>4. SumFunctionOnSet(f, S) <= SumFunctionOnSet(g, image(S))
  BY <1>3
<1>5. image(S) \in SUBSET R
  OBVIOUS
<1> HIDE DEF image
<1>6. SumFunctionOnSet(g, image(S)) <= SumFunctionOnSet(g, R)
  BY <1>5, SumSubset
<1>7. /\ SumFunctionOnSet(f, S) \in Int /\ SumFunctionOnSet(g, R) \in Int
      /\ SumFunctionOnSet(g, image(S)) \in Int
  <2>1. IsFiniteSet(image(S)) /\ \A y \in image(S) : g[y] \in Int
    BY <1>5, FS_Subset
  <2> QED
    BY <2>1, SumInt
<1> QED
  BY <1>4, <1>6, <1>7

\* A constant sums to its multiple.
LEMMA SumConstant ==
    ASSUME NEW S, IsFiniteSet(S), NEW f, NEW c \in Nat, \A x \in S : f[x] = c
    PROVE  SumFunctionOnSet(f, S) = c * Cardinality(S)
<1> DEFINE T == {s \in SUBSET S : SumFunctionOnSet(f, s) = c * Cardinality(s)}
<1>1. {} \in T
  BY SumEmpty, FS_EmptySet
<1>2. ASSUME NEW s \in SUBSET S, NEW x \in S, s \in T PROVE s \cup {x} \in T
  <2>1. CASE x \in s
    <3>1. s \cup {x} = s
      BY <2>1
    <3> QED
      BY <1>2, <3>1
  <2>2. CASE x \notin s
    <3>1. /\ IsFiniteSet(s) /\ Cardinality(s) \in Nat
          /\ Cardinality(s \cup {x}) = Cardinality(s) + 1
      <4>1. IsFiniteSet(s)
        BY FS_Subset
      <4> HIDE DEF T
      <4> QED
        BY <2>2, <4>1, FS_CardinalityType, FS_AddElement
    <3>2. \A y \in s \cup {x} : f[y] \in Int
      OBVIOUS
    <3>3. SumFunctionOnSet(f, s \cup {x}) = SumFunctionOnSet(f, s) + f[x]
      <4>1. IsFiniteSet(s)
        BY <3>1
      <4> HIDE DEF T
      <4> QED
        BY <2>2, <3>2, <4>1, SumAdd
    <3>4. c * (Cardinality(s) + 1) = c * Cardinality(s) + c
      BY <3>1
    <3>5. SumFunctionOnSet(f, s) = c * Cardinality(s) /\ f[x] = c
      BY <1>2
    <3>6. SumFunctionOnSet(f, s \cup {x}) = c * Cardinality(s \cup {x})
      BY <3>1, <3>3, <3>4, <3>5
    <3> QED
      BY <3>6
  <2> QED
    BY <2>1, <2>2
<1>3. S \in T
  <2> HIDE DEF T
  <2> QED
    BY <1>1, <1>2, ElementByElement
<1> QED
  BY <1>3

\* What S sums to is at most what R sums to, when each element of R stands for some
\* elements of S and is no less than their sum.
LEMMA SumGather ==
    ASSUME NEW S, IsFiniteSet(S), NEW R, IsFiniteSet(R), NEW f, NEW g, NEW h,
           \A x \in S : f[x] \in Nat /\ h[x] \in R,
           \A y \in R : g[y] \in Nat,
           \A y \in R : SumFunctionOnSet(f, {x \in S : h[x] = y}) <= g[y]
    PROVE  SumFunctionOnSet(f, S) <= SumFunctionOnSet(g, R)
<1> DEFINE from(r) == {x \in S : h[x] \in r}
           T == {r \in SUBSET R : SumFunctionOnSet(f, from(r)) <= SumFunctionOnSet(g, r)}
<1>1. {} \in T
  <2>1. from({}) = {}
    OBVIOUS
  <2> QED
    BY <2>1, SumEmpty
<1>2. ASSUME NEW r \in SUBSET R, NEW z \in R, r \in T PROVE r \cup {z} \in T
  <2>1. CASE z \in r
    <3>1. r \cup {z} = r
      BY <2>1
    <3> QED
      BY <1>2, <3>1
  <2>2. CASE z \notin r
    <3> DEFINE one == {x \in S : h[x] = z}
    <3>1. from(r \cup {z}) = from(r) \cup one /\ from(r) \cap one = {}
      BY <2>2
    <3>2. /\ IsFiniteSet(r) /\ IsFiniteSet(from(r)) /\ IsFiniteSet(one)
          /\ \A x \in from(r) \cup one : f[x] \in Int
          /\ \A y \in r \cup {z} : g[y] \in Int
      <4>1. /\ from(r) \in SUBSET S /\ one \in SUBSET S /\ r \in SUBSET R
            /\ r \cup {z} \in SUBSET R
        OBVIOUS
      <4> HIDE DEF from, one, T
      <4>2. IsFiniteSet(r) /\ IsFiniteSet(from(r)) /\ IsFiniteSet(one)
        BY <4>1, FS_Subset
      <4>3. (\A x \in S : f[x] \in Int) /\ (\A y \in R : g[y] \in Int)
        BY ONLY \A x \in S : f[x] \in Nat /\ h[x] \in R, \A y \in R : g[y] \in Nat
      <4>4. \A x \in from(r) \cup one : f[x] \in Int
        BY <4>1, <4>3
      <4>5. \A y \in r \cup {z} : g[y] \in Int
        BY <4>1, <4>3
      <4> QED
        BY <4>2, <4>4, <4>5
    <3>3. SumFunctionOnSet(f, one) <= g[z] /\ g[z] \in Nat
      OBVIOUS
    <3>4. SumFunctionOnSet(f, from(r)) <= SumFunctionOnSet(g, r)
      BY <1>2
    <3>5. /\ SumFunctionOnSet(f, from(r)) \in Int /\ SumFunctionOnSet(f, one) \in Int
          /\ SumFunctionOnSet(g, r) \in Int
      <4>1. /\ \A x \in from(r) : f[x] \in Int
            /\ \A x \in one : f[x] \in Int
            /\ \A y \in r : g[y] \in Int
        BY <3>2
      <4> HIDE DEF from, one
      <4> QED
        BY <3>2, <4>1, SumInt
    <3> HIDE DEF from, one
    <3>6. SumFunctionOnSet(f, from(r) \cup one)
            = SumFunctionOnSet(f, from(r)) + SumFunctionOnSet(f, one)
      BY <3>1, <3>2, SumDisjoint
    <3>7. SumFunctionOnSet(g, r \cup {z}) = SumFunctionOnSet(g, r) + g[z]
      BY <2>2, <3>2, SumAdd
    <3>8. SumFunctionOnSet(f, from(r \cup {z})) <= SumFunctionOnSet(g, r \cup {z})
      <4>1. SumFunctionOnSet(f, from(r \cup {z}))
              = SumFunctionOnSet(f, from(r)) + SumFunctionOnSet(f, one)
        BY <3>1, <3>6
      <4>2. SumFunctionOnSet(f, from(r)) + SumFunctionOnSet(f, one)
              <= SumFunctionOnSet(g, r) + g[z]
        BY <3>3, <3>4, <3>5
      <4> QED
        BY <3>7, <4>1, <4>2
    <3> QED
      BY <3>8
  <2> QED
    BY <2>1, <2>2
<1>3. R \in T
  <2> HIDE DEF T
  <2> QED
    BY <1>1, <1>2, ElementByElement
<1>4. from(R) = S
  OBVIOUS
<1> HIDE DEF from
<1> QED
  BY <1>3, <1>4
LEMMA SumChange ==
    ASSUME NEW S, IsFiniteSet(S), NEW f, NEW h, NEW z \in S,
           \A x \in S : f[x] \in Int /\ h[x] \in Int,
           \A x \in S \ {z} : f[x] = h[x]
    PROVE  SumFunctionOnSet(h, S) = SumFunctionOnSet(f, S) - f[z] + h[z]
<1>1. IsFiniteSet(S \ {z})
  BY FS_Subset
<1>2. SumFunctionOnSet(h, S) = h[z] + SumFunctionOnSet(h, S \ {z})
  BY SumTake
<1>3. SumFunctionOnSet(f, S) = f[z] + SumFunctionOnSet(f, S \ {z})
  BY SumTake
<1>4. SumFunctionOnSet(f, S \ {z}) = SumFunctionOnSet(h, S \ {z})
  BY <1>1, SumSame
<1>5. SumFunctionOnSet(f, S \ {z}) \in Int
  BY <1>1, SumInt
<1> QED
  BY <1>2, <1>3, <1>4, <1>5

LEMMA LessByFactor ==
    ASSUME NEW a \in Int, NEW b \in Int, NEW d \in Nat \ {0}
    PROVE  (a * d < b * d => a < b) /\ (a * d <= b * d => a <= b)
OBVIOUS

LEMMA Regrouped ==
    ASSUME NEW a \in Nat, NEW c \in Nat, NEW d \in Nat, NEW k \in Nat,
           k * d <= a * c + c
    PROVE  d * k <= (a + 1) * c + 0
<1>1. d * k = k * d /\ (a + 1) * c = a * c + c /\ a * c + c \in Int
  OBVIOUS
<1> QED
  BY <1>1

LEMMA OneMoreTerm ==
    ASSUME NEW a \in Int, NEW b \in Int, NEW e \in Int, NEW A \in Int, NEW B \in Int,
           NEW n \in Int, NEW x \in Int, NEW y \in Int,
           a * A <= b * B + e * n, a * x <= b * y + e
    PROVE  a * (A + x) <= b * (B + y) + e * (n + 1)
<1>1. /\ a * (A + x) = a * A + a * x
      /\ b * (B + y) = b * B + b * y
      /\ e * (n + 1) = e * n + e
  OBVIOUS
<1> QED
  BY <1>1

\* A bound on each term, with e to spare, is one on the sum, with e for each term.
TermsBounded(f, g, S, a, b, e) ==
    \A x \in S : f[x] \in Int /\ g[x] \in Int /\ a * f[x] <= b * g[x] + e
SumBounded(f, g, S, a, b, e) ==
    a * SumFunctionOnSet(f, S) <= b * SumFunctionOnSet(g, S) + e * Cardinality(S)

LEMMA SumBounds ==
    ASSUME NEW S, IsFiniteSet(S), NEW f, NEW g, NEW a \in Int, NEW b \in Int, NEW e \in Int,
           TermsBounded(f, g, S, a, b, e)
    PROVE  SumBounded(f, g, S, a, b, e)
<1> DEFINE F(s) == SumFunctionOnSet(f, s)
           G(s) == SumFunctionOnSet(g, s)
           T == {s \in SUBSET S : a * F(s) <= b * G(s) + e * Cardinality(s)}
<1>1. {} \in T
  <2>1. F({}) = 0 /\ G({}) = 0 /\ Cardinality({}) = 0
    BY SumEmpty, FS_EmptySet
  <2> HIDE DEF F, G
  <2>2. a * F({}) <= b * G({}) + e * Cardinality({})
    BY <2>1
  <2> QED
    BY <2>2
<1>2. ASSUME NEW s \in SUBSET S, NEW x \in S, s \in T PROVE s \cup {x} \in T
  <2>1. CASE x \in s
    <3>1. s \cup {x} = s
      BY <2>1
    <3> QED
      BY <1>2, <3>1
  <2>2. CASE x \notin s
    <3>1. IsFiniteSet(s) /\ \A y \in s \cup {x} : f[y] \in Int /\ g[y] \in Int
      BY FS_Subset DEF TermsBounded
    <3>2. F(s \cup {x}) = F(s) + f[x] /\ G(s \cup {x}) = G(s) + g[x]
      BY <2>2, <3>1, SumAdd
    <3>3. Cardinality(s \cup {x}) = Cardinality(s) + 1 /\ Cardinality(s) \in Nat
      BY <2>2, <3>1, FS_AddElement, FS_CardinalityType
    <3>4. F(s) \in Int /\ G(s) \in Int /\ f[x] \in Int /\ g[x] \in Int
      BY <3>1, SumInt
    <3>5. a * F(s) <= b * G(s) + e * Cardinality(s)
      BY <1>2
    <3> HIDE DEF F, G
    <3>6. a * f[x] <= b * g[x] + e
      BY DEF TermsBounded
    <3>7. a * (F(s) + f[x]) <= b * (G(s) + g[x]) + e * (Cardinality(s) + 1)
      BY <3>3, <3>4, <3>5, <3>6, OneMoreTerm
    <3>8. a * F(s \cup {x}) <= b * G(s \cup {x}) + e * Cardinality(s \cup {x})
      BY <3>2, <3>3, <3>7
    <3> QED
      BY <3>8
  <2> QED
    BY <2>1, <2>2
<1>3. S \in T
  <2> HIDE DEF T
  <2> QED
    BY <1>1, <1>2, ElementByElement
<1> QED
  BY <1>3 DEF SumBounded

-----------------------------------------------------------------------------
(* MultiInstitutionPool: the shares of one loss                            *)

\* int() of a quotient of doubles: less than one below the quotient, and above it
\* by no more than the rounding of a double.
LEMMA TruncatedBounds ==
    ASSUME NEW n \in Nat, NEW d \in Nat \ {0}, NEW k \in Truncated(n, d)
    PROVE  /\ k \in Nat
           /\ n < k * d + d
           /\ (k * d) * Precision <= n * (Precision + 1)
<1>1. Precision \in Nat \ {0}
  BY MutualAssumption
<1>2. PICK z \in Int : z = n \div d
  OBVIOUS
<1>3. z >= 0 /\ z * d <= n /\ n < z * d + d
  BY <1>2
<1>4. n * (Precision + 1) = n * Precision + n
  BY <1>1
<1>5. CASE k = z
  <2>1. (z * d) * Precision <= n * Precision
    BY <1>1, <1>3
  <2> QED
    BY <1>1, <1>3, <1>4, <1>5, <2>1
<1>6. CASE k = z + 1 /\ (k * d - n) * Precision <= n
  <2>1. k * d = z * d + d /\ k * d \in Int
    BY <1>6
  <2>2. (k * d - n) * Precision = (k * d) * Precision - n * Precision
    BY <1>1, <2>1
  <2>3. (k * d) * Precision \in Int /\ n * Precision \in Int
    BY <1>1, <2>1
  <2> QED
    BY <1>3, <1>4, <1>6, <2>1, <2>2, <2>3
<1> QED
  BY <1>2, <1>5, <1>6 DEF Truncated
MembersInv ==
    /\ contribution \in [Member -> Nat]
    /\ order \in Seq(Member) /\ IsInjective(order)
    /\ \A m \in Member : contribution[m] > 0 <=> Contains(order, m)

LEMMA OrderFacts ==
    ASSUME MembersInv
    PROVE  /\ Len(order) \in Nat /\ DOMAIN order = 1..Len(order)
           /\ \A i \in 1..Len(order) : order[i] \in Member /\ contribution[order[i]] > 0
           /\ \A i, j \in 1..Len(order) : order[i] = order[j] => i = j
BY DEF MembersInv, IsInjective, Contains

LEMMA PlaceFacts ==
    ASSUME MembersInv, NEW m \in Member, Contains(order, m)
    PROVE  Place(m) \in 1..Len(order) /\ order[Place(m)] = m
BY DEF Contains, Place

\* What the members in the order of the dict put in, one by one.
PutIn == [i \in 1..Len(order) |-> contribution[order[i]]]

LEMMA PutInTotal ==
    ASSUME MembersInv
    PROVE  /\ TotalCapacity \in Nat
           /\ SumFunctionOnSet(PutIn, 1..Len(order)) = TotalCapacity
<1> DEFINE n == Len(order)
           Sum(S) == SumFunctionOnSet(contribution, S)
           In == {m \in Member : Contains(order, m)}
           Out == Member \ In
<1>1. /\ IsFiniteSet(Member) /\ IsFiniteSet(In) /\ IsFiniteSet(Out) /\ IsFiniteSet(1..n)
      /\ In \cap Out = {} /\ In \cup Out = Member
  <2>1. IsFiniteSet(Member)
    BY MutualAssumption
  <2>2. IsFiniteSet(In) /\ IsFiniteSet(Out)
    BY <2>1, FS_Subset
  <2>3. IsFiniteSet(1..n)
    BY OrderFacts, FS_Interval
  <2> QED
    BY <2>1, <2>2, <2>3
<1>2. \A m \in Member : contribution[m] \in Nat
  BY DEF MembersInv
<1>3. TotalCapacity = Sum(In \cup Out)
  BY <1>1 DEF MembersInv, TotalCapacity, SumFunction
<1>4. Sum(Out) = 0
  <2>1. PICK one \in Int, zero \in Int : one = 1 /\ zero = 0
    OBVIOUS
  <2>2. \A m \in Out : contribution[m] = 0
    BY <1>2 DEF MembersInv
  <2>3. \A m \in Out : /\ contribution[m] \in Int
                       /\ one * contribution[m] <= zero * contribution[m] + zero
    BY <2>1, <2>2
  <2>4. one * Sum(Out) <= zero * Sum(Out) + zero * Cardinality(Out)
    <3>1. TermsBounded(contribution, contribution, Out, one, zero, zero)
      BY <2>3 DEF TermsBounded
    <3>2. SumBounded(contribution, contribution, Out, one, zero, zero)
      BY <1>1, <2>1, <3>1, SumBounds
    <3> QED
      BY <3>2 DEF SumBounded
  <2>5. Sum(Out) \in Nat /\ Cardinality(Out) \in Nat
    BY <1>1, <1>2, SumNat, FS_CardinalityType
  <2> HIDE DEF Sum
  <2> QED
    BY <2>1, <2>4, <2>5
<1>5. Sum(In) \in Nat /\ TotalCapacity = Sum(In)
  <2>1. Sum(In) \in Nat /\ Sum(Out) \in Nat
    BY <1>1, <1>2, SumNat
  <2>2. Sum(In \cup Out) = Sum(In) + Sum(Out)
    BY <1>1, <1>2, SumDisjoint
  <2> HIDE DEF Sum
  <2> QED
    BY <1>3, <1>4, <2>1, <2>2
<1>6. \A i \in 1..n : PutIn[i] \in Nat /\ PutIn[i] = contribution[order[i]] /\ order[i] \in In
  BY <1>2, OrderFacts DEF PutIn, Contains
<1>7. SumFunctionOnSet(PutIn, 1..n) <= Sum(In)
  BY <1>1, <1>2, <1>6, OrderFacts, SumInject
<1>8. Sum(In) <= SumFunctionOnSet(PutIn, 1..n)
  <2> DEFINE at == [m \in Member |-> Place(m)]
  <2>1. \A m \in In : at[m] \in 1..n /\ order[at[m]] = m
    BY PlaceFacts
  <2> HIDE DEF at
  <2>2. \A m \in In : /\ contribution[m] \in Nat /\ at[m] \in 1..n
                      /\ contribution[m] <= PutIn[at[m]]
    BY <1>2, <1>6, <2>1
  <2>3. \A x, y \in In : at[x] = at[y] => x = y
    BY <2>1
  <2>4. \A i \in 1..n : PutIn[i] \in Nat
    BY <1>6
  <2> HIDE DEF In, n
  <2> QED
    BY <1>1, <2>2, <2>3, <2>4, SumInject
<1>9. SumFunctionOnSet(PutIn, 1..n) \in Nat
  BY <1>1, <1>6, SumNat
<1> QED
  BY <1>5, <1>7, <1>8, <1>9
\* Who is not the only member has put in less than all.
LEMMA MemberBelowTotal ==
    ASSUME MembersInv, NEW i \in 1..Len(order)
    PROVE  TotalCapacity \in Nat \ {0} /\ (i < Len(order) => contribution[order[i]] < TotalCapacity)
<1> DEFINE n == Len(order)
<1>1. n \in Nat \ {0} /\ IsFiniteSet(1..n) /\ n \in 1..n
  BY OrderFacts, FS_Interval
<1>2. \A j \in 1..n : PutIn[j] = contribution[order[j]] /\ PutIn[j] \in Nat \ {0}
  BY OrderFacts DEF PutIn, MembersInv
<1> DEFINE rest == (1..n) \ {i}
<1>3. TotalCapacity = PutIn[i] + SumFunctionOnSet(PutIn, rest)
  BY <1>1, <1>2, PutInTotal, SumTake
<1>4. IsFiniteSet(rest) /\ \A j \in rest : PutIn[j] \in Nat
  BY <1>1, <1>2, FS_Subset
<1>5. SumFunctionOnSet(PutIn, rest) \in Nat
  BY <1>4, SumNat
<1>6. ASSUME i < n PROVE SumFunctionOnSet(PutIn, rest) > 0
  <2> DEFINE others == rest \ {n}
  <2>1. n \in rest /\ IsFiniteSet(others)
    BY <1>1, <1>4, <1>6, FS_Subset
  <2> HIDE DEF rest
  <2>2. SumFunctionOnSet(PutIn, rest) = PutIn[n] + SumFunctionOnSet(PutIn, others)
    BY <1>4, <2>1, SumTake
  <2>3. SumFunctionOnSet(PutIn, others) \in Nat
    BY <1>4, <2>1, SumNat
  <2> QED
    BY <1>1, <1>2, <2>2, <2>3
<1> HIDE DEF rest
<1> QED
  BY <1>2, <1>3, <1>5, <1>6

\* A share but the last: c is what its member put in, d what all have.
LEMMA ShareBounds ==
    ASSUME NEW claim \in Claims, NEW c \in Nat, NEW d \in Nat \ {0}, c < d,
           NEW k \in Truncated(claim * c, d)
    PROVE  /\ k \in Nat
           /\ claim * c - d < k * d
           /\ k * d <= claim * c + c
           /\ (k * d) * Precision <= (claim * c) * (Precision + 1)
<1>1. claim \in Nat /\ claim <= Precision /\ Precision \in Nat \ {0}
  BY MutualAssumption
<1>2. claim * c \in Nat
  BY <1>1
<1>3. /\ k \in Nat
      /\ claim * c < k * d + d
      /\ (k * d) * Precision <= (claim * c) * (Precision + 1)
  BY <1>2, TruncatedBounds
<1>4. k * d \in Nat
  BY <1>3
<1>5. k * d <= claim * c + c
  <2>1. claim * c <= c * Precision
    BY <1>1
  <2>2. (claim * c) * (Precision + 1) = (claim * c) * Precision + claim * c
    BY <1>1, <1>2
  <2>3. (claim * c + c) * Precision = (claim * c) * Precision + c * Precision
    BY <1>1, <1>2
  <2>4. /\ (claim * c) * Precision \in Int /\ c * Precision \in Int
        /\ (k * d) * Precision \in Int
    BY <1>1, <1>2, <1>4
  <2>5. (k * d) * Precision <= (claim * c + c) * Precision
    BY <1>2, <1>3, <2>1, <2>2, <2>3, <2>4
  <2> QED
    BY <1>1, <1>2, <1>4, <2>5, LessByFactor
<1> QED
  BY <1>2, <1>3, <1>4, <1>5

\* The last share: A is the sum of the others, whose members put in d - c.
LEMMA LastShareBounds ==
    ASSUME NEW claim \in Nat, NEW c \in Nat \ {0}, NEW d \in Nat \ {0}, NEW A \in Int,
           NEW others \in Nat,
           d * A <= (claim + 1) * (d - c), claim * (d - c) <= d * A + (d - 1) * others
    PROVE  /\ claim - A \in Nat
           /\ claim * c - d < (claim - A) * d
           /\ (claim - A) * d <= claim * c + others * (d - 1)
<1>1. /\ (claim - A) * d = claim * d - d * A
      /\ (claim + 1) * (d - c) = claim * d - claim * c + d - c
      /\ claim * (d - c) = claim * d - claim * c
      /\ others * (d - 1) = (d - 1) * others
  OBVIOUS
<1>2. /\ claim * d \in Int /\ d * A \in Int /\ claim * c \in Nat /\ (d - 1) * others \in Int
  OBVIOUS
<1>3. claim * c - d < (claim - A) * d /\ (claim - A) * d <= claim * c + others * (d - 1)
  BY <1>1, <1>2
<1>4. (0 - 1) * d < (claim - A) * d
  BY <1>2, <1>3
<1>5. claim - A > 0 - 1
  BY <1>4, LessByFactor
<1> QED
  BY <1>3, <1>5

LEMMA SharesBounds ==
    ASSUME MembersInv, order # <<>>, NEW claim \in Claims, NEW s \in Shares(claim)
    PROVE  LET n == Len(order)
               d == TotalCapacity
               Part(i) == claim * contribution[order[i]]
           IN  /\ n \in Nat \ {0} /\ d \in Nat \ {0} /\ Len(s) = n
               /\ \A i \in 1..n : s[i] \in Nat /\ Part(i) - d < s[i] * d
               /\ \A i \in 1..n - 1 :
                    /\ s[i] * d < Part(i) + d
                    /\ (s[i] * d) * Precision <= Part(i) * (Precision + 1)
               /\ s[n] * d <= Part(n) + (n - 1) * (d - 1)
<1> DEFINE n == Len(order)
           d == TotalCapacity
           Part(i) == claim * contribution[order[i]]
           firsts == 1..n - 1
<1>1. /\ n \in Nat \ {0} /\ IsFiniteSet(firsts) /\ Cardinality(firsts) = n - 1
      /\ firsts \cup {n} = 1..n /\ n \notin firsts
  <2>1. n \in Nat \ {0}
    BY OrderFacts DEF MembersInv
  <2>2. IsFiniteSet(firsts) /\ Cardinality(firsts) = n - 1
    BY <2>1, FS_Interval
  <2> QED
    BY <2>1, <2>2
<1>2. /\ \A i \in 1..n : PutIn[i] = contribution[order[i]] /\ PutIn[i] \in Nat \ {0}
      /\ d \in Nat
  BY OrderFacts, PutInTotal DEF PutIn, MembersInv
<1> DEFINE C == SumFunctionOnSet(PutIn, firsts)
<1>3. C \in Nat /\ d = C + PutIn[n]
  <2>1. C \in Nat
    BY <1>1, <1>2, SumNat
  <2>2. \A i \in firsts \cup {n} : PutIn[i] \in Int
    BY <1>1, <1>2
  <2>3. SumFunctionOnSet(PutIn, 1..n) = d
    BY PutInTotal
  <2>4. n \notin firsts /\ IsFiniteSet(firsts) /\ firsts \cup {n} = 1..n
    BY <1>1
  <2> HIDE DEF firsts, n, d
  <2>5. SumFunctionOnSet(PutIn, firsts \cup {n}) = SumFunctionOnSet(PutIn, firsts) + PutIn[n]
    BY <2>2, <2>4, SumAdd
  <2> QED
    BY <2>1, <2>3, <2>4, <2>5
<1>4. d \in Nat \ {0} /\ C = d - PutIn[n]
  BY <1>1, <1>2, <1>3
<1>5. \A i \in firsts : PutIn[i] < d
  <2> SUFFICES ASSUME NEW i \in firsts PROVE PutIn[i] < d
    OBVIOUS
  <2>1. IsFiniteSet({i}) /\ SumFunctionOnSet(PutIn, {i}) = PutIn[i]
    <3> DEFINE one == {i}
               none == one \ {i}
    <3>1. IsFiniteSet(one) /\ i \in one /\ none = {}
      BY FS_Singleton
    <3>2. PutIn[i] \in Nat /\ \A x \in one : PutIn[x] \in Int
      BY <1>1, <1>2
    <3> HIDE DEF one
    <3>3. SumFunctionOnSet(PutIn, one) = PutIn[i] + SumFunctionOnSet(PutIn, none)
      BY <3>1, <3>2, SumTake
    <3> HIDE DEF none
    <3>4. SumFunctionOnSet(PutIn, none) = 0
      BY <3>1, SumEmpty
    <3>5. SumFunctionOnSet(PutIn, one) = PutIn[i]
      BY <3>2, <3>3, <3>4
    <3> QED
      BY <3>1, <3>5 DEF one
  <2>2. PutIn[i] <= C
    BY <1>1, <1>2, <2>1, SumSubset
  <2> QED
    BY <1>1, <1>2, <1>3, <2>2
<1>6. PICK q \in [firsts -> 0..claim + 1] :
        /\ s = Append(q, claim - SumFunction(q))
        /\ \A i \in firsts : q[i] \in Truncated(Part(i), d)
  BY DEF Shares
<1> DEFINE A == SumFunctionOnSet(q, firsts)
<1>7. SumFunction(q) = A
  BY <1>6 DEF SumFunction
<1>8. claim \in Nat
  BY MutualAssumption
<1>9. \A i \in firsts : /\ q[i] \in Nat
                        /\ Part(i) - d < q[i] * d
                        /\ q[i] * d <= Part(i) + PutIn[i]
                        /\ (q[i] * d) * Precision <= Part(i) * (Precision + 1)
  BY <1>1, <1>2, <1>4, <1>5, <1>6, ShareBounds
<1>10. A \in Int
  BY <1>1, <1>9, SumInt
<1>11. /\ Len(s) = n /\ s[n] = claim - A
       /\ \A i \in firsts : s[i] = q[i]
  <2>1. q \in Seq(Int) /\ Len(q) = n - 1
    BY <1>1, <1>6, <1>8
  <2> HIDE DEF A
  <2>2. claim - A \in Int
    BY <1>8, <1>10
  <2> QED
    BY <1>1, <1>6, <1>7, <2>1, <2>2
<1> HIDE DEF d
<1>12. d * A <= (claim + 1) * C
  <2>1. PICK e \in Int : e = 0
    OBVIOUS
  <2>2. \A i \in firsts : /\ q[i] \in Int /\ PutIn[i] \in Int
                          /\ d * q[i] <= (claim + 1) * PutIn[i] + e
    <3> SUFFICES ASSUME NEW i \in firsts
                 PROVE  d * q[i] <= (claim + 1) * PutIn[i] + e
      BY <1>1, <1>2, <1>9
    <3>1. PutIn[i] \in Nat /\ q[i] \in Nat /\ Part(i) = claim * PutIn[i]
      BY <1>1, <1>2, <1>9
    <3>2. q[i] * d <= claim * PutIn[i] + PutIn[i]
      BY <1>9, <3>1
    <3> QED
      BY <1>4, <1>8, <2>1, <3>1, <3>2, Regrouped
  <2> HIDE DEF firsts
  <2>3. d * A <= (claim + 1) * C + e * Cardinality(firsts)
    <3>1. TermsBounded(q, PutIn, firsts, d, claim + 1, e)
      BY <2>2 DEF TermsBounded
    <3>2. SumBounded(q, PutIn, firsts, d, claim + 1, e)
      BY <1>1, <1>4, <1>8, <2>1, <3>1, SumBounds
    <3> QED
      BY <3>2 DEF SumBounded
  <2> HIDE DEF A, C
  <2>4. e * Cardinality(firsts) = 0
    BY <1>1, <2>1
  <2>5. (claim + 1) * C \in Int
    BY <1>3, <1>8
  <2> QED
    BY <2>3, <2>4, <2>5
<1>13. claim * C <= d * A + (d - 1) * (n - 1)
  <2>1. \A i \in firsts : /\ q[i] \in Int /\ PutIn[i] \in Int
                          /\ claim * PutIn[i] <= d * q[i] + (d - 1)
    <3> SUFFICES ASSUME NEW i \in firsts PROVE claim * PutIn[i] <= d * q[i] + (d - 1)
      BY <1>1, <1>2, <1>9
    <3>1. PutIn[i] \in Nat /\ q[i] \in Nat /\ Part(i) = claim * PutIn[i]
      BY <1>1, <1>2, <1>9
    <3>2. d * q[i] = q[i] * d /\ d * q[i] \in Int /\ claim * PutIn[i] \in Int
      BY <1>4, <1>8, <3>1
    <3> QED
      BY <1>4, <1>9, <3>1, <3>2
  <2>2. Cardinality(firsts) = n - 1
    BY <1>1
  <2> HIDE DEF firsts
  <2>3. claim * C <= d * A + (d - 1) * Cardinality(firsts)
    <3>1. TermsBounded(PutIn, q, firsts, claim, d, d - 1)
      BY <2>1 DEF TermsBounded
    <3>2. SumBounded(PutIn, q, firsts, claim, d, d - 1)
      BY <1>1, <1>4, <1>8, <3>1, SumBounds
    <3> QED
      BY <3>2 DEF SumBounded
  <2> QED
    BY <2>2, <2>3
<1> HIDE DEF A, C
<1>14. /\ claim - A \in Nat
       /\ claim * PutIn[n] - d < (claim - A) * d
       /\ (claim - A) * d <= claim * PutIn[n] + (n - 1) * (d - 1)
  <2>1. PutIn[n] \in Nat \ {0} /\ n - 1 \in Nat
    BY <1>1, <1>2
  <2> QED
    BY <1>4, <1>8, <1>10, <1>12, <1>13, <2>1, LastShareBounds
<1>15. Part(n) = claim * PutIn[n]
  BY <1>1, <1>2
<1>16. \A i \in firsts : s[i] * d < Part(i) + d
  <2> SUFFICES ASSUME NEW i \in firsts PROVE q[i] * d < Part(i) + d
    BY <1>11
  <2>1. PutIn[i] \in Nat /\ q[i] \in Nat /\ Part(i) = claim * PutIn[i]
    BY <1>1, <1>2, <1>9
  <2>2. q[i] * d \in Int /\ Part(i) \in Int
    BY <1>4, <1>8, <2>1
  <2> QED
    BY <1>4, <1>5, <1>9, <2>1, <2>2
<1>17. \A i \in 1..n : i \in firsts \/ i = n
  BY <1>1
<1> HIDE DEF Part, firsts, n
<1>18. /\ n \in Nat \ {0} /\ d \in Nat \ {0} /\ Len(s) = n
       /\ \A i \in 1..n : s[i] \in Nat /\ Part(i) - d < s[i] * d
       /\ \A i \in firsts :
            /\ s[i] * d < Part(i) + d
            /\ (s[i] * d) * Precision <= Part(i) * (Precision + 1)
       /\ s[n] * d <= Part(n) + (n - 1) * (d - 1)
  BY <1>1, <1>4, <1>9, <1>11, <1>14, <1>15, <1>16, <1>17
<1> QED
  BY <1>18 DEF Part, firsts, n, d
-----------------------------------------------------------------------------
(* MultiInstitutionPool: the invariant                                     *)

BoundsInv ==
    /\ admin \in Member \cup {Nobody}
    /\ used \in Nat /\ calls \in 0..MaxCalls
    /\ losses \in 0..calls
    /\ borne \in [Member -> Nat]

\* What a member bears: its part of used, for a member but the last up to the rounding
\* of a double, for the last up to a part of a drop for each loss and other member.
BorneBounded(i) ==
    LET n == Len(order)
        c == contribution[order[i]]
        b == borne[order[i]]
    IN  /\ i < n => (b * TotalCapacity) * Precision <= (used * c) * (Precision + 1)
        /\ i = n => b * TotalCapacity <= used * c + (losses * (n - 1)) * (TotalCapacity - 1)

NothingBorne == used = 0 /\ \A m \in Member : borne[m] = 0
AllBounded == used <= TotalCapacity /\ \A i \in 1..Len(order) : BorneBounded(i)

BorneInv ==
    /\ used = 0 => NothingBorne
    /\ settled => AllBounded

MutualInv == MembersInv /\ BoundsInv /\ SolventUntilRemoval /\ BorneInv /\ SharesProRata

\* While nothing is used, nobody bears anything, and the bounds hold of any members.
LEMMA NothingBorneBounded == MembersInv /\ BoundsInv /\ NothingBorne => AllBounded
<1> SUFFICES ASSUME MembersInv, BoundsInv, NothingBorne PROVE AllBounded
  OBVIOUS
<1>1. TotalCapacity \in Nat /\ Precision \in Nat /\ losses \in Nat
  BY PutInTotal, MutualAssumption DEF BoundsInv
<1>2. ASSUME NEW i \in 1..Len(order) PROVE BorneBounded(i)
  <2>1. /\ borne[order[i]] = 0 /\ contribution[order[i]] \in Nat
        /\ Len(order) - 1 \in Nat
    BY OrderFacts DEF MembersInv, NothingBorne
  <2>2. losses * (Len(order) - 1) \in Nat /\ TotalCapacity - 1 \in Nat
    <3>1. TotalCapacity \in Nat \ {0}
      BY MemberBelowTotal
    <3> QED
      BY <1>1, <2>1, <3>1
  <2>3. (losses * (Len(order) - 1)) * (TotalCapacity - 1) \in Nat
    BY <2>2
  <2>4. /\ 0 * TotalCapacity = 0 /\ 0 * contribution[order[i]] = 0
        /\ 0 * Precision = 0 /\ 0 * (Precision + 1) = 0
    BY <1>1, <2>1
  <2> QED
    BY <2>1, <2>3, <2>4 DEF BorneBounded, NothingBorne
<1> QED
  BY <1>1, <1>2 DEF AllBounded, NothingBorne

LEMMA MutualInitInv == MutualInit => MutualInv
<1> SUFFICES ASSUME MutualInit PROVE MutualInv
  OBVIOUS
<1>1. MembersInv
  BY DEF MutualInit, MembersInv, IsInjective, Contains
<1>2. Len(order) = 0 /\ TotalCapacity \in Nat
  BY <1>1, PutInTotal DEF MutualInit
<1>3. 1..0 = {}
  OBVIOUS
<1>4. SharesProRata
  BY <1>3 DEF MutualInit, SharesProRata, NoLoss
<1> QED
  BY <1>1, <1>2, <1>3, <1>4, MutualAssumption
     DEF MutualInit, MutualInv, BoundsInv, SolventUntilRemoval, BorneInv, NothingBorne,
         AllBounded

LEMMA RegisterMembers ==
    ASSUME MembersInv, NEW m \in Member, NEW drops \in Deposits, RegisterMember(m, drops)
    PROVE  MembersInv' /\ TotalCapacity' > TotalCapacity
<1>1. drops \in Nat \ {0}
  BY MutualAssumption
<1>2. /\ contribution' = [contribution EXCEPT ![m] = @ + drops]
      /\ order' = IF Contains(order, m) THEN order ELSE Append(order, m)
  BY DEF RegisterMember, ToppedUp, Inserted
<1>3. /\ contribution \in [Member -> Nat] /\ contribution' \in [Member -> Nat]
      /\ contribution'[m] = contribution[m] + drops
      /\ \A x \in Member \ {m} : contribution'[x] = contribution[x]
  BY <1>1, <1>2 DEF MembersInv
<1>4. order' \in Seq(Member) /\ IsInjective(order')
  <2>1. CASE Contains(order, m)
    BY <1>2, <2>1 DEF MembersInv
  <2>2. CASE ~Contains(order, m)
    <3>1. /\ order' \in Seq(Member) /\ Len(order') = Len(order) + 1
          /\ order'[Len(order) + 1] = m
          /\ \A i \in 1..Len(order) : order'[i] = order[i] /\ order[i] # m
      BY <1>2, <2>2 DEF MembersInv, Contains
    <3>2. DOMAIN order' = 1..(Len(order) + 1) /\ Len(order) \in Nat
      BY <3>1, OrderFacts
    <3> QED
      BY <3>1, <3>2, OrderFacts DEF IsInjective
  <2> QED
    BY <2>1, <2>2
<1>5. \A x : Contains(order', x) <=> Contains(order, x) \/ x = m
  <2>1. CASE Contains(order, m)
    BY <1>2, <2>1
  <2>2. CASE ~Contains(order, m)
    <3>1. /\ Len(order') = Len(order) + 1 /\ Len(order) \in Nat
          /\ order'[Len(order) + 1] = m
          /\ \A i \in 1..Len(order) : order'[i] = order[i]
      BY <1>2, <2>2 DEF MembersInv, Contains
    <3>2. \A i : i \in 1..(Len(order) + 1) <=> i \in 1..Len(order) \/ i = Len(order) + 1
      BY <3>1
    <3> QED
      BY <3>1, <3>2 DEF Contains
  <2> QED
    BY <2>1, <2>2
<1>6. MembersInv'
  BY <1>1, <1>3, <1>4, <1>5 DEF MembersInv
<1>7. TotalCapacity' = TotalCapacity - contribution[m] + contribution'[m]
  <2>1. /\ TotalCapacity = SumFunctionOnSet(contribution, Member)
        /\ TotalCapacity' = SumFunctionOnSet(contribution', Member)
    BY <1>3 DEF TotalCapacity, SumFunction
  <2>2. \A x \in Member : contribution[x] \in Int /\ contribution'[x] \in Int
    BY <1>3
  <2> QED
    BY <1>3, <2>1, <2>2, MutualAssumption, SumChange
<1>8. TotalCapacity \in Nat
  BY PutInTotal
<1> QED
  BY <1>1, <1>3, <1>6, <1>7, <1>8

LEMMA RegisterMemberKeeps ==
    ASSUME MutualInv, NEW m \in Member, NEW drops \in Deposits, RegisterMember(m, drops)
    PROVE  MutualInv'
<1>1. MembersInv' /\ TotalCapacity' > TotalCapacity
  BY RegisterMembers DEF MutualInv
<1>2. TotalCapacity \in Nat /\ TotalCapacity' \in Nat
  <2>1. TotalCapacity \in Nat
    BY PutInTotal DEF MutualInv
  <2>2. SumFunctionOnSet(contribution', Member) \in Nat
    BY <1>1, MutualAssumption, SumNat DEF MembersInv
  <2> QED
    BY <1>1, <2>1, <2>2 DEF TotalCapacity, SumFunction, MembersInv
<1>3. BoundsInv'
  BY MutualAssumption DEF RegisterMember, MutualInv, BoundsInv
<1>4. SolventUntilRemoval'
  BY <1>1, <1>2 DEF RegisterMember, MutualInv, BoundsInv, SolventUntilRemoval
<1>5. used = 0 => NothingBorne'
  BY DEF RegisterMember, MutualInv, BorneInv, BoundsInv, NothingBorne
<1>6. BorneInv'
  <2>1. NothingBorne' => AllBounded'
    BY <1>1, <1>3, NothingBorneBounded, PTL
  <2> QED
    BY <1>5, <2>1 DEF RegisterMember, BorneInv
<1>7. SharesProRata'
  BY DEF RegisterMember, MutualInv, SharesProRata
<1> QED
  BY <1>1, <1>3, <1>4, <1>6, <1>7 DEF MutualInv
LEMMA RemoveAtFacts ==
    ASSUME NEW S, NEW s \in Seq(S), NEW k \in 1..Len(s)
    PROVE  /\ RemoveAt(s, k) \in Seq(S)
           /\ Len(RemoveAt(s, k)) = Len(s) - 1
           /\ \A i \in 1..Len(s) - 1 :
                RemoveAt(s, k)[i] = IF i < k THEN s[i] ELSE s[i + 1]
<1> DEFINE n == Len(s)
           front == SubSeq(s, 1, k - 1)
           back == SubSeq(s, k + 1, n)
<1>1. n \in Nat /\ k \in 1..n /\ \A i \in 1..n : s[i] \in S
  BY LenProperties
<1>2. /\ front \in Seq(S) /\ Len(front) = k - 1
      /\ \A i \in 1..k - 1 : front[i] = s[i]
  <2>1. \A i \in 1..k - 1 : s[i] \in S
    BY <1>1
  <2>2. /\ front \in Seq(S) /\ Len(front) = IF 1 <= k - 1 THEN k - 1 - 1 + 1 ELSE 0
        /\ \A i \in 1..k - 1 - 1 + 1 : front[i] = s[1 + i - 1]
    BY <1>1, <2>1, SubSeqProperties
  <2> QED
    BY <1>1, <2>2
<1>3. /\ back \in Seq(S) /\ Len(back) = n - k
      /\ \A i \in 1..n - k : back[i] = s[k + i]
  <2>1. \A i \in k + 1..n : s[i] \in S
    BY <1>1
  <2>2. /\ back \in Seq(S) /\ Len(back) = IF k + 1 <= n THEN n - (k + 1) + 1 ELSE 0
        /\ \A i \in 1..n - (k + 1) + 1 : back[i] = s[k + 1 + i - 1]
    BY <1>1, <2>1, SubSeqProperties
  <2> QED
    BY <1>1, <2>2
<1>4. RemoveAt(s, k) = front \o back
  BY DEF RemoveAt
<1> HIDE DEF front, back
<1>5. /\ front \o back \in Seq(S)
      /\ Len(front \o back) = (k - 1) + (n - k)
      /\ \A i \in 1..(k - 1) + (n - k) :
           (front \o back)[i] = IF i <= k - 1 THEN front[i] ELSE back[i - (k - 1)]
  <2>1. /\ front \o back \in Seq(S)
        /\ Len(front \o back) = Len(front) + Len(back)
        /\ \A i \in 1..Len(front) + Len(back) :
             (front \o back)[i] = IF i <= Len(front) THEN front[i] ELSE back[i - Len(front)]
    BY <1>2, <1>3, ConcatProperties
  <2> QED
    BY <1>2, <1>3, <2>1
<1>6. (k - 1) + (n - k) = n - 1
  BY <1>1
<1>7. ASSUME NEW i \in 1..n - 1
      PROVE  (front \o back)[i] = IF i < k THEN s[i] ELSE s[i + 1]
  <2>1. CASE i < k
    <3>1. i \in 1..k - 1 /\ i \in 1..(k - 1) + (n - k)
      BY <1>1, <1>6, <2>1
    <3>2. (front \o back)[i] = front[i]
      BY <1>1, <1>5, <3>1
    <3> QED
      BY <1>2, <2>1, <3>1, <3>2
  <2>2. CASE ~(i < k)
    <3>1. i \in 1..(k - 1) + (n - k) /\ ~(i <= k - 1)
      BY <1>1, <1>6, <2>2
    <3>2. i - (k - 1) \in 1..n - k /\ k + (i - (k - 1)) = i + 1
      BY <1>1, <2>2
    <3>3. (front \o back)[i] = back[i - (k - 1)]
      BY <1>5, <3>1
    <3>4. back[i - (k - 1)] = s[k + (i - (k - 1))]
      BY <1>3, <3>2
    <3> QED
      BY <2>2, <3>2, <3>3, <3>4
  <2> QED
    BY <2>1, <2>2
<1> HIDE DEF n
<1>8. /\ RemoveAt(s, k) \in Seq(S) /\ Len(RemoveAt(s, k)) = n - 1
      /\ \A i \in 1..n - 1 : RemoveAt(s, k)[i] = IF i < k THEN s[i] ELSE s[i + 1]
  BY <1>4, <1>5, <1>6, <1>7
<1> QED
  BY <1>8 DEF n

LEMMA RemoveMembers ==
    ASSUME MembersInv, NEW a, NEW m \in Member, RemoveMember(a, m)
    PROVE  MembersInv'
<1> DEFINE k == Place(m)
           n == Len(order)
<1>1. Contains(order, m) /\ order' = RemoveAt(order, k)
  BY DEF RemoveMember, Deleted
<1>2. k \in 1..n /\ order[k] = m /\ n \in Nat /\ order \in Seq(Member)
  BY <1>1, PlaceFacts, OrderFacts DEF MembersInv
<1> HIDE DEF k
<1>3. /\ order' \in Seq(Member) /\ Len(order') = n - 1
      /\ \A i \in 1..n - 1 : order'[i] = IF i < k THEN order[i] ELSE order[i + 1]
  BY <1>1, <1>2, RemoveAtFacts
<1>4. DOMAIN order' = 1..n - 1
  BY <1>3
<1>5. \A i, j \in 1..n : order[i] = order[j] => i = j
  BY OrderFacts
<1> HIDE DEF n
<1>6. IsInjective(order')
  <2> DEFINE from(i) == IF i < k THEN i ELSE i + 1
  <2>1. \A i \in 1..n - 1 : from(i) \in 1..n /\ order'[i] = order[from(i)]
    BY <1>2, <1>3
  <2>2. \A i, j \in 1..n - 1 : from(i) = from(j) => i = j
    BY <1>2
  <2> HIDE DEF from
  <2>3. \A i, j \in 1..n - 1 : order'[i] = order'[j] => i = j
    BY <1>5, <2>1, <2>2
  <2> QED
    BY <1>4, <2>3 DEF IsInjective
<1>7. \A x : Contains(order', x) <=> Contains(order, x) /\ x # m
  <2>1. \A x : Contains(order', x) => Contains(order, x) /\ x # m
    BY <1>2, <1>3, <1>5 DEF Contains, n
  <2>2. ASSUME NEW x, Contains(order, x), x # m PROVE Contains(order', x)
    <3>1. PICK i \in 1..n : order[i] = x
      BY <2>2 DEF Contains, n
    <3>2. i # k
      BY <1>2, <2>2, <3>1
    <3>3. CASE i < k
      <4>1. i \in 1..n - 1
        BY <1>2, <3>1, <3>3
      <4>2. order'[i] = x
        BY <1>3, <3>1, <3>3, <4>1
      <4> QED
        BY <1>3, <4>1, <4>2 DEF Contains
    <3>4. CASE i > k
      <4>1. i - 1 \in 1..n - 1 /\ ~(i - 1 < k) /\ (i - 1) + 1 = i
        BY <1>2, <3>1, <3>4
      <4>2. order'[i - 1] = x
        BY <1>3, <3>1, <4>1
      <4> QED
        BY <1>3, <4>1, <4>2 DEF Contains
    <3> QED
      BY <1>2, <3>2, <3>3, <3>4
  <2> QED
    BY <2>1, <2>2
<1> QED
  BY <1>3, <1>6, <1>7 DEF RemoveMember, MembersInv

LEMMA RemoveMemberKeeps ==
    ASSUME MutualInv, NEW a, NEW m \in Member, RemoveMember(a, m)
    PROVE  MutualInv'
<1>1. MembersInv'
  BY RemoveMembers DEF MutualInv
<1>2. BoundsInv'
  BY MutualAssumption DEF RemoveMember, MutualInv, BoundsInv
<1>3. BorneInv'
  <2>1. NothingBorne' => AllBounded'
    BY <1>1, <1>2, NothingBorneBounded, PTL
  <2>2. used = 0 => NothingBorne'
    BY DEF RemoveMember, MutualInv, BorneInv, NothingBorne
  <2> QED
    BY <2>1, <2>2 DEF RemoveMember, BorneInv
<1> QED
  BY <1>1, <1>2, <1>3 DEF RemoveMember, MutualInv, SolventUntilRemoval, SharesProRata

\* One loss more, for a member but the last and for the last.
LEMMA OneMoreLoss ==
    ASSUME NEW b \in Nat, NEW s \in Nat, NEW d \in Nat, NEW c \in Nat, NEW u \in Nat,
           NEW claim \in Nat, NEW P \in Nat,
           (b * d) * P <= (u * c) * (P + 1), (s * d) * P <= (claim * c) * (P + 1)
    PROVE  ((b + s) * d) * P <= ((u + claim) * c) * (P + 1)
<1>1. /\ ((b + s) * d) * P = (b * d) * P + (s * d) * P
      /\ ((u + claim) * c) * (P + 1) = (u * c) * (P + 1) + (claim * c) * (P + 1)
  <2>1. (b + s) * d = b * d + s * d /\ (u + claim) * c = u * c + claim * c
    OBVIOUS
  <2>2. b * d \in Nat /\ s * d \in Nat /\ u * c \in Nat /\ claim * c \in Nat
    OBVIOUS
  <2> QED
    BY <2>1, <2>2
<1>2. /\ (b * d) * P \in Nat /\ (s * d) * P \in Nat
      /\ (u * c) * (P + 1) \in Nat /\ (claim * c) * (P + 1) \in Nat
  OBVIOUS
<1> QED
  BY <1>1, <1>2

LEMMA OneMoreLossLast ==
    ASSUME NEW b \in Nat, NEW s \in Nat, NEW d \in Nat, NEW c \in Nat, NEW u \in Nat,
           NEW claim \in Nat, NEW k \in Nat, NEW o \in Nat,
           NEW e \in Nat, b * d <= u * c + (k * o) * e, s * d <= claim * c + o * e
    PROVE  (b + s) * d <= (u + claim) * c + ((k + 1) * o) * e
<1>1. (b + s) * d = b * d + s * d /\ (u + claim) * c = u * c + claim * c
  OBVIOUS
<1>2. ((k + 1) * o) * e = (k * o) * e + o * e
  OBVIOUS
<1>3. /\ b * d \in Nat /\ s * d \in Nat /\ u * c \in Nat /\ claim * c \in Nat
      /\ (k * o) * e \in Nat /\ o * e \in Nat
  OBVIOUS
<1> QED
  BY <1>1, <1>2, <1>3

LEMMA DistributeLossKeeps ==
    ASSUME MutualInv, NEW claim \in Claims, DistributeLoss(claim)
    PROVE  MutualInv'
<1> DEFINE n == Len(order)
           d == TotalCapacity
           c(i) == contribution[order[i]]
<1>1. PICK s \in Shares(claim) :
        /\ latest' = [claim |-> claim, order |-> order, share |-> s,
                      contribution |-> contribution]
        /\ borne' = [m \in Member |->
                       IF Contains(order, m) THEN borne[m] + s[Place(m)] ELSE borne[m]]
  BY DEF DistributeLoss
<1>2. /\ order # <<>> /\ d - used >= claim /\ used' = used + claim
      /\ calls < MaxCalls /\ calls' = calls + 1 /\ losses' = losses + 1
      /\ UNCHANGED <<contribution, order, admin, settled, removed>>
  BY DEF DistributeLoss, HasCapacity
<1>3. /\ claim \in Nat \ {0} /\ Precision \in Nat \ {0} /\ MaxCalls \in Nat
      /\ used \in Nat /\ calls \in Nat /\ losses \in 0..calls
  BY MutualAssumption DEF MutualInv, BoundsInv
<1>4. MembersInv /\ MembersInv'
  BY <1>2 DEF MutualInv, MembersInv, Contains, IsInjective
<1>5. /\ n \in Nat \ {0} /\ d \in Nat \ {0} /\ Len(s) = n
      /\ \A i \in 1..n : s[i] \in Nat /\ claim * c(i) - d < s[i] * d
      /\ \A i \in 1..n - 1 :
           /\ s[i] * d < claim * c(i) + d
           /\ (s[i] * d) * Precision <= (claim * c(i)) * (Precision + 1)
      /\ s[n] * d <= claim * c(n) + (n - 1) * (d - 1)
  BY <1>2, <1>4, SharesBounds
<1>6. \A i \in 1..n : order[i] \in Member /\ c(i) \in Nat /\ borne[order[i]] \in Nat
  BY <1>4, OrderFacts DEF MembersInv, MutualInv, BoundsInv
<1>7. \A i \in 1..n : borne'[order[i]] = borne[order[i]] + s[i]
  <2> SUFFICES ASSUME NEW i \in 1..n PROVE borne'[order[i]] = borne[order[i]] + s[i]
    OBVIOUS
  <2>1. Contains(order, order[i])
    BY DEF Contains
  <2>2. Place(order[i]) = i
    BY <1>4, <1>6, <2>1, PlaceFacts, OrderFacts
  <2> QED
    BY <1>1, <1>6, <2>1, <2>2
<1>8. d' = d
  BY <1>2 DEF TotalCapacity
<1>9. BoundsInv'
  <2>1. borne' \in [Member -> Nat]
    <3>1. ASSUME NEW m \in Member PROVE borne'[m] \in Nat
      <4>1. CASE Contains(order, m)
        BY <1>1, <1>4, <1>5, <4>1, PlaceFacts DEF MutualInv, BoundsInv
      <4>2. CASE ~Contains(order, m)
        BY <1>1, <4>2 DEF MutualInv, BoundsInv
      <4> QED
        BY <4>1, <4>2
    <3> QED
      BY <1>1, <3>1
  <2> QED
    BY <1>2, <1>3, <2>1 DEF MutualInv, BoundsInv
<1>10. SolventUntilRemoval'
  BY <1>2, <1>3, <1>5, <1>8 DEF SolventUntilRemoval
<1> HIDE DEF d
<1>11. BorneInv'
  <2>1. used' # 0 /\ used' <= d
    BY <1>2, <1>3, <1>5
  <2>2. ASSUME settled, NEW i \in 1..n PROVE BorneBounded(i)'
    <3>1. BorneBounded(i)
      BY <2>2 DEF MutualInv, BorneInv, AllBounded
    <3>2. /\ i < n => (borne[order[i]] * d) * Precision <= (used * c(i)) * (Precision + 1)
          /\ i = n => borne[order[i]] * d <= used * c(i) + (losses * (n - 1)) * (d - 1)
      BY <3>1 DEF BorneBounded, d
    <3>3. CASE i < n
      <4>1. i \in 1..n - 1
        BY <1>5, <3>3
      <4>2. ((borne[order[i]] + s[i]) * d) * Precision
              <= ((used + claim) * c(i)) * (Precision + 1)
        BY <1>3, <1>5, <1>6, <3>2, <3>3, <4>1, OneMoreLoss
      <4> QED
        BY <1>2, <1>7, <1>8, <3>3, <4>2 DEF BorneBounded, d
    <3>4. CASE i = n
      <4>1. n - 1 \in Nat /\ d - 1 \in Nat /\ losses \in Nat
        BY <1>3, <1>5
      <4>2. (borne[order[i]] + s[i]) * d
              <= (used + claim) * c(i) + ((losses + 1) * (n - 1)) * (d - 1)
        <5>1. /\ borne[order[i]] * d <= used * c(i) + (losses * (n - 1)) * (d - 1)
              /\ s[i] * d <= claim * c(i) + (n - 1) * (d - 1)
          BY <1>5, <3>2, <3>4
        <5>2. /\ borne[order[i]] \in Nat /\ s[i] \in Nat /\ d \in Nat /\ c(i) \in Nat
              /\ used \in Nat /\ claim \in Nat
          BY <1>3, <1>5, <1>6
        <5> HIDE DEF n, c
        <5> QED
          BY <4>1, <5>1, <5>2, OneMoreLossLast
      <4> QED
        BY <1>2, <1>7, <1>8, <3>4, <4>2 DEF BorneBounded, d
    <3> QED
      BY <1>5, <3>3, <3>4
  <2> QED
    BY <1>2, <1>8, <2>1, <2>2 DEF BorneInv, AllBounded, d
<1>12. SharesProRata'
  <2>1. /\ latest'.claim = claim /\ latest'.order = order /\ latest'.share = s
        /\ latest'.contribution = contribution
    BY <1>1
  <2>2. SumFunction(contribution) = d
    BY DEF d, TotalCapacity
  <2>3. ASSUME NEW i \in 1..n
        PROVE  /\ s[i] >= 0
               /\ i < n => s[i] * d < claim * c(i) + d /\ s[i] * d > claim * c(i) - d
               /\ i = n => s[i] * d > claim * c(i) - d /\ s[i] * d < claim * c(i) + n * d
    <3>1. s[i] \in Nat /\ claim * c(i) - d < s[i] * d
      BY <1>5
    <3>2. s[i] * d \in Int /\ claim * c(i) \in Int
      BY <1>3, <1>5, <1>6, <3>1
    <3>3. i < n => s[i] * d < claim * c(i) + d
      <4>1. i < n => i \in 1..n - 1
        BY <1>5
      <4> QED
        BY <1>5, <4>1
    <3>4. i = n => s[i] * d < claim * c(i) + n * d
      <4>1. (n - 1) * d = n * d - d /\ n * d \in Int
        <5>1. n \in Int /\ d \in Int
          BY <1>5
        <5> HIDE DEF n
        <5> QED
          BY <5>1
      <4>2. i = n => s[i] * d <= claim * c(i) + (n - 1) * d
        <5>1. (n - 1) * (d - 1) <= (n - 1) * d /\ (n - 1) * (d - 1) \in Int /\ (n - 1) * d \in Int
          <6>1. n \in Nat \ {0} /\ d \in Nat \ {0}
            BY <1>5
          <6> HIDE DEF n
          <6> QED
            BY <6>1
        <5>2. i = n => s[i] * d <= claim * c(i) + (n - 1) * (d - 1)
          BY <1>5
        <5> HIDE DEF n, c
        <5> QED
          BY <3>2, <5>1, <5>2
      <4> HIDE DEF n, c
      <4> QED
        BY <1>5, <3>2, <4>1, <4>2
    <3> HIDE DEF n, c
    <3> QED
      BY <3>1, <3>2, <3>3, <3>4
  <2> QED
    BY <2>1, <2>2, <2>3 DEF SharesProRata
<1> QED
  BY <1>4, <1>9, <1>10, <1>11, <1>12 DEF MutualInv

LEMMA MutualNextInv == MutualInv /\ [MutualNext]_mutualVars => MutualInv'
<1> SUFFICES ASSUME MutualInv, [MutualNext]_mutualVars PROVE MutualInv'
  OBVIOUS
<1>1. CASE \E m \in Member, drops \in Deposits : RegisterMember(m, drops)
  BY <1>1, RegisterMemberKeeps
<1>2. CASE \E a, m \in Member : RemoveMember(a, m)
  BY <1>2, RemoveMemberKeeps
<1>3. CASE \E claim \in Claims : DistributeLoss(claim)
  BY <1>3, DistributeLossKeeps
<1>4. CASE UNCHANGED mutualVars
  BY <1>4 DEF mutualVars, history, MutualInv, MembersInv, Contains, IsInjective, BoundsInv,
              SolventUntilRemoval, TotalCapacity, BorneInv, NothingBorne, AllBounded,
              BorneBounded, SharesProRata
<1> QED
  BY <1>1, <1>2, <1>3, <1>4 DEF MutualNext

THEOREM MutualInvariance == MutualSpec => []MutualInv
<1> QED
  BY MutualInitInv, MutualNextInv, PTL DEF MutualSpec

\* register_member and remove_member keep the dict of members and the contributions one
\* thing: a member is in the pool exactly as long as it has drops in it.
THEOREM MutualTypeCorrect == MutualSpec => []MutualTypeOK
<1>1. MutualInv => MutualTypeOK
  <2> SUFFICES ASSUME MutualInv PROVE MutualTypeOK
    OBVIOUS
  <2>1. ToSet(order) = {m \in Member : contribution[m] > 0}
    <3>1. MembersInv /\ DOMAIN order = 1..Len(order)
      BY OrderFacts DEF MutualInv
    <3>2. ToSet(order) = {order[i] : i \in 1..Len(order)}
      BY <3>1 DEF ToSet
    <3>3. \A m : Contains(order, m) <=> m \in ToSet(order)
      BY <3>2 DEF Contains
    <3>4. ToSet(order) \subseteq Member
      BY <3>1, <3>2, OrderFacts
    <3> QED
      BY <3>1, <3>3, <3>4 DEF MembersInv
  <2> QED
    BY <2>1 DEF MutualInv, MembersInv, BoundsInv, MutualTypeOK
<1> QED
  BY <1>1, MutualInvariance, PTL

\* distribute_loss divides each loss pro rata to within a drop, but for the last member,
\* which takes what truncation leaves over, for any contributions.
THEOREM SharesProRataHolds == MutualSpec => []SharesProRata
<1>1. MutualInv => SharesProRata
  BY DEF MutualInv
<1> QED
  BY <1>1, MutualInvariance, PTL

\* Until a member is removed, the losses distributed never exceed what was put in.
THEOREM SolventUntilRemovalHolds == MutualSpec => []SolventUntilRemoval
<1>1. MutualInv => SolventUntilRemoval
  BY DEF MutualInv
<1> QED
  BY <1>1, MutualInvariance, PTL

LEMMA BorneOfBounded ==
    ASSUME NEW b \in Nat, NEW c \in Nat, NEW d \in Nat \ {0}, NEW u \in Nat, u <= d
    PROVE  /\ \A P \in Nat : c < P /\ (b * d) * P <= (u * c) * (P + 1) => b <= c
           /\ \A k \in Nat : b * d <= u * c + k * (d - 1) => b <= c \/ b < c + k
<1>1. u * c <= d * c /\ u * c \in Nat /\ d * c \in Nat
  OBVIOUS
<1>2. ASSUME NEW P \in Nat, c < P, (b * d) * P <= (u * c) * (P + 1) PROVE b <= c
  <2>1. (u * c) * (P + 1) <= (d * c) * (P + 1)
    BY <1>1
  <2>2. (b * d) * P = (b * P) * d /\ (d * c) * (P + 1) = (c * (P + 1)) * d
    OBVIOUS
  <2>3. (b * P) * d <= (c * (P + 1)) * d
    <3>1. (b * d) * P \in Nat /\ (u * c) * (P + 1) \in Nat /\ (d * c) * (P + 1) \in Nat
      BY <1>1
    <3> QED
      BY <1>2, <2>1, <2>2, <3>1
  <2>4. b * P <= c * (P + 1)
    <3>1. b * P \in Int /\ c * (P + 1) \in Int
      OBVIOUS
    <3> QED
      BY <2>3, <3>1, LessByFactor
  <2>5. c * (P + 1) = c * P + c /\ (c + 1) * P = c * P + P /\ c * P \in Int
    OBVIOUS
  <2>6. b * P < (c + 1) * P
    BY <1>2, <2>4, <2>5
  <2>7. b < c + 1
    BY <1>2, <2>6, LessByFactor
  <2> QED
    BY <2>7
<1>3. ASSUME NEW k \in Nat, b * d <= u * c + k * (d - 1) PROVE b <= c \/ b < c + k
  <2>1. /\ (c + k) * d = d * c + k * d /\ k * (d - 1) = k * d - k
        /\ b * d \in Int /\ k * d \in Int
    OBVIOUS
  <2>2. b * d <= (c + k) * d - k
    BY <1>1, <1>3, <2>1
  <2>3. CASE k = 0
    <3>1. b * d <= c * d
      BY <2>2, <2>3
    <3> QED
      BY <3>1, LessByFactor
  <2>4. CASE k # 0
    <3>1. b * d < (c + k) * d
      BY <2>1, <2>2, <2>4
    <3> QED
      BY <3>1, LessByFactor
  <2> QED
    BY <2>3, <2>4
<1> QED
  BY <1>2, <1>3

\* While nobody comes, goes or tops up, no member but the last bears more than it put
\* in over any number of losses, and the last, if it does, less than a drop more per loss
\* and other member.
THEOREM BorneWithinContributionHolds == MutualSpec => []BorneWithinContribution
<1>1. MutualInv => BorneWithinContribution
  <2> SUFFICES ASSUME MutualInv, settled, TotalCapacity <= Precision, NEW i \in 1..Len(order)
               PROVE  \/ borne[order[i]] <= contribution[order[i]]
                      \/ /\ i = Len(order)
                         /\ borne[order[i]] < contribution[order[i]] + losses * (i - 1)
    BY DEF BorneWithinContribution
  <2> DEFINE c == contribution[order[i]]
             b == borne[order[i]]
             d == TotalCapacity
             n == Len(order)
  <2>1. /\ b \in Nat /\ c \in Nat \ {0} /\ used \in Nat /\ used <= d /\ BorneBounded(i)
        /\ losses \in Nat /\ n \in Nat
    BY OrderFacts DEF MutualInv, MembersInv, BoundsInv, BorneInv, AllBounded
  <2>2. d \in Nat \ {0} /\ (i < n => c < d)
    BY OrderFacts, MemberBelowTotal DEF MutualInv
  <2>3. Precision \in Nat /\ d <= Precision
    BY MutualAssumption
  <2>4. /\ i < n => (b * d) * Precision <= (used * c) * (Precision + 1)
        /\ i = n => b * d <= used * c + (losses * (n - 1)) * (d - 1)
    BY <2>1 DEF BorneBounded
  <2> HIDE DEF b, c, d, n
  <2>5. CASE i < n
    <3>1. c < Precision
      BY <2>1, <2>2, <2>3, <2>5
    <3>2. b <= c
      BY <2>1, <2>2, <2>3, <2>4, <2>5, <3>1, BorneOfBounded
    <3> QED
      BY <2>1, <2>5, <3>2 DEF b, c, n
  <2>6. CASE i = n
    <3>1. losses * (n - 1) \in Nat
      <4>1. n - 1 \in Nat
        BY <2>1, <2>6 DEF n
      <4> QED
        BY <2>1, <4>1
    <3>2. b <= c \/ b < c + losses * (n - 1)
      BY <2>1, <2>2, <2>4, <2>6, <3>1, BorneOfBounded
    <3> QED
      BY <2>6, <3>2 DEF b, c, n
  <2> QED
    BY <2>1, <2>5, <2>6 DEF n
<1> QED
  BY <1>1, MutualInvariance, PTL
-----------------------------------------------------------------------------
(* PremiumLedger: purchases, payments and what they name                   *)

\* A set of policies bought together.
Together(S) ==
    /\ S \in Batch
    /\ \A p \in S : status[p] # "new"
    /\ \A p, q \in S : Cover[p] = Cover[q]

BuiltInv ==
    /\ status \in [Policies -> {"new", "built", "minted", "burned"}]
    /\ \A premium \in premiums :
         /\ Together(premium.for) /\ premium.first \in premium.for
         /\ premium.cover = Cover[premium.first] * Cardinality(premium.for)
    /\ \A premium \in paid :
         /\ Together(premium.for) /\ premium.first \in premium.for
         /\ premium.cover = Cover[premium.first] * Cardinality(premium.for)

\* A policy is bought once, so that the purchases are apart from each other.
ApartInv ==
    /\ \A one, other \in premiums : one.for \cap other.for # {} => one = other
    /\ \A premium \in premiums, other \in paid : premium.for \cap other.for = {}
    /\ \A one, other \in paid : one.for \cap other.for # {} => one = other

Memos == [id : Policies \cup {Placeholder}, cover : Nat]

\* A payment that names a policy is for the purchase of it, and states its coverage.
PaymentsInv ==
    /\ payments \in Seq(Memos)
    /\ \A i \in 1..Len(payments) :
         payments[i].id \in Policies =>
             \E premium \in paid : payments[i] = Memo(premium.first, premium.cover)
    /\ \A premium \in paid :
         \E i \in 1..Len(payments) : payments[i] = Memo(premium.first, premium.cover)

LedgerInv == BuiltInv /\ ApartInv /\ PaymentsInv

LEMMA BatchFacts ==
    ASSUME NEW S \in Batch
    PROVE  /\ S \subseteq Policies /\ S # {} /\ IsFiniteSet(S)
           /\ Cardinality(S) \in Nat \ {0}
           /\ \A p \in S : Cover[p] \in Nat \ {0} /\ p # Placeholder
<1>1. IsFiniteSet(S) /\ S \subseteq Policies /\ S # {}
  BY PremiumAssumption, FS_Subset DEF Batch
<1>2. Cardinality(S) \in Nat /\ Cardinality(S) # 0
  BY <1>1, FS_CardinalityType, FS_EmptySet
<1> QED
  BY <1>1, <1>2, PremiumAssumption

LEMMA PremiumInitInv == PremiumInit => LedgerInv
BY DEF PremiumInit, LedgerInv, BuiltInv, ApartInv, PaymentsInv

\* A purchase of policies that are new.
LEMMA Bought ==
    ASSUME LedgerInv, NEW S \in Batch, NEW first \in S, NEW cover,
           \A p \in S : status[p] = "new" /\ Cover[p] = Cover[first],
           status' = [p \in Policies |-> IF p \in S THEN "built" ELSE status[p]],
           premiums' = premiums \cup {Premium(S, first, cover)},
           cover = Cover[first] * Cardinality(S),
           UNCHANGED <<payments, paid>>
    PROVE  LedgerInv'
<1> DEFINE new == Premium(S, first, cover)
<1>1. new.for = S /\ new.first = first /\ new.cover = cover
  BY DEF Premium
<1>2. \A p \in Policies : status[p] # "new" => status'[p] # "new"
  BY BatchFacts DEF LedgerInv, BuiltInv
<1>3. \A R : Together(R) => Together(R)'
  BY <1>2, BatchFacts DEF Together
<1>4. Together(S)'
  BY BatchFacts DEF Together
<1>5. \A R : Together(R) => S \cap R = {}
  BY DEF Together
<1> HIDE DEF new
<1>6. BuiltInv'
  <2>1. status' \in [Policies -> {"new", "built", "minted", "burned"}]
    BY DEF LedgerInv, BuiltInv
  <2>2. ASSUME NEW premium \in premiums'
        PROVE  /\ Together(premium.for)' /\ premium.first \in premium.for
               /\ premium.cover = Cover[premium.first] * Cardinality(premium.for)
    <3>1. CASE premium = new
      BY <1>1, <1>4, <3>1
    <3>2. CASE premium \in premiums
      BY <1>3, <3>2 DEF LedgerInv, BuiltInv
    <3> QED
      BY <3>1, <3>2 DEF new
  <2>3. \A other \in paid' : Together(other.for)'
    BY <1>3 DEF LedgerInv, BuiltInv
  <2> QED
    BY <2>1, <2>2, <2>3 DEF LedgerInv, BuiltInv
<1>7. ApartInv'
  <2>1. \A premium \in premiums : S \cap premium.for = {}
    BY <1>5 DEF LedgerInv, BuiltInv
  <2>2. \A other \in paid : S \cap other.for = {}
    BY <1>5 DEF LedgerInv, BuiltInv
  <2>3. premiums' = premiums \cup {new} /\ paid' = paid
    BY DEF new
  <2>4. \A one, other \in premiums' : one.for \cap other.for # {} => one = other
    BY <1>1, <2>1, <2>3 DEF LedgerInv, ApartInv
  <2>5. \A premium \in premiums', other \in paid' : premium.for \cap other.for = {}
    BY <1>1, <2>2, <2>3 DEF LedgerInv, ApartInv
  <2> QED
    BY <2>3, <2>4, <2>5 DEF LedgerInv, ApartInv
<1> QED
  BY <1>6, <1>7 DEF LedgerInv, PaymentsInv

\* A step of a policy that was bought.
LEMMA MovesOn ==
    ASSUME LedgerInv, NEW p \in Policies, NEW to \in {"minted", "burned"},
           status' = [status EXCEPT ![p] = to], UNCHANGED <<premiums, payments, paid>>
    PROVE  LedgerInv'
<1>1. \A q \in Policies : status[q] # "new" => status'[q] # "new"
  BY DEF LedgerInv, BuiltInv
<1>2. \A S : Together(S) => Together(S)'
  BY <1>1, BatchFacts DEF Together
<1>3. BuiltInv'
  <2>1. status' \in [Policies -> {"new", "built", "minted", "burned"}]
    BY DEF LedgerInv, BuiltInv
  <2> QED
    BY <1>2, <2>1 DEF LedgerInv, BuiltInv
<1> QED
  BY <1>3 DEF LedgerInv, ApartInv, PaymentsInv

\* What a payment adds to the history.
Grows == \E memo \in Memos : payments' = Append(payments, memo)

LEMMA GrowsFacts ==
    ASSUME PaymentsInv, NEW memo \in Memos, payments' = Append(payments, memo)
    PROVE  /\ payments' \in Seq(Memos)
           /\ Len(payments) \in Nat /\ Len(payments') = Len(payments) + 1
           /\ \A i \in 1..Len(payments) : payments'[i] = payments[i]
           /\ payments'[Len(payments) + 1] = memo
           /\ \A i : i \in 1..Len(payments') <=> i \in 1..Len(payments) \/ i = Len(payments) + 1
BY DEF PaymentsInv

\* A payment that names no policy.
LEMMA UnnamedKeeps ==
    ASSUME PaymentsInv, NEW cover \in Nat,
           payments' = Append(payments, Memo(Placeholder, cover)), UNCHANGED paid
    PROVE  PaymentsInv' /\ Grows
<1> DEFINE memo == Memo(Placeholder, cover)
<1>1. memo \in Memos /\ memo.id = Placeholder /\ Placeholder \notin Policies
  BY PremiumAssumption DEF Memo, Memos
<1> HIDE DEF memo
<1>2. payments' = Append(payments, memo)
  BY DEF memo
<1> QED
  BY <1>1, <1>2, GrowsFacts DEF PaymentsInv, Grows

LEMMA SubmitPremiumKeeps ==
    ASSUME LedgerInv, NEW premium \in premiums, SubmitPremium(premium)
    PROVE  LedgerInv' /\ Grows
<1>1. /\ premiums' = premiums \ {premium} /\ UNCHANGED status
      /\ \/ Arrives(Memo(Placeholder, premium.cover)) /\ UNCHANGED paid
         \/ /\ Arrives(Memo(premium.first, premium.cover))
            /\ paid' = paid \cup {premium}
  BY DEF SubmitPremium
<1>2. /\ Together(premium.for) /\ premium.for \in Batch /\ premium.first \in premium.for
      /\ premium.cover = Cover[premium.first] * Cardinality(premium.for)
  BY DEF LedgerInv, BuiltInv, Together
<1>3. premium.first \in Policies /\ premium.cover \in Nat
  <2>1. Cardinality(premium.for) \in Nat /\ Cover[premium.first] \in Nat
    BY <1>2, BatchFacts
  <2> QED
    BY <1>2, <2>1, BatchFacts
<1>4. \A other \in paid' : other \in paid \/ other = premium
  BY <1>1
<1>5. BuiltInv'
  <2>1. \A S : Together(S)' <=> Together(S)
    BY <1>1 DEF Together
  <2> QED
    BY <1>1, <1>2, <1>4, <2>1 DEF LedgerInv, BuiltInv
<1>6. ApartInv'
  <2>1. \A one, other \in premiums' : one.for \cap other.for # {} => one = other
    BY <1>1 DEF LedgerInv, ApartInv
  <2>2. \A one \in premiums' : one \in premiums /\ one.for \cap premium.for = {}
    BY <1>1 DEF LedgerInv, ApartInv
  <2>3. \A one \in premiums', other \in paid' : one.for \cap other.for = {}
    BY <1>4, <2>2 DEF LedgerInv, ApartInv
  <2>4. \A other \in paid : premium.for \cap other.for = {}
    BY DEF LedgerInv, ApartInv
  <2>5. \A one, other \in paid' : one.for \cap other.for # {} => one = other
    BY <1>4, <2>4 DEF LedgerInv, ApartInv
  <2> QED
    BY <2>1, <2>3, <2>5 DEF ApartInv
<1>7. PaymentsInv' /\ Grows
  <2>1. CASE Arrives(Memo(Placeholder, premium.cover)) /\ UNCHANGED paid
    BY <1>3, <2>1, UnnamedKeeps DEF Arrives, LedgerInv
  <2>2. CASE /\ Arrives(Memo(premium.first, premium.cover))
             /\ paid' = paid \cup {premium}
    <3> DEFINE memo == Memo(premium.first, premium.cover)
    <3>1. memo \in Memos
      BY <1>2, <1>3 DEF Memo, Memos
    <3>2. payments' = Append(payments, memo)
      BY <2>2 DEF Arrives
    <3> HIDE DEF memo
    <3>3. /\ payments' \in Seq(Memos) /\ Len(payments) \in Nat
          /\ Len(payments') = Len(payments) + 1
          /\ \A i \in 1..Len(payments) : payments'[i] = payments[i]
          /\ payments'[Len(payments) + 1] = memo
          /\ \A i : i \in 1..Len(payments')
                      <=> i \in 1..Len(payments) \/ i = Len(payments) + 1
      BY <3>1, <3>2, GrowsFacts DEF LedgerInv
    <3>4. \A i \in 1..Len(payments') :
            payments'[i].id \in Policies =>
                \E one \in paid' : payments'[i] = Memo(one.first, one.cover)
      <4> SUFFICES ASSUME NEW i \in 1..Len(payments'), payments'[i].id \in Policies
                   PROVE  \E one \in paid' : payments'[i] = Memo(one.first, one.cover)
        OBVIOUS
      <4>1. CASE i \in 1..Len(payments)
        BY <2>2, <3>3, <4>1 DEF LedgerInv, PaymentsInv
      <4>2. CASE i = Len(payments) + 1
        BY <2>2, <3>3, <4>2 DEF memo
      <4> QED
        BY <3>3, <4>1, <4>2
    <3>5. \A one \in paid' :
            \E i \in 1..Len(payments') : payments'[i] = Memo(one.first, one.cover)
      <4> SUFFICES ASSUME NEW one \in paid'
                   PROVE  \E i \in 1..Len(payments') : payments'[i] = Memo(one.first, one.cover)
        OBVIOUS
      <4>1. CASE one \in paid
        BY <3>3, <4>1 DEF LedgerInv, PaymentsInv
      <4>2. CASE one = premium
        BY <3>3, <4>2 DEF memo
      <4> QED
        BY <1>4, <4>1, <4>2
    <3> QED
      BY <3>1, <3>2, <3>3, <3>4, <3>5 DEF PaymentsInv, Grows
  <2> QED
    BY <1>1, <2>1, <2>2
<1> QED
  BY <1>5, <1>6, <1>7 DEF LedgerInv

LEMMA PurchasesKeep ==
    ASSUME LedgerInv, Purchases
    PROVE  LedgerInv' /\ (Grows \/ UNCHANGED payments)
<1>1. CASE \E p \in Policies : PurchaseCoverage(p)
  <2>1. PICK p \in Policies : PurchaseCoverage(p)
    BY <1>1
  <2> DEFINE S == {p}
  <2>2. /\ S \in Batch /\ p \in S /\ Cover[p] \in Nat /\ Cardinality(S) = 1
        /\ \A q \in S : status[q] = "new" /\ Cover[q] = Cover[p]
    BY <2>1, PremiumAssumption, FS_Singleton DEF Batch, PurchaseCoverage
  <2>3. /\ status' = [q \in Policies |-> IF q \in S THEN "built" ELSE status[q]]
        /\ premiums' = premiums \cup {Premium(S, p, Cover[p])}
        /\ UNCHANGED <<payments, paid>>
    BY <2>1 DEF PurchaseCoverage, LedgerInv, BuiltInv
  <2> HIDE DEF S
  <2>4. Cover[p] = Cover[p] * Cardinality(S)
    BY <2>2
  <2> QED
    BY <2>2, <2>3, <2>4, Bought
<1>2. CASE \E S \in Batch, first \in Policies : PurchaseMultiVaultCoverage(S, first)
  BY <1>2, Bought DEF PurchaseMultiVaultCoverage
<1>3. CASE \E p \in Policies : SubmitMint(p) \/ Burn(p)
  BY <1>3, MovesOn DEF SubmitMint, Burn
<1>4. CASE \E premium \in premiums : SubmitPremium(premium)
  BY <1>4, SubmitPremiumKeeps
<1>5. CASE OtherPayment
  <2>1. PaymentsInv' /\ Grows
    BY <1>5, UnnamedKeeps DEF OtherPayment, Arrives, LedgerInv
  <2> QED
    BY <1>5, <2>1 DEF OtherPayment, LedgerInv, BuiltInv, ApartInv, Together
<1> QED
  BY <1>1, <1>2, <1>3, <1>4, <1>5 DEF Purchases

\* Only a purchase of one policy has the payment that a claim asks for: the memo of a
\* larger one states the coverage of all of it.
LEMMA MatchingOfOne ==
    ASSUME LedgerInv, NEW premium \in paid, NEW p \in premium.for
    PROVE  HasMatchingPremium(p) <=> premium.for = {p}
<1> DEFINE S == premium.for
<1>1. /\ S \in Batch /\ IsFiniteSet(S) /\ Cardinality(S) \in Nat \ {0}
      /\ p \in Policies /\ Cover[p] \in Nat \ {0} /\ premium.first \in S
      /\ premium.cover = Cover[p] * Cardinality(S)
  <2>1. /\ S \in Batch /\ premium.first \in S /\ Cover[premium.first] = Cover[p]
        /\ premium.cover = Cover[premium.first] * Cardinality(S)
    BY DEF LedgerInv, BuiltInv, Together
  <2> HIDE DEF S
  <2>2. p \in S
    BY DEF S
  <2> QED
    BY <2>1, <2>2, BatchFacts
<1>2. ASSUME HasMatchingPremium(p) PROVE S = {p}
  <2>1. PICK i \in 1..Len(payments) : payments[i] = Memo(p, Cover[p])
    BY <1>2 DEF HasMatchingPremium
  <2>2. PICK other \in paid : payments[i] = Memo(other.first, other.cover)
    <3>1. payments[i].id \in Policies
      BY <1>1, <2>1 DEF Memo
    <3> QED
      BY <3>1 DEF LedgerInv, PaymentsInv
  <2>3. other.first = p /\ other.cover = Cover[p]
    BY <2>1, <2>2 DEF Memo
  <2>4. other = premium
    BY <2>3 DEF LedgerInv, ApartInv, BuiltInv
  <2>5. Cardinality(S) = 1
    BY <1>1, <2>3, <2>4
  <2> QED
    BY <1>1, <2>5, FS_Singleton
<1>3. ASSUME S = {p} PROVE HasMatchingPremium(p)
  <2>1. PICK i \in 1..Len(payments) : payments[i] = Memo(premium.first, premium.cover)
    BY DEF LedgerInv, PaymentsInv
  <2>2. premium.first = p /\ Cardinality(S) = 1
    BY <1>1, <1>3, FS_Singleton
  <2>3. premium.cover = Cover[p]
    BY <1>1, <2>2
  <2> QED
    BY <2>1, <2>2, <2>3 DEF HasMatchingPremium
<1> QED
  BY <1>2, <1>3
-----------------------------------------------------------------------------
(* get_active_coverage_drops: what the pages of the history add up to      *)

Counts(page, filter) ==
    {i \in page : IsPremium(i) /\ (filter = {} \/ payments[i].id \in filter)}

LEMMA StatedFacts ==
    PaymentsInv => \A i \in 1..Len(payments) :
                     /\ CoverStated[i] = payments[i].cover
                     /\ CoverStated[i] \in Nat
<1> SUFFICES ASSUME PaymentsInv, NEW i \in 1..Len(payments)
             PROVE  CoverStated[i] = payments[i].cover /\ CoverStated[i] \in Nat
  OBVIOUS
<1>1. CoverStated[i] = payments[i].cover
  BY DEF CoverStated
<1>2. payments[i] \in Memos
  BY DEF PaymentsInv
<1>3. payments[i].cover \in Nat
  BY <1>2 DEF Memos
<1> QED
  BY <1>1, <1>3

LEMMA CountsFacts ==
    ASSUME PaymentsInv, NEW page \in SUBSET (1..Len(payments)), NEW filter
    PROVE  /\ Counted(page, filter) = SumFunctionOnSet(CoverStated, Counts(page, filter))
           /\ IsFiniteSet(Counts(page, filter))
           /\ \A i \in Counts(page, filter) : CoverStated[i] \in Nat
           /\ Counted(page, filter) \in Nat
<1>1. Counted(page, filter) = SumFunctionOnSet(CoverStated, Counts(page, filter))
  BY DEF Counted, Counts
<1>2. IsFiniteSet(Counts(page, filter))
  <2>1. IsFiniteSet(1..Len(payments))
    BY FS_Interval DEF PaymentsInv
  <2>2. Counts(page, filter) \in SUBSET (1..Len(payments))
    BY DEF Counts
  <2> QED
    BY <2>1, <2>2, FS_Subset
<1>3. \A i \in Counts(page, filter) : CoverStated[i] \in Nat
  BY StatedFacts DEF Counts
<1> QED
  BY <1>1, <1>2, <1>3, SumNat

LEMMA CountedEmpty == ASSUME NEW filter PROVE Counted({}, filter) = 0
<1>1. Counts({}, filter) = {}
  BY DEF Counts
<1> QED
  BY <1>1, SumEmpty DEF Counted, Counts

LEMMA CountedSplit ==
    ASSUME PaymentsInv, NEW page \in SUBSET (1..Len(payments)),
           NEW rest \in SUBSET (1..Len(payments)), page \cap rest = {}, NEW filter
    PROVE  Counted(page \cup rest, filter) = Counted(page, filter) + Counted(rest, filter)
<1>1. Counts(page \cup rest, filter) = Counts(page, filter) \cup Counts(rest, filter)
  BY DEF Counts
<1>2. Counts(page, filter) \cap Counts(rest, filter) = {}
  BY DEF Counts
<1>3. /\ IsFiniteSet(Counts(page, filter)) /\ IsFiniteSet(Counts(rest, filter))
      /\ \A i \in Counts(page, filter) : CoverStated[i] \in Nat
      /\ \A i \in Counts(rest, filter) : CoverStated[i] \in Nat
      /\ Counted(page, filter) = SumFunctionOnSet(CoverStated, Counts(page, filter))
      /\ Counted(rest, filter) = SumFunctionOnSet(CoverStated, Counts(rest, filter))
  BY CountsFacts
<1>4. Counted(page \cup rest, filter)
        = SumFunctionOnSet(CoverStated, Counts(page \cup rest, filter))
  BY DEF Counted, Counts
<1>5. \A i \in Counts(page, filter) \cup Counts(rest, filter) : CoverStated[i] \in Int
  BY <1>3
<1>6. SumFunctionOnSet(CoverStated, Counts(page, filter) \cup Counts(rest, filter))
        = SumFunctionOnSet(CoverStated, Counts(page, filter))
          + SumFunctionOnSet(CoverStated, Counts(rest, filter))
  BY <1>2, <1>3, <1>5, SumDisjoint
<1> QED
  BY <1>1, <1>3, <1>4, <1>6

\* What has been paid is not changed by what is paid.
LEMMA CountedKept ==
    ASSUME PaymentsInv, PaymentsInv', Grows, NEW page \in SUBSET (1..Len(payments)), NEW filter
    PROVE  Counted(page, filter)' = Counted(page, filter)
<1>1. PICK memo \in Memos : payments' = Append(payments, memo)
  BY DEF Grows
<1>2. /\ Len(payments) \in Nat /\ Len(payments') = Len(payments) + 1
      /\ \A i \in 1..Len(payments) : payments'[i] = payments[i]
  BY <1>1, GrowsFacts
<1>3. Counts(page, filter)' = Counts(page, filter)
  BY <1>2 DEF Counts, IsPremium
<1>4. \A i \in Counts(page, filter) : CoverStated'[i] = CoverStated[i]
  BY <1>2 DEF Counts, CoverStated
<1>5. Counted(page, filter)' = SumFunctionOnSet(CoverStated', Counts(page, filter))
  BY <1>3 DEF Counted, Counts
<1> QED
  BY <1>4, <1>5, CountsFacts, SumSame

LEMMA CountedGrows ==
    ASSUME PaymentsInv, PaymentsInv', Grows, NEW filter
    PROVE  /\ Counted(1..Len(payments), filter) \in Nat
           /\ Counted(1..Len(payments), filter)' \in Nat
           /\ Counted(1..Len(payments), filter) <= Counted(1..Len(payments), filter)'
<1> DEFINE n == Len(payments)
           old == Counts(1..n, filter)
           new == Counts(1..n, filter)'
<1>1. PICK memo \in Memos : payments' = Append(payments, memo)
  BY DEF Grows
<1>2. /\ n \in Nat /\ Len(payments') = n + 1
      /\ \A i \in 1..n : payments'[i] = payments[i]
  BY <1>1, GrowsFacts
<1>3. IsFiniteSet(old) /\ IsFiniteSet(new)
  <2>1. IsFiniteSet(1..n) /\ IsFiniteSet(1..n + 1)
    BY <1>2, FS_Interval
  <2>2. old \in SUBSET (1..n) /\ new \in SUBSET (1..n + 1)
    BY <1>2 DEF Counts
  <2> QED
    BY <2>1, <2>2, FS_Subset
<1>4. old \in SUBSET new
  BY <1>2 DEF Counts, IsPremium
<1>5. /\ \A i \in old : CoverStated'[i] = CoverStated[i]
      /\ \A i \in new : CoverStated'[i] \in Nat
  <2>1. \A i \in 1..n : CoverStated'[i] = CoverStated[i]
    BY <1>2 DEF CoverStated
  <2>2. (PaymentsInv => \A i \in 1..Len(payments) :
                          /\ CoverStated[i] = payments[i].cover
                          /\ CoverStated[i] \in Nat)'
    BY StatedFacts, PTL
  <2> QED
    BY <1>2, <2>1, <2>2 DEF Counts
<1>6. SumFunctionOnSet(CoverStated, old) = SumFunctionOnSet(CoverStated', old)
  BY <1>3, <1>5, SumSame
<1>7. SumFunctionOnSet(CoverStated', old) <= SumFunctionOnSet(CoverStated', new)
  BY <1>3, <1>4, <1>5, SumSubset
<1>8. /\ Counted(1..n, filter) = SumFunctionOnSet(CoverStated, old)
      /\ Counted(1..n, filter)' = SumFunctionOnSet(CoverStated', new)
  BY DEF Counted, Counts
<1>9. /\ SumFunctionOnSet(CoverStated', old) \in Nat
      /\ SumFunctionOnSet(CoverStated', new) \in Nat
  BY <1>3, <1>4, <1>5, SumNat
<1> QED
  BY <1>6, <1>7, <1>8, <1>9

\* A page and what is older.
LEMMA PageFacts ==
    ASSUME NEW from \in Nat
    PROVE  /\ from <= PageSize => PageFrom(from) = 1..from
           /\ from > PageSize =>
                /\ from - PageSize \in 1..from
                /\ 1..from = PageFrom(from) \cup (1..from - PageSize)
                /\ PageFrom(from) \cap (1..from - PageSize) = {}
BY PoolAssumption DEF PageFrom

\* The purchase that a policy was paid with.
PaidWith(p) == CHOOSE premium \in paid : p \in premium.for

LEMMA PaidWithFacts ==
    ASSUME LedgerInv, NEW premium \in paid, NEW p \in premium.for
    PROVE  PaidWith(p) = premium
BY DEF LedgerInv, ApartInv, PaidWith

\* What is owed is paid for: the policies of one purchase, as many of them as are known,
\* by the payment that names its first and states the coverage of all.
LEMMA OwedCounted ==
    ASSUME LedgerInv
    PROVE  /\ SumFunctionOnSet(Cover, Owed) \in Nat
           /\ SumFunctionOnSet(Cover, Owed) <= Counted(1..Len(payments), registry)
<1> DEFINE n == Len(payments)
           payment(premium) ==
             CHOOSE i \in 1..n : payments[i] = Memo(premium.first, premium.cover)
           own == [p \in Owed |-> payment(PaidWith(p))]
           counts == Counts(1..n, registry)
<1>1. /\ IsFiniteSet(Owed) /\ Owed \subseteq Policies
      /\ \A p \in Owed : Cover[p] \in Nat \ {0}
  <2>1. Owed \in SUBSET Policies
    BY DEF Owed
  <2> QED
    BY <2>1, PremiumAssumption, FS_Subset
<1>2. PaymentsInv
  BY DEF LedgerInv
<1>3. ASSUME NEW p \in Owed
      PROVE  /\ PaidWith(p) \in paid /\ p \in PaidWith(p).for /\ Known(PaidWith(p).first)
             /\ own[p] \in 1..n
             /\ payments[own[p]].id = PaidWith(p).first
             /\ payments[own[p]].cover = PaidWith(p).cover
             /\ payments[own[p]].id # Placeholder
  <2>1. PICK premium \in paid : p \in premium.for /\ Known(premium.first)
    BY DEF Owed
  <2>2. PaidWith(p) = premium
    BY <2>1, PaidWithFacts
  <2>3. PICK i \in 1..n : payments[i] = Memo(premium.first, premium.cover)
    BY <1>2 DEF PaymentsInv
  <2>4. payment(premium) \in 1..n /\ payments[payment(premium)] = Memo(premium.first, premium.cover)
    BY <2>3
  <2>5. own[p] = payment(premium)
    BY <2>2
  <2> HIDE DEF own, payment
  <2>6. payments[own[p]].id = premium.first /\ payments[own[p]].cover = premium.cover
    BY <2>4, <2>5 DEF Memo
  <2>7. premium.first # Placeholder
    BY BatchFacts DEF LedgerInv, BuiltInv, Together
  <2> QED
    BY <2>1, <2>2, <2>4, <2>5, <2>6, <2>7
<1>4. /\ Counted(1..n, registry) = SumFunctionOnSet(CoverStated, counts)
      /\ IsFiniteSet(counts)
      /\ \A i \in counts : CoverStated[i] \in Nat
  BY <1>2, CountsFacts DEF Counts
<1> HIDE DEF own, payment
<1>5. ASSUME NEW p \in Owed PROVE own[p] \in counts
  BY <1>3 DEF Counts, IsPremium, Known
<1>6. ASSUME NEW i \in counts
      PROVE  SumFunctionOnSet(Cover, {p \in Owed : own[p] = i}) <= CoverStated[i]
  <2> DEFINE some == {p \in Owed : own[p] = i}
  <2>1. CASE some = {}
    <3>1. SumFunctionOnSet(Cover, some) = 0
      <4> HIDE DEF some
      <4> QED
        BY <2>1, SumEmpty
    <3>2. CoverStated[i] \in Nat
      BY <1>4
    <3> QED
      BY <3>1, <3>2
  <2>2. CASE some # {}
    <3>1. PICK q \in Owed : own[q] = i
      BY <2>2
    <3> DEFINE premium == PaidWith(q)
               S == premium.for
    <3>2. /\ premium \in paid /\ q \in S /\ S \in Batch /\ q \in Policies
          /\ premium.first \in S /\ premium.cover = Cover[q] * Cardinality(S)
          /\ \A p \in S : Cover[p] = Cover[q]
      BY <1>1, <1>3, <3>1 DEF LedgerInv, BuiltInv, Together
    <3>3. some \subseteq S
      <4> SUFFICES ASSUME NEW p \in Owed, own[p] = i PROVE p \in S
        OBVIOUS
      <4>1. PaidWith(p).first = premium.first
        BY <1>3, <3>1
      <4>2. PaidWith(p) \in paid /\ PaidWith(p).first \in PaidWith(p).for
        BY <1>3 DEF LedgerInv, BuiltInv
      <4>3. PaidWith(p) = premium
        BY <3>2, <4>1, <4>2 DEF LedgerInv, ApartInv
      <4> QED
        BY <1>3, <4>3
    <3>4. CoverStated[i] = Cover[q] * Cardinality(S)
      <4>1. payments[i].cover = premium.cover
        BY <1>3, <3>1
      <4>2. CoverStated[i] = payments[i].cover
        BY <1>2, StatedFacts DEF Counts
      <4> QED
        BY <3>2, <4>1, <4>2
    <3> HIDE DEF some, S, premium
    <3>5. /\ IsFiniteSet(S) /\ IsFiniteSet(some) /\ Cardinality(some) <= Cardinality(S)
          /\ Cardinality(some) \in Nat /\ Cardinality(S) \in Nat
      BY <3>2, <3>3, BatchFacts, FS_Subset, FS_CardinalityType
    <3>6. SumFunctionOnSet(Cover, some) = Cover[q] * Cardinality(some)
      BY <1>1, <3>1, <3>2, <3>3, <3>5, SumConstant
    <3>7. Cover[q] * Cardinality(some) <= Cover[q] * Cardinality(S)
      BY <1>1, <3>1, <3>5
    <3> QED
      BY <3>4, <3>6, <3>7 DEF some
  <2> QED
    BY <2>1, <2>2
<1> HIDE DEF counts
<1>7. SumFunctionOnSet(Cover, Owed) <= SumFunctionOnSet(CoverStated, counts)
  BY <1>1, <1>4, <1>5, <1>6, SumGather
<1>8. SumFunctionOnSet(Cover, Owed) \in Nat
  BY <1>1, SumNat
<1> QED
  BY <1>4, <1>7, <1>8
-----------------------------------------------------------------------------
(* PoolHealth: tiers and the gate                                          *)

LEMMA LargestIsOne ==
    ASSUME NEW a \in Int, NEW b \in Int
    PROVE  Max({a, b}) \in {a, b} /\ Max({a, b}) >= a /\ Max({a, b}) >= b
<1>1. \E x \in {a, b} : \A y \in {a, b} : x >= y
  <2>1. CASE a >= b
    BY <2>1
  <2>2. CASE b >= a
    BY <2>2
  <2> QED
    BY <2>1, <2>2
<1> QED
  BY <1>1 DEF Max

LEMMA UsableNat == account \in Accounts => UsableDrops \in Nat
<1> SUFFICES ASSUME account \in Accounts PROVE UsableDrops \in Nat
  OBVIOUS
<1>1. /\ account.balance \in Int /\ account.owners \in Int
      /\ BaseReserve \in Int /\ OwnerReserve \in Int
  BY PoolAssumption
<1>2. account.balance - (BaseReserve + account.owners * OwnerReserve) \in Int
  BY <1>1
<1> QED
  BY <1>2, LargestIsOne DEF UsableDrops

\* What each threshold asks for is had by the tier that is given.
LEMMA TierHeld ==
    ASSUME NEW usable \in Nat, NEW coverage \in Nat
    PROVE  /\ RiskTier(usable, coverage) \in {"safest", "safe", "moderate"}
                => 2 * usable >= 4 * coverage
           /\ RiskTier(usable, coverage) \in {"safest", "safe", "moderate", "elevated"}
                => 2 * usable >= 3 * coverage
<1> DEFINE S == {i \in 1 .. Len(RiskTiers) : 2 * usable >= Thresholds[i] * coverage}
<1>1. Len(RiskTiers) = 5
  BY DEF RiskTiers
<1>2. /\ Thresholds[1] = 10 /\ Thresholds[2] = 6 /\ Thresholds[3] = 4 /\ Thresholds[4] = 3
      /\ Thresholds[5] = 0
  BY DEF Thresholds
<1>3. S \subseteq 1..5 /\ 5 \in S
  BY <1>1, <1>2
<1>4. /\ 1 \in S => 2 * usable >= 10 * coverage
      /\ 2 \in S => 2 * usable >= 6 * coverage
      /\ 3 \in S => 2 * usable >= 4 * coverage
      /\ 4 \in S => 2 * usable >= 3 * coverage
  BY <1>2
<1>5. RiskTier(usable, coverage) = RiskTiers[Min(S)]
  BY DEF RiskTier
<1> HIDE DEF S
<1>6. Min(S) \in S
  <2>1. \E x \in S : \A y \in S : x =< y
    <3>1. CASE 1 \in S
      BY <1>3, <3>1
    <3>2. CASE 1 \notin S /\ 2 \in S
      BY <1>3, <3>2
    <3>3. CASE 1 \notin S /\ 2 \notin S /\ 3 \in S
      BY <1>3, <3>3
    <3>4. CASE 1 \notin S /\ 2 \notin S /\ 3 \notin S /\ 4 \in S
      BY <1>3, <3>4
    <3>5. CASE 1 \notin S /\ 2 \notin S /\ 3 \notin S /\ 4 \notin S
      BY <1>3, <3>5
    <3> QED
      BY <3>1, <3>2, <3>3, <3>4, <3>5
  <2> QED
    BY <2>1 DEF Min
<1>7. RiskTiers[5] = "high" /\ RiskTiers[4] = "elevated"
  BY DEF RiskTiers
<1>8. Min(S) \in 1..5
  BY <1>3, <1>6
<1>9. CASE Min(S) \in 1..3
  BY <1>4, <1>6, <1>9
<1>10. CASE Min(S) = 4
  BY <1>4, <1>5, <1>6, <1>7, <1>10
<1>11. CASE Min(S) = 5
  BY <1>5, <1>7, <1>11
<1> QED
  BY <1>8, <1>9, <1>10, <1>11

-----------------------------------------------------------------------------
(* PoolHealth: the registry                                                *)

Registered(v) == {p \in registry : VaultOf[p] = v}

RegistryInv ==
    /\ account \in Accounts
    /\ registry \in SUBSET Policies
    /\ vaultCoverage \in [Vaults -> Nat]
    /\ \A v \in Vaults : vaultCoverage[v] <= SumFunctionOnSet(Cover, Registered(v))

LEMMA RegisteredFacts ==
    ASSUME registry \in SUBSET Policies, NEW v
    PROVE  /\ IsFiniteSet(Registered(v))
           /\ \A p \in Registered(v) : Cover[p] \in Nat
           /\ SumFunctionOnSet(Cover, Registered(v)) \in Nat
<1>1. Registered(v) \in SUBSET Policies
  BY DEF Registered
<1>2. IsFiniteSet(Registered(v)) /\ \A p \in Registered(v) : Cover[p] \in Nat
  BY <1>1, PremiumAssumption, FS_Subset
<1> QED
  BY <1>2, SumNat

LEMMA EmptyRegistry ==
    ASSUME registry = {}, vaultCoverage = [v \in Vaults |-> 0], account \in Accounts
    PROVE  RegistryInv
<1>1. ASSUME NEW v \in Vaults PROVE vaultCoverage[v] <= SumFunctionOnSet(Cover, Registered(v))
  <2>1. Registered(v) = {}
    BY DEF Registered
  <2> QED
    BY <2>1, SumEmpty
<1> QED
  BY <1>1 DEF RegistryInv

LEMMA RegisterPolicyKeeps ==
    ASSUME RegistryInv, NEW p \in Policies, RegisterPolicy(p)
    PROVE  RegistryInv'
<1>1. /\ p \notin registry /\ registry' = registry \cup {p}
      /\ vaultCoverage' = [vaultCoverage EXCEPT ![VaultOf[p]] = @ + Cover[p]]
      /\ account' = account
  BY DEF RegisterPolicy
<1>2. VaultOf[p] \in Vaults /\ Cover[p] \in Nat
  BY PremiumAssumption DEF Vaults
<1>3. vaultCoverage' \in [Vaults -> Nat]
  BY <1>1, <1>2 DEF RegistryInv
<1>4. ASSUME NEW v \in Vaults
      PROVE  vaultCoverage'[v] <= SumFunctionOnSet(Cover, Registered(v)')
  <2>1. CASE v = VaultOf[p]
    <3>1. Registered(v)' = Registered(v) \cup {p} /\ p \notin Registered(v)
      BY <1>1, <2>1 DEF Registered
    <3>2. /\ IsFiniteSet(Registered(v)) /\ SumFunctionOnSet(Cover, Registered(v)) \in Nat
          /\ \A q \in Registered(v) \cup {p} : Cover[q] \in Int
      BY <1>2, RegisteredFacts DEF RegistryInv
    <3>3. SumFunctionOnSet(Cover, Registered(v) \cup {p})
            = SumFunctionOnSet(Cover, Registered(v)) + Cover[p]
      BY <3>1, <3>2, SumAdd
    <3>4. vaultCoverage'[v] = vaultCoverage[v] + Cover[p] /\ vaultCoverage[v] \in Nat
      BY <1>1, <2>1 DEF RegistryInv
    <3> QED
      BY <1>2, <3>1, <3>2, <3>3, <3>4 DEF RegistryInv
  <2>2. CASE v # VaultOf[p]
    <3>1. Registered(v)' = Registered(v)
      BY <1>1, <2>2 DEF Registered
    <3>2. vaultCoverage'[v] = vaultCoverage[v]
      BY <1>1, <2>2 DEF RegistryInv
    <3> QED
      BY <3>1, <3>2 DEF RegistryInv
  <2> QED
    BY <2>1, <2>2
<1> QED
  BY <1>1, <1>3, <1>4 DEF RegistryInv

LEMMA DeregisterPolicyKeeps ==
    ASSUME RegistryInv, NEW p \in Policies, DeregisterPolicy(p)
    PROVE  RegistryInv'
<1>1. /\ registry' = registry \ {p} /\ account' = account
      /\ vaultCoverage' = [vaultCoverage EXCEPT ![VaultOf[p]] = 0]
  BY DEF DeregisterPolicy, PopVault
<1>2. vaultCoverage' \in [Vaults -> Nat] /\ registry' \in SUBSET Policies
  BY <1>1 DEF RegistryInv
<1>3. ASSUME NEW v \in Vaults
      PROVE  vaultCoverage'[v] <= SumFunctionOnSet(Cover, Registered(v)')
  <2>1. CASE v = VaultOf[p]
    <3>1. IsFiniteSet(Registered(v)') /\ \A q \in Registered(v)' : Cover[q] \in Nat
      <4>1. Registered(v)' \in SUBSET Policies
        BY <1>2 DEF Registered
      <4> QED
        BY <4>1, PremiumAssumption, FS_Subset
    <3>2. SumFunctionOnSet(Cover, Registered(v)') \in Nat
      BY <3>1, SumNat
    <3>3. vaultCoverage'[v] = 0
      BY <1>1, <2>1 DEF RegistryInv
    <3> QED
      BY <3>2, <3>3
  <2>2. CASE v # VaultOf[p]
    <3>1. Registered(v)' = Registered(v)
      BY <1>1, <2>2 DEF Registered
    <3>2. vaultCoverage'[v] = vaultCoverage[v]
      BY <1>1, <2>2 DEF RegistryInv
    <3> QED
      BY <3>1, <3>2 DEF RegistryInv
  <2> QED
    BY <2>1, <2>2
<1> QED
  BY <1>1, <1>2, <1>3 DEF RegistryInv

LEMMA RegistryUnchanged ==
    ASSUME RegistryInv, UNCHANGED <<registry, vaultCoverage>>, account' \in Accounts
    PROVE  RegistryInv'
BY DEF RegistryInv, Registered
-----------------------------------------------------------------------------
(* PoolHealth: a call of get_health                                        *)

\* Before the first page nothing is added up, and what was owed when the call began is
\* within what the filter lets through; after a page, what has been added up and what
\* is older than the marker make the sum.
SummingInv ==
    /\ health \in [at : {"summing"}, usable : Nat, filter : SUBSET Policies, next : Int,
                   total : Nat, sum : Nat, owed : Nat]
    /\ health.next = Newest =>
         /\ health.total = 0 /\ health.sum = 0
         /\ health.owed <= Counted(1..Len(payments), health.filter)
    /\ health.next # Newest =>
         /\ health.next \in 1..Len(payments)
         /\ health.total + Counted(1..health.next, health.filter) = health.sum
         /\ health.owed <= health.sum

TakenInv ==
    /\ health.usable \in Nat /\ health.coverage \in Nat /\ health.owed \in Nat
    /\ health.tier = RiskTier(health.usable, health.coverage)
    /\ health.coverage <= health.sum
    /\ health.complete => health.coverage = health.sum /\ health.owed <= health.coverage

HealthInv ==
    /\ health.at \in {"none", "summing", "taken"}
    /\ health.at = "summing" => SummingInv
    /\ health.at = "taken" => TakenInv

PoolInv == LedgerInv /\ RegistryInv /\ HealthInv

LEMMA ReadAccountKeeps ==
    ASSUME PoolInv, ReadAccount
    PROVE  HealthInv'
<1>1. /\ health' = [at |-> "summing", usable |-> UsableDrops, filter |-> registry,
                    next |-> Newest, total |-> 0, sum |-> 0,
                    owed |-> SumFunctionOnSet(Cover, Owed)]
      /\ payments' = payments
  BY DEF ReadAccount, premiumVars
<1>2. UsableDrops \in Nat
  BY UsableNat DEF PoolInv, RegistryInv
<1>3. /\ SumFunctionOnSet(Cover, Owed) \in Nat
      /\ SumFunctionOnSet(Cover, Owed) <= Counted(1..Len(payments), registry)
  BY OwedCounted DEF PoolInv
<1>4. Counted(1..Len(payments), registry)' = Counted(1..Len(payments), registry')
  BY <1>1 DEF Counted, CoverStated, IsPremium
<1>5. health'.owed <= Counted(1..Len(payments), health.filter)'
  BY <1>1, <1>3 DEF Counted, CoverStated, IsPremium
<1>6. registry \in SUBSET Policies
  BY DEF PoolInv, RegistryInv
<1> QED
  BY <1>1, <1>2, <1>3, <1>5, <1>6 DEF HealthInv, SummingInv, Newest

\* What a return makes of a sum that is complete, or is not.
LEMMA ReturnKeeps ==
    ASSUME SummingInv, NEW total \in Nat, NEW sum \in Nat, total <= sum,
           \/ Return(total, FALSE, sum)
           \/ Return(total, TRUE, sum) /\ total = sum /\ health.owed <= total
    PROVE  HealthInv'
<1>1. /\ health'.at = "taken" /\ health'.usable = health.usable /\ health'.coverage = total
      /\ health'.tier = RiskTier(health.usable, total)
      /\ health'.sum = sum /\ health'.owed = health.owed
  BY DEF Return
<1>2. health.usable \in Nat /\ health.owed \in Nat
  BY DEF SummingInv
<1>3. health'.tier = RiskTier(health'.usable, health'.coverage)
  BY <1>1
<1>4. health'.complete => total = sum /\ health.owed <= total
  BY DEF Return
<1> QED
  BY <1>1, <1>2, <1>3, <1>4 DEF HealthInv, TakenInv

LEMMA PageKeeps ==
    ASSUME SummingInv, PaymentsInv, UNCHANGED payments,
           NEW from \in 0..Len(payments), NEW page \in Nat, NEW total \in Nat, NEW sum \in Nat,
           page = Counted(PageFrom(from), health.filter),
           total = health.total + page,
           sum = health.total + Counted(1..from, health.filter),
           health.owed <= sum,
           IF from <= PageSize THEN Return(total, TRUE, sum)
           ELSE health' = [health EXCEPT !.next = from - PageSize, !.total = total, !.sum = sum]
    PROVE  HealthInv'
<1>1. PageSize \in Nat \ {0} /\ Len(payments) \in Nat
  BY PoolAssumption DEF PaymentsInv
<1>2. CASE from <= PageSize
  <2>1. Counted(PageFrom(from), health.filter) = Counted(1..from, health.filter)
    BY <1>2, PageFacts
  <2>2. total = sum /\ Return(total, TRUE, sum)
    BY <1>2, <2>1
  <2>3. total <= sum /\ health.owed <= total
    BY <2>2
  <2> QED
    BY <2>2, <2>3, ReturnKeeps
<1>3. CASE ~(from <= PageSize)
  <2>1. PICK rest \in Nat : rest = from - PageSize
    BY <1>1, <1>3
  <2>2. /\ rest \in 1..from
        /\ 1..from = PageFrom(from) \cup (1..rest)
        /\ PageFrom(from) \cap (1..rest) = {}
    BY <1>1, <1>3, <2>1, PageFacts
  <2>3. /\ rest \in 1..Len(payments)
        /\ 1..rest \in SUBSET (1..Len(payments))
        /\ PageFrom(from) \in SUBSET (1..Len(payments))
    BY <1>1, <2>2 DEF PageFrom
  <2>4. Counted(PageFrom(from) \cup (1..rest), health.filter)
          = Counted(PageFrom(from), health.filter) + Counted(1..rest, health.filter)
    BY <2>2, <2>3, CountedSplit
  <2>5. Counted(1..rest, health.filter) \in Nat
    BY <2>3, CountsFacts
  <2>6. health.total \in Nat /\ total + Counted(1..rest, health.filter) = sum
    <3>1. Counted(1..from, health.filter) = page + Counted(1..rest, health.filter)
      BY <2>2, <2>4
    <3>2. health.total \in Nat
      BY DEF SummingInv
    <3> QED
      BY <2>5, <3>1, <3>2
  <2>7. /\ health' \in [at : {"summing"}, usable : Nat, filter : SUBSET Policies, next : Int,
                        total : Nat, sum : Nat, owed : Nat]
        /\ health'.next = rest /\ health'.total = total /\ health'.sum = sum
        /\ health'.filter = health.filter /\ health'.owed = health.owed
        /\ health'.at = "summing"
    <3>1. health' = [health EXCEPT !.next = rest, !.total = total, !.sum = sum]
      BY <1>3, <2>1
    <3>2. health \in [at : {"summing"}, usable : Nat, filter : SUBSET Policies, next : Int,
                      total : Nat, sum : Nat, owed : Nat]
      BY DEF SummingInv
    <3>3. /\ health'.next = rest /\ health'.total = total /\ health'.sum = sum
          /\ health'.filter = health.filter /\ health'.owed = health.owed
          /\ health'.usable = health.usable /\ health'.at = "summing"
      BY <3>1, <3>2
    <3>4. health' = [at |-> "summing", usable |-> health.usable, filter |-> health.filter,
                     next |-> rest, total |-> total, sum |-> sum, owed |-> health.owed]
      BY <3>1, <3>2
    <3> QED
      BY <3>2, <3>3, <3>4
  <2>8. Counted(1..health.next, health.filter)' = Counted(1..rest, health.filter)
    BY <2>7 DEF Counted, CoverStated, IsPremium
  <2>9. /\ health'.next # Newest
        /\ health'.next \in 1..Len(payments')
        /\ health'.total + Counted(1..health.next, health.filter)' = health'.sum
        /\ health'.owed <= health'.sum
    BY <2>3, <2>6, <2>7, <2>8 DEF Newest
  <2>10. SummingInv'
    BY <2>7, <2>9 DEF SummingInv
  <2> QED
    BY <2>7, <2>10 DEF HealthInv
<1> QED
  BY <1>2, <1>3

LEMMA ReadPageKeeps ==
    ASSUME PoolInv, ReadPage
    PROVE  HealthInv'
<1> DEFINE first == health.next = Newest
           from  == IF first THEN Len(payments) ELSE health.next
           page  == Counted(PageFrom(from), health.filter)
           total == health.total + page
           sum   == IF first THEN Counted(1 .. from, health.filter) ELSE health.sum
<1>1. SummingInv
  BY DEF ReadPage, PoolInv, HealthInv
<1>2. PaymentsInv /\ Len(payments) \in Nat
  BY DEF PoolInv, LedgerInv, PaymentsInv
<1>3. UNCHANGED payments
  BY DEF ReadPage, premiumVars
<1>4. IF from <= PageSize THEN Return(total, TRUE, sum)
      ELSE health' = [health EXCEPT !.next = from - PageSize, !.total = total, !.sum = sum]
  BY DEF ReadPage
<1>5. from \in 0..Len(payments) /\ health.total \in Nat
  BY <1>1, <1>2 DEF SummingInv
<1>6. /\ sum \in Nat /\ health.owed <= sum
      /\ sum = health.total + Counted(1..from, health.filter)
  <2>1. CASE first
    <3>1. from = Len(payments) /\ sum = Counted(1..from, health.filter) /\ health.total = 0
      BY <1>1, <2>1 DEF SummingInv
    <3>2. Counted(1..from, health.filter) \in Nat
      <4>1. 1..from \in SUBSET (1..Len(payments))
        BY <1>2, <1>5
      <4> QED
        BY <1>2, <4>1, CountsFacts
    <3> HIDE DEF from, sum
    <3>3. health.owed <= Counted(1..from, health.filter)
      BY <1>1, <2>1, <3>1 DEF SummingInv
    <3> QED
      BY <3>1, <3>2, <3>3
  <2>2. CASE ~first
    BY <1>1, <2>2 DEF SummingInv
  <2> QED
    BY <2>1, <2>2
<1>7. page \in Nat
  <2>1. PageFrom(from) \in SUBSET (1..Len(payments))
    BY <1>2, <1>5 DEF PageFrom
  <2> QED
    BY <1>2, <2>1, CountsFacts
<1>8. page = Counted(PageFrom(from), health.filter) /\ total = health.total + page
  OBVIOUS
<1> HIDE DEF from, page, sum
<1>9. total \in Nat
  BY <1>5, <1>7
<1> HIDE DEF total
<1> QED
  BY <1>1, <1>2, <1>3, <1>4, <1>5, <1>6, <1>7, <1>8, <1>9, PageKeeps

LEMMA PageFailsKeeps ==
    ASSUME PoolInv, PageFails
    PROVE  HealthInv'
<1>1. SummingInv
  BY DEF PageFails, PoolInv, HealthInv
<1>2. Return(health.total, FALSE, health.sum)
  BY DEF PageFails
<1>3. health.total \in Nat /\ health.sum \in Nat /\ health.total <= health.sum
  <2>1. CASE health.next = Newest
    BY <1>1, <2>1 DEF SummingInv
  <2>2. CASE health.next # Newest
    <3>1. Counted(1..health.next, health.filter) \in Nat
      <4>1. PaymentsInv /\ Len(payments) \in Nat
        BY DEF PoolInv, LedgerInv, PaymentsInv
      <4>2. 1..health.next \in SUBSET (1..Len(payments))
        BY <1>1, <2>2, <4>1 DEF SummingInv
      <4> QED
        BY <4>1, <4>2, CountsFacts
    <3> QED
      BY <1>1, <2>2, <3>1 DEF SummingInv
  <2> QED
    BY <2>1, <2>2
<1> QED
  BY <1>1, <1>2, <1>3, ReturnKeeps

\* A call goes on whatever is bought and paid meanwhile.
LEMMA PaymentsMove ==
    ASSUME HealthInv, PaymentsInv, PaymentsInv', Grows \/ UNCHANGED payments,
           UNCHANGED health
    PROVE  HealthInv'
<1>1. CASE health.at = "summing"
  <2>1. SummingInv
    BY <1>1 DEF HealthInv
  <2>2. Len(payments) \in Nat /\ Len(payments') \in Nat /\ Len(payments) <= Len(payments')
    BY GrowsFacts DEF Grows, PaymentsInv
  <2>3. CASE health.next = Newest
    <3>1. /\ Counted(1..Len(payments), health.filter) \in Nat
          /\ Counted(1..Len(payments), health.filter)' \in Nat
          /\ Counted(1..Len(payments), health.filter)
               <= Counted(1..Len(payments), health.filter)'
      <4>1. CASE Grows
        <5>1. PICK filter : filter = health.filter
          OBVIOUS
        <5>2. /\ Counted(1..Len(payments), filter) \in Nat
              /\ Counted(1..Len(payments), filter)' \in Nat
              /\ Counted(1..Len(payments), filter) <= Counted(1..Len(payments), filter)'
          BY <4>1, CountedGrows
        <5> QED
          BY <5>1, <5>2 DEF Counted
      <4>2. CASE UNCHANGED payments
        <5>1. Counted(1..Len(payments), health.filter)'
                = Counted(1..Len(payments), health.filter)
          BY <4>2 DEF Counted, CoverStated, IsPremium
        <5>2. Counted(1..Len(payments), health.filter) \in Nat
          BY <2>2, CountsFacts
        <5> QED
          BY <5>1, <5>2
      <4> QED
        BY <4>1, <4>2
    <3>2. /\ health' \in [at : {"summing"}, usable : Nat, filter : SUBSET Policies, next : Int,
                          total : Nat, sum : Nat, owed : Nat]
          /\ health'.next = Newest /\ health'.total = 0 /\ health'.sum = 0
          /\ health.owed <= Counted(1..Len(payments), health.filter)
          /\ health.owed \in Nat
      BY <2>1, <2>3 DEF SummingInv
    <3>3. health'.owed <= Counted(1..Len(payments), health.filter)'
      BY <3>1, <3>2
    <3>4. SummingInv'
      BY <3>2, <3>3 DEF SummingInv
    <3> QED
      BY <1>1, <3>4 DEF HealthInv
  <2>4. CASE health.next # Newest
    <3>1. health.next \in 1..Len(payments) /\ 1..health.next \in SUBSET (1..Len(payments))
      BY <2>1, <2>2, <2>4 DEF SummingInv
    <3>2. Counted(1..health.next, health.filter)' = Counted(1..health.next, health.filter)
      <4>1. CASE Grows
        <5>1. PICK page, filter : page = 1..health.next /\ filter = health.filter
          OBVIOUS
        <5>2. Counted(page, filter)' = Counted(page, filter)
          BY <4>1, <3>1, <5>1, CountedKept
        <5> QED
          BY <5>1, <5>2 DEF Counted
      <4>2. CASE UNCHANGED payments
        BY <4>2 DEF Counted, CoverStated, IsPremium
      <4> QED
        BY <4>1, <4>2
    <3> QED
      BY <1>1, <2>1, <2>2, <2>4, <3>1, <3>2 DEF HealthInv, SummingInv
  <2> QED
    BY <2>3, <2>4
<1>2. CASE health.at # "summing"
  BY <1>2 DEF HealthInv, TakenInv
<1> QED
  BY <1>1, <1>2
LEMMA PoolInitInv == Init => PoolInv
<1> SUFFICES ASSUME Init PROVE PoolInv
  OBVIOUS
<1>1. LedgerInv
  BY PremiumInitInv DEF Init
<1>2. RegistryInv
  BY EmptyRegistry DEF Init
<1> QED
  BY <1>1, <1>2 DEF Init, PoolInv, HealthInv, NoHealth

\* A step that leaves the purchases and the payments alone.
LEMMA LedgerUnchanged == ASSUME LedgerInv, UNCHANGED premiumVars PROVE LedgerInv'
BY DEF LedgerInv, BuiltInv, Together, ApartInv, PaymentsInv, premiumVars

LEMMA HealthUnchanged ==
    ASSUME PoolInv, UNCHANGED premiumVars, UNCHANGED health
    PROVE  HealthInv'
<1>1. PaymentsInv /\ PaymentsInv'
  BY LedgerUnchanged DEF PoolInv, LedgerInv
<1> QED
  BY <1>1, PaymentsMove DEF PoolInv, premiumVars

LEMMA NoHealthKeeps == ASSUME health' = NoHealth PROVE HealthInv'
BY DEF HealthInv, NoHealth

LEMMA PoolNextInv == PoolInv /\ [Next]_vars => PoolInv'
<1> SUFFICES ASSUME PoolInv, [Next]_vars PROVE PoolInv'
  OBVIOUS
<1>1. CASE Purchases /\ UNCHANGED <<account, registry, vaultCoverage, health>>
  <2>1. LedgerInv' /\ (Grows \/ UNCHANGED payments)
    BY <1>1, PurchasesKeep DEF PoolInv
  <2>2. RegistryInv'
    BY <1>1, RegistryUnchanged DEF PoolInv, RegistryInv
  <2>3. HealthInv'
    BY <1>1, <2>1, PaymentsMove DEF PoolInv, LedgerInv
  <2> QED
    BY <2>1, <2>2, <2>3 DEF PoolInv
<1>2. CASE AccountMoves
  <2>1. RegistryInv'
    BY <1>2, RegistryUnchanged DEF AccountMoves, PoolInv
  <2> QED
    BY <1>2, <2>1, LedgerUnchanged, HealthUnchanged DEF AccountMoves, PoolInv
<1>3. CASE GetHealth
  <2>1. UNCHANGED <<premiumVars, account, registry, vaultCoverage>>
    BY <1>3 DEF GetHealth, ReadAccount, ReadPage, PageFails
  <2>2. RegistryInv'
    BY <2>1, RegistryUnchanged DEF PoolInv, RegistryInv
  <2>3. HealthInv'
    BY <1>3, ReadAccountKeeps, ReadPageKeeps, PageFailsKeeps DEF GetHealth
  <2> QED
    BY <2>1, <2>2, <2>3, LedgerUnchanged DEF PoolInv
<1>4. CASE Restart
  <2>1. RegistryInv'
    <3>1. /\ registry' = {} /\ vaultCoverage' = [v \in Vaults |-> 0]
          /\ account' \in Accounts
      BY <1>4 DEF Restart, PoolInv, RegistryInv
    <3>2. ASSUME NEW v \in Vaults
          PROVE  vaultCoverage'[v] <= SumFunctionOnSet(Cover, Registered(v)')
      <4>1. Registered(v)' = {}
        BY <3>1 DEF Registered
      <4> QED
        BY <3>1, <4>1, SumEmpty
    <3> QED
      BY <3>1, <3>2 DEF RegistryInv
  <2> QED
    BY <1>4, <2>1, LedgerUnchanged, NoHealthKeeps DEF Restart, PoolInv
<1>5. CASE \E p \in Policies : RegisterPolicy(p) \/ DeregisterPolicy(p)
  <2>1. RegistryInv'
    BY <1>5, RegisterPolicyKeeps, DeregisterPolicyKeeps DEF PoolInv
  <2>2. UNCHANGED premiumVars /\ UNCHANGED health
    BY <1>5 DEF RegisterPolicy, DeregisterPolicy
  <2> QED
    BY <2>1, <2>2, LedgerUnchanged, HealthUnchanged DEF PoolInv
<1>6. CASE UNCHANGED vars
  <2>1. RegistryInv'
    BY <1>6, RegistryUnchanged DEF vars, PoolInv, RegistryInv
  <2>2. UNCHANGED premiumVars /\ UNCHANGED health
    BY <1>6 DEF vars
  <2> QED
    BY <2>1, <2>2, LedgerUnchanged, HealthUnchanged DEF PoolInv
<1> QED
  BY <1>1, <1>2, <1>3, <1>4, <1>5, <1>6 DEF Next, Environment

THEOREM PoolInvariance == Spec => []PoolInv
<1> QED
  BY PoolInitInv, PoolNextInv, PTL DEF Spec

\* The purchases, the payments, the registry and the process agree: only a purchase of
\* one policy has the payment that a claim asks for, and no vault is credited with more
\* than the policies registered for it cover (purchase_multi_vault_coverage,
\* register_policy, deregister_policy).
THEOREM PoolTypeCorrect == Spec => []TypeOK
<1>1. PoolInv => TypeOK
  <2> SUFFICES ASSUME PoolInv PROVE TypeOK
    OBVIOUS
  <2>1. \A premium \in paid :
          /\ premium.for \in Batch /\ premium.first \in premium.for
          /\ \A p \in premium.for : HasMatchingPremium(p) <=> premium.for = {p}
    BY MatchingOfOne DEF PoolInv, LedgerInv, BuiltInv, Together
  <2>2. ASSUME NEW i \in 1..Len(payments) PROVE payments[i].id \in Policies \cup {Placeholder}
    <3>1. payments[i] \in Memos
      BY DEF PoolInv, LedgerInv, PaymentsInv
    <3> QED
      BY <3>1 DEF Memos
  <2>3. ASSUME NEW v \in Vaults
        PROVE  vaultCoverage[v] \in 0 .. SumFunctionOnSet(Cover, {p \in registry : VaultOf[p] = v})
    <3>1. SumFunctionOnSet(Cover, Registered(v)) \in Nat
      BY RegisteredFacts DEF PoolInv, RegistryInv
    <3>2. vaultCoverage[v] \in Nat /\ vaultCoverage[v] <= SumFunctionOnSet(Cover, Registered(v))
      BY DEF PoolInv, RegistryInv
    <3> QED
      BY <3>1, <3>2 DEF Registered
  <2>4. /\ status \in [Policies -> {"new", "built", "minted", "burned"}]
        /\ \A premium \in premiums : premium.for \in Batch /\ premium.first \in premium.for
    BY DEF PoolInv, LedgerInv, BuiltInv, Together
  <2>5. /\ account \in Accounts /\ registry \subseteq Policies
        /\ health.at \in {"none", "summing", "taken"}
    BY DEF PoolInv, RegistryInv, HealthInv
  <2> QED
    BY <2>1, <2>2, <2>3, <2>4, <2>5 DEF TypeOK
<1> QED
  BY <1>1, PoolInvariance, PTL

\* Whatever is paid between the pages, a snapshot has counted each payment that was made
\* before its first page once, or, if a page failed, no more than that.
THEOREM SummedOnceHolds == Spec => []SummedOnce
<1>1. PoolInv => SummedOnce
  BY DEF PoolInv, HealthInv, TakenInv, SummedOnce
<1> QED
  BY <1>1, PoolInvariance, PTL

\* The gate of is_minting_allowed lets a licence mint on a complete snapshot only if the
\* balance that was read is the ratio of the licence's tiers over all that was owed when
\* the call began.
THEOREM GateBackedHolds == Spec => []GateBacked
<1>1. PoolInv => GateBacked
  <2> SUFFICES ASSUME PoolInv, health.at = "taken", health.complete
               PROVE  /\ IsMintingAllowed(health, "starter")
                           => 2 * health.usable >= 4 * health.owed
                      /\ \A license \in {"standard", "enterprise"} :
                           IsMintingAllowed(health, license)
                             => 2 * health.usable >= 3 * health.owed
    BY DEF GateBacked
  <2>1. /\ health.usable \in Nat /\ health.coverage \in Nat /\ health.owed \in Nat
        /\ health.tier = RiskTier(health.usable, health.coverage)
        /\ health.owed <= health.coverage
    BY DEF PoolInv, HealthInv, TakenInv
  <2>2. /\ health.tier \in {"safest", "safe", "moderate"}
             => 2 * health.usable >= 4 * health.coverage
        /\ health.tier \in {"safest", "safe", "moderate", "elevated"}
             => 2 * health.usable >= 3 * health.coverage
    BY <2>1, TierHeld
  <2>3. /\ IsMintingAllowed(health, "starter")
             => health.tier \in {"safest", "safe", "moderate"}
        /\ \A license \in {"standard", "enterprise"} :
             IsMintingAllowed(health, license)
               => health.tier \in {"safest", "safe", "moderate", "elevated"}
    BY DEF IsMintingAllowed, TierMintGates
  <2>4. 4 * health.owed <= 4 * health.coverage /\ 3 * health.owed <= 3 * health.coverage
    BY <2>1
  <2> QED
    BY <2>1, <2>2, <2>3, <2>4
<1> QED
  BY <1>1, PoolInvariance, PTL
=============================================================================
