----------------------------- MODULE SumLemmas ------------------------------
(***************************************************************************)
(* What the ledger's and the group's proofs need to know of a sum over a   *)
(* finite set, SumFunctionOnSet(f, S).  The library's induction theorems   *)
(* take an operator; here a claim about all subsets of S is proved from a  *)
(* smallest subset that would refute it, which exists because the strict   *)
(* subset order of a finite set is well founded.  The fold picks the       *)
(* elements in an order of its own (CHOOSE): that the sum does not depend  *)
(* on it is SumRemove, from which the rest follows.                        *)
(***************************************************************************)
EXTENDS Functions, FiniteSetTheorems, TLAPS

\* The element MapThenFoldSet takes out of a set.
Pick(s) == CHOOSE x \in s: TRUE

\* g is the sum of f over every subset of S, by recursion.
Unfolds(g, f, S) ==
    g = [s \in SUBSET S |-> IF s = {} THEN 0 ELSE f[Pick(s)] + g[s \ {Pick(s)}]]

Smaller(s, t) == s \subseteq t /\ s # t

\* A nonempty collection of subsets of a finite set has a smallest one.
LEMMA MinimalSubset ==
    ASSUME NEW S, IsFiniteSet(S), NEW T, T \subseteq SUBSET S, T # {}
    PROVE \E x \in T: \A y \in T: ~Smaller(y, x)
<1>1. IsWellFoundedOn(StrictSubsetOrdering(S), SUBSET S)
    BY FS_StrictSubsetOrderingWellFounded, FS_FiniteSubsetsOfFinite
<1>2. PICK x \in T: \A y \in T: ~(<<y, x>> \in StrictSubsetOrdering(S))
    BY <1>1, WFMin
<1>3. \A y \in T: Smaller(y, x) => <<y, x>> \in StrictSubsetOrdering(S)
    BY DEF StrictSubsetOrdering, Smaller
<1> QED BY <1>2, <1>3

\* The element the fold takes out of a set is one of its elements.
LEMMA PickIn == ASSUME NEW s, s # {} PROVE Pick(s) \in s
BY DEF Pick

\* The recursive function behind the fold is determined wherever it is defined.
LEMMA UnfoldsUnique ==
    ASSUME NEW f, NEW S, IsFiniteSet(S), NEW a \in SUBSET S, NEW b \in SUBSET S,
           NEW g, Unfolds(g, f, a), NEW h, Unfolds(h, f, b),
           NEW s \in SUBSET (a \cap b)
    PROVE g[s] = h[s]
<1> DEFINE T == {t \in SUBSET (a \cap b): g[t] # h[t]}
<1>1. SUFFICES ASSUME T # {} PROVE FALSE
    OBVIOUS
<1>2. T \subseteq SUBSET S
    OBVIOUS
<1>3. PICK x \in T: \A y \in T: ~Smaller(y, x)
    <2> HIDE DEF T
    <2> QED BY <1>1, <1>2, MinimalSubset
<1>4. x # {}
    BY DEF Unfolds
<1> DEFINE y == x \ {Pick(x)}
<1>5. y \in SUBSET (a \cap b) /\ Smaller(y, x)
    BY <1>4, PickIn DEF Smaller
<1>6. g[y] = h[y]
    BY <1>3, <1>5
<1>7. g[x] = f[Pick(x)] + g[y]
    BY <1>4 DEF Unfolds
<1>8. h[x] = f[Pick(x)] + h[y]
    BY <1>4 DEF Unfolds
<1> QED BY <1>6, <1>7, <1>8

\* That recursive function exists, over all subsets of a finite set.
LEMMA UnfoldsExists ==
    ASSUME NEW f, NEW S, IsFiniteSet(S)
    PROVE \E g: Unfolds(g, f, S)
<1> DEFINE T == {t \in SUBSET S: ~\E g: Unfolds(g, f, t)}
<1>1. SUFFICES ASSUME T # {} PROVE FALSE
    OBVIOUS
<1>2. T \subseteq SUBSET S
    OBVIOUS
<1>3. PICK x \in T: \A y \in T: ~Smaller(y, x)
    <2> HIDE DEF T
    <2> QED BY <1>1, <1>2, MinimalSubset
<1> DEFINE Of(y) == CHOOSE g: Unfolds(g, f, y)
           Rest(s) == s \ {Pick(s)}
           G == [s \in SUBSET x |-> IF s = {} THEN 0 ELSE f[Pick(s)] + Of(Rest(s))[Rest(s)]]
<1>4. \A s \in SUBSET x: s # {} => Rest(s) \in SUBSET x /\ Smaller(Rest(s), x)
    BY PickIn DEF Smaller
<1>5. \A y \in SUBSET x: Smaller(y, x) => Unfolds(Of(y), f, y)
    BY <1>3
<1>6. \A s \in SUBSET x: s # {} => G[Rest(s)] = Of(Rest(s))[Rest(s)]
    <2> TAKE s \in SUBSET x
    <2> HAVE s # {}
    <2> DEFINE y == Rest(s)
    <2>0. y \in SUBSET x /\ Unfolds(Of(y), f, y)
        BY <1>4, <1>5
    <2>1. CASE y = {}
        BY <2>0, <2>1 DEF Unfolds
    <2>2. CASE y # {}
        <3>0. Rest(y) \in SUBSET x /\ Smaller(Rest(y), x) /\ Rest(y) \subseteq y
            BY <1>4, <2>0, <2>2
        <3>a. Unfolds(Of(Rest(y)), f, Rest(y))
            BY <3>0, <1>5
        <3>1. Of(y)[y] = f[Pick(y)] + Of(y)[Rest(y)]
            <4> HIDE DEF Of
            <4> QED BY <2>0, <2>2 DEF Unfolds
        <3>2. Of(y)[Rest(y)] = Of(Rest(y))[Rest(y)]
            <4> HIDE DEF Of
            <4> QED BY <2>0, <3>0, <3>a, UnfoldsUnique, x \in SUBSET S
        <3>3. G[y] = f[Pick(y)] + Of(Rest(y))[Rest(y)]
            <4> HIDE DEF Of
            <4> QED BY <2>0, <2>2
        <3> QED BY <3>1, <3>2, <3>3
    <2> QED BY <2>1, <2>2
<1>7. Unfolds(G, f, x)
    <2> HIDE DEF Of
    <2> QED BY <1>6 DEF Unfolds
<1> QED BY <1>7

\* The library's fold is the recursive function.
LEMMA SumIs ==
    ASSUME NEW f, NEW S
    PROVE SumFunctionOnSet(f, S) = (CHOOSE g: Unfolds(g, f, S))[S]
BY DEF SumFunctionOnSet, FoldFunctionOnSet, MapThenFoldSet, Unfolds, Pick

\* Induction over a finite set, for a claim that is given as a set of sets.
LEMMA SubsetInduction ==
    ASSUME NEW S, IsFiniteSet(S), NEW G, {} \in G,
           \A t \in SUBSET S: \A x \in t: t \ {x} \in G => t \in G
    PROVE S \in G
<1> DEFINE T == {t \in SUBSET S: t \notin G}
<1>1. SUFFICES ASSUME T # {} PROVE FALSE
    OBVIOUS
<1>2. PICK t \in T: \A y \in T: ~Smaller(y, t)
    <2>1. T \subseteq SUBSET S
        OBVIOUS
    <2> HIDE DEF T
    <2> QED BY <1>1, <2>1, MinimalSubset
<1>3. PICK x \in t: TRUE
    OBVIOUS
<1>4. t \ {x} \in G
    BY <1>2, <1>3 DEF Smaller
<1> QED BY <1>3, <1>4

\* The sum is the value of some function that satisfies the recursion.
LEMMA SumUnfolds ==
    ASSUME NEW f, NEW S, IsFiniteSet(S)
    PROVE \E g: Unfolds(g, f, S) /\ SumFunctionOnSet(f, S) = g[S]
BY SumIs, UnfoldsExists

\* The sum over nothing is 0.
LEMMA SumEmpty == \A f: SumFunctionOnSet(f, {}) = 0
<1> TAKE f
<1>1. PICK g: Unfolds(g, f, {}) /\ SumFunctionOnSet(f, {}) = g[{}]
    BY SumUnfolds, FS_EmptySet
<1> QED BY <1>1 DEF Unfolds

\* The sum is the value at the element the fold takes, and the sum over the rest.
LEMMA SumPick ==
    ASSUME NEW f, NEW S, IsFiniteSet(S), S # {}
    PROVE SumFunctionOnSet(f, S) = f[Pick(S)] + SumFunctionOnSet(f, S \ {Pick(S)})
<1> DEFINE R == S \ {Pick(S)}
<1>1. PICK g: Unfolds(g, f, S) /\ SumFunctionOnSet(f, S) = g[S]
    BY SumUnfolds
<1>2. IsFiniteSet(R)
    BY FS_Subset
<1>3. PICK h: Unfolds(h, f, R) /\ SumFunctionOnSet(f, R) = h[R]
    BY SumUnfolds, <1>2
<1>4. g[R] = h[R]
    <2>1. R \in SUBSET S /\ R \in SUBSET (S \cap R)
        OBVIOUS
    <2> HIDE DEF R
    <2> QED BY <1>1, <1>3, <2>1, UnfoldsUnique
<1>5. g[S] = f[Pick(S)] + g[R]
    BY <1>1 DEF Unfolds
<1> QED BY <1>1, <1>3, <1>4, <1>5

\* A sum of integers is an integer.
LEMMA SumInt ==
    ASSUME NEW f, NEW S, IsFiniteSet(S), \A x \in S: f[x] \in Int
    PROVE SumFunctionOnSet(f, S) \in Int
<1> DEFINE T == {t \in SUBSET S: SumFunctionOnSet(f, t) \notin Int}
<1>1. SUFFICES ASSUME T # {} PROVE FALSE
    OBVIOUS
<1>2. PICK t \in T: \A y \in T: ~Smaller(y, t)
    <2>1. T \subseteq SUBSET S
        OBVIOUS
    <2> HIDE DEF T
    <2> QED BY <1>1, <2>1, MinimalSubset
<1>3. t # {}
    BY SumEmpty
<1>4. Pick(t) \in t /\ IsFiniteSet(t)
    BY <1>3, PickIn, FS_Subset
<1>5. SumFunctionOnSet(f, t \ {Pick(t)}) \in Int
    BY <1>2, <1>4 DEF Smaller
<1>6. SumFunctionOnSet(f, t) = f[Pick(t)] + SumFunctionOnSet(f, t \ {Pick(t)})
    BY SumPick, <1>3, <1>4
<1>7. f[Pick(t)] \in Int
    BY <1>4
<1> HIDE DEF T
<1>8. SumFunctionOnSet(f, t) \in Int
    BY <1>5, <1>6, <1>7
<1> QED BY <1>8 DEF T

\* Any element can be taken out first.
LEMMA SumRemove ==
    ASSUME NEW f, NEW S, IsFiniteSet(S), \A x \in S: f[x] \in Int, NEW x \in S
    PROVE SumFunctionOnSet(f, S) = f[x] + SumFunctionOnSet(f, S \ {x})
<1> DEFINE Sum(t) == SumFunctionOnSet(f, t)
           T == {t \in SUBSET S: \E y \in t: Sum(t) # f[y] + Sum(t \ {y})}
<1>1. SUFFICES ASSUME T # {} PROVE FALSE
    OBVIOUS
<1>2. PICK t \in T: \A s \in T: ~Smaller(s, t)
    <2>1. T \subseteq SUBSET S
        OBVIOUS
    <2> HIDE DEF T
    <2> QED BY <1>1, <2>1, MinimalSubset
<1>3. PICK y \in t: Sum(t) # f[y] + Sum(t \ {y})
    OBVIOUS
<1>4. t # {} /\ t \in SUBSET S
    OBVIOUS
<1> DEFINE p == Pick(t)
<1>5. p \in t /\ IsFiniteSet(t)
    BY <1>4, PickIn, FS_Subset
<1>6. Sum(t) = f[p] + Sum(t \ {p})
    BY SumPick, <1>4, <1>5
<1>7. p # y
    BY <1>3, <1>6
<1>8. Sum(t \ {p}) = f[y] + Sum((t \ {p}) \ {y})
    <2>1. t \ {p} \in SUBSET S /\ Smaller(t \ {p}, t) /\ y \in t \ {p}
        BY <1>4, <1>5, <1>7 DEF Smaller
    <2> QED BY <1>2, <2>1
<1>9. Sum(t \ {y}) = f[p] + Sum((t \ {y}) \ {p})
    <2>1. t \ {y} \in SUBSET S /\ Smaller(t \ {y}, t) /\ p \in t \ {y}
        BY <1>4, <1>5, <1>7 DEF Smaller
    <2> QED BY <1>2, <2>1
<1>10. (t \ {p}) \ {y} = (t \ {y}) \ {p}
    OBVIOUS
<1>11. Sum((t \ {y}) \ {p}) \in Int /\ f[p] \in Int /\ f[y] \in Int
    <2>1. IsFiniteSet((t \ {y}) \ {p})
        BY <1>5, FS_Subset
    <2> QED BY <1>4, <1>5, <2>1, SumInt
<1>12. Sum((t \ {p}) \ {y}) = Sum((t \ {y}) \ {p})
    BY <1>10
<1>13. ASSUME NEW a, NEW b, NEW c, NEW d, NEW m \in Int, NEW n \in Int, NEW e \in Int,
              a = m + b, b = n + e, c = m + e
       PROVE a = n + c
    BY <1>13
<1> HIDE DEF Sum, p, T
<1> QED BY <1>3, <1>6, <1>8, <1>9, <1>11, <1>12, <1>13

\* The sum after an element has been added to the set.
LEMMA SumAdd ==
    ASSUME NEW f, NEW S, IsFiniteSet(S), NEW x, x \notin S, f[x] \in Int,
           \A y \in S: f[y] \in Int
    PROVE SumFunctionOnSet(f, S \union {x}) = SumFunctionOnSet(f, S) + f[x]
<1>1. IsFiniteSet(S \union {x}) /\ (S \union {x}) \ {x} = S
    BY FS_AddElement
<1>2. SumFunctionOnSet(f, S \union {x}) = f[x] + SumFunctionOnSet(f, (S \union {x}) \ {x})
    BY <1>1, SumRemove
<1>3. SumFunctionOnSet(f, S) \in Int
    BY SumInt
<1>4. SumFunctionOnSet(f, (S \union {x}) \ {x}) = SumFunctionOnSet(f, S)
    BY <1>1
<1> QED BY <1>2, <1>3, <1>4

\* The sum depends only on the values at the elements of the set.
LEMMA SumSame ==
    ASSUME NEW f, NEW g, NEW S, IsFiniteSet(S), \A x \in S: f[x] = g[x]
    PROVE SumFunctionOnSet(f, S) = SumFunctionOnSet(g, S)
<1> DEFINE T == {t \in SUBSET S: SumFunctionOnSet(f, t) # SumFunctionOnSet(g, t)}
<1>1. SUFFICES ASSUME T # {} PROVE FALSE
    OBVIOUS
<1>2. PICK t \in T: \A y \in T: ~Smaller(y, t)
    <2>1. T \subseteq SUBSET S
        OBVIOUS
    <2> HIDE DEF T
    <2> QED BY <1>1, <2>1, MinimalSubset
<1>3. t # {}
    BY SumEmpty
<1>4. Pick(t) \in t /\ IsFiniteSet(t) /\ f[Pick(t)] = g[Pick(t)]
    BY <1>3, PickIn, FS_Subset
<1>5. SumFunctionOnSet(f, t \ {Pick(t)}) = SumFunctionOnSet(g, t \ {Pick(t)})
    BY <1>2, <1>4 DEF Smaller
<1>6. /\ SumFunctionOnSet(f, t) = f[Pick(t)] + SumFunctionOnSet(f, t \ {Pick(t)})
      /\ SumFunctionOnSet(g, t) = g[Pick(t)] + SumFunctionOnSet(g, t \ {Pick(t)})
    BY SumPick, <1>3, <1>4
<1>7. SumFunctionOnSet(f, t) = SumFunctionOnSet(g, t)
    BY <1>4, <1>5, <1>6
<1> QED BY <1>7

\* The sum changes by as much as the only value that changes.
LEMMA SumPointChange ==
    ASSUME NEW f, NEW g, NEW S, IsFiniteSet(S), NEW x \in S,
           \A y \in S: f[y] \in Int /\ g[y] \in Int,
           \A y \in S \ {x}: f[y] = g[y]
    PROVE SumFunctionOnSet(g, S) = SumFunctionOnSet(f, S) + (g[x] - f[x])
<1> DEFINE R == S \ {x}
<1>1. IsFiniteSet(R) /\ \A y \in R: f[y] = g[y]
    BY FS_Subset
<1>2. SumFunctionOnSet(f, R) = SumFunctionOnSet(g, R)
    <2> HIDE DEF R
    <2> QED BY <1>1, SumSame
<1>3. SumFunctionOnSet(f, R) \in Int
    <2>1. \A y \in R: f[y] \in Int
        OBVIOUS
    <2> QED BY <1>1, <2>1, SumInt
<1>4. /\ SumFunctionOnSet(f, S) = f[x] + SumFunctionOnSet(f, R)
      /\ SumFunctionOnSet(g, S) = g[x] + SumFunctionOnSet(g, R)
    BY SumRemove
<1>5. f[x] \in Int /\ g[x] \in Int
    OBVIOUS
<1> HIDE DEF R
<1> QED BY <1>2, <1>3, <1>4, <1>5

\* The sum of the sums is the sum of the pointwise sums.
LEMMA SumPlus ==
    ASSUME NEW f, NEW g, NEW h, NEW S, IsFiniteSet(S),
           \A x \in S: f[x] \in Int /\ g[x] \in Int /\ h[x] = f[x] + g[x]
    PROVE SumFunctionOnSet(h, S) = SumFunctionOnSet(f, S) + SumFunctionOnSet(g, S)
<1> DEFINE Sum(k, t) == SumFunctionOnSet(k, t)
           T == {t \in SUBSET S: Sum(h, t) # Sum(f, t) + Sum(g, t)}
<1>1. SUFFICES ASSUME T # {} PROVE FALSE
    OBVIOUS
<1>2. PICK t \in T: \A y \in T: ~Smaller(y, t)
    <2>1. T \subseteq SUBSET S
        OBVIOUS
    <2> HIDE DEF T
    <2> QED BY <1>1, <2>1, MinimalSubset
<1>3. t # {}
    <2>1. t = {} => Sum(f, t) = 0 /\ Sum(g, t) = 0 /\ Sum(h, t) = 0
        BY SumEmpty
    <2>2. Sum(h, t) # Sum(f, t) + Sum(g, t)
        OBVIOUS
    <2> HIDE DEF Sum, T
    <2> QED BY <2>1, <2>2
<1> DEFINE p == Pick(t)
           r == t \ {p}
<1>4. p \in S /\ IsFiniteSet(t) /\ r \in SUBSET S /\ Smaller(r, t) /\ IsFiniteSet(r)
    BY <1>3, PickIn, FS_Subset DEF Smaller
<1>5. Sum(h, r) = Sum(f, r) + Sum(g, r)
    BY <1>2, <1>4
<1>6. /\ Sum(h, t) = h[p] + Sum(h, r)
      /\ Sum(f, t) = f[p] + Sum(f, r)
      /\ Sum(g, t) = g[p] + Sum(g, r)
    BY SumPick, <1>3, <1>4
<1>7. Sum(f, r) \in Int /\ Sum(g, r) \in Int
    BY SumInt, <1>4
<1>8. f[p] \in Int /\ g[p] \in Int /\ h[p] = f[p] + g[p]
    BY <1>4
<1>9. Sum(h, t) = Sum(f, t) + Sum(g, t)
    <2> HIDE DEF Sum, p, r, T
    <2> QED BY <1>5, <1>6, <1>7, <1>8
<1> QED BY <1>9

\* A sum of equal values is a product.
LEMMA SumConstant ==
    ASSUME NEW f, NEW c \in Int, NEW S, IsFiniteSet(S), \A x \in S: f[x] = c
    PROVE SumFunctionOnSet(f, S) = c * Cardinality(S)
<1> DEFINE Sum(t) == SumFunctionOnSet(f, t)
           T == {t \in SUBSET S: Sum(t) # c * Cardinality(t)}
<1>1. SUFFICES ASSUME T # {} PROVE FALSE
    OBVIOUS
<1>2. PICK t \in T: \A y \in T: ~Smaller(y, t)
    <2>1. T \subseteq SUBSET S
        OBVIOUS
    <2> HIDE DEF T
    <2> QED BY <1>1, <2>1, MinimalSubset
<1>3. t # {}
    BY SumEmpty, FS_EmptySet
<1> DEFINE p == Pick(t)
           r == t \ {p}
<1>4. p \in t /\ p \in S /\ IsFiniteSet(t) /\ r \in SUBSET S /\ Smaller(r, t) /\ IsFiniteSet(r)
    BY <1>3, PickIn, FS_Subset DEF Smaller
<1>5. Sum(r) = c * Cardinality(r)
    BY <1>2, <1>4
<1>6. Sum(t) = f[p] + Sum(r) /\ f[p] = c
    BY SumPick, <1>3, <1>4
<1>7. Cardinality(t) \in Nat /\ Cardinality(r) = Cardinality(t) - 1
    BY <1>4, FS_RemoveElement, FS_CardinalityType
<1>8. Sum(t) = c * Cardinality(t)
    <2>1. ASSUME NEW n \in Nat PROVE c + c * (n - 1) = c * n
        BY <2>1
    <2> HIDE DEF Sum, p, r, T
    <2> QED BY <1>5, <1>6, <1>7, <2>1
<1> QED BY <1>8

\* A sum of natural numbers is one.
LEMMA SumNat ==
    ASSUME NEW f, NEW S, IsFiniteSet(S), \A x \in S: f[x] \in Nat
    PROVE SumFunctionOnSet(f, S) \in Nat
<1> DEFINE T == {t \in SUBSET S: SumFunctionOnSet(f, t) \notin Nat}
<1>1. SUFFICES ASSUME T # {} PROVE FALSE
    OBVIOUS
<1>2. PICK t \in T: \A y \in T: ~Smaller(y, t)
    <2>1. T \subseteq SUBSET S
        OBVIOUS
    <2> HIDE DEF T
    <2> QED BY <1>1, <2>1, MinimalSubset
<1>3. t # {}
    BY SumEmpty
<1>4. Pick(t) \in t /\ IsFiniteSet(t)
    BY <1>3, PickIn, FS_Subset
<1>5. SumFunctionOnSet(f, t \ {Pick(t)}) \in Nat
    BY <1>2, <1>4 DEF Smaller
<1>6. SumFunctionOnSet(f, t) = f[Pick(t)] + SumFunctionOnSet(f, t \ {Pick(t)})
    BY SumPick, <1>3, <1>4
<1>7. f[Pick(t)] \in Nat
    BY <1>4
<1>8. SumFunctionOnSet(f, t) \in Nat
    <2> HIDE DEF T
    <2> QED BY <1>5, <1>6, <1>7
<1> QED BY <1>8

\* A sum of zeros is 0.
LEMMA SumZero ==
    ASSUME NEW f, NEW S, IsFiniteSet(S), \A x \in S: f[x] = 0
    PROVE SumFunctionOnSet(f, S) = 0
<1>1. Cardinality(S) \in Nat
    BY FS_CardinalityType
<1>2. SumFunctionOnSet(f, S) = 0 * Cardinality(S)
    <2>1. 0 \in Int
        OBVIOUS
    <2> QED BY <2>1, SumConstant, Zenon
<1> QED BY <1>1, <1>2

\* None of several natural numbers is more than their sum.
LEMMA SumAtLeast ==
    ASSUME NEW f, NEW S, IsFiniteSet(S), \A x \in S: f[x] \in Nat, NEW x \in S
    PROVE f[x] <= SumFunctionOnSet(f, S)
<1>1. IsFiniteSet(S \ {x})
    BY FS_Subset
<1>2. SumFunctionOnSet(f, S \ {x}) \in Nat
    BY <1>1, SumNat
<1>3. SumFunctionOnSet(f, S) = f[x] + SumFunctionOnSet(f, S \ {x}) /\ f[x] \in Nat
    BY SumRemove
<1> QED BY <1>2, <1>3

\* The sum over a set is the sum over the part of it where the values are not 0.
LEMMA SumSupport ==
    ASSUME NEW f, NEW S, IsFiniteSet(S), NEW T \in SUBSET S,
           \A x \in S: f[x] \in Int, \A x \in S \ T: f[x] = 0
    PROVE SumFunctionOnSet(f, S) = SumFunctionOnSet(f, T)
<1> DEFINE Sum(t) == SumFunctionOnSet(f, t)
           G == {t \in SUBSET S: Sum(t) = Sum(t \cap T)}
<1>1. {} \in G
    <2>1. {} \cap T = {} /\ {} \in SUBSET S
        OBVIOUS
    <2> QED BY <2>1
<1>2. ASSUME NEW t \in SUBSET S, NEW x \in t, t \ {x} \in G PROVE t \in G
    <2> DEFINE r == t \ {x}
    <2>1. /\ IsFiniteSet(t) /\ IsFiniteSet(t \cap T) /\ IsFiniteSet(r \cap T)
          /\ (\A y \in t: f[y] \in Int) /\ (\A y \in t \cap T: f[y] \in Int)
        BY FS_Subset
    <2>2. Sum(t) = f[x] + Sum(r) /\ Sum(r) = Sum(r \cap T)
        BY <1>2, <2>1, SumRemove
    <2>3. CASE x \in T
        <3>1. x \in t \cap T /\ (t \cap T) \ {x} = r \cap T
            BY <2>3
        <3>2. Sum(t \cap T) = f[x] + Sum((t \cap T) \ {x})
            BY <2>1, <3>1, SumRemove
        <3>3. Sum(t) = Sum(t \cap T)
            BY <2>2, <3>1, <3>2, Zenon
        <3> QED BY <3>3
    <2>4. CASE x \notin T
        <3>1. t \cap T = r \cap T /\ f[x] = 0
            BY <2>4
        <3>2. Sum(r \cap T) \in Int
            BY <2>1, SumInt
        <3>3. Sum(t \cap T) = Sum(r \cap T)
            BY <3>1, Zenon
        <3>4. Sum(t) = Sum(r \cap T)
            <4> HIDE DEF Sum
            <4> QED BY <2>2, <3>1, <3>2
        <3> QED BY <3>3, <3>4
    <2> QED BY <2>3, <2>4
<1> HIDE DEF G
<1>3. S \in G
    BY <1>1, <1>2, SubsetInduction
<1>4. S \cap T = T
    OBVIOUS
<1> QED BY <1>3, <1>4 DEF G

\* The sum grows with its values.
LEMMA SumAtMost ==
    ASSUME NEW f, NEW g, NEW S, IsFiniteSet(S),
           \A x \in S: f[x] \in Int /\ g[x] \in Int /\ f[x] <= g[x]
    PROVE SumFunctionOnSet(f, S) <= SumFunctionOnSet(g, S)
<1> DEFINE h == [x \in S |-> g[x] - f[x]]
<1>1. \A x \in S: h[x] \in Nat /\ g[x] = f[x] + h[x]
    OBVIOUS
<1> HIDE DEF h
<1>2. SumFunctionOnSet(g, S) = SumFunctionOnSet(f, S) + SumFunctionOnSet(h, S)
    BY <1>1, SumPlus
<1>3. SumFunctionOnSet(h, S) \in Nat /\ SumFunctionOnSet(f, S) \in Int
    BY <1>1, SumNat, SumInt
<1> QED BY <1>2, <1>3

\* If a sum is not less than one of values at least as large, the values are the same.
LEMMA SumTight ==
    ASSUME NEW f, NEW g, NEW S, IsFiniteSet(S),
           \A x \in S: f[x] \in Int /\ g[x] \in Int /\ f[x] <= g[x],
           SumFunctionOnSet(f, S) >= SumFunctionOnSet(g, S)
    PROVE \A x \in S: f[x] = g[x]
<1> TAKE x \in S
<1>1. IsFiniteSet(S \ {x})
    BY FS_Subset
<1>2. SumFunctionOnSet(f, S \ {x}) <= SumFunctionOnSet(g, S \ {x})
    BY <1>1, SumAtMost
<1>3. /\ SumFunctionOnSet(f, S) = f[x] + SumFunctionOnSet(f, S \ {x})
      /\ SumFunctionOnSet(g, S) = g[x] + SumFunctionOnSet(g, S \ {x})
    <2>1. (\A y \in S: f[y] \in Int) /\ (\A y \in S: g[y] \in Int)
        OBVIOUS
    <2> QED BY <2>1, SumRemove
<1>4. SumFunctionOnSet(f, S \ {x}) \in Int /\ SumFunctionOnSet(g, S \ {x}) \in Int
    BY <1>1, SumInt
<1>5. f[x] \in Int /\ g[x] \in Int /\ f[x] <= g[x]
    OBVIOUS
<1> QED BY <1>2, <1>3, <1>4, <1>5

\* The sum of c for every element of T and 0 for the others counts T.
LEMMA SumCount ==
    ASSUME NEW f, NEW c \in Int, NEW S, IsFiniteSet(S), NEW T \in SUBSET S,
           \A x \in S: f[x] = IF x \in T THEN c ELSE 0
    PROVE SumFunctionOnSet(f, S) = c * Cardinality(T)
<1>1. /\ \A x \in S: f[x] \in Int
      /\ \A x \in S \ T: f[x] = 0
      /\ \A x \in T: f[x] = c
    OBVIOUS
<1>2. SumFunctionOnSet(f, S) = SumFunctionOnSet(f, T)
    BY <1>1, SumSupport
<1>3. SumFunctionOnSet(f, T) = c * Cardinality(T)
    BY <1>1, FS_Subset, SumConstant
<1> QED BY <1>2, <1>3

\* The sum over two disjoint sets is the sum of their sums.
LEMMA SumDisjoint ==
    ASSUME NEW f, NEW S, IsFiniteSet(S), NEW T, IsFiniteSet(T), S \cap T = {},
           \A x \in S \union T: f[x] \in Int
    PROVE SumFunctionOnSet(f, S \union T) = SumFunctionOnSet(f, S) + SumFunctionOnSet(f, T)
<1> DEFINE Sum(t) == SumFunctionOnSet(f, t)
           G == {t \in SUBSET T: Sum(S \union t) = Sum(S) + Sum(t)}
<1>1. {} \in G
    <2>1. S \union {} = S /\ Sum({}) = 0 /\ Sum(S) \in Int
        BY SumEmpty, SumInt
    <2> HIDE DEF Sum
    <2> QED BY <2>1
<1>2. ASSUME NEW t \in SUBSET T, NEW x \in t, t \ {x} \in G PROVE t \in G
    <2> DEFINE r == t \ {x}
    <2>1. /\ IsFiniteSet(t) /\ IsFiniteSet(r) /\ IsFiniteSet(S \union t)
          /\ (\A y \in t: f[y] \in Int) /\ (\A y \in S \union t: f[y] \in Int)
          /\ (\A y \in S: f[y] \in Int) /\ (\A y \in r: f[y] \in Int)
        BY FS_Subset, FS_Union
    <2>2. Sum(t) = f[x] + Sum(r) /\ Sum(S \union r) = Sum(S) + Sum(r)
        BY <1>2, <2>1, SumRemove
    <2>3. (S \union t) \ {x} = S \union r /\ x \in S \union t
        BY <1>2
    <2>4. Sum(S \union t) = f[x] + Sum((S \union t) \ {x})
        BY <2>1, <2>3, SumRemove
    <2>5. Sum(S \union t) = f[x] + Sum(S \union r)
        BY <2>3, <2>4, Zenon
    <2>6. Sum(S) \in Int /\ Sum(r) \in Int /\ f[x] \in Int
        BY <1>2, <2>1, SumInt
    <2>7. Sum(S \union t) = Sum(S) + Sum(t)
        <3> HIDE DEF Sum, r
        <3> QED BY <2>2, <2>5, <2>6
    <2> QED BY <2>7
<1> HIDE DEF G
<1>3. T \in G
    BY <1>1, <1>2, SubsetInduction
<1> QED BY <1>3 DEF G

\* The sum does not depend on the names of the elements.
LEMMA SumRenamed ==
    ASSUME NEW f, NEW g, NEW h, NEW S, IsFiniteSet(S),
           \A x \in S: f[x] \in Int /\ g[h[x]] = f[x],
           \A x, y \in S: h[x] = h[y] => x = y
    PROVE SumFunctionOnSet(g, {h[x]: x \in S}) = SumFunctionOnSet(f, S)
<1> DEFINE Image(t) == {h[x]: x \in t}
           G == {t \in SUBSET S: /\ IsFiniteSet(Image(t))
                                 /\ SumFunctionOnSet(g, Image(t)) = SumFunctionOnSet(f, t)}
<1>1. {} \in G
    <2>1. Image({}) = {}
        OBVIOUS
    <2> HIDE DEF Image
    <2> QED BY <2>1, SumEmpty, FS_EmptySet
<1>2. ASSUME NEW t \in SUBSET S, NEW x \in t, t \ {x} \in G PROVE t \in G
    <2> DEFINE r == t \ {x}
    <2>1. /\ Image(t) = Image(r) \union {h[x]} /\ h[x] \notin Image(r)
          /\ (\A z \in Image(r): g[z] \in Int) /\ g[h[x]] = f[x] /\ f[x] \in Int
        BY <1>2
    <2>2. IsFiniteSet(Image(r)) /\ SumFunctionOnSet(g, Image(r)) = SumFunctionOnSet(f, r)
        BY <1>2
    <2>3. IsFiniteSet(t) /\ \A y \in t: f[y] \in Int
        BY FS_Subset
    <2>4. SumFunctionOnSet(f, t) = f[x] + SumFunctionOnSet(f, r)
        BY <2>3, SumRemove
    <2>5. SumFunctionOnSet(f, r) \in Int
        <3>1. IsFiniteSet(r) /\ \A y \in r: f[y] \in Int
            BY <2>3, FS_Subset
        <3> QED BY <3>1, SumInt
    <2> HIDE DEF Image, r
    <2>6. /\ IsFiniteSet(Image(r) \union {h[x]})
          /\ SumFunctionOnSet(g, Image(r) \union {h[x]}) = SumFunctionOnSet(g, Image(r)) + g[h[x]]
        BY <2>1, <2>2, SumAdd, FS_AddElement
    <2>7. IsFiniteSet(Image(t)) /\ SumFunctionOnSet(g, Image(t)) = SumFunctionOnSet(f, t)
        <3>1. SumFunctionOnSet(g, Image(t)) = SumFunctionOnSet(g, Image(r)) + g[h[x]]
            BY <2>1, <2>6, Zenon
        <3>2. IsFiniteSet(Image(t))
            BY <2>1, <2>6, Zenon
        <3>3. SumFunctionOnSet(g, Image(r)) + g[h[x]] = SumFunctionOnSet(f, r) + f[x]
            BY <2>1, <2>2
        <3> QED BY <2>1, <2>4, <2>5, <3>1, <3>2, <3>3
    <2> QED BY <2>7
<1>3. S \in G
    <2> HIDE DEF G
    <2> QED BY <1>1, <1>2, SubsetInduction
<1> QED BY <1>3

=============================================================================
