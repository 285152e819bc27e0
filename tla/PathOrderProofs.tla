---------------------------- MODULE PathOrderProofs ----------------------------
(***************************************************************************)
(* Less is a strict total order of the paths, and a set of paths has one   *)
(* sorted list at most, however unstable the sort is.                      *)
(***************************************************************************)
EXTENDS PathOrder, FiniteSetTheorems, WellFoundedInduction, TLAPS

\* A set of natural numbers that is not empty has a least element.
LEMMA LeastNumber ==
    ASSUME NEW S \in SUBSET Nat, S # {}
    PROVE  \E n \in S : \A m \in S : n <= m
<1> DEFINE R == OpToRel(<, Nat)
<1>1. IsWellFoundedOn(R, Nat)
    BY NatLessThanWellFounded
<1>2. PICK n \in S : \A m \in S : ~(<<m, n>> \in R)
    BY <1>1, WFMin
<1>3. ASSUME NEW m \in S, m < n PROVE FALSE
    <2>1. <<m, n>> \in R
        BY <1>3 DEF OpToRel
    <2> HIDE DEF R
    <2> QED BY <1>2, <2>1
<1> HIDE DEF R
<1>4. \A m \in S : n <= m
    BY <1>3
<1> QED BY <1>4

\* The length of a Sorter is a number: it has finitely many characters.
LEMMA SorterLenIsNat ==
    ASSUME NEW p \in Path
    PROVE  SorterLen(p) \in Nat
<1> DEFINE D == DOMAIN p
           Of == [i \in D |-> {i} \X (0 .. NameLen[p[i]])]
           All == {{i} \X (0 .. NameLen[p[i]]) : i \in D}
<1>1. D = 1 .. Len(p) /\ Len(p) \in Nat
    BY DEF Path
<1>2. IsFiniteSet(D)
    BY <1>1, FS_Interval
<1>3. ASSUME NEW i \in D PROVE IsFiniteSet({i} \X (0 .. NameLen[p[i]]))
    <2>1. NameLen[p[i]] \in Nat
        BY <1>1, NameLenAssumption DEF Path
    <2>2. IsFiniteSet(0 .. NameLen[p[i]])
        BY <2>1, FS_Interval
    <2>3. IsFiniteSet({i})
        BY FS_Singleton
    <2> QED BY <2>2, <2>3, FS_Product
<1>4. Of \in Surjection(D, All)
    BY DEF Surjection
<1>5. IsFiniteSet(All)
    <2> HIDE DEF D, Of, All
    <2> QED BY <1>2, <1>4, FS_Surjection
<1>6. IsFiniteSet(UNION All)
    <2>1. \A T \in All : IsFiniteSet(T)
        BY <1>3
    <2> HIDE DEF All
    <2> QED BY <1>5, <2>1, FS_UNION
<1>7. IsFiniteSet(UNION All \ {<<1, 0>>})
    <2> HIDE DEF All
    <2> QED BY <1>6, FS_Subset
<1> QED BY <1>7, FS_CardinalityType DEF SorterLen, Characters

\* Two different paths differ at a first place.
LEMMA FirstDifference ==
    ASSUME NEW p \in Path, NEW q \in Path, p # q, Len(p) <= Len(q)
    PROVE  \E n \in 1 .. Len(q) :
                /\ n <= Len(p) + 1
                /\ AgreeBelow(p, q, n)
                /\ n <= Len(p) => p[n] # q[n]
<1> DEFINE S == {n \in 1 .. Len(q) : n = Len(p) + 1 \/ (n <= Len(p) /\ p[n] # q[n])}
<1>1. Len(p) \in Nat /\ Len(q) \in Nat
    BY DEF Path
<1>2. S # {}
    <2>1. CASE Len(p) < Len(q)
        BY <1>1, <2>1
    <2>2. CASE Len(p) = Len(q)
        <3>1. \E n \in 1 .. Len(p) : p[n] # q[n]
            BY <1>1, <2>2 DEF Path
        <3> QED BY <1>1, <2>2, <3>1
    <2> QED BY <1>1, <2>1, <2>2
<1>3. PICK n \in S : \A m \in S : n <= m
    <2>1. S \in SUBSET Nat
        BY <1>1
    <2> HIDE DEF S
    <2> QED BY <1>2, <2>1, LeastNumber
<1>4. AgreeBelow(p, q, n)
    <2> SUFFICES ASSUME NEW i \in 1 .. n - 1, p[i] # q[i] PROVE FALSE
        BY DEF AgreeBelow
    <2>1. i \in S
        BY <1>1, <1>3
    <2> QED BY <1>1, <1>3, <2>1
<1> QED BY <1>1, <1>3, <1>4

\* Of two different paths one comes alphabetically before the other.
LEMMA AlphabeticalTotal ==
    ASSUME NEW p \in Path, NEW q \in Path, p # q
    PROVE  Alphabetical(p, q) \/ Alphabetical(q, p)
<1>1. ASSUME NEW a \in Path, NEW b \in Path, a # b, Len(a) <= Len(b)
      PROVE  Alphabetical(a, b) \/ Alphabetical(b, a)
    <2>1. Len(a) \in Nat /\ Len(b) \in Nat
        BY DEF Path
    <2>2. PICK n \in 1 .. Len(b) :
                /\ n <= Len(a) + 1
                /\ AgreeBelow(a, b, n)
                /\ n <= Len(a) => a[n] # b[n]
        BY <1>1, FirstDifference
    <2>3. AgreeBelow(b, a, n)
        BY <2>2 DEF AgreeBelow
    <2>4. CASE n > Len(a)
        BY <2>1, <2>2, <2>4 DEF Alphabetical
    <2>5. CASE n <= Len(a)
        <3>1. a[n] \in Interfaces /\ b[n] \in Interfaces /\ a[n] # b[n]
            BY <2>1, <2>2, <2>5 DEF Path
        <3>2. NameRank[a[n]] \in Nat /\ NameRank[b[n]] \in Nat /\ NameRank[a[n]] # NameRank[b[n]]
            BY <3>1, NameRankAssumption DEF Injection, IsInjective
        <3>3. CASE NameRank[a[n]] < NameRank[b[n]]
            BY <2>1, <2>2, <3>3 DEF Alphabetical
        <3>4. CASE NameRank[b[n]] < NameRank[a[n]]
            BY <2>1, <2>2, <2>3, <2>5, <3>4 DEF Alphabetical
        <3> QED BY <3>2, <3>3, <3>4
    <2> QED BY <2>1, <2>2, <2>4, <2>5
<1>2. Len(p) \in Nat /\ Len(q) \in Nat
    BY DEF Path
<1>3. CASE Len(p) <= Len(q)
    BY <1>1, <1>3
<1>4. CASE Len(q) <= Len(p)
    BY <1>1, <1>4
<1> QED BY <1>2, <1>3, <1>4

\* The alphabetical order leads never back, and is transitive.
LEMMA AlphabeticalTransitive ==
    ASSUME NEW p \in Path, NEW q \in Path, NEW r \in Path,
           Alphabetical(p, q), Alphabetical(q, r)
    PROVE  Alphabetical(p, r)
<1>1. Len(p) \in Nat /\ Len(q) \in Nat /\ Len(r) \in Nat
    BY DEF Path
<1>2. PICK m \in 1 .. Len(q) : /\ m <= Len(p) + 1
                               /\ AgreeBelow(p, q, m)
                               /\ m <= Len(p) => NameRank[p[m]] < NameRank[q[m]]
    BY DEF Alphabetical
<1>3. PICK n \in 1 .. Len(r) : /\ n <= Len(q) + 1
                               /\ AgreeBelow(q, r, n)
                               /\ n <= Len(q) => NameRank[q[n]] < NameRank[r[n]]
    BY DEF Alphabetical
<1>4. \A i \in 1 .. Len(p) : NameRank[p[i]] \in Nat
    BY NameRankAssumption DEF Injection, Path
<1>5. \A i \in 1 .. Len(q) : NameRank[q[i]] \in Nat
    BY NameRankAssumption DEF Injection, Path
<1>6. \A i \in 1 .. Len(r) : NameRank[r[i]] \in Nat
    BY NameRankAssumption DEF Injection, Path
<1>7. CASE m < n
    <2>1. q[m] = r[m] /\ m \in 1 .. Len(r)
        BY <1>1, <1>2, <1>3, <1>7 DEF AgreeBelow
    <2>2. AgreeBelow(p, r, m)
        BY <1>1, <1>2, <1>3, <1>7 DEF AgreeBelow
    <2> QED BY <1>2, <2>1, <2>2 DEF Alphabetical
<1>8. CASE n < m
    <2>1. p[n] = q[n] /\ n <= Len(p) + 1 /\ n <= Len(q)
        BY <1>1, <1>2, <1>3, <1>8 DEF AgreeBelow
    <2>2. AgreeBelow(p, r, n)
        BY <1>1, <1>2, <1>3, <1>8 DEF AgreeBelow
    <2> QED BY <1>3, <2>1, <2>2 DEF Alphabetical
<1>9. CASE n = m
    <2>1. AgreeBelow(p, r, m)
        BY <1>1, <1>2, <1>3, <1>9 DEF AgreeBelow
    <2>2. m <= Len(p) => NameRank[p[m]] < NameRank[r[m]]
        BY <1>1, <1>2, <1>3, <1>4, <1>5, <1>6, <1>9
    <2> QED BY <1>1, <1>2, <1>3, <1>9, <2>1, <2>2 DEF Alphabetical
<1> QED BY <1>1, <1>2, <1>3, <1>7, <1>8, <1>9

\* No path comes before itself.
LEMMA AlphabeticalIrreflexive ==
    ASSUME NEW p \in Path
    PROVE  ~Alphabetical(p, p)
<1> SUFFICES ASSUME Alphabetical(p, p) PROVE FALSE
    OBVIOUS
<1>1. PICK n \in 1 .. Len(p) : n <= Len(p) => NameRank[p[n]] < NameRank[p[n]]
    BY DEF Alphabetical
<1>2. Len(p) \in Nat /\ NameRank[p[n]] \in Nat
    BY NameRankAssumption DEF Injection, Path
<1> QED BY <1>1, <1>2

\* The comparison of SortPartsPaths is a strict order, as sort.Slice demands,
\* and leaves no two different paths undecided.
THEOREM LessIsStrictTotal ==
    /\ \A p \in Path : ~Less(p, p)
    /\ \A p, q, r \in Path : Less(p, q) /\ Less(q, r) => Less(p, r)
    /\ \A p, q \in Path : p = q \/ Less(p, q) \/ Less(q, p)
<1>1. \A p \in Path : SorterLen(p) \in Nat
    BY SorterLenIsNat
<1>2. ASSUME NEW p \in Path PROVE ~Less(p, p)
    BY <1>1, AlphabeticalIrreflexive DEF Less
<1>3. ASSUME NEW p \in Path, NEW q \in Path, NEW r \in Path, Less(p, q), Less(q, r)
      PROVE  Less(p, r)
    <2>1. SorterLen(p) \in Nat /\ SorterLen(q) \in Nat /\ SorterLen(r) \in Nat
        BY <1>1
    <2>2. Alphabetical(p, q) /\ Alphabetical(q, r) => Alphabetical(p, r)
        BY AlphabeticalTransitive
    <2> QED BY <1>3, <2>1, <2>2 DEF Less
<1>4. ASSUME NEW p \in Path, NEW q \in Path, p # q PROVE Less(p, q) \/ Less(q, p)
    <2>1. SorterLen(p) \in Nat /\ SorterLen(q) \in Nat
        BY <1>1
    <2>2. Alphabetical(p, q) \/ Alphabetical(q, p)
        BY <1>4, AlphabeticalTotal
    <2> QED BY <2>1, <2>2 DEF Less
<1> QED BY <1>2, <1>3, <1>4

\* A list in SortPartsPaths names each of the paths once.
LEMMA SortedIsInjective ==
    ASSUME NEW P, IsFiniteSet(P), NEW l \in SortPartsPaths(P)
    PROVE  /\ l \in [1 .. Cardinality(P) -> P]
           /\ Cardinality(P) \in Nat
           /\ \A i, j \in 1 .. Cardinality(P) : l[i] = l[j] => i = j
           /\ \A x \in P : \E i \in 1 .. Cardinality(P) : l[i] = x
<1> DEFINE n == Cardinality(P)
<1>1. n \in Nat
    BY FS_CardinalityType
<1>2. l \in [1 .. n -> P] /\ Range(l) = P
    BY DEF SortPartsPaths
<1>3. \A x \in P : \E i \in 1 .. n : l[i] = x
    BY <1>2 DEF Range
<1>4. l \in Surjection(1 .. n, P)
    BY <1>2, <1>3 DEF Surjection
<1>5. IsFiniteSet(1 .. n) /\ Cardinality(1 .. n) = n
    BY <1>1, FS_Interval
<1>6. l \in Injection(1 .. n, P)
    <2> HIDE DEF n
    <2>1. Cardinality(P) = n
        BY DEF n
    <2> QED BY <1>4, <1>5, <2>1, FS_SurjSameCardinalityImpliesInj
<1> QED BY <1>1, <1>2, <1>3, <1>6 DEF Injection, IsInjective

\* Whatever order the daemon gives its paths in, and although sort.Slice is
\* not stable, the sorted list of a set of paths is determined.
THEOREM SortedOnce ==
    ASSUME NEW P, P \subseteq Path, IsFiniteSet(P),
           NEW l \in SortPartsPaths(P), NEW m \in SortPartsPaths(P)
    PROVE  l = m
<1> DEFINE N == 1 .. Cardinality(P)
           S == {i \in N : l[i] # m[i]}
<1>1. /\ l \in [N -> P] /\ Cardinality(P) \in Nat
      /\ \A i, j \in N : l[i] = l[j] => i = j
      /\ \A x \in P : \E i \in N : l[i] = x
    BY SortedIsInjective
<1>2. /\ m \in [N -> P]
      /\ \A i, j \in N : m[i] = m[j] => i = j
      /\ \A x \in P : \E i \in N : m[i] = x
    BY SortedIsInjective
<1>3. SUFFICES ASSUME l # m PROVE FALSE
    OBVIOUS
<1>4. S # {} /\ S \in SUBSET Nat
    BY <1>1, <1>2, <1>3
<1>5. PICK i \in S : \A k \in S : i <= k
    <2> HIDE DEF S
    <2> QED BY <1>4, LeastNumber
<1>6. PICK j \in N : l[j] = m[i]
    BY <1>1, <1>2, <1>5
<1>7. PICK k \in N : m[k] = l[i]
    BY <1>1, <1>2, <1>5
<1>8. i < j
    <2>1. j # i
        BY <1>5, <1>6
    <2>2. ASSUME j < i PROVE FALSE
        <3>1. l[j] = m[j]
            BY <1>1, <1>5, <1>6, <2>2
        <3> QED BY <1>1, <1>2, <1>5, <1>6, <2>1, <3>1
    <2> QED BY <1>1, <1>5, <1>6, <2>1, <2>2
<1>9. i < k
    <2>1. k # i
        BY <1>5, <1>7
    <2>2. ASSUME k < i PROVE FALSE
        <3>1. l[k] = m[k]
            BY <1>1, <1>5, <1>7, <2>2
        <3> QED BY <1>1, <1>2, <1>5, <1>7, <2>1, <3>1
    <2> QED BY <1>1, <1>5, <1>7, <2>1, <2>2
<1>10. ~Less(m[i], l[i])
    <2>1. ~Less(l[j], l[i])
        BY <1>1, <1>5, <1>8 DEF SortPartsPaths
    <2> QED BY <1>6, <2>1
<1>11. ~Less(l[i], m[i])
    <2>1. ~Less(m[k], m[i])
        BY <1>2, <1>5, <1>9 DEF SortPartsPaths
    <2> QED BY <1>7, <2>1
<1>12. l[i] \in Path /\ m[i] \in Path /\ l[i] # m[i]
    BY <1>1, <1>2, <1>5
<1> QED BY <1>10, <1>11, <1>12, LessIsStrictTotal

=============================================================================
