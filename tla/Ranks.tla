------------------------------- MODULE Ranks -------------------------------
(***************************************************************************)
(* Facts about finite sets: every rank up to the size of a set of numbers  *)
(* is taken, for the lists of ids the screens pick rows from; induction up *)
(* to a number; and what the sum of a function over a set is, for the      *)
(* statistics screen.                                                      *)
(***************************************************************************)
EXTENDS Integers, FiniteSets, FiniteSetTheorems, WellFoundedInduction, TLAPS

\* The ranks of the elements are distinct numbers between 1 and the size of the
\* set, and as many as the set has elements; so they are all of these numbers.
LEMMA RankTaken ==
    ASSUME NEW S \in SUBSET Nat, IsFiniteSet(S), NEW i \in 1 .. Cardinality(S)
    PROVE  \E t \in S : Cardinality({u \in S : u <= t}) = i
<1> DEFINE Upto(t) == {u \in S : u <= t}
           n == Cardinality(S)
           rank == [t \in S |-> Cardinality(Upto(t))]
           R == {rank[t] : t \in S}
<1>1. n \in Nat
    BY FS_CardinalityType
<1>2. \A t \in S : /\ IsFiniteSet(Upto(t)) /\ Cardinality(Upto(t)) \in Nat
                   /\ Cardinality(Upto(t)) <= n
    <2> SUFFICES ASSUME NEW t \in S
                 PROVE  /\ IsFiniteSet(Upto(t)) /\ Cardinality(Upto(t)) \in Nat
                        /\ Cardinality(Upto(t)) <= n
        OBVIOUS
    <2>1. Upto(t) \in SUBSET S
        OBVIOUS
    <2> QED BY <2>1, FS_Subset, FS_CardinalityType
<1>3. \A t \in S : rank[t] \in 1 .. n
    <2> SUFFICES ASSUME NEW t \in S PROVE rank[t] \in 1 .. n
        OBVIOUS
    <2>1. t \in Upto(t)
        OBVIOUS
    <2>2. Cardinality(Upto(t)) # 0
        <3> HIDE DEF Upto
        <3> QED BY <1>2, <2>1, FS_EmptySet
    <2>3. rank[t] = Cardinality(Upto(t))
        OBVIOUS
    <2> HIDE DEF n, Upto, rank
    <2> QED BY <1>1, <1>2, <2>2, <2>3
<1>4. ASSUME NEW t \in S, NEW v \in S, t < v
      PROVE  rank[t] # rank[v]
    <2>1. Upto(t) \in SUBSET Upto(v) /\ v \in Upto(v) /\ v \notin Upto(t)
        <3>1. t \in Nat /\ v \in Nat /\ \A u \in S : u \in Nat
            OBVIOUS
        <3>2. \A u \in S : u <= t => u <= v
            BY <1>4, <3>1
        <3>3. v <= v /\ ~ (v <= t)
            BY <1>4, <3>1
        <3>4. Upto(t) \in SUBSET Upto(v)
            BY <3>2, Zenon
        <3>5. v \in Upto(v) /\ v \notin Upto(t)
            BY <1>4, <3>3, Zenon
        <3> QED BY <3>4, <3>5
    <2>2. rank[t] = Cardinality(Upto(t)) /\ rank[v] = Cardinality(Upto(v))
        OBVIOUS
    <2> HIDE DEF Upto, rank
    <2>3. Cardinality(Upto(v)) = Cardinality(Upto(t)) => Upto(v) = Upto(t)
        BY <1>2, <2>1, FS_Subset
    <2> QED BY <2>1, <2>2, <2>3
<1>5. rank \in Bijection(S, R)
    <2>1. \A t, v \in S : t # v => rank[t] # rank[v]
        BY <1>4
    <2>2. rank \in [S -> R] /\ \A r \in R : \E t \in S : rank[t] = r
        OBVIOUS
    <2> HIDE DEF rank, R
    <2> QED BY <2>1, <2>2 DEF Bijection, Injection, Surjection, IsInjective
<1>6. IsFiniteSet(R) /\ Cardinality(R) = n
    <2> HIDE DEF rank, R
    <2> QED BY <1>5, FS_Bijection DEF ExistsBijection
<1>7. R \in SUBSET (1 .. n)
    BY <1>3
<1>8. IsFiniteSet(1 .. n) /\ Cardinality(1 .. n) = n
    <2> HIDE DEF n
    <2> QED BY <1>1, FS_Interval
<1>9. R = 1 .. n
    <2> HIDE DEF R, n
    <2> QED BY <1>6, <1>7, <1>8, FS_Subset
<1> QED BY <1>9

\* Induction up to n, over a set I of numbers: the property to prove is that a
\* number is in I.
LEMMA SetInduction ==
    ASSUME NEW n \in Nat, NEW I, 0 \in I, \A i \in Nat : i < n /\ i \in I => i + 1 \in I
    PROVE  \A i \in 0 .. n : i \in I
<1> DEFINE T == {i \in 0 .. n : i \notin I}
           R == {ss \in Nat \X Nat : ss[1] < ss[2]}
<1>1. SUFFICES ASSUME T # {} PROVE FALSE
    OBVIOUS
<1>2. IsWellFoundedOn(R, Nat)
    BY NatLessThanWellFounded DEF OpToRel
<1>3. PICK x \in T : \A y \in T : ~(<<y, x>> \in R)
    <2>1. T \subseteq Nat
        OBVIOUS
    <2> HIDE DEF T, R
    <2> QED BY <1>1, <1>2, <2>1, WFMin
<1>4. x \in Nat /\ x # 0 /\ x <= n /\ x \notin I
    OBVIOUS
<1>5. x - 1 \in 0 .. n /\ x - 1 < x
    BY <1>4
<1>6. <<x - 1, x>> \in R
    BY <1>4, <1>5
<1>7. x - 1 \in I
    BY <1>3, <1>5, <1>6
<1> QED BY <1>4, <1>5, <1>7
----------------------------------------------------------------------------
(* Sums.                                                                    *)

\* F adds up g over the subsets of S the way MapThenSumSet does.
Pick(s) == CHOOSE x \in s : TRUE
SumsUp(F, g, S) ==
    F = [s \in SUBSET S |-> IF s = {} THEN 0 ELSE g[Pick(s)] + F[s \ {Pick(s)}]]

LEMMA PickIsIn ==
    ASSUME NEW s, s # {}
    PROVE  Pick(s) \in s
BY DEF Pick

LEMMA SubsetSize ==
    ASSUME NEW S, IsFiniteSet(S), NEW s \in SUBSET S
    PROVE  /\ IsFiniteSet(s) /\ Cardinality(s) \in Nat /\ Cardinality(s) <= Cardinality(S)
           /\ Cardinality(s) = 0 <=> s = {}
<1>1. IsFiniteSet(s) /\ Cardinality(s) <= Cardinality(S)
    BY FS_Subset
<1> QED BY <1>1, FS_CardinalityType, FS_EmptySet

\* Taking the picked element away leaves a smaller subset.
LEMMA Smaller ==
    ASSUME NEW S, IsFiniteSet(S), NEW s \in SUBSET S, s # {}
    PROVE  /\ Pick(s) \in s /\ Pick(s) \in S /\ s \ {Pick(s)} \in SUBSET S
           /\ IsFiniteSet(s) /\ Cardinality(s) \in Nat \ {0}
           /\ IsFiniteSet(s \ {Pick(s)})
           /\ Cardinality(s \ {Pick(s)}) = Cardinality(s) - 1
<1>1. Pick(s) \in s
    BY PickIsIn
<1>2. IsFiniteSet(s)
    BY FS_Subset
<1> QED BY <1>1, <1>2, FS_RemoveElement, FS_EmptySet, FS_CardinalityType

\* There is such an F: it is built for ever larger subsets.
LEMMA SumExists ==
    ASSUME NEW S, IsFiniteSet(S), NEW g
    PROVE  \E F : SumsUp(F, g, S)
<1> DEFINE Upto(F, n) ==
               F = [s \in SUBSET S |->
                       IF s = {} \/ Cardinality(s) > n THEN 0
                       ELSE g[Pick(s)] + F[s \ {Pick(s)}]]
           I == {n \in Nat : \E F : Upto(F, n)}
           N == Cardinality(S)
<1>0. N \in Nat
    BY FS_CardinalityType
<1>1. ASSUME NEW s \in SUBSET S
      PROVE  /\ Cardinality(s) \in Nat /\ Cardinality(s) <= N
             /\ Cardinality(s) = 0 <=> s = {}
    BY SubsetSize
<1>2. 0 \in I
    <2>1. Upto([s \in SUBSET S |-> 0], 0)
        BY <1>1
    <2> QED BY <2>1
<1>3. ASSUME NEW n \in Nat, n \in I
      PROVE  n + 1 \in I
    <2>1. PICK F : Upto(F, n)
        BY <1>3
    <2> DEFINE G == [s \in SUBSET S |->
                        IF s = {} \/ Cardinality(s) > n + 1 THEN 0
                        ELSE g[Pick(s)] + F[s \ {Pick(s)}]]
    <2>2. ASSUME NEW s \in SUBSET S, Cardinality(s) <= n
          PROVE  G[s] = F[s]
        <3>1. ~(Cardinality(s) > n) /\ ~(Cardinality(s) > n + 1)
            BY <1>1, <2>2
        <3> QED BY <2>1, <3>1
    <2>3. ASSUME NEW s \in SUBSET S, s # {}, Cardinality(s) <= n + 1
          PROVE  s \ {Pick(s)} \in SUBSET S /\ Cardinality(s \ {Pick(s)}) <= n
        <3>1. /\ s \ {Pick(s)} \in SUBSET S /\ Cardinality(s) \in Nat
              /\ Cardinality(s \ {Pick(s)}) = Cardinality(s) - 1
            BY <2>3, Smaller
        <3> HIDE DEF Upto
        <3> QED BY <2>3, <3>1
    <2>4. \A s \in SUBSET S :
              G[s] = IF s = {} \/ Cardinality(s) > n + 1 THEN 0
                     ELSE g[Pick(s)] + G[s \ {Pick(s)}]
        <3> SUFFICES ASSUME NEW s \in SUBSET S, s # {}, ~(Cardinality(s) > n + 1)
                     PROVE  G[s] = g[Pick(s)] + G[s \ {Pick(s)}]
            OBVIOUS
        <3>1. Cardinality(s) <= n + 1
            BY <1>1
        <3>2. G[s \ {Pick(s)}] = F[s \ {Pick(s)}]
            <4> HIDE DEF G
            <4> QED BY <2>2, <2>3, <3>1
        <3> QED BY <3>1, <3>2
    <2>5. Upto(G, n + 1)
        BY <2>4
    <2> HIDE DEF G, Upto
    <2> QED BY <2>5
<1>4. N \in I
    <2>1. \A i \in 0 .. N : i \in I
        <3> HIDE DEF I, N
        <3> QED BY <1>0, <1>2, <1>3, SetInduction
    <2> HIDE DEF I, N
    <2> QED BY <1>0, <2>1
<1>5. PICK F : Upto(F, N)
    BY <1>4
<1>6. SumsUp(F, g, S)
    <2>1. \A s \in SUBSET S : ~(Cardinality(s) > N)
        BY <1>1
    <2> HIDE DEF N
    <2> QED BY <1>5, <2>1 DEF SumsUp
<1> QED BY <1>6

\* The larger terms have the larger sum.
LEMMA SumsCompare ==
    ASSUME NEW S, IsFiniteSet(S), NEW g, NEW h, NEW F, NEW G,
           SumsUp(F, g, S), SumsUp(G, h, S),
           \A x \in S : g[x] \in Int /\ h[x] \in Int /\ g[x] <= h[x]
    PROVE  F[S] \in Int /\ G[S] \in Int /\ F[S] <= G[S]
<1> DEFINE OK(s) == F[s] \in Int /\ G[s] \in Int /\ F[s] <= G[s]
           I == {n \in Nat : \A s \in SUBSET S : Cardinality(s) = n => OK(s)}
           N == Cardinality(S)
<1>0. N \in Nat
    BY FS_CardinalityType
<1>1. \A s \in SUBSET S :
          /\ F[s] = IF s = {} THEN 0 ELSE g[Pick(s)] + F[s \ {Pick(s)}]
          /\ G[s] = IF s = {} THEN 0 ELSE h[Pick(s)] + G[s \ {Pick(s)}]
    BY DEF SumsUp
<1>2. 0 \in I
    <2>1. \A s \in SUBSET S : Cardinality(s) = 0 => s = {}
        BY SubsetSize
    <2>2. OK({})
        BY <1>1
    <2> HIDE DEF OK
    <2> QED BY <2>1, <2>2
<1>3. ASSUME NEW n \in Nat, n \in I
      PROVE  n + 1 \in I
    <2> SUFFICES ASSUME NEW s \in SUBSET S, Cardinality(s) = n + 1
                 PROVE  OK(s)
        OBVIOUS
    <2>1. s # {}
        BY SubsetSize
    <2>2. /\ Pick(s) \in S /\ s \ {Pick(s)} \in SUBSET S
          /\ Cardinality(s \ {Pick(s)}) = n
        BY <2>1, Smaller
    <2>3. OK(s \ {Pick(s)})
        BY <1>3, <2>2
    <2> DEFINE t == s \ {Pick(s)}
    <2>4. /\ F[s] = g[Pick(s)] + F[t] /\ G[s] = h[Pick(s)] + G[t]
          /\ g[Pick(s)] \in Int /\ h[Pick(s)] \in Int /\ g[Pick(s)] <= h[Pick(s)]
        BY <1>1, <2>1, <2>2
    <2>5. F[t] \in Int /\ G[t] \in Int /\ F[t] <= G[t]
        BY <2>3
    <2> HIDE DEF t
    <2> QED BY <2>4, <2>5
<1>4. N \in I
    <2>1. \A i \in 0 .. N : i \in I
        <3> HIDE DEF I, N
        <3> QED BY <1>0, <1>2, <1>3, SetInduction
    <2> HIDE DEF I, N
    <2> QED BY <1>0, <2>1
<1> QED BY <1>4

\* The sum of the sizes of disjoint sets is the size of their union.
LEMMA SumsCount ==
    ASSUME NEW S, IsFiniteSet(S), NEW g, NEW F, SumsUp(F, g, S), NEW A,
           \A x \in S : IsFiniteSet(A[x]) /\ g[x] = Cardinality(A[x]),
           \A x, y \in S : x # y => A[x] \cap A[y] = {}
    PROVE  F[S] = Cardinality(UNION {A[x] : x \in S})
<1> DEFINE All(s) == UNION {A[x] : x \in s}
           OK(s) == IsFiniteSet(All(s)) /\ F[s] = Cardinality(All(s))
           I == {n \in Nat : \A s \in SUBSET S : Cardinality(s) = n => OK(s)}
           N == Cardinality(S)
<1>0. N \in Nat
    BY FS_CardinalityType
<1>1. \A s \in SUBSET S : F[s] = IF s = {} THEN 0 ELSE g[Pick(s)] + F[s \ {Pick(s)}]
    BY DEF SumsUp
<1>2. 0 \in I
    <2>1. \A s \in SUBSET S : Cardinality(s) = 0 => s = {}
        BY SubsetSize
    <2>2. All({}) = {}
        OBVIOUS
    <2>3. OK({})
        BY <1>1, <2>2, FS_EmptySet
    <2> HIDE DEF OK
    <2> QED BY <2>1, <2>3
<1>3. ASSUME NEW n \in Nat, n \in I
      PROVE  n + 1 \in I
    <2> SUFFICES ASSUME NEW s \in SUBSET S, Cardinality(s) = n + 1
                 PROVE  OK(s)
        OBVIOUS
    <2> DEFINE x == Pick(s)
               t == s \ {Pick(s)}
    <2>1. s # {}
        BY SubsetSize
    <2>2. /\ x \in S /\ x \in s /\ t \in SUBSET S
          /\ Cardinality(t) = Cardinality(s) - 1
        BY <2>1, Smaller, Zenon
    <2>3. OK(t)
        <3>1. Cardinality(t) = n
            <4> HIDE DEF t
            <4> QED BY <2>2
        <3> QED BY <1>3, <2>2, <3>1
    <2>4. F[s] = g[x] + F[t]
        BY <1>1, <2>1
    <2> HIDE DEF x, t
    <2>5. t = s \ {x}
        BY DEF t, x
    <2>6. All(s) = A[x] \cup All(t) /\ A[x] \cap All(t) = {}
        <3>1. \A y \in t : A[x] \cap A[y] = {}
            BY <2>2, <2>5
        <3> QED BY <2>2, <2>5, <3>1
    <2> HIDE DEF All
    <2>7. IsFiniteSet(A[x]) /\ g[x] = Cardinality(A[x])
        BY <2>2
    <2>8. /\ IsFiniteSet(All(s))
          /\ Cardinality(All(s)) = Cardinality(A[x]) + Cardinality(All(t)) - Cardinality({})
        BY <2>3, <2>6, <2>7, FS_Union
    <2>9. Cardinality(A[x]) \in Nat /\ Cardinality(All(t)) \in Nat
        BY <2>3, <2>7, FS_CardinalityType
    <2> QED BY <2>3, <2>4, <2>7, <2>8, <2>9, FS_EmptySet
<1>4. N \in I
    <2>1. \A i \in 0 .. N : i \in I
        <3> HIDE DEF I, N
        <3> QED BY <1>0, <1>2, <1>3, SetInduction
    <2> HIDE DEF I, N
    <2> QED BY <1>0, <2>1
<1> QED BY <1>4
=============================================================================
