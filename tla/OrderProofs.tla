---------------------------- MODULE OrderProofs -----------------------------
(***************************************************************************)
(* What the proofs about the moves of both RDDs share: loops written as     *)
(* recursive functions, the records of a set in an order, and the clauses   *)
(* that select the rows of a page along an index.                           *)
(***************************************************************************)
EXTENDS IndexOrder, Sequences, FiniteSets, WellFoundedInduction, FiniteSetTheorems, TLAPS

-----------------------------------------------------------------------------
(* Naturals: least elements and induction.                                  *)

(* A nonempty set of naturals has a least element.                          *)
LEMMA LeastElement ==
    ASSUME NEW T \in SUBSET Nat, T # {}
    PROVE  \E m \in T : \A n \in T : m <= n
<1> DEFINE R == OpToRel(<, Nat)
<1>1. IsWellFoundedOn(R, Nat)
  BY NatLessThanWellFounded
<1>2. \A m, n \in Nat : m < n => << m, n >> \in R
  BY DEF OpToRel
<1> HIDE DEF R
<1>3. PICK m \in T : \A n \in T : << n, m >> \notin R
  BY <1>1, WFMin
<1>4. ASSUME NEW n \in T PROVE m <= n
  <2>1. ~(n < m)
    BY <1>2, <1>3
  <2> QED
    BY <2>1
<1> QED
  BY <1>4

(* Induction over the naturals, for a property given as a set.              *)
LEMMA SetInduction ==
    ASSUME NEW P, 0 \in P, \A n \in Nat : n \in P => n + 1 \in P
    PROVE  \A n \in Nat : n \in P
<1> DEFINE T == {n \in Nat : n \notin P}
<1>1. T = {}
  <2> SUFFICES ASSUME T # {} PROVE FALSE
    OBVIOUS
  <2>1. PICK m \in T : \A n \in T : m <= n
    <3>1. T \in SUBSET Nat
      OBVIOUS
    <3> HIDE DEF T
    <3> QED
      BY <3>1, LeastElement
  <2>2. m \in Nat /\ m # 0 /\ m - 1 \in Nat /\ m - 1 \notin T
    BY <2>1
  <2> QED
    BY <2>1, <2>2
<1> QED
  BY <1>1

(***************************************************************************)
(* A loop of N rounds, written as a recursive function: the function exists *)
(* when a round takes areas of S to areas of S (F[k][b] is the area         *)
(* after round k when it was b before), and it stays in S.                  *)
(***************************************************************************)
Loops(S, N, a, F) ==
  {g \in [0 .. N -> S] : g[0] = a /\ \A k \in 1 .. N : g[k] = F[k][g[k - 1]]}

(* The rounds one after the other are such a function.                      *)
LEMMA LoopExists ==
    ASSUME NEW S, NEW N \in Nat, NEW a \in S, NEW F \in [1 .. N -> [S -> S]]
    PROVE  Loops(S, N, a, F) # {}
<1> DEFINE Is(n, g) == g[0] = a /\ \A k \in 1 .. n : g[k] = F[k][g[k - 1]]
           P == {n \in Nat : n <= N => \E g \in [0 .. n -> S] : Is(n, g)}
<1>1. 0 \in P
  <2>1. [k \in 0 .. 0 |-> a] \in [0 .. 0 -> S] /\ Is(0, [k \in 0 .. 0 |-> a])
    OBVIOUS
  <2> QED
    BY <2>1
<1>2. ASSUME NEW n \in Nat, n \in P PROVE n + 1 \in P
  <2> SUFFICES ASSUME n + 1 <= N
               PROVE  \E h \in [0 .. (n + 1) -> S] : Is(n + 1, h)
    OBVIOUS
  <2>1. PICK g \in [0 .. n -> S] : Is(n, g)
    BY <1>2
  <2> DEFINE h == [k \in 0 .. (n + 1) |-> IF k <= n THEN g[k] ELSE F[n + 1][g[n]]]
  <2>2. g[n] \in S /\ F[n + 1] \in [S -> S]
    BY <2>1
  <2>3. h \in [0 .. (n + 1) -> S]
    BY <2>1, <2>2
  <2>4. ASSUME NEW k \in 1 .. (n + 1) PROVE h[k] = F[k][h[k - 1]]
    <3>1. CASE k <= n
      BY <3>1, <2>1
    <3>2. CASE k = n + 1
      BY <3>2, <2>1
    <3> QED
      BY <3>1, <3>2
  <2>5. h[0] = a
    BY <2>1
  <2> QED
    BY <2>3, <2>4, <2>5
<1>3. \A n \in Nat : n \in P
  <2> HIDE DEF P
  <2> QED
    BY <1>1, <1>2, SetInduction
<1>4. \E g \in [0 .. N -> S] : Is(N, g)
  BY <1>3
<1> QED
  BY <1>4 DEF Loops

(* A loop whose rounds stay in S stays in S.                                *)
LEMMA LoopStays ==
    ASSUME NEW S, NEW N \in Nat, NEW g, g[0] \in S,
           \A k \in 1 .. N : g[k - 1] \in S => g[k] \in S
    PROVE  \A k \in 0 .. N : g[k] \in S
<1> DEFINE P == {k \in Nat : k <= N => g[k] \in S}
<1>1. 0 \in P
  OBVIOUS
<1>2. ASSUME NEW k \in Nat, k \in P PROVE k + 1 \in P
  <2> SUFFICES ASSUME k + 1 <= N PROVE g[k + 1] \in S
    OBVIOUS
  <2>1. k + 1 \in 1 .. N /\ (k + 1) - 1 = k /\ g[k] \in S
    BY <1>2
  <2> QED
    BY <2>1
<1>3. \A k \in Nat : k \in P
  <2> HIDE DEF P
  <2> QED
    BY <1>1, <1>2, SetInduction
<1> QED
  BY <1>3

-----------------------------------------------------------------------------
(* The records of a set in an order: ORDER BY.                              *)

(* L orders S: strictly, and any two elements.                               *)
Orders(L, S) ==
  /\ \A r \in S : << r, r >> \notin L
  /\ \A r, s \in S : r # s => << r, s >> \in L \/ << s, r >> \in L
  /\ \A r, s, x \in S : << r, s >> \in L /\ << s, x >> \in L => << r, x >> \in L

(* At place k is the element with k - 1 elements of S before it.             *)
Listed(L, S) ==
  [k \in 1 .. Cardinality(S) |->
     CHOOSE r \in S : Cardinality({s \in S : << s, r >> \in L}) = k - 1]

(* These are all elements of S, each once, in that order.                    *)
LEMMA ListedRows ==
    ASSUME NEW S, IsFiniteSet(S), NEW L, Orders(L, S)
    PROVE  /\ Listed(L, S) \in Seq(S) /\ Len(Listed(L, S)) = Cardinality(S)
           /\ Cardinality(S) \in Nat
           /\ \A i, j \in 1 .. Cardinality(S) :
                i < j <=> << Listed(L, S)[i], Listed(L, S)[j] >> \in L
           /\ \A r \in S : \E i \in 1 .. Cardinality(S) : Listed(L, S)[i] = r
<1> USE DEF Orders
<1> DEFINE n == Cardinality(S)
           Less(r) == {s \in S : << s, r >> \in L}
           Rank == [r \in S |-> Cardinality(Less(r))]
           q == Listed(L, S)
<1>1. n \in Nat
  BY FS_CardinalityType
<1>2. \A r \in S : IsFiniteSet(Less(r)) /\ Rank[r] \in 0 .. (n - 1)
  <2> TAKE r \in S
  <2>1. Less(r) \in SUBSET (S \ {r})
    OBVIOUS
  <2>2. IsFiniteSet(S \ {r}) /\ Cardinality(S \ {r}) = n - 1
    BY <1>1, FS_RemoveElement
  <2> HIDE DEF Less
  <2>3. IsFiniteSet(Less(r)) /\ Cardinality(Less(r)) <= n - 1
    BY <2>1, <2>2, FS_Subset
  <2>4. Cardinality(Less(r)) \in Nat
    BY <2>3, FS_CardinalityType
  <2> QED
    BY <1>1, <2>3, <2>4
<1>3. \A r, s \in S : << r, s >> \in L => Rank[r] < Rank[s]
  <2> SUFFICES ASSUME NEW r \in S, NEW s \in S, << r, s >> \in L
               PROVE  Rank[r] < Rank[s]
    OBVIOUS
  <2>1. Less(r) \in SUBSET Less(s) /\ r \in Less(s) /\ r \notin Less(r)
    OBVIOUS
  <2>2. IsFiniteSet(Less(s)) /\ IsFiniteSet(Less(r))
    BY <1>2
  <2> HIDE DEF Less
  <2>3. Cardinality(Less(r)) <= Cardinality(Less(s)) /\ Cardinality(Less(r)) # Cardinality(Less(s))
    BY <2>1, <2>2, FS_Subset
  <2>4. Cardinality(Less(r)) \in Nat /\ Cardinality(Less(s)) \in Nat
    BY <2>2, FS_CardinalityType
  <2> QED
    BY <2>3, <2>4
<1> HIDE DEF n, Less
<1>4. \A r, s \in S : << r, s >> \in L <=> Rank[r] < Rank[s]
  <2> SUFFICES ASSUME NEW r \in S, NEW s \in S, Rank[r] < Rank[s], << r, s >> \notin L
               PROVE  FALSE
    BY <1>3
  <2>1. Rank[r] \in 0 .. (n - 1) /\ Rank[s] \in 0 .. (n - 1)
    BY <1>2
  <2>2. CASE r = s
    BY <1>1, <2>1, <2>2
  <2>3. CASE << s, r >> \in L
    <3>1. Rank[s] < Rank[r]
      BY <1>3, <2>3
    <3> QED
      BY <1>1, <2>1, <3>1
  <2> QED
    BY <2>2, <2>3
<1>5. \A r, s \in S : Rank[r] = Rank[s] => r = s
  <2> SUFFICES ASSUME NEW r \in S, NEW s \in S, Rank[r] = Rank[s], r # s
               PROVE  FALSE
    OBVIOUS
  <2>1. Rank[r] < Rank[s] \/ Rank[s] < Rank[r]
    BY <1>3
  <2>2. Rank[r] \in 0 .. (n - 1) /\ Rank[s] \in 0 .. (n - 1)
    BY <1>2
  <2> QED
    BY <1>1, <2>1, <2>2
<1>6. Rank \in Injection(S, 0 .. (n - 1))
  <2>1. Rank \in [S -> 0 .. (n - 1)]
    BY <1>2
  <2> HIDE DEF Rank
  <2> QED
    BY <1>5, <2>1 DEF Injection, IsInjective
<1>7. Rank \in Surjection(S, 0 .. (n - 1))
  <2>1. IsFiniteSet(0 .. (n - 1)) /\ Cardinality(0 .. (n - 1)) = n
    BY <1>1, FS_Interval
  <2> QED
    BY <1>6, <2>1, FS_Injection DEF n
<1>8. \A k \in 1 .. n : \E r \in S : Rank[r] = k - 1
  <2>1. \A k \in 1 .. n : k - 1 \in 0 .. (n - 1)
    BY <1>1
  <2> HIDE DEF Rank
  <2> QED
    BY <1>7, <2>1 DEF Surjection
<1>9. q = [k \in 1 .. n |-> CHOOSE r \in S : Cardinality(Less(r)) = k - 1]
  BY DEF Listed, Less, n
<1> HIDE DEF q
<1>10. \A k \in 1 .. n : q[k] \in S /\ Rank[q[k]] = k - 1
  <2> TAKE k \in 1 .. n
  <2>1. q[k] = CHOOSE r \in S : Cardinality(Less(r)) = k - 1
    BY <1>9
  <2> QED
    BY <1>8, <2>1
<1>11. q \in [1 .. n -> S]
  BY <1>9, <1>10
<1>12. q \in Seq(S) /\ Len(q) = n
  BY <1>1, <1>11
<1>13. \A r \in S : \E i \in 1 .. n : q[i] = r
  <2> TAKE r \in S
  <2>1. Rank[r] + 1 \in 1 .. n
    BY <1>1, <1>2
  <2>2. q[Rank[r] + 1] \in S /\ Rank[q[Rank[r] + 1]] = Rank[r]
    BY <1>2, <1>10, <2>1
  <2> QED
    BY <1>5, <2>1, <2>2
<1>14. \A i, j \in 1 .. n : i < j <=> << q[i], q[j] >> \in L
  <2> TAKE i, j \in 1 .. n
  <2>1. i < j <=> Rank[q[i]] < Rank[q[j]]
    BY <1>1, <1>10
  <2>2. q[i] \in S /\ q[j] \in S
    BY <1>10
  <2> QED
    BY <1>4, <2>1, <2>2
<1> QED
  BY <1>1, <1>12, <1>13, <1>14 DEF n, q

-----------------------------------------------------------------------------
(* The clauses of an index of any number of columns.                         *)

(* j is the first column where the keys v and x differ. *)
FirstAt(v, x, j) == x[j] # v[j] /\ \A i \in 1 .. (j - 1) : x[i] = v[i]

(* Of two different keys there is a first column where they differ. *)
LEMMA FirstDifference ==
  ASSUME NEW n \in Nat, NEW v \in [1 .. n -> Int], NEW x \in [1 .. n -> Int],
         NEW k \in 1 .. n, x[k] # v[k]
  PROVE  \E j \in 1 .. n : j <= k /\ FirstAt(v, x, j)
<1> DEFINE D == {i \in 1 .. n : x[i] # v[i]}
<1>1. D \in SUBSET Nat /\ k \in D
  OBVIOUS
<1>2. PICK j \in D : \A i \in D : j <= i
  <2> DEFINE R == OpToRel(<, Nat)
  <2>1. IsWellFoundedOn(R, Nat)
    BY NatLessThanWellFounded
  <2>2. \A a, b \in Nat : a < b => <<a, b>> \in R
    BY DEF OpToRel
  <2> HIDE DEF R
  <2>3. PICK m \in D : \A i \in D : ~ (<<i, m>> \in R)
    BY <1>1, <2>1, WFMin
  <2>4. ASSUME NEW i \in D  PROVE m <= i
    <3>1. i \in Nat /\ m \in Nat
      BY <1>1, <2>3
    <3>2. ~ (i < m)
      BY <2>2, <2>3, <3>1
    <3> QED BY <3>1, <3>2
  <2> QED BY <2>4
<1>3. j <= k
  BY <1>1, <1>2
<1>4. \A i \in 1 .. (j - 1) : x[i] = v[i]
  <2> SUFFICES ASSUME NEW i \in 1 .. (j - 1), x[i] # v[i]  PROVE FALSE
    OBVIOUS
  <2>1. i \in 1 .. n
    BY <1>2
  <2>2. j <= i
    BY <2>1, <1>2
  <2> QED BY <2>2, <1>2
<1> QED BY <1>2, <1>3, <1>4 DEF FirstAt

(* Columns that are all >= up to column k, the k-th greater, make a greater key. *)
LEMMA PrefixGreater ==
  ASSUME NEW n \in Nat, NEW v \in [1 .. n -> Int], NEW x \in [1 .. n -> Int],
         NEW k \in 1 .. n, x[k] # v[k], \A i \in 1 .. k : x[i] >= v[i]
  PROVE  LexLess(n, v, x)
<1>0. x[k] # v[k]
  OBVIOUS
<1>1. PICK j \in 1 .. n : j <= k /\ FirstAt(v, x, j)
  BY <1>0, FirstDifference
<1>2. j \in 1 .. k
  BY <1>1
<1>3. x[j] >= v[j] /\ x[j] \in Int /\ v[j] \in Int
  BY <1>2
<1>4. v[j] < x[j]
  BY <1>1, <1>3 DEF FirstAt
<1> QED BY <1>1, <1>4 DEF LexLess, FirstAt

(***************************************************************************)
(* Paging forward: the clause WhereMajor builds selects exactly the rows at *)
(* or after the current one in the order of the index, for an index of any  *)
(* number of columns: neither the dropped equalities (>= where a textbook   *)
(* clause has =) nor the order of the parts lets a row in or leaves one out.*)
(***************************************************************************)
THEOREM WhereMajorIsTheOrder ==
  ASSUME NEW n \in Nat, NEW v \in [1 .. n -> Int], NEW x \in [1 .. n -> Int]
  PROVE  WhereMajor(n, v, x) <=> AtOrAfter(n, v, x)
<1>1. ASSUME \A i \in 1 .. n : x[i] >= v[i]  PROVE AtOrAfter(n, v, x)
  <2>1. CASE \A i \in 1 .. n : x[i] = v[i]
    BY <2>1 DEF AtOrAfter
  <2>2. CASE \E k \in 1 .. n : x[k] # v[k]
    <3>1. PICK k \in 1 .. n : x[k] # v[k]
      BY <2>2
    <3>2. \A i \in 1 .. k : x[i] >= v[i]
      BY <1>1
    <3> QED BY <3>1, <3>2, PrefixGreater DEF AtOrAfter
  <2> QED BY <2>1, <2>2
<1>2. ASSUME NEW j \in 1 .. (n - 1), MajorPart(v, x, j)  PROVE AtOrAfter(n, v, x)
  <2>1. j \in 1 .. n /\ x[j] > v[j] /\ x[j] \in Int /\ v[j] \in Int
    BY <1>2 DEF MajorPart
  <2>2. \A i \in 1 .. j : x[i] >= v[i]
    <3> SUFFICES ASSUME NEW i \in 1 .. j  PROVE x[i] >= v[i]
      OBVIOUS
    <3>1. x[i] \in Int /\ v[i] \in Int
      BY <2>1
    <3>2. CASE i = j
      BY <3>2, <2>1
    <3>3. CASE i = j - 1
      BY <3>1, <3>3, <1>2 DEF MajorPart
    <3>4. CASE i < j - 1
      <4>1. i \in 1 .. (j - 2)
        BY <3>4
      <4> QED BY <4>1, <1>2 DEF MajorPart
    <3> QED BY <3>2, <3>3, <3>4
  <2>3. x[j] # v[j]
    BY <2>1
  <2>4. LexLess(n, v, x)
    BY <2>1, <2>2, <2>3, PrefixGreater, Zenon
  <2> QED BY <2>4 DEF AtOrAfter
<1>3. ASSUME LexLess(n, v, x)  PROVE WhereMajor(n, v, x)
  <2>1. PICK j \in 1 .. n : v[j] < x[j] /\ \A i \in 1 .. (j - 1) : x[i] = v[i]
    BY <1>3 DEF LexLess
  <2>2. \A i \in 1 .. n : x[i] \in Int /\ v[i] \in Int
    OBVIOUS
  <2>3. CASE j = n
    <3>1. ASSUME NEW i \in 1 .. n  PROVE x[i] >= v[i]
      <4>1. CASE i = n
        BY <4>1, <2>1, <2>2, <2>3
      <4>2. CASE i \in 1 .. (n - 1)
        BY <4>2, <2>1, <2>2, <2>3
      <4> QED BY <4>1, <4>2
    <3> QED BY <3>1 DEF WhereMajor
  <2>4. CASE j # n
    <3>1. j \in 1 .. (n - 1)
      BY <2>4
    <3>2. j > 1 => x[j - 1] = v[j - 1]
      BY <2>1
    <3>3. \A i \in 1 .. (j - 2) : x[i] >= v[i]
      BY <2>1, <2>2, <3>1
    <3>4. x[j] > v[j]
      BY <2>1, <2>2
    <3> QED BY <3>1, <3>2, <3>3, <3>4 DEF WhereMajor, MajorPart
  <2> QED BY <2>3, <2>4
<1>4. ASSUME \A i \in 1 .. n : x[i] = v[i]  PROVE WhereMajor(n, v, x)
  <2>1. \A i \in 1 .. n : x[i] >= v[i]
    BY <1>4
  <2> QED BY <2>1 DEF WhereMajor
<1>5. WhereMajor(n, v, x) => AtOrAfter(n, v, x)
  BY <1>1, <1>2 DEF WhereMajor
<1>6. AtOrAfter(n, v, x) => WhereMajor(n, v, x)
  BY <1>3, <1>4 DEF AtOrAfter
<1> QED BY <1>5, <1>6

(***************************************************************************)
(* Paging backward: the clause WhereMinor builds selects exactly the rows   *)
(* at or before the current one.  It is WhereMajor seen from the row.       *)
(***************************************************************************)
THEOREM WhereMinorIsTheOrder ==
  ASSUME NEW n \in Nat, NEW v \in [1 .. n -> Int], NEW x \in [1 .. n -> Int]
  PROVE  WhereMinor(n, v, x) <=> AtOrBefore(n, v, x)
<1>1. \A i \in 1 .. n : /\ x[i] \in Int /\ v[i] \in Int
                        /\ (x[i] <= v[i]) <=> (v[i] >= x[i])
                        /\ (x[i] < v[i]) <=> (v[i] > x[i])
  OBVIOUS
<1>2. ASSUME NEW j \in 1 .. (n - 1)  PROVE MinorPart(v, x, j) <=> MajorPart(x, v, j)
  <2>1. j \in 1 .. n /\ (j > 1 => j - 1 \in 1 .. n) /\ 1 .. (j - 2) \subseteq 1 .. n
    OBVIOUS
  <2> QED BY <1>1, <2>1 DEF MinorPart, MajorPart
<1>3. WhereMinor(n, v, x) <=> WhereMajor(n, x, v)
  BY <1>1, <1>2 DEF WhereMinor, WhereMajor
<1>4. AtOrBefore(n, v, x) <=> AtOrAfter(n, x, v)
  <2>1. (\A i \in 1 .. n : x[i] = v[i]) <=> (\A i \in 1 .. n : v[i] = x[i])
    OBVIOUS
  <2> QED BY <2>1 DEF AtOrBefore, AtOrAfter
<1> QED BY <1>3, <1>4, WhereMajorIsTheOrder

=============================================================================
