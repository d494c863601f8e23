------------------------------- MODULE Extrema ------------------------------
(***************************************************************************)
(* Least and greatest elements, quotients, remainders and sums: what the   *)
(* proofs about images of any size and about counters share.               *)
(***************************************************************************)
EXTENDS Integers, FiniteSetsExt, FiniteSetTheorems, WellFoundedInduction, TLAPS

(* Min of two, as a comparison.                                            *)
LEMMA MinOfTwo ==
  ASSUME NEW a \in Int, NEW b \in Int
  PROVE  Min({a, b}) = IF a <= b THEN a ELSE b
BY DEF Min

(* Max of two, as a comparison.                                            *)
LEMMA MaxOfTwo ==
  ASSUME NEW a \in Int, NEW b \in Int
  PROVE  Max({a, b}) = IF a >= b THEN a ELSE b
BY DEF Max

(* The least and greatest of an interval are its ends.                     *)
LEMMA EndsOfInterval ==
  ASSUME NEW a \in Int, NEW b \in Int, a <= b
  PROVE  Min(a..b) = a /\ Max(a..b) = b
BY DEF Min, Max

(* A product of naturals is one.                                           *)
LEMMA Product ==
  ASSUME NEW a \in Nat, NEW b \in Nat
  PROVE  a * b \in Nat
OBVIOUS

(* A quotient is the last multiple not above the dividend.                 *)
LEMMA Quotient ==
  ASSUME NEW n \in Nat, NEW d \in Nat \ {0}
  PROVE  /\ n \div d \in Nat
         /\ (n \div d) * d <= n /\ n < (n \div d) * d + d
OBVIOUS

(* ... and the only one.                                                   *)
LEMMA QuotientIs ==
  ASSUME NEW n \in Nat, NEW d \in Nat \ {0}, NEW k \in Nat
  PROVE  n \div d = k <=> k * d <= n /\ n < k * d + d
OBVIOUS

(* Division keeps the order.                                               *)
LEMMA QuotientGrows ==
  ASSUME NEW a \in Nat, NEW b \in Nat, a <= b, NEW d \in Nat \ {0}
  PROVE  a \div d <= b \div d
OBVIOUS

(* A set of naturals that is not empty has a least element: the least of   *)
(* the finite sets 0..k.                                                   *)
LEMMA LeastElement ==
  ASSUME NEW S, S \subseteq Nat, S # {}
  PROVE  \E k \in S : \A j \in S : k <= j
<1>. DEFINE Below == {0..k : k \in S}
<1>1. Below \subseteq FiniteSubsetsOf(Nat) /\ Below # {}
  <2>1. \A k \in S : 0..k \in SUBSET Nat /\ IsFiniteSet(0..k)
    BY FS_Interval
  <2>. QED
    BY <2>1 DEF FiniteSubsetsOf
<1>2. PICK least \in Below : \A b \in Below : ~(<<b, least>> \in StrictSubsetOrdering(Nat))
  <2>. HIDE DEF Below
  <2>. QED
    BY <1>1, FS_StrictSubsetOrderingWellFounded, WFMin
<1>3. PICK k \in S : least = 0..k
  OBVIOUS
<1>4. ASSUME NEW j \in S, j < k PROVE FALSE
  <2>1. 0..j \in Below
    BY <1>4
  <2>2. 0..j \subseteq 0..k /\ k \in 0..k /\ k \notin 0..j /\ 0..k \subseteq Nat
    BY <1>4
  <2>3. <<0..j, 0..k>> \in StrictSubsetOrdering(Nat)
    BY <2>2 DEF StrictSubsetOrdering
  <2>. QED
    BY <1>2, <1>3, <2>1, <2>3
<1>. QED
  BY <1>4

(* A set bounded by n has a greatest element: n less the least distance to *)
(* n.                                                                      *)
LEMMA GreatestElement ==
  ASSUME NEW S, NEW n \in Nat, S \subseteq 0..n, S # {}
  PROVE  Max(S) \in S /\ \A j \in S : j <= Max(S)
<1>. DEFINE Left == {n - k : k \in S}
<1>1. \A k \in S : k \in Nat /\ n - k \in Nat
  OBVIOUS
<1>2. Left \subseteq Nat /\ Left # {}
  BY <1>1
<1>3. PICK least \in Left : \A j \in Left : least <= j
  <2>. HIDE DEF Left
  <2>. QED
    BY <1>2, LeastElement
<1>4. PICK k \in S : least = n - k
  OBVIOUS
<1>5. ASSUME NEW j \in S PROVE j <= k
  <2>1. n - j \in Left
    OBVIOUS
  <2>2. n - k <= n - j
    BY <1>3, <1>4, <2>1
  <2>. QED
    BY <1>1, <2>2
<1>6. \E x \in S : \A y \in S : x >= y
  BY <1>1, <1>5
<1>7. Max(S) \in S /\ \A y \in S : Max(S) >= y
  BY <1>6, Zenon DEF Max
<1>. QED
  BY <1>1, <1>7

(* Min of a bounded set is its least element.                              *)
LEMMA LeastOfBounded ==
  ASSUME NEW S, NEW n \in Nat, S \subseteq 0..n, S # {}
  PROVE  Min(S) \in S /\ \A j \in S : Min(S) <= j
<1>1. \E k \in S : \A j \in S : k <= j
  <2>1. S \subseteq Nat
    OBVIOUS
  <2>. QED
    BY <2>1, LeastElement
<1>. QED
  BY <1>1, Zenon DEF Min

(* The four corners' sums of two extents span the sum of their lengths.    *)
LEMMA SpanOfCorners ==
  ASSUME NEW a \in Int, NEW b \in Int
  PROVE  LET S == {0, a, b, a + b}
         IN  Max(S) - Min(S) = (IF a < 0 THEN -a ELSE a) + (IF b < 0 THEN -b ELSE b)
<1>. DEFINE S == {0, a, b, a + b}
            top == (IF a < 0 THEN 0 ELSE a) + (IF b < 0 THEN 0 ELSE b)
            low == (IF a < 0 THEN a ELSE 0) + (IF b < 0 THEN b ELSE 0)
<1>1. S \subseteq Int /\ top \in S /\ low \in S /\ \A j \in S : low <= j /\ j <= top
  OBVIOUS
<1>2. top - low = (IF a < 0 THEN -a ELSE a) + (IF b < 0 THEN -b ELSE b)
  OBVIOUS
<1>. HIDE DEF S, top, low
<1>3. Max(S) \in S /\ \A j \in S : Max(S) >= j
  <2>1. \E x \in S : \A y \in S : x >= y
    BY <1>1
  <2>. QED
    BY <2>1, Zenon DEF Max
<1>4. Min(S) \in S /\ \A j \in S : Min(S) <= j
  <2>1. \E x \in S : \A y \in S : x <= y
    BY <1>1
  <2>. QED
    BY <2>1, Zenon DEF Min
<1>5. Max(S) = top /\ Min(S) = low
  <2>1. Max(S) \in Int /\ Min(S) \in Int /\ top \in Int /\ low \in Int
    BY <1>1, <1>3, <1>4
  <2>2. Max(S) >= top /\ Max(S) <= top /\ Min(S) <= low /\ low <= Min(S)
    BY <1>1, <1>3, <1>4
  <2>. QED
    BY <2>1, <2>2
<1>. QED
  BY <1>2, <1>5 DEF S

----------------------------------------------------------------------------
(* Induction, with the set of those that are proved in the place of a      *)
(* predicate: all naturals are in a set that has 0 and every successor.    *)
LEMMA CountingUp ==
  ASSUME NEW G, 0 \in G, \A n \in Nat : n \in G => n + 1 \in G
  PROVE  \A n \in Nat : n \in G
<1>. DEFINE Bad == Nat \ G
<1>. SUFFICES ASSUME Bad # {} PROVE FALSE
  OBVIOUS
<1>1. PICK n \in Bad : \A j \in Bad : n <= j
  BY LeastElement
<1>2. n # 0 /\ n - 1 \in Nat /\ n - 1 \notin Bad
  BY <1>1
<1>. QED
  BY <1>2

Pick(s) == CHOOSE x \in s : TRUE

(* All subsets of a finite set are in a collection that has the empty one  *)
(* and every set of which it has what is left when one element is picked.  *)
LEMMA PickingOut ==
  ASSUME NEW S, IsFiniteSet(S), NEW G, {} \in G,
         \A s \in SUBSET S : s # {} /\ s \ {Pick(s)} \in G => s \in G
  PROVE  \A s \in SUBSET S : s \in G
<1>. DEFINE Sized == {n \in Nat : \A s \in SUBSET S : Cardinality(s) = n => s \in G}
<1>1. \A s \in SUBSET S : IsFiniteSet(s) /\ Cardinality(s) \in Nat
  BY FS_Subset, FS_CardinalityType
<1>2. 0 \in Sized
  BY <1>1, FS_EmptySet
<1>3. ASSUME NEW n \in Nat, n \in Sized
      PROVE  n + 1 \in Sized
  <2>. SUFFICES ASSUME NEW s \in SUBSET S, Cardinality(s) = n + 1
                PROVE  s \in G
    OBVIOUS
  <2>1. s # {} /\ Pick(s) \in s
    BY FS_EmptySet DEF Pick
  <2>2. Cardinality(s \ {Pick(s)}) = n
    BY <1>1, <2>1, FS_RemoveElement
  <2>3. s \ {Pick(s)} \in G
    BY <1>3, <2>2
  <2>. QED
    BY <2>1, <2>3
<1>4. \A n \in Nat : n \in Sized
  <2>. HIDE DEF Sized
  <2>. QED
    BY <1>2, <1>3, CountingUp
<1>. QED
  BY <1>1, <1>4

----------------------------------------------------------------------------
(* The table that SumFunctionOnSet reads its result from.                  *)
IsSumTable(g, f, T) ==
  g = [s \in T |-> IF s = {} THEN 0 ELSE f[Pick(s)] + g[s \ {Pick(s)}]]

(* There is one, of the subsets with n elements at most.                   *)
LEMMA SumTable ==
  ASSUME NEW S, IsFiniteSet(S), NEW f
  PROVE  \E g : IsSumTable(g, f, SUBSET S)
<1>. DEFINE Small(n) == {s \in SUBSET S : Cardinality(s) <= n}
            Good == {n \in Nat : \E g : IsSumTable(g, f, Small(n))}
<1>1. \A s \in SUBSET S : IsFiniteSet(s) /\ Cardinality(s) \in Nat
  BY FS_Subset, FS_CardinalityType
<1>2. \A s \in SUBSET S : s # {} =>
        /\ Pick(s) \in s /\ s \ {Pick(s)} \in SUBSET S
        /\ Cardinality(s \ {Pick(s)}) = Cardinality(s) - 1
  BY <1>1, FS_RemoveElement DEF Pick
<1>3. 0 \in Good
  <2>1. \A s \in Small(0) : s = {}
    BY <1>1, FS_EmptySet
  <2>. DEFINE g == [s \in Small(0) |-> 0]
  <2>2. IsSumTable(g, f, Small(0))
    BY <2>1 DEF IsSumTable
  <2>. QED
    BY <2>2
<1>4. ASSUME NEW n \in Nat, n \in Good
      PROVE  n + 1 \in Good
  <2>1. PICK g : IsSumTable(g, f, Small(n))
    BY <1>4
  <2>. DEFINE body(e, s) == IF s = {} THEN 0 ELSE f[Pick(s)] + e[s \ {Pick(s)}]
              h == [s \in Small(n + 1) |-> body(g, s)]
  <2>2. ASSUME NEW s \in Small(n) PROVE s \in Small(n + 1) /\ h[s] = g[s]
    <3>1. s \in Small(n + 1)
      BY <1>1
    <3>2. g[s] = body(g, s)
      BY <2>1 DEF IsSumTable
    <3>. QED
      BY <3>1, <3>2
  <2>3. ASSUME NEW s \in Small(n + 1), s # {} PROVE s \ {Pick(s)} \in Small(n)
    BY <1>1, <1>2, <2>3
  <2>4. \A s \in Small(n + 1) : body(g, s) = body(h, s)
    <3>. HIDE DEF h, Small
    <3>. QED
      BY <2>2, <2>3
  <2>5. IsSumTable(h, f, Small(n + 1))
    <3>1. h = [s \in Small(n + 1) |-> body(h, s)]
      <4>. HIDE DEF Small, body
      <4>. QED
        BY <2>4
    <3>. QED
      BY <3>1 DEF IsSumTable
  <2>. HIDE DEF h, Small
  <2>. QED
    BY <2>5
<1>5. \A n \in Nat : n \in Good
  <2>. HIDE DEF Good
  <2>. QED
    BY <1>3, <1>4, CountingUp
<1>6. Cardinality(S) \in Nat /\ Small(Cardinality(S)) = SUBSET S
  BY <1>1, FS_Subset
<1>. QED
  BY <1>5, <1>6

(* A sum over a finite set is read from a table of its subsets.            *)
LEMMA SumFromTable ==
  ASSUME NEW S, IsFiniteSet(S), NEW f
  PROVE  \E g : IsSumTable(g, f, SUBSET S) /\ SumFunctionOnSet(f, S) = g[S]
<1>. DEFINE table == CHOOSE g : IsSumTable(g, f, SUBSET S)
<1>1. IsSumTable(table, f, SUBSET S)
  BY SumTable
<1>2. SumFunctionOnSet(f, S) = table[S]
  BY SMT DEF SumFunctionOnSet, FoldFunctionOnSet, MapThenFoldSet, IsSumTable, Pick
<1>. QED
  BY <1>1, <1>2

(* What is added to one element of a finite set is added to the sum.       *)
LEMMA SumAfterAdd ==
  ASSUME NEW S, IsFiniteSet(S), NEW f, NEW h, NEW c, NEW k \in Nat,
         \A x \in S : f[x] \in Nat /\ h[x] = f[x] + IF x = c THEN k ELSE 0
  PROVE  /\ SumFunctionOnSet(f, S) \in Nat
         /\ SumFunctionOnSet(h, S) = SumFunctionOnSet(f, S) + IF c \in S THEN k ELSE 0
<1>1. PICK g : IsSumTable(g, f, SUBSET S) /\ SumFunctionOnSet(f, S) = g[S]
  BY SumFromTable
<1>2. PICK e : IsSumTable(e, h, SUBSET S) /\ SumFunctionOnSet(h, S) = e[S]
  BY SumFromTable
<1>. DEFINE G == {s \in SUBSET S : g[s] \in Nat /\ e[s] = g[s] + IF c \in s THEN k ELSE 0}
<1>3. {} \in G
  BY <1>1, <1>2 DEF IsSumTable
<1>4. ASSUME NEW s \in SUBSET S, s # {}, s \ {Pick(s)} \in G
      PROVE  s \in G
  <2>. DEFINE x == Pick(s)
              t == s \ {x}
  <2>1. x \in s /\ t \in SUBSET S
    BY <1>4 DEF Pick
  <2>2. g[s] = f[x] + g[t] /\ e[s] = h[x] + e[t]
    BY <1>1, <1>2, <1>4 DEF IsSumTable
  <2>3. c \in s <=> c \in t \/ c = x
    BY <2>1
  <2>4. x \in S /\ g[t] \in Nat /\ e[t] = g[t] + IF c \in t THEN k ELSE 0
    BY <1>4, <2>1
  <2>5. f[x] \in Nat /\ h[x] = f[x] + IF x = c THEN k ELSE 0
    BY <2>4
  <2>6. x \notin t
    OBVIOUS
  <2>. HIDE DEF x, t
  <2>. QED
    BY <2>2, <2>3, <2>4, <2>5, <2>6
<1>5. \A s \in SUBSET S : s \in G
  <2>. HIDE DEF G
  <2>. QED
    BY <1>3, <1>4, PickingOut
<1>. QED
  BY <1>1, <1>2, <1>5

(* The sum of nothing but zeros.                                           *)
LEMMA SumOfZeros ==
  ASSUME NEW S, IsFiniteSet(S), NEW f, \A x \in S : f[x] = 0
  PROVE  SumFunctionOnSet(f, S) = 0
<1>1. PICK g : IsSumTable(g, f, SUBSET S) /\ SumFunctionOnSet(f, S) = g[S]
  BY SumFromTable
<1>. DEFINE G == {s \in SUBSET S : g[s] = 0}
<1>2. {} \in G
  BY <1>1 DEF IsSumTable
<1>3. ASSUME NEW s \in SUBSET S, s # {}, s \ {Pick(s)} \in G
      PROVE  s \in G
  <2>1. Pick(s) \in s
    BY <1>3 DEF Pick
  <2>2. g[s] = f[Pick(s)] + g[s \ {Pick(s)}]
    BY <1>1, <1>3 DEF IsSumTable
  <2>. QED
    BY <1>3, <2>1, <2>2
<1>4. \A s \in SUBSET S : s \in G
  <2>. HIDE DEF G
  <2>. QED
    BY <1>2, <1>3, PickingOut
<1>. QED
  BY <1>1, <1>4
=============================================================================
