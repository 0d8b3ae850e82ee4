------------------------------ MODULE CacheProofs ------------------------------
(***************************************************************************)
(* What BlockCache guarantees for every block size, capacity, media and    *)
(* announced length: its accounting, its recency list and what eviction    *)
(* takes, its buffers and the bytes a read returns.                        *)
(***************************************************************************)
EXTENDS BlockCache, FiniteSetTheorems, TLAPS

-----------------------------------------------------------------------------
(* Natural numbers.                                                        *)

LEMMA Least ==
    ASSUME NEW S, S \subseteq Nat, S # {}
    PROVE  \E m \in S : \A n \in S : m <= n
<1> DEFINE R == OpToRel(<, Nat)
<1>1. IsWellFoundedOn(R, Nat)
  BY NatLessThanWellFounded
<1>2. \A x, y \in Nat : x < y => <<x, y>> \in R
  BY DEF OpToRel
<1> HIDE DEF R
<1>3. PICK m \in S : \A y \in S : ~ (<<y, m>> \in R)
  <2>1. \E x \in S : \A y \in S : ~ (<<y, x>> \in R)
    BY <1>1, WFMin
  <2> QED
    BY <2>1
<1>4. ASSUME NEW n \in S PROVE m <= n
  <2>1. m \in Nat /\ n \in Nat
    OBVIOUS
  <2>2. ~ (n < m)
    BY <1>2, <1>3, <2>1
  <2> QED
    BY <2>1, <2>2
<1> QED
  BY <1>4

(* Induction on a set, as an operator cannot be a lemma's parameter here. *)
LEMMA Induct ==
    ASSUME NEW S, S \subseteq Nat, 0 \in S, \A n \in S : n + 1 \in S
    PROVE  S = Nat
<1> SUFFICES ASSUME Nat \ S # {} PROVE FALSE
  OBVIOUS
<1>1. PICK m \in Nat \ S : \A n \in Nat \ S : m <= n
  BY Least
<1>2. m # 0 /\ m - 1 \in Nat
  BY <1>1
<1>3. m - 1 \in S
  BY <1>1, <1>2
<1> QED
  BY <1>1, <1>2, <1>3

LEMMA DivisionBounds ==
    ASSUME NEW a \in Nat, NEW b \in Nat \ {0}
    PROVE  (a \div b) * b <= a /\ a < (a \div b + 1) * b
OBVIOUS

LEMMA MultipleDivided ==
    ASSUME NEW k \in Nat, NEW b \in Nat \ {0}
    PROVE  (k * b) \div b = k /\ (k * b) % b = 0
OBVIOUS

LEMMA MultiplesOrdered ==
    ASSUME NEW i \in Nat, NEW j \in Nat, NEW b \in Nat, i <= j
    PROVE  i * b <= j * b
OBVIOUS

-----------------------------------------------------------------------------
(* How many cells a dictionary of blocks holds.                            *)

LEMMA DisjointSum ==
    ASSUME NEW S, NEW T, IsFiniteSet(S), IsFiniteSet(T), S \cap T = {}
    PROVE  Cardinality(S \cup T) = Cardinality(S) + Cardinality(T)
<1>1. Cardinality(S) \in Nat /\ Cardinality(T) \in Nat
  BY FS_CardinalityType
<1>2. Cardinality(S \cup T) = Cardinality(S) + Cardinality(T) - Cardinality(S \cap T)
  BY FS_Union
<1>3. Cardinality(S \cap T) = 0
  BY FS_EmptySet
<1> QED
  BY <1>1, <1>2, <1>3

LEMMA ColumnSize ==
    ASSUME NEW i, NEW a \in Nat, NEW b \in Nat, a <= b
    PROVE  /\ IsFiniteSet({i} \X ((a + 1)..b))
           /\ Cardinality({i} \X ((a + 1)..b)) = b - a
<1>1. IsFiniteSet({i}) /\ Cardinality({i}) = 1
  BY FS_Singleton
<1>2. IsFiniteSet((a + 1)..b) /\ Cardinality((a + 1)..b) = b - a
  <2>1. a + 1 \in Int /\ b \in Int
    OBVIOUS
  <2>2. Cardinality((a + 1)..b) = IF a + 1 > b THEN 0 ELSE b - (a + 1) + 1
    BY <2>1, FS_Interval
  <2>3. IsFiniteSet((a + 1)..b)
    BY <2>1, FS_Interval
  <2>4. (IF a + 1 > b THEN 0 ELSE b - (a + 1) + 1) = b - a
    OBVIOUS
  <2> QED
    BY <2>2, <2>3, <2>4
<1> DEFINE S == {i}
           T == (a + 1)..b
<1>3. IsFiniteSet(S) /\ IsFiniteSet(T) /\ Cardinality(S) = 1 /\ Cardinality(T) = b - a
  BY <1>1, <1>2
<1> HIDE DEF S, T
<1>4. IsFiniteSet(S \X T) /\ Cardinality(S \X T) = Cardinality(S) * Cardinality(T)
  BY <1>3, FS_Product
<1>5. Cardinality(S \X T) = b - a
  BY <1>3, <1>4
<1> QED
  BY <1>4, <1>5 DEF S, T

LEMMA CellsFinite ==
    ASSUME NEW f, IsFiniteSet(DOMAIN f)
    PROVE  IsFiniteSet(CellsIn(f)) /\ Cardinality(CellsIn(f)) \in Nat
<1>1. IsFiniteSet(1..BLOCK_SIZE)
  BY FS_Interval, CacheAssumption
<1>2. IsFiniteSet((DOMAIN f) \X (1..BLOCK_SIZE))
  BY <1>1, FS_Product
<1>3. CellsIn(f) \in SUBSET ((DOMAIN f) \X (1..BLOCK_SIZE))
  BY DEF CellsIn
<1> QED
  BY <1>2, <1>3, FS_Subset, FS_CardinalityType

LEMMA CellsSplit ==
    ASSUME NEW f, IsFiniteSet(DOMAIN f), NEW S \in SUBSET DOMAIN f
    PROVE  Cardinality(CellsIn(Drop(f, S)))
               = Cardinality(CellsIn(f)) - Cardinality(CellsIn(Restrict(f, S)))
<1> DEFINE rest == Drop(f, S)
           gone == Restrict(f, S)
<1>1. /\ DOMAIN rest = (DOMAIN f) \ S
      /\ \A i \in DOMAIN rest : rest[i] = f[i]
  BY DEF Drop
<1>2. /\ DOMAIN gone = S
      /\ \A i \in DOMAIN gone : gone[i] = f[i]
  BY DEF Restrict
<1>3. IsFiniteSet(DOMAIN rest) /\ IsFiniteSet(DOMAIN gone)
  BY <1>1, <1>2, FS_Subset, FS_Difference
<1> HIDE DEF rest, gone
<1>4. CellsIn(f) = CellsIn(rest) \cup CellsIn(gone)
  <2>1. \A i, k : <<i, k>> \in CellsIn(f)
                     <=> <<i, k>> \in CellsIn(rest) \cup CellsIn(gone)
    BY <1>1, <1>2 DEF CellsIn
  <2>2. \A x \in CellsIn(f) \cup CellsIn(rest) \cup CellsIn(gone) :
            \E i, k : x = <<i, k>>
    BY DEF CellsIn
  <2> QED
    BY <2>1, <2>2
<1>5. CellsIn(rest) \cap CellsIn(gone) = {}
  <2>1. \A i, k : ~(<<i, k>> \in CellsIn(rest) /\ <<i, k>> \in CellsIn(gone))
    BY <1>1, <1>2 DEF CellsIn
  <2>2. \A x \in CellsIn(rest) : \E i, k : x = <<i, k>>
    BY DEF CellsIn
  <2> QED
    BY <2>1, <2>2
<1>6. /\ IsFiniteSet(CellsIn(rest)) /\ Cardinality(CellsIn(rest)) \in Nat
      /\ IsFiniteSet(CellsIn(gone)) /\ Cardinality(CellsIn(gone)) \in Nat
  BY <1>3, CellsFinite
<1>7. Cardinality(CellsIn(f)) = Cardinality(CellsIn(rest)) + Cardinality(CellsIn(gone))
  BY <1>4, <1>5, <1>6, DisjointSum
<1> QED
  BY <1>6, <1>7 DEF rest, gone

(* One block more, or one in the place of another. *)
LEMMA CellsPut ==
    ASSUME NEW f, IsFiniteSet(DOMAIN f), NEW idx,
           NEW block \in Seq(Nat), Len(block) <= BLOCK_SIZE,
           idx \in DOMAIN f => Len(f[idx]) \in 1..BLOCK_SIZE
    PROVE  Cardinality(CellsIn(Put(f, idx, block)))
               = Cardinality(CellsIn(f)) + Len(block)
                 - (IF idx \in DOMAIN f THEN Len(f[idx]) ELSE 0)
<1> DEFINE rest == Drop(f, {idx})
           g    == Put(f, idx, block)
           old  == IF idx \in DOMAIN f THEN Len(f[idx]) ELSE 0
           Column(n) == {idx} \X ((0 + 1)..n)
<1>1. /\ DOMAIN rest = (DOMAIN f) \ {idx}
      /\ \A i \in DOMAIN rest : rest[i] = f[i]
  BY DEF Drop
<1>2. /\ DOMAIN g = (DOMAIN f) \cup {idx}
      /\ \A i \in DOMAIN rest : g[i] = rest[i]
      /\ g[idx] = block
  BY <1>1 DEF Put
<1>3. IsFiniteSet(DOMAIN rest)
  BY <1>1, FS_Difference
<1>4. old \in Nat /\ old <= BLOCK_SIZE /\ Len(block) \in Nat /\ BLOCK_SIZE \in Nat
  BY CacheAssumption
<1> HIDE DEF rest, g
<1>5. CellsIn(g) = CellsIn(rest) \cup Column(Len(block))
  <2>1. \A i, k : <<i, k>> \in CellsIn(g)
                     <=> <<i, k>> \in CellsIn(rest) \cup Column(Len(block))
    BY <1>1, <1>2, <1>4 DEF CellsIn
  <2>2. \A x \in CellsIn(g) \cup CellsIn(rest) \cup Column(Len(block)) :
            \E i, k : x = <<i, k>>
    BY DEF CellsIn
  <2> QED
    BY <2>1, <2>2
<1>6. CellsIn(f) = CellsIn(rest) \cup Column(old)
  <2>1. \A i, k : <<i, k>> \in CellsIn(f)
                     <=> <<i, k>> \in CellsIn(rest) \cup Column(old)
    <3>1. \A i, k : i # idx => (<<i, k>> \in CellsIn(f)
                     <=> <<i, k>> \in CellsIn(rest) \cup Column(old))
      BY <1>1 DEF CellsIn
    <3>2. \A k : <<idx, k>> \in CellsIn(f) <=> k \in 1..old
      BY <1>4 DEF CellsIn
    <3>3. \A k : <<idx, k>> \in CellsIn(rest) \cup Column(old) <=> k \in 1..old
      BY <1>1 DEF CellsIn
    <3> QED
      BY <3>1, <3>2, <3>3
  <2>2. \A x \in CellsIn(f) \cup CellsIn(rest) \cup Column(old) :
            \E i, k : x = <<i, k>>
    BY DEF CellsIn
  <2> QED
    BY <2>1, <2>2
<1>7. \A n : CellsIn(rest) \cap Column(n) = {}
  <2>1. \A n, x : x \in Column(n) => \E k : x = <<idx, k>>
    OBVIOUS
  <2>2. \A k : <<idx, k>> \notin CellsIn(rest)
    BY <1>1 DEF CellsIn
  <2> HIDE DEF Column
  <2> QED
    BY <2>1, <2>2
<1>8. \A n \in Nat : IsFiniteSet(Column(n)) /\ Cardinality(Column(n)) = n
  <2> SUFFICES ASSUME NEW n \in Nat
               PROVE  IsFiniteSet(Column(n)) /\ Cardinality(Column(n)) = n
    OBVIOUS
  <2>1. 0 \in Nat /\ 0 <= n
    OBVIOUS
  <2>2. IsFiniteSet(Column(n)) /\ Cardinality(Column(n)) = n - 0
    BY <2>1, ColumnSize
  <2> QED
    BY <2>2
<1>9. IsFiniteSet(CellsIn(rest)) /\ Cardinality(CellsIn(rest)) \in Nat
  BY <1>3, CellsFinite
<1> HIDE DEF Column, old
<1>10. \A n \in Nat : Cardinality(CellsIn(rest) \cup Column(n))
                          = Cardinality(CellsIn(rest)) + n
  BY <1>7, <1>8, <1>9, DisjointSum
<1>11. /\ Cardinality(CellsIn(g)) = Cardinality(CellsIn(rest)) + Len(block)
       /\ Cardinality(CellsIn(f)) = Cardinality(CellsIn(rest)) + old
  BY <1>4, <1>5, <1>6, <1>9, <1>10
<1>12. Cardinality(CellsIn(g)) = Cardinality(CellsIn(f)) + Len(block) - old
  BY <1>4, <1>9, <1>11
<1> QED
  BY <1>12 DEF g, old

-----------------------------------------------------------------------------
(* The recency list.                                                       *)

Distinct(s) == \A i, j \in 1..Len(s) : s[i] = s[j] => i = j

(* g is Touch's kept, for the blocks of S and the first j places. *)
KeptUpTo(g, ids, S, j) ==
    g = [k \in 0..j |-> IF k = 0 THEN <<>>
                        ELSE IF ids[k] \in S THEN g[k - 1]
                        ELSE Append(g[k - 1], ids[k])]

LEMMA KeptValues ==
    ASSUME NEW g, NEW ids, NEW S, NEW n \in Nat, KeptUpTo(g, ids, S, n)
    PROVE  /\ g[0] = <<>>
           /\ \A k \in 1..n : g[k] = IF ids[k] \in S THEN g[k - 1]
                                    ELSE Append(g[k - 1], ids[k])
<1> DEFINE e(k) == IF k = 0 THEN <<>>
                   ELSE IF ids[k] \in S THEN g[k - 1]
                   ELSE Append(g[k - 1], ids[k])
<1>1. g = [k \in 0..n |-> e(k)]
  BY DEF KeptUpTo
<1> HIDE DEF e
<1>2. \A k \in 0..n : g[k] = e(k)
  BY <1>1
<1>3. g[0] = e(0) /\ \A k \in 1..n : g[k] = e(k) /\ k # 0
  BY <1>2
<1> QED
  BY <1>3 DEF e

LEMMA Members ==
    ASSUME NEW s \in Seq(Nat)
    PROVE  ToSet(s) = {s[k] : k \in 1..Len(s)} /\ Len(s) \in Nat
BY DEF ToSet

LEMMA KeptExists ==
    ASSUME NEW ids, NEW S, NEW n \in Nat
    PROVE  \E g : KeptUpTo(g, ids, S, n)
<1> DEFINE X == {j \in Nat : \E g : KeptUpTo(g, ids, S, j)}
<1>1. 0 \in X
  <2> DEFINE g == [k \in 0..0 |-> <<>>]
  <2>1. KeptUpTo(g, ids, S, 0)
    BY DEF KeptUpTo
  <2> QED
    BY <2>1
<1>2. ASSUME NEW j \in X PROVE j + 1 \in X
  <2>1. PICK g : KeptUpTo(g, ids, S, j)
    OBVIOUS
  <2> DEFINE last == IF ids[j + 1] \in S THEN g[j] ELSE Append(g[j], ids[j + 1])
             h    == [k \in 0..(j + 1) |-> IF k <= j THEN g[k] ELSE last]
             e(k) == IF k = 0 THEN <<>>
                     ELSE IF ids[k] \in S THEN h[k - 1] ELSE Append(h[k - 1], ids[k])
  <2>2. j \in Nat /\ j + 1 \in Nat
    OBVIOUS
  <2>3. ASSUME NEW k \in 0..(j + 1) PROVE h[k] = e(k)
    <3>1. CASE k = 0
      <4>1. g[0] = <<>>
        BY <2>1, <2>2 DEF KeptUpTo
      <4> QED
        BY <2>2, <3>1, <4>1
    <3>2. CASE k \in 1..j
      <4>1. k - 1 \in 0..j /\ k - 1 <= j
        BY <2>2, <3>2
      <4>2. h[k - 1] = g[k - 1] /\ h[k] = g[k]
        BY <2>2, <3>2, <4>1
      <4>3. g[k] = IF ids[k] \in S THEN g[k - 1] ELSE Append(g[k - 1], ids[k])
        BY <2>1, <2>2, <3>2, KeptValues
      <4> QED
        BY <3>2, <4>2, <4>3
    <3>3. CASE k = j + 1
      <4>1. h[k] = last /\ h[k - 1] = g[j] /\ k # 0
        BY <2>2, <3>3
      <4> QED
        BY <3>3, <4>1
    <3> QED
      BY <2>2, <3>1, <3>2, <3>3
  <2>4. h = [k \in 0..(j + 1) |-> e(k)]
    <3> HIDE DEF last, e
    <3>1. h = [k \in 0..(j + 1) |-> h[k]]
      OBVIOUS
    <3> HIDE DEF h
    <3> QED
      BY <2>3, <3>1
  <2> HIDE DEF h
  <2>5. KeptUpTo(h, ids, S, j + 1)
    BY <2>4 DEF KeptUpTo
  <2> QED
    BY <2>2, <2>5
<1> HIDE DEF X
<1>3. X = Nat
  <2>1. X \subseteq Nat
    BY DEF X
  <2> QED
    BY <1>1, <1>2, <2>1, Induct
<1> QED
  BY <1>3 DEF X

(* What kept holds after k places. *)
KeptRight(s, ids, S, k) ==
    /\ s \in Seq(Nat)
    /\ Distinct(s)
    /\ ToSet(s) = {ids[i] : i \in 1..k} \ S

LEMMA AppendNew ==
    ASSUME NEW s \in Seq(Nat), Distinct(s), NEW e \in Nat, e \notin ToSet(s)
    PROVE  LET t == Append(s, e)
           IN  t \in Seq(Nat) /\ Distinct(t) /\ ToSet(t) = ToSet(s) \cup {e}
<1> DEFINE t == Append(s, e)
<1>1. /\ t \in Seq(Nat) /\ Len(t) = Len(s) + 1 /\ t[Len(s) + 1] = e
      /\ \A i \in 1..Len(s) : t[i] = s[i]
      /\ Len(s) \in Nat
  OBVIOUS
<1> HIDE DEF t
<1>2. ToSet(s) = {s[i] : i \in 1..Len(s)} /\ ToSet(t) = {t[i] : i \in 1..Len(t)}
  BY <1>1, Members
<1>3. \A i \in 1..Len(s) : s[i] # e
  BY <1>2
<1>4. Distinct(t)
  <2>1. \A i \in 1..Len(t) : i \in 1..Len(s) \/ i = Len(s) + 1
    BY <1>1
  <2> QED
    BY <1>1, <1>3, <2>1 DEF Distinct
<1>5. ToSet(t) = ToSet(s) \cup {e}
  <2>1. \A x \in ToSet(t) : x \in ToSet(s) \cup {e}
    <3> SUFFICES ASSUME NEW i \in 1..Len(t) PROVE t[i] \in ToSet(s) \cup {e}
      BY <1>2
    <3>1. i \in 1..Len(s) \/ i = Len(s) + 1
      BY <1>1
    <3>2. CASE i \in 1..Len(s)
      BY <1>1, <1>2, <3>2
    <3>3. CASE i = Len(s) + 1
      BY <1>1, <3>3
    <3> QED
      BY <3>1, <3>2, <3>3
  <2>2. \A x \in ToSet(s) : x \in ToSet(t)
    <3> SUFFICES ASSUME NEW i \in 1..Len(s) PROVE s[i] \in ToSet(t)
      BY <1>2
    <3>1. t[i] = s[i] /\ i \in 1..Len(t)
      BY <1>1
    <3> QED
      BY <1>2, <3>1
  <2>3. e \in ToSet(t)
    <3>1. Len(s) + 1 \in 1..Len(t)
      BY <1>1
    <3> QED
      BY <1>1, <1>2, <3>1
  <2> QED
    BY <2>1, <2>2, <2>3
<1> QED
  BY <1>1, <1>4, <1>5 DEF t

LEMMA KeptInvariant ==
    ASSUME NEW ids \in Seq(Nat), Distinct(ids), NEW S, NEW g,
           KeptUpTo(g, ids, S, Len(ids)), NEW n \in 0..Len(ids)
    PROVE  KeptRight(g[n], ids, S, n)
<1> DEFINE X == {k \in Nat : k <= Len(ids) => KeptRight(g[k], ids, S, k)}
<1>1. 0 \in X
  <2>1. g[0] = <<>>
    BY DEF KeptUpTo
  <2>2. KeptRight(<<>>, ids, S, 0)
    BY DEF KeptRight, Distinct, ToSet
  <2> QED
    BY <2>1, <2>2
<1>2. ASSUME NEW k \in X PROVE k + 1 \in X
  <2> SUFFICES ASSUME k + 1 <= Len(ids) PROVE KeptRight(g[k + 1], ids, S, k + 1)
    OBVIOUS
  <2>1. k \in Nat /\ k <= Len(ids) /\ k + 1 \in 1..Len(ids) /\ Len(ids) \in Nat
    OBVIOUS
  <2>2. KeptRight(g[k], ids, S, k)
    BY <2>1
  <2>3. g[k + 1] = IF ids[k + 1] \in S THEN g[k] ELSE Append(g[k], ids[k + 1])
    <3>1. g[k + 1] = IF ids[k + 1] \in S THEN g[(k + 1) - 1]
                     ELSE Append(g[(k + 1) - 1], ids[k + 1])
      BY <2>1, KeptValues
    <3>2. (k + 1) - 1 = k
      BY <2>1
    <3> QED
      BY <3>1, <3>2
  <2> DEFINE seen == {ids[i] : i \in 1..k}
  <2>4. {ids[i] : i \in 1..(k + 1)} = seen \cup {ids[k + 1]}
    <3>1. 1..(k + 1) = 1..k \cup {k + 1}
      BY <2>1
    <3> QED
      BY <3>1
  <2>5. ids[k + 1] \notin seen
    <3>1. \A i \in 1..k : i \in 1..Len(ids) /\ i # k + 1
      BY <2>1
    <3>2. \A i \in 1..k : ids[i] # ids[k + 1]
      BY <2>1, <3>1 DEF Distinct
    <3> QED
      BY <3>2
  <2>6. CASE ids[k + 1] \in S
    <3>1. (seen \cup {ids[k + 1]}) \ S = seen \ S
      BY <2>6
    <3> HIDE DEF seen
    <3> QED
      BY <2>2, <2>3, <2>4, <2>6, <3>1 DEF KeptRight, seen
  <2>7. CASE ids[k + 1] \notin S
    <3>1. (seen \cup {ids[k + 1]}) \ S = (seen \ S) \cup {ids[k + 1]}
      BY <2>7
    <3>2. ids[k + 1] \in Nat
      BY <2>1
    <3>3. ToSet(g[k]) = seen \ S
      BY <2>2 DEF KeptRight
    <3> HIDE DEF seen
    <3>4. ids[k + 1] \notin ToSet(g[k])
      BY <2>5, <3>3
    <3>5. /\ Append(g[k], ids[k + 1]) \in Seq(Nat)
          /\ Distinct(Append(g[k], ids[k + 1]))
          /\ ToSet(Append(g[k], ids[k + 1])) = ToSet(g[k]) \cup {ids[k + 1]}
      BY <2>2, <3>2, <3>4, AppendNew DEF KeptRight
    <3>6. g[k + 1] = Append(g[k], ids[k + 1])
      BY <2>3, <2>7
    <3> QED
      BY <2>4, <3>1, <3>3, <3>5, <3>6 DEF KeptRight
  <2> QED
    BY <2>6, <2>7
<1>3. n \in Nat /\ n <= Len(ids)
  OBVIOUS
<1> HIDE DEF X
<1>4. X = Nat
  <2>1. X \subseteq Nat
    BY DEF X
  <2> QED
    BY <1>1, <1>2, <2>1, Induct
<1> QED
  BY <1>3, <1>4 DEF X

LEMMA Joined ==
    ASSUME NEW a \in Seq(Nat), NEW b \in Seq(Nat)
    PROVE  /\ a \o b \in Seq(Nat)
           /\ Len(a \o b) = Len(a) + Len(b)
           /\ Len(a) \in Nat
           /\ \A k \in 1..Len(a) : k \in 1..Len(a \o b) /\ (a \o b)[k] = a[k]
           /\ \A k \in 1..Len(b) : /\ Len(a) + k \in 1..Len(a \o b)
                                  /\ (a \o b)[Len(a) + k] = b[k]
OBVIOUS

(* Touch keeps each block once, and adds none but those it touches. *)
LEMMA TouchOnce ==
    ASSUME NEW ids \in Seq(Nat), Distinct(ids), NEW first \in Nat, NEW n \in Nat
    PROVE  LET t == Touch(ids, first, n)
           IN  /\ t \in Seq(Nat)
               /\ Distinct(t)
               /\ ToSet(t) = ToSet(ids) \cup (first..(first + n - 1))
<1> DEFINE S == first..(first + n - 1)
           g == CHOOSE f : KeptUpTo(f, ids, S, Len(ids))
           a == g[Len(ids)]
           b == [k \in 1..n |-> first + k - 1]
           t == a \o b
<1>1. KeptUpTo(g, ids, S, Len(ids))
  <2> HIDE DEF S
  <2>1. Len(ids) \in Nat
    OBVIOUS
  <2>2. \E f : KeptUpTo(f, ids, S, Len(ids))
    BY <2>1, KeptExists
  <2> QED
    BY <2>2
<1>2. Touch(ids, first, n) = t
  BY DEF Touch, KeptUpTo
<1> HIDE DEF g
<1>3. KeptRight(a, ids, S, Len(ids))
  <2> HIDE DEF S
  <2>1. Len(ids) \in 0..Len(ids)
    OBVIOUS
  <2> QED
    BY <1>1, <2>1, KeptInvariant
<1> HIDE DEF a
<1>4. /\ a \in Seq(Nat) /\ Distinct(a)
      /\ ToSet(a) = ToSet(ids) \ S
  <2> HIDE DEF S
  <2> QED
    BY <1>3, Members DEF KeptRight
<1>5. /\ b \in Seq(Nat) /\ Len(b) = n
      /\ \A k \in 1..n : b[k] = first + k - 1 /\ b[k] \in S
  <2>1. \A k \in 1..n : first + k - 1 \in Nat /\ first + k - 1 \in S
    OBVIOUS
  <2>2. b \in [1..n -> Nat]
    BY <2>1
  <2> QED
    BY <2>1, <2>2
<1>6. \A x \in S : \E k \in 1..n : x = b[k]
  <2> TAKE x \in S
  <2>1. x - first + 1 \in 1..n /\ x = first + (x - first + 1) - 1
    OBVIOUS
  <2> QED
    BY <1>5, <2>1
<1> HIDE DEF b
<1>7. /\ t \in Seq(Nat) /\ Len(t) = Len(a) + n /\ Len(a) \in Nat
      /\ \A k \in 1..Len(a) : k \in 1..Len(t) /\ t[k] = a[k]
      /\ \A k \in 1..n : Len(a) + k \in 1..Len(t) /\ t[Len(a) + k] = b[k]
  <2>1. a \in Seq(Nat) /\ b \in Seq(Nat)
    BY <1>4, <1>5
  <2>2. Len(b) = n
    BY <1>5
  <2> HIDE DEF S
  <2> QED
    BY <2>1, <2>2, Joined
<1> HIDE DEF t
<1>8. \A i \in 1..Len(t) : \/ i \in 1..Len(a)
                           \/ \E k \in 1..n : i = Len(a) + k
  <2> TAKE i \in 1..Len(t)
  <2>1. i > Len(a) => i - Len(a) \in 1..n /\ i = Len(a) + (i - Len(a))
    BY <1>7
  <2> QED
    <3>1. CASE i > Len(a)
      BY <2>1, <3>1
    <3>2. CASE ~(i > Len(a))
      BY <1>7, <3>2
    <3> QED
      BY <3>1, <3>2
<1>9. ToSet(a) = {a[k] : k \in 1..Len(a)} /\ ToSet(t) = {t[k] : k \in 1..Len(t)}
  BY <1>4, <1>7, Members
<1>10. \A k \in 1..Len(a) : a[k] \notin S
  BY <1>4, <1>9
<1>11. Distinct(t)
  <2> SUFFICES ASSUME NEW i \in 1..Len(t), NEW j \in 1..Len(t), t[i] = t[j]
               PROVE  i = j
    BY DEF Distinct
  <2>1. ASSUME i \in 1..Len(a), j \in 1..Len(a) PROVE i = j
    BY <1>4, <1>7, <2>1 DEF Distinct
  <2>2. ASSUME NEW k \in 1..n, NEW l \in 1..n, i = Len(a) + k, j = Len(a) + l
        PROVE  i = j
    <3>1. first + k - 1 = first + l - 1
      <4> HIDE DEF S
      <4> QED
        BY <1>5, <1>7, <2>2
    <3> QED
      BY <2>2, <3>1
  <2>3. ASSUME NEW k \in 1..Len(a), NEW l \in 1..n PROVE t[k] # t[Len(a) + l]
    <3> HIDE DEF S
    <3> QED
      BY <1>5, <1>7, <1>10
  <2> QED
    BY <1>8, <2>1, <2>2, <2>3
<1>12. ToSet(t) = ToSet(a) \cup S
  <2> HIDE DEF S
  <2>1. ASSUME NEW k \in 1..Len(t) PROVE t[k] \in ToSet(a) \cup S
    <3>1. CASE k \in 1..Len(a)
      BY <1>7, <1>9, <3>1
    <3>2. CASE \E l \in 1..n : k = Len(a) + l
      BY <1>5, <1>7, <3>2
    <3> QED
      BY <1>8, <3>1, <3>2
  <2>2. ASSUME NEW k \in 1..Len(a) PROVE a[k] \in ToSet(t)
    BY <1>7, <1>9
  <2>3. ASSUME NEW x \in S PROVE x \in ToSet(t)
    BY <1>6, <1>7, <1>9
  <2> QED
    BY <1>9, <2>1, <2>2, <2>3
<1> QED
  BY <1>2, <1>4, <1>7, <1>11, <1>12 DEF S

(* Block x is older than block y in a recency list. *)
Before(ids, x, y) ==
    \E j, k \in 1..Len(ids) : j < k /\ ids[j] = x /\ ids[k] = y

(* s lists some of the first n places of ids in the order they have there. *)
InOrder(s, ids, n) ==
    \A a, b \in 1..Len(s) : a < b => \E p, q \in 1..n : p < q /\ ids[p] = s[a] /\ ids[q] = s[b]

LEMMA KeptOrder ==
    ASSUME NEW ids \in Seq(Nat), Distinct(ids), NEW S, NEW g,
           KeptUpTo(g, ids, S, Len(ids)), NEW n \in 0..Len(ids)
    PROVE  InOrder(g[n], ids, n)
<1> DEFINE X == {k \in Nat : k <= Len(ids) => InOrder(g[k], ids, k)}
<1>1. 0 \in X
  <2>1. g[0] = <<>>
    BY DEF KeptUpTo
  <2> QED
    BY <2>1 DEF InOrder
<1>2. ASSUME NEW k \in X PROVE k + 1 \in X
  <2> SUFFICES ASSUME k + 1 <= Len(ids) PROVE InOrder(g[k + 1], ids, k + 1)
    OBVIOUS
  <2>1. /\ k \in Nat /\ k <= Len(ids) /\ k + 1 \in 1..Len(ids) /\ Len(ids) \in Nat
        /\ k \in 0..Len(ids) /\ (k + 1) - 1 = k
    OBVIOUS
  <2> DEFINE s == g[k]
             e == ids[k + 1]
             t == g[k + 1]
  <2>2. InOrder(s, ids, k)
    BY <2>1
  <2>3. s \in Seq(Nat) /\ ToSet(s) = {ids[i] : i \in 1..k} \ S
    BY <2>1, KeptInvariant DEF KeptRight
  <2>4. e \in Nat
    BY <2>1
  <2>5. t = IF e \in S THEN s ELSE Append(s, e)
    <3>1. t = IF e \in S THEN g[(k + 1) - 1] ELSE Append(g[(k + 1) - 1], e)
      BY <2>1, KeptValues
    <3> QED
      BY <2>1, <3>1
  <2> SUFFICES InOrder(t, ids, k + 1)
    OBVIOUS
  <2> HIDE DEF s, t
  <2>6. ASSUME NEW a \in 1..Len(s), NEW b \in 1..Len(s), a < b
        PROVE  \E p, q \in 1..(k + 1) : p < q /\ ids[p] = s[a] /\ ids[q] = s[b]
    <3>1. PICK p \in 1..k, q \in 1..k : p < q /\ ids[p] = s[a] /\ ids[q] = s[b]
      BY <2>2, <2>6 DEF InOrder
    <3>2. p \in 1..(k + 1) /\ q \in 1..(k + 1)
      BY <2>1
    <3> QED
      BY <3>1, <3>2
  <2>7. CASE e \in S
    <3>1. t = s
      BY <2>5, <2>7
    <3> SUFFICES InOrder(s, ids, k + 1)
      BY <3>1
    <3> QED
      BY <2>6 DEF InOrder
  <2>8. CASE e \notin S
    <3>1. t = Append(s, e)
      BY <2>5, <2>8
    <3>2. /\ Len(s) \in Nat /\ Len(t) = Len(s) + 1 /\ t[Len(s) + 1] = e
          /\ \A a \in 1..Len(s) : t[a] = s[a]
      BY <2>3, <2>4, <3>1
    <3>3. SUFFICES ASSUME NEW a \in 1..Len(t), NEW b \in 1..Len(t), a < b
                   PROVE  \E p, q \in 1..(k + 1) : p < q /\ ids[p] = t[a] /\ ids[q] = t[b]
      BY DEF InOrder
    <3>4. a \in 1..Len(s) /\ t[a] = s[a]
      BY <3>2, <3>3
    <3>5. CASE b \in 1..Len(s)
      <4>1. t[b] = s[b]
        BY <3>2, <3>5
      <4>2. PICK p \in 1..(k + 1), q \in 1..(k + 1) : p < q /\ ids[p] = s[a] /\ ids[q] = s[b]
        BY <2>6, <3>3, <3>4, <3>5
      <4> QED
        BY <3>4, <4>1, <4>2
    <3>6. CASE b = Len(s) + 1
      <4>1. s[a] \in ToSet(s)
        BY <2>3, <3>4, Members
      <4>2. PICK p \in 1..k : s[a] = ids[p]
        BY <2>3, <4>1
      <4>3. p \in 1..(k + 1) /\ k + 1 \in 1..(k + 1) /\ p < k + 1
        BY <2>1
      <4>4. t[b] = ids[k + 1] /\ t[a] = ids[p]
        BY <3>2, <3>4, <3>6, <4>2
      <4> QED
        BY <4>3, <4>4
    <3> QED
      BY <3>2, <3>5, <3>6
  <2> QED
    BY <2>7, <2>8 DEF t
<1> HIDE DEF X
<1>3. X = Nat
  <2>1. X \subseteq Nat
    BY DEF X
  <2> QED
    BY <1>1, <1>2, <2>1, Induct
<1>4. n \in Nat /\ n <= Len(ids)
  OBVIOUS
<1> QED
  BY <1>3, <1>4 DEF X

(* Blocks moved to the recent end leave the others in the order they had. *)
LEMMA TouchKeeps ==
    ASSUME NEW ids \in Seq(Nat), Distinct(ids), NEW first \in Nat, NEW n \in Nat,
           NEW x \in Nat, NEW y \in Nat, Before(Touch(ids, first, n), x, y),
           y \notin first..(first + n - 1)
    PROVE  Before(ids, x, y)
<1> DEFINE S == first..(first + n - 1)
           m == Len(ids)
           g == CHOOSE f : KeptUpTo(f, ids, S, m)
           a == g[m]
           b == [k \in 1..n |-> first + k - 1]
           t == a \o b
<1>1. KeptUpTo(g, ids, S, m)
  <2> HIDE DEF S
  <2>1. m \in Nat
    OBVIOUS
  <2>2. \E f : KeptUpTo(f, ids, S, m)
    BY <2>1, KeptExists
  <2> QED
    BY <2>2
<1>2. Touch(ids, first, n) = t
  BY DEF Touch, KeptUpTo
<1> HIDE DEF g
<1>3. m \in 0..m /\ m \in Nat
  OBVIOUS
<1>4. a \in Seq(Nat) /\ InOrder(a, ids, m)
  <2> HIDE DEF S
  <2> QED
    BY <1>1, <1>3, KeptInvariant, KeptOrder DEF KeptRight
<1> HIDE DEF a
<1>5. b \in Seq(Nat) /\ Len(b) = n /\ \A k \in 1..n : b[k] \in S
  <2>1. \A k \in 1..n : first + k - 1 \in Nat /\ first + k - 1 \in S
    OBVIOUS
  <2>2. b \in [1..n -> Nat] /\ \A k \in 1..n : b[k] = first + k - 1
    BY <2>1
  <2> HIDE DEF b, S
  <2>3. b \in Seq(Nat) /\ Len(b) = n
    BY <2>2
  <2> QED
    BY <2>1, <2>2, <2>3
<1> HIDE DEF b
<1>6. /\ Len(t) = Len(a) + n /\ Len(a) \in Nat
      /\ \A k \in 1..Len(a) : t[k] = a[k]
      /\ \A k \in 1..n : t[Len(a) + k] = b[k]
  <2>1. a \in Seq(Nat) /\ b \in Seq(Nat)
    BY <1>4, <1>5
  <2>2. /\ Len(t) = Len(a) + Len(b) /\ Len(a) \in Nat
        /\ \A k \in 1..Len(a) : t[k] = a[k]
        /\ \A k \in 1..Len(b) : t[Len(a) + k] = b[k]
    BY <2>1, Joined
  <2> HIDE DEF t
  <2> QED
    BY <1>5, <2>2
<1> HIDE DEF t, m
<1>7. PICK j \in 1..Len(t), k \in 1..Len(t) : j < k /\ t[j] = x /\ t[k] = y
  BY <1>2 DEF Before
<1>8. j \in 1..Len(a) /\ k \in 1..Len(a)
  <2>1. k <= Len(a)
    <3> SUFFICES ASSUME k > Len(a) PROVE FALSE
      BY <1>6, <1>7
    <3> DEFINE i == k - Len(a)
    <3>1. i \in 1..n /\ k = Len(a) + i
      BY <1>6, <1>7
    <3> HIDE DEF i, S
    <3>2. t[k] = b[i] /\ b[i] \in S
      BY <1>5, <1>6, <3>1
    <3> QED
      BY <1>7, <3>2 DEF S
  <2> QED
    BY <1>6, <1>7, <2>1
<1>9. a[j] = x /\ a[k] = y
  BY <1>6, <1>7, <1>8
<1>10. PICK p \in 1..m, q \in 1..m : p < q /\ ids[p] = x /\ ids[q] = y
  <2>1. InOrder(a, ids, m) /\ j < k
    BY <1>4, <1>7
  <2>2. \E p, q \in 1..m : p < q /\ ids[p] = a[j] /\ ids[q] = a[k]
    BY <1>8, <2>1, Zenon DEF InOrder
  <2> QED
    BY <1>9, <2>2
<1> QED
  BY <1>10 DEF Before, m

(* Moving one block to the recent end leaves the others in their order, *)
(* and the one that was the most recent before it next to the end. *)
LEMMA TouchOrder ==
    ASSUME NEW ids \in Seq(Nat), Distinct(ids), NEW idx \in Nat
    PROVE  LET t == Touch(ids, idx, 1)
           IN  /\ Len(t) >= 1 /\ t[Len(t)] = idx
               /\ \A x, y \in Nat : Before(t, x, y) /\ y # idx => Before(ids, x, y)
               /\ Len(ids) >= 1 /\ ids[Len(ids)] # idx
                      => Len(t) >= 2 /\ t[Len(t) - 1] = ids[Len(ids)]
<1> DEFINE S == idx..(idx + 1 - 1)
           m == Len(ids)
           g == CHOOSE f : KeptUpTo(f, ids, S, m)
           a == g[m]
           b == [k \in 1..1 |-> idx + k - 1]
           t == a \o b
<1>1. KeptUpTo(g, ids, S, m)
  <2> HIDE DEF S
  <2>1. m \in Nat
    OBVIOUS
  <2>2. \E f : KeptUpTo(f, ids, S, m)
    BY <2>1, KeptExists
  <2> QED
    BY <2>2
<1>2. Touch(ids, idx, 1) = t
  BY DEF Touch, KeptUpTo
<1>3. S = {idx}
  OBVIOUS
<1> HIDE DEF g, S
<1>4. m \in 0..m /\ m \in Nat
  OBVIOUS
<1>5. a \in Seq(Nat) /\ InOrder(a, ids, m)
  BY <1>1, <1>4, KeptInvariant, KeptOrder DEF KeptRight
<1>6. ASSUME m >= 1, ids[m] # idx PROVE Len(a) >= 1 /\ a[Len(a)] = ids[m]
  <2>1. m \in 1..m /\ m - 1 \in 0..m /\ ids[m] \in Nat /\ ids[m] \notin S
    BY <1>3, <1>4, <1>6
  <2>2. a = Append(g[m - 1], ids[m])
    <3>1. \A k \in 1..m : g[k] = IF ids[k] \in S THEN g[k - 1] ELSE Append(g[k - 1], ids[k])
      BY <1>1, <1>4, KeptValues
    <3> QED
      BY <2>1, <3>1
  <2>3. g[m - 1] \in Seq(Nat)
    BY <1>1, <2>1, KeptInvariant DEF KeptRight
  <2> HIDE DEF a
  <2> QED
    BY <2>1, <2>2, <2>3
<1> HIDE DEF a
<1>7. b \in Seq(Nat) /\ Len(b) = 1 /\ b[1] = idx
  OBVIOUS
<1> HIDE DEF b
<1>8. /\ t \in Seq(Nat) /\ Len(t) = Len(a) + 1 /\ Len(a) \in Nat
      /\ \A k \in 1..Len(a) : t[k] = a[k]
      /\ t[Len(a) + 1] = idx
  <2>1. 1 \in 1..Len(b)
    BY <1>7
  <2>2. /\ t \in Seq(Nat) /\ Len(t) = Len(a) + Len(b) /\ Len(a) \in Nat
        /\ \A k \in 1..Len(a) : t[k] = a[k]
        /\ \A k \in 1..Len(b) : t[Len(a) + k] = b[k]
    <3>1. a \in Seq(Nat) /\ b \in Seq(Nat)
      BY <1>5, <1>7
    <3> QED
      BY <3>1, Joined
  <2> HIDE DEF t
  <2> QED
    BY <1>7, <2>1, <2>2
<1> HIDE DEF t, m
<1>9. ASSUME NEW x \in Nat, NEW y \in Nat, Before(t, x, y), y # idx
      PROVE  Before(ids, x, y)
  <2> DEFINE one == 1
  <2>1. y \notin idx..(idx + one - 1) /\ one \in Nat
    BY <1>9
  <2>2. Before(Touch(ids, idx, one), x, y)
    BY <1>2, <1>9
  <2> HIDE DEF one
  <2> QED
    BY <2>1, <2>2, TouchKeeps
<1>10. Len(t) >= 1 /\ t[Len(t)] = idx
  BY <1>8
<1>11. m >= 1 /\ ids[m] # idx => Len(t) >= 2 /\ t[Len(t) - 1] = ids[m]
  <2> SUFFICES ASSUME m >= 1, ids[m] # idx PROVE Len(t) >= 2 /\ t[Len(t) - 1] = ids[m]
    OBVIOUS
  <2>1. Len(a) >= 1 /\ a[Len(a)] = ids[m]
    BY <1>6
  <2>2. Len(t) - 1 = Len(a) /\ Len(a) \in 1..Len(a)
    BY <1>8, <2>1
  <2> QED
    BY <1>8, <2>1, <2>2
<1> QED
  BY <1>2, <1>9, <1>10, <1>11 DEF m

-----------------------------------------------------------------------------
(* A cache whose accounts are right: the recency list names each resident  *)
(* block once, and the counter is the number of cells they hold.           *)

Blocks(f) ==
    /\ IsFiniteSet(DOMAIN f)
    /\ DOMAIN f \subseteq Nat
    /\ \A i \in DOMAIN f : f[i] \in Seq(Nat) /\ Len(f[i]) \in 1..BLOCK_SIZE

Accounted(c) ==
    /\ c = [blocks |-> c.blocks, lru |-> c.lru,
            pending |-> c.pending, resident |-> c.resident]
    /\ Blocks(c.blocks)
    /\ c.lru \in Seq(Nat) /\ Distinct(c.lru)
    /\ ToSet(c.lru) = DOMAIN c.blocks
    /\ c.resident = Cardinality(CellsIn(c.blocks))

(* The buffers of blocks that are not complete yet. *)
Awaiting(f) ==
    /\ IsFiniteSet(DOMAIN f)
    /\ DOMAIN f \subseteq Nat
    /\ \A i \in DOMAIN f : f[i] \in Seq(Nat) /\ Len(f[i]) \in 1..(BlockLimit(i) - 1)

LEMMA DropAwaiting ==
    ASSUME NEW f, Awaiting(f), NEW S
    PROVE  Awaiting(Drop(f, S))
<1>1. /\ DOMAIN Drop(f, S) = (DOMAIN f) \ S
      /\ \A i \in DOMAIN Drop(f, S) : Drop(f, S)[i] = f[i]
  BY DEF Drop
<1>2. IsFiniteSet(DOMAIN Drop(f, S))
  <2>1. IsFiniteSet(DOMAIN f)
    BY DEF Awaiting
  <2>2. IsFiniteSet((DOMAIN f) \ S)
    BY <2>1, FS_Difference
  <2> QED
    BY <1>1, <2>2
<1> QED
  BY <1>1, <1>2 DEF Awaiting

LEMMA PutBlocks ==
    ASSUME NEW f, Blocks(f), NEW idx \in Nat,
           NEW block \in Seq(Nat), Len(block) \in 1..BLOCK_SIZE
    PROVE  Blocks(Put(f, idx, block))
<1>1. /\ DOMAIN Put(f, idx, block) = (DOMAIN f) \cup {idx}
      /\ \A i \in DOMAIN Put(f, idx, block) :
            Put(f, idx, block)[i] = IF i = idx THEN block ELSE f[i]
  BY DEF Put
<1>2. IsFiniteSet(DOMAIN Put(f, idx, block))
  <2>1. IsFiniteSet(DOMAIN f)
    BY DEF Blocks
  <2>2. IsFiniteSet((DOMAIN f) \cup {idx})
    BY <2>1, FS_AddElement
  <2> QED
    BY <1>1, <2>2
<1> QED
  BY <1>1, <1>2 DEF Blocks

LEMMA PutAwaiting ==
    ASSUME NEW f, Awaiting(f), NEW idx \in Nat,
           NEW buf \in Seq(Nat), Len(buf) \in 1..(BlockLimit(idx) - 1)
    PROVE  Awaiting(Put(f, idx, buf))
<1>1. /\ DOMAIN Put(f, idx, buf) = (DOMAIN f) \cup {idx}
      /\ \A i \in DOMAIN Put(f, idx, buf) :
            Put(f, idx, buf)[i] = IF i = idx THEN buf ELSE f[i]
  BY DEF Put
<1>2. IsFiniteSet(DOMAIN Put(f, idx, buf))
  <2>1. IsFiniteSet(DOMAIN f)
    BY DEF Awaiting
  <2> QED
    BY <1>1, <2>1, FS_AddElement
<1> QED
  BY <1>1, <1>2 DEF Awaiting

(* A commit, of a new block or in the place of one. *)
LEMMA CommitAccounted ==
    ASSUME NEW c, Accounted(c), NEW idx \in Nat,
           NEW block \in Seq(Nat), Len(block) \in 1..BLOCK_SIZE
    PROVE  /\ Accounted(Commit(c, idx, block))
           /\ Commit(c, idx, block).pending = Drop(c.pending, {idx})
<1> DEFINE d     == Commit(c, idx, block)
           known == idx \in DOMAIN c.blocks
           old   == IF known THEN Len(c.blocks[idx]) ELSE 0
           g     == Put(c.blocks, idx, block)
<1>1. /\ d = [blocks |-> d.blocks, lru |-> d.lru,
              pending |-> d.pending, resident |-> d.resident]
      /\ d.blocks = IF known /\ old = Len(block) THEN c.blocks ELSE g
      /\ d.lru = Touch(c.lru, idx, 1)
      /\ d.pending = Drop(c.pending, {idx})
      /\ d.resident = c.resident + Len(block) - old
  BY DEF Commit
<1> HIDE DEF d
<1>2. /\ d.lru \in Seq(Nat) /\ Distinct(d.lru)
      /\ ToSet(d.lru) = DOMAIN c.blocks \cup {idx}
  <2> DEFINE n == 1
             l == c.lru
             t == Touch(l, idx, n)
  <2>1. n \in Nat /\ idx..(idx + n - 1) = {idx}
    OBVIOUS
  <2>2. l \in Seq(Nat) /\ Distinct(l) /\ ToSet(l) = DOMAIN c.blocks
    BY DEF Accounted
  <2>3. d.lru = t
    BY <1>1
  <2>5. idx \in Nat
    OBVIOUS
  <2> HIDE DEF n, l
  <2>4. /\ t \in Seq(Nat) /\ Distinct(t)
        /\ ToSet(t) = ToSet(l) \cup (idx..(idx + n - 1))
    <3>1. n \in Nat
      BY <2>1
    <3>2. l \in Seq(Nat) /\ Distinct(l)
      BY <2>2
    <3> QED
      BY <2>5, <3>1, <3>2, TouchOnce
  <2> HIDE DEF t
  <2> QED
    BY <2>1, <2>2, <2>3, <2>4
<1>3. /\ Blocks(g) /\ DOMAIN g = DOMAIN c.blocks \cup {idx}
      /\ Blocks(c.blocks)
  <2>1. DOMAIN g = DOMAIN c.blocks \cup {idx}
    BY DEF Put
  <2> QED
    BY <2>1, PutBlocks DEF Accounted
<1>4. Cardinality(CellsIn(g)) = c.resident + Len(block) - old
  <2>1. /\ IsFiniteSet(DOMAIN c.blocks)
        /\ idx \in DOMAIN c.blocks => Len(c.blocks[idx]) \in 1..BLOCK_SIZE
        /\ Len(block) <= BLOCK_SIZE
    BY <1>3, CacheAssumption DEF Blocks
  <2> QED
    BY <2>1, CellsPut DEF Accounted
<1>5. c.resident \in Nat /\ Len(block) \in Nat
  BY <1>3, CellsFinite DEF Accounted, Blocks
<1>6. CASE known /\ old = Len(block)
  <2>1. d.blocks = c.blocks
    BY <1>1, <1>6
  <2>2. DOMAIN c.blocks \cup {idx} = DOMAIN c.blocks
    BY <1>6
  <2>3. d.resident = c.resident
    BY <1>1, <1>5, <1>6
  <2> QED
    BY <1>1, <1>2, <1>3, <2>1, <2>2, <2>3 DEF Accounted, d
<1>7. CASE ~(known /\ old = Len(block))
  <2>1. d.blocks = g
    BY <1>1, <1>7
  <2> QED
    BY <1>1, <1>2, <1>3, <1>4, <2>1 DEF Accounted, d
<1> QED
  BY <1>6, <1>7

LEMMA TailOf ==
    ASSUME NEW s \in Seq(Nat), NEW n \in 0..Len(s)
    PROVE  LET t == SubSeq(s, n + 1, Len(s))
           IN  /\ t \in Seq(Nat)
               /\ Len(t) = Len(s) - n
               /\ \A k \in 1..(Len(s) - n) : t[k] = s[n + k] /\ n + k \in 1..Len(s)
OBVIOUS

(* What is left of the recency list, and of the blocks, without the n      *)
(* oldest.                                                                 *)
LEMMA OldestGone ==
    ASSUME NEW c, Accounted(c), NEW n \in 0..Len(c.lru)
    PROVE  LET lru == SubSeq(c.lru, n + 1, Len(c.lru))
               blocks == Drop(c.blocks, Oldest(c, n))
           IN  /\ Blocks(blocks)
               /\ lru \in Seq(Nat) /\ Distinct(lru)
               /\ ToSet(lru) = DOMAIN blocks
               /\ ResidentWithout(c, n) = Cardinality(CellsIn(blocks))
<1> DEFINE m      == Len(c.lru)
           lru    == SubSeq(c.lru, n + 1, m)
           S      == Oldest(c, n)
           blocks == Drop(c.blocks, S)
<1>1. /\ m \in Nat /\ n \in Nat /\ n <= m
      /\ c.lru \in Seq(Nat) /\ Distinct(c.lru)
      /\ DOMAIN c.blocks = {c.lru[k] : k \in 1..m}
  BY Members DEF Accounted
<1>2. /\ lru \in Seq(Nat) /\ Len(lru) = m - n
      /\ \A k \in 1..(m - n) : lru[k] = c.lru[n + k] /\ n + k \in 1..m
  BY <1>1, TailOf
<1> HIDE DEF lru
<1>3. Distinct(lru)
  <2> SUFFICES ASSUME NEW i \in 1..(m - n), NEW j \in 1..(m - n), lru[i] = lru[j]
               PROVE  i = j
    BY <1>2 DEF Distinct
  <2>1. n + i = n + j
    BY <1>1, <1>2 DEF Distinct
  <2> QED
    BY <1>1, <2>1
<1>4. S \subseteq DOMAIN c.blocks
  <2>1. \A k \in 1..n : k \in 1..m
    BY <1>1
  <2> QED
    BY <1>1, <2>1 DEF Oldest
<1>5. /\ DOMAIN blocks = (DOMAIN c.blocks) \ S
      /\ \A i \in DOMAIN blocks : blocks[i] = c.blocks[i]
  BY DEF Drop
<1>6. Blocks(blocks)
  <2>1. IsFiniteSet(DOMAIN blocks)
    <3>1. IsFiniteSet(DOMAIN c.blocks)
      BY DEF Accounted, Blocks
    <3>2. IsFiniteSet((DOMAIN c.blocks) \ S)
      BY <3>1, FS_Difference
    <3> QED
      BY <1>5, <3>2
  <2> HIDE DEF blocks
  <2> QED
    BY <1>5, <2>1 DEF Accounted, Blocks
<1>7. ToSet(lru) = DOMAIN blocks
  <2>1. ToSet(lru) = {lru[k] : k \in 1..(m - n)}
    BY <1>2, Members
  <2>2. ASSUME NEW k \in 1..(m - n) PROVE lru[k] \in (DOMAIN c.blocks) \ S
    <3>1. lru[k] \in DOMAIN c.blocks
      BY <1>1, <1>2
    <3>2. \A j \in 1..n : c.lru[j] # lru[k]
      <4> TAKE j \in 1..n
      <4>1. j \in 1..m /\ n + k \in 1..m /\ j # n + k
        BY <1>1
      <4> QED
        BY <1>1, <1>2, <4>1 DEF Distinct
    <3> QED
      BY <3>1, <3>2 DEF Oldest
  <2>3. ASSUME NEW x \in (DOMAIN c.blocks) \ S PROVE x \in ToSet(lru)
    <3>1. PICK j \in 1..m : x = c.lru[j]
      BY <1>1
    <3>2. j > n
      BY <1>1, <3>1, <2>3 DEF Oldest
    <3>3. j - n \in 1..(m - n) /\ n + (j - n) = j
      BY <1>1, <3>2
    <3>4. lru[j - n] = c.lru[j]
      BY <1>2, <3>3
    <3> QED
      BY <2>1, <3>1, <3>3, <3>4
  <2> QED
    BY <1>5, <2>1, <2>2, <2>3
<1>8. ResidentWithout(c, n) = Cardinality(CellsIn(blocks))
  <2>1. IsFiniteSet(DOMAIN c.blocks) /\ S \in SUBSET DOMAIN c.blocks
    BY <1>4 DEF Accounted, Blocks
  <2>2. Cardinality(CellsIn(blocks))
            = c.resident - Cardinality(CellsIn(Restrict(c.blocks, S)))
    BY <2>1, CellsSplit DEF Accounted
  <2> QED
    BY <2>2 DEF ResidentWithout
<1> QED
  BY <1>2, <1>3, <1>6, <1>7, <1>8 DEF lru

LEMMA CapacityNat == capacity \in Nat
BY CacheAssumption DEF capacity

(* Eviction takes as much of the front of the recency list as it has to. *)
LEMMA EvictFront ==
    ASSUME NEW c, Accounted(c)
    PROVE  \E n \in 0..Len(c.lru) :
               /\ ResidentWithout(c, n) <= capacity \/ n = Len(c.lru)
               /\ \A j \in 0..(n - 1) : ResidentWithout(c, j) > capacity
               /\ Evict(c) = [blocks   |-> Drop(c.blocks, Oldest(c, n)),
                              lru      |-> SubSeq(c.lru, n + 1, Len(c.lru)),
                              pending  |-> c.pending,
                              resident |-> ResidentWithout(c, n)]
<1> DEFINE m == Len(c.lru)
           Enough(k) == ResidentWithout(c, k) <= capacity \/ k = m
           Right(k)  == /\ Enough(k)
                        /\ \A j \in 0..(k - 1) : ResidentWithout(c, j) > capacity
           n == CHOOSE k \in 0..m : Right(k)
<1>1. m \in Nat
  BY DEF Accounted
<1>2. \A k \in 0..m : ResidentWithout(c, k) \in Nat
  BY OldestGone, CellsFinite DEF Blocks
<1>3. \E k \in 0..m : Right(k)
  <2> DEFINE X == {k \in 0..m : Enough(k)}
  <2>1. m \in X /\ X \subseteq Nat
    BY <1>1
  <2>2. PICK k \in X : \A j \in X : k <= j
    <3> HIDE DEF X
    <3> QED
      BY <2>1, Least
  <2>3. ASSUME NEW j \in 0..(k - 1) PROVE ResidentWithout(c, j) > capacity
    <3>1. j \in 0..m /\ j < k /\ j # m
      BY <1>1, <2>2
    <3>2. j \notin X
      BY <2>2, <3>1
    <3> QED
      BY <1>2, <3>1, <3>2, CapacityNat
  <2> QED
    BY <2>2, <2>3
<1>4. n \in 0..m /\ Right(n)
  <2> HIDE DEF Right
  <2> QED
    BY <1>3
<1>5. Evict(c) = [c EXCEPT !.blocks   = Drop(@, Oldest(c, n)),
                           !.lru      = SubSeq(@, n + 1, Len(@)),
                           !.resident = ResidentWithout(c, n)]
  BY DEF Evict
<1> HIDE DEF n
<1>6. Evict(c) = [blocks   |-> Drop(c.blocks, Oldest(c, n)),
                  lru      |-> SubSeq(c.lru, n + 1, Len(c.lru)),
                  pending  |-> c.pending,
                  resident |-> ResidentWithout(c, n)]
  BY <1>5 DEF Accounted
<1> QED
  BY <1>4, <1>6

(* Eviction ends within the capacity, whatever was too much before. *)
LEMMA EvictAccounted ==
    ASSUME NEW c, Accounted(c)
    PROVE  /\ Accounted(Evict(c))
           /\ Evict(c).resident <= capacity
           /\ Evict(c).pending = c.pending
<1> DEFINE m == Len(c.lru)
<1>1. m \in Nat
  BY DEF Accounted
<1>2. PICK n \in 0..m :
          /\ ResidentWithout(c, n) <= capacity \/ n = m
          /\ Evict(c) = [blocks   |-> Drop(c.blocks, Oldest(c, n)),
                         lru      |-> SubSeq(c.lru, n + 1, Len(c.lru)),
                         pending  |-> c.pending,
                         resident |-> ResidentWithout(c, n)]
  BY EvictFront
<1> DEFINE lru    == SubSeq(c.lru, n + 1, Len(c.lru))
           blocks == Drop(c.blocks, Oldest(c, n))
<1>3. /\ Blocks(blocks)
      /\ lru \in Seq(Nat) /\ Distinct(lru)
      /\ ToSet(lru) = DOMAIN blocks
      /\ ResidentWithout(c, n) = Cardinality(CellsIn(blocks))
  BY <1>2, OldestGone
<1>4. ResidentWithout(c, n) <= capacity
  <2>1. CASE n = m
    <3>1. SubSeq(c.lru, n + 1, Len(c.lru)) = <<>>
      BY <1>1, <2>1 DEF Accounted
    <3>2. DOMAIN blocks = {}
      <4>1. ToSet(<<>>) = {}
        BY DEF ToSet
      <4> QED
        BY <1>3, <3>1, <4>1
    <3> HIDE DEF blocks
    <3>3. CellsIn(blocks) = {}
      BY <3>2 DEF CellsIn
    <3> QED
      BY <1>3, <3>3, CapacityNat, FS_EmptySet
  <2> QED
    BY <1>2, <2>1
<1> HIDE DEF lru, blocks
<1>5. Evict(c) = [blocks |-> blocks, lru |-> lru, pending |-> c.pending,
                  resident |-> ResidentWithout(c, n)]
  BY <1>2 DEF lru, blocks
<1> QED
  BY <1>3, <1>4, <1>5 DEF Accounted

-----------------------------------------------------------------------------
(* The order of eviction.                                                  *)

(* Nothing but the blocks of M has moved to the recent end from c to d, and *)
(* every block of c is still there.                                         *)
Moved(c, d, M) ==
    /\ DOMAIN c.blocks \subseteq DOMAIN d.blocks
    /\ \A x, y \in Nat : Before(d.lru, x, y) /\ y \notin M => Before(c.lru, x, y)

LEMMA RecentBlock ==
    ASSUME NEW c, Accounted(c), NEW k \in 1..Len(c.lru)
    PROVE  c.lru[k] \in Recent(c) <=> k > Len(c.lru) - 2
<1>1. Recent(c) = {c.lru[n] : n \in {n \in 1..Len(c.lru) : n > Len(c.lru) - 2}}
  BY DEF Recent
<1>2. \A n \in 1..Len(c.lru) : c.lru[n] = c.lru[k] => n = k
  BY DEF Accounted, Distinct
<1> QED
  BY <1>1, <1>2

LEMMA CommitMoved ==
    ASSUME NEW c, Accounted(c), NEW idx \in Nat, NEW block
    PROVE  /\ Moved(c, Commit(c, idx, block), {idx})
           /\ Commit(c, idx, block).lru = Touch(c.lru, idx, 1)
<1> DEFINE d == Commit(c, idx, block)
<1>1. d.lru = Touch(c.lru, idx, 1)
  BY DEF Commit
<1>2. DOMAIN c.blocks \subseteq DOMAIN d.blocks
  <2>1. d.blocks = c.blocks \/ d.blocks = Put(c.blocks, idx, block)
    BY DEF Commit
  <2>2. DOMAIN Put(c.blocks, idx, block) = DOMAIN c.blocks \cup {idx}
    BY DEF Put
  <2> HIDE DEF d
  <2> QED
    BY <2>1, <2>2
<1> HIDE DEF d
<1> DEFINE l == c.lru
<1>3. l \in Seq(Nat) /\ Distinct(l)
  BY DEF Accounted
<1>4. \A x, y \in Nat : Before(d.lru, x, y) /\ y # idx => Before(l, x, y)
  <2> HIDE DEF l
  <2>1. \A x, y \in Nat : Before(Touch(l, idx, 1), x, y) /\ y # idx => Before(l, x, y)
    BY <1>3, TouchOrder
  <2> QED
    BY <1>1, <2>1 DEF l
<1> QED
  BY <1>1, <1>2, <1>4 DEF Moved, d

(* So what goes was older than what stays, and the last two stay last. *)
LEMMA EvictOrder ==
    ASSUME NEW c, Accounted(c),
           NEW i \in (DOMAIN c.blocks) \ DOMAIN Evict(c).blocks,
           NEW j \in DOMAIN Evict(c).blocks
    PROVE  /\ Before(c.lru, i, j)
           /\ j \in Recent(c) => j \in Recent(Evict(c))
<1> DEFINE e == Evict(c)
           l == c.lru
           m == Len(l)
<1>1. PICK n \in 0..m : e.blocks = Drop(c.blocks, Oldest(c, n)) /\ e.lru = SubSeq(l, n + 1, m)
  BY EvictFront
<1>2. l \in Seq(Nat) /\ Distinct(l) /\ ToSet(l) = DOMAIN c.blocks /\ m \in Nat
  BY DEF Accounted
<1>3. Oldest(c, n) = {l[k] : k \in 1..n}
  BY DEF Oldest
<1>4. DOMAIN e.blocks = (DOMAIN c.blocks) \ Oldest(c, n)
  BY <1>1 DEF Drop
<1>5. i \in DOMAIN c.blocks /\ i \in Oldest(c, n) /\ j \in DOMAIN c.blocks /\ j \notin Oldest(c, n)
  BY <1>4
<1>6. Accounted(e)
  BY EvictAccounted
<1> HIDE DEF e
<1>7. PICK a \in 1..n : l[a] = i
  BY <1>3, <1>5
<1>8. PICK b \in 1..m : l[b] = j
  BY <1>2, <1>5, Members
<1>9. b > n
  BY <1>2, <1>3, <1>5, <1>8
<1>10. Before(l, i, j)
  <2>1. a \in 1..m /\ a < b
    BY <1>2, <1>9
  <2> QED
    BY <1>7, <1>8, <2>1 DEF Before
<1>11. ASSUME j \in Recent(c) PROVE j \in Recent(e)
  <2>1. b > m - 2
    BY <1>8, <1>11, RecentBlock
  <2>2. /\ Len(e.lru) = m - n
        /\ b - n \in 1..(m - n) /\ e.lru[b - n] = l[n + (b - n)]
    <3> HIDE DEF l
    <3>1. m \in Nat /\ n \in Nat /\ n <= m /\ b - n \in 1..(m - n)
      BY <1>2, <1>9
    <3>2. Len(SubSeq(l, n + 1, m)) = m - n
      BY <1>2, <3>1
    <3>3. \A k \in 1..(m - n) : SubSeq(l, n + 1, m)[k] = l[n + k]
      BY <1>2, <3>1
    <3> QED
      BY <1>1, <3>1, <3>2, <3>3
  <2>3. n + (b - n) = b
    BY <1>2
  <2>4. b - n > Len(e.lru) - 2
    BY <1>2, <2>1, <2>2
  <2>5. e.lru[b - n] = j
    BY <1>8, <2>2, <2>3
  <2> QED
    BY <1>6, <2>2, <2>4, <2>5, RecentBlock
<1> QED
  BY <1>10, <1>11 DEF e

(* A block stays when it and the blocks that are newer than it fit. *)
LEMMA EvictKeeps ==
    ASSUME NEW c, Accounted(c), NEW u \in DOMAIN c.blocks,
           NEW S, IsFiniteSet(S), Cardinality(S) * BLOCK_SIZE <= capacity,
           u \in S, \A y \in Nat : Before(c.lru, u, y) => y \in S
    PROVE  u \in DOMAIN Evict(c).blocks
<1> DEFINE l == c.lru
           m == Len(l)
<1>1. PICK n \in 0..m : /\ \A j \in 0..(n - 1) : ResidentWithout(c, j) > capacity
                        /\ Evict(c).blocks = Drop(c.blocks, Oldest(c, n))
  BY EvictFront
<1>2. l \in Seq(Nat) /\ ToSet(l) = DOMAIN c.blocks /\ m \in Nat
  BY DEF Accounted
<1> SUFFICES ASSUME u \notin DOMAIN Evict(c).blocks PROVE FALSE
  OBVIOUS
<1>3. u \in Oldest(c, n)
  BY <1>1 DEF Drop
<1>4. PICK k \in 1..n : l[k] = u
  BY <1>3 DEF Oldest
<1> DEFINE j == k - 1
           rest == Drop(c.blocks, Oldest(c, j))
<1>5. j \in 0..(n - 1) /\ j \in 0..m /\ k \in 1..m
  BY <1>2
<1>6. Oldest(c, j) = {l[i] : i \in 1..j}
  BY DEF Oldest
<1>7. ResidentWithout(c, j) = Cardinality(CellsIn(rest)) /\ ResidentWithout(c, j) > capacity
  <2> HIDE DEF j
  <2> QED
    BY <1>1, <1>5, OldestGone
<1>8. DOMAIN rest \subseteq S
  <2> SUFFICES ASSUME NEW y \in DOMAIN c.blocks, y \notin Oldest(c, j) PROVE y \in S
    BY DEF Drop
  <2>1. PICK i \in 1..m : l[i] = y
    <3> HIDE DEF l
    <3>1. ToSet(l) = {l[i] : i \in 1..m}
      BY <1>2, Members
    <3>2. y \in ToSet(l)
      BY <1>2
    <3> QED
      BY <3>1, <3>2
  <2>2. y \in Nat /\ i >= k
    <3>1. y \in Nat
      BY DEF Accounted, Blocks
    <3>2. ~(i \in 1..j)
      BY <1>6, <2>1
    <3>3. j = k - 1 /\ k \in 1..m /\ m \in Nat
      BY <1>2, <1>5
    <3> HIDE DEF j, m
    <3>4. i >= k
      BY <2>1, <3>2, <3>3
    <3> QED
      BY <3>1, <3>4
  <2>3. CASE i = k
    BY <1>4, <2>1, <2>3
  <2>4. CASE i > k
    <3>1. Before(l, u, y)
      BY <1>4, <1>5, <2>1, <2>4 DEF Before
    <3> QED
      BY <2>2, <3>1
  <2> QED
    BY <2>2, <2>3, <2>4
<1> DEFINE cells == S \X (1..BLOCK_SIZE)
<1>9. CellsIn(rest) \subseteq cells
  <2> HIDE DEF rest
  <2> QED
    BY <1>8 DEF CellsIn
<1>10. IsFiniteSet(cells) /\ Cardinality(cells) = Cardinality(S) * BLOCK_SIZE
  <2>1. IsFiniteSet(1..BLOCK_SIZE) /\ Cardinality(1..BLOCK_SIZE) = BLOCK_SIZE
    BY FS_Interval, CacheAssumption
  <2> QED
    BY <2>1, FS_Product
<1> HIDE DEF cells, rest, j
<1>11. Cardinality(CellsIn(rest)) <= Cardinality(cells) /\ Cardinality(cells) \in Nat
       /\ Cardinality(CellsIn(rest)) \in Nat
  BY <1>9, <1>10, FS_Subset, FS_CardinalityType
<1> QED
  BY <1>7, <1>10, <1>11, CapacityNat

-----------------------------------------------------------------------------
(* store_bytes.                                                            *)

LEMMA LimitInt == \A i \in Nat : BlockLimit(i) \in Int /\ BlockLimit(i) <= BLOCK_SIZE
<1> SUFFICES ASSUME NEW i \in Nat PROVE BlockLimit(i) \in Int /\ BlockLimit(i) <= BLOCK_SIZE
  OBVIOUS
<1> DEFINE a == i * BLOCK_SIZE
<1>1. a \in Nat
  BY CacheAssumption
<1>2. BlockLimit(i) = IF TotalBytes = None \/ TotalBytes - a > BLOCK_SIZE
                      THEN BLOCK_SIZE ELSE TotalBytes - a
  BY DEF BlockLimit
<1> HIDE DEF a
<1> QED
  BY <1>1, <1>2, CacheAssumption

LEMMA FirstNat ==
    ASSUME NEW a \in Nat
    PROVE  FirstBlock(a) \in Nat /\ a % BLOCK_SIZE \in 0..(BLOCK_SIZE - 1)
BY CacheAssumption DEF FirstBlock

LEMMA FullBlockLength ==
    ASSUME NEW buf \in Seq(Nat), Len(buf) >= 1
    PROVE  FullBlock(buf) \in Seq(Nat) /\ Len(FullBlock(buf)) \in 1..BLOCK_SIZE
<1>1. CASE Len(buf) > BLOCK_SIZE
  <2>1. FullBlock(buf) = SubSeq(buf, 1, BLOCK_SIZE)
    BY <1>1 DEF FullBlock
  <2>2. SubSeq(buf, 1, BLOCK_SIZE) \in Seq(Nat) /\ Len(SubSeq(buf, 1, BLOCK_SIZE)) = BLOCK_SIZE
    BY <1>1, CacheAssumption
  <2> QED
    BY <2>1, <2>2, CacheAssumption
<1>2. CASE ~(Len(buf) > BLOCK_SIZE)
  <2>1. FullBlock(buf) = buf
    BY <1>2 DEF FullBlock
  <2> QED
    BY <1>2, <2>1, CacheAssumption
<1> QED
  BY <1>1, <1>2

(* The cache within a turn of the loop. *)
Kept(r) ==
    /\ r = [cache |-> r.cache, committed |-> r.committed]
    /\ Accounted(r.cache)
    /\ Awaiting(r.cache.pending)

LEMMA PieceAccounted ==
    ASSUME NEW r, Kept(r), NEW offset \in Nat,
           NEW piece \in Seq(Nat), Len(piece) >= 1
    PROVE  Kept(StorePiece(r, offset, piece))
<1> DEFINE idx == FirstBlock(offset)
           c   == r.cache
           buf == Buffered(c, idx, piece)
           q   == StorePiece(r, offset, piece)
<1>1. idx \in Nat
  BY FirstNat
<1>2. buf \in Seq(Nat) /\ Len(buf) >= 1
  <2>1. CASE idx \in DOMAIN c.pending
    <3> DEFINE before == c.pending[idx]
    <3>1. before \in Seq(Nat) /\ buf = before \o piece
      BY <2>1 DEF Kept, Awaiting, Buffered
    <3> HIDE DEF before, buf
    <3> QED
      BY <3>1
  <2>2. CASE idx \notin DOMAIN c.pending
    <3>1. buf = <<>> \o piece
      BY <2>2 DEF Buffered
    <3> HIDE DEF buf
    <3> QED
      BY <3>1
  <2> QED
    BY <2>1, <2>2
<1> HIDE DEF idx, buf
<1>3. CASE Len(buf) >= BlockLimit(idx)
  <2> DEFINE block == FullBlock(buf)
             d     == Commit(c, idx, block)
  <2>1. q = [cache |-> d, committed |-> r.committed + Len(block)]
    BY <1>3 DEF StorePiece, idx, buf
  <2>2. block \in Seq(Nat) /\ Len(block) \in 1..BLOCK_SIZE
    BY <1>2, FullBlockLength
  <2> HIDE DEF block
  <2>3. Accounted(c) /\ Awaiting(c.pending)
    BY DEF Kept
  <2> HIDE DEF c
  <2>4. Accounted(d) /\ d.pending = Drop(c.pending, {idx})
    BY <1>1, <2>2, <2>3, CommitAccounted
  <2>5. Awaiting(d.pending)
    BY <2>3, <2>4, DropAwaiting
  <2> HIDE DEF d
  <2> QED
    BY <2>1, <2>4, <2>5 DEF Kept
<1>4. CASE ~(Len(buf) >= BlockLimit(idx))
  <2> DEFINE p == Put(c.pending, idx, buf)
             d == [c EXCEPT !.pending = p]
  <2>1. q = [r EXCEPT !.cache.pending = Put(@, idx, buf)]
    BY <1>4 DEF StorePiece, idx, buf
  <2>2. q = [cache |-> d, committed |-> r.committed]
    BY <2>1 DEF Kept
  <2>3. Len(buf) \in 1..(BlockLimit(idx) - 1)
    BY <1>1, <1>2, <1>4, LimitInt
  <2>4. Awaiting(p)
    <3> DEFINE f == c.pending
    <3>1. Awaiting(f)
      BY DEF Kept
    <3> HIDE DEF f
    <3>2. Awaiting(Put(f, idx, buf))
      BY <1>1, <1>2, <2>3, <3>1, PutAwaiting
    <3> QED
      BY <3>2 DEF f
  <2> HIDE DEF p
  <2>5. /\ d = [blocks |-> c.blocks, lru |-> c.lru,
                pending |-> p, resident |-> c.resident]
    BY DEF Kept, Accounted
  <2>6. Accounted(c)
    BY DEF Kept
  <2> HIDE DEF c, d
  <2>7. Accounted(d)
    BY <2>5, <2>6 DEF Accounted
  <2> QED
    BY <2>2, <2>4, <2>5, <2>7 DEF Kept
<1> QED
  BY <1>3, <1>4 DEF q

(* A turn of store_bytes commits one block or none. *)
LEMMA PieceMoved ==
    ASSUME NEW r, Kept(r), NEW offset \in Nat, NEW piece
    PROVE  LET c   == r.cache
               d   == StorePiece(r, offset, piece).cache
               idx == FirstBlock(offset)
           IN  \/ d.lru = c.lru /\ d.blocks = c.blocks
               \/ Moved(c, d, {idx}) /\ d.lru = Touch(c.lru, idx, 1)
<1> DEFINE c   == r.cache
           idx == FirstBlock(offset)
           buf == Buffered(c, idx, piece)
           q   == StorePiece(r, offset, piece)
<1>1. idx \in Nat
  BY FirstNat
<1> HIDE DEF idx, buf
<1>2. CASE Len(buf) >= BlockLimit(idx)
  <2>1. q.cache = Commit(c, idx, FullBlock(buf))
    BY <1>2 DEF StorePiece, idx, buf
  <2>2. Accounted(c)
    BY DEF Kept
  <2> HIDE DEF c, q
  <2>3. Moved(c, q.cache, {idx}) /\ q.cache.lru = Touch(c.lru, idx, 1)
    BY <1>1, <2>1, <2>2, CommitMoved
  <2> QED
    BY <2>3 DEF c, q, idx
<1>3. CASE ~(Len(buf) >= BlockLimit(idx))
  <2>1. q = [r EXCEPT !.cache.pending = Put(@, idx, buf)]
    BY <1>3 DEF StorePiece, idx, buf
  <2>2. q.cache = [c EXCEPT !.pending = Put(@, idx, buf)]
    BY <2>1 DEF Kept
  <2> HIDE DEF q
  <2>3. q.cache.lru = c.lru /\ q.cache.blocks = c.blocks
    BY <2>2 DEF Kept, Accounted
  <2> QED
    BY <2>3 DEF q, c
<1> QED
  BY <1>2, <1>3

LEMMA PiecesOf ==
    ASSUME NEW data \in Seq(Nat), NEW n \in Nat, n < Len(data)
    PROVE  /\ SubSeq(data, 1, n) \in Seq(Nat)
           /\ Len(SubSeq(data, 1, n)) = n
           /\ SubSeq(data, n + 1, Len(data)) \in Seq(Nat)
           /\ Len(SubSeq(data, n + 1, Len(data))) = Len(data) - n
OBVIOUS

Budget(c) == Accounted(c) /\ Awaiting(c.pending) /\ c.resident <= capacity

LEMMA StoreBudget ==
    ASSUME NEW c, Budget(c), NEW start \in Nat,
           NEW data \in Seq(Nat), Len(data) >= 1
    PROVE  Budget(StoreBytes(c, start, data).cache)
<1> DEFINE room == BLOCK_SIZE - (start % BLOCK_SIZE)
           r == [cache |-> c, committed |-> 0]
           a == SubSeq(data, 1, room)
           b == SubSeq(data, room + 1, Len(data))
           long  == StorePiece(StorePiece(r, start, a), start + room, b)
           short == StorePiece(r, start, data)
<1>1. room \in Nat /\ room >= 1 /\ start + room \in Nat
  <2>1. start % BLOCK_SIZE \in 0..(BLOCK_SIZE - 1)
    BY FirstNat
  <2> QED
    BY <2>1, CacheAssumption
<1>2. Kept(r)
  BY DEF Kept, Budget
<1>3. ASSUME NEW q, Kept(q), StoreBytes(c, start, data) = [q EXCEPT !.cache = Evict(@)]
      PROVE  Budget(StoreBytes(c, start, data).cache)
  <2> DEFINE d == q.cache
  <2>1. StoreBytes(c, start, data).cache = Evict(d)
    <3>1. "cache" \in DOMAIN q
      BY <1>3 DEF Kept
    <3> QED
      BY <1>3, <3>1
  <2>2. Accounted(d) /\ Awaiting(d.pending)
    BY <1>3 DEF Kept
  <2> HIDE DEF d
  <2>3. /\ Accounted(Evict(d)) /\ Evict(d).resident <= capacity
        /\ Evict(d).pending = d.pending
    BY <2>2, EvictAccounted
  <2> QED
    BY <2>1, <2>2, <2>3 DEF Budget
<1> HIDE DEF r
<1>4. CASE Len(data) > room
  <2>1. StoreBytes(c, start, data) = [long EXCEPT !.cache = Evict(@)]
    BY <1>4 DEF StoreBytes, r
  <2>2. a \in Seq(Nat) /\ b \in Seq(Nat) /\ Len(a) >= 1 /\ Len(b) >= 1
    <3> HIDE DEF room
    <3> QED
      BY <1>1, <1>4, PiecesOf
  <2> HIDE DEF a, b, room
  <2>3. Kept(StorePiece(r, start, a))
    BY <1>2, <2>2, PieceAccounted
  <2>4. Kept(long)
    BY <1>1, <2>2, <2>3, PieceAccounted
  <2> HIDE DEF long
  <2> QED
    BY <1>3, <2>1, <2>4
<1>5. CASE ~(Len(data) > room)
  <2>1. StoreBytes(c, start, data) = [short EXCEPT !.cache = Evict(@)]
    BY <1>5 DEF StoreBytes, r
  <2>2. Kept(short)
    BY <1>2, PieceAccounted
  <2> HIDE DEF short
  <2> QED
    BY <1>3, <2>1, <2>2
<1> QED
  BY <1>4, <1>5

-----------------------------------------------------------------------------
(* Where a position is: its block, and how far it is into it.              *)

LEMMA Located ==
    ASSUME NEW p \in Nat
    PROVE  /\ FirstBlock(p) \in Nat /\ p % BLOCK_SIZE \in 0..(BLOCK_SIZE - 1)
           /\ FirstBlock(p) * BLOCK_SIZE \in Nat
           /\ p = FirstBlock(p) * BLOCK_SIZE + (p % BLOCK_SIZE)
           /\ (FirstBlock(p) + 1) * BLOCK_SIZE = FirstBlock(p) * BLOCK_SIZE + BLOCK_SIZE
           /\ BLOCK_SIZE \in Nat /\ BLOCK_SIZE > 0
BY CacheAssumption DEF FirstBlock

LEMMA Multiple ==
    ASSUME NEW b \in Nat, NEW k \in Int, NEW d \in Int,
           -b < d, d < b, b * k = d
    PROVE  k = 0
<1>1. k >= 1 => b * k >= b
  OBVIOUS
<1>2. k <= -1 => b * k <= -b
  OBVIOUS
<1> QED
  BY <1>1, <1>2

(* The quotient and the remainder by the block size. *)
LEMMA PositionIn ==
    ASSUME NEW f \in Nat, NEW o \in Nat, o < BLOCK_SIZE
    PROVE  FirstBlock(BLOCK_SIZE * f + o) = f /\ (BLOCK_SIZE * f + o) % BLOCK_SIZE = o
<1> DEFINE p == BLOCK_SIZE * f + o
           q == p \div BLOCK_SIZE
           r == p % BLOCK_SIZE
<1>1. p \in Nat /\ BLOCK_SIZE \in Nat /\ BLOCK_SIZE > 0
  BY CacheAssumption
<1> HIDE DEF p
<1>2. q \in Int /\ r \in 0..(BLOCK_SIZE - 1) /\ p = BLOCK_SIZE * q + r
  BY <1>1
<1> HIDE DEF q, r
<1>3. BLOCK_SIZE * (f - q) = r - o
  BY <1>1, <1>2 DEF p
<1>4. f - q = 0
  <2>1. f - q \in Int /\ r - o \in Int /\ -BLOCK_SIZE < r - o /\ r - o < BLOCK_SIZE
    BY <1>1, <1>2
  <2> QED
    BY <1>1, <1>3, <2>1, Multiple
<1>5. q = f /\ r = o
  BY <1>1, <1>2, <1>3, <1>4
<1> QED
  BY <1>5 DEF p, q, r, FirstBlock

LEMMA Advance ==
    ASSUME NEW p \in Nat, NEW n \in Nat, (p % BLOCK_SIZE) + n <= BLOCK_SIZE
    PROVE  /\ (p % BLOCK_SIZE) + n < BLOCK_SIZE =>
                 /\ FirstBlock(p + n) = FirstBlock(p)
                 /\ (p + n) % BLOCK_SIZE = (p % BLOCK_SIZE) + n
           /\ (p % BLOCK_SIZE) + n = BLOCK_SIZE =>
                 /\ FirstBlock(p + n) = FirstBlock(p) + 1
                 /\ (p + n) % BLOCK_SIZE = 0
           /\ FirstBlock(p) \in Nat
           /\ p % BLOCK_SIZE \in 0..(BLOCK_SIZE - 1)
<1> DEFINE f == FirstBlock(p)
           o == p % BLOCK_SIZE
<1>1. /\ BLOCK_SIZE \in Nat /\ BLOCK_SIZE > 0
      /\ f \in Nat /\ o \in 0..(BLOCK_SIZE - 1) /\ p = BLOCK_SIZE * f + o
  BY CacheAssumption DEF FirstBlock
<1> HIDE DEF f, o
<1>2. ASSUME o + n < BLOCK_SIZE
      PROVE  FirstBlock(p + n) = f /\ (p + n) % BLOCK_SIZE = o + n
  <2>1. p + n = BLOCK_SIZE * f + (o + n)
    BY <1>1
  <2>2. o + n \in Nat
    BY <1>1
  <2> QED
    BY <1>1, <1>2, <2>1, <2>2, PositionIn
<1>3. ASSUME o + n = BLOCK_SIZE
      PROVE  FirstBlock(p + n) = f + 1 /\ (p + n) % BLOCK_SIZE = 0
  <2> DEFINE next == f + 1
  <2>1. p + n = BLOCK_SIZE * next + 0 /\ next \in Nat
    BY <1>1, <1>3
  <2>2. 0 \in Nat /\ 0 < BLOCK_SIZE
    BY <1>1
  <2> HIDE DEF next
  <2>3. FirstBlock(p + n) = next /\ (p + n) % BLOCK_SIZE = 0
    BY <2>1, <2>2, PositionIn
  <2> QED
    BY <2>3 DEF next
<1> QED
  BY <1>1, <1>2, <1>3 DEF f, o

-----------------------------------------------------------------------------
(* The turns of store_bytes.                                               *)

(* The pieces store_bytes cuts a chunk into. *)
Room(p) == BLOCK_SIZE - (p % BLOCK_SIZE)

LEMMA RoomBounds ==
    ASSUME NEW p \in Nat
    PROVE  p % BLOCK_SIZE \in Nat /\ Room(p) \in 1..BLOCK_SIZE
BY CacheAssumption DEF Room

(* A name of its own keeps the provers from expanding SubSeq. *)
Part(s, first, last) == SubSeq(s, first, last)

(* store_bytes is one turn of its loop or two, and an eviction. *)
LEMMA StoreTurns ==
    ASSUME NEW c, Budget(c), NEW p \in Nat,
           NEW data \in Seq(Nat), Len(data) >= 1
    PROVE  LET r == [cache |-> c, committed |-> 0]
           IN  /\ Kept(r)
               /\ Len(data) <= Room(p) =>
                      LET q == StorePiece(r, p, data)
                      IN  /\ Kept(q)
                          /\ StoreBytes(c, p, data).cache = Evict(q.cache)
               /\ Len(data) > Room(p) =>
                      LET q == StorePiece(r, p, Part(data, 1, Room(p)))
                          s == StorePiece(q, p + Room(p),
                                          Part(data, Room(p) + 1, Len(data)))
                      IN  /\ Kept(q) /\ Kept(s)
                          /\ StoreBytes(c, p, data).cache = Evict(s.cache)
<1> DEFINE r == [cache |-> c, committed |-> 0]
           room == BLOCK_SIZE - (p % BLOCK_SIZE)
           a == Part(data, 1, room)
           b == Part(data, room + 1, Len(data))
           q == StorePiece(r, p, a)
           long  == StorePiece(q, p + room, b)
           short == StorePiece(r, p, data)
<1>1. room \in Nat /\ room >= 1 /\ p + room \in Nat /\ room = Room(p) /\ Len(data) \in Nat
  <2>1. Room(p) \in 1..BLOCK_SIZE /\ room = Room(p)
    BY RoomBounds DEF Room
  <2>2. Len(data) \in Nat
    OBVIOUS
  <2> HIDE DEF room
  <2> QED
    BY <2>1, <2>2, CacheAssumption
<1>2. Kept(r)
  BY DEF Kept, Budget
<1> HIDE DEF r
<1>3. ASSUME Len(data) <= room
      PROVE  Kept(short) /\ StoreBytes(c, p, data).cache = Evict(short.cache)
  <2>1. ~(Len(data) > room)
    BY <1>1, <1>3
  <2>2. StoreBytes(c, p, data) = [short EXCEPT !.cache = Evict(@)]
    BY <2>1 DEF StoreBytes, r
  <2>3. Kept(short)
    BY <1>2, PieceAccounted
  <2> HIDE DEF short
  <2>4. short = [cache |-> short.cache, committed |-> short.committed]
    BY <2>3 DEF Kept
  <2> QED
    BY <2>2, <2>3, <2>4
<1>4. ASSUME Len(data) > room
      PROVE  /\ Kept(q) /\ Kept(long)
             /\ StoreBytes(c, p, data).cache = Evict(long.cache)
  <2>1. StoreBytes(c, p, data) = [long EXCEPT !.cache = Evict(@)]
    BY <1>4 DEF StoreBytes, Part, r
  <2>2. a \in Seq(Nat) /\ b \in Seq(Nat) /\ Len(a) >= 1 /\ Len(b) >= 1
    <3> HIDE DEF room
    <3>1. a \in Seq(Nat) /\ Len(a) = room
      BY <1>1, <1>4, PiecesOf DEF Part
    <3>2. b \in Seq(Nat) /\ Len(b) = Len(data) - room
      BY <1>1, <1>4, PiecesOf DEF Part
    <3> HIDE DEF a, b
    <3> QED
      BY <1>1, <1>4, <3>1, <3>2
  <2> HIDE DEF a, b, room
  <2>3. Kept(q)
    BY <1>2, <2>2, PieceAccounted
  <2> HIDE DEF q
  <2>4. Kept(long)
    BY <1>1, <2>2, <2>3, PieceAccounted
  <2> HIDE DEF long
  <2>5. long = [cache |-> long.cache, committed |-> long.committed]
    BY <2>4 DEF Kept
  <2> QED
    BY <2>1, <2>3, <2>4, <2>5
<1> HIDE DEF a, b, q, long, short
<1>5. Room(p) = room
  BY <1>1
<1> HIDE DEF room
<1> QED
  BY <1>2, <1>3, <1>4, <1>5 DEF a, b, q, long, short, r

(* What store_bytes has moved when it evicts are the last two blocks. *)
LEMMA StoreOrder ==
    ASSUME NEW c, Budget(c), NEW start \in Nat,
           NEW data \in Seq(Nat), Len(data) >= 1
    PROVE  \E d : /\ StoreBytes(c, start, data).cache = Evict(d)
                  /\ Accounted(d) /\ Moved(c, d, Recent(d))
<1> DEFINE room == BLOCK_SIZE - (start % BLOCK_SIZE)
           r == [cache |-> c, committed |-> 0]
           a == SubSeq(data, 1, room)
           b == SubSeq(data, room + 1, Len(data))
           once  == StorePiece(r, start, a)
           long  == StorePiece(once, start + room, b)
           short == StorePiece(r, start, data)
           idx   == FirstBlock(start)
           next  == FirstBlock(start + room)
<1>1. room \in Nat /\ room >= 1 /\ start + room \in Nat
  <2>1. start % BLOCK_SIZE \in 0..(BLOCK_SIZE - 1)
    BY FirstNat
  <2> QED
    BY <2>1, CacheAssumption
<1>2. idx \in Nat /\ next \in Nat
  BY <1>1, FirstNat
<1>3. idx # next
  <2>1. start = (start \div BLOCK_SIZE) * BLOCK_SIZE + (start % BLOCK_SIZE)
    BY CacheAssumption
  <2>2. start + room = (start \div BLOCK_SIZE + 1) * BLOCK_SIZE
    <3> DEFINE k == start \div BLOCK_SIZE
    <3>1. k \in Nat /\ start % BLOCK_SIZE \in Nat
      BY CacheAssumption
    <3>2. start = k * BLOCK_SIZE + (start % BLOCK_SIZE)
      BY <2>1
    <3>3. (k + 1) * BLOCK_SIZE = k * BLOCK_SIZE + BLOCK_SIZE
      BY <3>1, CacheAssumption
    <3> DEFINE p == k * BLOCK_SIZE
    <3>4. p \in Nat
      BY <3>1, CacheAssumption
    <3> HIDE DEF k, p
    <3> QED
      BY <3>1, <3>2, <3>3, <3>4, CacheAssumption DEF k, p
  <2>3. next = idx + 1
    <3> DEFINE k == start \div BLOCK_SIZE + 1
    <3>1. k \in Nat
      BY CacheAssumption
    <3> HIDE DEF k
    <3>2. (k * BLOCK_SIZE) \div BLOCK_SIZE = k
      BY <3>1, CacheAssumption, MultipleDivided
    <3> QED
      BY <2>2, <3>2 DEF FirstBlock, k
  <2> QED
    BY <1>2, <2>3
<1>4. Kept(r) /\ r.cache = c
  BY DEF Kept, Budget
<1> DEFINE l == c.lru
<1>5. l \in Seq(Nat) /\ Distinct(l) /\ Accounted(c)
  BY DEF Budget, Accounted
<1>6. ASSUME NEW q, Kept(q)
      PROVE  /\ Accounted(q.cache) /\ q.cache.lru \in Seq(Nat) /\ Distinct(q.cache.lru)
             /\ [q EXCEPT !.cache = Evict(@)].cache = Evict(q.cache)
  BY <1>6 DEF Kept, Accounted
<1>7. \A M : Moved(c, c, M)
  BY DEF Moved
<1> HIDE DEF r, l
(* The first piece. *)
<1>8. ASSUME NEW piece \in Seq(Nat), Len(piece) >= 1
      PROVE  LET d == StorePiece(r, start, piece).cache
             IN  /\ Kept(StorePiece(r, start, piece))
                 /\ \/ d.lru = c.lru /\ d.blocks = c.blocks
                    \/ /\ Moved(c, d, {idx}) /\ Len(d.lru) >= 1
                       /\ d.lru[Len(d.lru)] = idx
  <2> DEFINE d == StorePiece(r, start, piece).cache
  <2>1. Kept(StorePiece(r, start, piece))
    BY <1>4, <1>8, PieceAccounted
  <2>2. \/ d.lru = c.lru /\ d.blocks = c.blocks
        \/ Moved(c, d, {idx}) /\ d.lru = Touch(c.lru, idx, 1)
    BY <1>4, PieceMoved
  <2> HIDE DEF d, idx
  <2>3. Len(Touch(l, idx, 1)) >= 1 /\ Touch(l, idx, 1)[Len(Touch(l, idx, 1))] = idx
    BY <1>2, <1>5, TouchOrder
  <2> QED
    BY <2>1, <2>2, <2>3 DEF d, l
<1>9. ASSUME NEW d, Accounted(d), Len(d.lru) >= 1, NEW i, d.lru[Len(d.lru)] = i
      PROVE  i \in Recent(d)
  <2>1. Len(d.lru) \in 1..Len(d.lru) /\ Len(d.lru) > Len(d.lru) - 2
    BY <1>9 DEF Accounted
  <2> QED
    BY <1>9, <2>1, RecentBlock
<1>10. ASSUME NEW d, Accounted(d),
              \/ d.lru = c.lru /\ d.blocks = c.blocks
              \/ /\ Moved(c, d, {idx}) /\ Len(d.lru) >= 1
                 /\ d.lru[Len(d.lru)] = idx
       PROVE  Moved(c, d, Recent(d))
  <2>1. CASE d.lru = c.lru /\ d.blocks = c.blocks
    BY <2>1 DEF Moved
  <2>2. CASE Moved(c, d, {idx}) /\ Len(d.lru) >= 1 /\ d.lru[Len(d.lru)] = idx
    <3>1. idx \in Recent(d)
      BY <1>9, <1>10, <2>2
    <3> HIDE DEF idx
    <3> QED
      BY <2>2, <3>1 DEF Moved
  <2> QED
    BY <1>10, <2>1, <2>2
<1>11. CASE ~(Len(data) > room)
  <2>1. StoreBytes(c, start, data) = [short EXCEPT !.cache = Evict(@)]
    BY <1>11 DEF StoreBytes, r
  <2>2. /\ Kept(short)
        /\ LET d == short.cache
           IN  \/ d.lru = c.lru /\ d.blocks = c.blocks
               \/ /\ Moved(c, d, {idx}) /\ Len(d.lru) >= 1
                  /\ d.lru[Len(d.lru)] = idx
    BY <1>8
  <2> HIDE DEF short, idx
  <2>3. Accounted(short.cache) /\ [short EXCEPT !.cache = Evict(@)].cache = Evict(short.cache)
    BY <1>6, <2>2
  <2>4. Moved(c, short.cache, Recent(short.cache))
    BY <1>10, <2>2, <2>3
  <2> QED
    BY <2>1, <2>3, <2>4
<1>12. CASE Len(data) > room
  <2>1. StoreBytes(c, start, data) = [long EXCEPT !.cache = Evict(@)]
    BY <1>12 DEF StoreBytes, r
  <2>2. a \in Seq(Nat) /\ b \in Seq(Nat) /\ Len(a) >= 1 /\ Len(b) >= 1
    <3> HIDE DEF room
    <3> QED
      BY <1>1, <1>12, PiecesOf
  <2> HIDE DEF a, b, room
  <2> DEFINE d == once.cache
             e == long.cache
  <2>3. /\ Kept(once)
        /\ \/ d.lru = c.lru /\ d.blocks = c.blocks
           \/ /\ Moved(c, d, {idx}) /\ Len(d.lru) >= 1
              /\ d.lru[Len(d.lru)] = idx
    BY <1>8, <2>2
  <2> HIDE DEF once
  <2>4. Kept(long)
    BY <1>1, <2>2, <2>3, PieceAccounted
  <2>5. \/ e.lru = d.lru /\ e.blocks = d.blocks
        \/ Moved(d, e, {next}) /\ e.lru = Touch(d.lru, next, 1)
    BY <1>1, <2>3, PieceMoved
  <2> HIDE DEF long, idx, next
  <2>6. /\ Accounted(e) /\ [long EXCEPT !.cache = Evict(@)].cache = Evict(e)
        /\ Accounted(d) /\ d.lru \in Seq(Nat) /\ Distinct(d.lru)
    BY <1>6, <2>3, <2>4
  <2> HIDE DEF d, e
  <2>7. CASE e.lru = d.lru /\ e.blocks = d.blocks
    <3>1. Moved(c, d, Recent(d))
      BY <1>10, <2>3, <2>6
    <3>2. Moved(c, e, Recent(e))
      BY <2>7, <3>1 DEF Moved, Recent
    <3> QED
      BY <2>1, <2>6, <3>2
  <2>8. CASE Moved(d, e, {next}) /\ e.lru = Touch(d.lru, next, 1)
    <3> DEFINE k == d.lru
               m == e.lru
    <3>1. /\ Len(m) >= 1 /\ m[Len(m)] = next
          /\ Len(k) >= 1 /\ k[Len(k)] # next
                 => Len(m) >= 2 /\ m[Len(m) - 1] = k[Len(k)]
      <4> HIDE DEF k
      <4>1. k \in Seq(Nat) /\ Distinct(k)
        BY <2>6 DEF k
      <4>2. m = Touch(k, next, 1)
        BY <2>8 DEF k
      <4> HIDE DEF m
      <4> QED
        BY <1>2, <4>1, <4>2, TouchOrder
    <3>2. next \in Recent(e)
      BY <1>9, <2>6, <3>1
    <3>3. CASE d.lru = c.lru /\ d.blocks = c.blocks
      <4>1. Moved(c, e, Recent(e))
        BY <2>8, <3>2, <3>3 DEF Moved
      <4> QED
        BY <2>1, <2>6, <4>1
    <3>4. CASE Moved(c, d, {idx}) /\ Len(k) >= 1 /\ k[Len(k)] = idx
      <4>1. Len(m) >= 2 /\ m[Len(m) - 1] = idx
        BY <1>3, <3>1, <3>4
      <4>2. Len(m) - 1 \in 1..Len(m) /\ Len(m) - 1 > Len(m) - 2
        BY <2>6, <4>1 DEF Accounted
      <4>3. idx \in Recent(e)
        BY <2>6, <4>1, <4>2, RecentBlock
      <4>4. Moved(c, e, Recent(e))
        BY <2>8, <3>2, <3>4, <4>3 DEF Moved
      <4> QED
        BY <2>1, <2>6, <4>4
    <3> QED
      BY <2>3, <3>3, <3>4 DEF d
  <2> QED
    BY <2>5, <2>7, <2>8 DEF d, e
<1> QED
  BY <1>11, <1>12

-----------------------------------------------------------------------------
(* read_span and flush_pending.                                            *)

LEMMA MinIs ==
    ASSUME NEW S, S \subseteq Nat, S # {}
    PROVE  Min(S) \in S /\ \A x \in S : Min(S) <= x
<1>1. \E m \in S : \A x \in S : m <= x
  BY Least
<1> QED
  BY <1>1 DEF Min

(* A read moves the blocks it finds to the recent end, up to the first one *)
(* that is missing, and changes nothing else. *)
LEMMA ReadTouches ==
    ASSUME NEW c, Budget(c), NEW start \in Nat, NEW end \in Nat, start < end
    PROVE  \E found \in Nat :
               /\ FirstBlock(start)..(FirstBlock(start) + found - 1) \subseteq DOMAIN c.blocks
               /\ ReadSpan(c, start, end).cache =
                      [blocks   |-> c.blocks,
                       lru      |-> Touch(c.lru, FirstBlock(start), found),
                       pending  |-> c.pending,
                       resident |-> c.resident]
<1> DEFINE first   == FirstBlock(start)
           last    == LastBlock(start, end)
           missing == {i \in first..last : ~HasBlock(c, i)}
           found   == IF missing = {} THEN last - first + 1 ELSE Min(missing) - first
           t       == Touch(c.lru, first, found)
           d       == ReadSpan(c, start, end).cache
<1>1. first \in Nat /\ last \in Nat /\ first <= last
  <2>1. end - 1 \in Nat /\ start <= end - 1
    OBVIOUS
  <2> QED
    BY <2>1, CacheAssumption DEF FirstBlock, LastBlock
<1>2. d = [c EXCEPT !.lru = t]
  BY DEF ReadSpan
<1> HIDE DEF first, last, d
<1>3. /\ found \in Nat
      /\ first..(first + found - 1) \subseteq DOMAIN c.blocks
  <2>1. CASE missing = {}
    <3>1. found = last - first + 1
      BY <2>1
    <3>2. \A i \in first..last : i \in DOMAIN c.blocks
      BY <2>1 DEF HasBlock
    <3> HIDE DEF found, missing
    <3> QED
      BY <1>1, <3>1, <3>2
  <2>2. CASE missing # {}
    <3>1. missing \subseteq Nat
      BY <1>1
    <3> DEFINE m == Min(missing)
    <3>2. m \in missing /\ \A x \in missing : m <= x
      <4> HIDE DEF missing
      <4> QED
        BY <2>2, <3>1, MinIs
    <3>3. found = m - first
      BY <2>2
    <3> HIDE DEF m, found
    <3>4. m \in first..last
      BY <3>2
    <3>5. \A i \in first..(m - 1) : i \in DOMAIN c.blocks
      <4> TAKE i \in first..(m - 1)
      <4>1. i \in first..last /\ ~(m <= i)
        BY <1>1, <3>4
      <4>2. i \notin missing
        BY <3>2, <4>1
      <4> QED
        BY <4>1, <4>2 DEF HasBlock
    <3> HIDE DEF missing
    <3> QED
      BY <1>1, <3>3, <3>4, <3>5
  <2> QED
    BY <2>1, <2>2
<1> HIDE DEF found
<1> HIDE DEF t
<1>4. d = [blocks |-> c.blocks, lru |-> t, pending |-> c.pending, resident |-> c.resident]
  BY <1>2 DEF Budget, Accounted
<1> QED
  BY <1>3, <1>4 DEF d, t, first

(* A read keeps the accounts, whether it finds all blocks or fails half way. *)
LEMMA ReadBudget ==
    ASSUME NEW c, Budget(c), NEW start \in Nat, NEW end \in Nat, start < end
    PROVE  Budget(ReadSpan(c, start, end).cache)
<1> DEFINE first == FirstBlock(start)
           l     == c.lru
           d     == ReadSpan(c, start, end).cache
<1>1. first \in Nat
  BY FirstNat
<1>2. PICK found \in Nat :
          /\ first..(first + found - 1) \subseteq DOMAIN c.blocks
          /\ d = [blocks |-> c.blocks, lru |-> Touch(l, first, found),
                  pending |-> c.pending, resident |-> c.resident]
  BY ReadTouches
<1> DEFINE t == Touch(l, first, found)
<1>3. l \in Seq(Nat) /\ Distinct(l) /\ ToSet(l) = DOMAIN c.blocks
  BY DEF Budget, Accounted
<1> HIDE DEF d, first, l
<1>4. /\ t \in Seq(Nat) /\ Distinct(t)
      /\ ToSet(t) = ToSet(l) \cup (first..(first + found - 1))
  BY <1>1, <1>2, <1>3, TouchOnce
<1>5. ToSet(t) = DOMAIN c.blocks
  BY <1>2, <1>3, <1>4
<1>6. d = [blocks |-> c.blocks, lru |-> t, pending |-> c.pending, resident |-> c.resident]
  BY <1>2
<1> HIDE DEF t
<1> QED
  BY <1>4, <1>5, <1>6 DEF Budget, Accounted, d

(* ... and makes none but the blocks it finds more recent than another. *)
LEMMA ReadOrder ==
    ASSUME NEW c, Budget(c), NEW start \in Nat, NEW end \in Nat, start < end,
           NEW x \in Nat, NEW y \in Nat,
           Before(ReadSpan(c, start, end).cache.lru, x, y), y < FirstBlock(start)
    PROVE  Before(c.lru, x, y)
<1> DEFINE first == FirstBlock(start)
           l     == c.lru
           d     == ReadSpan(c, start, end).cache
<1>1. first \in Nat /\ y < first
  BY FirstNat
<1>2. PICK found \in Nat :
          d = [blocks |-> c.blocks, lru |-> Touch(l, first, found),
               pending |-> c.pending, resident |-> c.resident]
  BY ReadTouches
<1>3. l \in Seq(Nat) /\ Distinct(l)
  BY DEF Budget, Accounted
<1>4. Before(Touch(l, first, found), x, y)
  <2>1. Before(d.lru, x, y)
    OBVIOUS
  <2> HIDE DEF d
  <2>2. d.lru = Touch(l, first, found)
    BY <1>2
  <2> QED
    BY <2>1, <2>2
<1>5. y \notin first..(first + found - 1)
  BY <1>1
<1> HIDE DEF first, l
<1>6. Before(l, x, y)
  BY <1>1, <1>3, <1>4, <1>5, TouchKeeps
<1> QED
  BY <1>6 DEF l

(* A finite set of natural numbers has a greatest one. *)
LEMMA Greatest ==
    ASSUME NEW S, IsFiniteSet(S), S \subseteq Nat, S # {}
    PROVE  Max(S) \in S /\ \A x \in S : x <= Max(S)
<1>1. PICK n \in Nat : ExistsBijection(1..n, S)
  BY FS_NatBijection
<1>2. PICK f : f \in Bijection(1..n, S)
  BY <1>1 DEF ExistsBijection
<1>3. /\ \A i \in 1..n : f[i] \in Nat
      /\ \A x \in S : \E i \in 1..n : x = f[i]
  BY <1>2 DEF Bijection, Surjection, Injection
<1> DEFINE X == {k \in Nat : \E b \in Nat : \A i \in 1..k : i <= n => f[i] <= b}
<1>4. 0 \in X
  OBVIOUS
<1>5. ASSUME NEW k \in X PROVE k + 1 \in X
  <2>1. k \in Nat /\ k + 1 \in Nat
    OBVIOUS
  <2>2. PICK b \in Nat : \A i \in 1..k : i <= n => f[i] <= b
    OBVIOUS
  <2>3. PICK d \in Nat : b <= d /\ (k + 1 <= n => f[k + 1] <= d)
    <3>1. CASE k + 1 <= n
      <4>1. f[k + 1] \in Nat
        BY <1>3, <2>1, <3>1
      <4>2. b <= b + f[k + 1] /\ f[k + 1] <= b + f[k + 1] /\ b + f[k + 1] \in Nat
        BY <4>1
      <4> QED
        BY <4>2
    <3>2. CASE ~(k + 1 <= n)
      BY <3>2
    <3> QED
      BY <3>1, <3>2
  <2>4. ASSUME NEW i \in 1..(k + 1), i <= n PROVE f[i] <= d
    <3>1. f[i] \in Nat
      BY <1>3, <2>1, <2>4
    <3>2. CASE i \in 1..k
      <4>1. f[i] <= b
        BY <2>2, <2>4, <3>2
      <4> QED
        BY <2>3, <3>1, <4>1
    <3>3. CASE i = k + 1
      BY <2>3, <2>4, <3>3
    <3> QED
      BY <2>1, <3>2, <3>3
  <2> QED
    BY <2>1, <2>4
<1> HIDE DEF X
<1>6. n \in X
  <2>1. X \subseteq Nat
    BY DEF X
  <2> QED
    BY <1>4, <1>5, <2>1, Induct
<1>7. PICK b \in Nat : \A x \in S : x <= b
  <2>1. PICK b \in Nat : \A i \in 1..n : i <= n => f[i] <= b
    BY <1>6 DEF X
  <2>2. ASSUME NEW x \in S PROVE x <= b
    <3>1. PICK i \in 1..n : x = f[i]
      BY <1>3
    <3>2. i <= n
      BY <1>1, <3>1
    <3> QED
      BY <2>1, <3>1, <3>2
  <2> QED
    BY <2>2
<1> DEFINE U == {u \in Nat : \A x \in S : x <= u}
<1>8. PICK m \in U : \A u \in U : m <= u
  <2>1. b \in U /\ U \subseteq Nat
    BY <1>7
  <2> HIDE DEF U
  <2> QED
    BY <2>1, Least
<1>9. m \in Nat /\ \A x \in S : x \in Nat /\ x <= m
  BY <1>8
<1>10. m \in S
  <2> SUFFICES ASSUME m \notin S PROVE FALSE
    OBVIOUS
  <2>1. \A x \in S : x \in Nat /\ x < m
    BY <1>9
  <2>2. m - 1 \in Nat
    <3>1. PICK x \in S : TRUE
      OBVIOUS
    <3>2. x \in Nat /\ x < m
      BY <2>1
    <3> QED
      BY <1>9, <3>2
  <2>3. m - 1 \in U
    BY <1>9, <2>1, <2>2
  <2> QED
    BY <1>8, <1>9, <2>3
<1>11. \E x \in S : \A y \in S : x >= y
  BY <1>9, <1>10
<1>12. Max(S) \in S /\ \A y \in S : Max(S) >= y
  BY <1>11 DEF Max
<1> QED
  BY <1>9, <1>12

(* g is FlushPending's flushed, up to block n. *)
FlushUpTo(g, c, n) ==
    g = [i \in 0..n |-> IF i = 0 THEN c
                        ELSE IF i - 1 \in DOMAIN c.pending
                             THEN Commit(g[i - 1], i - 1, FullBlock(c.pending[i - 1]))
                             ELSE g[i - 1]]

FlushStep(c, d, i) ==
    IF i - 1 \in DOMAIN c.pending THEN Commit(d, i - 1, FullBlock(c.pending[i - 1])) ELSE d

LEMMA FlushValues ==
    ASSUME NEW g, NEW c, NEW n \in Nat, FlushUpTo(g, c, n)
    PROVE  g[0] = c /\ \A i \in 1..n : g[i] = FlushStep(c, g[i - 1], i)
<1> DEFINE e(i) == IF i = 0 THEN c ELSE FlushStep(c, g[i - 1], i)
<1>1. g = [i \in 0..n |-> e(i)]
  BY DEF FlushUpTo, FlushStep
<1> HIDE DEF e
<1>2. \A i \in 0..n : g[i] = e(i)
  BY <1>1
<1>3. g[0] = e(0) /\ \A i \in 1..n : g[i] = e(i) /\ i # 0
  BY <1>2
<1> QED
  BY <1>3 DEF e

LEMMA FlushExists ==
    ASSUME NEW c, NEW n \in Nat
    PROVE  \E g : FlushUpTo(g, c, n)
<1> DEFINE X == {j \in Nat : \E g : FlushUpTo(g, c, j)}
<1>1. 0 \in X
  <2> DEFINE g == [i \in 0..0 |-> c]
  <2>1. FlushUpTo(g, c, 0)
    BY DEF FlushUpTo
  <2> QED
    BY <2>1
<1>2. ASSUME NEW j \in X PROVE j + 1 \in X
  <2>1. PICK g : FlushUpTo(g, c, j)
    OBVIOUS
  <2> DEFINE last == FlushStep(c, g[j], j + 1)
             h    == [i \in 0..(j + 1) |-> IF i <= j THEN g[i] ELSE last]
             e(i) == IF i = 0 THEN c ELSE FlushStep(c, h[i - 1], i)
  <2>2. j \in Nat /\ j + 1 \in Nat
    OBVIOUS
  <2>3. ASSUME NEW i \in 0..(j + 1) PROVE h[i] = e(i)
    <3>1. CASE i = 0
      <4>1. g[0] = c
        BY <2>1, <2>2, FlushValues
      <4> QED
        BY <2>2, <3>1, <4>1
    <3>2. CASE i \in 1..j
      <4>1. i - 1 \in 0..j /\ i - 1 <= j
        BY <2>2, <3>2
      <4>2. h[i - 1] = g[i - 1] /\ h[i] = g[i]
        BY <2>2, <3>2, <4>1
      <4>3. g[i] = FlushStep(c, g[i - 1], i)
        BY <2>1, <2>2, <3>2, FlushValues
      <4> QED
        BY <3>2, <4>2, <4>3
    <3>3. CASE i = j + 1
      <4>1. h[i] = last /\ h[i - 1] = g[j] /\ i # 0
        BY <2>2, <3>3
      <4> QED
        BY <3>3, <4>1
    <3> QED
      BY <2>2, <3>1, <3>2, <3>3
  <2>4. h = [i \in 0..(j + 1) |-> e(i)]
    <3> HIDE DEF last, e
    <3>1. h = [i \in 0..(j + 1) |-> h[i]]
      OBVIOUS
    <3> HIDE DEF h
    <3> QED
      BY <2>3, <3>1
  <2> HIDE DEF h
  <2>5. FlushUpTo(h, c, j + 1)
    BY <2>4 DEF FlushUpTo, FlushStep
  <2> QED
    BY <2>2, <2>5
<1> HIDE DEF X
<1>3. X = Nat
  <2>1. X \subseteq Nat
    BY DEF X
  <2> QED
    BY <1>1, <1>2, <2>1, Induct
<1> QED
  BY <1>3 DEF X

(* What a commit leaves resident and what it leaves buffered. *)
LEMMA CommitSets ==
    ASSUME NEW c, NEW idx, NEW block
    PROVE  /\ DOMAIN Commit(c, idx, block).blocks = DOMAIN c.blocks \cup {idx}
           /\ Commit(c, idx, block).pending = Drop(c.pending, {idx})
<1> DEFINE d == Commit(c, idx, block)
<1>1. /\ d.pending = Drop(c.pending, {idx})
      /\ \/ d.blocks = c.blocks /\ idx \in DOMAIN c.blocks
         \/ d.blocks = Put(c.blocks, idx, block)
  BY DEF Commit
<1>2. DOMAIN Put(c.blocks, idx, block) = DOMAIN c.blocks \cup {idx}
  BY DEF Put
<1> HIDE DEF d
<1>3. DOMAIN d.blocks = DOMAIN c.blocks \cup {idx}
  BY <1>1, <1>2
<1> QED
  BY <1>1, <1>3 DEF d

(* What the flush has committed, block after block, before it evicts. *)
LEMMA FlushTurns ==
    ASSUME NEW c, Budget(c)
    PROVE  \E d : /\ FlushPending(c).cache = Evict(d)
                  /\ Accounted(d) /\ Awaiting(d.pending)
                  /\ DOMAIN d.pending = {}
                  /\ DOMAIN d.blocks = DOMAIN c.blocks \cup DOMAIN c.pending
                  /\ Moved(c, d, DOMAIN c.pending)
<1> DEFINE P == {0} \cup DOMAIN c.pending
           n == Max(P) + 1
           g == CHOOSE h : FlushUpTo(h, c, n)
           Good(d, i) == /\ Accounted(d) /\ Awaiting(d.pending)
                         /\ DOMAIN d.pending = {p \in DOMAIN c.pending : p >= i}
                         /\ DOMAIN d.blocks = DOMAIN c.blocks
                                                 \cup (DOMAIN c.pending \ DOMAIN d.pending)
                         /\ Moved(c, d, DOMAIN c.pending)
<1>1. n \in Nat /\ \A p \in DOMAIN c.pending : p \in Nat /\ p < n
  <2>1. IsFiniteSet(P) /\ P \subseteq Nat /\ P # {}
    BY FS_AddElement DEF Budget, Awaiting
  <2>2. DOMAIN c.pending \subseteq P
    OBVIOUS
  <2> HIDE DEF P
  <2>3. Max(P) \in Nat /\ \A p \in P : p <= Max(P)
    BY <2>1, Greatest
  <2>4. n \in Nat
    BY <2>3
  <2>5. ASSUME NEW p \in DOMAIN c.pending PROVE p \in Nat /\ p < n
    <3>1. p \in P /\ p \in Nat
      BY <2>1, <2>2
    <3>2. p <= Max(P)
      BY <2>3, <3>1
    <3> QED
      BY <2>3, <3>1, <3>2
  <2> QED
    BY <2>4, <2>5
<1>2. FlushPending(c).cache = Evict(g[n])
  BY DEF FlushPending, FlushUpTo
<1>3. FlushUpTo(g, c, n)
  <2> HIDE DEF n
  <2>1. \E h : FlushUpTo(h, c, n)
    BY <1>1, FlushExists
  <2> QED
    BY <2>1
<1> HIDE DEF n, g
<1>4. \A i \in Nat : i <= n => Good(g[i], i)
  <2> DEFINE X == {i \in Nat : i <= n => Good(g[i], i)}
  <2>1. 0 \in X
    <3>1. g[0] = c
      BY <1>1, <1>3, FlushValues
    <3>2. DOMAIN c.pending = {p \in DOMAIN c.pending : p >= 0}
      BY <1>1
    <3>3. Moved(c, c, DOMAIN c.pending)
      BY DEF Moved
    <3> QED
      BY <3>1, <3>2, <3>3 DEF Budget
  <2>2. ASSUME NEW i \in X PROVE i + 1 \in X
    <3> SUFFICES ASSUME i + 1 <= n PROVE Good(g[i + 1], i + 1)
      OBVIOUS
    <3> DEFINE d == g[i]
               Left(k) == {p \in DOMAIN c.pending : p >= k}
    <3>1. i \in Nat /\ i + 1 \in 1..n /\ i <= n /\ (i + 1) - 1 = i
      BY <1>1
    <3>2. Good(d, i)
      BY <3>1
    <3>3. g[i + 1] = FlushStep(c, d, i + 1)
      <4>1. g[i + 1] = FlushStep(c, g[(i + 1) - 1], i + 1)
        BY <1>1, <1>3, <3>1, FlushValues
      <4> QED
        BY <3>1, <4>1
    <3>4. Left(i + 1) = Left(i) \ {i}
      BY <1>1, <3>1
    <3> HIDE DEF d
    <3>5. CASE i \in DOMAIN c.pending
      <4> DEFINE buf == c.pending[i]
                 b   == FullBlock(buf)
                 e   == Commit(d, i, b)
      <4>1. g[i + 1] = e
        BY <3>1, <3>3, <3>5 DEF FlushStep
      <4>2. buf \in Seq(Nat) /\ Len(buf) >= 1
        BY <3>5 DEF Budget, Awaiting
      <4> HIDE DEF buf
      <4>3. b \in Seq(Nat) /\ Len(b) \in 1..BLOCK_SIZE
        BY <4>2, FullBlockLength
      <4> HIDE DEF b
      <4>4. /\ Accounted(e) /\ e.pending = Drop(d.pending, {i})
            /\ Moved(d, e, {i})
        BY <3>1, <3>2, <4>3, CommitAccounted, CommitMoved
      <4>5. Awaiting(e.pending)
        <5> DEFINE f == d.pending
        <5>1. Awaiting(f)
          BY <3>2
        <5> HIDE DEF f
        <5>2. Awaiting(Drop(f, {i}))
          BY <5>1, DropAwaiting
        <5> QED
          BY <4>4, <5>2 DEF f
      <4> HIDE DEF e
      <4>6. DOMAIN e.pending = Left(i + 1)
        <5>1. DOMAIN e.pending = (DOMAIN d.pending) \ {i}
          BY <4>4 DEF Drop
        <5> QED
          BY <3>2, <3>4, <5>1
      <4>7. Moved(c, e, DOMAIN c.pending)
        BY <3>2, <3>5, <4>4 DEF Moved
      <4>8. DOMAIN e.blocks = DOMAIN c.blocks \cup (DOMAIN c.pending \ DOMAIN e.pending)
        <5>1. DOMAIN e.blocks = DOMAIN d.blocks \cup {i}
          BY CommitSets DEF e
        <5>2. DOMAIN e.pending = (DOMAIN d.pending) \ {i}
          BY <4>4 DEF Drop
        <5> QED
          BY <3>2, <3>5, <5>1, <5>2
      <4> QED
        BY <4>1, <4>4, <4>5, <4>6, <4>7, <4>8
    <3>6. CASE i \notin DOMAIN c.pending
      <4>1. g[i + 1] = d
        BY <3>1, <3>3, <3>6 DEF FlushStep
      <4>2. Left(i + 1) = Left(i)
        BY <3>4, <3>6
      <4> QED
        BY <3>2, <4>1, <4>2
    <3> QED
      BY <3>5, <3>6
  <2> HIDE DEF X
  <2>3. X = Nat
    <3>1. X \subseteq Nat
      BY DEF X
    <3> QED
      BY <2>1, <2>2, <3>1, Induct
  <2> QED
    BY <2>3 DEF X
<1> DEFINE d == g[n]
<1>5. Good(d, n)
  BY <1>1, <1>4
<1>6. {p \in DOMAIN c.pending : p >= n} = {}
  BY <1>1
<1>7. FlushPending(c).cache = Evict(d)
  BY <1>2
<1> HIDE DEF d
<1> QED
  BY <1>5, <1>6, <1>7

LEMMA FlushBudget ==
    ASSUME NEW c, Budget(c)
    PROVE  Budget(FlushPending(c).cache)
<1>1. PICK d : FlushPending(c).cache = Evict(d) /\ Accounted(d) /\ Awaiting(d.pending)
  BY FlushTurns
<1> QED
  BY <1>1, EvictAccounted DEF Budget

-----------------------------------------------------------------------------
(* The bytes a read returns.                                               *)

LEMMA CellsSeq ==
    ASSUME NEW a \in Nat, NEW n \in Nat
    PROVE  Cells(a, n) \in Seq(Nat) /\ Len(Cells(a, n)) = n
BY DEF Cells

LEMMA SameSeq ==
    ASSUME NEW s \in Seq(Nat), NEW t \in Seq(Nat), Len(s) = Len(t),
           \A k \in 1..Len(s) : s[k] = t[k]
    PROVE  s = t
OBVIOUS

LEMMA CellsJoin ==
    ASSUME NEW a \in Nat, NEW n \in Nat, NEW m \in Nat
    PROVE  Cells(a, n) \o Cells(a + n, m) = Cells(a, n + m)
<1> DEFINE s == Cells(a, n)
           t == Cells(a + n, m)
           u == Cells(a, n + m)
<1>1. /\ s \in Seq(Nat) /\ Len(s) = n
      /\ t \in Seq(Nat) /\ Len(t) = m
      /\ u \in Seq(Nat) /\ Len(u) = n + m
  <2>1. a + n \in Nat /\ n + m \in Nat
    OBVIOUS
  <2> QED
    BY <2>1, CellsSeq
<1>2. /\ \A k \in 1..n : s[k] = a + k - 1
      /\ \A k \in 1..m : t[k] = a + n + k - 1
      /\ \A k \in 1..(n + m) : u[k] = a + k - 1
  BY DEF Cells
<1> HIDE DEF s, t, u
<1>3. /\ s \o t \in Seq(Nat) /\ Len(s \o t) = n + m
      /\ \A k \in 1..n : (s \o t)[k] = s[k]
      /\ \A k \in 1..m : (s \o t)[n + k] = t[k]
  BY <1>1, Joined
<1>4. \A k \in 1..(n + m) : (s \o t)[k] = u[k]
  <2> TAKE k \in 1..(n + m)
  <2>1. CASE k <= n
    BY <1>2, <1>3, <2>1
  <2>2. CASE k > n
    <3>1. k - n \in 1..m /\ n + (k - n) = k
      BY <2>2
    <3>2. (s \o t)[n + (k - n)] = t[k - n]
      BY <1>3, <3>1
    <3>3. u[k] = a + k - 1 /\ t[k - n] = a + n + (k - n) - 1
      BY <1>2, <3>1
    <3>4. (s \o t)[k] = t[k - n]
      BY <3>1, <3>2
    <3> HIDE DEF t, u
    <3> QED
      BY <3>3, <3>4
  <2>3. k <= n \/ k > n
    OBVIOUS
  <2> QED
    BY <2>1, <2>2, <2>3
<1>5. s \o t = u
  BY <1>1, <1>3, <1>4, SameSeq
<1> QED
  BY <1>5 DEF s, t, u

LEMMA PartOf ==
    ASSUME NEW s \in Seq(Nat), NEW b \in Nat, NEW j \in Nat,
           1 <= b, b <= j + 1, j <= Len(s)
    PROVE  LET u == SubSeq(s, b, j)
           IN  /\ u \in Seq(Nat)
               /\ Len(u) = j - b + 1
               /\ \A k \in 1..(j - b + 1) : /\ u[k] = s[b + k - 1]
                                           /\ b + k - 1 \in 1..Len(s)
OBVIOUS

LEMMA CellsPart ==
    ASSUME NEW a \in Nat, NEW n \in Nat, NEW cut \in Nat, NEW m \in Nat, cut + m <= n
    PROVE  Part(Cells(a, n), cut + 1, cut + m) = Cells(a + cut, m)
<1> DEFINE s == Cells(a, n)
           t == Cells(a + cut, m)
           u == SubSeq(s, cut + 1, cut + m)
<1>1. /\ s \in Seq(Nat) /\ Len(s) = n
      /\ t \in Seq(Nat) /\ Len(t) = m
  <2>1. a + cut \in Nat
    OBVIOUS
  <2> QED
    BY <2>1, CellsSeq
<1>2. /\ \A k \in 1..n : s[k] = a + k - 1
      /\ \A k \in 1..m : t[k] = a + cut + k - 1
  BY DEF Cells
<1> HIDE DEF s, t
<1>3. /\ u \in Seq(Nat) /\ Len(u) = m
      /\ \A k \in 1..m : u[k] = s[cut + k] /\ cut + k \in 1..n
  BY <1>1
<1> HIDE DEF u
<1>4. \A k \in 1..m : u[k] = t[k]
  <2> TAKE k \in 1..m
  <2>1. u[k] = s[cut + k] /\ cut + k \in 1..n
    BY <1>3
  <2>2. s[cut + k] = a + (cut + k) - 1
    BY <1>2, <2>1
  <2>3. t[k] = a + cut + k - 1
    BY <1>2
  <2> QED
    BY <2>1, <2>2, <2>3
<1>5. u = t
  BY <1>1, <1>3, <1>4, SameSeq
<1> QED
  BY <1>5 DEF s, t, u, Part

(* A chunk of the media cut in two. *)
LEMMA CellsCut ==
    ASSUME NEW a \in Nat, NEW n \in Nat, NEW k \in Nat, k <= n
    PROVE  /\ Part(Cells(a, n), 1, k) = Cells(a, k)
           /\ Part(Cells(a, n), k + 1, n) = Cells(a + k, n - k)
<1>1. Part(Cells(a, n), 1, k) = Cells(a, k)
  <2> DEFINE z == 0
  <2>1. z \in Nat /\ k \in Nat /\ n \in Nat /\ z + k <= n
    OBVIOUS
  <2>2. z + 1 = 1 /\ z + k = k /\ a + z = a
    OBVIOUS
  <2> HIDE DEF z
  <2>3. Part(Cells(a, n), z + 1, z + k) = Cells(a + z, k)
    BY <2>1, CellsPart
  <2> QED
    BY <2>2, <2>3
<1>2. Part(Cells(a, n), k + 1, n) = Cells(a + k, n - k)
  <2> DEFINE m == n - k
  <2>1. m \in Nat /\ k + m = n /\ k + m <= n
    OBVIOUS
  <2> HIDE DEF m
  <2>2. Part(Cells(a, n), k + 1, k + m) = Cells(a + k, m)
    BY <2>1, CellsPart
  <2> QED
    BY <2>1, <2>2 DEF m
<1> QED
  BY <1>1, <1>2

(* Block k, and its length, of the first M cells of the media. *)
BlockLen(k, M) == IF (k + 1) * BLOCK_SIZE <= M THEN BLOCK_SIZE
                  ELSE M - k * BLOCK_SIZE

BlockOf(k, M) == Cells(k * BLOCK_SIZE, BlockLen(k, M))

LEMMA WholeBlock == \A k : FileBlock(k) = BlockOf(k, FileSize)
BY DEF FileBlock, BlockOf, BlockLen

LEMMA FileBlockLen ==
    ASSUME NEW k \in Nat, NEW M \in Nat, k * BLOCK_SIZE < M
    PROVE  /\ BlockLen(k, M) \in 1..BLOCK_SIZE
           /\ BlockOf(k, M) = Cells(k * BLOCK_SIZE, BlockLen(k, M))
           /\ BlockOf(k, M) \in Seq(Nat)
           /\ Len(BlockOf(k, M)) = BlockLen(k, M)
<1>1. /\ k * BLOCK_SIZE \in Nat
      /\ (k + 1) * BLOCK_SIZE = k * BLOCK_SIZE + BLOCK_SIZE
  BY CacheAssumption
<1>2. BlockLen(k, M) \in 1..BLOCK_SIZE /\ BlockLen(k, M) \in Nat
  BY <1>1, CacheAssumption DEF BlockLen
<1>3. BlockOf(k, M) = Cells(k * BLOCK_SIZE, BlockLen(k, M))
  BY DEF BlockOf, BlockLen
<1> QED
  BY <1>1, <1>2, <1>3, CellsSeq

(* The cells of the media from block first on, in n blocks. *)
Extent(first, n, M) ==
    IF (first + n) * BLOCK_SIZE <= M THEN n * BLOCK_SIZE
    ELSE M - first * BLOCK_SIZE

(* One block more makes the extent one block longer. *)
LEMMA OneBlockMore ==
    ASSUME NEW first \in Nat, NEW n \in Nat, NEW M \in Nat, (first + n) * BLOCK_SIZE < M
    PROVE  Cells(first * BLOCK_SIZE, Extent(first, n, M)) \o BlockOf(first + n, M)
               = Cells(first * BLOCK_SIZE, Extent(first, n + 1, M))
<1> DEFINE a == first * BLOCK_SIZE
           b == n * BLOCK_SIZE
           k == first + n
<1>1. /\ a \in Nat /\ b \in Nat /\ k \in Nat /\ k * BLOCK_SIZE = a + b
      /\ (k + 1) * BLOCK_SIZE = a + b + BLOCK_SIZE
      /\ (first + (n + 1)) * BLOCK_SIZE = a + b + BLOCK_SIZE
      /\ (n + 1) * BLOCK_SIZE = b + BLOCK_SIZE
  BY CacheAssumption
<1>2. a + b < M
  BY <1>1
<1>3. Extent(first, n, M) = b
  BY <1>1, <1>2, CacheAssumption DEF Extent
<1>4. BlockOf(k, M) = Cells(a + b, BlockLen(k, M)) /\ BlockLen(k, M) \in Nat
  BY <1>1, FileBlockLen
<1>5. Extent(first, n + 1, M) = b + BlockLen(k, M)
  <2>1. Extent(first, n + 1, M) = IF a + b + BLOCK_SIZE <= M THEN b + BLOCK_SIZE
                               ELSE M - a
    BY <1>1 DEF Extent
  <2>2. BlockLen(k, M) = IF a + b + BLOCK_SIZE <= M THEN BLOCK_SIZE
                      ELSE M - (a + b)
    BY <1>1 DEF BlockLen
  <2> HIDE DEF a, b, k
  <2> QED
    BY <1>1, <2>1, <2>2, CacheAssumption
<1> HIDE DEF a, b
<1>6. Cells(a, b) \o Cells(a + b, BlockLen(k, M)) = Cells(a, b + BlockLen(k, M))
  <2> DEFINE w == BlockLen(k, M)
  <2>1. a \in Nat /\ b \in Nat /\ w \in Nat
    BY <1>1, <1>4
  <2> HIDE DEF w
  <2>2. Cells(a, b) \o Cells(a + b, w) = Cells(a, b + w)
    BY <2>1, CellsJoin, ZenonT(30)
  <2> QED
    BY <2>2 DEF w
<1> QED
  BY <1>3, <1>4, <1>5, <1>6 DEF a

LEMMA FunctionSeq ==
    ASSUME NEW V, NEW n \in Nat, NEW s \in [1..n -> V]
    PROVE  s \in Seq(V) /\ Len(s) = n
OBVIOUS

(* Blocks first .. first + n - 1 of the media, one after the other. *)
LEMMA BlocksJoined ==
    ASSUME NEW first \in Nat, NEW n \in Nat, NEW M \in Nat, n >= 1,
           (first + n - 1) * BLOCK_SIZE < M,
           NEW s, s = [k \in 1..n |-> BlockOf(first + k - 1, M)]
    PROVE  FlattenSeq(s) = Cells(first * BLOCK_SIZE, Extent(first, n, M))
<1> DEFINE Right(f) == f = [i \in 1..n |-> IF i = 1 THEN s[i] ELSE f[i - 1] \o s[i]]
           whole(i) == Cells(first * BLOCK_SIZE, Extent(first, i, M))
           g == [i \in 1..n |-> whole(i)]
<1>1. Len(s) = n
  <2> DEFINE V == {BlockOf(first + k - 1, M) : k \in 1..n}
  <2>1. s \in [1..n -> V]
    OBVIOUS
  <2> HIDE DEF V
  <2>2. s \in Seq(V) /\ Len(s) = n
    BY <2>1, FunctionSeq
  <2> QED
    BY <2>2
<1>2. \A k \in 1..n : s[k] = BlockOf(first + k - 1, M)
  OBVIOUS
<1>3. s[1] = whole(1)
  <2>1. /\ 0 \in Nat /\ (first + 0) * BLOCK_SIZE < M
        /\ first * BLOCK_SIZE \in Nat
    <3>1. first <= first + n - 1 /\ first + n - 1 \in Nat
      OBVIOUS
    <3>2. first * BLOCK_SIZE <= (first + n - 1) * BLOCK_SIZE
      BY <3>1, MultiplesOrdered, CacheAssumption
    <3>3. first * BLOCK_SIZE \in Nat /\ (first + n - 1) * BLOCK_SIZE \in Nat
      BY <3>1, CacheAssumption
    <3> QED
      BY <3>2, <3>3, CacheAssumption
  <2>2. Cells(first * BLOCK_SIZE, Extent(first, 0, M)) \o BlockOf(first + 0, M)
            = Cells(first * BLOCK_SIZE, Extent(first, 0 + 1, M))
    BY <2>1, OneBlockMore
  <2>3. Extent(first, 0, M) = 0
    BY <2>1, CacheAssumption DEF Extent
  <2>4. Cells(first * BLOCK_SIZE, 0) = <<>>
    BY DEF Cells
  <2>5. first + 0 = first /\ 0 + 1 = 1 /\ first + 1 - 1 = first
    OBVIOUS
  <2>6. BlockOf(first, M) \in Seq(Nat)
    BY <2>1, FileBlockLen
  <2>7. <<>> \o BlockOf(first, M) = BlockOf(first, M)
    <3> DEFINE b == BlockOf(first, M)
    <3>1. b \in Seq(Nat)
      BY <2>6
    <3> HIDE DEF b
    <3>2. <<>> \o b = b
      BY <3>1
    <3> QED
      BY <3>2 DEF b
  <2>8. s[1] = BlockOf(first, M)
    <3>1. 1 \in 1..n
      OBVIOUS
    <3> QED
      BY <1>2, <2>5, <3>1
  <2> QED
    BY <2>2, <2>3, <2>4, <2>5, <2>7, <2>8
<1>4. \A i \in 2..n : whole(i - 1) \o s[i] = whole(i)
  <2> TAKE i \in 2..n
  <2> DEFINE j == i - 1
  <2>1. j \in Nat /\ first + j = first + i - 1 /\ j + 1 = i /\ i \in 1..n
        /\ first + j <= first + n - 1 /\ first + n - 1 \in Nat /\ first + j \in Nat
    OBVIOUS
  <2>2. (first + j) * BLOCK_SIZE < M
    <3> DEFINE u == (first + j) * BLOCK_SIZE
               v == (first + n - 1) * BLOCK_SIZE
    <3>1. u <= v
      BY <2>1, MultiplesOrdered, CacheAssumption
    <3>2. u \in Nat /\ v \in Nat /\ v < M
      BY <2>1, CacheAssumption
    <3> HIDE DEF u, v
    <3>3. u < M
      BY <3>1, <3>2
    <3> QED
      BY <3>3 DEF u
  <2>3. s[i] = BlockOf(first + j, M)
    BY <1>2, <2>1
  <2> HIDE DEF j
  <2>4. Cells(first * BLOCK_SIZE, Extent(first, j, M)) \o BlockOf(first + j, M)
            = Cells(first * BLOCK_SIZE, Extent(first, j + 1, M))
    BY <2>1, <2>2, OneBlockMore
  <2>5. whole(j) \o s[i] = whole(i)
    BY <2>1, <2>3, <2>4
  <2> QED
    BY <2>5 DEF j
<1> HIDE DEF whole
<1>5. Right(g)
  <2> DEFINE e(i) == IF i = 1 THEN s[i] ELSE g[i - 1] \o s[i]
  <2>1. ASSUME NEW i \in 1..n PROVE g[i] = e(i)
    <3>1. CASE i = 1
      BY <1>3, <3>1
    <3>2. CASE i # 1
      <4>1. i \in 2..n /\ i - 1 \in 1..n
        BY <3>2
      <4>2. g[i] = whole(i) /\ g[i - 1] = whole(i - 1)
        BY <4>1
      <4> QED
        BY <1>4, <3>2, <4>1, <4>2
    <3> QED
      BY <3>1, <3>2
  <2>2. g = [i \in 1..n |-> g[i]]
    OBVIOUS
  <2> HIDE DEF g, e
  <2>3. g = [i \in 1..n |-> e(i)]
    BY <2>1, <2>2
  <2> QED
    BY <2>3 DEF e
<1> DEFINE f == CHOOSE h : Right(h)
<1>6. Right(f)
  <2> HIDE DEF Right, g
  <2> QED
    BY <1>5
<1>7. FlattenSeq(s) = f[n]
  BY <1>1 DEF FlattenSeq
<1> HIDE DEF f
<1>8. f[1] = s[1] /\ \A i \in 2..n : f[i] = f[i - 1] \o s[i]
  <2> DEFINE e(i) == IF i = 1 THEN s[i] ELSE f[i - 1] \o s[i]
  <2>1. f = [i \in 1..n |-> e(i)]
    BY <1>6
  <2> HIDE DEF e
  <2>2. \A i \in 1..n : f[i] = e(i)
    BY <2>1
  <2>3. 1 \in 1..n /\ \A i \in 2..n : i \in 1..n /\ i # 1
    OBVIOUS
  <2> QED
    BY <2>2, <2>3 DEF e
<1> HIDE DEF Right, g
<1>9. \A i \in Nat : i + 1 <= n => f[i + 1] = whole(i + 1)
  <2> DEFINE X == {i \in Nat : i + 1 <= n => f[i + 1] = whole(i + 1)}
  <2>1. 0 \in X
    BY <1>3, <1>8
  <2>2. ASSUME NEW i \in X PROVE i + 1 \in X
    <3> SUFFICES ASSUME (i + 1) + 1 <= n PROVE f[(i + 1) + 1] = whole((i + 1) + 1)
      OBVIOUS
    <3> DEFINE k == (i + 1) + 1
    <3>1. i \in Nat /\ i + 1 <= n /\ k \in 2..n /\ k - 1 = i + 1
      OBVIOUS
    <3>2. f[i + 1] = whole(i + 1)
      BY <3>1
    <3> HIDE DEF k
    <3>3. f[k] = whole(k)
      BY <1>4, <1>8, <3>1, <3>2
    <3> QED
      BY <3>3 DEF k
  <2> HIDE DEF X
  <2>3. X = Nat
    <3>1. X \subseteq Nat
      BY DEF X
    <3> QED
      BY <2>1, <2>2, <3>1, Induct
  <2> QED
    BY <2>3 DEF X
<1>10. f[n] = whole(n)
  <2> DEFINE m == n - 1
  <2>1. m \in Nat /\ m + 1 = n /\ m + 1 <= n
    OBVIOUS
  <2> HIDE DEF m
  <2>2. f[m + 1] = whole(m + 1)
    BY <1>9, <2>1
  <2> QED
    BY <2>1, <2>2
<1> QED
  BY <1>7, <1>10 DEF whole

(* A read over blocks that hold the media returns the span's own cells. *)
LEMMA SpanRead ==
    ASSUME NEW c, NEW start \in Nat, NEW end \in Nat, NEW M \in Nat,
           start < end, end <= M,
           \A i \in FirstBlock(start)..LastBlock(start, end) :
               HasBlock(c, i) /\ c.blocks[i] = BlockOf(i, M)
    PROVE  ReadSpan(c, start, end).data = Cells(start, end - start)
<1> DEFINE first  == FirstBlock(start)
           last   == LastBlock(start, end)
           n      == last - first + 1
           s      == [k \in 1..n |-> c.blocks[first + k - 1]]
           joined == FlattenSeq(s)
           base   == first * BLOCK_SIZE
           cut    == start - base
           size   == Extent(first, n, M)
<1>1. /\ first \in Nat /\ last \in Nat /\ first <= last
      /\ base \in Nat /\ base <= start
      /\ last * BLOCK_SIZE < M
      /\ end <= last * BLOCK_SIZE + BLOCK_SIZE
      /\ last * BLOCK_SIZE \in Nat
  <2>1. end - 1 \in Nat /\ start <= end - 1
    OBVIOUS
  <2>2. first \in Nat /\ last \in Nat /\ first <= last
    BY <2>1, CacheAssumption DEF FirstBlock, LastBlock
  <2>3. (start \div BLOCK_SIZE) * BLOCK_SIZE <= start
    BY DivisionBounds, CacheAssumption
  <2>4. /\ ((end - 1) \div BLOCK_SIZE) * BLOCK_SIZE <= end - 1
        /\ end - 1 < ((end - 1) \div BLOCK_SIZE + 1) * BLOCK_SIZE
    BY <2>1, DivisionBounds, CacheAssumption
  <2>5. base \in Nat /\ last * BLOCK_SIZE \in Nat
    <3> HIDE DEF first, last
    <3> QED
      BY <2>2, CacheAssumption
  <2>6. /\ base <= start
        /\ last * BLOCK_SIZE <= end - 1
        /\ end - 1 < (last + 1) * BLOCK_SIZE
    BY <2>3, <2>4 DEF FirstBlock, LastBlock
  <2> HIDE DEF first, last
  <2>7. (last + 1) * BLOCK_SIZE = last * BLOCK_SIZE + BLOCK_SIZE
    BY <2>2, CacheAssumption
  <2> QED
    BY <2>2, <2>5, <2>6, <2>7, CacheAssumption
<1>2. \A i \in first..last : HasBlock(c, i) /\ c.blocks[i] = BlockOf(i, M)
  OBVIOUS
<1>3. ReadSpan(c, start, end).data
          = IF {i \in first..last : ~HasBlock(c, i)} # {} THEN None
            ELSE SubSeq(joined, cut + 1, Min({cut + end - start, Len(joined)}))
  BY DEF ReadSpan
<1> HIDE DEF first, last
<1>4. n \in Nat /\ n >= 1 /\ first + n - 1 = last /\ first + n = last + 1
  BY <1>1
<1>5. joined = Cells(base, size)
  <2>1. s = [k \in 1..n |-> BlockOf(first + k - 1, M)]
    <3>1. \A k \in 1..n : first + k - 1 \in first..last
      BY <1>1
    <3>2. \A k \in 1..n : c.blocks[first + k - 1] = BlockOf(first + k - 1, M)
      BY <1>2, <3>1
    <3> QED
      BY <3>2
  <2>2. (first + n - 1) * BLOCK_SIZE < M
    BY <1>1, <1>4
  <2> HIDE DEF n, s
  <2> QED
    BY <1>1, <1>4, <2>1, <2>2, BlocksJoined
<1> HIDE DEF s
<1>6. size \in Nat /\ end - base <= size
  <2>1. (first + n) * BLOCK_SIZE = last * BLOCK_SIZE + BLOCK_SIZE
    BY <1>1, <1>4, CacheAssumption
  <2>2. n * BLOCK_SIZE = last * BLOCK_SIZE + BLOCK_SIZE - base
    BY <1>1, CacheAssumption
  <2>3. size = IF last * BLOCK_SIZE + BLOCK_SIZE <= M
               THEN last * BLOCK_SIZE + BLOCK_SIZE - base
               ELSE M - base
    BY <2>1, <2>2 DEF Extent
  <2> HIDE DEF n, base, size
  <2> QED
    BY <1>1, <2>3, CacheAssumption
<1> HIDE DEF size, base
<1>7. Len(joined) = size /\ cut \in Nat /\ cut + end - start \in Nat
      /\ cut + end - start = end - base /\ cut <= end - base
  <2>1. cut \in Nat /\ cut + end - start = end - base /\ cut <= end - base
    BY <1>1
  <2>2. Len(Cells(base, size)) = size
    BY <1>1, <1>6, CellsSeq
  <2> QED
    BY <1>1, <1>5, <2>1, <2>2
<1>8. Min({cut + end - start, Len(joined)}) = end - base
  <2> DEFINE p == cut + end - start
             q == Len(joined)
  <2>1. p \in Nat /\ q \in Nat /\ p <= q /\ p = end - base
    BY <1>6, <1>7
  <2> HIDE DEF p, q
  <2>2. Min({p, q}) \in {p, q} /\ \A x \in {p, q} : Min({p, q}) <= x
    <3> DEFINE S == {p, q}
    <3>1. S \subseteq Nat /\ S # {}
      BY <2>1
    <3> HIDE DEF S
    <3>2. Min(S) \in S /\ \A x \in S : Min(S) <= x
      BY <3>1, MinIs
    <3> QED
      BY <3>2 DEF S
  <2>3. Min({p, q}) = p
    BY <2>1, <2>2
  <2> QED
    BY <2>1, <2>3 DEF p, q
<1>9. SubSeq(joined, cut + 1, end - base) = Cells(start, end - start)
  <2> DEFINE m == end - start
  <2>1. /\ m \in Nat /\ cut \in Nat /\ cut + m = end - base /\ cut + m <= size
        /\ base + cut = start
    BY <1>1, <1>6, <1>7
  <2> HIDE DEF m, cut, joined
  <2>2. Part(Cells(base, size), cut + 1, cut + m) = Cells(base + cut, m)
    BY <1>1, <1>6, <2>1, CellsPart
  <2>3. Part(joined, cut + 1, end - base) = Cells(start, m)
    BY <1>5, <2>1, <2>2
  <2> QED
    BY <2>3 DEF m, Part
<1>10. {i \in first..last : ~HasBlock(c, i)} = {}
  BY <1>2
<1> QED
  BY <1>3, <1>8, <1>9, <1>10

-----------------------------------------------------------------------------
(* The cache on its own.                                                   *)

LEMMA EmptyBudget == Budget(EmptyCache)
<1> DEFINE e == NoEntries
           c == EmptyCache
<1>1. c = [blocks |-> e, lru |-> <<>>, pending |-> e, resident |-> 0]
  BY DEF EmptyCache
<1>2. DOMAIN e = {}
  BY DEF NoEntries
<1> HIDE DEF e, c
<1>3. /\ c.blocks = e /\ c.lru = <<>> /\ c.pending = e /\ c.resident = 0
      /\ c = [blocks |-> c.blocks, lru |-> c.lru,
              pending |-> c.pending, resident |-> c.resident]
  BY <1>1
<1>4. IsFiniteSet({})
  BY FS_EmptySet
<1>5. Blocks(e) /\ Awaiting(e)
  BY <1>2, <1>4 DEF Blocks, Awaiting
<1>6. CellsIn(e) = {}
  BY <1>2 DEF CellsIn
<1>7. <<>> \in Seq(Nat) /\ Distinct(<<>>) /\ ToSet(<<>>) = {}
  BY DEF Distinct, ToSet
<1>8. Cardinality(CellsIn(e)) = 0
  BY <1>6, FS_EmptySet
<1>9. Accounted(c)
  BY <1>2, <1>3, <1>5, <1>7, <1>8 DEF Accounted
<1> QED
  BY <1>3, <1>5, <1>9, CapacityNat DEF Budget, c

LEMMA StoreStep == Budget(cache) /\ CacheStore => Budget(cache')
<1> SUFFICES ASSUME Budget(cache), CacheStore PROVE Budget(cache')
  OBVIOUS
<1>1. PICK start \in 0..(FileSize - 1), n \in 1..BLOCK_SIZE :
          cache' = StoreBytes(cache, start, Cells(start, n)).cache
  BY DEF CacheStore
<1>2. start \in Nat /\ n \in Nat /\ n >= 1
  BY CacheAssumption
<1> DEFINE d == Cells(start, n)
<1>3. d \in Seq(Nat) /\ Len(d) >= 1
  BY <1>2, CellsSeq
<1> HIDE DEF d
<1>4. Budget(StoreBytes(cache, start, d).cache)
  BY <1>2, <1>3, StoreBudget
<1> QED
  BY <1>1, <1>4 DEF d

LEMMA ReadStep == Budget(cache) /\ CacheRead => Budget(cache')
<1> SUFFICES ASSUME Budget(cache), CacheRead PROVE Budget(cache')
  OBVIOUS
<1>1. PICK start \in 0..FileSize, end \in 0..FileSize :
          start < end /\ cache' = ReadSpan(cache, start, end).cache
  BY DEF CacheRead
<1>2. start \in Nat /\ end \in Nat
  BY CacheAssumption
<1> QED
  BY <1>1, <1>2, ReadBudget

LEMMA BudgetAlways == CacheSpec => []Budget(cache)
<1>1. CacheInit => Budget(cache)
  BY EmptyBudget DEF CacheInit
<1>2. Budget(cache) /\ [CacheNext]_cache => Budget(cache)'
  <2> SUFFICES ASSUME Budget(cache), [CacheNext]_cache PROVE Budget(cache')
    OBVIOUS
  <2>1. CASE CacheStore
    BY <2>1, StoreStep
  <2>2. CASE CacheRead
    BY <2>2, ReadStep
  <2>3. CASE CacheFlush
    BY <2>3, FlushBudget DEF CacheFlush
  <2>4. CASE CacheClear
    BY <2>4, EmptyBudget DEF CacheClear
  <2>5. CASE cache' = cache
    BY <2>5
  <2> QED
    BY <2>1, <2>2, <2>3, <2>4, <2>5 DEF CacheNext
<1> QED
  BY <1>1, <1>2, PTL DEF CacheSpec

(* A recency list that names each block once is as long as they are many. *)
LEMMA ListLength ==
    ASSUME NEW s \in Seq(Nat), Distinct(s)
    PROVE  Len(s) = Cardinality(ToSet(s))
<1> DEFINE S == ToSet(s)
           n == Len(s)
<1>1. n \in Nat /\ DOMAIN s = 1..n
  OBVIOUS
<1>2. S = {s[i] : i \in 1..n}
  BY <1>1 DEF ToSet
<1>3. s \in [1..n -> S]
  BY <1>1, <1>2
<1>4. s \in Bijection(1..n, S)
  BY <1>1, <1>2, <1>3 DEF Bijection, Injection, Surjection, IsInjective, Distinct
<1> HIDE DEF S, n
<1>5. ExistsBijection(1..n, S)
  BY <1>4 DEF ExistsBijection
<1>6. Cardinality(S) = n
  BY <1>1, <1>5, FS_CountingElements
<1> QED
  BY <1>6 DEF S, n

LEMMA BudgetExact == Budget(cache) => ResidentExact /\ PendingIncomplete
<1> SUFFICES ASSUME Budget(cache)
             PROVE  ResidentExact /\ PendingIncomplete
  OBVIOUS
<1> DEFINE l == cache.lru
<1>1. l \in Seq(Nat) /\ Distinct(l) /\ ToSet(l) = DOMAIN cache.blocks
  BY DEF Budget, Accounted
<1> HIDE DEF l
<1>2. Len(l) = Cardinality(DOMAIN cache.blocks)
  BY <1>1, ListLength
<1>3. ResidentExact
  BY <1>1, <1>2 DEF ResidentExact, Budget, Accounted, Blocks, l
<1>4. PendingIncomplete
  BY DEF Budget, Awaiting, PendingIncomplete
<1> QED
  BY <1>3, <1>4

(* The counter that decides about eviction is the number of cells held,    *)
(* within the capacity, and the recency list names each resident block     *)
(* once (BlockCache, all its methods), for every block size, capacity,     *)
(* media and announced length.                                             *)
THEOREM AccountsExact == CacheSpec => []ResidentExact
BY BudgetExact, BudgetAlways, PTL

(* A block is committed in the very call that completes it (store_bytes),  *)
(* so that no buffer is ever complete, nor an empty one kept.              *)
THEOREM BuffersIncomplete == CacheSpec => []PendingIncomplete
BY BudgetExact, BudgetAlways, PTL

(* read_span returns exactly the bytes of the span, whenever the blocks    *)
(* under it hold the media: whatever else is resident, and wherever the    *)
(* span starts and ends in its first and its last, perhaps short, block.   *)
THEOREM ReadsExact == CacheSpec => []ReadExact
<1>1. ReadExact
  <2> SUFFICES ASSUME NEW start \in 0..FileSize, NEW end \in 0..FileSize, start < end,
                      \A i \in FirstBlock(start)..LastBlock(start, end) :
                          HasBlock(cache, i) /\ cache.blocks[i] = FileBlock(i)
               PROVE  ReadSpan(cache, start, end).data = Cells(start, end - start)
    BY DEF ReadExact
  <2>1. start \in Nat /\ end \in Nat /\ FileSize \in Nat /\ end <= FileSize
    BY CacheAssumption
  <2>2. \A i \in FirstBlock(start)..LastBlock(start, end) :
            HasBlock(cache, i) /\ cache.blocks[i] = BlockOf(i, FileSize)
    BY WholeBlock
  <2> QED
    BY <2>1, <2>2, SpanRead
<1> QED
  BY <1>1, PTL

(* Ages are places in the recency list. *)
LEMMA OlderAge ==
    ASSUME Accounted(cache), NEW i, NEW j, Before(cache.lru, i, j)
    PROVE  Age(i) < Age(j)
<1> DEFINE l == cache.lru
<1>1. PICK a \in 1..Len(l), b \in 1..Len(l) : a < b /\ l[a] = i /\ l[b] = j
  BY DEF Before
<1>2. \A n \in 1..Len(l) : (l[n] = i => n = a) /\ (l[n] = j => n = b)
  BY <1>1 DEF Accounted, Distinct
<1>3. Age(i) \in 1..Len(l) /\ l[Age(i)] = i
  BY <1>1 DEF Age
<1>4. Age(j) \in 1..Len(l) /\ l[Age(j)] = j
  BY <1>1 DEF Age
<1> QED
  BY <1>1, <1>2, <1>3, <1>4

(* What an eviction takes, when nothing but the blocks of M has moved before. *)
LEMMA EvictsOlder ==
    ASSUME NEW c, Accounted(c), NEW d, Accounted(d), NEW M, Moved(c, d, M),
           NEW i \in (DOMAIN c.blocks) \ DOMAIN Evict(d).blocks,
           NEW j \in (DOMAIN c.blocks) \cap DOMAIN Evict(d).blocks
    PROVE  Before(c.lru, i, j) \/ j \in M
<1>1. i \in (DOMAIN d.blocks) \ DOMAIN Evict(d).blocks
  BY DEF Moved
<1>2. Before(d.lru, i, j)
  BY <1>1, EvictOrder
<1>3. i \in Nat /\ j \in Nat
  BY DEF Accounted, Blocks
<1> QED
  BY <1>2, <1>3 DEF Moved

(* Eviction takes the least recently used blocks, whatever is stored, read *)
(* and flushed in what order: a block goes before every block that stays,  *)
(* unless the very step that evicts has moved that one to the recent end.  *)
THEOREM OldestEvicted == CacheSpec => EvictsOldest
<1> DEFINE Older == cache' # EmptyCache =>
               \A i \in DOMAIN cache.blocks \ DOMAIN cache'.blocks,
                  j \in DOMAIN cache.blocks \cap DOMAIN cache'.blocks :
                      \/ Age(i) < Age(j)
                      \/ j \in Recent(cache')
                      \/ j \in DOMAIN cache.pending \ DOMAIN cache'.pending
<1>1. Budget(cache) /\ [CacheNext]_cache => [Older]_cache
  <2> SUFFICES ASSUME Budget(cache), CacheNext, cache' # EmptyCache,
                      NEW i \in DOMAIN cache.blocks \ DOMAIN cache'.blocks,
                      NEW j \in DOMAIN cache.blocks \cap DOMAIN cache'.blocks
               PROVE  \/ Age(i) < Age(j)
                      \/ j \in Recent(cache')
                      \/ j \in DOMAIN cache.pending \ DOMAIN cache'.pending
    OBVIOUS
  <2>1. Accounted(cache)
    BY DEF Budget
  <2>2. ASSUME Before(cache.lru, i, j) PROVE Age(i) < Age(j)
    BY <2>1, <2>2, OlderAge
  <2>3. CASE CacheStore
    <3>1. PICK start \in 0..(FileSize - 1), n \in 1..BLOCK_SIZE :
              cache' = StoreBytes(cache, start, Cells(start, n)).cache
      BY <2>3 DEF CacheStore
    <3>2. start \in Nat /\ n \in Nat /\ n >= 1
      BY CacheAssumption
    <3> DEFINE data == Cells(start, n)
    <3>3. data \in Seq(Nat) /\ Len(data) >= 1
      BY <3>2, CellsSeq
    <3> HIDE DEF data
    <3>4. PICK d : /\ StoreBytes(cache, start, data).cache = Evict(d)
                   /\ Accounted(d) /\ Moved(cache, d, Recent(d))
      BY <3>2, <3>3, StoreOrder
    <3>5. cache' = Evict(d)
      BY <3>1, <3>4 DEF data
    <3>6. Before(cache.lru, i, j) \/ j \in Recent(d)
      BY <2>1, <3>4, <3>5, EvictsOlder
    <3>7. i \in (DOMAIN d.blocks) \ DOMAIN Evict(d).blocks /\ j \in DOMAIN Evict(d).blocks
      BY <3>4, <3>5 DEF Moved
    <3>8. j \in Recent(d) => j \in Recent(Evict(d))
      BY <3>4, <3>7, EvictOrder
    <3>9. Recent(cache') = Recent(Evict(d))
      BY <3>5
    <3> QED
      BY <2>2, <3>6, <3>8, <3>9
  <2>4. CASE CacheRead
    <3>1. cache'.blocks = cache.blocks
      BY <2>1, <2>4 DEF CacheRead, ReadSpan, Accounted
    <3> QED
      BY <3>1
  <2>5. CASE CacheFlush
    <3>1. PICK d : /\ FlushPending(cache).cache = Evict(d)
                   /\ Accounted(d) /\ DOMAIN d.pending = {}
                   /\ Moved(cache, d, DOMAIN cache.pending)
      BY FlushTurns
    <3>2. cache' = Evict(d)
      BY <2>5, <3>1 DEF CacheFlush
    <3>3. cache'.pending = d.pending
      BY <3>1, <3>2, EvictAccounted
    <3>4. Before(cache.lru, i, j) \/ j \in DOMAIN cache.pending
      BY <2>1, <3>1, <3>2, EvictsOlder
    <3> QED
      BY <2>2, <3>1, <3>3, <3>4
  <2>6. CASE CacheClear
    BY <2>6 DEF CacheClear
  <2> QED
    BY <2>3, <2>4, <2>5, <2>6 DEF CacheNext
<1> QED
  BY <1>1, BudgetAlways, PTL DEF CacheSpec, EvictsOldest
=============================================================================
