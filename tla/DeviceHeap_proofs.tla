-------------------------- MODULE DeviceHeap_proofs --------------------------
(***************************************************************************)
(* Proofs about DeviceHeap and the memory manager it is built from.        *)
(***************************************************************************)
EXTENDS DeviceHeap, FiniteSetTheorems, SequenceTheorems, NaturalsInduction,
        WellFoundedInduction, TLAPS

\* A block as the manager makes it: whole units, at a unit boundary.
Block == {b \in Nat \X (Nat \ {0}) : b[1] % Align = 0 /\ b[2] % Align = 0}

\* The address after a block.
After(b) == b[1] + b[2]

\* The addresses of the blocks of a list.
Covered(list) == UNION {Extent(list[i]) : i \in DOMAIN list}

\* No two blocks of a list overlap.
Clear(a, b) == After(a) <= b[1] \/ After(b) <= a[1]
Separate(list) == \A i, j \in DOMAIN list : i # j => Clear(list[i], list[j])

\* Blocks in the order of their addresses that do not overlap, and that do not
\* even touch.
InOrder(list) == \A i, j \in DOMAIN list : i < j => After(list[i]) <= list[j][1]
Gapped(list)  == \A i, j \in DOMAIN list : i < j => After(list[i]) < list[j][1]

\* What a manager keeps.
Good(m) ==
  /\ m = [start |-> m.start, size |-> m.size, free |-> m.free, busy |-> m.busy,
          freeSize |-> m.freeSize]
  /\ m.start \in Nat /\ m.size \in Nat
  /\ m.free \in Seq(Block) /\ m.busy \subseteq Block
  /\ Separate(m.free)
  /\ \A b \in m.busy : Extent(b) \cap Covered(m.free) = {}
  /\ \A a, b \in m.busy : a # b => Extent(a) \cap Extent(b) = {}
  /\ Covered(m.free) \cup UNION {Extent(b) : b \in m.busy} = m.start .. m.start + m.size - 1
  /\ m.freeSize = Cardinality(Covered(m.free))
  /\ m.busy = {} => Len(m.free) <= Threshold

------------------------------------------------------------------------------
(* Numbers.                                                                 *)

LEMMA LeastExists ==
  ASSUME NEW S \in SUBSET Nat, S # {}
  PROVE  \E i \in S : \A j \in S : i <= j
<1>1. PICK i \in S : \A j \in S : <<j, i>> \notin OpToRel(<, Nat)
  <2>1. PICK x : x \in S
    BY Zenon
  <2>2. S \subseteq Nat /\ IsWellFoundedOn(OpToRel(<, Nat), Nat)
    BY NatLessThanWellFounded, Zenon
  <2>3. IsWellFoundedOn(OpToRel(<, Nat), S)
    BY <2>2, IsWellFoundedOnSubset, Zenon
  <2>4. QED
    BY <2>1, <2>2, WFMin, Zenon
<1>2. \A j \in S : ~(j < i)
  BY <1>1 DEF OpToRel
<1>3. QED
  BY <1>2

\* Whole units: their sums and differences are whole units too.
LEMMA Unit ==
  ASSUME NEW a \in Nat, a % Align = 0
  PROVE  \E q \in Nat : a = Align * q
<1>1. Align \in Nat \ {0}
  BY ManagerAssumption
<1>2. a = Align * (a \div Align) + (a % Align) /\ a \div Align \in Nat
  BY <1>1, Z3
<1>3. QED
  BY <1>1, <1>2

LEMMA Multiple ==
  ASSUME NEW q \in Nat
  PROVE  (Align * q) % Align = 0
<1> DEFINE a == Align * q
<1>1. a \in Nat /\ Align \in Nat \ {0}
  BY ManagerAssumption
<1>2. a = Align * (a \div Align) + (a % Align) /\ a \div Align \in Nat
      /\ a % Align \in 0 .. Align - 1
  BY <1>1, Z3
<1> DEFINE p == a \div Align
           r == a % Align
<1>3. Align * (q - p) = r /\ q - p \in Int
  <2>1. Align * q - Align * p = r
    BY <1>1, <1>2
  <2>2. \A x, y \in Nat : Align * (x - y) = Align * x - Align * y
    BY <1>1
  <2>3. QED
    BY <2>1, <2>2, <1>2
<1>4. ~(q - p >= 1)
  <2>1. ASSUME q - p >= 1 PROVE Align * (q - p) >= Align
    BY <2>1, <1>1, <1>3
  <2>2. QED
    BY <2>1, <1>1, <1>2, <1>3
<1>5. ~(q - p <= -1)
  <2>1. ASSUME q - p <= -1 PROVE Align * (q - p) <= -Align
    BY <2>1, <1>1, <1>3
  <2>2. QED
    BY <2>1, <1>1, <1>2, <1>3
<1>6. q - p = 0
  BY <1>3, <1>4, <1>5
<1>7. Align * (q - p) = 0
  BY <1>6, <1>1
<1>8. QED
  BY <1>3, <1>7

LEMMA UnitSum ==
  ASSUME NEW a \in Nat, NEW b \in Nat, a % Align = 0, b % Align = 0
  PROVE  (a + b) % Align = 0 /\ (b <= a => (a - b) % Align = 0)
<1>1. PICK q \in Nat : a = Align * q
  BY Unit
<1>2. PICK p \in Nat : b = Align * p
  BY Unit
<1>3. (a + b) % Align = 0
  <2>1. a + b = Align * (q + p)
    BY <1>1, <1>2, ManagerAssumption
  <2>2. QED
    BY <2>1, Multiple
<1>4. ASSUME b <= a PROVE (a - b) % Align = 0
  <2>1. a - b = Align * (q - p)
    BY <1>1, <1>2, ManagerAssumption
  <2>2. q - p >= 0
    <3>1. ASSUME q - p <= -1 PROVE FALSE
      <4>1. Align * (q - p) <= -Align
        BY <3>1, ManagerAssumption
      <4>2. QED
        BY <4>1, <2>1, <1>4, ManagerAssumption
    <3>2. QED
      BY <3>1
  <2>3. QED
    BY <2>1, <2>2, Multiple
<1>5. QED
  BY <1>3, <1>4

LEMMA PaddedUnit ==
  ASSUME NEW n \in Nat
  PROVE  Padded(n) \in Nat \ {0} /\ Padded(n) % Align = 0 /\ Padded(n) >= n
<1>1. CASE n = 0
  <2>1. Align = Align * 1 /\ Align \in Nat \ {0}
    BY ManagerAssumption
  <2>2. QED
    BY <1>1, <2>1, Multiple DEF Padded
<1>2. CASE n # 0
  <2> DEFINE r == n % Align
             q == n \div Align
  <2>1. n = Align * q + r /\ q \in Nat /\ r \in 0 .. Align - 1 /\ Align \in Nat \ {0}
    BY ManagerAssumption, Z3
  <2>2. CASE r = 0
    <3>1. (Align - r) % Align = 0
      <4>1. Align - r = Align * 1
        BY <2>2, <2>1
      <4>2. QED
        BY <4>1, Multiple
    <3>2. QED
      BY <3>1, <1>2, <2>1, <2>2 DEF Padded
  <2>3. CASE r # 0
    <3>1. (Align - r) % Align = Align - r
      BY <2>3, <2>1, Z3
    <3>2. Padded(n) = n + (Align - r)
      BY <3>1, <1>2 DEF Padded
    <3>3. n + (Align - r) = Align * q + Align
      BY <2>1
    <3>4. Align * q + Align = Align * (q + 1)
      BY <2>1
    <3>5. (Align * (q + 1)) % Align = 0
      BY <2>1, Multiple
    <3>6. n + (Align - r) >= n
      BY <2>1
    <3>7. q + 1 >= 1 /\ Align * (q + 1) \in Nat
      BY <2>1
    <3>8. n + (Align - r) \in Nat \ {0}
      BY <2>1, <1>2
    <3> QED
      BY <3>2, <3>3, <3>4, <3>5, <3>6, <3>8
  <2>4. QED
    BY <2>2, <2>3
<1>3. QED
  BY <1>1, <1>2

------------------------------------------------------------------------------
(* Blocks and lists of blocks.                                              *)

LEMMA BlockType ==
  ASSUME NEW b \in Block
  PROVE  /\ b = <<b[1], b[2]>> /\ b[1] \in Nat /\ b[2] \in Nat \ {0}
         /\ b[1] % Align = 0 /\ b[2] % Align = 0
         /\ Extent(b) \subseteq Nat /\ b[1] \in Extent(b) /\ After(b) - 1 \in Extent(b)
         /\ \A x \in Int : x \in Extent(b) <=> b[1] <= x /\ x < After(b)
<1>1. b = <<b[1], b[2]>> /\ b[1] \in Nat /\ b[2] \in Nat \ {0}
      /\ b[1] % Align = 0 /\ b[2] % Align = 0
  BY DEF Block
<1>2. QED
  BY <1>1 DEF Extent, After

LEMMA AfterType ==
  ASSUME NEW b \in Block
  PROVE  b[1] \in Nat /\ After(b) \in Nat /\ b[1] < After(b)
<1>1. b[1] \in Nat /\ b[2] \in Nat \ {0}
  BY BlockType
<1>2. QED
  BY <1>1 DEF After

LEMMA IsBlock ==
  ASSUME NEW x \in Nat, NEW n \in Nat \ {0}, x % Align = 0, n % Align = 0
  PROVE  <<x, n>> \in Block
BY DEF Block

LEMMA ClearApart ==
  ASSUME NEW a \in Block, NEW b \in Block
  PROVE  Clear(a, b) <=> Extent(a) \cap Extent(b) = {}
<1>1. /\ a[1] \in Nat /\ a[2] \in Nat \ {0} /\ b[1] \in Nat /\ b[2] \in Nat \ {0}
  BY BlockType
<1>2. ASSUME Clear(a, b) PROVE Extent(a) \cap Extent(b) = {}
  BY <1>1, <1>2 DEF Clear, Extent, After
<1>3. ASSUME ~Clear(a, b) PROVE Extent(a) \cap Extent(b) # {}
  <2>1. a[1] < b[1] + b[2] /\ b[1] < a[1] + a[2]
    BY <1>1, <1>3 DEF Clear, After
  <2>2. CASE a[1] <= b[1]
    <3>1. b[1] \in Extent(a) /\ b[1] \in Extent(b)
      BY <1>1, <2>1, <2>2 DEF Extent
    <3>2. QED
      BY <3>1
  <2>3. CASE b[1] <= a[1]
    <3>1. a[1] \in Extent(a) /\ a[1] \in Extent(b)
      BY <1>1, <2>1, <2>3 DEF Extent
    <3>2. QED
      BY <3>1
  <2>4. QED
    BY <2>2, <2>3, <1>1
<1>4. QED
  BY <1>2, <1>3

LEMMA CoveredIn ==
  ASSUME NEW list
  PROVE  \A x : x \in Covered(list) <=> \E i \in DOMAIN list : x \in Extent(list[i])
BY DEF Covered

LEMMA SeqBlock ==
  ASSUME NEW list \in Seq(Block)
  PROVE  /\ Len(list) \in Nat /\ DOMAIN list = 1 .. Len(list)
         /\ \A i \in DOMAIN list : list[i] \in Block
OBVIOUS

\* A list without one of its entries.
LEMMA Removed ==
  ASSUME NEW list \in Seq(Block), NEW i \in DOMAIN list
  PROVE  LET new == RemoveAt(list, i)
         IN /\ new \in Seq(Block) /\ Len(new) = Len(list) - 1
            /\ \A j \in DOMAIN new : new[j] = IF j < i THEN list[j] ELSE list[j + 1]
<1> DEFINE front == SubSeq(list, 1, i - 1)
           rest == SubSeq(list, i + 1, Len(list))
<1>1. i \in 1 .. Len(list) /\ Len(list) \in Nat
  OBVIOUS
<1>2. /\ front \in Seq(Block) /\ Len(front) = i - 1
      /\ \A j \in 1 .. i - 1 : front[j] = list[j]
  BY <1>1, SubSeqProperties
<1>3. /\ rest \in Seq(Block) /\ Len(rest) = Len(list) - i
      /\ \A j \in 1 .. Len(list) - i : rest[j] = list[i + j]
  BY <1>1, SubSeqProperties
<1>4. RemoveAt(list, i) = front \o rest
  BY DEF RemoveAt
<1> HIDE DEF front, rest
<1>5. /\ front \o rest \in Seq(Block) /\ Len(front \o rest) = Len(list) - 1
  BY <1>1, <1>2, <1>3, ConcatProperties
<1>6. ASSUME NEW j \in 1 .. Len(list) - 1
      PROVE  (front \o rest)[j] = IF j < i THEN list[j] ELSE list[j + 1]
  <2>1. (front \o rest)[j] = IF j <= i - 1 THEN front[j] ELSE rest[j - (i - 1)]
    <3>1. j \in 1 .. Len(front) + Len(rest)
      BY <1>1, <1>2, <1>3
    <3>2. (front \o rest)[j] = IF j <= Len(front) THEN front[j] ELSE rest[j - Len(front)]
      BY <3>1, <1>2, <1>3, ConcatProperties
    <3>3. QED
      BY <3>2, <1>2
  <2>2. CASE j < i
    BY <2>1, <2>2, <1>1, <1>2
  <2>3. CASE j >= i
    <3>1. j - (i - 1) \in 1 .. Len(list) - i /\ i + (j - (i - 1)) = j + 1
      BY <2>3, <1>1
    <3>2. QED
      BY <2>1, <2>3, <3>1, <1>1, <1>3
  <2>4. j < i \/ j >= i
    BY <1>1
  <2>5. QED
    BY ONLY <2>2, <2>3, <2>4, Zenon
<1>7. DOMAIN (front \o rest) = 1 .. Len(list) - 1
  BY <1>5
<1>8. QED
  BY <1>4, <1>5, <1>6, <1>7

\* First fit takes n bytes off the front of a block: what is left covers the
\* rest, and only that.
LEMMA ShrunkList ==
  ASSUME NEW list \in Seq(Block), Separate(list), NEW i \in DOMAIN list,
         NEW n \in Nat \ {0}, n % Align = 0, list[i][2] >= n,
         NEW g, g = <<list[i][1], n>>
  PROVE  /\ g \in Block
         /\ Shrunk(list, i, n) \in Seq(Block)
         /\ Separate(Shrunk(list, i, n))
         /\ Extent(g) \subseteq Covered(list)
         /\ Covered(Shrunk(list, i, n)) = Covered(list) \ Extent(g)
<1> DEFINE c == list[i]
           new == Shrunk(list, i, n)
<1>1. c \in Block /\ c[1] \in Nat /\ c[2] \in Nat \ {0} /\ c[1] % Align = 0 /\ c[2] % Align = 0
  BY BlockType
<1>2. g \in Block
  BY <1>1, IsBlock
<1>3. g[1] = c[1] /\ g[2] = n
  OBVIOUS
<1>4. Extent(g) \subseteq Extent(c)
  BY <1>1, <1>3 DEF Extent
<1>5. Extent(g) \subseteq Covered(list)
  BY <1>4 DEF Covered
<1>6. \A j \in DOMAIN list : list[j] \in Block /\ (j # i => Extent(list[j]) \cap Extent(c) = {})
  BY ClearApart DEF Separate
<1>7. CASE c[2] > n
  <2> DEFINE h == <<c[1] + n, c[2] - n>>
  <2>1. h \in Block
    <3>1. c[1] + n \in Nat /\ c[2] - n \in Nat \ {0}
      BY <1>1, <1>7
    <3>2. (c[1] + n) % Align = 0 /\ (c[2] - n) % Align = 0
      BY <1>1, <1>7, UnitSum
    <3>3. QED
      BY <3>1, <3>2, IsBlock
  <2>2. new = [list EXCEPT ![i] = h]
    BY <1>7 DEF Shrunk, ReplaceAt
  <2>3. new \in Seq(Block) /\ DOMAIN new = DOMAIN list
        /\ \A j \in DOMAIN list : new[j] = IF j = i THEN h ELSE list[j]
    BY <2>1, <2>2, ExceptSeq
  <2>4. Extent(h) = Extent(c) \ Extent(g)
    BY <1>1, <1>3, <1>7 DEF Extent
  <2> HIDE DEF h
  <2>5. Separate(new)
    <3>1. \A j \in DOMAIN list : j # i => Extent(list[j]) \cap Extent(h) = {}
      BY <1>6, <2>4
    <3>2. SUFFICES ASSUME NEW j \in DOMAIN new, NEW k \in DOMAIN new, j # k
                   PROVE  Extent(new[j]) \cap Extent(new[k]) = {}
      BY <2>1, <2>3, <1>6, ClearApart DEF Separate
    <3>3. CASE j = i
      BY <3>1, <3>2, <3>3, <2>3
    <3>4. CASE k = i
      BY <3>1, <3>2, <3>4, <2>3
    <3>5. CASE j # i /\ k # i
      BY <3>2, <3>5, <2>3, <1>6, ClearApart DEF Separate
    <3>6. QED
      BY <3>3, <3>4, <3>5
  <2>6. Covered(new) = Covered(list) \ Extent(g)
    <3>1. ASSUME NEW x, x \in Covered(new) PROVE x \in Covered(list) /\ x \notin Extent(g)
      <4>1. PICK j \in DOMAIN list : x \in Extent(new[j])
        BY <3>1, <2>3, CoveredIn
      <4>2. CASE j = i
        BY <4>1, <4>2, <2>3, <2>4, CoveredIn
      <4>3. CASE j # i
        BY <4>1, <4>3, <2>3, <1>4, <1>6, CoveredIn
      <4>4. QED
        BY <4>2, <4>3
    <3>2. ASSUME NEW x, x \in Covered(list), x \notin Extent(g) PROVE x \in Covered(new)
      <4>1. PICK j \in DOMAIN list : x \in Extent(list[j])
        BY <3>2, CoveredIn
      <4>2. x \in Extent(new[j])
        BY <4>1, <3>2, <2>3, <2>4
      <4>3. QED
        BY <4>2, <2>3, CoveredIn
    <3>3. QED
      BY <3>1, <3>2
  <2>7. QED
    BY <1>2, <1>5, <2>3, <2>5, <2>6
<1>8. CASE c[2] = n
  <2>1. new = RemoveAt(list, i)
    BY <1>1, <1>8 DEF Shrunk
  <2>2. /\ new \in Seq(Block) /\ Len(new) = Len(list) - 1
        /\ \A j \in DOMAIN new : new[j] = IF j < i THEN list[j] ELSE list[j + 1]
    BY <2>1, Removed
  <2>3. i \in 1 .. Len(list) /\ Len(list) \in Nat /\ DOMAIN list = 1 .. Len(list)
        /\ DOMAIN new = 1 .. Len(list) - 1
    BY <2>2
  <2>4. g = c
    BY <1>1, <1>8, BlockType
  <2> HIDE DEF new, c
  <2>5. Separate(new)
    <3>1. SUFFICES ASSUME NEW j \in DOMAIN new, NEW k \in DOMAIN new, j # k
                   PROVE  Clear(new[j], new[k])
      BY DEF Separate
    <3> DEFINE u == IF j < i THEN j ELSE j + 1
               v == IF k < i THEN k ELSE k + 1
    <3>2. u \in DOMAIN list /\ v \in DOMAIN list /\ u # v
      BY <3>1, <2>3
    <3>3. new[j] = list[u] /\ new[k] = list[v]
      BY <2>2
    <3> HIDE DEF u, v
    <3>4. QED
      BY <3>2, <3>3 DEF Separate
  <2>6. Covered(new) = Covered(list) \ Extent(g)
    <3>1. ASSUME NEW x, x \in Covered(new) PROVE x \in Covered(list) /\ x \notin Extent(g)
      <4>1. PICK j \in DOMAIN new : x \in Extent(new[j])
        BY <3>1, CoveredIn
      <4> DEFINE u == IF j < i THEN j ELSE j + 1
      <4>2. u \in DOMAIN list /\ u # i
        BY <2>3
      <4>3. new[j] = list[u]
        BY <2>2
      <4> HIDE DEF u
      <4>4. QED
        BY <4>1, <4>2, <4>3, <2>4, <1>6, CoveredIn
    <3>2. ASSUME NEW x, x \in Covered(list), x \notin Extent(g) PROVE x \in Covered(new)
      <4>1. PICK j \in DOMAIN list : x \in Extent(list[j])
        BY <3>2, CoveredIn
      <4>2. j # i
        BY <4>1, <3>2, <2>4 DEF c
      <4> DEFINE u == IF j < i THEN j ELSE j - 1
      <4>3. u \in DOMAIN new /\ (u < i => u = j) /\ (~(u < i) => u + 1 = j)
        BY <4>2, <2>3
      <4>4. new[u] = list[j]
        BY <4>3, <2>2
      <4> HIDE DEF u
      <4>5. QED
        BY <4>1, <4>3, <4>4, CoveredIn
    <3>3. QED
      BY <3>1, <3>2
  <2>7. QED
    BY <1>2, <1>5, <2>2, <2>5, <2>6 DEF new
<1>9. QED
  BY <1>1, <1>7, <1>8

------------------------------------------------------------------------------
(* Merging a list of free blocks.                                           *)

\* Sorting finds every block a rank of its own.
LEMMA RankBijection ==
  ASSUME NEW list \in Seq(Block)
  PROVE  /\ \A i \in DOMAIN list : Rank(list, i) \in DOMAIN list
         /\ \A i, j \in DOMAIN list : i # j => Rank(list, i) # Rank(list, j)
         /\ \A i, j \in DOMAIN list : Rank(list, i) < Rank(list, j) => list[i][1] <= list[j][1]
         /\ \A k \in DOMAIN list : \E i \in DOMAIN list : Rank(list, i) = k
<1> DEFINE n == Len(list)
           upto(i) == {j \in DOMAIN list :
              list[j][1] < list[i][1] \/ (list[j][1] = list[i][1] /\ j <= i)}
<1>1. n \in Nat /\ DOMAIN list = 1 .. n /\ \A i \in 1 .. n : list[i][1] \in Nat
  BY BlockType
<1>2. IsFiniteSet(1 .. n) /\ Cardinality(1 .. n) = n
  BY <1>1, FS_Interval
<1>3. ASSUME NEW i \in 1 .. n
      PROVE  /\ Rank(list, i) = Cardinality(upto(i)) /\ i \in upto(i)
             /\ IsFiniteSet(upto(i)) /\ Rank(list, i) \in 1 .. n
  <2>1. Rank(list, i) = Cardinality(upto(i))
    BY DEF Rank
  <2>2. i \in upto(i) /\ upto(i) \in SUBSET (1 .. n)
    BY <1>1
  <2> HIDE DEF upto
  <2>3. IsFiniteSet(upto(i)) /\ Cardinality(upto(i)) <= n
    BY <2>2, <1>2, FS_Subset
  <2>4. Cardinality(upto(i)) \in Nat /\ Cardinality(upto(i)) # 0
    BY <2>2, <2>3, FS_CardinalityType, FS_EmptySet
  <2>5. QED
    BY <2>1, <2>2, <2>3, <2>4, <1>1
<1>4. ASSUME NEW i \in 1 .. n, NEW j \in 1 .. n, i # j,
             list[i][1] < list[j][1] \/ (list[i][1] = list[j][1] /\ i < j)
      PROVE  Rank(list, i) < Rank(list, j)
  <2>1. upto(i) \in SUBSET upto(j) /\ j \notin upto(i) /\ j \in upto(j)
    BY <1>1, <1>4
  <2> HIDE DEF upto
  <2>2. Cardinality(upto(i)) <= Cardinality(upto(j)) /\ Cardinality(upto(i)) # Cardinality(upto(j))
    BY <2>1, <1>3, FS_Subset
  <2>3. Cardinality(upto(i)) \in Nat /\ Cardinality(upto(j)) \in Nat
    BY <1>3, FS_CardinalityType
  <2>4. QED
    BY <2>2, <2>3, <1>3
<1>5. \A i, j \in 1 .. n : i # j => Rank(list, i) # Rank(list, j)
  <2> HIDE DEF upto
  <2>1. SUFFICES ASSUME NEW i \in 1 .. n, NEW j \in 1 .. n, i # j
                 PROVE  Rank(list, i) # Rank(list, j)
    OBVIOUS
  <2>2. Rank(list, i) < Rank(list, j) \/ Rank(list, j) < Rank(list, i)
    <3>1. \/ list[i][1] < list[j][1] \/ (list[i][1] = list[j][1] /\ i < j)
          \/ list[j][1] < list[i][1] \/ (list[j][1] = list[i][1] /\ j < i)
      BY <1>1, <2>1
    <3>2. QED
      BY <3>1, <2>1, <1>4
  <2>3. Rank(list, i) \in Int /\ Rank(list, j) \in Int
    BY <1>3
  <2>4. QED
    BY <2>2, <2>3
<1>6. \A i, j \in 1 .. n : Rank(list, i) < Rank(list, j) => list[i][1] <= list[j][1]
  <2> HIDE DEF upto
  <2>1. SUFFICES ASSUME NEW i \in 1 .. n, NEW j \in 1 .. n, list[j][1] < list[i][1]
                 PROVE  ~(Rank(list, i) < Rank(list, j))
    BY <1>1
  <2>2. i # j
    BY <2>1, <1>1
  <2>3. Rank(list, j) < Rank(list, i)
    BY <2>1, <2>2, <1>4
  <2>4. Rank(list, i) \in Int /\ Rank(list, j) \in Int
    BY <1>3
  <2>5. QED
    BY <2>3, <2>4
<1>7. \A k \in 1 .. n : \E i \in 1 .. n : Rank(list, i) = k
  <2> HIDE DEF upto
  <2> DEFINE rank == [i \in 1 .. n |-> Rank(list, i)]
  <2>1. rank \in Injection(1 .. n, 1 .. n)
    BY <1>3, <1>5 DEF Injection, IsInjective
  <2>2. rank \in Surjection(1 .. n, 1 .. n)
    BY <2>1, <1>2, FS_Injection
  <2>3. QED
    BY <2>2 DEF Surjection
<1>8. QED
  BY <1>1, <1>3, <1>5, <1>6, <1>7

LEMMA SortedList ==
  ASSUME NEW list \in Seq(Block), Separate(list)
  PROVE  /\ Sorted(list) \in Seq(Block) /\ Len(Sorted(list)) = Len(list)
         /\ InOrder(Sorted(list))
         /\ Covered(Sorted(list)) = Covered(list)
<1> DEFINE n == Len(list)
           of == [k \in DOMAIN list |-> CHOOSE i \in DOMAIN list : Rank(list, i) = k]
           new == Sorted(list)
<1>1. n \in Nat /\ DOMAIN list = 1 .. n /\ \A i \in 1 .. n : list[i] \in Block
  OBVIOUS
<1>2. \A k \in 1 .. n : of[k] \in 1 .. n /\ Rank(list, of[k]) = k
  BY <1>1, RankBijection
<1>3. new = [k \in 1 .. n |-> list[of[k]]]
  BY <1>1 DEF Sorted
<1> HIDE DEF of, new
<1>4. new \in Seq(Block) /\ Len(new) = n /\ DOMAIN new = 1 .. n
      /\ \A k \in 1 .. n : new[k] = list[of[k]]
  <2>1. new \in [1 .. n -> Block]
    BY <1>1, <1>2, <1>3
  <2>2. new \in Seq(Block)
    BY <2>1, <1>1, SeqDef
  <2>3. QED
    BY <2>1, <2>2, <1>1, <1>3, LenProperties
<1>5. InOrder(new)
  <2>1. SUFFICES ASSUME NEW k \in 1 .. n, NEW l \in 1 .. n, k < l
                 PROVE  After(new[k]) <= new[l][1]
    BY <1>4 DEF InOrder
  <2> DEFINE i == of[k]
             j == of[l]
  <2>2. i \in 1 .. n /\ j \in 1 .. n /\ Rank(list, i) = k /\ Rank(list, j) = l
    BY <1>2
  <2>3. new[k] = list[i] /\ new[l] = list[j]
    BY <1>4
  <2> HIDE DEF i, j
  <2>4. i # j /\ list[i][1] <= list[j][1]
    <3>1. i # j /\ Rank(list, i) < Rank(list, j)
      BY <2>1, <2>2
    <3>2. i \in DOMAIN list /\ j \in DOMAIN list
      BY <2>2, <1>1
    <3>3. QED
      BY <3>1, <3>2, RankBijection
  <2>5. Clear(list[i], list[j]) /\ list[i] \in Block /\ list[j] \in Block
    BY <2>2, <2>4, <1>1 DEF Separate
  <2>6. /\ list[i][1] \in Nat /\ list[i][2] \in Nat \ {0}
        /\ list[j][1] \in Nat /\ list[j][2] \in Nat \ {0}
    BY <2>5, BlockType
  <2>7. After(list[i]) <= list[j][1]
    BY <2>4, <2>5, <2>6 DEF Clear, After
  <2>8. QED
    BY <2>3, <2>7
<1>6. Covered(new) = Covered(list)
  <2>1. ASSUME NEW x, x \in Covered(new) PROVE x \in Covered(list)
    BY <2>1, <1>1, <1>2, <1>4, CoveredIn
  <2>2. ASSUME NEW x, x \in Covered(list) PROVE x \in Covered(new)
    <3>1. PICK i \in 1 .. n : x \in Extent(list[i])
      BY <2>2, <1>1, CoveredIn
    <3>2. Rank(list, i) \in 1 .. n
      BY <1>1, RankBijection
    <3>3. of[Rank(list, i)] = i
      BY <3>2, <1>1, <1>2, RankBijection
    <3>4. QED
      BY <3>1, <3>2, <3>3, <1>4, CoveredIn
  <2>3. QED
    BY <2>1, <2>2
<1>7. QED
  BY <1>4, <1>5, <1>6 DEF new

\* The fold of coalesce: the list merged so far, block after block.
MergedUpTo(list, m) ==
  /\ m[0] = <<>>
  /\ \A k \in 0 .. Len(list) - 1 : m[k + 1] = Joined(m[k], list[k + 1])

LEMMA MaxIn ==
  ASSUME NEW n \in Nat, NEW t \in SUBSET (1 .. n), t # {}
  PROVE  Max(t) \in t /\ \A y \in t : y <= Max(t)
<1> DEFINE rest == {n - y : y \in t}
<1>1. rest \in SUBSET Nat /\ rest # {}
  <2>1. \A y \in t : y \in Int /\ y <= n
    OBVIOUS
  <2>2. \A y \in t : n - y \in Nat
    BY <2>1
  <2>3. QED
    BY <2>2
<1>2. PICK z \in rest : \A u \in rest : z <= u
  BY <1>1, LeastExists
<1>3. PICK x \in t : z = n - x
  OBVIOUS
<1>4. \A y \in t : x >= y
  <2>1. SUFFICES ASSUME NEW y \in t PROVE x >= y
    OBVIOUS
  <2>2. n - x <= n - y
    BY <1>2, <1>3
  <2>3. x \in 1 .. n /\ y \in 1 .. n
    BY <1>3
  <2>4. QED
    BY <2>2, <2>3
<1>5. \E v \in t : \A y \in t : v >= y
  BY <1>3, <1>4
<1>6. Max(t) \in t /\ \A y \in t : Max(t) >= y
  BY <1>5, Zenon DEF Max
<1>7. QED
  BY <1>6

\* What a fold computes with f from base, on every set of positions of a list.
IsFold(g, n, list, base, f) ==
  \A t \in SUBSET (1 .. n) :
    g[t] = IF t = {} THEN base ELSE f[<<g[t \ {Max(t)}], list[Max(t)]>>]

\* A fold that computes with f from base has a value on every initial part of a
\* list (folds range over the sets of positions).
LEMMA FoldExists ==
  ASSUME NEW n \in Nat, NEW E, NEW list \in [1 .. n -> E],
         NEW X, NEW base \in X, NEW f \in [X \X E -> X]
  PROVE  \E g \in [SUBSET (1 .. n) -> X] : IsFold(g, n, list, base, f)
<1> DEFINE Computes(g, k) ==
             \A t \in SUBSET (1 .. k) :
               g[t] = IF t = {} THEN base ELSE f[<<g[t \ {Max(t)}], list[Max(t)]>>]
           Fails == {k \in 0 .. n : \A g \in [SUBSET (1 .. k) -> X] : ~Computes(g, k)}
<1>1. ASSUME Fails # {} PROVE FALSE
  <2>1. PICK k \in Fails : \A j \in Fails : k <= j
    <3>1. Fails \in SUBSET Nat
      OBVIOUS
    <3> HIDE DEF Fails
    <3>2. QED
      BY <1>1, <3>1, LeastExists
  <2>2. CASE k = 0
    <3> DEFINE g == [t \in SUBSET (1 .. k) |-> base]
    <3>1. 1 .. k = {}
      BY <2>2
    <3>2. g \in [SUBSET (1 .. k) -> X] /\ Computes(g, k)
      BY <3>1
    <3>3. QED
      BY <3>2, <2>1
  <2>3. CASE k # 0
    <3>0. k \in 0 .. n
      BY <2>1
    <3>1. k \in 1 .. n /\ k - 1 \in 0 .. n /\ k - 1 \notin Fails
      <4> HIDE DEF Fails
      <4>1. k \in 1 .. n /\ k - 1 \in 0 .. n /\ ~(k <= k - 1)
        BY <3>0, <2>3
      <4>2. QED
        BY <4>1, <2>1
    <3>2. PICK g \in [SUBSET (1 .. k - 1) -> X] : Computes(g, k - 1)
      BY <3>1
    <3> DEFINE h == [t \in SUBSET (1 .. k) |->
                       IF k \in t THEN f[<<g[t \ {k}], list[k]>>] ELSE g[t]]
    <3> HIDE DEF Fails
    <3>3. ASSUME NEW t \in SUBSET (1 .. k), k \notin t
          PROVE  t \in SUBSET (1 .. k - 1)
      <4>1. SUFFICES ASSUME NEW x \in t PROVE x \in 1 .. k - 1
        OBVIOUS
      <4>2. x \in 1 .. k /\ x # k /\ k \in Nat
        BY <3>1, <3>3
      <4>3. QED
        BY <4>2
    <3>4. ASSUME NEW t \in SUBSET (1 .. k) PROVE t \ {k} \in SUBSET (1 .. k - 1)
      BY <3>1
    <3>5. h \in [SUBSET (1 .. k) -> X]
      <4>1. SUFFICES ASSUME NEW t \in SUBSET (1 .. k)
                     PROVE  (IF k \in t THEN f[<<g[t \ {k}], list[k]>>] ELSE g[t]) \in X
        OBVIOUS
      <4>2. CASE k \in t
        <5>1. g[t \ {k}] \in X /\ list[k] \in E
          BY <3>1, <3>4
        <5>2. QED
          BY <5>1, <4>2
      <4>3. CASE k \notin t
        BY <4>3, <3>3
      <4>4. QED
        BY <4>2, <4>3
    <3>6. ASSUME NEW t \in SUBSET (1 .. k)
          PROVE  h[t] = IF t = {} THEN base ELSE f[<<h[t \ {Max(t)}], list[Max(t)]>>]
      <4>1. CASE k \in t
        <5>1. Max(t) = k
          <6>1. k \in Nat /\ t # {}
            BY <3>1, <4>1
          <6>2. Max(t) \in t /\ \A y \in t : y <= Max(t)
            BY <6>1, MaxIn
          <6>3. Max(t) <= k /\ k <= Max(t) /\ Max(t) \in Int
            <7>1. Max(t) \in 1 .. k
              BY <6>2
            <7>2. QED
              BY <7>1, <6>1, <6>2, <4>1
          <6>4. QED
            BY <6>3, <6>1
        <5>2. h[t] = f[<<g[t \ {k}], list[k]>>]
          BY <4>1
        <5>3. h[t \ {k}] = g[t \ {k}]
          OBVIOUS
        <5> HIDE DEF h
        <5>4. QED
          BY <5>1, <5>2, <5>3, <4>1
      <4>2. CASE k \notin t
        <5>1. t \in SUBSET (1 .. k - 1)
          BY <4>2, <3>3
        <5>2. h[t] = g[t]
          BY <4>2
        <5>3. CASE t = {}
          BY <5>1, <5>2, <5>3, <3>2
        <5>4. CASE t # {}
          <6>1. t \ {Max(t)} \in SUBSET (1 .. k - 1) /\ k \notin t \ {Max(t)}
            BY <5>1, <4>2
          <6>2. h[t \ {Max(t)}] = g[t \ {Max(t)}]
            BY <6>1
          <6> HIDE DEF h
          <6>3. QED
            BY <5>1, <5>2, <5>4, <6>2, <3>2
        <5>5. QED
          BY <5>3, <5>4
      <4>3. QED
        BY <4>1, <4>2
    <3> HIDE DEF h
    <3>7. QED
      BY <3>5, <3>6, <2>1 DEF Fails
  <2>4. QED
    BY <2>2, <2>3
<1>2. n \notin Fails
  BY <1>1
<1>3. n \in 0 .. n
  OBVIOUS
<1>4. PICK g \in [SUBSET (1 .. n) -> X] : Computes(g, n)
  BY <1>2, <1>3
<1>5. QED
  BY <1>4 DEF IsFold

\* A list without its last entry.
LEMMA FrontLast ==
  ASSUME NEW list \in Seq(Block), list # <<>>
  PROVE  /\ Last(list) \in Block /\ Last(list) = list[Len(list)] /\ Len(list) \in Nat \ {0}
         /\ Front(list) \in Seq(Block) /\ Len(Front(list)) = Len(list) - 1
         /\ \A i \in 1 .. Len(list) - 1 : Front(list)[i] = list[i]
<1>1. Len(list) \in Nat \ {0}
  OBVIOUS
<1>2. /\ SubSeq(list, 1, Len(list) - 1) \in Seq(Block)
      /\ Len(SubSeq(list, 1, Len(list) - 1)) = Len(list) - 1
      /\ \A i \in 1 .. Len(list) - 1 : SubSeq(list, 1, Len(list) - 1)[i] = list[i]
  <2> DEFINE k == Len(list) - 1
             sub == SubSeq(list, 1, k)
  <2>1. k \in Nat /\ 1 \in Int /\ k \in Int /\ \A i \in 1 .. k : list[i] \in Block
    BY <1>1
  <2> HIDE DEF k
  <2>2. /\ sub \in Seq(Block) /\ Len(sub) = (IF 1 <= k THEN k - 1 + 1 ELSE 0)
        /\ \A i \in 1 .. k - 1 + 1 : sub[i] = list[1 + i - 1]
    BY ONLY <2>1, SubSeqProperties
  <2> HIDE DEF sub
  <2>3. sub \in Seq(Block) /\ Len(sub) = k /\ \A i \in 1 .. k : sub[i] = list[i]
    BY <2>1, <2>2
  <2>4. QED
    BY <2>3 DEF k, sub
<1>3. Last(list) = list[Len(list)] /\ Last(list) \in Block
  BY <1>1 DEF Last
<1>4. QED
  BY <1>1, <1>2, <1>3 DEF Front

LEMMA JoinedType ==
  ASSUME NEW list \in Seq(Block), NEW b \in Block
  PROVE  Joined(list, b) \in Seq(Block)
<1>1. CASE list # <<>> /\ Last(list)[1] + Last(list)[2] = b[1]
  <2>1. Last(list) \in Block
    BY <1>1, FrontLast
  <2>2. <<Last(list)[1], Last(list)[2] + b[2]>> \in Block
    <3>1. Last(list)[1] \in Nat /\ Last(list)[2] + b[2] \in Nat \ {0}
      BY <2>1, BlockType
    <3>2. Last(list)[1] % Align = 0 /\ (Last(list)[2] + b[2]) % Align = 0
      BY <2>1, BlockType, UnitSum
    <3>3. QED
      BY <3>1, <3>2, IsBlock
  <2>3. Front(list) \in Seq(Block)
    BY <1>1, FrontLast
  <2>4. QED
    BY <1>1, <2>2, <2>3 DEF Joined
<1>2. CASE ~(list # <<>> /\ Last(list)[1] + Last(list)[2] = b[1])
  BY <1>2 DEF Joined
<1>3. QED
  BY <1>1, <1>2

LEMMA FoldJoined ==
  ASSUME NEW list \in Seq(Block)
  PROVE  \E m : MergedUpTo(list, m) /\ FoldLeft(Joined, <<>>, list) = m[Len(list)]
<1> DEFINE n == Len(list)
           Computes(g) == g = [t \in SUBSET DOMAIN list |->
                                 IF t = {} THEN <<>>
                                 ELSE LET x == Max(t) IN Joined(g[t \ {x}], list[x])]
           iter == CHOOSE g : Computes(g)
           f == [p \in Seq(Block) \X Block |-> Joined(p[1], p[2])]
<1>1. FoldLeft(Joined, <<>>, list) = iter[DOMAIN list]
  BY DEF FoldLeft, MapThenFoldSet
<1>2. n \in Nat /\ DOMAIN list = 1 .. n /\ list \in [1 .. n -> Block] /\ <<>> \in Seq(Block)
  OBVIOUS
<1>3. f \in [Seq(Block) \X Block -> Seq(Block)]
  BY JoinedType
<1>4. \A l \in Seq(Block), b \in Block : f[<<l, b>>] = Joined(l, b)
  OBVIOUS
<1> HIDE DEF f
<1>5. PICK g \in [SUBSET (1 .. n) -> Seq(Block)] :
        \A t \in SUBSET (1 .. n) :
          g[t] = IF t = {} THEN <<>> ELSE f[<<g[t \ {Max(t)}], list[Max(t)]>>]
  <2> HIDE DEF n
  <2>1. \E g \in [SUBSET (1 .. n) -> Seq(Block)] : IsFold(g, n, list, <<>>, f)
    BY ONLY <1>2, <1>3, FoldExists
  <2>2. QED
    BY <2>1 DEF IsFold
<1>6. ASSUME NEW t \in SUBSET (1 .. n), t # {}
      PROVE  g[t] = Joined(g[t \ {Max(t)}], list[Max(t)])
  <2>1. Max(t) \in t
    BY <1>2, <1>6, MaxIn
  <2>2. list[Max(t)] \in Block /\ g[t \ {Max(t)}] \in Seq(Block)
    BY <2>1, <1>2
  <2>3. g[t] = f[<<g[t \ {Max(t)}], list[Max(t)]>>]
    BY <1>5, <1>6
  <2>4. QED
    BY <2>2, <2>3, <1>4
<1>7. Computes(g)
  BY <1>2, <1>5, <1>6
<1>8. Computes(iter)
  <2> HIDE DEF Computes
  <2>1. QED
    BY <1>7, Zenon
<1> HIDE DEF iter
<1>9. iter = [t \in SUBSET (1 .. n) |->
                IF t = {} THEN <<>> ELSE Joined(iter[t \ {Max(t)}], list[Max(t)])]
  BY <1>8, <1>2
<1> HIDE DEF Computes
<1>10. \A t \in SUBSET (1 .. n) :
         iter[t] = IF t = {} THEN <<>> ELSE Joined(iter[t \ {Max(t)}], list[Max(t)])
  BY <1>9
<1> DEFINE m == [k \in 0 .. n |-> iter[1 .. k]]
<1>11. m[0] = <<>>
  <2>1. 1 .. 0 = {} /\ 0 \in 0 .. n
    BY <1>2
  <2>2. QED
    BY <2>1, <1>10
<1>12. ASSUME NEW k \in 0 .. n - 1
       PROVE  m[k + 1] = Joined(m[k], list[k + 1])
  <2>1. k \in 0 .. n /\ k + 1 \in 0 .. n /\ k + 1 \in Nat
    BY <1>2
  <2>2. 1 .. k + 1 \in SUBSET (1 .. n) /\ 1 .. k + 1 # {} /\ 1 .. k + 1 \in SUBSET (1 .. k + 1)
        /\ k + 1 \in 1 .. k + 1
    <3>1. \A x \in 1 .. k + 1 : x \in 1 .. n
      BY <2>1, <1>2
    <3>2. k + 1 \in 1 .. k + 1
      BY <2>1
    <3>3. QED
      BY ONLY <3>1, <3>2, Zenon
  <2>3. Max(1 .. k + 1) = k + 1
    <3>1. Max(1 .. k + 1) \in 1 .. k + 1 /\ k + 1 <= Max(1 .. k + 1)
      BY <2>1, <2>2, MaxIn
    <3>2. QED
      BY <3>1, <2>1
  <2>4. (1 .. k + 1) \ {k + 1} = 1 .. k
    BY <2>1
  <2>5. iter[1 .. k + 1] = Joined(iter[1 .. k], list[k + 1])
    BY <2>2, <2>3, <2>4, <1>10
  <2>6. QED
    BY <2>1, <2>5
<1>13. m[n] = FoldLeft(Joined, <<>>, list)
  BY <1>1, <1>2
<1> HIDE DEF m
<1>14. QED
  BY <1>11, <1>12, <1>13 DEF MergedUpTo

LEMMA Glued ==
  ASSUME NEW a, NEW b, NEW c, a[1] \in Nat, a[2] \in Nat \ {0}, b[2] \in Nat \ {0},
         a[1] + a[2] = b[1], c[1] = a[1], c[2] = a[2] + b[2]
  PROVE  Extent(c) = Extent(a) \cup Extent(b)
<1> DEFINE x == a[1]
           m == a[2]
           n == b[2]
<1>1. x \in Nat /\ m \in Nat \ {0} /\ n \in Nat \ {0}
  OBVIOUS
<1>2. /\ Extent(a) = x .. x + m - 1 /\ Extent(b) = x + m .. x + m + n - 1
      /\ Extent(c) = x .. x + (m + n) - 1
  BY DEF Extent
<1> HIDE DEF x, m, n
<1>3. x .. x + (m + n) - 1 = (x .. x + m - 1) \cup (x + m .. x + m + n - 1)
  BY <1>1
<1>4. QED
  BY <1>2, <1>3

\* One step of the merging: nothing is lost, and what is merged stays apart.
LEMMA JoinedStep ==
  ASSUME NEW l \in Seq(Block), Gapped(l), NEW b \in Block,
         l # <<>> => After(Last(l)) <= b[1]
  PROVE  /\ Joined(l, b) \in Seq(Block) /\ Joined(l, b) # <<>>
         /\ Gapped(Joined(l, b))
         /\ Covered(Joined(l, b)) = Covered(l) \cup Extent(b)
         /\ After(Last(Joined(l, b))) = After(b)
<1> DEFINE n == Len(l)
           r == Joined(l, b)
<1>1. n \in Nat /\ DOMAIN l = 1 .. n /\ (\A i \in 1 .. n : l[i] \in Block)
      /\ \A i, j \in 1 .. n : i < j => After(l[i]) < l[j][1]
  BY DEF Gapped
<1>2. b[1] \in Nat /\ b[2] \in Nat \ {0}
  BY BlockType
<1>3. r \in Seq(Block)
  BY JoinedType
<1>4. CASE l # <<>> /\ Last(l)[1] + Last(l)[2] = b[1]
  <2> DEFINE a == Last(l)
             c == <<a[1], a[2] + b[2]>>
             front == Front(l)
  <2>1. /\ a \in Block /\ a = l[n] /\ n \in Nat \ {0}
        /\ front \in Seq(Block) /\ Len(front) = n - 1
        /\ \A i \in 1 .. n - 1 : front[i] = l[i]
    BY <1>4, FrontLast
  <2>2. a[1] \in Nat /\ a[2] \in Nat \ {0} /\ a[1] + a[2] = b[1]
    BY <2>1, <1>4, BlockType
  <2> HIDE DEF a
  <2>3. c \in Block
    <3>1. a[1] % Align = 0 /\ a[2] % Align = 0 /\ b[2] % Align = 0
      BY <2>1, BlockType
    <3>2. a[2] \in Nat /\ b[2] \in Nat /\ a[2] + b[2] \in Nat \ {0}
      BY <2>2, <1>2
    <3>3. (a[2] + b[2]) % Align = 0
      BY <3>1, <3>2, UnitSum
    <3>4. QED
      BY <3>1, <3>2, <3>3, <2>2, IsBlock
  <2>4. Extent(c) = Extent(a) \cup Extent(b) /\ After(c) = After(b) /\ c[1] = a[1]
    <3>1. c[1] = a[1] /\ c[2] = a[2] + b[2]
      OBVIOUS
    <3> HIDE DEF c
    <3>2. After(c) = After(b)
      BY <3>1, <2>2, <1>2 DEF After
    <3>3. Extent(c) = Extent(a) \cup Extent(b)
      BY <3>1, <2>2, <1>2, Glued
    <3>4. QED
      BY <3>1, <3>2, <3>3
  <2>5. r = Append(front, c)
    BY <1>4 DEF Joined, a
  <2> HIDE DEF c, front, r
  <2>6. Len(r) = n /\ DOMAIN r = 1 .. n /\ r[n] = c
        /\ \A i \in 1 .. n - 1 : r[i] = l[i]
    <3>1. /\ Len(r) = n - 1 + 1 /\ r[n - 1 + 1] = c
          /\ \A i \in 1 .. n - 1 : r[i] = front[i]
      BY <2>1, <2>3, <2>5, AppendProperties
    <3>2. QED
      BY <3>1, <2>1, <1>3
  <2>7. Gapped(r)
    <3>1. SUFFICES ASSUME NEW i \in 1 .. n, NEW j \in 1 .. n, i < j
                   PROVE  After(r[i]) < r[j][1]
      BY <2>6 DEF Gapped
    <3>2. r[i] = l[i] /\ r[j][1] = l[j][1]
      <4>1. i \in 1 .. n - 1
        BY <3>1, <1>1
      <4>2. CASE j = n
        BY <4>1, <4>2, <2>6, <2>4, <2>1
      <4>3. CASE j # n
        <5> HIDE DEF n
        <5>1. j \in 1 .. n - 1
          BY <4>3, <3>1, <1>1
        <5>2. QED
          BY <4>1, <5>1, <2>6
      <4>4. QED
        BY <4>2, <4>3
    <3>3. QED
      BY <3>1, <3>2, <1>1
  <2>8. Covered(r) = Covered(l) \cup Extent(b)
    <3>1. ASSUME NEW x, x \in Covered(r) PROVE x \in Covered(l) \cup Extent(b)
      <4>1. PICK i \in 1 .. n : x \in Extent(r[i])
        BY <3>1, <2>6, CoveredIn
      <4>2. CASE i = n
        BY <4>1, <4>2, <2>1, <2>4, <2>6, <1>1, CoveredIn
      <4>3. CASE i # n
        <5>1. i \in 1 .. n - 1
          BY <4>3, <4>1, <2>1
        <5>2. QED
          BY <4>1, <5>1, <2>6, <1>1, CoveredIn
      <4>4. QED
        BY <4>2, <4>3
    <3>2. ASSUME NEW x, x \in Extent(b) PROVE x \in Covered(r)
      <4>1. x \in Extent(r[n]) /\ n \in 1 .. n
        BY <3>2, <2>1, <2>4, <2>6
      <4>2. QED
        BY <4>1, <2>6, CoveredIn
    <3>3. ASSUME NEW x, x \in Covered(l) PROVE x \in Covered(r)
      <4>1. PICK i \in 1 .. n : x \in Extent(l[i])
        BY <3>3, <1>1, CoveredIn
      <4>2. x \in Extent(r[i])
        <5>1. CASE i = n
          BY <4>1, <5>1, <2>1, <2>4, <2>6
        <5>2. CASE i # n
          <6>1. i \in 1 .. n - 1
            BY <5>2, <1>1
          <6>2. QED
            BY <4>1, <6>1, <2>6
        <5>3. QED
          BY <5>1, <5>2
      <4>3. QED
        BY <4>1, <4>2, <2>6, CoveredIn
    <3>4. QED
      BY <3>1, <3>2, <3>3
  <2>9. r # <<>> /\ Last(r) = c
    BY <2>1, <2>6 DEF Last
  <2>10. QED
    BY <1>3, <2>4, <2>7, <2>8, <2>9 DEF r
<1>5. CASE ~(l # <<>> /\ Last(l)[1] + Last(l)[2] = b[1])
  <2>1. r = Append(l, b)
    BY <1>5 DEF Joined
  <2> HIDE DEF r
  <2>2. Len(r) = n + 1 /\ DOMAIN r = 1 .. n + 1 /\ r[n + 1] = b
        /\ \A i \in 1 .. n : r[i] = l[i]
    BY <2>1, <1>1, AppendProperties
  <2>3. Gapped(r)
    <3>1. SUFFICES ASSUME NEW i \in 1 .. n + 1, NEW j \in 1 .. n + 1, i < j
                   PROVE  After(r[i]) < r[j][1]
      BY <2>2 DEF Gapped
    <3>2. i \in 1 .. n
      BY <3>1, <1>1
    <3>3. CASE j \in 1 .. n
      BY <3>1, <3>2, <3>3, <2>2, <1>1
    <3>4. CASE j = n + 1
      <4>1. l # <<>> /\ n \in Nat \ {0}
        BY <3>2, <1>1
      <4>2. Last(l) \in Block /\ Last(l) = l[n]
        BY <4>1, FrontLast
      <4>3. After(l[n]) <= b[1] /\ After(l[n]) # b[1]
        BY <4>1, <4>2, <1>5 DEF After
      <4>4. After(l[n]) \in Nat /\ l[n][1] <= After(l[n])
        BY <4>2, AfterType
      <4>5. After(l[n]) < b[1]
        BY <4>3, <4>4, <1>2
      <4>6. CASE i = n
        BY <4>5, <4>6, <3>2, <3>4, <2>2
      <4>7. CASE i # n
        <5>1. i < n /\ n \in 1 .. n
          BY <4>7, <3>2, <4>1
        <5>2. After(l[i]) < l[n][1]
          BY <5>1, <3>2, <1>1
        <5>3. After(l[i]) \in Nat /\ l[n][1] \in Nat
          BY <3>2, <4>2, <1>1, AfterType
        <5>4. QED
          BY <5>2, <5>3, <4>4, <4>5, <3>2, <3>4, <2>2, <1>2
      <4>8. QED
        BY <4>6, <4>7
    <3>5. QED
      BY <3>1, <3>3, <3>4, <1>1
  <2>4. Covered(r) = Covered(l) \cup Extent(b)
    <3>1. ASSUME NEW x, x \in Covered(r) PROVE x \in Covered(l) \cup Extent(b)
      <4>1. PICK i \in 1 .. n + 1 : x \in Extent(r[i])
        BY <3>1, <2>2, CoveredIn
      <4>2. CASE i = n + 1
        BY <4>1, <4>2, <2>2
      <4>3. CASE i # n + 1
        <5>1. i \in 1 .. n
          BY <4>3, <1>1
        <5>2. QED
          BY <4>1, <5>1, <2>2, <1>1, CoveredIn
      <4>4. QED
        BY <4>2, <4>3
    <3>2. ASSUME NEW x, x \in Extent(b) PROVE x \in Covered(r)
      <4>1. n + 1 \in 1 .. n + 1
        BY <1>1
      <4>2. QED
        BY <4>1, <3>2, <2>2, CoveredIn
    <3>3. ASSUME NEW x, x \in Covered(l) PROVE x \in Covered(r)
      <4>1. PICK i \in 1 .. n : x \in Extent(l[i])
        BY <3>3, <1>1, CoveredIn
      <4>2. i \in 1 .. n + 1
        BY <1>1
      <4>3. QED
        BY <4>1, <4>2, <2>2, CoveredIn
    <3>4. QED
      BY <3>1, <3>2, <3>3
  <2>5. r # <<>> /\ Last(r) = b
    BY <2>2, <1>1 DEF Last
  <2>6. QED
    BY <1>3, <2>3, <2>4, <2>5 DEF r
<1>6. QED
  BY <1>4, <1>5

\* What merging the first k blocks of a sorted list gives.
Merged(list, l, k) ==
  /\ l \in Seq(Block) /\ Gapped(l)
  /\ Covered(l) = UNION {Extent(list[i]) : i \in 1 .. k}
  /\ IF k = 0 THEN l = <<>> ELSE l # <<>> /\ After(Last(l)) = After(list[k])

LEMMA MergedList ==
  ASSUME NEW list \in Seq(Block), InOrder(list), NEW m, MergedUpTo(list, m)
  PROVE  Merged(list, m[Len(list)], Len(list))
<1> DEFINE n == Len(list)
           Fails == {k \in 0 .. n : ~Merged(list, m[k], k)}
<1>1. n \in Nat /\ DOMAIN list = 1 .. n /\ \A i \in 1 .. n : list[i] \in Block
  OBVIOUS
<1>2. ASSUME Fails # {} PROVE FALSE
  <2>1. PICK k \in Fails : \A j \in Fails : k <= j
    <3>1. Fails \in SUBSET Nat
      OBVIOUS
    <3> HIDE DEF Fails
    <3>2. QED
      BY <1>2, <3>1, LeastExists
  <2>2. k \in 0 .. n /\ ~Merged(list, m[k], k)
    BY <2>1
  <2>3. CASE k = 0
    <3>1. m[k] = <<>>
      BY <2>3 DEF MergedUpTo
    <3>2. <<>> \in Seq(Block) /\ Gapped(<<>>) /\ Covered(<<>>) = {} /\ 1 .. 0 = {}
      BY DEF Gapped, Covered
    <3>3. QED
      BY <2>2, <2>3, <3>1, <3>2 DEF Merged
  <2>4. CASE k # 0
    <3> DEFINE j == k - 1
               l == m[j]
               b == list[k]
    <3>1. j \in 0 .. n - 1 /\ j \in 0 .. n /\ k = j + 1 /\ k \in 1 .. n /\ ~(k <= j)
      BY <2>2, <2>4, <1>1
    <3>2. Merged(list, l, j)
      BY <2>1, <3>1
    <3>3. m[k] = Joined(l, b)
      BY <3>1 DEF MergedUpTo
    <3>4. b \in Block
      BY <3>1, <1>1
    <3>5. l \in Seq(Block) /\ Gapped(l) /\ Covered(l) = UNION {Extent(list[i]) : i \in 1 .. j}
      BY <3>2 DEF Merged
    <3>6. l # <<>> => After(Last(l)) <= b[1]
      <4>1. SUFFICES ASSUME l # <<>> PROVE After(Last(l)) <= b[1]
        OBVIOUS
      <4>2. j # 0 /\ After(Last(l)) = After(list[j])
        BY <4>1, <3>2 DEF Merged
      <4>3. j \in 1 .. n /\ j < k
        BY <3>1, <4>2
      <4>4. After(list[j]) <= list[k][1]
        BY <4>3, <3>1, <1>1 DEF InOrder
      <4>5. QED
        BY <4>2, <4>4
    <3> HIDE DEF l, b
    <3>7. /\ m[k] \in Seq(Block) /\ m[k] # <<>> /\ Gapped(m[k])
          /\ Covered(m[k]) = Covered(l) \cup Extent(b) /\ After(Last(m[k])) = After(b)
      BY <3>3, <3>4, <3>5, <3>6, JoinedStep
    <3>8. UNION {Extent(list[i]) : i \in 1 .. k} = Covered(l) \cup Extent(b)
      <4>1. 1 .. k = (1 .. j) \cup {k}
        BY <3>1, <1>1
      <4>2. Extent(list[k]) = Extent(b)
        BY DEF b
      <4> HIDE DEF j
      <4>3. \A x : x \in UNION {Extent(list[i]) : i \in 1 .. k}
                   <=> \E i \in (1 .. j) \cup {k} : x \in Extent(list[i])
        BY <4>1
      <4>4. \A x : x \in Covered(l) <=> \E i \in 1 .. j : x \in Extent(list[i])
        BY <3>5
      <4>5. \A x : x \in UNION {Extent(list[i]) : i \in 1 .. k}
                   <=> x \in Covered(l) \/ x \in Extent(list[k])
        BY <4>3, <4>4
      <4>6. QED
        BY <4>2, <4>5
    <3>9. Merged(list, m[k], k)
      BY <3>7, <3>8, <2>4 DEF Merged, b
    <3>10. QED
      BY <3>9, <2>2
  <2>5. QED
    BY <2>3, <2>4
<1>3. n \in 0 .. n /\ n \notin Fails
  BY <1>1, <1>2
<1>4. QED
  BY <1>3

\* Coalescing neither loses nor duplicates memory, and leaves no neighbours.
LEMMA CoalescedList ==
  ASSUME NEW list \in Seq(Block), Separate(list)
  PROVE  /\ Coalesced(list) \in Seq(Block)
         /\ Gapped(Coalesced(list)) /\ Separate(Coalesced(list))
         /\ Covered(Coalesced(list)) = Covered(list)
<1> DEFINE s == Sorted(list)
           c == Coalesced(list)
<1>1. s \in Seq(Block) /\ InOrder(s) /\ Covered(s) = Covered(list)
  BY SortedList
<1>2. c = FoldLeft(Joined, <<>>, s)
  BY DEF Coalesced
<1> HIDE DEF s
<1>3. PICK m : MergedUpTo(s, m) /\ FoldLeft(Joined, <<>>, s) = m[Len(s)]
  BY <1>1, FoldJoined
<1>4. Merged(s, c, Len(s))
  BY <1>1, <1>2, <1>3, MergedList
<1> HIDE DEF c
<1>5. c \in Seq(Block) /\ Gapped(c) /\ Covered(c) = Covered(list)
  <2>1. DOMAIN s = 1 .. Len(s)
    BY <1>1
  <2>2. Covered(s) = UNION {Extent(s[i]) : i \in 1 .. Len(s)}
    BY <2>1 DEF Covered
  <2>3. QED
    BY <1>1, <1>4, <2>2 DEF Merged
<1>6. Separate(c)
  <2>1. SUFFICES ASSUME NEW i \in DOMAIN c, NEW j \in DOMAIN c, i # j
                 PROVE  Clear(c[i], c[j])
    BY DEF Separate
  <2>2. c[i] \in Block /\ c[j] \in Block /\ i \in Int /\ j \in Int
    BY <1>5
  <2>3. After(c[i]) < c[j][1] \/ After(c[j]) < c[i][1]
    BY <2>1, <2>2, <1>5 DEF Gapped
  <2>4. After(c[i]) \in Nat /\ After(c[j]) \in Nat /\ c[i][1] \in Nat /\ c[j][1] \in Nat
    BY <2>2, AfterType
  <2>5. QED
    BY <2>3, <2>4 DEF Clear
<1>7. QED
  BY <1>5, <1>6 DEF c

\* Blocks with gaps between them that cover an interval are at most one.
LEMMA OnePiece ==
  ASSUME NEW c \in Seq(Block), Gapped(c), NEW x \in Int, NEW y \in Int, Covered(c) = x .. y
  PROVE  Len(c) <= 1
<1>1. SUFFICES ASSUME Len(c) >= 2 PROVE FALSE
  OBVIOUS
<1> DEFINE a == c[1]
           b == c[2]
<1>2. 1 \in DOMAIN c /\ 2 \in DOMAIN c /\ a \in Block /\ b \in Block
  BY <1>1
<1>3. After(a) < b[1]
  BY <1>2 DEF Gapped
<1>4. a[1] \in Nat /\ After(a) \in Nat /\ a[1] < After(a) /\ b[1] \in Nat /\ b[1] < After(b)
      /\ a[1] \in Extent(a) /\ b[1] \in Extent(b)
  BY <1>2, AfterType, BlockType
<1>5. a[1] \in x .. y /\ b[1] \in x .. y
  BY <1>2, <1>4, CoveredIn
<1>6. After(a) \in x .. y
  BY <1>3, <1>4, <1>5
<1>7. PICK i \in DOMAIN c : After(a) \in Extent(c[i])
  BY <1>6, CoveredIn
<1>8. c[i] \in Block /\ i \in 1 .. Len(c)
  BY <1>7
<1>9. c[i][1] <= After(a) /\ After(a) < After(c[i]) /\ c[i][1] \in Nat /\ After(c[i]) \in Nat
  BY <1>7, <1>8, <1>4, BlockType, AfterType
<1>10. CASE i = 1
  BY <1>10, <1>9
<1>11. CASE i > 1
  <2>1. After(a) < c[i][1]
    BY <1>2, <1>8, <1>11 DEF Gapped
  <2>2. QED
    BY <2>1, <1>4, <1>9
<1>12. QED
  BY <1>8, <1>10, <1>11

\* The sizes of blocks that do not overlap add up to the number of addresses.
LEMMA SumOfSizes ==
  ASSUME NEW list \in Seq(Block), Separate(list)
  PROVE  /\ FoldLeft(LAMBDA x, b : x + b[2], 0, list) = Cardinality(Covered(list))
         /\ IsFiniteSet(Covered(list))
<1> DEFINE n == Len(list)
           Computes(g) == g = [t \in SUBSET DOMAIN list |->
                                 IF t = {} THEN 0
                                 ELSE LET x == Max(t) IN g[t \ {x}] + list[x][2]]
           iter == CHOOSE g : Computes(g)
           f == [p \in Nat \X Block |-> p[1] + p[2][2]]
           Upto(k) == UNION {Extent(list[i]) : i \in 1 .. k}
<1>1. FoldLeft(LAMBDA x, b : x + b[2], 0, list) = iter[DOMAIN list]
  BY DEF FoldLeft, MapThenFoldSet
<1>2. n \in Nat /\ DOMAIN list = 1 .. n /\ list \in [1 .. n -> Block] /\ 0 \in Nat
  OBVIOUS
<1>3. f \in [Nat \X Block -> Nat]
  <2>1. \A p \in Nat \X Block : p[1] \in Nat /\ p[2][2] \in Nat
    BY BlockType
  <2>2. QED
    BY <2>1
<1>4. \A y \in Nat, b \in Block : f[<<y, b>>] = y + b[2]
  OBVIOUS
<1> HIDE DEF f
<1>5. PICK g \in [SUBSET (1 .. n) -> Nat] :
        \A t \in SUBSET (1 .. n) :
          g[t] = IF t = {} THEN 0 ELSE f[<<g[t \ {Max(t)}], list[Max(t)]>>]
  <2> HIDE DEF n
  <2>1. \E g \in [SUBSET (1 .. n) -> Nat] : IsFold(g, n, list, 0, f)
    BY ONLY <1>2, <1>3, FoldExists
  <2>2. QED
    BY <2>1 DEF IsFold
<1>6. ASSUME NEW t \in SUBSET (1 .. n), t # {}
      PROVE  g[t] = g[t \ {Max(t)}] + list[Max(t)][2]
  <2>1. Max(t) \in t
    BY <1>2, <1>6, MaxIn
  <2>2. list[Max(t)] \in Block /\ g[t \ {Max(t)}] \in Nat
    BY <2>1, <1>2
  <2>3. g[t] = f[<<g[t \ {Max(t)}], list[Max(t)]>>]
    BY <1>5, <1>6
  <2>4. QED
    BY <2>2, <2>3, <1>4
<1>7. Computes(g)
  BY <1>2, <1>5, <1>6
<1>8. Computes(iter)
  <2> HIDE DEF Computes
  <2>1. QED
    BY <1>7, Zenon
<1> HIDE DEF iter
<1>9. iter = [t \in SUBSET (1 .. n) |->
                IF t = {} THEN 0 ELSE iter[t \ {Max(t)}] + list[Max(t)][2]]
  BY <1>8, <1>2
<1> HIDE DEF Computes
<1>10. \A t \in SUBSET (1 .. n) :
         iter[t] = IF t = {} THEN 0 ELSE iter[t \ {Max(t)}] + list[Max(t)][2]
  BY <1>9
<1> DEFINE Right(k) == iter[1 .. k] = Cardinality(Upto(k)) /\ IsFiniteSet(Upto(k))
           Fails == {k \in 0 .. n : ~Right(k)}
<1>11. ASSUME Fails # {} PROVE FALSE
  <2>1. PICK k \in Fails : \A j \in Fails : k <= j
    <3>1. Fails \in SUBSET Nat
      OBVIOUS
    <3> HIDE DEF Fails
    <3>2. QED
      BY <1>11, <3>1, LeastExists
  <2>2. k \in 0 .. n /\ ~Right(k)
    BY <2>1
  <2>3. CASE k = 0
    <3>1. 1 .. k = {}
      BY <2>3
    <3>2. Upto(k) = {} /\ iter[1 .. k] = 0
      BY <3>1, <1>10
    <3>3. QED
      BY <3>2, <2>2, FS_EmptySet
  <2>4. CASE k # 0
    <3> DEFINE j == k - 1
               b == list[k]
    <3>1. j \in 0 .. n /\ k = j + 1 /\ k \in 1 .. n /\ j \in Nat /\ ~(k <= j)
      BY <2>2, <2>4, <1>2
    <3>2. Right(j)
      <4> HIDE DEF Right
      <4>1. QED
        BY <2>1, <3>1
    <3>3. b \in Block
      BY <3>1, <1>2
    <3>4. iter[1 .. k] = iter[1 .. j] + b[2]
      <4>1. 1 .. k \in SUBSET (1 .. n) /\ 1 .. k \in SUBSET (1 .. k) /\ k \in 1 .. k
        BY <3>1, <1>2
      <4>2. Max(1 .. k) = k
        <5>1. k \in Nat /\ 1 .. k # {}
          BY <3>1, <4>1
        <5>2. Max(1 .. k) \in 1 .. k /\ k <= Max(1 .. k)
          BY <5>1, <4>1, MaxIn
        <5>3. QED
          BY <5>2, <3>1
      <4>3. (1 .. k) \ {k} = 1 .. j
        BY <3>1
      <4>4. QED
        BY <4>1, <4>2, <4>3, <1>10
    <3>5. Upto(k) = Upto(j) \cup Extent(b)
      <4>1. 1 .. k = (1 .. j) \cup {k}
        BY <3>1
      <4> HIDE DEF j
      <4>2. \A x : x \in Upto(k) <=> \E i \in (1 .. j) \cup {k} : x \in Extent(list[i])
        BY <4>1
      <4>3. \A x : x \in Upto(j) <=> \E i \in 1 .. j : x \in Extent(list[i])
        OBVIOUS
      <4> HIDE DEF Upto
      <4>4. QED
        BY <4>2, <4>3
    <3>6. Upto(j) \cap Extent(b) = {}
      <4>1. SUFFICES ASSUME NEW x \in Upto(j) PROVE x \notin Extent(b)
        OBVIOUS
      <4>2. PICK i \in 1 .. j : x \in Extent(list[i])
        OBVIOUS
      <4>3. i \in DOMAIN list /\ k \in DOMAIN list /\ i # k
        BY <3>1, <1>2
      <4>4. Extent(list[i]) \cap Extent(list[k]) = {}
        BY <4>3, <1>2, ClearApart DEF Separate
      <4>5. QED
        BY <4>2, <4>4
    <3>7. IsFiniteSet(Extent(b)) /\ Cardinality(Extent(b)) = b[2]
      <4>1. b[1] \in Nat /\ b[2] \in Nat \ {0}
        BY <3>3, BlockType
      <4> DEFINE lo == b[1]
                 hi == b[1] + b[2] - 1
      <4>2. Extent(b) = lo .. hi /\ lo \in Int /\ hi \in Int /\ hi - lo + 1 = b[2] /\ ~(lo > hi)
        BY <4>1 DEF Extent
      <4> HIDE DEF lo, hi, b
      <4>3. QED
        BY <4>2, FS_Interval
    <3> HIDE DEF j, b, Upto
    <3>8. /\ IsFiniteSet(Upto(k))
          /\ Cardinality(Upto(k)) = Cardinality(Upto(j)) + Cardinality(Extent(b)) - Cardinality({})
      BY <3>2, <3>5, <3>6, <3>7, FS_Union
    <3>9. Cardinality(Upto(j)) \in Nat /\ b[2] \in Nat
      BY <3>2, <3>3, FS_CardinalityType, BlockType
    <3>10. Right(k)
      BY <3>2, <3>4, <3>7, <3>8, <3>9, FS_EmptySet
    <3>11. QED
      BY <3>10, <2>2
  <2>5. QED
    BY <2>3, <2>4
<1>12. Right(n)
  <2>1. n \in 0 .. n
    BY <1>2
  <2> HIDE DEF Right
  <2>2. n \notin Fails
    <3> HIDE DEF Fails
    <3>1. QED
      BY <1>11
  <2>3. QED
    BY <2>1, <2>2
<1>13. Upto(n) = Covered(list)
  BY <1>2 DEF Covered
<1>14. QED
  BY <1>1, <1>2, <1>12, <1>13

------------------------------------------------------------------------------
(* The operations of a manager.                                             *)

LEMMA GoodInit ==
  /\ Good(NoProgram)
  /\ \A start \in Nat, size \in Nat \ {0} :
       start % Align = 0 /\ size % Align = 0 => Good(Manager(start, size))
<1>1. Good(NoProgram)
  <2>1. <<>> \in Seq(Block) /\ Covered(<<>>) = {} /\ Separate(<<>>) /\ 0 .. 0 + 0 - 1 = {}
    BY DEF Covered, Separate
  <2>2. Len(<<>>) <= Threshold /\ Cardinality({}) = 0
    BY ManagerAssumption, FS_EmptySet
  <2>3. QED
    BY <2>1, <2>2 DEF Good, NoProgram
<1>2. ASSUME NEW start \in Nat, NEW size \in Nat \ {0}, start % Align = 0, size % Align = 0
      PROVE  Good(Manager(start, size))
  <2> DEFINE b == <<start, size>>
             list == <<b>>
             hi == start + size - 1
  <2>1. b \in Block
    BY <1>2, IsBlock
  <2>2. Extent(b) = start .. hi
    BY DEF Extent
  <2> HIDE DEF b
  <2>3. list \in Seq(Block) /\ Len(list) = 1 /\ DOMAIN list = {1} /\ list[1] = b
    BY <2>1
  <2>4. Separate(list) /\ Covered(list) = Extent(b)
    <3> HIDE DEF list
    <3>1. QED
      BY <2>3 DEF Separate, Covered
  <2>5. Cardinality(start .. hi) = size
    <3>1. hi \in Int /\ ~(start > hi) /\ hi - start + 1 = size /\ start \in Int
      OBVIOUS
    <3> HIDE DEF hi
    <3>2. QED
      BY <3>1, FS_Interval
  <2>6. Len(list) <= Threshold
    BY <2>3, ManagerAssumption
  <2> DEFINE m == Manager(start, size)
  <2>7. /\ m.start = start /\ m.size = size /\ m.free = list /\ m.busy = {}
        /\ m.freeSize = size
        /\ m = [start |-> m.start, size |-> m.size, free |-> m.free, busy |-> m.busy,
                freeSize |-> m.freeSize]
    BY DEF Manager, b
  <2> HIDE DEF m, list
  <2>8. QED
    BY <2>2, <2>3, <2>4, <2>5, <2>6, <2>7 DEF Good, m, hi
<1>3. QED
  BY <1>1, <1>2

LEMMA FirstFitIn ==
  ASSUME NEW m, m.free \in Seq(Block), NEW n \in Nat
  PROVE  \/ FirstFit(m, n) = 0
         \/ FirstFit(m, n) \in DOMAIN m.free /\ m.free[FirstFit(m, n)][2] >= n
<1> DEFINE fits == {i \in 1 .. Len(m.free) : m.free[i][2] >= n}
<1>1. FirstFit(m, n) = IF fits # {} THEN Min(fits) ELSE 0
  BY DEF FirstFit, SelectInSeq
<1>2. ASSUME fits # {} PROVE Min(fits) \in fits
  <2>1. fits \in SUBSET Nat
    OBVIOUS
  <2> HIDE DEF fits
  <2>2. \E i \in fits : \A j \in fits : i <= j
    BY <1>2, <2>1, LeastExists
  <2>3. QED
    BY <2>2, Zenon DEF Min
<1>3. DOMAIN m.free = 1 .. Len(m.free)
  OBVIOUS
<1>4. CASE fits = {}
  BY <1>1, <1>4
<1>5. CASE fits # {}
  <2>1. FirstFit(m, n) \in fits
    BY <1>1, <1>2, <1>5
  <2>2. QED
    BY <2>1, <1>3
<1>6. QED
  BY <1>4, <1>5

\* What alloc hands out: a block of the heap that nobody has.
Granted(m, n, g) ==
  /\ g \in Block /\ g[1] = AllocAt(m, n) /\ g[2] >= n
  /\ Extent(g) \subseteq m.start .. m.start + m.size - 1
  /\ \A b \in m.busy : Extent(g) \cap Extent(b) = {}
  /\ Alloc(m, n).busy = m.busy \cup {g}

LEMMA AllocGood ==
  ASSUME NEW m, Good(m), NEW n \in Nat
  PROVE  /\ Good(Alloc(m, n))
         /\ Alloc(m, n).start = m.start /\ Alloc(m, n).size = m.size
         /\ \/ AllocAt(m, n) = Null /\ Alloc(m, n) = m
            \/ \E g : Granted(m, n, g)
<1> DEFINE k == Padded(n)
           i == FirstFit(m, k)
           list == m.free
           heapOf == m.start .. m.start + m.size - 1
           taken == UNION {Extent(b) : b \in m.busy}
           a == Alloc(m, n)
<1>1. k \in Nat \ {0} /\ k % Align = 0 /\ k >= n
  BY PaddedUnit
<1>2. list \in Seq(Block) /\ Separate(list)
  BY DEF Good
<1> HIDE DEF k
<1>3. i = 0 \/ (i \in DOMAIN list /\ list[i][2] >= k)
  BY <1>1, <1>2, FirstFitIn
<1>4. CASE i = 0
  BY <1>4 DEF AllocAt, Alloc, k
<1>5. CASE i # 0
  <2> DEFINE g == <<list[i][1], k>>
             new == Shrunk(list, i, k)
  <2>1. i \in DOMAIN list /\ list[i][2] >= k
    BY <1>3, <1>5
  <2>2. /\ AllocAt(m, n) = list[i][1]
        /\ a = [m EXCEPT !.free = new, !.busy = @ \cup {g}, !.freeSize = @ - k]
    BY <1>5 DEF AllocAt, Alloc, k
  <2> HIDE DEF i
  <2>3. /\ g \in Block /\ new \in Seq(Block) /\ Separate(new)
        /\ Extent(g) \subseteq Covered(list)
        /\ Covered(new) = Covered(list) \ Extent(g)
    <3> HIDE DEF list
    <3>1. QED
      BY <1>1, <1>2, <2>1, ShrunkList
  <2>4. g[1] = list[i][1] /\ g[2] = k
    OBVIOUS
  <2> HIDE DEF g, new
  <2>5. /\ a.start = m.start /\ a.size = m.size /\ a.free = new
        /\ a.busy = m.busy \cup {g} /\ a.freeSize = m.freeSize - k
        /\ a = [start |-> a.start, size |-> a.size, free |-> a.free, busy |-> a.busy,
                freeSize |-> a.freeSize]
    <3> HIDE DEF a
    <3>1. m = [start |-> m.start, size |-> m.size, free |-> m.free, busy |-> m.busy,
               freeSize |-> m.freeSize]
      BY DEF Good
    <3>2. QED
      BY <2>2, <3>1
  <2> HIDE DEF a
  <2>6. \A b \in m.busy : Extent(g) \cap Extent(b) = {} /\ b \in Block
    BY <2>3 DEF Good
  <2>7. Covered(list) \cup taken = heapOf /\ \A b \in m.busy : Extent(b) \cap Covered(list) = {}
    BY DEF Good
  <2>8. Extent(g) \subseteq heapOf
    BY <2>3, <2>7
  <2>9. m.freeSize - k = Cardinality(Covered(new))
    <3>1. Covered(list) = Covered(new) \cup Extent(g) /\ Covered(new) \cap Extent(g) = {}
      BY <2>3
    <3>2. IsFiniteSet(Covered(list)) /\ Cardinality(Covered(list)) = m.freeSize
      BY <1>2, SumOfSizes DEF Good
    <3>3. IsFiniteSet(Extent(g)) /\ Cardinality(Extent(g)) = k
      <4>1. g[1] \in Nat /\ g[2] = k
        BY <2>3, <2>4, BlockType
      <4> DEFINE lo == g[1]
                 hi == g[1] + g[2] - 1
      <4>2. Extent(g) = lo .. hi /\ lo \in Int /\ hi \in Int /\ hi - lo + 1 = k /\ ~(lo > hi)
        BY <4>1, <1>1 DEF Extent
      <4> HIDE DEF lo, hi
      <4>3. QED
        BY <4>2, FS_Interval
    <3>4. IsFiniteSet(Covered(new))
          /\ Cardinality(Covered(new)) = Cardinality(Covered(list)) - Cardinality(Covered(list) \cap Extent(g))
      <4> DEFINE S == Covered(list)
                 T == Extent(g)
      <4>1. IsFiniteSet(S) /\ Covered(new) = S \ T
        BY <2>3, <3>2
      <4> HIDE DEF S, T
      <4>2. IsFiniteSet(S \ T) /\ Cardinality(S \ T) = Cardinality(S) - Cardinality(S \cap T)
        BY <4>1, FS_Difference
      <4>3. QED
        BY <4>1, <4>2 DEF S, T
    <3>5. Covered(list) \cap Extent(g) = Extent(g)
      BY <2>3
    <3>6. QED
      BY <3>2, <3>3, <3>4, <3>5
  <2>10. Covered(new) \cup UNION {Extent(b) : b \in m.busy \cup {g}} = heapOf
    BY <2>3, <2>7
  <2>11. Good(a)
    <3>1. a.start \in Nat /\ a.size \in Nat
      BY <2>5 DEF Good
    <3>2. a.free \in Seq(Block) /\ a.busy \subseteq Block /\ Separate(a.free) /\ a.busy # {}
      BY <2>3, <2>5, <2>6
    <3>3. \A b \in a.busy : Extent(b) \cap Covered(a.free) = {}
      BY <2>3, <2>5, <2>7
    <3>4. \A b, c \in a.busy : b # c => Extent(b) \cap Extent(c) = {}
      <4>1. SUFFICES ASSUME NEW b \in a.busy, NEW c \in a.busy, b # c
                     PROVE  Extent(b) \cap Extent(c) = {}
        OBVIOUS
      <4>2. b \in m.busy \/ b = g
        BY <2>5
      <4>3. c \in m.busy \/ c = g
        BY <2>5
      <4>4. \A x, y \in m.busy : x # y => Extent(x) \cap Extent(y) = {}
        BY DEF Good
      <4>5. QED
        BY <4>1, <4>2, <4>3, <4>4, <2>6
    <3>5. Covered(a.free) \cup UNION {Extent(b) : b \in a.busy} = a.start .. a.start + a.size - 1
      BY <2>5, <2>10
    <3>6. a.freeSize = Cardinality(Covered(a.free))
      BY <2>5, <2>9
    <3>7. QED
      BY <2>5, <3>1, <3>2, <3>3, <3>4, <3>5, <3>6 DEF Good
  <2>12. Granted(m, n, g)
    BY <2>2, <2>3, <2>4, <2>5, <2>6, <2>8, <1>1 DEF Granted, a
  <2>13. QED
    BY <2>5, <2>11, <2>12 DEF a
<1>6. QED
  BY <1>4, <1>5

LEMMA AppendedList ==
  ASSUME NEW list \in Seq(Block), Separate(list), NEW b \in Block,
         Extent(b) \cap Covered(list) = {}
  PROVE  /\ Append(list, b) \in Seq(Block) /\ Separate(Append(list, b))
         /\ Covered(Append(list, b)) = Covered(list) \cup Extent(b)
<1> DEFINE n == Len(list)
           r == Append(list, b)
<1>1. n \in Nat /\ DOMAIN list = 1 .. n /\ \A i \in 1 .. n : list[i] \in Block
  OBVIOUS
<1>2. r \in Seq(Block) /\ DOMAIN r = 1 .. n + 1 /\ r[n + 1] = b
      /\ \A i \in 1 .. n : r[i] = list[i]
  BY <1>1, AppendProperties
<1>3. 1 .. n + 1 = (1 .. n) \cup {n + 1} /\ n + 1 \notin 1 .. n
  BY <1>1
<1> HIDE DEF r, n
<1>4. \A i \in 1 .. n : Extent(list[i]) \cap Extent(b) = {}
  BY <1>1, CoveredIn
<1>5. Separate(r)
  <2>1. SUFFICES ASSUME NEW i \in DOMAIN r, NEW j \in DOMAIN r, i # j
                 PROVE  Clear(r[i], r[j])
    BY DEF Separate
  <2>2. r[i] \in Block /\ r[j] \in Block
    BY <1>2, SeqBlock
  <2>3. CASE i \in 1 .. n /\ j \in 1 .. n
    BY <2>1, <2>3, <1>1, <1>2 DEF Separate
  <2>4. CASE i = n + 1
    <3>1. j \in 1 .. n
      BY <2>1, <2>4, <1>2, <1>3
    <3>2. Extent(r[i]) \cap Extent(r[j]) = {}
      BY <3>1, <2>4, <1>2, <1>4
    <3>3. QED
      BY <3>2, <2>2, ClearApart
  <2>5. CASE j = n + 1
    <3>1. i \in 1 .. n
      BY <2>1, <2>5, <1>2, <1>3
    <3>2. Extent(r[i]) \cap Extent(r[j]) = {}
      BY <3>1, <2>5, <1>2, <1>4
    <3>3. QED
      BY <3>2, <2>2, ClearApart
  <2>6. QED
    BY <2>3, <2>4, <2>5, <1>2, <1>3
<1>6. \A x : x \in Covered(r) <=> x \in Covered(list) \/ x \in Extent(b)
  <2>1. \A x : x \in Covered(r) <=> \E i \in (1 .. n) \cup {n + 1} : x \in Extent(r[i])
    BY <1>2, <1>3, CoveredIn
  <2>2. \A x : x \in Covered(list) <=> \E i \in 1 .. n : x \in Extent(list[i])
    BY <1>1, CoveredIn
  <2>3. QED
    BY <2>1, <2>2, <1>2
<1>7. QED
  BY <1>2, <1>5, <1>6 DEF r

LEMMA FreeGood ==
  ASSUME NEW m, Good(m), NEW buf
  PROVE  /\ Good(Free(m, buf))
         /\ Free(m, buf).start = m.start /\ Free(m, buf).size = m.size
         /\ Free(m, buf).busy = {b \in m.busy : b[1] # buf}
         /\ Free(m, buf) = m \/ \E b \in m.busy : b[1] = buf /\ Free(m, buf).busy = m.busy \ {b}
<1>1. CASE ~\E b \in m.busy : b[1] = buf
  BY <1>1 DEF Free
<1>2. CASE \E b \in m.busy : b[1] = buf
  <2> DEFINE b == CHOOSE x \in m.busy : x[1] = buf
             list == Append(m.free, b)
             new == AfterFree(list)
             a == Free(m, buf)
             heapOf == m.start .. m.start + m.size - 1
  <2>1. b \in m.busy /\ b[1] = buf
    BY <1>2
  <2>2. a = [m EXCEPT !.free = new, !.busy = @ \ {b}, !.freeSize = @ + b[2]]
    BY <1>2 DEF Free, Freed
  <2> HIDE DEF b, new
  <2>3. /\ a.start = m.start /\ a.size = m.size /\ a.free = new
        /\ a.busy = m.busy \ {b} /\ a.freeSize = m.freeSize + b[2]
        /\ a = [start |-> a.start, size |-> a.size, free |-> a.free, busy |-> a.busy,
                freeSize |-> a.freeSize]
    <3> HIDE DEF a
    <3>1. m = [start |-> m.start, size |-> m.size, free |-> m.free, busy |-> m.busy,
               freeSize |-> m.freeSize]
      BY DEF Good
    <3>2. QED
      BY <2>2, <3>1
  <2> HIDE DEF a
  <2>4. /\ m.start \in Nat /\ m.size \in Nat /\ m.free \in Seq(Block) /\ Separate(m.free)
        /\ m.busy \subseteq Block /\ m.freeSize = Cardinality(Covered(m.free))
        /\ \A c \in m.busy : Extent(c) \cap Covered(m.free) = {}
        /\ \A c, d \in m.busy : c # d => Extent(c) \cap Extent(d) = {}
        /\ Covered(m.free) \cup UNION {Extent(c) : c \in m.busy} = heapOf
    BY DEF Good
  <2>5. b \in Block /\ b[1] \in Nat /\ b[2] \in Nat \ {0} /\ b[1] \in Extent(b)
    BY <2>1, <2>4, BlockType
  <2>6. \A c \in m.busy : c # b => c[1] # buf
    <3>1. SUFFICES ASSUME NEW c \in m.busy, c # b, c[1] = buf PROVE FALSE
      OBVIOUS
    <3>2. buf \in Extent(c) /\ buf \in Extent(b)
      BY <3>1, <2>1, <2>4, <2>5, BlockType
    <3>3. QED
      BY <3>1, <3>2, <2>1, <2>4
  <2>7. a.busy = {c \in m.busy : c[1] # buf}
    BY <2>1, <2>3, <2>6
  <2>8. /\ list \in Seq(Block) /\ Separate(list)
        /\ Covered(list) = Covered(m.free) \cup Extent(b)
    BY <2>1, <2>4, <2>5, AppendedList
  <2> HIDE DEF list
  <2>9. /\ new \in Seq(Block) /\ Separate(new) /\ Covered(new) = Covered(list)
        /\ Len(new) <= Threshold \/ Gapped(new)
    <3>1. CASE Len(list) > Threshold
      BY <3>1, <2>8, CoalescedList DEF new, AfterFree
    <3>2. CASE ~(Len(list) > Threshold)
      <4>1. new = list
        BY <3>2 DEF new, AfterFree
      <4>2. Len(list) \in Nat /\ Threshold \in Nat
        BY <2>8, ManagerAssumption
      <4>3. QED
        BY <4>1, <4>2, <3>2, <2>8
    <3>3. QED
      BY <3>1, <3>2
  <2>10. Covered(new) \cup UNION {Extent(c) : c \in m.busy \ {b}} = heapOf
    BY <2>1, <2>4, <2>8, <2>9
  <2>11. \A c \in m.busy \ {b} : Extent(c) \cap Covered(new) = {}
    BY <2>1, <2>4, <2>8, <2>9
  <2>12. m.freeSize + b[2] = Cardinality(Covered(new))
    <3> DEFINE S == Covered(m.free)
               T == Extent(b)
    <3>1. IsFiniteSet(S) /\ Cardinality(S) = m.freeSize
      BY <2>4, SumOfSizes
    <3>2. IsFiniteSet(T) /\ Cardinality(T) = b[2]
      <4> DEFINE lo == b[1]
                 hi == b[1] + b[2] - 1
      <4>1. T = lo .. hi /\ lo \in Int /\ hi \in Int /\ hi - lo + 1 = b[2] /\ ~(lo > hi)
        BY <2>5 DEF Extent
      <4> HIDE DEF lo, hi, T
      <4>2. QED
        BY <4>1, FS_Interval
    <3>3. Covered(new) = S \cup T /\ S \cap T = {}
      BY <2>1, <2>4, <2>8, <2>9
    <3> HIDE DEF S, T
    <3>4. Cardinality(S \cup T) = Cardinality(S) + Cardinality(T) - Cardinality({})
      BY <3>1, <3>2, <3>3, FS_Union
    <3>5. Cardinality(S) \in Nat /\ Cardinality({}) = 0
      BY <3>1, FS_CardinalityType, FS_EmptySet
    <3>6. QED
      BY <3>1, <3>2, <3>3, <3>4, <3>5, <2>5
  <2>13. a.busy = {} => Len(new) <= Threshold
    <3>1. SUFFICES ASSUME a.busy = {}, Gapped(new) PROVE Len(new) <= Threshold
      BY <2>9
    <3>2. Covered(new) = heapOf
      BY <3>1, <2>3, <2>10
    <3>3. m.start \in Int /\ m.start + m.size - 1 \in Int
      BY <2>4
    <3>4. Len(new) <= 1
      BY <3>1, <3>2, <3>3, <2>9, OnePiece
    <3>5. Threshold \in Nat \ {0} /\ Len(new) \in Nat
      BY <2>9, ManagerAssumption
    <3>6. QED
      BY <3>4, <3>5
  <2>14. Good(a)
    BY <2>3, <2>4, <2>9, <2>10, <2>11, <2>12, <2>13 DEF Good
  <2>15. QED
    BY <2>1, <2>3, <2>7, <2>14 DEF a
<1>3. QED
  BY <1>1, <1>2

------------------------------------------------------------------------------
(* The invariant of the device.                                             *)

IInv ==
  /\ heap = [p \in Pods |-> heap[p]]
  /\ \A p \in Pods : Good(heap[p]) /\ heap[p].size \in {0, DramSize}
  /\ groups \in [Pods -> SUBSET (0 .. EvaMod - 1)]
  /\ argv \in {0} \cup ArgvSizes
  /\ held \subseteq (0 .. EvaMod - 1) \X Sizes

\* The heap of every program ends within the addresses of the runtime.
HeapsFit == \A end \in Ends : HeapStart(end) + DramSize <= EvaMod

\* The start of a block that pod p has handed out.
Starts(p) == {b[1] : b \in heap[p].busy}

\* What malloc answers when it finds no block.
NoBlock == Null % EvaMod

\* The addresses that the program and the groups hold are blocks of their own.
Apart ==
  /\ \A p \in Pods : heap[p].start + heap[p].size <= EvaMod
  /\ Idle => \A p \in Pods : groups[p] = {}
  /\ \A p \in Pods : groups[p] \subseteq Starts(p) \cup {NoBlock}
  /\ \A h \in held, p \in Pods :
       h[1] # NoBlock => Backed(p, h) /\ h[1] \notin groups[p]

LEMMA DramSizeType == DramSize \in Nat \ {0}
<1>1. Cardinality(Pods) \in Nat /\ Cardinality(Pods) # 0
  BY PodsAssumption, FS_CardinalityType, FS_EmptySet
<1>2. PodDram \in Nat \ {0}
  BY DramAssumption
<1>3. QED
  BY <1>1, <1>2 DEF DramSize

LEMMA HeapStartType ==
  ASSUME NEW end \in Ends
  PROVE  HeapStart(end) \in Nat /\ HeapStart(end) % Align = 0
<1> DEFINE q == end \div Align
           r == end % Align
<1>1. end \in Nat /\ Align \in Nat \ {0}
  BY DramAssumption, ManagerAssumption
<1>2. end = Align * q + r /\ q \in Nat /\ r \in 0 .. Align - 1
  BY <1>1, Z3
<1>3. HeapStart(end) = end + Align - r
  BY DEF HeapStart
<1> HIDE DEF q, r
<1>4. HeapStart(end) = Align * q + Align
  BY <1>1, <1>2, <1>3
<1>5. Align * q + Align = Align * (q + 1) /\ Align * (q + 1) \in Nat
  BY <1>1, <1>2
<1>6. (Align * (q + 1)) % Align = 0
  BY <1>2, Multiple
<1>7. QED
  BY <1>4, <1>5, <1>6

LEMMA NewManager ==
  ASSUME NEW end \in Ends
  PROVE  Good(Manager(HeapStart(end), DramSize))
BY HeapStartType, DramSizeType, WholeUnits, GoodInit

LEMMA PodMallocType ==
  ASSUME NEW p, NEW n \in Nat, Good(heap[p])
  PROVE  PodMalloc(p, n) \in 0 .. EvaMod - 1
<1>1. AllocAt(heap[p], n) \in Nat
  <2>1. CASE AllocAt(heap[p], n) = Null
    BY <2>1, ManagerAssumption
  <2>2. CASE \E g : Granted(heap[p], n, g)
    BY <2>2, BlockType DEF Granted
  <2>3. QED
    BY <2>1, <2>2, AllocGood
<1>2. EvaMod \in Nat \ {0}
  BY NullAssumption
<1> DEFINE a == AllocAt(heap[p], n)
<1>3. a % EvaMod \in 0 .. EvaMod - 1
  <2> HIDE DEF a
  <2>1. a \in Nat
    BY <1>1 DEF a
  <2>2. QED
    BY <2>1, <1>2, Z3
<1>4. QED
  BY <1>3 DEF PodMalloc

LEMMA InitIInv == Init => IInv
<1> SUFFICES ASSUME Init PROVE IInv
  OBVIOUS
<1>1. \A p \in Pods : heap[p] = NoProgram /\ groups[p] = {}
  BY DEF Init
<1>2. NoProgram.size = 0
  BY DEF NoProgram
<1>3. QED
  BY <1>1, <1>2, GoodInit DEF Init, IInv

LEMMA NextIInv == IInv /\ [Next]_vars => IInv'
<1> SUFFICES ASSUME IInv, [Next]_vars PROVE IInv'
  OBVIOUS
<1>1. /\ heap = [p \in Pods |-> heap[p]]
      /\ \A p \in Pods : Good(heap[p]) /\ heap[p].size \in {0, DramSize}
      /\ groups \in [Pods -> SUBSET (0 .. EvaMod - 1)]
      /\ argv \in {0} \cup ArgvSizes
      /\ held \subseteq (0 .. EvaMod - 1) \X Sizes
  BY DEF IInv
<1>2. argv \in Nat /\ Sizes \subseteq Nat /\ ArgvSizes \subseteq Nat
  BY <1>1, SizesAssumption
<1>3. ASSUME NEW end \in Ends, ProgramInit(end) PROVE IInv'
  <2>1. \A p \in Pods : Good(heap'[p]) /\ heap'[p].size = DramSize
    BY <1>3, NewManager DEF ProgramInit, Manager
  <2>2. QED
    BY <1>1, <1>3, <2>1 DEF IInv, ProgramInit
<1>4. ASSUME ProgramFinish PROVE IInv'
  <2>1. \A p \in Pods : heap'[p] = heap[p] \/ heap'[p] = NoProgram
    BY <1>1, <1>4 DEF ProgramFinish
  <2>2. \A p \in Pods : Good(heap'[p]) /\ heap'[p].size \in {0, DramSize}
    <3>1. Good(NoProgram) /\ NoProgram.size = 0
      BY GoodInit DEF NoProgram
    <3>2. QED
      BY <1>1, <2>1, <3>1
  <2>3. heap' = [p \in Pods |-> heap'[p]]
    BY <1>1, <1>4 DEF ProgramFinish
  <2>4. QED
    BY <1>1, <1>4, <2>2, <2>3 DEF IInv, ProgramFinish
<1>5. ASSUME DeviceFinish PROVE IInv'
  <2>1. Good(NoProgram) /\ NoProgram.size = 0
    BY GoodInit DEF NoProgram
  <2>2. QED
    BY <1>1, <1>5, <2>1 DEF IInv, DeviceFinish
<1>6. ASSUME NEW n \in Sizes, DeviceMalloc(n) PROVE IInv'
  <2>1. \A p \in Pods : Good(heap'[p]) /\ heap'[p].size = heap[p].size
    BY <1>1, <1>2, <1>6, AllocGood DEF DeviceMalloc
  <2>2. held' \subseteq (0 .. EvaMod - 1) \X Sizes
    <3>1. PodMalloc(DefaultPod, n) \in 0 .. EvaMod - 1
      BY <1>1, <1>2, PodsAssumption, PodMallocType
    <3>2. held' \subseteq held \cup {<<PodMalloc(DefaultPod, n), n>>}
      BY <1>6, PodsAssumption DEF DeviceMalloc
    <3>3. QED
      BY <1>1, <3>1, <3>2
  <2>3. QED
    BY <1>1, <1>6, <2>1, <2>2 DEF IInv, DeviceMalloc
<1>7. ASSUME NEW eva \in HeldEvas, DeviceFree(eva) PROVE IInv'
  <2>1. \A p \in Pods : Good(heap'[p]) /\ heap'[p].size = heap[p].size
    BY <1>1, <1>7, FreeGood DEF DeviceFree
  <2>2. QED
    BY <1>1, <1>7, <2>1 DEF IInv, DeviceFree
<1>8. ASSUME NEW n \in ArgvSizes, ExecuteBegin(n) PROVE IInv'
  BY <1>1, <1>8 DEF IInv, ExecuteBegin
<1>9. ASSUME NEW q \in Pods, GroupLaunch(q) PROVE IInv'
  <2>1. \A p \in Pods : heap'[p] = IF p = q THEN Alloc(heap[q], argv) ELSE heap[p]
    BY <1>1, <1>9 DEF GroupLaunch
  <2>2. Good(Alloc(heap[q], argv)) /\ Alloc(heap[q], argv).size = heap[q].size
    BY <1>1, <1>2, AllocGood
  <2>3. PodMalloc(q, argv) \in 0 .. EvaMod - 1
    BY <1>1, <1>2, PodMallocType
  <2>4. groups' \in [Pods -> SUBSET (0 .. EvaMod - 1)]
    BY <1>1, <1>9, <2>3 DEF GroupLaunch
  <2>5. heap' = [p \in Pods |-> heap'[p]]
    BY <1>1, <1>9 DEF GroupLaunch
  <2>6. QED
    BY <1>1, <1>9, <2>1, <2>2, <2>4, <2>5 DEF IInv, GroupLaunch
<1>10. ASSUME NEW q \in Pods, NEW eva \in groups[q], GroupExit(q, eva) PROVE IInv'
  <2>1. \A p \in Pods : heap'[p] = IF p = q THEN Free(heap[q], eva) ELSE heap[p]
    BY <1>1, <1>10 DEF GroupExit
  <2>2. Good(Free(heap[q], eva)) /\ Free(heap[q], eva).size = heap[q].size
    BY <1>1, FreeGood
  <2>3. groups' \in [Pods -> SUBSET (0 .. EvaMod - 1)]
    BY <1>1, <1>10 DEF GroupExit
  <2>4. heap' = [p \in Pods |-> heap'[p]]
    BY <1>1, <1>10 DEF GroupExit
  <2>5. QED
    BY <1>1, <1>10, <2>1, <2>2, <2>3, <2>4 DEF IInv, GroupExit
<1>11. ASSUME ExecuteEnd PROVE IInv'
  BY <1>1, <1>11 DEF IInv, ExecuteEnd
<1>12. ASSUME UNCHANGED vars PROVE IInv'
  BY <1>1, <1>12 DEF IInv, vars
<1>13. QED
  BY <1>3, <1>4, <1>5, <1>6, <1>7, <1>8, <1>9, <1>10, <1>11, <1>12 DEF Next

\* Each manager of a device stays good.
THEOREM ManagersGood == Spec => []IInv
BY InitIInv, NextIInv, PTL DEF Spec

LEMMA GoodBlocks ==
  ASSUME NEW m, Good(m)
  PROVE  /\ AllBlocks(m) \subseteq Block
         /\ UNION {Extent(b) : b \in FreeBlocks(m)} = Covered(m.free)
         /\ Cardinality(FreeBlocks(m)) = Len(m.free)
         /\ \A a, b \in FreeBlocks(m) : a # b => Extent(a) \cap Extent(b) = {}
<1> DEFINE list == m.free
           n == Len(list)
           S == FreeBlocks(m)
<1>1. list \in Seq(Block) /\ Separate(list) /\ m.busy \subseteq Block
  BY DEF Good
<1>2. n \in Nat /\ DOMAIN list = 1 .. n /\ \A i \in 1 .. n : list[i] \in Block
  BY <1>1
<1>3. S = {list[i] : i \in 1 .. n}
  BY <1>2 DEF FreeBlocks, ToSet
<1> HIDE DEF S
<1>4. \A i, j \in 1 .. n : i # j => Extent(list[i]) \cap Extent(list[j]) = {}
  BY <1>1, <1>2, ClearApart DEF Separate
<1>5. Cardinality(S) = n
  <2> DEFINE f == [i \in 1 .. n |-> list[i]]
  <2>1. \A i, j \in 1 .. n : f[i] = f[j] => i = j
    <3>1. SUFFICES ASSUME NEW i \in 1 .. n, NEW j \in 1 .. n, list[i] = list[j], i # j
                   PROVE  FALSE
      OBVIOUS
    <3>2. list[i][1] \in Extent(list[i])
      BY <1>2, BlockType
    <3>3. QED
      BY <3>1, <3>2, <1>4
  <2>2. f \in Bijection(1 .. n, S)
    <3>1. f \in [1 .. n -> S] /\ \A x \in S : \E i \in 1 .. n : f[i] = x
      BY <1>3
    <3> HIDE DEF f
    <3>2. QED
      BY <2>1, <3>1 DEF Bijection, Injection, Surjection, IsInjective
  <2>3. ExistsBijection(1 .. n, S)
    BY <2>2 DEF ExistsBijection
  <2> HIDE DEF n
  <2>4. QED
    BY <1>2, <2>3, FS_CountingElements
<1>6. UNION {Extent(b) : b \in S} = Covered(list)
  <2>1. \A x : x \in UNION {Extent(b) : b \in S} <=> \E i \in 1 .. n : x \in Extent(list[i])
    BY <1>3
  <2>2. QED
    BY <2>1, <1>2, CoveredIn
<1>7. \A a, b \in S : a # b => Extent(a) \cap Extent(b) = {}
  BY <1>3, <1>4
<1>8. AllBlocks(m) \subseteq Block
  BY <1>1, <1>2, <1>3 DEF AllBlocks, S
<1>9. QED
  BY <1>5, <1>6, <1>7, <1>8 DEF S

LEMMA GoodPartitioned ==
  ASSUME NEW m, Good(m)
  PROVE  Partitioned(m)
<1>1. /\ m.start \in Nat /\ m.size \in Nat
      /\ m.free \in Seq(Block) /\ m.busy \subseteq Block
      /\ Separate(m.free)
      /\ \A b \in m.busy : Extent(b) \cap Covered(m.free) = {}
      /\ \A a, b \in m.busy : a # b => Extent(a) \cap Extent(b) = {}
      /\ Covered(m.free) \cup UNION {Extent(b) : b \in m.busy} = m.start .. m.start + m.size - 1
      /\ m.freeSize = Cardinality(Covered(m.free))
  BY DEF Good
<1>2. \A a \in FreeBlocks(m) : Extent(a) \subseteq Covered(m.free)
  BY GoodBlocks
<1>3. ASSUME NEW a \in AllBlocks(m), NEW b \in AllBlocks(m), a # b
      PROVE  Extent(a) \cap Extent(b) = {}
  BY <1>1, <1>2, <1>3, GoodBlocks DEF AllBlocks
<1>4. FreeBlocks(m) \cap m.busy = {}
  <2>1. SUFFICES ASSUME NEW b \in m.busy, b \in FreeBlocks(m) PROVE FALSE
    OBVIOUS
  <2>2. b[1] \in Extent(b)
    BY <1>1, BlockType
  <2>3. QED
    BY <2>1, <2>2, <1>1, <1>2
<1>5. UNION {Extent(b) : b \in AllBlocks(m)} = m.start .. m.start + m.size - 1
  <2>1. \A x : x \in UNION {Extent(b) : b \in AllBlocks(m)}
               <=> \E b \in FreeBlocks(m) \cup m.busy : x \in Extent(b)
    BY DEF AllBlocks
  <2>2. \A x : x \in UNION {Extent(b) : b \in FreeBlocks(m)}
               <=> \E b \in FreeBlocks(m) : x \in Extent(b)
    OBVIOUS
  <2>3. \A x : x \in UNION {Extent(b) : b \in m.busy} <=> \E b \in m.busy : x \in Extent(b)
    OBVIOUS
  <2>4. UNION {Extent(b) : b \in FreeBlocks(m)} = Covered(m.free)
    BY GoodBlocks
  <2>5. \A x : x \in UNION {Extent(b) : b \in AllBlocks(m)}
               <=> x \in Covered(m.free) \cup UNION {Extent(b) : b \in m.busy}
    BY <2>1, <2>2, <2>3, <2>4
  <2>6. QED
    BY <2>5, <1>1
<1>6. m.freeSize = FoldLeft(LAMBDA x, b : x + b[2], 0, m.free)
  BY <1>1, SumOfSizes
<1>7. QED
  BY <1>3, <1>4, <1>5, <1>6, GoodBlocks DEF Partitioned

LEMMA GoodFreeSize ==
  ASSUME NEW m, Good(m)
  PROVE  m.freeSize \in 0 .. m.size
<1>1. /\ m.start \in Nat /\ m.size \in Nat /\ m.freeSize = Cardinality(Covered(m.free))
      /\ Covered(m.free) \subseteq m.start .. m.start + m.size - 1
  BY DEF Good
<1> DEFINE lo == m.start
           hi == m.start + m.size - 1
           S == Covered(m.free)
<1>2. lo \in Int /\ hi \in Int /\ hi - lo + 1 = m.size /\ (lo > hi => m.size = 0)
      /\ S \in SUBSET (lo .. hi)
  BY <1>1
<1> HIDE DEF lo, hi, S
<1>3. IsFiniteSet(lo .. hi) /\ Cardinality(lo .. hi) = m.size
  BY <1>2, FS_Interval
<1>4. IsFiniteSet(S) /\ Cardinality(S) <= m.size
  BY <1>2, <1>3, FS_Subset
<1>5. QED
  BY <1>1, <1>4, FS_CardinalityType DEF S

LEMMA IInvTyped == IInv => TypeOK
<1> SUFFICES ASSUME IInv PROVE TypeOK
  OBVIOUS
<1>1. ASSUME NEW p \in Pods
      PROVE  /\ heap[p].start \in Nat /\ heap[p].size \in {0, DramSize}
             /\ heap[p].freeSize \in 0 .. DramSize
             /\ \A b \in AllBlocks(heap[p]) : b \in Nat \X (Nat \ {0}) /\ b[2] % Align = 0
             /\ groups[p] \subseteq 0 .. EvaMod - 1
  <2>1. Good(heap[p]) /\ heap[p].size \in {0, DramSize}
    BY DEF IInv
  <2>2. heap[p].start \in Nat /\ heap[p].freeSize \in 0 .. heap[p].size
    BY <2>1, GoodFreeSize DEF Good
  <2>3. heap[p].freeSize \in 0 .. DramSize
    BY <2>1, <2>2, DramSizeType
  <2>4. \A b \in AllBlocks(heap[p]) : b \in Nat \X (Nat \ {0}) /\ b[2] % Align = 0
    BY <2>1, GoodBlocks DEF Block
  <2>5. QED
    BY <2>1, <2>2, <2>3, <2>4 DEF IInv
<1>2. QED
  BY <1>1 DEF IInv, TypeOK

\* What a manager, a group and the program keep has its type: blocks are whole
\* units, and the free size stays within the heap.
THEOREM Typed == Spec => []TypeOK
BY ManagersGood, IInvTyped, PTL

\* Allocation, freeing and merging neither lose nor duplicate memory, however
\* long the program runs and in whatever order it frees.
THEOREM PartitionHolds == Spec => []Partition
<1>1. IInv => Partition
  BY GoodPartitioned DEF IInv, Partition
<1>2. QED
  BY <1>1, ManagersGood, PTL

\* A pod whose blocks have all been given back is in no more pieces than the
\* threshold.
THEOREM FewPiecesHolds == Spec => []FewPieces
<1>1. IInv => FewPieces
  BY DEF IInv, FewPieces, Good
<1>2. QED
  BY <1>1, ManagersGood, PTL

------------------------------------------------------------------------------
(* The same address in every pod.                                           *)

\* What malloc of a pod answers, unless it found no block: the start of a block
\* that the pod had not handed out.
LEMMA PodMallocGrants ==
  ASSUME NEW p, NEW n \in Nat, Good(heap[p]), heap[p].start + heap[p].size <= EvaMod,
         PodMalloc(p, n) # NoBlock
  PROVE  /\ \E b \in Alloc(heap[p], n).busy : b[1] = PodMalloc(p, n) /\ b[2] >= n
         /\ PodMalloc(p, n) \notin Starts(p)
         /\ heap[p].busy \subseteq Alloc(heap[p], n).busy
<1> DEFINE m == heap[p]
           a == AllocAt(m, n)
<1>1. a # Null
  BY DEF PodMalloc, NoBlock
<1>2. PICK g : Granted(m, n, g)
  BY <1>1, AllocGood
<1>3. /\ g \in Block /\ g[1] = a /\ g[2] >= n
      /\ Extent(g) \subseteq m.start .. m.start + m.size - 1
      /\ \A b \in m.busy : Extent(g) \cap Extent(b) = {}
      /\ Alloc(m, n).busy = m.busy \cup {g}
  BY <1>2 DEF Granted
<1>4. g[1] \in Nat /\ g[1] \in Extent(g)
  BY <1>3, BlockType
<1>5. g[1] < EvaMod
  <2>1. m.start \in Nat /\ m.size \in Nat /\ EvaMod \in Nat
    BY NullAssumption DEF Good
  <2>2. g[1] <= m.start + m.size - 1
    BY <2>1, <1>3, <1>4
  <2>3. QED
    BY <2>1, <2>2, <1>4
<1>6. PodMalloc(p, n) = g[1]
  <2>1. g[1] % EvaMod = g[1]
    BY <1>4, <1>5, NullAssumption
  <2>2. QED
    BY <2>1, <1>3 DEF PodMalloc
<1>7. \A b \in m.busy : b[1] # g[1]
  <2>1. SUFFICES ASSUME NEW b \in m.busy, b[1] = g[1] PROVE FALSE
    OBVIOUS
  <2>2. b[1] \in Extent(b)
    BY BlockType DEF Good
  <2>3. QED
    BY <2>1, <2>2, <1>3, <1>4
<1>8. QED
  BY <1>3, <1>6, <1>7 DEF Starts

LEMMA AllocKeeps ==
  ASSUME NEW m, Good(m), NEW n \in Nat
  PROVE  m.busy \subseteq Alloc(m, n).busy
BY AllocGood DEF Granted

LEMMA NextApart ==
  ASSUME HeapsFit, IInv, Apart, [Next]_vars
  PROVE  Apart'
<1>1. /\ heap = [p \in Pods |-> heap[p]]
      /\ \A p \in Pods : Good(heap[p]) /\ heap[p].size \in {0, DramSize}
      /\ groups \in [Pods -> SUBSET (0 .. EvaMod - 1)]
      /\ argv \in Nat /\ Sizes \subseteq Nat /\ ArgvSizes \subseteq Nat
  BY SizesAssumption DEF IInv
<1>2. /\ \A p \in Pods : heap[p].start + heap[p].size <= EvaMod
      /\ Idle => \A p \in Pods : groups[p] = {}
      /\ \A p \in Pods : groups[p] \subseteq Starts(p) \cup {NoBlock}
      /\ \A h \in held, p \in Pods :
           h[1] # NoBlock => Backed(p, h) /\ h[1] \notin groups[p]
  BY DEF Apart
<1>3. ASSUME NEW end \in Ends, ProgramInit(end) PROVE Apart'
  <2>1. /\ held' = {} /\ groups' = groups /\ argv' = argv
        /\ \A p \in Pods : groups[p] = {}
        /\ \A p \in Pods : heap'[p] = Manager(HeapStart(end), DramSize)
    BY <1>2, <1>3 DEF ProgramInit
  <2>2. \A p \in Pods : heap'[p].start + heap'[p].size <= EvaMod
    BY <2>1 DEF HeapsFit, Manager
  <2>3. QED
    BY <2>1, <2>2 DEF Apart, Idle
<1>4. ASSUME ProgramFinish \/ DeviceFinish PROVE Apart'
  <2>1. /\ held' = {} /\ groups' = groups /\ argv' = argv
        /\ \A p \in Pods : groups[p] = {}
    BY <1>2, <1>4 DEF ProgramFinish, DeviceFinish
  <2>2. \A p \in Pods : heap'[p] = heap[p] \/ heap'[p] = NoProgram
    BY <1>1, <1>4 DEF ProgramFinish, DeviceFinish
  <2>3. NoProgram.start + NoProgram.size <= EvaMod
    BY NullAssumption DEF NoProgram
  <2>4. \A p \in Pods : heap'[p].start + heap'[p].size <= EvaMod
    BY <1>2, <2>2, <2>3
  <2>5. QED
    BY <2>1, <2>4 DEF Apart, Idle
<1>5. ASSUME NEW n \in Sizes, DeviceMalloc(n) PROVE Apart'
  <2>1. /\ groups' = groups /\ argv' = argv
        /\ \A p \in Pods : groups[p] = {}
        /\ \A p \in Pods : heap'[p] = Alloc(heap[p], n)
    BY <1>2, <1>5 DEF DeviceMalloc
  <2>2. \A p \in Pods : heap'[p].start = heap[p].start /\ heap'[p].size = heap[p].size
                        /\ heap[p].busy \subseteq heap'[p].busy
    BY <1>1, <2>1, AllocGood, AllocKeeps
  <2>3. ASSUME NEW h \in held', NEW p \in Pods, h[1] # NoBlock
        PROVE  \E b \in heap'[p].busy : b[1] = h[1] /\ b[2] >= h[2]
    <3>1. CASE h \in held
      <4>1. Backed(p, h)
        BY <2>3, <3>1, <1>2
      <4>2. QED
        BY <4>1, <2>2 DEF Backed
    <3>2. CASE h \notin held
      <4>1. h = <<PodMalloc(DefaultPod, n), n>> /\ PodMalloc(p, n) = PodMalloc(DefaultPod, n)
        BY <3>2, <2>3, <1>5, PodsAssumption DEF DeviceMalloc, SameInAllPods
      <4>2. h[1] = PodMalloc(p, n) /\ h[2] = n
        BY <4>1
      <4>3. Good(heap[p]) /\ heap[p].start + heap[p].size <= EvaMod /\ n \in Nat
        BY <1>1, <1>2, <1>5
      <4>4. \E b \in Alloc(heap[p], n).busy : b[1] = PodMalloc(p, n) /\ b[2] >= n
        BY <4>2, <4>3, <2>3, PodMallocGrants
      <4>5. QED
        BY <4>2, <4>4, <2>1
    <3>3. QED
      BY <3>1, <3>2
  <2>4. QED
    BY <2>1, <2>2, <2>3, <1>2 DEF Apart, Backed, Idle
<1>6. ASSUME NEW eva \in HeldEvas, DeviceFree(eva) PROVE Apart'
  <2>1. /\ groups' = groups /\ argv' = argv /\ held' = {h \in held : h[1] # eva}
        /\ \A p \in Pods : groups[p] = {}
        /\ \A p \in Pods : heap'[p] = Free(heap[p], eva)
    BY <1>2, <1>6 DEF DeviceFree
  <2>2. \A p \in Pods : /\ heap'[p].start = heap[p].start /\ heap'[p].size = heap[p].size
                        /\ heap'[p].busy = {b \in heap[p].busy : b[1] # eva}
    BY <1>1, <2>1, FreeGood
  <2>3. ASSUME NEW h \in held', NEW p \in Pods, h[1] # NoBlock
        PROVE  \E b \in heap'[p].busy : b[1] = h[1] /\ b[2] >= h[2]
    BY <2>1, <2>2, <2>3, <1>2 DEF Backed
  <2>4. QED
    BY <2>1, <2>2, <2>3, <1>2 DEF Apart, Backed, Idle
<1>7. ASSUME NEW n \in ArgvSizes, ExecuteBegin(n) PROVE Apart'
  BY <1>2, <1>7 DEF Apart, ExecuteBegin, Idle, Starts, Backed
<1>8. ASSUME NEW q \in Pods, GroupLaunch(q) PROVE Apart'
  <2> DEFINE v == PodMalloc(q, argv)
  <2>1. /\ argv' = argv /\ held' = held /\ ~Idle
        /\ groups'[q] = groups[q] \cup {v} /\ heap'[q] = Alloc(heap[q], argv)
        /\ \A p \in Pods : p # q => groups'[p] = groups[p] /\ heap'[p] = heap[p]
    BY <1>1, <1>8 DEF GroupLaunch
  <2>2. \A p \in Pods : heap'[p].start = heap[p].start /\ heap'[p].size = heap[p].size
                        /\ heap[p].busy \subseteq heap'[p].busy
    BY <1>1, <2>1, AllocGood, AllocKeeps
  <2>3. v # NoBlock => v \notin Starts(q) /\ \E b \in heap'[q].busy : b[1] = v
    <3>1. Good(heap[q]) /\ heap[q].start + heap[q].size <= EvaMod /\ argv \in Nat
      BY <1>1, <1>2
    <3>2. ASSUME v # NoBlock
          PROVE  v \notin Starts(q) /\ \E b \in Alloc(heap[q], argv).busy : b[1] = v
      BY <3>1, <3>2, PodMallocGrants
    <3> HIDE DEF v
    <3>3. QED
      BY <3>2, <2>1
  <2> HIDE DEF v
  <2>4. ASSUME NEW p \in Pods, NEW e \in groups'[p], e # NoBlock
        PROVE  \E b \in heap'[p].busy : b[1] = e
    <3>1. CASE e \in groups[p]
      BY <3>1, <2>2, <2>4, <1>2 DEF Starts
    <3>2. CASE e \notin groups[p]
      BY <3>2, <2>1, <2>3, <2>4
    <3>3. QED
      BY <3>1, <3>2
  <2>5. ASSUME NEW h \in held, NEW p \in Pods, h[1] # NoBlock
        PROVE  /\ \E b \in heap'[p].busy : b[1] = h[1] /\ b[2] >= h[2]
               /\ h[1] \notin groups'[p]
    <3>1. Backed(p, h) /\ h[1] \notin groups[p]
      BY <2>5, <1>2
    <3>2. h[1] \in Starts(p)
      BY <3>1 DEF Backed, Starts
    <3>3. QED
      BY <3>1, <3>2, <2>1, <2>2, <2>3, <2>5 DEF Backed
  <2>6. ~Idle'
    BY <2>1 DEF Idle
  <2>7. \A p \in Pods : groups'[p] \subseteq {b[1] : b \in heap'[p].busy} \cup {NoBlock}
    BY <2>4
  <2>8. QED
    BY <2>1, <2>2, <2>5, <2>6, <2>7, <1>2 DEF Apart, Backed, Starts
<1>9. ASSUME NEW q \in Pods, NEW eva \in groups[q], GroupExit(q, eva) PROVE Apart'
  <2>1. /\ argv' = argv /\ held' = held
        /\ groups'[q] = groups[q] \ {eva} /\ heap'[q] = Free(heap[q], eva)
        /\ \A p \in Pods : p # q => groups'[p] = groups[p] /\ heap'[p] = heap[p]
    BY <1>1, <1>9 DEF GroupExit
  <2>2. /\ \A p \in Pods : heap'[p].start = heap[p].start /\ heap'[p].size = heap[p].size
        /\ heap'[q].busy = {b \in heap[q].busy : b[1] # eva}
    BY <1>1, <2>1, FreeGood
  <2>3. ~Idle'
    BY <1>2, <1>9, <2>1 DEF Idle
  <2>4. \A p \in Pods : groups'[p] \subseteq {b[1] : b \in heap'[p].busy} \cup {NoBlock}
    <3>1. SUFFICES ASSUME NEW p \in Pods, NEW e \in groups'[p], e # NoBlock
                   PROVE  \E b \in heap'[p].busy : b[1] = e
      OBVIOUS
    <3>2. e \in groups[p] /\ (p = q => e # eva)
      BY <2>1
    <3>3. PICK b \in heap[p].busy : b[1] = e
      BY <3>1, <3>2, <1>2 DEF Starts
    <3>4. b \in heap'[p].busy
      BY <3>2, <3>3, <2>1, <2>2
    <3>5. QED
      BY <3>3, <3>4
  <2>5. ASSUME NEW h \in held, NEW p \in Pods, h[1] # NoBlock
        PROVE  /\ \E b \in heap'[p].busy : b[1] = h[1] /\ b[2] >= h[2]
               /\ h[1] \notin groups'[p]
    <3>1. Backed(p, h) /\ h[1] \notin groups[p]
      BY <2>5, <1>2
    <3>2. PICK b \in heap[p].busy : b[1] = h[1] /\ b[2] >= h[2]
      BY <3>1 DEF Backed
    <3>3. p = q => h[1] # eva
      BY <3>1, <1>9
    <3>4. b \in heap'[p].busy
      BY <3>2, <3>3, <2>1, <2>2
    <3>5. QED
      BY <3>1, <3>2, <3>4, <2>1
  <2>6. QED
    BY <2>1, <2>2, <2>3, <2>4, <2>5, <1>2 DEF Apart, Backed, Starts
<1>10. ASSUME ExecuteEnd PROVE Apart'
  BY <1>2, <1>10 DEF Apart, ExecuteEnd, Idle, Starts, Backed
<1>11. ASSUME UNCHANGED vars PROVE Apart'
  BY <1>2, <1>11 DEF Apart, vars, Idle, Starts, Backed
<1>12. QED
  BY <1>3, <1>4, <1>5, <1>6, <1>7, <1>8, <1>9, <1>10, <1>11 DEF Next

\* When the heaps end within the addresses of the runtime: an address that
\* malloc of the device returned is a block of its size in every pod, in
\* whatever order the pods finish their groups.
THEOREM ReplicatedBackedHolds ==
  ASSUME HeapsFit
  PROVE  Spec => []ReplicatedBacked
<1>1. Init => Apart
  BY NullAssumption DEF Init, Apart, NoProgram, Idle
<1>2. IInv /\ Apart /\ [Next]_vars => Apart'
  BY NextApart
<1>3. Apart => ReplicatedBacked
  BY DEF Apart, ReplicatedBacked, NoBlock
<1>4. QED
  BY <1>1, <1>2, <1>3, ManagersGood, PTL DEF Spec

------------------------------------------------------------------------------
(* The blocks of each pod implement the abstract heap.                      *)

HeapStep(p) == [Heap(p)!Next]_<<heap[p].start, heap[p].size, heap[p].busy>>

LEMMA AllocGrants ==
  ASSUME NEW p, Good(heap[p]), NEW n \in Nat, heap'[p] = Alloc(heap[p], n)
  PROVE  HeapStep(p)
<1>1. CASE Alloc(heap[p], n) = heap[p]
  BY <1>1 DEF HeapStep
<1>2. CASE Alloc(heap[p], n) # heap[p]
  <2>1. PICK g : Granted(heap[p], n, g)
    BY <1>2, AllocGood
  <2>2. /\ g \in Block /\ Extent(g) \subseteq heap[p].start .. heap[p].start + heap[p].size - 1
        /\ \A b \in heap[p].busy : Extent(g) \cap Extent(b) = {}
        /\ heap'[p].busy = heap[p].busy \cup {g}
    BY <2>1 DEF Granted
  <2>3. heap'[p].start = heap[p].start /\ heap'[p].size = heap[p].size
    BY AllocGood
  <2>4. g[2] > 0 /\ g[1] % Align = 0 /\ g[1] \in Extent(g)
    BY <2>2, BlockType
  <2>5. Heap(p)!Grant(g)
    <3>1. \A b : Heap(p)!Extent(b) = Extent(b)
      BY DEF Heap!Extent, Extent
    <3>2. Heap(p)!Extent(<<heap[p].start, heap[p].size>>)
            = heap[p].start .. heap[p].start + heap[p].size - 1
      BY DEF Heap!Extent
    <3>3. \A b \in heap[p].busy : Heap(p)!Apart(b, g)
      BY <3>1, <2>2 DEF Heap!Apart
    <3>4. Heap(p)!Extent(g) \subseteq Heap(p)!Extent(<<heap[p].start, heap[p].size>>)
      BY <3>1, <3>2, <2>2
    <3>5. QED
      BY <3>3, <3>4, <2>2, <2>3, <2>4 DEF Heap!Grant
  <2>6. g \notin heap[p].busy
    BY <2>2, <2>4
  <2>7. Heap(p)!Next
    BY <2>2, <2>5, <2>6 DEF Heap!Next
  <2>8. QED
    BY <2>7 DEF HeapStep
<1>3. QED
  BY <1>1, <1>2

LEMMA FreeReturns ==
  ASSUME NEW p, Good(heap[p]), NEW buf, heap'[p] = Free(heap[p], buf)
  PROVE  HeapStep(p)
<1>1. CASE Free(heap[p], buf) = heap[p]
  BY <1>1 DEF HeapStep
<1>2. CASE Free(heap[p], buf) # heap[p]
  <2>1. PICK b \in heap[p].busy : heap'[p].busy = heap[p].busy \ {b}
    BY <1>2, FreeGood
  <2>2. heap'[p].start = heap[p].start /\ heap'[p].size = heap[p].size
    BY FreeGood
  <2>3. Heap(p)!Return(b)
    BY <2>1, <2>2 DEF Heap!Return
  <2>4. Heap(p)!Next
    BY <2>1, <2>3 DEF Heap!Next
  <2>5. QED
    BY <2>4 DEF HeapStep
<1>3. QED
  BY <1>1, <1>2

LEMMA SameHeap ==
  ASSUME NEW p, heap'[p] = heap[p]
  PROVE  HeapStep(p)
BY DEF HeapStep

LEMMA NoHeap ==
  ASSUME NEW p, heap'[p] = NoProgram
  PROVE  HeapStep(p)
BY DEF HeapStep, NoProgram, Heap!Next, Heap!Destroy

LEMMA StepImplementsHeap ==
  ASSUME IInv, [Next]_vars
  PROVE  \A p \in Pods : HeapStep(p)
<1> SUFFICES ASSUME NEW p \in Pods PROVE HeapStep(p)
  OBVIOUS
<1>1. heap = [q \in Pods |-> heap[q]] /\ Good(heap[p]) /\ argv \in Nat
  BY SizesAssumption DEF IInv
<1>2. ASSUME NEW end \in Ends, ProgramInit(end) PROVE HeapStep(p)
  <2>1. heap'[p] = Manager(HeapStart(end), DramSize)
    BY <1>2 DEF ProgramInit
  <2>2. heap'[p].start \in Nat /\ heap'[p].size \in Nat /\ heap'[p].busy = {}
    BY <2>1, HeapStartType, DramSizeType DEF Manager
  <2>3. Heap(p)!Create
    BY <2>2 DEF Heap!Create
  <2>4. QED
    BY <2>3 DEF HeapStep, Heap!Next
<1>3. ASSUME ProgramFinish \/ DeviceFinish PROVE HeapStep(p)
  <2>1. heap'[p] = heap[p] \/ heap'[p] = NoProgram
    BY <1>1, <1>3 DEF ProgramFinish, DeviceFinish
  <2>2. QED
    BY <2>1, SameHeap, NoHeap
<1>4. ASSUME NEW n \in Sizes, DeviceMalloc(n) PROVE HeapStep(p)
  <2>1. heap'[p] = Alloc(heap[p], n) /\ n \in Nat
    BY <1>4, SizesAssumption DEF DeviceMalloc
  <2>2. QED
    BY <1>1, <2>1, AllocGrants
<1>5. ASSUME NEW eva \in HeldEvas, DeviceFree(eva) PROVE HeapStep(p)
  <2>1. heap'[p] = Free(heap[p], eva)
    BY <1>5 DEF DeviceFree
  <2>2. QED
    BY <1>1, <2>1, FreeReturns
<1>6. ASSUME NEW q \in Pods, GroupLaunch(q) PROVE HeapStep(p)
  <2>1. heap'[p] = heap[p] \/ heap'[p] = Alloc(heap[p], argv)
    BY <1>1, <1>6 DEF GroupLaunch
  <2>2. QED
    BY <1>1, <2>1, SameHeap, AllocGrants
<1>7. ASSUME NEW q \in Pods, NEW eva \in groups[q], GroupExit(q, eva) PROVE HeapStep(p)
  <2>1. heap'[p] = heap[p] \/ heap'[p] = Free(heap[p], eva)
    BY <1>1, <1>7 DEF GroupExit
  <2>2. QED
    BY <1>1, <2>1, SameHeap, FreeReturns
<1>8. ASSUME ExecuteEnd \/ (\E n \in ArgvSizes : ExecuteBegin(n)) \/ UNCHANGED vars
      PROVE  HeapStep(p)
  BY <1>8, SameHeap DEF ExecuteEnd, ExecuteBegin, vars
<1>9. QED
  BY <1>2, <1>3, <1>4, <1>5, <1>6, <1>7, <1>8 DEF Next

\* Whatever the library does, each pod's program is granted aligned memory of
\* its heap that it has not been granted already.
THEOREM HeapImplemented == Spec => ImplementsHeap
<1>1. Init => \A p \in Pods : Heap(p)!Init
  BY DEF Init, Heap!Init, NoProgram
<1>2. IInv /\ [Next]_vars =>
        [\A p \in Pods : [Heap(p)!Next]_<<heap[p].start, heap[p].size, heap[p].busy>>]_vars
  BY StepImplementsHeap DEF HeapStep
<1>3. QED
  BY <1>1, <1>2, ManagersGood, PTL DEF Spec, ImplementsHeap

==============================================================================
