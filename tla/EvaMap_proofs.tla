--------------------------- MODULE EvaMap_proofs ---------------------------
(***************************************************************************)
(* Endpoint virtual addresses on every machine: the two translations are   *)
(* inverse to each other for every size of stripe, pod and field, and the  *)
(* finish address of a launch reaches the host.                            *)
(***************************************************************************)
EXTENDS EvaMap, TLAPS

-----------------------------------------------------------------------------
(* The layout of pods, tiles and banks: where a coordinate belongs, and that *)
(* the identifier of a bank names it.                                       *)

\* Quotient and remainder by a divisor that is not a number.
LEMMA DivMod ==
  ASSUME NEW a \in Nat, NEW d \in Nat \ {0}
  PROVE  /\ a \div d \in Nat /\ a % d \in 0 .. d - 1
         /\ a = d * (a \div d) + (a % d)
  BY Z3

LEMMA Unique ==
  ASSUME NEW d \in Nat \ {0}, NEW q \in Nat, NEW p \in Nat,
         NEW r \in 0 .. d - 1, NEW s \in 0 .. d - 1, d * q + r = d * p + s
  PROVE  q = p /\ r = s
<1>1. ASSUME q > p PROVE FALSE
  <2>1. d * q >= d * (p + 1)
    BY <1>1
  <2>2. d * (p + 1) = d * p + d
    OBVIOUS
  <2>3. QED
    BY <2>1, <2>2
<1>2. ASSUME p > q PROVE FALSE
  <2>1. d * p >= d * (q + 1)
    BY <1>2
  <2>2. d * (q + 1) = d * q + d
    OBVIOUS
  <2>3. QED
    BY <2>1, <2>2
<1>3. q = p
  BY <1>1, <1>2
<1>4. QED
  BY <1>3

LEMMA Parts ==
  ASSUME NEW d \in Nat \ {0}, NEW q \in Nat, NEW r \in 0 .. d - 1
  PROVE  (d * q + r) \div d = q /\ (d * q + r) % d = r
<1>1. d * q \in Nat /\ d * q + r \in Nat
  OBVIOUS
<1>2. QED
  BY <1>1, Unique, DivMod

-----------------------------------------------------------------------------

\* The origin of a pod, in network pods.
LEMMA OriginType ==
  ASSUME NEW pod \in Pods
  PROVE  /\ pod = <<pod[1], pod[2]>> /\ pod[1] \in 0 .. PodsX - 1 /\ pod[2] \in 0 .. PodsY - 1
         /\ Origin(pod)[1] = Cols * (pod[1] + 1)
         /\ Origin(pod)[2] = Rows * (2 * pod[2] + 1)
         /\ Origin(pod)[1] \in Nat /\ Origin(pod)[2] \in Nat /\ Origin(pod)[2] >= Rows
<1>1. pod = <<pod[1], pod[2]>> /\ pod[1] \in Nat /\ pod[2] \in Nat
      /\ pod[1] \in 0 .. PodsX - 1 /\ pod[2] \in 0 .. PodsY - 1
  BY LayoutAssumption DEF Pods
<1>2. /\ Cols + Cols * pod[1] = Cols * (pod[1] + 1) /\ Cols * pod[1] \in Nat
      /\ Rows + 2 * Rows * pod[2] = Rows * (2 * pod[2] + 1) /\ Rows * pod[2] \in Nat
      /\ 2 * Rows * pod[2] = 2 * (Rows * pod[2])
  BY <1>1, TilesAssumption
<1>3. QED
  BY <1>1, <1>2, TilesAssumption DEF Origin

\* A coordinate by its column in a pod's columns and its network row.
LEMMA Coordinate ==
  ASSUME NEW pod \in Pods, NEW i \in 0 .. Cols - 1, NEW n \in Nat, NEW j \in 0 .. Rows - 1,
         NEW co, co = <<Origin(pod)[1] + i, Rows * n + j>>
  PROVE  NPod(co) = <<pod[1] + 1, n>> /\ TileInPod(co) = <<i, j>>
<1>1. co = <<Cols * (pod[1] + 1) + i, Rows * n + j>> /\ pod[1] + 1 \in Nat
  BY OriginType
<1>2. co[1] \div Cols = pod[1] + 1 /\ co[1] % Cols = i
  <2> DEFINE q == pod[1] + 1
  <2>1. co[1] = Cols * q + i /\ q \in Nat
    BY <1>1
  <2> HIDE DEF q
  <2>2. co[1] \div Cols = q /\ co[1] % Cols = i
    BY <2>1, Parts, TilesAssumption
  <2>3. QED
    BY <2>2 DEF q
<1>3. co[2] \div Rows = n /\ co[2] % Rows = j
  <2>1. co[2] = Rows * n + j
    BY <1>1
  <2>2. QED
    BY <2>1, Parts, TilesAssumption
<1>4. QED
  BY <1>2, <1>3 DEF NPod, TileInPod

\* A tile of a pod is in that pod, and is no bank.
LEMMA TileOfPod ==
  ASSUME NEW pod \in Pods, NEW co \in TilesOf(pod)
  PROVE  IsVcore(co) /\ ~IsDram(co) /\ PodOf(co) = pod
         /\ co \in Nat \X Nat
<1>1. PICK i \in 0 .. Cols - 1, j \in 0 .. Rows - 1 :
        co = <<Origin(pod)[1] + i, Origin(pod)[2] + j>>
  BY DEF TilesOf
<1> DEFINE n == 2 * pod[2] + 1
<1>2. n \in Nat /\ n % 2 = 1 /\ n \div 2 = pod[2]
  BY OriginType
<1>3. co = <<Origin(pod)[1] + i, Rows * n + j>>
  BY <1>1, OriginType
<1>4. NPod(co) = <<pod[1] + 1, n>>
  BY <1>2, <1>3, Coordinate
<1>5. IsVcore(co) /\ ~IsDram(co)
  BY <1>2, <1>4 DEF IsVcore, IsDram, IsNorth, IsSouth
<1>6. PodOf(co) = pod
  <2>1. PodOf(co) = <<NPod(co)[1] - 1, NPod(co)[2] \div 2>>
    BY <1>5 DEF PodOf, IsDram
  <2>2. NPod(co)[1] - 1 = pod[1] /\ NPod(co)[2] \div 2 = pod[2]
    BY <1>2, <1>4, OriginType
  <2>3. QED
    BY <2>1, <2>2, OriginType
<1>7. QED
  BY <1>1, <1>5, <1>6, OriginType, TilesAssumption

\* The bank in a column of a pod, on one of its sides.
BankAt(pod, i, south) ==
  <<Origin(pod)[1] + i, Origin(pod)[2] + (IF south THEN Rows ELSE -1)>>

LEMMA BankOfPod ==
  ASSUME NEW pod \in Pods, NEW i \in 0 .. Cols - 1, NEW south \in BOOLEAN,
         NEW co, co = BankAt(pod, i, south)
  PROVE  /\ IsSouth(co) <=> south
         /\ IsNorth(co) <=> ~south
         /\ ~IsVcore(co) /\ PodOf(co) = pod /\ TileInPod(co)[1] = i
         /\ co \in Nat \X Nat
<1> DEFINE p == pod[2]
<1>1. p \in Nat /\ Rows * (2 * p + 1) = Rows * (2 * p) + Rows
      /\ Rows * (2 * p + 2) = Rows * (2 * p) + 2 * Rows /\ Rows * (2 * p) \in Nat
      /\ Rows * (2 * p + 2) \in Nat
  BY OriginType, TilesAssumption
<1>2. CASE south
  <2> DEFINE n == 2 * p + 2
  <2>1. n \in Nat /\ n % 2 = 0 /\ (n \div 2) - 1 = p
    BY <1>1
  <2>2. co = <<Origin(pod)[1] + i, Rows * n + 0>>
    BY <1>1, <1>2, OriginType, TilesAssumption DEF BankAt
  <2>3. NPod(co) = <<pod[1] + 1, n>> /\ TileInPod(co) = <<i, 0>>
    BY <2>1, <2>2, Coordinate, TilesAssumption
  <2>4. co[2] # Host[2]
    BY <1>1, <2>2, LayoutAssumption, TilesAssumption
  <2>5. IsSouth(co) /\ ~IsNorth(co) /\ ~IsVcore(co)
    BY <2>1, <2>3, <2>4, TilesAssumption DEF IsSouth, IsNorth, IsVcore
  <2>6. PodOf(co) = pod
    BY <2>1, <2>3, <2>5, OriginType DEF PodOf
  <2>7. TileInPod(co)[1] = i
    BY <2>3
  <2>8. co \in Nat \X Nat
    BY <1>1, <2>2, OriginType, TilesAssumption
  <2>9. QED
    BY <1>2, <2>5, <2>6, <2>7, <2>8
<1>3. CASE ~south
  <2> DEFINE n == 2 * p
  <2>1. n \in Nat /\ n % 2 = 0 /\ n \div 2 = p
    BY <1>1
  <2>2. co = <<Origin(pod)[1] + i, Rows * n + (Rows - 1)>>
    BY <1>1, <1>3, OriginType, TilesAssumption DEF BankAt
  <2>3. NPod(co) = <<pod[1] + 1, n>> /\ TileInPod(co) = <<i, Rows - 1>>
    BY <2>1, <2>2, Coordinate, TilesAssumption
  <2>4. ~IsSouth(co) /\ IsNorth(co) /\ ~IsVcore(co)
    BY <2>1, <2>3, TilesAssumption DEF IsSouth, IsNorth, IsVcore
  <2>5. PodOf(co) = pod
    BY <2>1, <2>3, <2>4, OriginType DEF PodOf
  <2>6. QED
    BY <1>1, <1>3, <2>1, <2>2, <2>3, <2>4, <2>5, OriginType, TilesAssumption
<1>4. QED
  BY <1>2, <1>3

\* The identifier of a bank names it.
LEMMA BankNamed ==
  ASSUME NEW pod \in Pods, NEW i \in 0 .. Cols - 1, NEW south \in BOOLEAN
  PROVE  /\ Dram(DramId(BankAt(pod, i, south))) = BankAt(pod, i, south)
         /\ BankAt(pod, i, south) \in Banks
<1> DEFINE co == BankAt(pod, i, south)
           x == pod[1]
           y == pod[2]
           index == x * PodsY + y
           b == i + (IF south THEN Cols ELSE 0)
           id == index * (2 * Cols) + b
<1>1. /\ x \in 0 .. PodsX - 1 /\ y \in 0 .. PodsY - 1 /\ pod = <<x, y>>
      /\ PodsX \in Nat \ {0} /\ PodsY \in Nat \ {0} /\ Cols \in Nat \ {0}
  BY OriginType, LayoutAssumption, TilesAssumption
<1>2. DramId(co) = id
  <2>1. PodOf(co) = pod /\ TileInPod(co)[1] = i /\ (IsNorth(co) <=> ~south)
    BY BankOfPod
  <2> HIDE DEF co
  <2>2. QED
    <3>1. DramId(co) = (pod[1] * PodsY + pod[2]) * (2 * Cols) + i
                        + (IF IsNorth(co) THEN 0 ELSE Cols)
      BY <2>1 DEF DramId
    <3>2. QED
      BY <1>1, <2>1, <3>1
<1>3. index \in Nat /\ index \div PodsY = x /\ index % PodsY = y
  <2>1. index = PodsY * x + y /\ index \in Nat
    BY <1>1
  <2>2. QED
    BY <1>1, <2>1, Parts
<1>4. b \in 0 .. 2 * Cols - 1 /\ b % Cols = i /\ b \div Cols = IF south THEN 1 ELSE 0
  <2>1. b = Cols * (IF south THEN 1 ELSE 0) + i
    BY <1>1
  <2>2. b % Cols = i /\ b \div Cols = IF south THEN 1 ELSE 0
    <3> DEFINE s == IF south THEN 1 ELSE 0
    <3>1. s \in Nat
      OBVIOUS
    <3> HIDE DEF s
    <3>2. (Cols * s + i) % Cols = i /\ (Cols * s + i) \div Cols = s
      BY <1>1, <3>1, Parts
    <3>3. QED
      BY <2>1, <3>2 DEF s
  <2>3. QED
    BY <1>1, <2>2
<1>5. id \div (2 * Cols) = index /\ id % (2 * Cols) = b
  <2> HIDE DEF index, b
  <2>1. id = (2 * Cols) * index + b /\ 2 * Cols \in Nat \ {0}
    BY <1>1, <1>3, <1>4
  <2>2. QED
    BY <1>3, <1>4, <2>1, Parts
<1>6. Dram(id) = co
  <2> HIDE DEF index, b, id
  <2>1. QED
    BY <1>1, <1>3, <1>4, <1>5 DEF Dram, BankAt
<1>7. id \in 0 .. PodsX * PodsY * 2 * Cols - 1
  <2>1. index <= PodsX * PodsY - 1
    <3>1. x * PodsY <= (PodsX - 1) * PodsY
      BY <1>1
    <3>2. (PodsX - 1) * PodsY = PodsX * PodsY - PodsY
      BY <1>1
    <3>3. QED
      BY <1>1, <3>1, <3>2
  <2> DEFINE m == PodsX * PodsY
  <2>2. m \in Nat /\ m * (2 * Cols) = PodsX * PodsY * 2 * Cols
    BY <1>1
  <2> HIDE DEF m, index, b
  <2>3. index <= m - 1
    BY <2>1 DEF m
  <2>4. index * (2 * Cols) <= (m - 1) * (2 * Cols) /\ index * (2 * Cols) \in Nat
    BY <1>1, <1>3, <2>2, <2>3
  <2>5. (m - 1) * (2 * Cols) = m * (2 * Cols) - 2 * Cols
    BY <1>1, <2>2
  <2>6. id \in Nat /\ id <= m * (2 * Cols) - 1
    BY <1>1, <1>4, <2>2, <2>4, <2>5
  <2>7. QED
    BY <1>1, <2>2, <2>6
<1>8. QED
  BY <1>2, <1>6, <1>7 DEF Banks

\* Every identifier is that of a bank of some pod.
LEMMA DramIsBank ==
  ASSUME NEW id \in 0 .. PodsX * PodsY * 2 * Cols - 1
  PROVE  \E pod \in Pods, i \in 0 .. Cols - 1, south \in BOOLEAN :
           Dram(id) = BankAt(pod, i, south)
<1> DEFINE d == 2 * Cols
           m == PodsX * PodsY
           index == id \div d
           x == index \div PodsY
           y == index % PodsY
           bank == id % d
           i == bank % Cols
<1>1. /\ PodsX \in Nat \ {0} /\ PodsY \in Nat \ {0} /\ Cols \in Nat \ {0} /\ m \in Nat
      /\ d \in Nat \ {0} /\ m * d = PodsX * PodsY * 2 * Cols /\ id \in Nat
  BY LayoutAssumption, TilesAssumption
<1> HIDE DEF d, m
<1>2. index \in Nat /\ bank \in 0 .. d - 1 /\ id = d * index + bank
  BY <1>1, DivMod
<1> HIDE DEF index, bank
<1>3. x \in Nat /\ y \in 0 .. PodsY - 1 /\ index = PodsY * x + y
  BY <1>1, <1>2, DivMod
<1>4. index < m
  <2>1. ASSUME index >= m PROVE FALSE
    <3>1. d * index >= d * m
      BY <1>1, <1>2, <2>1
    <3>2. d * m = m * d
      BY <1>1
    <3>3. QED
      BY <1>1, <1>2, <3>1, <3>2
  <2>2. QED
    BY <1>1, <1>2, <2>1
<1> HIDE DEF x, y
<1>5. x \in 0 .. PodsX - 1
  <2>1. ASSUME x >= PodsX PROVE FALSE
    <3>1. PodsY * x >= PodsY * PodsX
      BY <1>1, <1>3, <2>1
    <3>2. QED
      BY <1>1, <1>3, <1>4, <3>1 DEF m
  <2>2. QED
    BY <1>1, <1>3, <2>1
<1>6. bank \in Nat
  BY <1>1, <1>2
<1>7. i \in 0 .. Cols - 1
  BY <1>1, <1>6, DivMod
<1>8. <<x, y>> \in Pods
  BY <1>3, <1>5 DEF Pods
<1>9. Dram(id) = BankAt(<<x, y>>, i, bank \div Cols = 1)
  BY DEF Dram, BankAt, d, index, bank, x, y
<1>10. QED
  BY <1>7, <1>8, <1>9

-----------------------------------------------------------------------------
(* The translations of addresses.                                           *)

\* An address the place is translated to, translated again, is the same place.
ThereAndBack(org, src, npa) ==
  \E f \in NpaToEva(src, npa) : \E u \in EvaToNpa(org, src, f) : u.npa = npa

LEMMA Positive ==
  ASSUME NEW a \in Nat \ {0}, NEW b \in Nat \ {0}
  PROVE  a * b \in Nat \ {0}
  OBVIOUS

LEMMA BitsType ==
  /\ Stripe \in Nat \ {0} /\ Cols \in Nat \ {0}
  /\ Stripe * Cols \in Nat \ {0} /\ 2 * Stripe * Cols \in Nat \ {0}
  /\ EpaSpan * GroupXs \in Nat \ {0} /\ GlobalEpaSpan * GlobalXs \in Nat \ {0}
  /\ GroupBit \in Nat \ {0} /\ GlobalBit \in Nat \ {0} /\ DramBit \in Nat \ {0}
  /\ DramBit = 2 * GlobalBit /\ GlobalBit = GlobalEpaSpan * GlobalXs * GlobalYs
<1>1. Stripe * Cols \in Nat \ {0}
  BY Positive, SizesAssumption, TilesAssumption
<1>2. 2 * Stripe * Cols = 2 * (Stripe * Cols)
  BY SizesAssumption, TilesAssumption
<1>3. EpaSpan * GroupXs \in Nat \ {0} /\ GlobalEpaSpan * GlobalXs \in Nat \ {0}
  BY Positive, SizesAssumption
<1>4. GroupBit \in Nat \ {0}
  <2>1. EpaSpan * GroupXs * GroupYs \in Nat \ {0}
    BY <1>3, Positive, SizesAssumption
  <2>2. QED
    BY <2>1 DEF GroupBit
<1>5. GlobalBit = 2 * GroupBit /\ DramBit = 4 * GroupBit
  BY GeometryAssumption DEF DramBit
<1>6. QED
  BY <1>1, <1>2, <1>3, <1>4, <1>5, SizesAssumption, TilesAssumption DEF GlobalBit

-----------------------------------------------------------------------------
(* Addresses of DRAM.                                                      *)

\* The word of an address by its fields: the row of stripes h, the side s, the
\* column i and the word r of the stripe.
Fielded(h, s, i, r) == (2 * Stripe * Cols) * h + (Stripe * Cols) * s + Stripe * i + r

\* Every number of words has these fields.
LEMMA FieldsOf ==
  ASSUME NEW m \in Nat
  PROVE  \E h \in Nat, s \in {0, 1}, i \in 0 .. Cols - 1, r \in 0 .. Stripe - 1 :
           m = Fielded(h, s, i, r)
<1> DEFINE SC == Stripe * Cols
           h == m \div (2 * SC)
           w == m % (2 * SC)
           s == w \div SC
           v == w % SC
           i == v \div Stripe
           r == v % Stripe
<1>1. SC \in Nat \ {0} /\ 2 * SC \in Nat \ {0} /\ Stripe \in Nat \ {0} /\ Cols \in Nat \ {0}
      /\ 2 * Stripe * Cols = 2 * SC
  BY BitsType
<1> HIDE DEF SC
<1>2. h \in Nat /\ w \in 0 .. 2 * SC - 1 /\ m = 2 * SC * h + w
  BY <1>1, DivMod
<1> HIDE DEF h, w
<1>3. s \in Nat /\ v \in 0 .. SC - 1 /\ v \in Nat /\ w = SC * s + v
  <2>1. w \in Nat /\ SC \in Nat \ {0}
    BY <1>1, <1>2
  <2>2. s \in Nat /\ v \in 0 .. SC - 1 /\ w = SC * s + v
    BY ONLY <2>1, DivMod
  <2>3. QED
    BY <2>1, <2>2
<1> HIDE DEF s, v
<1>4. i \in Nat /\ r \in 0 .. Stripe - 1 /\ v = Stripe * i + r
  BY <1>1, <1>3, DivMod
<1> HIDE DEF i, r
<1>5. s \in {0, 1}
  <2>1. ASSUME s >= 2 PROVE FALSE
    <3>1. SC * s >= SC * 2
      BY <1>1, <1>3, <2>1
    <3>2. QED
      BY <1>1, <1>2, <1>3, <3>1
  <2>2. QED
    BY <1>3, <2>1
<1>6. i \in 0 .. Cols - 1
  <2>1. ASSUME i >= Cols PROVE FALSE
    <3>1. Stripe * i >= Stripe * Cols
      BY <1>1, <1>4, <2>1
    <3>2. QED
      BY <1>1, <1>3, <1>4, <3>1 DEF SC
  <2>2. QED
    BY <1>1, <1>4, <2>1
<1>7. m = 2 * SC * h + SC * s + Stripe * i + r
  BY <1>1, <1>2, <1>3, <1>4
<1>8. m = Fielded(h, s, i, r)
  BY <1>1, <1>7 DEF Fielded, SC
<1>9. QED
  BY <1>2, <1>4, <1>5, <1>6, <1>8

\* What divisions and remainders find in the fields.
LEMMA Fields1 ==
  ASSUME NEW h \in Nat, NEW s \in {0, 1}, NEW i \in 0 .. Cols - 1, NEW r \in 0 .. Stripe - 1,
         NEW e, e = Fielded(h, s, i, r)
  PROVE  /\ e \in Nat /\ e % Stripe = r /\ (e \div Stripe) % Cols = i
         /\ (e \div (Stripe * Cols)) % 2 = s /\ e \div (2 * Stripe * Cols) = h
<1> DEFINE SC == Stripe * Cols
           n == 2 * h + s
           k == Cols * n + i
           v == Stripe * i + r
           w == SC * s + v
<1>1. SC \in Nat \ {0} /\ Stripe \in Nat \ {0} /\ Cols \in Nat \ {0}
      /\ 2 * Stripe * Cols = 2 * SC /\ 2 * SC \in Nat \ {0}
  BY BitsType
<1>2. n \in Nat /\ n % 2 = s
  OBVIOUS
<1>3. Cols * n \in Nat /\ k \in Nat /\ k % Cols = i
  <2> HIDE DEF n
  <2>1. Cols * n \in Nat
    BY <1>1, <1>2
  <2>2. (Cols * n + i) % Cols = i
    BY <1>1, <1>2, Parts
  <2>3. QED
    BY <1>1, <2>1, <2>2
<1>4. v \in 0 .. SC - 1
  <2>1. Stripe * i <= Stripe * (Cols - 1) /\ Stripe * i \in Nat
    BY <1>1
  <2>2. Stripe * (Cols - 1) = Stripe * Cols - Stripe
    BY <1>1
  <2>3. QED
    BY <1>1, <2>1, <2>2
<1>5. w \in 0 .. 2 * SC - 1
  <2> HIDE DEF SC, v
  <2>1. s = 0 \/ s = 1
    OBVIOUS
  <2>2. SC * 0 = 0 /\ SC * 1 = SC
    BY <1>1
  <2>3. QED
    BY <1>1, <1>4, <2>1, <2>2
<1>6. e = 2 * SC * h + w
  <2>1. e = 2 * SC * h + SC * s + Stripe * i + r
    BY <1>1 DEF Fielded
  <2>2. QED
    BY <1>1, <2>1
<1>7. e = SC * n + v
  BY <1>1, <1>6
<1>8. e = Stripe * k + r
  BY <1>1, <1>7
<1>9. e % Stripe = r /\ e \div Stripe = k
  <2> HIDE DEF k
  <2>1. QED
    BY <1>1, <1>3, <1>8, Parts
<1>10. e \div SC = n
  <2> HIDE DEF n, v, SC
  <2>1. QED
    BY <1>1, <1>2, <1>4, <1>7, Parts
<1>11. e \div (2 * SC) = h
  <2> HIDE DEF w, SC
  <2> DEFINE d == 2 * SC
  <2>1. d \in Nat \ {0} /\ w \in 0 .. d - 1 /\ e = d * h + w
    BY <1>1, <1>5, <1>6
  <2> HIDE DEF d
  <2>2. e \div d = h
    BY <2>1, Parts
  <2>3. QED
    BY <2>2 DEF d
<1>12. e \in Nat
  <2> HIDE DEF k
  <2>1. Stripe * k \in Nat
    BY <1>1, <1>3
  <2>2. QED
    BY <1>8, <2>1
<1>13. QED
  BY <1>1, <1>2, <1>3, <1>9, <1>10, <1>11, <1>12

\* Where a word of the DRAM lies, by its fields.
LEMMA DramOf ==
  ASSUME NEW h \in Nat, NEW s \in {0, 1}, NEW i \in 0 .. Cols - 1, NEW r \in 0 .. Stripe - 1,
         NEW q \in Nat, NEW e, e = DramBit * q + Fielded(h, s, i, r),
         Fielded(h, s, i, r) < DramBit, NEW src
  PROVE  /\ DramBank(src, e) = BankAt(PodOf(src), i, s = 1)
         /\ DramEpa(e) = r + Stripe * h
         /\ e \div DramBit = q
<1> DEFINE m == Fielded(h, s, i, r)
           D == DramBit \div (2 * Stripe * Cols)
           n == D * q + h
<1>1. m \in 0 .. DramBit - 1 /\ m \div (2 * Stripe * Cols) = h
  <2>1. m \in Nat /\ m \div (2 * Stripe * Cols) = h
    BY Fields1
  <2>2. DramBit \in Nat /\ m < DramBit
    BY BitsType
  <2> HIDE DEF m
  <2>3. QED
    BY <2>1, <2>2
<1>2. e % DramBit = m /\ e \div DramBit = q
  <2>1. e = DramBit * q + m /\ DramBit \in Nat \ {0}
    BY BitsType
  <2> HIDE DEF m
  <2>2. QED
    BY ONLY q \in Nat, <1>1, <2>1, Parts
<1>3. D \in Nat /\ DramBit = (2 * Stripe * Cols) * D
  <2> DEFINE T == 2 * Stripe * Cols
  <2>1. T \in Nat \ {0} /\ DramBit \in Nat /\ DramBit % T = 0
    BY BitsType, SizesAssumption
  <2> HIDE DEF T
  <2>2. DramBit \div T \in Nat /\ DramBit = T * (DramBit \div T) + 0
    BY ONLY <2>1, DivMod
  <2>3. T * (DramBit \div T) \in Nat
    BY <2>1, <2>2
  <2>4. QED
    BY <2>2, <2>3 DEF T
<1>4. n \in Nat
  <2> HIDE DEF D
  <2>1. QED
    BY <1>3
<1>5. e = Fielded(n, s, i, r)
  <2> DEFINE T == 2 * Stripe * Cols
             w == (Stripe * Cols) * s + Stripe * i + r
  <2>1. T \in Nat /\ w \in Nat /\ D \in Nat /\ DramBit = T * D
    BY <1>3, BitsType
  <2>2. m = T * h + w
    BY <2>1, BitsType DEF Fielded
  <2>3. Fielded(n, s, i, r) = T * n + w
    BY <1>4, <2>1, BitsType DEF Fielded
  <2> HIDE DEF T, w, D, m
  <2>4. T * (D * q + h) = (T * D) * q + T * h
    BY <2>1
  <2>5. QED
    BY <2>1, <2>2, <2>3, <2>4 DEF m
<1>6. /\ e % Stripe = r /\ (e \div Stripe) % Cols = i
      /\ (e \div (Stripe * Cols)) % 2 = s
  <2> HIDE DEF n
  <2>1. QED
    BY <1>4, <1>5, Fields1
<1>7. DramBank(src, e) = BankAt(PodOf(src), i, s = 1)
  BY <1>6 DEF DramBank, BankAt
<1>8. DramEpa(e) = r + Stripe * h
  BY <1>1, <1>2, <1>6 DEF DramEpa
<1>9. QED
  BY <1>2, <1>7, <1>8

\* A word of DRAM, seen from a tile, is translated back to an address of the
\* same word in the bank of the same identifier, in the tile's own pod.
LEMMA DramRoundTrip ==
  ASSUME NEW src \in Tiles, NEW e \in Nat, HasBit(e, DramBit), NEW org,
         dramEnabled \in BOOLEAN, NEW t \in EvaDram(src, e)
  PROVE  /\ t.npa.xy \in Banks
         /\ ThereAndBack(org, src, t.npa)
         /\ Dram(DramId(t.npa.xy)) = t.npa.xy
         /\ src \in TilesOf(PodOf(t.npa.xy))
<1> DEFINE m == e % DramBit
           q == e \div DramBit
<1>1. q \in Nat /\ m \in Nat /\ m < DramBit /\ e = DramBit * q + m
  <2>1. DramBit \in Nat \ {0}
    BY BitsType
  <2>2. q \in Nat /\ m \in 0 .. DramBit - 1 /\ e = DramBit * q + m
    BY ONLY e \in Nat, <2>1, DivMod
  <2>3. QED
    BY <2>1, <2>2
<1>2. PICK h \in Nat, s \in {0, 1}, i \in 0 .. Cols - 1, r \in 0 .. Stripe - 1 :
        m = Fielded(h, s, i, r)
  BY <1>1, FieldsOf
<1>3. PICK pod \in Pods : src \in TilesOf(pod)
  BY DEF Tiles
<1>4. PodOf(src) = pod
  BY <1>3, TileOfPod
<1> DEFINE co == BankAt(pod, i, s = 1)
           epa == r + Stripe * h
           f == DramBit + m
<1>5. t.npa = Npa(co, epa) /\ epa \in 0 .. BankLimit - 1
  <2> HIDE DEF m, q
  <2>1. DramBank(src, e) = co /\ DramEpa(e) = epa
    BY <1>1, <1>2, <1>4, DramOf
  <2>2. QED
    BY <2>1 DEF EvaDram, Npa
<1>6. t.npa.xy = co /\ t.npa.epa = epa
  BY <1>5 DEF Npa
<1>7. /\ IsSouth(co) <=> (s = 1)
      /\ IsDram(co) /\ PodOf(co) = pod
  <2>1. (s = 1) \in BOOLEAN
    OBVIOUS
  <2>2. QED
    BY <2>1, BankOfPod DEF IsDram
<1>8. Dram(DramId(co)) = co /\ co \in Banks
  <2>1. (s = 1) \in BOOLEAN
    OBVIOUS
  <2>2. QED
    BY <2>1, BankNamed
<1>9. co[1] = Origin(pod)[1] + i /\ Origin(pod)[1] \in Nat
  BY OriginType DEF BankAt
<1>10. NpaIsDram(src, t.npa)
  <2>1. DramEpaIsValid(epa)
    BY <1>5, SizesAssumption DEF DramEpaIsValid, BankLimit
  <2>2. co[1] \in Origin(pod)[1] .. Origin(pod)[1] + Cols - 1
    BY <1>9, BitsType
  <2> HIDE DEF co, epa
  <2>3. QED
    BY <1>4, <1>6, <1>7, <2>1, <2>2 DEF NpaIsDram
<1>11. NpaToEvaDram(src, t.npa) = f
  <2>1. Stripe * h \in Nat /\ epa = Stripe * h + r
    BY BitsType
  <2>2. epa % Stripe = r /\ epa \div Stripe = h
    <3> HIDE DEF epa
    <3>1. QED
      BY <2>1, BitsType, Parts
  <2>3. (IF IsSouth(co) THEN 1 ELSE 0) = s
    BY <1>7
  <2>4. co[1] - Origin(PodOf(src))[1] = i
    BY <1>4, <1>9
  <2> HIDE DEF co, epa, m
  <2>5. NpaToEvaDram(src, t.npa)
          = DramBit + r + Stripe * i + Stripe * Cols * s + 2 * Stripe * Cols * h
    BY <1>6, <2>2, <2>3, <2>4 DEF NpaToEvaDram
  <2>6. QED
    BY <1>2, <2>5, BitsType DEF Fielded
<1>12. f \in NpaToEva(src, t.npa)
  BY <1>10, <1>11 DEF NpaToEva
<1>13. DramBank(src, f) = co /\ DramEpa(f) = epa /\ f \div DramBit = 1
  <2>1. f = DramBit * 1 + Fielded(h, s, i, r) /\ Fielded(h, s, i, r) < DramBit
    BY <1>1, <1>2, BitsType
  <2> HIDE DEF f
  <2>2. QED
    BY <1>4, <2>1, DramOf
<1>14. \E u \in EvaToNpa(org, src, f) : u.npa = t.npa
  <2>1. HasBit(f, DramBit)
    BY <1>13 DEF HasBit
  <2>2. [npa |-> Npa(co, epa), sz |-> Stripe - (f % Stripe)] \in EvaDram(src, f)
    BY <1>5, <1>13 DEF EvaDram
  <2>3. QED
    BY <1>5, <2>1, <2>2 DEF EvaToNpa
<1>15. QED
  BY <1>3, <1>6, <1>7, <1>8, <1>12, <1>14 DEF ThereAndBack

-----------------------------------------------------------------------------
(* Addresses of tiles.                                                     *)

\* The global address of a word of a coordinate, taken apart again.
LEMMA GlobalOf ==
  ASSUME NEW co \in Nat \X Nat, co[1] < GlobalXs, co[2] < GlobalYs,
         NEW epa \in Nat, epa < GlobalEpaSpan,
         NEW f, f = NpaToEvaGlobal(Npa(co, epa))
  PROVE  /\ f \in Nat /\ ~HasBit(f, DramBit) /\ HasBit(f, GlobalBit)
         /\ GlobalXY(f) = co /\ f % GlobalEpaSpan = epa
<1> DEFINE G == GlobalEpaSpan
           X == GlobalXs
           Y == GlobalYs
           x == co[1]
           y == co[2]
           GX == G * X
           v == G * x + epa
           w == GX * y + v
           n == Y + y
           k == X * n + x
<1>1. /\ G \in Nat \ {0} /\ X \in Nat \ {0} /\ Y \in Nat \ {0} /\ GX \in Nat \ {0}
      /\ GlobalBit = GX * Y /\ GlobalBit \in Nat \ {0} /\ DramBit = 2 * GlobalBit
  BY BitsType, SizesAssumption
<1>2. x \in 0 .. X - 1 /\ y \in 0 .. Y - 1 /\ co = <<x, y>> /\ epa \in 0 .. G - 1
  BY <1>1
<1>3. f = GX * Y + epa + G * x + GX * y
  <2>1. epa \div G = 0 /\ epa % G = epa
    <3>1. epa = G * 0 + epa
      BY <1>1
    <3>2. QED
      BY <1>1, <1>2, <3>1, Parts
  <2>2. f = GlobalBit + epa + G * x + GX * y
    BY <1>2, <2>1 DEF NpaToEvaGlobal, Npa
  <2>3. QED
    BY <1>1, <2>2
<1>4. v \in 0 .. GX - 1
  <2>1. G * x <= G * (X - 1) /\ G * x \in Nat
    BY <1>1, <1>2
  <2>2. G * (X - 1) = G * X - G
    BY <1>1
  <2>3. QED
    BY <1>1, <1>2, <2>1, <2>2
<1>5. w \in 0 .. GlobalBit - 1
  <2> HIDE DEF GX, v
  <2>1. GX * y <= GX * (Y - 1) /\ GX * y \in Nat
    BY <1>1, <1>2
  <2>2. GX * (Y - 1) = GX * Y - GX
    BY <1>1
  <2>3. QED
    BY <1>1, <1>4, <2>1, <2>2
<1>6. f = GlobalBit * 1 + w
  <2> HIDE DEF GX
  <2>1. QED
    BY <1>1, <1>2, <1>3
<1>7. f = GX * n + v /\ n \in Nat
  <2> HIDE DEF GX
  <2>1. QED
    BY <1>1, <1>2, <1>3
<1>8. f = G * k + epa /\ k \in Nat
  <2>1. X * n \in Nat
    BY <1>1, <1>7
  <2>2. G * (X * n + x) = (G * X) * n + G * x
    BY <1>1, <1>2, <1>7
  <2>3. QED
    BY <1>1, <1>2, <1>7, <2>1, <2>2
<1>9. f \div GlobalBit = 1 /\ f \in Nat
  <2> HIDE DEF w
  <2>1. QED
    BY <1>1, <1>5, <1>6, Parts
<1>10. f \div DramBit = 0
  <2>1. f = DramBit * 0 + f /\ f \in 0 .. DramBit - 1
    <3> HIDE DEF w
    <3>1. QED
      BY <1>1, <1>5, <1>6
  <2>2. QED
    BY <1>1, <2>1, Parts
<1>11. f \div GX = n /\ n % Y = y
  <2>1. f \div GX = n
    <3> HIDE DEF GX, n, v
    <3>1. QED
      BY <1>1, <1>4, <1>7, Parts
  <2>2. n = Y * 1 + y
    BY <1>1
  <2>3. QED
    BY <1>1, <1>2, <2>1, <2>2, Parts
<1>12. f \div G = k /\ f % G = epa /\ k % X = x
  <2>1. f \div G = k /\ f % G = epa
    <3> HIDE DEF k
    <3>1. QED
      BY <1>1, <1>2, <1>8, Parts
  <2>2. k % X = x
    <3> HIDE DEF n
    <3>1. QED
      BY <1>1, <1>2, <1>7, Parts
  <2>3. QED
    BY <2>1, <2>2
<1>13. GlobalXY(f) = co
  BY <1>2, <1>11, <1>12 DEF GlobalXY
<1>14. QED
  BY <1>9, <1>10, <1>12, <1>13 DEF HasBit

\* No tile lies where a bank does.
LEMMA BanksApart ==
  ASSUME NEW co \in Tiles
  PROVE  co \notin Banks /\ co \in Nat \X Nat /\ IsVcore(co) /\ ~IsDram(co)
<1>1. co \in Nat \X Nat /\ IsVcore(co) /\ ~IsDram(co)
  BY TileOfPod DEF Tiles
<1>2. ASSUME co \in Banks PROVE FALSE
  <2>1. PICK id \in 0 .. PodsX * PodsY * 2 * Cols - 1 : co = Dram(id)
    BY <1>2 DEF Banks
  <2>2. PICK pod \in Pods, i \in 0 .. Cols - 1, south \in BOOLEAN : co = BankAt(pod, i, south)
    BY <2>1, DramIsBank
  <2>3. QED
    BY <1>1, <2>2, BankOfPod
<1>3. QED
  BY <1>1, <1>2

\* A word of a tile's memory is translated back to an address of the same word.
LEMMA TileRoundTrip ==
  ASSUME NEW src \in Tiles, NEW co \in Tiles, NEW a \in Nat, NEW org,
         NEW t \in EvaTile(co, a)
  PROVE  /\ t.npa.xy \notin Banks
         /\ t.npa.epa = a
         /\ a < DmemWords =>
              ThereAndBack(org, src, t.npa)
<1>1. t.npa = Npa(co, a) /\ t.npa.xy = co /\ t.npa.epa = a
  BY DEF EvaTile, Npa
<1>2. t.npa.xy \notin Banks
  BY <1>1, BanksApart
<1>3. ASSUME a < DmemWords
      PROVE  ThereAndBack(org, src, t.npa)
  <2> DEFINE f == NpaToEvaGlobal(Npa(co, a))
  <2>1. f \in NpaToEva(src, t.npa)
    <3>1. ~NpaIsDram(src, t.npa)
      BY <1>1, BanksApart DEF NpaIsDram
    <3>2. NpaIsGlobal(t.npa)
      BY <1>1, <1>3, BanksApart DEF NpaIsGlobal, LocalEpaIsValid
    <3>3. QED
      BY <1>1, <3>1, <3>2 DEF NpaToEva
  <2>2. a < GlobalEpaSpan
    BY <1>3, GeometryAssumption, SizesAssumption
  <2>3. co[1] < GlobalXs /\ co[2] < GlobalYs /\ co \in Nat \X Nat
    BY BanksApart, MeshAssumption
  <2> HIDE DEF f
  <2>4. ~HasBit(f, DramBit) /\ HasBit(f, GlobalBit) /\ GlobalXY(f) = co /\ f % GlobalEpaSpan = a
    BY <2>2, <2>3, GlobalOf DEF f
  <2>5. [npa |-> Npa(co, a), sz |-> DmemWords - a] \in EvaToNpa(org, src, f)
    BY <1>3, <2>4 DEF EvaToNpa, EvaGlobal, EvaTile
  <2>6. QED
    BY <1>1, <2>1, <2>5 DEF ThereAndBack
<1>4. QED
  BY <1>1, <1>2, <1>3

-----------------------------------------------------------------------------
(* The calls.                                                              *)

\* A request of the program after d of its words.
Advanced(r, d) ==
  [kind |-> r.kind, dma |-> r.dma, org |-> r.org, src |-> r.src,
   eva |-> r.eva + d, sz |-> r.sz - d, done |-> d]

Launched(tile, group) ==
  [kind |-> "launch", src |-> tile, group |-> group,
   eva |-> NpaToEvaGlobal(Npa(Host, FinishBase + group))]

\* A call is a request that has moved some of its words, or a launch whose
\* finish address is the global one of the host.
CallInv ==
  \/ call = NoCall
  \/ \E r \in Requests : \E d \in 0 .. r.sz : call = Advanced(r, d)
  \/ \E tile \in Tiles, group \in 0 .. MaxGroups - 1 : call = Launched(tile, group)

Inv == TypeOK /\ CallInv

\* The host is no bank, so its addresses are global ones.
LEMMA HostAddress ==
  ASSUME NEW tile \in Tiles, NEW group \in 0 .. MaxGroups - 1,
         NEW e \in NpaToEva(tile, Npa(Host, FinishBase + group))
  PROVE  e = NpaToEvaGlobal(Npa(Host, FinishBase + group))
<1>1. ~IsDram(Host)
  <2>1. TileInPod(Host)[2] # Rows - 1
    <3>1. 0 = Rows * 0 + 0 /\ Rows - 1 # 0 /\ 0 \in 0 .. Rows - 1
      BY TilesAssumption
    <3>2. 0 % Rows = 0
      BY <3>1, Parts, TilesAssumption
    <3>3. QED
      BY <3>1, <3>2, LayoutAssumption DEF TileInPod
  <2>2. QED
    BY <2>1 DEF IsDram, IsNorth, IsSouth
<1>2. QED
  BY <1>1 DEF NpaToEva, NpaIsDram, Npa

\* What an address is translated to goes on for a number of words.
LEMMA SizesType ==
  ASSUME NEW src, NEW org, NEW e \in Nat, NEW t \in EvaToNpa(org, src, e)
  PROVE  t.sz \in Nat
<1>1. ASSUME NEW co, NEW a \in Nat, NEW u \in EvaTile(co, a) PROVE u.sz \in Nat
  BY <1>1, SizesAssumption DEF EvaTile
<1>2. e % GlobalEpaSpan \in Nat /\ e % EpaSpan \in Nat /\ e % Stripe \in 0 .. Stripe - 1
      /\ Stripe \in Nat
  <2>1. GlobalEpaSpan \in Nat \ {0} /\ EpaSpan \in Nat \ {0} /\ Stripe \in Nat \ {0}
    BY SizesAssumption
  <2>2. e % GlobalEpaSpan \in 0 .. GlobalEpaSpan - 1
    BY ONLY e \in Nat, <2>1, DivMod
  <2>3. e % EpaSpan \in 0 .. EpaSpan - 1
    BY ONLY e \in Nat, <2>1, DivMod
  <2>4. e % Stripe \in 0 .. Stripe - 1
    BY ONLY e \in Nat, <2>1, DivMod
  <2>5. QED
    BY <2>1, <2>2, <2>3, <2>4
<1>3. CASE t \in EvaDram(src, e)
  BY <1>2, <1>3 DEF EvaDram
<1>4. CASE t \in EvaGlobal(e)
  BY <1>1, <1>2, <1>4 DEF EvaGlobal
<1>5. CASE t \in EvaGroup(org, e)
  <2>1. t \in EvaTile(GroupXY(org, e), e % EpaSpan)
    BY <1>5 DEF EvaGroup
  <2>2. QED
    BY <1>1, <1>2, <2>1
<1>6. CASE t \in EvaLocal(src, e)
  BY <1>1, <1>6 DEF EvaLocal
<1>7. QED
  BY <1>3, <1>4, <1>5, <1>6 DEF EvaToNpa

\* The strengthened invariant holds in every state.
LEMMA InvInit == Init => Inv
<1> SUFFICES ASSUME Init PROVE Inv
  OBVIOUS
<1>1. TypeOK
  BY SizesAssumption DEF Init, TypeOK, NoCall
<1>2. QED
  BY <1>1 DEF Init, Inv, CallInv

LEMMA InvNext == Inv /\ [Next]_vars => Inv'
<1> SUFFICES ASSUME Inv, [Next]_vars PROVE Inv'
  OBVIOUS
<1> USE DEF Inv
<1>1. ASSUME NEW on \in BOOLEAN, SetDram(on) PROVE Inv'
  BY <1>1 DEF SetDram, TypeOK, CallInv
<1>2. ASSUME NEW r \in Requests, Start(r) PROVE Inv'
  <2>1. r.kind \in {"read", "write", "memset"} /\ r.eva \in Nat /\ r.sz \in Nat
    BY RequestsAssumption
  <2>2. call' = Advanced(r, 0)
    BY <1>2, <2>1 DEF Start, Advanced
  <2>3. CallInv'
    BY <2>1, <2>2 DEF CallInv
  <2>4. TypeOK'
    <3>1. call'.kind = r.kind /\ call'.sz = r.sz
      BY <1>2 DEF Start
    <3>2. calls' \in 0 .. MaxCalls /\ UNCHANGED <<mem, dramEnabled>>
      BY <1>2, SizesAssumption DEF Start, TypeOK
    <3>3. QED
      BY <2>1, <3>1, <3>2 DEF TypeOK
  <2>5. QED
    BY <2>3, <2>4
<1>3. CASE Chunk
  <2>0. PICK r \in Requests : \E d \in 0 .. r.sz : call = Advanced(r, d)
    BY <1>3 DEF Chunk, CallInv, NoCall, Launched
  <2>1. PICK d \in 0 .. r.sz : call = Advanced(r, d)
    BY <2>0
  <2>2. r.kind \in {"read", "write", "memset"} /\ r.eva \in Nat /\ r.sz \in Nat /\ d \in Nat
    BY RequestsAssumption
  <2>3. PICK t \in Translated :
          LET xfer == MinSize(call.sz, t.sz)
              cells == CellsFrom(t.npa, xfer)
          IN /\ call' = [call EXCEPT !.eva = @ + xfer, !.sz = @ - xfer, !.done = @ + xfer]
             /\ IF call.kind = "read"
                THEN UNCHANGED mem
                ELSE mem' = [c \in Cells |->
                       IF \E i \in 1 .. xfer : cells[i] = c
                       THEN Word(call.kind, call.done + CHOOSE i \in 1 .. xfer : cells[i] = c)
                       ELSE mem[c]]
    BY <1>3 DEF Chunk
  <2> DEFINE xfer == MinSize(call.sz, t.sz)
             cells == CellsFrom(t.npa, xfer)
  <2>4. t.sz \in Nat /\ call.sz \in Nat /\ call.sz = r.sz - d
    <3>1. t.sz \in Nat
      BY <2>1, <2>2, SizesType DEF Translated, Advanced
    <3>2. QED
      BY <2>1, <2>2, <3>1 DEF Advanced
  <2>5. xfer \in 0 .. call.sz
    BY <2>4 DEF MinSize
  <2> HIDE DEF xfer
  <2>6. call' = Advanced(r, d + xfer) /\ d + xfer \in 0 .. r.sz
    <3>1. call' = [call EXCEPT !.eva = @ + xfer, !.sz = @ - xfer, !.done = @ + xfer]
      BY <2>3 DEF xfer
    <3>2. d + xfer \in 0 .. r.sz
      BY <2>2, <2>4, <2>5
    <3>3. (r.eva + d) + xfer = r.eva + (d + xfer) /\ (r.sz - d) - xfer = r.sz - (d + xfer)
      BY <2>2, <2>4, <2>5
    <3>4. QED
      BY <2>1, <3>1, <3>2, <3>3 DEF Advanced
  <2>7. CallInv'
    BY <2>6 DEF CallInv
  <2>8. mem' \in [Cells -> Int]
    <3> HIDE DEF cells
    <3>1. CASE call.kind = "read"
      BY <2>3, <3>1 DEF TypeOK
    <3>2. CASE call.kind # "read"
      <4>1. mem' = [c \in Cells |->
                      IF \E i \in 1 .. xfer : cells[i] = c
                      THEN Word(call.kind, call.done + CHOOSE i \in 1 .. xfer : cells[i] = c)
                      ELSE mem[c]]
        BY <2>3, <3>2 DEF xfer, cells
      <4>2. ASSUME NEW c \in Cells, \E i \in 1 .. xfer : cells[i] = c
            PROVE  Word(call.kind, call.done + CHOOSE i \in 1 .. xfer : cells[i] = c) \in Int
        <5>1. (CHOOSE i \in 1 .. xfer : cells[i] = c) \in 1 .. xfer
          BY <4>2
        <5>2. call.done \in Nat
          BY <2>1, <2>2 DEF Advanced
        <5>3. QED
          BY <5>1, <5>2 DEF Word, Filler
      <4>3. ASSUME NEW c \in Cells PROVE mem[c] \in Int
        BY <4>3 DEF TypeOK
      <4> DEFINE new(c) == IF \E i \in 1 .. xfer : cells[i] = c
                      THEN Word(call.kind, call.done + CHOOSE i \in 1 .. xfer : cells[i] = c)
                      ELSE mem[c]
      <4>4. \A c \in Cells : new(c) \in Int
        BY <4>2, <4>3
      <4>5. mem' = [c \in Cells |-> new(c)]
        BY <4>1
      <4> HIDE DEF new
      <4>6. QED
        BY <4>4, <4>5
    <3>3. QED
      BY <3>1, <3>2
  <2>9. call'.kind = r.kind /\ call'.sz \in Nat
    BY <2>2, <2>6 DEF Advanced
  <2>10. TypeOK'
    <3>1. UNCHANGED <<dramEnabled, calls>>
      BY <1>3 DEF Chunk
    <3>2. QED
      BY <2>2, <2>8, <2>9, <3>1 DEF TypeOK
  <2>11. QED
    BY <2>7, <2>10
<1>4. CASE Return
  BY <1>4 DEF Return, TypeOK, CallInv, NoCall
<1>5. ASSUME NEW tile \in Tiles, NEW group \in 0 .. MaxGroups - 1, Launch(tile, group)
      PROVE  Inv'
  <2>1. call' = Launched(tile, group)
    BY <1>5, HostAddress DEF Launch, Launched
  <2>2. CallInv'
    BY <2>1 DEF CallInv
  <2>3. TypeOK'
    BY <1>5, <2>1, SizesAssumption DEF Launch, Launched, TypeOK
  <2>4. QED
    BY <2>2, <2>3
<1>6. CASE UNCHANGED vars
  BY <1>6 DEF vars, TypeOK, CallInv
<1>7. QED
  BY <1>1, <1>2, <1>3, <1>4, <1>5, <1>6 DEF Next

LEMMA Always == Spec => []Inv
<1>1. QED
  BY InvInit, InvNext, PTL DEF Spec

-----------------------------------------------------------------------------
\* Every variable keeps its type: in particular the count of the words that are
\* left never goes below zero in the loops of eva_read_internal,
\* eva_write_internal and eva_memset, where it is unsigned.
THEOREM TypeCorrect == Spec => []TypeOK
<1>1. Inv => TypeOK
  BY DEF Inv
<1>2. QED
  BY <1>1, Always, PTL

\* The two translations are inverse to each other (default_eva_to_npa,
\* default_npa_to_eva) at every address a transfer passes, for all sizes of
\* stripes, pods, meshes and fields; and the identifier of a bank, by which the
\* simulated memory is chosen, names that bank, in the pod of the tile.
THEOREM TranslationsInverse == Spec => []RoundTrip
<1>1. Inv => RoundTrip
  <2> SUFFICES ASSUME Inv, call.kind \in {"read", "write", "memset"}, NEW t \in Translated
               PROVE  /\ t.npa.xy \in Banks \/ t.npa.epa < DmemWords =>
                           \E e \in NpaToEva(call.src, t.npa) :
                             \E u \in EvaToNpa(call.org, call.src, e) : u.npa = t.npa
                      /\ t.npa.xy \in Banks =>
                           /\ Dram(DramId(t.npa.xy)) = t.npa.xy
                           /\ call.src \in TilesOf(PodOf(t.npa.xy))
    BY DEF RoundTrip
  <2>0. PICK r \in Requests : \E d \in 0 .. r.sz : call = Advanced(r, d)
    BY DEF Inv, CallInv, NoCall, Launched
  <2>1. PICK d \in 0 .. r.sz : call = Advanced(r, d)
    BY <2>0
  <2> DEFINE e == r.eva + d
  <2>2. /\ call.src = r.src /\ call.org = r.org /\ call.eva = e
        /\ r.src \in Tiles /\ e \in Nat /\ e \in r.eva .. r.eva + r.sz
    BY <2>1, RequestsAssumption DEF Advanced
  <2>3. t \in EvaToNpa(r.org, r.src, e)
    BY <2>2 DEF Translated
  <2>4. CASE HasBit(e, DramBit)
    <3>1. t \in EvaDram(r.src, e) /\ dramEnabled \in BOOLEAN
      BY <2>3, <2>4 DEF EvaToNpa, Inv, TypeOK
    <3> HIDE DEF e
    <3>2. /\ t.npa.xy \in Banks
          /\ ThereAndBack(r.org, r.src, t.npa)
          /\ Dram(DramId(t.npa.xy)) = t.npa.xy
          /\ r.src \in TilesOf(PodOf(t.npa.xy))
      <4>1. r.src \in Tiles /\ e \in Nat
        BY <2>2
      <4>2. QED
        BY ONLY <2>4, <3>1, <4>1, DramRoundTrip
    <3>3. QED
      BY <2>2, <3>2 DEF ThereAndBack
  <2>5. CASE ~HasBit(e, DramBit)
    <3>1. PICK co \in Tiles, a \in Nat : t \in EvaTile(co, a)
      <4>1. e % GlobalEpaSpan \in Nat /\ e % EpaSpan \in Nat
        <5>1. GlobalEpaSpan \in Nat \ {0} /\ EpaSpan \in Nat \ {0}
          BY SizesAssumption
        <5> HIDE DEF e
        <5>2. e % GlobalEpaSpan \in 0 .. GlobalEpaSpan - 1
          BY ONLY <2>2, <5>1, DivMod
        <5>3. e % EpaSpan \in 0 .. EpaSpan - 1
          BY ONLY <2>2, <5>1, DivMod
        <5>4. QED
          BY <5>1, <5>2, <5>3
      <4>2. CASE HasBit(e, GlobalBit)
        <5>1. GlobalXY(e) \in Tiles
          BY <2>2, <2>5, <4>2, RequestsAssumption
        <5>2. QED
          BY <2>3, <2>5, <4>1, <4>2, <5>1 DEF EvaToNpa, EvaGlobal
      <4>3. CASE ~HasBit(e, GlobalBit) /\ HasBit(e, GroupBit)
        <5>1. GroupXY(r.org, e) \in Tiles
          BY <2>2, <2>5, <4>3, RequestsAssumption
        <5>2. t \in EvaTile(GroupXY(r.org, e), e % EpaSpan)
          BY <2>3, <2>5, <4>3 DEF EvaToNpa, EvaGroup
        <5>3. QED
          BY <4>1, <5>1, <5>2
      <4>4. CASE ~HasBit(e, GlobalBit) /\ ~HasBit(e, GroupBit)
        BY <2>2, <2>3, <2>5, <4>4 DEF EvaToNpa, EvaLocal
      <4>5. QED
        BY <4>2, <4>3, <4>4
    <3>2. /\ t.npa.xy \notin Banks
          /\ t.npa.epa < DmemWords =>
               ThereAndBack(r.org, r.src, t.npa)
      <4>1. r.src \in Tiles /\ co \in Tiles /\ a \in Nat /\ t \in EvaTile(co, a)
        BY <2>2, <3>1
      <4>2. /\ t.npa.xy \notin Banks /\ t.npa.epa = a
            /\ a < DmemWords =>
                 ThereAndBack(r.org, r.src, t.npa)
        BY ONLY <4>1, TileRoundTrip
      <4>3. QED
        BY <4>2
    <3>3. QED
      BY <2>2, <3>2 DEF ThereAndBack
  <2>6. QED
    BY <2>4, <2>5
<1>2. QED
  BY <1>1, Always, PTL

\* The finish address a launch hands to a tile is the one the host waits at
\* (hb_mc_device_pod_tile_group_launch), on every machine and for every group of
\* a grid whose finish addresses fit the word field of a global address.
THEOREM FinishesReach ==
  ASSUME FinishBase + MaxGroups <= GlobalEpaSpan
  PROVE  Spec => []FinishReaches
<1>1. Inv => FinishReaches
  <2> SUFFICES ASSUME Inv, call.kind = "launch"
               PROVE  TileStore(call.eva) = Npa(Host, FinishBase + call.group)
    BY DEF FinishReaches
  <2>1. PICK tile \in Tiles, group \in 0 .. MaxGroups - 1 : call = Launched(tile, group)
    <3>1. \A r \in Requests : r.kind # "launch"
      BY RequestsAssumption
    <3>2. QED
      BY <3>1 DEF Inv, CallInv, NoCall, Advanced
  <2> DEFINE f == NpaToEvaGlobal(Npa(Host, FinishBase + group))
  <2>2. FinishBase + group \in Nat /\ FinishBase + group < GlobalEpaSpan
    BY SizesAssumption
  <2>3. Host \in Nat \X Nat /\ Host[1] < GlobalXs /\ Host[2] < GlobalYs
    BY MeshAssumption, TilesAssumption
  <2> HIDE DEF f
  <2>4. GlobalXY(f) = Host /\ f % GlobalEpaSpan = FinishBase + group
    BY <2>2, <2>3, GlobalOf DEF f
  <2>5. call.eva = f /\ call.group = group
    BY <2>1 DEF Launched, f
  <2>6. QED
    BY <2>4, <2>5 DEF TileStore
<1>2. QED
  BY <1>1, Always, PTL
============================================================================
