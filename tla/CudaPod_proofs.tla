---------------------------- MODULE CudaPod_proofs ----------------------------
(***************************************************************************)
(* Safety of the tile-group scheduler for every mesh, every set of pods    *)
(* and every program: its types, the ownership of tiles, the counts of     *)
(* kernels and argument vectors, and that the host waits only when nothing *)
(* that is ready fits.                                                     *)
(*                                                                         *)
(* What is said of a pod is said of four values: its tile groups T, its    *)
(* busy tiles B, its kernel references R and its argument vectors A.  The  *)
(* lemmas about placing and releasing a group are then about values, and   *)
(* the steps of the specification only have to say which values change.    *)
(***************************************************************************)
EXTENDS CudaPod, FiniteSetTheorems, TLAPS

Group ==
  [status : Status, dim : Nat \X Nat, origin : Nat \X Nat, grid : Nat,
   epa : Int, known : BOOLEAN]

PodTyped ==
  /\ programs \in [Pods -> 0 .. MaxPrograms] /\ loaded \in [Pods -> BOOLEAN]
  /\ tgs \in [Pods -> Seq(Group)] /\ busy \in [Pods -> SUBSET Tiles]
  /\ refs \in [Pods -> Seq(Int)] /\ argvs \in [Pods -> Int]

HostTyped ==
  /\ pc \in {"idle", "check", "scan", "wait"}
  /\ podv \subseteq Pods /\ single \in BOOLEAN
  /\ scan \subseteq Pods /\ (pc = "scan" => scan # {})
  /\ idx \in Nat \ {0} /\ failed \in Nat \X Nat

DevTyped == \A r \in running \cup fifo : r.pod \in Pods

HeldIn(T) == {i \in DOMAIN T : Held(T[i])}
OfGrid(T, g) == {i \in DOMAIN T : T[i].grid = g}
TilesIn(T, i) == Rect(T[i].origin, T[i].dim)

\* Only an unfinished group belongs to a grid, and it has a shape.
Known(T, R) ==
  \A i \in DOMAIN T :
    IF T[i].status = "FINISHED" THEN T[i].grid = 0
                                ELSE T[i].grid \in DOMAIN R /\ T[i].dim \in Dims

\* TilesOwned, of one pod.
Owned(T, B) ==
  /\ B = UNION {TilesIn(T, i) : i \in HeldIn(T)}
  /\ \A i, j \in HeldIn(T) : i # j => TilesIn(T, i) \cap TilesIn(T, j) = {}

\* References, of one pod.
Counted(T, R, A) ==
  /\ \A g \in DOMAIN R : R[g] = Cardinality(OfGrid(T, g))
  /\ A = Cardinality(HeldIn(T))

PodOK(T, B, R, A) == Known(T, R) /\ Owned(T, B) /\ Counted(T, R, A)
PodInv == \A p \in Pods : PodOK(tgs[p], busy[p], refs[p], argvs[p])

OriginsIn(B, dim) ==
  {o \in (0 .. MeshX - dim[1]) \X (0 .. MeshY - dim[2]) : Rect(o, dim) \cap B = {}}

\* None of the first n groups is ready and fits.
FullTo(T, B, n) ==
  \A i \in DOMAIN T :
    i <= n /\ T[i].status = "INITIALIZED" => OriginsIn(B, T[i].dim) = {}
Full(T, B) == FullTo(T, B, Len(T))

\* What the scan has established so far.
ScanInv ==
  /\ pc = "scan" =>
       /\ \A p \in podv \ scan : Full(tgs[p], busy[p])
       /\ FullTo(tgs[ScanPod], busy[ScanPod], idx - 1)
       /\ failed # <<0, 0>> => OriginsIn(busy[ScanPod], failed) = {}
  /\ pc = "wait" \/ (pc = "check" /\ ~single) =>
       \A p \in podv : Full(tgs[p], busy[p])

IInv == PodTyped /\ HostTyped /\ DevTyped /\ PodInv /\ ScanInv

------------------------------------------------------------------------------

\* The least of some numbers, and the first of some coordinates, exist.
LEMMA LeastExists ==
  ASSUME NEW S \in SUBSET Nat, S # {}
  PROVE  \E i \in S : \A j \in S : i <= j
<1>1. PICK i \in S : \A j \in S : <<j, i>> \notin OpToRel(<, Nat)
  <2>1. PICK x : x \in S
    BY Zenon
  <2>2. S \subseteq Nat /\ IsWellFoundedOn(OpToRel(<, Nat), Nat)
    BY NatLessThanWellFounded, Zenon
  <2>3. IsWellFoundedOn(OpToRel(<, Nat), S)
    BY <2>2, IsWellFoundedOnSubset, Zenon
  <2>4. QED
    BY <2>1, <2>2, WFMin, Zenon
<1>2. \A j \in S : ~(j < i)
  BY <1>1 DEF OpToRel
<1>3. QED
  BY <1>2

LEMMA FirstIn ==
  ASSUME NEW S \in SUBSET (Nat \X Nat), S # {}
  PROVE  First(S) \in S
<1> DEFINE Xs == {a[1] : a \in S}
<1>1. PICK x \in Xs : \A z \in Xs : x <= z
  <2>1. Xs # {} /\ Xs \in SUBSET Nat
    OBVIOUS
  <2>2. QED
    BY <2>1, LeastExists
<1> DEFINE Ys == {a[2] : a \in {b \in S : b[1] = x}}
<1>2. PICK y \in Ys : \A z \in Ys : y <= z
  <2>1. Ys # {} /\ Ys \in SUBSET Nat
    OBVIOUS
  <2>2. QED
    BY <2>1, LeastExists
<1>3. PICK a \in S : a[1] = x /\ a[2] = y
  OBVIOUS
<1>4. ASSUME NEW b \in S  PROVE Before(a, b)
  <2>1. b[1] \in Xs /\ (b[1] = x => b[2] \in Ys)
    OBVIOUS
  <2>2. x \in Nat /\ y \in Nat /\ b[1] \in Nat /\ b[2] \in Nat
    OBVIOUS
  <2>3. QED
    BY <1>1, <1>2, <1>3, <2>1, <2>2 DEF Before
<1>5. QED
  BY <1>3, <1>4 DEF First

LEMMA MeshFacts == MeshX \in Nat /\ MeshX >= 1 /\ MeshY \in Nat /\ MeshY >= 1
  BY MeshAssumption

\* A rectangle at one of its origins lies in the mesh and on free tiles.
LEMMA OriginFits ==
  ASSUME NEW B, NEW dim \in Nat \X Nat, OriginsIn(B, dim) # {}
  PROVE  LET o == First(OriginsIn(B, dim)) IN
           /\ o \in OriginsIn(B, dim) /\ o \in Nat \X Nat
           /\ Rect(o, dim) \subseteq Tiles /\ Rect(o, dim) \cap B = {}
<1> DEFINE S == OriginsIn(B, dim)
           o == First(S)
<1>1. S \in SUBSET (Nat \X Nat)
  BY MeshFacts DEF OriginsIn
<1>2. o \in S
  BY <1>1, FirstIn
<1>3. o \in (0 .. MeshX - dim[1]) \X (0 .. MeshY - dim[2]) /\ Rect(o, dim) \cap B = {}
  BY <1>2 DEF OriginsIn
<1>4. ASSUME NEW x \in 0 .. dim[1] - 1, NEW y \in 0 .. dim[2] - 1
      PROVE  <<o[1] + x, o[2] + y>> \in Tiles
  <2>1. o[1] \in Nat /\ o[2] \in Nat /\ o[1] <= MeshX - dim[1] /\ o[2] <= MeshY - dim[2]
    BY <1>3, MeshFacts
  <2>2. dim[1] \in Nat /\ dim[2] \in Nat
    OBVIOUS
  <2>3. QED
    BY <2>1, <2>2, MeshFacts DEF Tiles
<1>5. Rect(o, dim) \subseteq Tiles
  BY <1>4 DEF Rect
<1>6. QED
  BY <1>1, <1>2, <1>3, <1>5

\* With more busy tiles a rectangle fits at fewer places.
LEMMA FewerOrigins ==
  ASSUME NEW B, NEW C, NEW dim, B \subseteq C, OriginsIn(B, dim) = {}
  PROVE  OriginsIn(C, dim) = {}
  BY DEF OriginsIn

LEMMA GroupsFinite ==
  ASSUME NEW T \in Seq(Group)
  PROVE  /\ Len(T) \in Nat /\ DOMAIN T = 1 .. Len(T) /\ IsFiniteSet(DOMAIN T)
         /\ IsFiniteSet(HeldIn(T)) /\ \A g : IsFiniteSet(OfGrid(T, g))
<1>1. Len(T) \in Nat /\ DOMAIN T = 1 .. Len(T)
  OBVIOUS
<1>2. IsFiniteSet(DOMAIN T)
  BY <1>1, FS_Interval
<1>3. HeldIn(T) \in SUBSET DOMAIN T /\ \A g : OfGrid(T, g) \in SUBSET DOMAIN T
  BY DEF HeldIn, OfGrid
<1>4. QED
  BY <1>1, <1>2, <1>3, FS_Subset

\* Changed(T, U, i): U is T but for what group i is.
Changed(T, U, i) ==
  /\ U \in Seq(Group) /\ Len(U) = Len(T)
  /\ \A j \in DOMAIN T : j # i => U[j] = T[j]

\* Placing a group on free tiles keeps a pod in order.
LEMMA PlaceKeeps ==
  ASSUME NEW T \in Seq(Group), NEW B, NEW R, NEW A \in Int, PodOK(T, B, R, A),
         NEW i \in DOMAIN T, T[i].status = "INITIALIZED",
         NEW U, Changed(T, U, i), Held(U[i]),
         U[i].dim = T[i].dim, U[i].grid = T[i].grid,
         TilesIn(U, i) \cap B = {}
  PROVE  PodOK(U, B \cup TilesIn(U, i), R, A + 1)
<1>1. DOMAIN U = DOMAIN T
  BY DEF Changed
<1>2. i \notin HeldIn(T) /\ HeldIn(U) = HeldIn(T) \cup {i}
  BY <1>1 DEF HeldIn, Held, Changed
<1>3. \A j \in HeldIn(T) : TilesIn(U, j) = TilesIn(T, j)
  BY <1>2 DEF HeldIn, TilesIn, Changed
<1>4. Known(U, R)
  <2>1. ASSUME NEW j \in DOMAIN U  PROVE U[j].status = "FINISHED" <=> T[j].status = "FINISHED"
    BY <1>1 DEF Changed, Held
  <2>2. ASSUME NEW j \in DOMAIN U  PROVE U[j].dim = T[j].dim /\ U[j].grid = T[j].grid
    BY <1>1 DEF Changed
  <2>3. QED
    BY <1>1, <2>1, <2>2 DEF PodOK, Known
<1>5. Owned(U, B \cup TilesIn(U, i))
  <2>1. B = UNION {TilesIn(T, j) : j \in HeldIn(T)}
    BY DEF PodOK, Owned
  <2>2. UNION {TilesIn(U, j) : j \in HeldIn(U)} = B \cup TilesIn(U, i)
    BY <1>2, <1>3, <2>1
  <2>3. \A j \in HeldIn(T) : TilesIn(U, j) \cap TilesIn(U, i) = {}
    BY <1>3, <2>1
  <2>4. \A j, k \in HeldIn(T) : j # k => TilesIn(U, j) \cap TilesIn(U, k) = {}
    BY <1>3 DEF PodOK, Owned
  <2>5. QED
    BY <1>2, <2>2, <2>3, <2>4 DEF Owned
<1>6. Counted(U, R, A + 1)
  <2>1. \A g : OfGrid(U, g) = OfGrid(T, g)
    BY <1>1 DEF OfGrid, Changed
  <2>2. Cardinality(HeldIn(U)) = Cardinality(HeldIn(T)) + 1
    BY <1>2, GroupsFinite, FS_AddElement
  <2>3. QED
    BY <2>1, <2>2 DEF PodOK, Counted
<1>7. QED
  BY <1>4, <1>5, <1>6 DEF PodOK

\* Finishing a group and releasing what it held keeps a pod in order.
LEMMA ReleaseKeeps ==
  ASSUME NEW T \in Seq(Group), NEW B, NEW R \in Seq(Int), NEW A \in Int, PodOK(T, B, R, A),
         NEW i \in DOMAIN T, Held(T[i]),
         NEW U, Changed(T, U, i), U[i].status = "FINISHED", U[i].grid = 0
  PROVE  /\ T[i].grid \in DOMAIN R
         /\ PodOK(U, B \ TilesIn(T, i), [R EXCEPT ![T[i].grid] = @ - 1], A - 1)
<1> DEFINE g == T[i].grid
           Q == [R EXCEPT ![g] = @ - 1]
<1>1. DOMAIN U = DOMAIN T /\ DOMAIN Q = DOMAIN R /\ g \in DOMAIN R
  BY DEF Changed, PodOK, Known, Held
<1>2. i \in HeldIn(T) /\ HeldIn(U) = HeldIn(T) \ {i}
  BY <1>1 DEF HeldIn, Held, Changed
<1>3. \A j \in HeldIn(U) : TilesIn(U, j) = TilesIn(T, j)
  BY <1>2 DEF HeldIn, TilesIn, Changed
<1>4. Known(U, Q)
  <2>1. \A j \in DOMAIN U : j # i => U[j] = T[j]
    BY <1>1 DEF Changed
  <2>2. QED
    BY <1>1, <2>1 DEF PodOK, Known
<1>5. Owned(U, B \ TilesIn(T, i))
  <2>1. B = UNION {TilesIn(T, j) : j \in HeldIn(T)}
    BY DEF PodOK, Owned
  <2>2. \A j, k \in HeldIn(T) : j # k => TilesIn(T, j) \cap TilesIn(T, k) = {}
    BY DEF PodOK, Owned
  <2>3. UNION {TilesIn(U, j) : j \in HeldIn(U)} = B \ TilesIn(T, i)
    BY <1>2, <1>3, <2>1, <2>2
  <2>4. QED
    BY <1>2, <1>3, <2>2, <2>3 DEF Owned
<1>6. Counted(U, Q, A - 1)
  <2>1. g \in Nat /\ g # 0
    <3>1. DOMAIN R = 1 .. Len(R)
      OBVIOUS
    <3>2. QED
      BY <1>1, <3>1
  <2>2. OfGrid(U, g) = OfGrid(T, g) \ {i} /\ i \in OfGrid(T, g)
    BY <1>1, <2>1 DEF OfGrid, Changed
  <2>3. \A h \in DOMAIN R : h # g => OfGrid(U, h) = OfGrid(T, h)
    <3>1. \A h \in DOMAIN R : h # 0
      OBVIOUS
    <3>2. QED
      BY <1>1, <3>1 DEF OfGrid, Changed
  <2>4. Cardinality(OfGrid(U, g)) = Cardinality(OfGrid(T, g)) - 1
    <3> HIDE DEF g
    <3>1. IsFiniteSet(OfGrid(T, g))
      BY GroupsFinite
    <3>2. Cardinality(OfGrid(T, g) \ {i}) = Cardinality(OfGrid(T, g)) - 1
      BY <2>2, <3>1, FS_RemoveElement
    <3>3. QED
      BY <2>2, <3>2
  <2>5. Cardinality(HeldIn(U)) = Cardinality(HeldIn(T)) - 1
    <3>1. IsFiniteSet(HeldIn(T))
      BY GroupsFinite
    <3>2. QED
      BY <1>2, <3>1, FS_RemoveElement
  <2>6. ASSUME NEW h \in DOMAIN Q  PROVE Q[h] = Cardinality(OfGrid(U, h))
    BY <1>1, <2>3, <2>4 DEF PodOK, Counted
  <2>7. QED
    BY <2>5, <2>6 DEF PodOK, Counted
<1>7. QED
  BY <1>1, <1>4, <1>5, <1>6 DEF PodOK

\* The numbers above m.
LEMMA Upper ==
  ASSUME NEW m \in Nat, NEW n \in Nat
  PROVE  /\ (1 .. m + n) \ (1 .. m) = m + 1 .. m + n
         /\ Cardinality(m + 1 .. m + n) = n
<1>1. Cardinality(m + 1 .. m + n) = IF m + 1 > m + n THEN 0 ELSE m + n - (m + 1) + 1
  BY FS_Interval
<1>2. QED
  BY <1>1

\* Lists written down element by element, and two lists put together.
LEMMA ListOf ==
  ASSUME NEW n \in Nat, NEW S, NEW f \in [1 .. n -> S]
  PROVE  f \in Seq(S) /\ Len(f) = n
  OBVIOUS

LEMMA Joined ==
  ASSUME NEW S, NEW s \in Seq(S), NEW n \in Nat, NEW t \in [1 .. n -> S],
         NEW i \in DOMAIN (s \o t)
  PROVE  (i \in DOMAIN s /\ (s \o t)[i] = s[i]) \/ \E j \in 1 .. n : (s \o t)[i] = t[j]
<1>1. t \in Seq(S) /\ Len(t) = n
  BY ListOf
<1>2. Len(s) \in Nat /\ DOMAIN s = 1 .. Len(s) /\ i \in 1 .. Len(s) + n
  BY <1>1
<1>3. CASE i \in DOMAIN s
  BY <1>1, <1>2, <1>3
<1>4. CASE i \notin DOMAIN s
  <2>1. i - Len(s) \in 1 .. n /\ (s \o t)[i] = t[i - Len(s)]
    BY <1>1, <1>2, <1>4
  <2>2. QED
    BY <2>1
<1>5. QED
  BY <1>3, <1>4

\* A new grid of n groups keeps a pod in order.
LEMMA EnqueueKeeps ==
  ASSUME NEW T \in Seq(Group), NEW B, NEW R \in Seq(Int), NEW A \in Int, PodOK(T, B, R, A),
         NEW n \in Nat, NEW N \in Seq(Group), Len(N) = n,
         \A i \in 1 .. n : /\ N[i].status = "INITIALIZED" /\ N[i].dim \in Dims
                           /\ N[i].grid = Len(R) + 1
  PROVE  PodOK(T \o N, B, Append(R, n), A)
<1> DEFINE U == T \o N
           Q == Append(R, n)
           g == Len(R) + 1
<1>1. /\ Len(T) \in Nat /\ DOMAIN T = 1 .. Len(T) /\ DOMAIN U = 1 .. Len(T) + n
      /\ U \in Seq(Group)
  OBVIOUS
<1>2. \A i \in DOMAIN T : i \in DOMAIN U /\ U[i] = T[i]
  BY <1>1
<1>3. \A i \in DOMAIN U \ DOMAIN T : i - Len(T) \in 1 .. n /\ U[i] = N[i - Len(T)]
  BY <1>1
<1>4. \A i \in DOMAIN U \ DOMAIN T :
        U[i].status = "INITIALIZED" /\ U[i].dim \in Dims /\ U[i].grid = g
  BY <1>3
<1>5. /\ Len(R) \in Nat /\ DOMAIN R = 1 .. Len(R) /\ DOMAIN Q = 1 .. g
      /\ Q[g] = n /\ \A h \in DOMAIN R : Q[h] = R[h]
  OBVIOUS
<1>6. \A i \in DOMAIN T : (T[i].grid \in DOMAIN Q /\ T[i].grid # g) \/ T[i].grid = 0
  BY <1>5 DEF PodOK, Known
<1>7. Known(U, Q)
  <2>1. SUFFICES ASSUME NEW i \in DOMAIN U
        PROVE  IF U[i].status = "FINISHED" THEN U[i].grid = 0
                                           ELSE U[i].grid \in DOMAIN Q /\ U[i].dim \in Dims
    BY DEF Known
  <2>2. CASE i \in DOMAIN T
    BY <1>2, <1>5, <2>2 DEF PodOK, Known
  <2>3. CASE i \notin DOMAIN T
    <3>1. g \in DOMAIN Q
      BY <1>5
    <3>2. QED
      BY <1>4, <2>3, <3>1
  <2>4. QED
    BY <2>2, <2>3
<1>8. HeldIn(U) = HeldIn(T)
  BY <1>2, <1>4 DEF HeldIn, Held
<1>9. Owned(U, B)
  <2>1. \A i \in HeldIn(T) : TilesIn(U, i) = TilesIn(T, i)
    BY <1>2 DEF HeldIn, TilesIn
  <2>2. QED
    BY <1>8, <2>1 DEF PodOK, Owned
<1>10. Counted(U, Q, A)
  <2>1. OfGrid(U, g) = Len(T) + 1 .. Len(T) + n
    <3>1. \A i \in DOMAIN T : T[i].grid # g
      BY <1>5, <1>6
    <3>2. OfGrid(U, g) = DOMAIN U \ DOMAIN T
      BY <1>2, <1>4, <3>1 DEF OfGrid
    <3>3. QED
      BY <1>1, <3>2, Upper
  <2>2. Cardinality(OfGrid(U, g)) = n
    BY <1>1, <2>1, Upper
  <2>3. \A h \in DOMAIN R : OfGrid(U, h) = OfGrid(T, h)
    <3>1. \A h \in DOMAIN R : h # g
      BY <1>5
    <3>2. QED
      BY <1>2, <1>4, <3>1 DEF OfGrid
  <2>4. ASSUME NEW h \in DOMAIN Q  PROVE Q[h] = Cardinality(OfGrid(U, h))
    <3>1. h = g \/ h \in DOMAIN R
      BY <1>5
    <3>2. QED
      BY <1>5, <2>2, <2>3, <3>1 DEF PodOK, Counted
  <2>5. QED
    BY <1>8, <2>4 DEF PodOK, Counted
<1>11. QED
  BY <1>7, <1>9, <1>10 DEF PodOK

\* A pod without groups is in order.
LEMMA EmptyPod == PodOK(<<>>, {}, <<>>, 0)
<1>1. DOMAIN <<>> = {}
  OBVIOUS
<1>2. HeldIn(<<>>) = {}
  BY <1>1 DEF HeldIn
<1>3. Cardinality({}) = 0
  BY FS_EmptySet
<1>4. Known(<<>>, <<>>)
  BY <1>1 DEF Known
<1>5. Owned(<<>>, {})
  BY <1>2 DEF Owned
<1>6. Counted(<<>>, <<>>, 0)
  BY <1>1, <1>2, <1>3 DEF Counted
<1>7. QED
  BY <1>4, <1>5, <1>6 DEF PodOK

-------------------------------------------------------------------------------

LEMMA InitInv == Init => IInv
<1>1. SUFFICES ASSUME Init PROVE IInv
  OBVIOUS
<1>2. PodTyped
  BY <1>1, ProgramsAssumption DEF Init, PodTyped
<1>3. HostTyped /\ DevTyped
  <2>1. idx \in Nat \ {0} /\ failed \in Nat \X Nat /\ pc \in {"idle", "check", "scan", "wait"}
    BY <1>1, SMT DEF Init
  <2>2. single \in BOOLEAN /\ podv \subseteq Pods /\ scan \subseteq Pods /\ pc # "scan"
    BY <1>1, Zenon DEF Init
  <2>3. DevTyped
    BY <1>1, Zenon DEF Init, DevTyped
  <2>4. QED
    BY <2>1, <2>2, <2>3 DEF HostTyped
<1>4. PodInv
  BY <1>1, EmptyPod DEF Init, PodInv
<1>5. ScanInv
  BY <1>1 DEF Init, ScanInv
<1>6. QED
  BY <1>2, <1>3, <1>4, <1>5 DEF IInv

\* Between executions the scan has established nothing.
LEMMA IdleScan == pc' = "idle" => ScanInv'
  BY DEF ScanInv

LEMMA ProgramInitStep ==
  ASSUME IInv, NEW p \in Pods, ProgramInit(p)
  PROVE  IInv'
<1>1. PodTyped'
  <2>1. programs[p] + 1 \in 0 .. MaxPrograms
    BY ProgramsAssumption DEF IInv, PodTyped, ProgramInit
  <2>2. QED
    BY <2>1 DEF IInv, PodTyped, ProgramInit
<1>2. HostTyped' /\ DevTyped' /\ pc' = "idle"
  BY DEF IInv, HostTyped, DevTyped, ProgramInit, hostVars, devVars
<1>3. PodInv'
  <2>1. ASSUME NEW q \in Pods  PROVE PodOK(tgs'[q], busy'[q], refs'[q], argvs'[q])
    BY EmptyPod DEF IInv, PodTyped, PodInv, ProgramInit
  <2>2. QED
    BY <2>1 DEF PodInv
<1>4. QED
  BY <1>1, <1>2, <1>3, IdleScan DEF IInv

LEMMA ProgramFinishStep ==
  ASSUME IInv, NEW p \in Pods, ProgramFinish(p)
  PROVE  IInv'
<1>1. PodTyped'
  BY DEF IInv, PodTyped, ProgramFinish
<1>2. HostTyped' /\ DevTyped' /\ pc' = "idle"
  BY DEF IInv, HostTyped, DevTyped, ProgramFinish, hostVars
<1>3. PodInv'
  <2>1. ASSUME NEW q \in Pods  PROVE PodOK(tgs'[q], busy'[q], refs'[q], argvs'[q])
    BY EmptyPod DEF IInv, PodTyped, PodInv, ProgramFinish
  <2>2. QED
    BY <2>1 DEF PodInv
<1>4. QED
  BY <1>1, <1>2, <1>3, IdleScan DEF IInv

LEMMA EnqueueStep ==
  ASSUME IInv, NEW p \in Pods, NEW c \in Calls, Enqueue(p, c)
  PROVE  IInv'
<1> DEFINE n == c.grid[1] * c.grid[2]
           g == Len(refs[p]) + 1
           N == [i \in 1 .. n |-> TileGroup(c, g, Nth(i - 1, c.grid))]
<1>1. c.grid \in Dims /\ c.dim \in Dims /\ c.known \in BOOLEAN
  BY CallsAssumption
<1>2. c.grid[1] \in Nat /\ c.grid[2] \in Nat /\ c.grid[2] > 0
  BY <1>1, MeshFacts DEF Dims
<1>3. n \in Nat
  BY <1>2
<1>4. refs[p] \in Seq(Int) /\ tgs[p] \in Seq(Group) /\ argvs[p] \in Int /\ g \in Nat
  BY DEF IInv, PodTyped
<1>5. ASSUME NEW i \in 1 .. n
      PROVE  /\ N[i] \in Group /\ N[i].status = "INITIALIZED"
             /\ N[i].dim = c.dim /\ N[i].grid = g
  <2>1. (i - 1) \div c.grid[2] \in Int /\ (i - 1) % c.grid[2] \in Int
    BY <1>2, <1>3
  <2>2. FinishEpa(Nth(i - 1, c.grid), c.grid) \in Int
    BY <1>2, <2>1 DEF FinishEpa, Nth
  <2>3. c.dim \in Nat \X Nat
    BY <1>1, MeshFacts DEF Dims
  <2>4. QED
    BY <1>1, <1>4, <2>2, <2>3 DEF TileGroup, Group, Status
<1>6. N \in Seq(Group) /\ Len(N) = n
  <2>1. N \in [1 .. n -> Group]
    BY <1>5
  <2>2. QED
    BY <1>3, <2>1, ListOf
<1>7. /\ tgs' = [tgs EXCEPT ![p] = @ \o N] /\ refs' = [refs EXCEPT ![p] = Append(@, n)]
      /\ UNCHANGED <<programs, loaded, busy, argvs, pc, podv, single, scan, idx, failed, running, fifo>>
      /\ pc = "idle"
  BY DEF Enqueue, hostVars, devVars
<1>8. PodTyped'
  BY <1>3, <1>4, <1>6, <1>7 DEF IInv, PodTyped
<1>9. HostTyped' /\ DevTyped'
  BY <1>7 DEF IInv, HostTyped, DevTyped
<1>10. PodInv'
  <2>1. PodOK(tgs[p] \o N, busy[p], Append(refs[p], n), argvs[p])
    BY <1>1, <1>3, <1>4, <1>5, <1>6, EnqueueKeeps DEF IInv, PodInv
  <2>2. ASSUME NEW q \in Pods  PROVE PodOK(tgs'[q], busy'[q], refs'[q], argvs'[q])
    BY <1>7, <2>1 DEF IInv, PodTyped, PodInv
  <2>3. QED
    BY <2>2 DEF PodInv
<1>11. QED
  BY <1>7, <1>8, <1>9, <1>10, IdleScan DEF IInv

\* The pods are as they were.
LEMMA SamePods ==
  ASSUME IInv, UNCHANGED podVars
  PROVE  PodTyped' /\ PodInv'
<1>1. UNCHANGED <<programs, loaded, tgs, busy, refs, argvs>>
  BY DEF podVars
<1>2. QED
  BY <1>1 DEF IInv, PodTyped, PodInv

\* A scan that begins has established nothing but what is known of the pods
\* it leaves out.
LEMMA BeginScanEffect ==
  ASSUME NEW P, BeginScan(P), P \subseteq Pods, P # {},
         podv' \subseteq Pods, single' \in BOOLEAN,
         \A p \in podv' \ P : Full(tgs'[p], busy'[p]),
         \A p \in P : tgs'[p] \in Seq(Group)
  PROVE  HostTyped' /\ ScanInv'
<1>1. pc' = "scan" /\ scan' = P /\ idx' = 1 /\ failed' = <<0, 0>>
  BY DEF BeginScan
<1>2. HostTyped'
  <2>1. idx' \in Nat \ {0} /\ failed' \in Nat \X Nat /\ pc' \in {"idle", "check", "scan", "wait"}
    BY <1>1
  <2>2. QED
    BY <1>1, <2>1, Zenon DEF HostTyped
<1>3. ScanPod' \in P
  BY <1>1 DEF ScanPod
<1>4. FullTo(tgs'[ScanPod'], busy'[ScanPod'], idx' - 1)
  <2>1. \A i \in DOMAIN tgs'[ScanPod'] : ~(i <= idx' - 1)
    BY <1>1, <1>3
  <2>2. QED
    BY <2>1 DEF FullTo
<1>5. ScanInv'
  BY <1>1, <1>4 DEF ScanInv
<1>6. QED
  BY <1>2, <1>5

LEMMA ExecutePodsStep ==
  ASSUME IInv, NEW v \in SUBSET Pods, ExecutePods(v)
  PROVE  IInv'
<1>1. /\ BeginScan(v) /\ podv' = v /\ single' \in BOOLEAN /\ v # {}
      /\ UNCHANGED <<podVars, running, fifo>>
  BY DEF ExecutePods, devVars
<1>2. PodTyped' /\ PodInv'
  BY <1>1, SamePods
<1>3. DevTyped'
  BY <1>1 DEF IInv, DevTyped
<1>4. HostTyped' /\ ScanInv'
  BY <1>1, <1>2, BeginScanEffect DEF PodTyped
<1>5. QED
  BY <1>2, <1>3, <1>4 DEF IInv

LEMMA ExecutePodStep ==
  ASSUME IInv, NEW p \in Pods, ExecutePod(p)
  PROVE  IInv'
<1>1. /\ pc' = "check" /\ podv' = {p} /\ single' = TRUE
      /\ UNCHANGED <<scan, idx, failed, podVars, running, fifo>>
  BY DEF ExecutePod, devVars
<1>2. PodTyped' /\ PodInv'
  BY <1>1, SamePods
<1>3. HostTyped' /\ DevTyped'
  BY <1>1, Zenon DEF IInv, HostTyped, DevTyped
<1>4. ScanInv'
  BY <1>1, Zenon DEF ScanInv
<1>5. QED
  BY <1>2, <1>3, <1>4 DEF IInv

LEMMA CheckStep ==
  ASSUME IInv, Check
  PROVE  IInv'
<1>1. PodTyped' /\ PodInv'
  BY SamePods DEF Check
<1>2. DevTyped'
  BY DEF IInv, DevTyped, Check, devVars
<1>3. HostTyped' /\ ScanInv'
  <2>1. pc = "check" /\ UNCHANGED <<podv, single>> /\ UNCHANGED <<tgs, busy>>
    BY DEF Check, podVars
  <2>2. CASE \A p \in podv : AllFinished(p)
    <3>1. pc' = "idle" /\ UNCHANGED <<scan, idx, failed>>
      BY <2>2 DEF Check
    <3>2. QED
      BY <2>1, <3>1, IdleScan, Zenon DEF IInv, HostTyped
  <2>3. CASE single /\ ~\A p \in podv : AllFinished(p)
    <3>1. BeginScan(podv)
      BY <2>3 DEF Check
    <3>2. podv # {} /\ podv \subseteq Pods /\ single' \in BOOLEAN
      BY <2>1, <2>3, Zenon DEF IInv, HostTyped
    <3>3. QED
      BY <1>1, <2>1, <3>1, <3>2, BeginScanEffect DEF PodTyped
  <2>4. CASE ~single /\ ~\A p \in podv : AllFinished(p)
    <3>1. pc' = "wait" /\ UNCHANGED <<scan, idx, failed>>
      BY <2>4 DEF Check
    <3>2. HostTyped'
      BY <2>1, <3>1, Zenon DEF IInv, HostTyped
    <3>3. ScanInv'
      BY <2>1, <2>4, <3>1, Zenon DEF IInv, ScanInv
    <3>4. QED
      BY <3>2, <3>3
  <2>5. QED
    BY <2>2, <2>3, <2>4
<1>4. QED
  BY <1>1, <1>2, <1>3 DEF IInv

\* The pod that is scanned, and the group that is looked at.
LEMMA ScanFacts ==
  ASSUME IInv, pc = "scan"
  PROVE  /\ ScanPod \in Pods /\ ScanPod \in scan
         /\ tgs[ScanPod] \in Seq(Group) /\ Len(tgs[ScanPod]) \in Nat
         /\ DOMAIN tgs[ScanPod] = 1 .. Len(tgs[ScanPod])
         /\ idx \in Nat /\ idx >= 1
<1>1. ScanPod \in scan /\ scan \subseteq Pods
  BY DEF IInv, HostTyped, ScanPod
<1>2. tgs[ScanPod] \in Seq(Group)
  BY <1>1 DEF IInv, PodTyped
<1>3. QED
  BY <1>1, <1>2 DEF IInv, HostTyped

LEMMA ScanSkipStep ==
  ASSUME IInv, pc = "scan", ScanSkip(ScanPod)
  PROVE  IInv'
<1> DEFINE p == ScanPod
           tg == tgs[p][idx]
<1>1. /\ idx \in DOMAIN tgs[p] /\ idx' = idx + 1
      /\ UNCHANGED <<pc, scan, podv, single, podVars, running, fifo>>
  BY DEF ScanSkip, Next1, devVars
<1>2. PodTyped' /\ PodInv' /\ UNCHANGED <<tgs, busy>>
  BY <1>1, SamePods DEF podVars
<1>3. DevTyped'
  BY <1>1 DEF IInv, DevTyped
<1>4. tg \in Group /\ idx' \in Nat \ {0} /\ ScanPod' = ScanPod
  BY <1>1, ScanFacts DEF ScanPod
<1>5. tg.status = "INITIALIZED" => tg.dim # <<0, 0>>
  <2>1. tg.status = "INITIALIZED" => tg.dim \in Dims
    BY <1>1, ScanFacts DEF IInv, PodInv, PodOK, Known
  <2>2. <<0, 0>> \notin Dims
    BY MeshFacts DEF Dims
  <2>3. QED
    BY <2>1, <2>2
<1>6. /\ failed' \in Nat \X Nat
      /\ failed' # <<0, 0>> => OriginsIn(busy[p], failed') = {}
      /\ tg.status = "INITIALIZED" => OriginsIn(busy[p], tg.dim) = {}
  <2>1. failed \in Nat \X Nat /\ (failed # <<0, 0>> => OriginsIn(busy[p], failed) = {})
    BY DEF IInv, HostTyped, ScanInv
  <2>2. CASE Skip(tg) /\ UNCHANGED failed
    BY <1>5, <2>1, <2>2 DEF Skip
  <2>3. CASE ~Skip(tg) /\ Origins(p, tg.dim) = {} /\ failed' = tg.dim
    BY <1>4, <2>3 DEF Group, Origins, OriginsIn
  <2>4. QED
    BY <2>2, <2>3 DEF ScanSkip
<1>7. HostTyped'
  BY <1>1, <1>4, <1>6, Zenon DEF IInv, HostTyped
<1>8. FullTo(tgs[p], busy[p], idx' - 1)
  <2>1. FullTo(tgs[p], busy[p], idx - 1)
    BY DEF IInv, ScanInv
  <2>2. \A i \in DOMAIN tgs[p] : i <= idx' - 1 => i <= idx - 1 \/ i = idx
    BY <1>1, ScanFacts
  <2>3. QED
    BY <1>6, <2>1, <2>2 DEF FullTo
<1>9. ScanInv'
  BY <1>1, <1>2, <1>4, <1>6, <1>8, Zenon DEF IInv, ScanInv
<1>10. QED
  BY <1>2, <1>3, <1>7, <1>9 DEF IInv

\* Pods other than p are as they were; p is in order.
LEMMA OtherPods ==
  ASSUME IInv, NEW p \in Pods,
         \A q \in Pods : q # p => /\ tgs'[q] = tgs[q] /\ busy'[q] = busy[q]
                                  /\ refs'[q] = refs[q] /\ argvs'[q] = argvs[q],
         PodOK(tgs'[p], busy'[p], refs'[p], argvs'[p])
  PROVE  PodInv'
<1>1. ASSUME NEW q \in Pods  PROVE PodOK(tgs'[q], busy'[q], refs'[q], argvs'[q])
  BY DEF IInv, PodInv
<1>2. QED
  BY <1>1 DEF PodInv

LEMMA ScanLaunchStep ==
  ASSUME IInv, pc = "scan", ScanLaunch(ScanPod)
  PROVE  IInv'
<1> DEFINE p == ScanPod
           T == tgs[p]
           tg == T[idx]
           o == First(Origins(p, tg.dim))
           s == IF tg.known THEN "LAUNCHED" ELSE "ALLOCATED"
           g2 == [tg EXCEPT !.origin = o, !.status = s]
           U == [T EXCEPT ![idx] = g2]
           area == Rect(o, tg.dim)
<1>1. /\ p \in Pods /\ p \in scan /\ T \in Seq(Group) /\ idx \in DOMAIN T
      /\ tg \in Group /\ tg.status = "INITIALIZED" /\ tg.dim \in Nat \X Nat
  <2>1. idx \in DOMAIN T /\ ~Skip(tg)
    BY DEF ScanLaunch
  <2>2. tg \in Group
    BY <2>1, ScanFacts
  <2>3. QED
    BY <2>1, <2>2, ScanFacts DEF Skip, Group
<1>2. Origins(p, tg.dim) = OriginsIn(busy[p], tg.dim) /\ Origins(p, tg.dim) # {}
  BY DEF ScanLaunch, Origins, OriginsIn
<1>3. o \in Nat \X Nat /\ area \subseteq Tiles /\ area \cap busy[p] = {}
  BY <1>1, <1>2, OriginFits
<1>4. g2 \in Group /\ g2.origin = o /\ g2.status = s /\ g2.dim = tg.dim /\ g2.grid = tg.grid
  BY <1>1, <1>3 DEF Group, Status
<1>5. U \in Seq(Group) /\ Len(U) = Len(T) /\ U[idx] = g2 /\ \A j \in DOMAIN T : j # idx => U[j] = T[j]
  BY <1>1, <1>4
<1>6. /\ tgs' = [tgs EXCEPT ![p] = U]
      /\ busy' = [busy EXCEPT ![p] = @ \cup area] /\ argvs' = [argvs EXCEPT ![p] = @ + 1]
      /\ UNCHANGED <<programs, loaded, refs, failed, podv, single, fifo>>
  BY DEF ScanLaunch
<1>7. /\ tgs'[p] = U /\ busy'[p] = busy[p] \cup area /\ argvs'[p] = argvs[p] + 1
      /\ \A q \in Pods : q # p => tgs'[q] = tgs[q] /\ busy'[q] = busy[q] /\ argvs'[q] = argvs[q]
  BY <1>1, <1>6 DEF IInv, PodTyped
<1>8. PodTyped'
  BY <1>1, <1>3, <1>5, <1>6 DEF IInv, PodTyped
<1>9. PodInv'
  <2>1. argvs[p] \in Int /\ PodOK(T, busy[p], refs[p], argvs[p])
    BY <1>1 DEF IInv, PodTyped, PodInv
  <2>2. TilesIn(U, idx) = area
    BY <1>4, <1>5 DEF TilesIn
  <2>3. Held(U[idx]) /\ Changed(T, U, idx)
    BY <1>4, <1>5 DEF Held, Changed
  <2>4. PodOK(U, busy[p] \cup area, refs[p], argvs[p] + 1)
    <3>1. U[idx].dim = T[idx].dim /\ U[idx].grid = T[idx].grid /\ T[idx].status = "INITIALIZED"
      BY <1>1, <1>4, <1>5
    <3>2. TilesIn(U, idx) \cap busy[p] = {}
      BY <1>3, <2>2
    <3> HIDE DEF T, U, area
    <3>3. PodOK(U, busy[p] \cup TilesIn(U, idx), refs[p], argvs[p] + 1)
      BY <1>1, <2>1, <2>3, <3>1, <3>2, PlaceKeeps
    <3>4. QED
      BY <2>2, <3>3
  <2>5. QED
    BY <1>1, <1>6, <1>7, <2>4, OtherPods
<1>10. CASE tg.known
  <2>1. /\ idx' = idx + 1 /\ UNCHANGED <<pc, scan>>
        /\ running' = running \cup {Running(p, idx, o)}
    BY <1>10 DEF ScanLaunch, Next1
  <2>2. DevTyped'
    BY <1>1, <1>6, <2>1 DEF IInv, DevTyped, Running
  <2>3. idx' \in Nat \ {0} /\ ScanPod' = ScanPod
    BY <2>1, ScanFacts DEF ScanPod
  <2>4. HostTyped'
    BY <1>6, <2>1, <2>3, Zenon DEF IInv, HostTyped
  <2>5. \A d : OriginsIn(busy[p], d) = {} => OriginsIn(busy'[p], d) = {}
    BY <1>7, FewerOrigins
  <2>6. FullTo(tgs'[p], busy'[p], idx' - 1)
    <3>1. FullTo(T, busy[p], idx - 1)
      BY DEF IInv, ScanInv
    <3>2. \A i \in DOMAIN U : i <= idx' - 1 => i \in DOMAIN T /\ ((i <= idx - 1 /\ i # idx) \/ i = idx)
      BY <1>5, <2>1, ScanFacts
    <3>3. U[idx].status # "INITIALIZED"
      BY <1>4, <1>5
    <3>4. QED
      BY <1>5, <1>7, <2>5, <3>1, <3>2, <3>3 DEF FullTo
  <2>7. failed # <<0, 0>> => OriginsIn(busy'[p], failed) = {}
    BY <2>5 DEF IInv, ScanInv
  <2>8. \A q \in podv \ scan : Full(tgs'[q], busy'[q])
    <3>1. \A q \in podv \ scan : q \in Pods /\ q # p /\ Full(tgs[q], busy[q])
      BY <1>1, Zenon DEF IInv, HostTyped, ScanInv
    <3>2. QED
      BY <1>7, <3>1
  <2>9. ScanInv'
    BY <1>6, <2>1, <2>3, <2>6, <2>7, <2>8, Zenon DEF ScanInv
  <2>10. QED
    BY <1>8, <1>9, <2>2, <2>4, <2>9 DEF IInv
<1>11. CASE ~tg.known
  <2>1. pc' = "idle" /\ UNCHANGED <<scan, idx, running>>
    BY <1>11 DEF ScanLaunch
  <2>2. HostTyped' /\ DevTyped'
    BY <1>6, <2>1, Zenon DEF IInv, HostTyped, DevTyped
  <2>3. QED
    BY <1>8, <1>9, <2>1, <2>2, IdleScan DEF IInv
<1>12. QED
  BY <1>10, <1>11

LEMMA ScanEndStep ==
  ASSUME IInv, pc = "scan", ScanEnd(ScanPod)
  PROVE  IInv'
<1> DEFINE p == ScanPod
<1>1. /\ idx \notin DOMAIN tgs[p] /\ idx' = 1 /\ failed' = <<0, 0>>
      /\ UNCHANGED <<podv, single, podVars, running, fifo>>
  BY DEF ScanEnd, devVars
<1>2. PodTyped' /\ PodInv' /\ UNCHANGED <<tgs, busy>>
  BY <1>1, SamePods DEF podVars
<1>3. DevTyped'
  BY <1>1 DEF IInv, DevTyped
<1>4. Full(tgs[p], busy[p])
  <2>1. \A i \in DOMAIN tgs[p] : i <= idx - 1
    BY <1>1, ScanFacts
  <2>2. QED
    BY <2>1 DEF IInv, ScanInv, FullTo, Full
<1>5. \A q \in podv : q \in scan \ {p} \/ Full(tgs[q], busy[q])
  BY <1>4, Zenon DEF IInv, ScanInv
<1>6. idx' \in Nat \ {0} /\ failed' \in Nat \X Nat
  BY <1>1
<1>7. CASE scan = {p}
  <2>1. pc' \in {"wait", "check"} /\ scan' = {}
    BY <1>7 DEF ScanEnd
  <2>2. HostTyped'
    <3>1. pc' \in {"idle", "check", "scan", "wait"} /\ pc' # "scan"
      BY <2>1
    <3>2. QED
      BY <1>1, <1>6, <2>1, <3>1, Zenon DEF IInv, HostTyped
  <2>3. \A q \in podv : Full(tgs[q], busy[q])
    BY <1>5, <1>7
  <2>4. ScanInv'
    BY <1>1, <1>2, <2>1, <2>3 DEF ScanInv
  <2>5. QED
    BY <1>2, <1>3, <2>2, <2>4 DEF IInv
<1>8. CASE scan # {p}
  <2>1. BeginScan(scan \ {p})
    BY <1>1, <1>8 DEF ScanEnd, BeginScan
  <2>2. scan \ {p} # {} /\ scan \ {p} \subseteq Pods
    BY <1>8, ScanFacts, Zenon DEF IInv, HostTyped
  <2>3. podv' \subseteq Pods /\ single' \in BOOLEAN
    BY <1>1, Zenon DEF IInv, HostTyped
  <2>4. \A q \in podv' \ (scan \ {p}) : Full(tgs'[q], busy'[q])
    BY <1>1, <1>2, <1>5
  <2>5. HostTyped' /\ ScanInv'
    BY <1>2, <2>1, <2>2, <2>3, <2>4, BeginScanEffect DEF PodTyped
  <2>6. QED
    BY <1>2, <1>3, <2>5 DEF IInv
<1>9. QED
  BY <1>7, <1>8

\* The group a packet is taken for: the first that matches.
Matching(k) == {i \in DOMAIN tgs[k.pod] : Matches(tgs[k.pod][i], k)}
Taken(k) == CHOOSE i \in Matching(k) : \A j \in Matching(k) : i <= j

LEMMA WaitFinishStep ==
  ASSUME IInv, NEW k \in fifo, WaitFinish(k)
  PROVE  IInv'
<1> DEFINE p == k.pod
           T == tgs[p]
           i == Taken(k)
           done == [T[i] EXCEPT !.status = "FINISHED", !.grid = 0,
                                !.dim = <<0, 0>>, !.origin = <<0, 0>>]
           U == [T EXCEPT ![i] = done]
           area == Rect(T[i].origin, T[i].dim)
<1>1. /\ p \in Pods /\ T \in Seq(Group) /\ refs[p] \in Seq(Int) /\ argvs[p] \in Int
      /\ tgs \in [Pods -> Seq(Group)]
  BY DEF IInv, DevTyped, PodTyped
<1>2. i \in DOMAIN T /\ Held(T[i]) /\ T[i] \in Group
  <2>1. Matching(k) # {} /\ Matching(k) \in SUBSET Nat
    <3>1. Matching(k) # {}
      BY Zenon DEF WaitFinish, Matching
    <3>2. \A j \in DOMAIN T : j \in Nat
      BY <1>1
    <3>3. QED
      BY <3>1, <3>2 DEF Matching
  <2>2. i \in Matching(k)
    BY <2>1, LeastExists DEF Taken
  <2>3. i \in DOMAIN T /\ Held(T[i])
    BY <2>2 DEF Matching, Matches, Held
  <2>4. QED
    BY <1>1, <2>3
<1>3. done \in Group /\ done.status = "FINISHED" /\ done.grid = 0
  BY <1>2 DEF Group, Status
<1>4. U \in Seq(Group) /\ Len(U) = Len(T) /\ U[i] = done /\ \A j \in DOMAIN T : j # i => U[j] = T[j]
  BY <1>1, <1>2, <1>3
<1>5. /\ pc = "wait" /\ tgs' = [tgs EXCEPT ![p] = U]
      /\ busy' = [busy EXCEPT ![p] = @ \ area] /\ argvs' = [argvs EXCEPT ![p] = @ - 1]
      /\ refs' = [refs EXCEPT ![p][T[i].grid] = @ - 1]
      /\ UNCHANGED <<programs, loaded, podv, single, running>> /\ fifo' = fifo \ {k}
  <2>1. /\ pc = "wait" /\ UNCHANGED <<programs, loaded, podv, single, running>> /\ fifo' = fifo \ {k}
    BY DEF WaitFinish
  <2>2. Release(p, i)
    BY DEF WaitFinish, Matching, Taken
  <2>3. tgs' = [tgs EXCEPT ![p][i].status = "FINISHED", ![p][i].grid = 0,
                           ![p][i].dim = <<0, 0>>, ![p][i].origin = <<0, 0>>]
    BY DEF WaitFinish, Matching, Taken
  <2>4. tgs' = [tgs EXCEPT ![p] = U]
    BY <1>1, <1>2, <2>3
  <2>5. QED
    BY <2>1, <2>2, <2>4 DEF Release
<1>6. /\ T[i].grid \in DOMAIN refs[p]
      /\ PodOK(U, busy[p] \ area, [refs[p] EXCEPT ![T[i].grid] = @ - 1], argvs[p] - 1)
  <2>1. PodOK(T, busy[p], refs[p], argvs[p])
    BY <1>1 DEF IInv, PodInv
  <2>2. Changed(T, U, i) /\ TilesIn(T, i) = area
    BY <1>4 DEF Changed, TilesIn
  <2>3. U[i].status = "FINISHED" /\ U[i].grid = 0
    BY <1>3, <1>4
  <2> HIDE DEF T, U, area, i
  <2>4. /\ T[i].grid \in DOMAIN refs[p]
        /\ PodOK(U, busy[p] \ TilesIn(T, i), [refs[p] EXCEPT ![T[i].grid] = @ - 1], argvs[p] - 1)
    BY <1>1, <1>2, <2>1, <2>2, <2>3, ReleaseKeeps
  <2>5. QED
    BY <2>2, <2>4
<1>7. /\ tgs'[p] = U /\ busy'[p] = busy[p] \ area /\ argvs'[p] = argvs[p] - 1
      /\ refs'[p] = [refs[p] EXCEPT ![T[i].grid] = @ - 1]
      /\ \A q \in Pods : q # p => /\ tgs'[q] = tgs[q] /\ busy'[q] = busy[q]
                                  /\ refs'[q] = refs[q] /\ argvs'[q] = argvs[q]
  BY <1>1, <1>5 DEF IInv, PodTyped
<1>8. PodTyped'
  <2>1. [refs[p] EXCEPT ![T[i].grid] = @ - 1] \in Seq(Int)
    BY <1>1, <1>6
  <2>2. /\ busy \in [Pods -> SUBSET Tiles] /\ refs \in [Pods -> Seq(Int)]
        /\ argvs \in [Pods -> Int]
        /\ programs' \in [Pods -> 0 .. MaxPrograms] /\ loaded' \in [Pods -> BOOLEAN]
    BY <1>5 DEF IInv, PodTyped
  <2>3. tgs' \in [Pods -> Seq(Group)]
    <3> HIDE DEF U
    <3>1. QED
      BY <1>1, <1>4, <1>5
  <2>4. busy' \in [Pods -> SUBSET Tiles] /\ argvs' \in [Pods -> Int]
    <3>1. busy[p] \ area \in SUBSET Tiles /\ argvs[p] - 1 \in Int
      BY <1>1, <2>2
    <3> HIDE DEF area
    <3>2. QED
      BY <1>1, <1>5, <2>2, <3>1
  <2>5. refs' = [refs EXCEPT ![p] = [refs[p] EXCEPT ![T[i].grid] = @ - 1]]
    BY <1>1, <1>5, <2>2
  <2>6. refs' \in [Pods -> Seq(Int)]
    <3> HIDE DEF T, i
    <3>1. QED
      BY <1>1, <2>1, <2>2, <2>5
  <2>7. QED
    BY <2>2, <2>3, <2>4, <2>6 DEF PodTyped
<1>9. PodInv'
  BY <1>1, <1>6, <1>7, OtherPods
<1>10. DevTyped'
  BY <1>5 DEF IInv, DevTyped
<1>11. podv' \subseteq Pods /\ single' \in BOOLEAN
  BY <1>5, Zenon DEF IInv, HostTyped
<1>12. HostTyped' /\ ScanInv'
  <2>1. CASE single
    <3>1. pc' = "check" /\ UNCHANGED <<scan, idx, failed>>
      BY <2>1 DEF WaitFinish
    <3>2. HostTyped'
      BY <1>5, <3>1, Zenon DEF IInv, HostTyped
    <3>3. ScanInv'
      BY <1>5, <2>1, <3>1, Zenon DEF ScanInv
    <3>4. QED
      BY <3>2, <3>3
  <2>2. CASE ~single
    <3>1. BeginScan({p})
      BY <2>2 DEF WaitFinish, Rescan
    <3>2. \A q \in podv' \ {p} : Full(tgs'[q], busy'[q])
      <4>1. \A q \in podv \ {p} : q \in Pods /\ Full(tgs[q], busy[q])
        BY <1>5 DEF IInv, HostTyped, ScanInv
      <4>2. QED
        BY <1>5, <1>7, <4>1
    <3>3. QED
      BY <1>1, <1>8, <1>11, <3>1, <3>2, BeginScanEffect DEF PodTyped
  <2>3. QED
    BY <2>1, <2>2
<1>13. QED
  BY <1>8, <1>9, <1>10, <1>12 DEF IInv

\* Steps of the tiles, and packets that are dropped, change nothing here.
LEMMA QuietStep ==
  ASSUME IInv, UNCHANGED <<podVars, hostVars>>,
         running' \cup fifo' \subseteq running \cup fifo
  PROVE  IInv'
<1>1. PodTyped' /\ PodInv'
  BY SamePods
<1>2. UNCHANGED <<tgs, busy, pc, podv, single, scan, idx, failed>>
  BY DEF podVars, hostVars
<1>3. HostTyped'
  BY <1>2, Zenon DEF IInv, HostTyped
<1>4. ScanPod' = ScanPod
  BY <1>2 DEF ScanPod
<1>5. ScanInv'
  BY <1>2, <1>4, Zenon DEF IInv, ScanInv
<1>6. DevTyped'
  BY DEF IInv, DevTyped
<1>7. QED
  BY <1>1, <1>3, <1>5, <1>6 DEF IInv

-------------------------------------------------------------------------------

\* The strengthened invariant: each pod is in order, and the scan knows of
\* every group it has passed that nothing that is ready fits.
THEOREM SchedulerInvariant == Spec => []IInv
<1>1. IInv /\ [Next]_vars => IInv'
  <2>1. SUFFICES ASSUME IInv, [Next]_vars  PROVE IInv'
    OBVIOUS
  <2>2. CASE UNCHANGED vars
    BY <2>1, <2>2, QuietStep DEF vars, devVars
  <2>3. CASE Program
    <3>1. CASE Rest
      BY <2>1, <3>1, QuietStep DEF Rest, vars, devVars
    <3>2. CASE \E p \in Pods : ProgramInit(p) \/ ProgramFinish(p) \/ ExecutePod(p)
      BY <2>1, <3>2, ProgramInitStep, ProgramFinishStep, ExecutePodStep
    <3>3. CASE \E p \in Pods, c \in Calls : Enqueue(p, c)
      BY <2>1, <3>3, EnqueueStep
    <3>4. CASE \E v \in SUBSET Pods : ExecutePods(v)
      BY <2>1, <3>4, ExecutePodsStep
    <3>5. QED
      BY <2>3, <3>1, <3>2, <3>3, <3>4 DEF Program
  <2>4. CASE Host
    <3>1. CASE Check
      BY <2>1, <3>1, CheckStep
    <3>2. CASE Scan
      BY <2>1, <3>2, ScanSkipStep, ScanLaunchStep, ScanEndStep DEF Scan
    <3>3. ASSUME NEW k \in fifo, WaitFinish(k)  PROVE IInv'
      BY <2>1, <3>3, WaitFinishStep
    <3>4. ASSUME NEW k \in fifo, WaitDrop(k)  PROVE IInv'
      BY <2>1, <3>4, QuietStep DEF WaitDrop
    <3>5. QED
      BY <2>4, <3>1, <3>2, <3>3, <3>4 DEF Host, Wait
  <2>5. ASSUME NEW r \in running, TileGroupDone(r)  PROVE IInv'
    BY <2>1, <2>5, QuietStep DEF TileGroupDone
  <2>6. QED
    BY <2>1, <2>2, <2>3, <2>4, <2>5 DEF Next
<1>2. QED
  BY InitInv, <1>1, PTL DEF Spec

\* Every variable keeps its type: an unfinished group always has the kernel of
\* its grid, the busy tiles are tiles of the mesh, and the count of argument
\* vectors never drops below zero (tile_group_exit frees each one once).
THEOREM TypeCorrect == Spec => []TypeOK
<1>1. IInv => TypeOK
  <2>1. SUFFICES ASSUME IInv PROVE TypeOK
    OBVIOUS
  <2>2. ASSUME NEW p \in Pods, NEW i \in DOMAIN tgs[p]
        PROVE  /\ tgs[p][i].status \in Status
               /\ tgs[p][i].status # "FINISHED" => tgs[p][i].grid \in DOMAIN refs[p]
    <3>1. tgs[p][i] \in Group
      BY <2>1 DEF IInv, PodTyped
    <3>2. Known(tgs[p], refs[p])
      BY <2>1 DEF IInv, PodInv, PodOK
    <3>3. QED
      BY <3>1, <3>2 DEF Group, Known
  <2>3. argvs \in [Pods -> Nat]
    <3>1. ASSUME NEW p \in Pods  PROVE argvs[p] \in Nat
      <4>1. tgs[p] \in Seq(Group) /\ argvs[p] = Cardinality(HeldIn(tgs[p]))
        BY <2>1 DEF IInv, PodTyped, PodInv, PodOK, Counted
      <4>2. QED
        BY <4>1, GroupsFinite, FS_CardinalityType
    <3>2. argvs \in [Pods -> Int]
      BY <2>1 DEF IInv, PodTyped
    <3>3. QED
      BY <3>1, <3>2
  <2>4. QED
    BY <2>1, <2>2, <2>3, Zenon DEF IInv, PodTyped, HostTyped, TypeOK
<1>2. QED
  BY <1>1, SchedulerInvariant, PTL

\* A tile is busy exactly when one placed group covers it, and no two groups
\* share a tile: the free rectangles try_launch_tile_groups finds are free.
THEOREM TilesHaveOwners == Spec => []TilesOwned
<1>1. IInv => TilesOwned
  <2>1. SUFFICES ASSUME IInv, NEW p \in Pods
        PROVE  /\ busy[p] = UNION {TilesOf(p, i) : i \in HeldGroups(p)}
               /\ \A i, j \in HeldGroups(p) : i # j => TilesOf(p, i) \cap TilesOf(p, j) = {}
    BY DEF TilesOwned
  <2>2. Owned(tgs[p], busy[p])
    BY <2>1 DEF IInv, PodInv, PodOK
  <2>3. HeldGroups(p) = HeldIn(tgs[p]) /\ \A i : TilesOf(p, i) = TilesIn(tgs[p], i)
    BY DEF HeldGroups, HeldIn, TilesOf, TilesIn
  <2>4. QED
    BY <2>2, <2>3 DEF Owned
<1>2. QED
  BY <1>1, SchedulerInvariant, PTL

\* A kernel has a reference for each unfinished group of its grid, and the pod
\* has an argument vector for each placed group: tile_group_exit neither leaks
\* nor frees early.
THEOREM ReferencesExact == Spec => []References
<1>1. IInv => References
  <2>1. SUFFICES ASSUME IInv, NEW p \in Pods
        PROVE  /\ \A g \in DOMAIN refs[p] :
                    refs[p][g] = Cardinality({i \in DOMAIN tgs[p] : tgs[p][i].grid = g})
               /\ argvs[p] = Cardinality(HeldGroups(p))
    BY DEF References
  <2>2. Counted(tgs[p], refs[p], argvs[p])
    BY <2>1 DEF IInv, PodInv, PodOK
  <2>3. QED
    BY <2>2 DEF Counted, OfGrid, HeldGroups, HeldIn
<1>2. QED
  BY <1>1, SchedulerInvariant, PTL

\* The host waits for a finish packet only when no ready group of its pods
\* fits, although it skips shapes that did not fit and scans again only the
\* pod whose group finished.
THEOREM WaitsWhenFull == Spec => []WaitsOnlyWhenFull
<1>1. IInv => WaitsOnlyWhenFull
  <2>1. SUFFICES ASSUME IInv, pc = "wait", NEW p \in podv, NEW i \in DOMAIN tgs[p],
                        tgs[p][i].status = "INITIALIZED"
        PROVE  Origins(p, tgs[p][i].dim) = {}
    BY DEF WaitsOnlyWhenFull
  <2>2. p \in Pods /\ Full(tgs[p], busy[p])
    BY <2>1, Zenon DEF IInv, HostTyped, ScanInv
  <2>3. i <= Len(tgs[p])
    <3>1. tgs[p] \in Seq(Group)
      BY <2>1, <2>2 DEF IInv, PodTyped
    <3>2. QED
      BY <2>1, <3>1
  <2>4. OriginsIn(busy[p], tgs[p][i].dim) = {}
    BY <2>1, <2>2, <2>3 DEF Full, FullTo
  <2>5. QED
    BY <2>4 DEF Origins, OriginsIn
<1>2. QED
  BY <1>1, SchedulerInvariant, PTL

-------------------------------------------------------------------------------

\* Every packet on its way is that of a group that is launched now, and of
\* the program that is loaded now.
Tracked ==
  \A r \in running \cup fifo :
    /\ r.tg \in DOMAIN tgs[r.pod]
    /\ tgs[r.pod][r.tg].status = "LAUNCHED"
    /\ tgs[r.pod][r.tg].origin = r.origin
    /\ r.program = programs[r.pod]

\* A group sends one packet.
Once ==
  /\ running \cap fifo = {}
  /\ \A r, k \in running \cup fifo : r.pod = k.pod /\ r.tg = k.tg => r = k

\* Nothing is launched outside the pods of an execution.
Contained ==
  /\ pc = "scan" => scan \subseteq podv
  /\ \A p \in Pods : pc = "idle" \/ p \notin podv =>
       \A i \in DOMAIN tgs[p] : tgs[p][i].status # "LAUNCHED"

GroupsKnown == \A p \in Pods : \A i \in DOMAIN tgs[p] : tgs[p][i].known

\* The binaries have every kernel that is enqueued, so that no launch fails.
AllKnown == \A c \in Calls : c.known

FlightInv == GroupsKnown /\ Tracked /\ Once /\ Contained

\* Between executions nothing runs and no packet is on its way.
LEMMA IdleQuiet ==
  ASSUME IInv, FlightInv, pc = "idle"
  PROVE  /\ running = {} /\ fifo = {}
         /\ \A p \in Pods : \A i \in DOMAIN tgs[p] : tgs[p][i].status # "LAUNCHED"
<1>1. \A p \in Pods : \A i \in DOMAIN tgs[p] : tgs[p][i].status # "LAUNCHED"
  BY DEF FlightInv, Contained
<1>2. \A r \in running \cup fifo : FALSE
  BY <1>1 DEF IInv, DevTyped, FlightInv, Tracked
<1>3. QED
  BY <1>1, <1>2

\* What the program does between executions launches nothing.
LEMMA IdleFlight ==
  ASSUME IInv, FlightInv, pc = "idle", running' \subseteq running, fifo' = fifo,
         pc' = "scan" => scan' \subseteq podv', GroupsKnown',
         \A p \in Pods : \A i \in DOMAIN tgs'[p] : tgs'[p][i].status # "LAUNCHED"
  PROVE  FlightInv'
<1>1. running' = {} /\ fifo' = {}
  BY IdleQuiet
<1>2. Tracked' /\ Once'
  BY <1>1 DEF Tracked, Once
<1>3. Contained'
  BY DEF Contained
<1>4. QED
  BY <1>2, <1>3 DEF FlightInv

LEMMA ProgramFlight ==
  ASSUME IInv, IInv', FlightInv, AllKnown, Program
  PROVE  FlightInv'
<1>1. pc = "idle"
  BY DEF Program, Rest, ProgramInit, ProgramFinish, ExecutePod, ExecutePods, Enqueue
<1>2. /\ GroupsKnown
      /\ \A p \in Pods : \A i \in DOMAIN tgs[p] : tgs[p][i].status # "LAUNCHED"
  BY <1>1, IdleQuiet DEF FlightInv
<1>3. CASE Rest
  BY <1>1, <1>2, <1>3, IdleFlight DEF Rest, vars, podVars, hostVars, devVars, GroupsKnown
<1>4. ASSUME NEW p \in Pods, ProgramInit(p) \/ ProgramFinish(p)  PROVE FlightInv'
  <2>1. /\ tgs' = [tgs EXCEPT ![p] = <<>>] /\ running' \subseteq running
        /\ fifo' = fifo /\ UNCHANGED hostVars
    BY <1>4 DEF ProgramInit, ProgramFinish, devVars
  <2>2. pc' = "idle"
    BY <1>1, <2>1 DEF hostVars
  <2>3. ASSUME NEW q \in Pods, NEW i \in DOMAIN tgs'[q]
        PROVE  tgs'[q][i].known /\ tgs'[q][i].status # "LAUNCHED"
    <3>1. q # p /\ tgs'[q] = tgs[q]
      BY <2>1, <2>3 DEF IInv, PodTyped
    <3>2. QED
      BY <1>2, <3>1 DEF GroupsKnown
  <2>4. QED
    BY <1>1, <2>1, <2>2, <2>3, IdleFlight DEF GroupsKnown
<1>5. ASSUME NEW p \in Pods, NEW c \in Calls, Enqueue(p, c)  PROVE FlightInv'
  <2> DEFINE n == c.grid[1] * c.grid[2]
             N == [i \in 1 .. n |-> TileGroup(c, Len(refs[p]) + 1, Nth(i - 1, c.grid))]
  <2>1. tgs' = [tgs EXCEPT ![p] = @ \o N] /\ UNCHANGED <<hostVars, devVars>>
    BY <1>5 DEF Enqueue
  <2>2. pc' = "idle" /\ UNCHANGED <<running, fifo>>
    BY <1>1, <2>1 DEF hostVars, devVars
  <2>3. /\ tgs[p] \in Seq(Group) /\ n \in Nat
    <3>1. c.grid \in Dims
      BY CallsAssumption
    <3>2. c.grid[1] \in Nat /\ c.grid[2] \in Nat
      BY <3>1, MeshFacts DEF Dims
    <3>3. n \in Nat
      BY <3>2
    <3>4. tgs[p] \in Seq(Group)
      BY <1>5 DEF IInv, PodTyped
    <3>5. QED
      BY <3>3, <3>4
  <2>4. \A i \in 1 .. n : N[i].known /\ N[i].status # "LAUNCHED"
    BY <1>5 DEF TileGroup, AllKnown
  <2>5. ASSUME NEW q \in Pods, NEW i \in DOMAIN tgs'[q]
        PROVE  tgs'[q][i].known /\ tgs'[q][i].status # "LAUNCHED"
    <3>1. CASE q # p
      BY <1>2, <2>1, <3>1 DEF IInv, PodTyped, GroupsKnown
    <3>2. CASE q = p
      <4>1. tgs'[p] = tgs[p] \o N
        BY <2>1 DEF IInv, PodTyped
      <4>2. N \in [1 .. n -> Group \cup {N[j] : j \in 1 .. n}]
            /\ tgs[p] \in Seq(Group \cup {N[j] : j \in 1 .. n})
        BY <2>3
      <4> HIDE DEF N
      <4>3. \/ i \in DOMAIN tgs[p] /\ tgs'[p][i] = tgs[p][i]
            \/ \E j \in 1 .. n : tgs'[p][i] = N[j]
        BY <2>3, <2>5, <3>2, <4>1, <4>2, Joined
      <4>4. QED
        BY <1>2, <2>4, <3>2, <4>3 DEF GroupsKnown
    <3>3. QED
      BY <3>1, <3>2
  <2>6. QED
    BY <1>1, <2>2, <2>5, IdleFlight DEF GroupsKnown
<1>6. ASSUME NEW v \in SUBSET Pods, ExecutePods(v)  PROVE FlightInv'
  <2>1. /\ UNCHANGED <<tgs, running, fifo>> /\ scan' = podv'
    BY <1>6 DEF ExecutePods, BeginScan, podVars, devVars
  <2>2. QED
    BY <1>1, <1>2, <2>1, IdleFlight DEF GroupsKnown
<1>7. ASSUME NEW p \in Pods, ExecutePod(p)  PROVE FlightInv'
  <2>1. UNCHANGED <<tgs, running, fifo>> /\ pc' = "check"
    BY <1>7 DEF ExecutePod, podVars, devVars
  <2>2. QED
    BY <1>1, <1>2, <2>1, IdleFlight DEF GroupsKnown
<1>8. QED
  BY <1>3, <1>4, <1>5, <1>6, <1>7 DEF Program

LEMMA CheckFlight ==
  ASSUME IInv, FlightInv, Check
  PROVE  FlightInv'
<1>1. UNCHANGED <<tgs, programs, running, fifo, podv>> /\ pc = "check"
  BY DEF Check, podVars, devVars
<1>2. GroupsKnown' /\ Tracked' /\ Once'
  BY <1>1 DEF FlightInv, GroupsKnown, Tracked, Once
<1>3. pc' = "scan" => scan' = podv
  BY DEF Check, BeginScan
<1>4. ASSUME NEW p \in Pods, pc' = "idle" \/ p \notin podv', NEW i \in DOMAIN tgs[p]
      PROVE  tgs[p][i].status # "LAUNCHED"
  <2>1. CASE p \notin podv
    BY <2>1 DEF FlightInv, Contained
  <2>2. CASE p \in podv /\ pc' = "idle"
    <3>1. AllFinished(p)
      BY <2>2 DEF Check, BeginScan
    <3>2. QED
      BY <1>4, <3>1 DEF AllFinished
  <2>3. QED
    BY <1>1, <1>4, <2>1, <2>2
<1>5. Contained'
  BY <1>1, <1>3, <1>4 DEF Contained
<1>6. QED
  BY <1>2, <1>5 DEF FlightInv

\* The scan leaves the tiles as they are, unless it launches.
LEMMA ScanFlight ==
  ASSUME IInv, FlightInv, pc = "scan", ScanSkip(ScanPod) \/ ScanEnd(ScanPod)
  PROVE  FlightInv'
<1>1. UNCHANGED <<tgs, programs, running, fifo, podv>> /\ pc' # "idle" /\ scan' \subseteq scan
  BY DEF ScanSkip, ScanEnd, Next1, podVars, devVars
<1>2. GroupsKnown' /\ Tracked' /\ Once'
  BY <1>1 DEF FlightInv, GroupsKnown, Tracked, Once
<1>3. Contained'
  BY <1>1 DEF FlightInv, Contained
<1>4. QED
  BY <1>2, <1>3 DEF FlightInv

LEMMA LaunchFlight ==
  ASSUME IInv, FlightInv, pc = "scan", ScanLaunch(ScanPod)
  PROVE  FlightInv'
<1> DEFINE p == ScanPod
           T == tgs[p]
           o == First(Origins(p, T[idx].dim))
           r == Running(p, idx, o)
<1>1. p \in Pods /\ p \in scan /\ T \in Seq(Group) /\ tgs \in [Pods -> Seq(Group)]
  BY ScanFacts DEF IInv, PodTyped
<1>2. /\ idx \in DOMAIN T /\ T[idx] \in Group /\ T[idx].status = "INITIALIZED"
      /\ T[idx].known
  BY <1>1 DEF ScanLaunch, Skip, FlightInv, GroupsKnown
<1>3. /\ tgs' = [tgs EXCEPT ![p][idx].origin = o, ![p][idx].status = "LAUNCHED"]
      /\ running' = running \cup {r} /\ UNCHANGED <<pc, scan, podv, programs, fifo>>
  BY <1>2 DEF ScanLaunch, Next1
<1>4. /\ DOMAIN tgs'[p] = DOMAIN T
      /\ tgs'[p][idx].status = "LAUNCHED" /\ tgs'[p][idx].origin = o /\ tgs'[p][idx].known
      /\ \A j \in DOMAIN T : j # idx => tgs'[p][j] = T[j]
      /\ \A q \in Pods : q # p => tgs'[q] = tgs[q]
  BY <1>1, <1>2, <1>3 DEF Group
<1>5. r.pod = p /\ r.tg = idx /\ r.origin = o /\ r.program = programs[p]
  BY DEF Running
<1>6. \A k \in running \cup fifo : k.pod \in Pods /\ ~(k.pod = p /\ k.tg = idx)
  BY <1>2 DEF IInv, DevTyped, FlightInv, Tracked
<1>7. GroupsKnown'
  BY <1>1, <1>4 DEF FlightInv, GroupsKnown
<1>8. Tracked'
  <2>1. ASSUME NEW k \in running \cup fifo
        PROVE  /\ k.tg \in DOMAIN tgs'[k.pod]
               /\ tgs'[k.pod][k.tg].status = "LAUNCHED"
               /\ tgs'[k.pod][k.tg].origin = k.origin
               /\ k.program = programs'[k.pod]
    <3>1. /\ k.tg \in DOMAIN tgs[k.pod] /\ tgs[k.pod][k.tg].status = "LAUNCHED"
          /\ tgs[k.pod][k.tg].origin = k.origin /\ k.program = programs[k.pod]
          /\ k.pod \in Pods /\ ~(k.pod = p /\ k.tg = idx)
      BY <1>6 DEF FlightInv, Tracked
    <3>2. CASE k.pod = p
      <4>1. tgs'[k.pod][k.tg] = tgs[k.pod][k.tg] /\ DOMAIN tgs'[k.pod] = DOMAIN tgs[k.pod]
        BY <1>4, <3>1, <3>2
      <4>2. QED
        BY <1>3, <3>1, <4>1
    <3>3. CASE k.pod # p
      <4>1. tgs'[k.pod] = tgs[k.pod]
        BY <1>4, <3>1, <3>3
      <4>2. QED
        BY <1>3, <3>1, <4>1
    <3>4. QED
      BY <3>2, <3>3
  <2>2. /\ r.tg \in DOMAIN tgs'[r.pod] /\ tgs'[r.pod][r.tg].status = "LAUNCHED"
        /\ tgs'[r.pod][r.tg].origin = r.origin /\ r.program = programs'[r.pod]
    BY <1>2, <1>3, <1>4, <1>5
  <2> HIDE DEF r
  <2>3. \A k \in running' \cup fifo' : k \in running \cup fifo \/ k = r
    BY <1>3
  <2>4. QED
    BY <2>1, <2>2, <2>3 DEF Tracked
<1>9. Once'
  <2>1. r \notin running \cup fifo
    BY <1>5, <1>6
  <2>2. QED
    BY <1>3, <1>5, <1>6, <2>1 DEF FlightInv, Once
<1>10. Contained'
  <2>1. p \in podv
    BY <1>1 DEF FlightInv, Contained
  <2>2. ASSUME NEW q \in Pods, q \notin podv, NEW i \in DOMAIN tgs'[q]
        PROVE  tgs'[q][i].status # "LAUNCHED"
    BY <1>4, <2>1, <2>2 DEF FlightInv, Contained
  <2>3. QED
    BY <1>3, <2>2 DEF FlightInv, Contained
<1>11. QED
  BY <1>7, <1>8, <1>9, <1>10 DEF FlightInv

\* Two placed groups have different origins, so that the group a packet is
\* taken for is the one that sent it.
LEMMA TakenSent ==
  ASSUME IInv, FlightInv, NEW k \in fifo, WaitFinish(k)
  PROVE  Taken(k) = k.tg /\ k.tg \in DOMAIN tgs[k.pod] /\ k.pod \in Pods
<1> DEFINE p == k.pod
           T == tgs[p]
           i == Taken(k)
<1>1. p \in Pods /\ T \in Seq(Group)
  BY DEF IInv, DevTyped, PodTyped
<1>2. i \in Matching(k)
  <2>1. Matching(k) # {}
    BY Zenon DEF WaitFinish, Matching
  <2>2. \A j \in DOMAIN T : j \in Nat
    BY <1>1
  <2>3. Matching(k) \in SUBSET Nat
    BY <2>2 DEF Matching
  <2>4. QED
    BY <2>1, <2>3, LeastExists DEF Taken
<1>3. i \in DOMAIN T /\ T[i].status = "LAUNCHED" /\ T[i].origin = k.origin
  BY <1>2 DEF Matching, Matches
<1>4. k.tg \in DOMAIN T /\ T[k.tg].status = "LAUNCHED" /\ T[k.tg].origin = k.origin
  BY DEF FlightInv, Tracked
<1>5. ASSUME NEW j \in DOMAIN T, T[j].status = "LAUNCHED", T[j].origin = k.origin
      PROVE  j \in HeldIn(T) /\ k.origin \in TilesIn(T, j)
  <2>1. T[j].dim \in Dims /\ T[j] \in Group
    BY <1>1, <1>5 DEF IInv, PodInv, PodOK, Known
  <2>2. k.origin \in Nat \X Nat /\ T[j].dim[1] >= 1 /\ T[j].dim[2] >= 1
        /\ T[j].dim[1] \in Nat /\ T[j].dim[2] \in Nat
    BY <1>5, <2>1, MeshFacts DEF Dims, Group
  <2>3. k.origin = <<k.origin[1] + 0, k.origin[2] + 0>> /\ 0 \in 0 .. T[j].dim[1] - 1
        /\ 0 \in 0 .. T[j].dim[2] - 1
    BY <2>2
  <2>4. k.origin \in Rect(k.origin, T[j].dim)
    BY <2>3 DEF Rect
  <2>5. QED
    BY <1>5, <2>4 DEF HeldIn, Held, TilesIn
<1>6. i \in HeldIn(T) /\ k.tg \in HeldIn(T) /\ k.origin \in TilesIn(T, i) \cap TilesIn(T, k.tg)
  BY <1>3, <1>4, <1>5
<1>7. Owned(T, busy[p])
  BY <1>1 DEF IInv, PodInv, PodOK
<1>8. QED
  BY <1>1, <1>4, <1>6, <1>7 DEF Owned

LEMMA WaitFinishFlight ==
  ASSUME IInv, FlightInv, NEW k \in fifo, WaitFinish(k)
  PROVE  FlightInv'
<1> DEFINE p == k.pod
           T == tgs[p]
           i == k.tg
<1>1. p \in Pods /\ T \in Seq(Group) /\ i \in DOMAIN T /\ T[i] \in Group
      /\ tgs \in [Pods -> Seq(Group)] /\ i = Taken(k)
  <2>1. p \in Pods /\ i \in DOMAIN T /\ i = Taken(k)
    BY TakenSent
  <2>2. QED
    BY <2>1 DEF IInv, PodTyped
<1>2. tgs' = [tgs EXCEPT ![p][i].status = "FINISHED", ![p][i].grid = 0,
                         ![p][i].dim = <<0, 0>>, ![p][i].origin = <<0, 0>>]
  <2>1. tgs' = [tgs EXCEPT ![p][Taken(k)].status = "FINISHED", ![p][Taken(k)].grid = 0,
                           ![p][Taken(k)].dim = <<0, 0>>, ![p][Taken(k)].origin = <<0, 0>>]
    BY DEF WaitFinish, Matching, Taken
  <2>2. QED
    BY <1>1, <2>1
<1>3. /\ DOMAIN tgs'[p] = DOMAIN T /\ tgs'[p][i].status = "FINISHED"
      /\ tgs'[p][i].known = T[i].known
      /\ \A j \in DOMAIN T : j # i => tgs'[p][j] = T[j]
      /\ \A q \in Pods : q # p => tgs'[q] = tgs[q]
  BY <1>1, <1>2 DEF Group
<1>4. fifo' = fifo \ {k} /\ UNCHANGED <<running, programs, podv>> /\ pc = "wait"
  BY DEF WaitFinish
<1>5. \A r \in running' \cup fifo' : r \in running \cup fifo /\ r.pod \in Pods /\ ~(r.pod = p /\ r.tg = i)
  BY <1>4 DEF IInv, DevTyped, FlightInv, Once
<1>6. GroupsKnown'
  BY <1>1, <1>3 DEF FlightInv, GroupsKnown
<1>7. Tracked'
  BY <1>3, <1>4, <1>5 DEF FlightInv, Tracked
<1>8. Once'
  BY <1>4 DEF FlightInv, Once
<1>9. Contained'
  <2>1. p \in podv
    BY <1>1, <1>4 DEF FlightInv, Contained, Tracked
  <2>2. pc' # "idle" /\ (pc' = "scan" => scan' = {p})
    BY DEF WaitFinish, BeginScan, Rescan
  <2>3. ASSUME NEW q \in Pods, q \notin podv, NEW j \in DOMAIN tgs'[q]
        PROVE  tgs'[q][j].status # "LAUNCHED"
    BY <1>3, <2>1, <2>3 DEF FlightInv, Contained
  <2>4. QED
    BY <1>4, <2>1, <2>2, <2>3 DEF Contained
<1>10. QED
  BY <1>6, <1>7, <1>8, <1>9 DEF FlightInv

\* A packet that is dropped, or that a group sends, leaves the host as it is.
LEMMA PacketFlight ==
  ASSUME IInv, FlightInv,
         \/ \E k \in fifo : WaitDrop(k)
         \/ \E r \in running : TileGroupDone(r)
         \/ UNCHANGED vars
  PROVE  FlightInv'
<1>1. UNCHANGED <<tgs, programs, pc, scan, podv>>
  BY DEF WaitDrop, TileGroupDone, vars, podVars, hostVars
<1>2. /\ running' \cup fifo' \subseteq running \cup fifo
      /\ running' \cap fifo' = {}
  BY DEF WaitDrop, TileGroupDone, vars, devVars, FlightInv, Once
<1>3. QED
  BY <1>1, <1>2 DEF FlightInv, GroupsKnown, Tracked, Once, Contained

\* Packets, the groups they are of and the executions they belong to, when no
\* launch fails for want of the kernel.
LEMMA FlightInvariant ==
  ASSUME AllKnown
  PROVE  Spec => [](IInv /\ FlightInv)
<1>1. Init => FlightInv
  <2>1. SUFFICES ASSUME Init PROVE FlightInv
    OBVIOUS
  <2>2. GroupsKnown /\ Contained
    BY <2>1 DEF Init, GroupsKnown, Contained
  <2>3. Tracked /\ Once
    BY <2>1 DEF Init, Tracked, Once
  <2>4. QED
    BY <2>2, <2>3 DEF FlightInv
<1>2. IInv /\ IInv' /\ FlightInv /\ [Next]_vars => FlightInv'
  <2>1. SUFFICES ASSUME IInv, IInv', FlightInv, [Next]_vars  PROVE FlightInv'
    OBVIOUS
  <2>2. CASE Program
    BY <2>1, <2>2, ProgramFlight
  <2>3. CASE Check
    BY <2>1, <2>3, CheckFlight
  <2>4. CASE Scan
    BY <2>1, <2>4, ScanFlight, LaunchFlight DEF Scan
  <2>5. ASSUME NEW k \in fifo, WaitFinish(k)  PROVE FlightInv'
    BY <2>1, <2>5, WaitFinishFlight
  <2>6. CASE (\E k \in fifo : WaitDrop(k)) \/ (\E r \in running : TileGroupDone(r)) \/ UNCHANGED vars
    BY <2>1, <2>6, PacketFlight
  <2>7. QED
    BY <2>1, <2>2, <2>3, <2>4, <2>5, <2>6 DEF Next, Host, Wait
<1>3. QED
  BY <1>1, <1>2, SchedulerInvariant, PTL DEF Spec

\* When every kernel that is enqueued is in its binary, a tile group is taken
\* for finished only on the packet it sent itself: launched groups have
\* different origins, and no packet outlives an execution.
THEOREM FinishesAreReal ==
  ASSUME AllKnown
  PROVE  Spec => FinishIsReal
<1>1. IInv /\ FlightInv /\ [Next]_vars =>
        [\A p \in Pods : \A i \in DOMAIN tgs[p] :
           tgs[p][i].status = "LAUNCHED" /\ i \in DOMAIN tgs'[p] /\ tgs'[p][i].status = "FINISHED"
             => \E k \in fifo \ fifo' : k.pod = p /\ k.tg = i /\ k.program = programs[p]]_vars
  <2> DEFINE Sent(p, i) == \E k \in fifo \ fifo' : k.pod = p /\ k.tg = i /\ k.program = programs[p]
             Finishes(p, i) == /\ tgs[p][i].status = "LAUNCHED" /\ i \in DOMAIN tgs'[p]
                               /\ tgs'[p][i].status = "FINISHED"
  <2>0. SUFFICES ASSUME IInv, FlightInv, Next
        PROVE  \A p \in Pods : \A i \in DOMAIN tgs[p] : Finishes(p, i) => Sent(p, i)
    OBVIOUS
  <2>1. SUFFICES ASSUME NEW p \in Pods, NEW i \in DOMAIN tgs[p], Finishes(p, i)
        PROVE  Sent(p, i)
    OBVIOUS
  <2>2. pc # "idle"
    BY <2>0, <2>1, IdleQuiet
  <2>3. tgs' # tgs
    BY <2>0, <2>1
  <2>4. ~Program /\ ~Check /\ ~\E r \in running : TileGroupDone(r)
    BY <2>2, <2>3 DEF Program, Rest, ProgramInit, ProgramFinish, ExecutePod, ExecutePods,
                      Enqueue, Check, TileGroupDone, podVars
  <2>5. ~Scan
    <3>1. SUFFICES ASSUME Scan PROVE FALSE
      OBVIOUS
    <3>2. pc = "scan" /\ ScanLaunch(ScanPod)
      BY <2>3, <3>1 DEF Scan, ScanSkip, ScanEnd, podVars
    <3> DEFINE q == ScanPod
               o == First(Origins(q, tgs[q][idx].dim))
               s == IF tgs[q][idx].known THEN "LAUNCHED" ELSE "ALLOCATED"
    <3>3. q \in Pods /\ idx \in DOMAIN tgs[q] /\ tgs[q][idx] \in Group
          /\ tgs \in [Pods -> Seq(Group)]
      BY <2>0, <2>1, <3>2, ScanFacts DEF ScanLaunch, IInv, PodTyped
    <3>4. tgs' = [tgs EXCEPT ![q][idx].origin = o, ![q][idx].status = s]
      BY <3>2 DEF ScanLaunch
    <3> HIDE DEF o
    <3>5. tgs'[q][idx].status = s /\ \A j \in DOMAIN tgs[q] : j # idx => tgs'[q][j] = tgs[q][j]
      BY <3>3, <3>4 DEF Group
    <3>6. \A r \in Pods : r # q => tgs'[r] = tgs[r]
      BY <3>3, <3>4
    <3>7. QED
      BY <2>0, <2>1, <3>5, <3>6
  <2>6. PICK k \in fifo : WaitFinish(k) \/ WaitDrop(k)
    BY <2>0, <2>1, <2>4, <2>5 DEF Next, Host, Wait
  <2>7. WaitFinish(k)
    BY <2>3, <2>6 DEF WaitDrop, podVars
  <2>8. Taken(k) = k.tg /\ k.tg \in DOMAIN tgs[k.pod] /\ k.pod \in Pods
    BY <2>0, <2>1, <2>7, TakenSent
  <2>9. k.pod = p /\ k.tg = i
    <3>1. tgs' = [tgs EXCEPT ![k.pod][k.tg].status = "FINISHED", ![k.pod][k.tg].grid = 0,
                             ![k.pod][k.tg].dim = <<0, 0>>, ![k.pod][k.tg].origin = <<0, 0>>]
      <4>1. tgs' = [tgs EXCEPT ![k.pod][Taken(k)].status = "FINISHED", ![k.pod][Taken(k)].grid = 0,
                               ![k.pod][Taken(k)].dim = <<0, 0>>, ![k.pod][Taken(k)].origin = <<0, 0>>]
        BY <2>7 DEF WaitFinish, Matching, Taken
      <4>2. QED
        BY <2>8, <4>1
    <3>2. tgs \in [Pods -> Seq(Group)]
      BY <2>0, <2>1 DEF IInv, PodTyped
    <3>3. /\ \A r \in Pods : r # k.pod => tgs'[r] = tgs[r]
          /\ \A j \in DOMAIN tgs[k.pod] : j # k.tg => tgs'[k.pod][j] = tgs[k.pod][j]
      BY <2>8, <3>1, <3>2
    <3>4. QED
      BY <2>0, <2>1, <3>3
  <2>10. k \in fifo \ fifo' /\ k.program = programs[p]
    BY <2>0, <2>1, <2>7, <2>9 DEF WaitFinish, FlightInv, Tracked
  <2>11. QED
    BY <2>9, <2>10
<1>2. QED
  BY <1>1, FlightInvariant, PTL DEF Spec, FinishIsReal

\* When every kernel that is enqueued is in its binary, an execution that
\* returns has completed all its tile groups.
THEOREM ExecutionsComplete ==
  ASSUME AllKnown
  PROVE  Spec => ExecuteCompletes
<1>1. IInv /\ FlightInv /\ [Next]_vars =>
        [pc = "check" /\ pc' = "idle" => \A r \in running : r.pod \notin podv]_vars
  <2>1. SUFFICES ASSUME IInv, FlightInv, Next, pc = "check", pc' = "idle",
                        NEW r \in running, r.pod \in podv
        PROVE  FALSE
    BY Zenon
  <2>2. ~Program /\ ~Scan /\ ~Wait /\ ~\E k \in running : TileGroupDone(k)
    BY <2>1 DEF Program, Rest, ProgramInit, ProgramFinish, ExecutePod, ExecutePods, Enqueue,
                Scan, Wait, WaitFinish, WaitDrop, TileGroupDone, hostVars
  <2>3. Check
    BY <2>1, <2>2 DEF Next, Host
  <2>4. AllFinished(r.pod)
    BY <2>1, <2>3 DEF Check, BeginScan
  <2>5. QED
    BY <2>1, <2>4 DEF AllFinished, FlightInv, Tracked
<1>2. QED
  BY <1>1, FlightInvariant, PTL DEF Spec, ExecuteCompletes
=============================================================================
