---------------------------- MODULE PodGeometry ----------------------------
(***************************************************************************)
(* The layout of a HammerBlade machine on the network                      *)
(* (bsg_manycore_config_pod.h): pods of tiles in the odd rows of network   *)
(* pods, their DRAM banks in the rows just north and just south of them.   *)
(***************************************************************************)
EXTENDS Integers

CONSTANTS
  PodsX, PodsY,  \* the pods of the machine
  Cols, Rows,    \* the tiles of a pod: 2^width of a tile coordinate
  Host           \* the coordinate of the host interface

PowersOfTwo == {2 ^ n : n \in 0 .. 20}

ASSUME LayoutAssumption ==
  PodsX \in Nat \ {0} /\ PodsY \in Nat \ {0} /\ {Cols, Rows} \subseteq PowersOfTwo /\ Host[2] = 0

\* Pods of one row would have the north bank of one in the row of the south bank
\* of the next; no machine of the repository has them.
ASSUME TilesAssumption == Cols \in Nat \ {0} /\ Rows \in Nat \ {0, 1} /\ Host \in Nat \X Nat

Pods == (0 .. PodsX - 1) \X (0 .. PodsY - 1)

Origin(pod) == <<Cols + Cols * pod[1], Rows + 2 * Rows * pod[2]>>

VcoreBase == Origin(<<0, 0>>)

NPod(co) == <<co[1] \div Cols, co[2] \div Rows>>
TileInPod(co) == <<co[1] % Cols, co[2] % Rows>>

IsVcore(co) == NPod(co)[2] % 2 = 1
IsNorth(co) == TileInPod(co)[2] = Rows - 1 /\ NPod(co)[2] % 2 = 0

\* Mutant: the row of the host is not left out.
IsSouthAnyRow(co) == TileInPod(co)[2] = 0 /\ NPod(co)[2] % 2 = 0

IsSouth(co) == TileInPod(co)[2] = 0 /\ NPod(co)[2] % 2 = 0 /\ co[2] # Host[2]
IsDram(co) == IsNorth(co) \/ IsSouth(co)

PodOf(co) ==
  CASE IsVcore(co) \/ IsNorth(co) -> <<NPod(co)[1] - 1, NPod(co)[2] \div 2>>
    [] IsSouth(co) -> <<NPod(co)[1] - 1, (NPod(co)[2] \div 2) - 1>>
    [] OTHER -> <<0, 0>>

\* The identifier of a bank (a pod's index is counted column by column).
DramId(co) ==
  LET pod == PodOf(co)
  IN (pod[1] * PodsY + pod[2]) * (2 * Cols)
     + TileInPod(co)[1] + (IF IsNorth(co) THEN 0 ELSE Cols)

\* The bank with an identifier.
Dram(id) ==
  LET index == id \div (2 * Cols)
      og == Origin(<<index \div PodsY, index % PodsY>>)
      bank == id % (2 * Cols)
  IN <<og[1] + (bank % Cols), og[2] + (IF bank \div Cols = 1 THEN Rows ELSE -1)>>

Banks == {Dram(id) : id \in 0 .. PodsX * PodsY * 2 * Cols - 1}

TilesOf(pod) ==
  {<<Origin(pod)[1] + i, Origin(pod)[2] + j>> : i \in 0 .. Cols - 1, j \in 0 .. Rows - 1}
Tiles == UNION {TilesOf(pod) : pod \in Pods}
=============================================================================
