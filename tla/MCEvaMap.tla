------------------------------ MODULE MCEvaMap ------------------------------
(***************************************************************************)
(* EvaMap on four pods of 2x2 tiles.                                       *)
(***************************************************************************)
EXTENDS EvaMap

TheHost == <<Cols, 0>>

Request(kind, org, src, eva, sz) ==
  [kind |-> kind, dma |-> FALSE, org |-> org, src |-> src, eva |-> eva, sz |-> sz]

Kinds == {"read", "write", "memset"}

\* The DRAM of two pods, from the inside of stripes, over the end with the DRAM off (8) and on (16).
DramRequests ==
  {Request(k, VcoreBase, Origin(pod), DramBit + a, n) :
     k \in Kinds, pod \in {<<0, 0>>, <<1, 1>>}, a \in {0, 3, 7, 12, 14, 16}, n \in {1, 5}}

\* Tiles seen from a tile of a group: itself, its group, and any tile.
TileRequests ==
  LET org == <<2, 2>>
      src == <<3, 2>>
  IN {Request(k, org, src, e, n) :
        k \in Kinds, n \in {1, 2},
        e \in {0, 1, 4, 5}
          \cup {GroupBit + x * EpaSpan + y * EpaSpan * GroupXs + a :
                  x \in {0, 1}, y \in {1}, a \in {1, 5}}
          \cup {GlobalBit + co[1] * GlobalEpaSpan + co[2] * GlobalEpaSpan * GlobalXs :
                  co \in {<<3, 2>>, <<5, 7>>}}}

\* The tiles of a group of another pod, seen from its origin: beside the first
\* pod, where only the first column is within reach, and in another row of pods.
GroupRequests ==
  {Request(k, org, org, GroupBit + x * EpaSpan + a, 2) :
     k \in Kinds, org \in {Origin(<<1, 0>>), Origin(<<1, 1>>)}, x \in {0, 1}, a \in {0, 5}}

\* DMA of several stripes of a pod, which meet in the same memories.
DmaRequests ==
  {[Request(k, VcoreBase, Origin(pod), DramBit + a, 5) EXCEPT !.dma = TRUE] :
     k \in {"read", "write"}, pod \in {<<0, 0>>, <<1, 1>>}, a \in {3, 12}}

AllRequests == DramRequests \cup TileRequests \cup GroupRequests \cup DmaRequests

\* Sixteen banks on four memories of DRAMSim3: four banks of four words each,
\* stripes at the bottom and the rows below the columns.
TheFields ==
  << [bits |-> 1, bitidx |-> 1], [bits |-> 0, bitidx |-> 0], [bits |-> 1, bitidx |-> 3],
     [bits |-> 1, bitidx |-> 2], [bits |-> 1, bitidx |-> 0] >>
=============================================================================
