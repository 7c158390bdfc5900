------------------------------- MODULE DmaMap -------------------------------
(***************************************************************************)
(* Where a bank's words lie in the memories of the simulation, which a DMA *)
(* transfer reads and writes behind the caches' backs                      *)
(* (features/dma/simulation/bsg_manycore_dma.cpp, bsg_manycore_memsys.c).  *)
(*                                                                         *)
(* A memory (a channel) holds several banks.  Three machines have a map    *)
(* from banks to memories of their own, every other machine the default;   *)
(* memory systems with DRAMSim3 also permute the address of each word.     *)
(* The caches' own path to the memories is external and takes it that the  *)
(* maps agree with it.                                                     *)
(***************************************************************************)
EXTENDS PodGeometry, SequencesExt

CONSTANTS
  Memsys,       \* the memory system, as the ROM names it
  Channels,     \* memories
  MemoryWords,  \* words of a memory
  Fields        \* row, bank group, bank, column and offset of an address in
                \* a memory: where each lies in the address a cache sends

ASSUME MemsysAssumption ==
  /\ Memsys \in {"axi4", "infmem", "dramsim3", "testmem", "hbm2"}
  /\ Channels \in Nat \ {0} /\ MemoryWords \in Nat \ {0}
  /\ \A i \in DOMAIN Fields : Fields[i].bits \in Nat /\ Fields[i].bitidx \in Nat

\* hb_mc_vcache_num_caches
NumCaches == PodsX * PodsY * 2 * Cols
CachesPerChannel == NumCaches \div Channels

\* hb_mc_dma_init chooses by the memory system and the shape; "none" is a
\* machine without DMA.
DmaKind ==
  IF Cols # 16 \/ Rows # 8 \/ Memsys \notin {"hbm2", "testmem"} THEN "default"
  ELSE IF Memsys = "hbm2" /\ <<PodsX, PodsY>> = <<4, 4>> THEN "hbm_4x4"
  ELSE IF Memsys = "hbm2" /\ <<PodsX, PodsY>> = <<1, 1>> THEN "hbm_1x1"
  ELSE IF Memsys = "testmem" /\ <<PodsX, PodsY>> = <<4, 4>> THEN "test_mem_4x4"
  ELSE "none"

Side(co) == IF IsNorth(co) THEN 0 ELSE 1
Column(co) == co[1] - VcoreBase[1]

\* Quads of pods on quads of memories; a memory for each side of a pod.
QuadMemory(co) ==
  LET pod == PodOf(co)
  IN (pod[1] \div 2) * 16 + (pod[2] \div 2) * 8 + (pod[2] % 2) * 4 + (pod[1] % 2) * 2 + Side(co)

\* One pod: a memory for the eastern half, north and south, and one for the
\* western half.
East(co) == Column(co) >= Cols \div 2
HalfBank(co) ==
  IF East(co) THEN Column(co) - (IF IsNorth(co) THEN Cols \div 2 ELSE 0)
              ELSE Column(co) + (IF IsNorth(co) THEN 0 ELSE Cols \div 2)

\* Test memories: for each half of the machine, row of pods and side of it, one
\* for the even columns and one for the odd.
EastPod(co) == PodOf(co)[1] >= PodsX \div 2
TestMemory(co) ==
  LET perRow == 2 * (PodsX \div 2)
  IN (IF EastPod(co) THEN Channels \div 2 ELSE 0)
       + PodOf(co)[2] * perRow + (perRow \div 2) * Side(co) + (co[1] % 2)
TestBank(co) == (Column(co) - (IF EastPod(co) THEN (Cols * PodsX) \div 2 ELSE 0)) \div 2

MemoryId(co) ==
  CASE DmaKind = "hbm_4x4" -> QuadMemory(co)
    [] DmaKind = "hbm_1x1" -> IF East(co) THEN 1 ELSE 0
    [] DmaKind = "test_mem_4x4" -> TestMemory(co)
    [] OTHER -> DramId(co) \div CachesPerChannel

BankId(co) ==
  CASE DmaKind = "hbm_1x1" -> HalfBank(co)
    [] DmaKind = "test_mem_4x4" -> TestBank(co)
    [] OTHER -> DramId(co) % CachesPerChannel

\* bitfield_get
FieldOf(f, a) == (a \div (2 ^ f.bitidx)) % (2 ^ f.bits)

\* hb_mc_memsys_map_to_physical_channel_address: the fields, one after the
\* other.
PhysicalAddress(a) ==
  IF Memsys \in {"dramsim3", "hbm2"}
    THEN FoldLeft(LAMBDA acc, f : acc * (2 ^ f.bits) + FieldOf(f, a), 0, Fields)
    ELSE a

\* hb_mc_dma_npa_to_buffer: the place of word e of a bank.
MemoryPlace(co, e) ==
  [memory |-> MemoryId(co),
   at |-> PhysicalAddress(BankId(co) * (MemoryWords \div CachesPerChannel) + e)]

\* Every bank has a slot of its own in a memory that exists.
MapsApart ==
  /\ \A co \in Banks : MemoryId(co) \in 0 .. Channels - 1 /\ BankId(co) \in 0 .. CachesPerChannel - 1
  /\ \A co, other \in Banks :
       MemoryId(co) = MemoryId(other) /\ BankId(co) = BankId(other) => co = other
=============================================================================
