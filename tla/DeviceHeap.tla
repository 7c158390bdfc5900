----------------------------- MODULE DeviceHeap -----------------------------
(***************************************************************************)
(* The memory of the pods as the CUDA-Lite runtime hands it out            *)
(* (bsg_manycore_cuda.cpp, bsg_manycore_cuda_legacy_replicate.cpp).        *)
(*                                                                         *)
(* Each pod has its own memory manager.  The library that replicates a     *)
(* program on every pod makes a malloc of the device one malloc per pod    *)
(* and wants the same address from all of them, since a pointer is then    *)
(* used in every pod.  The pods run their tile groups each at their own    *)
(* pace, and the runtime takes the arguments of a group from the same      *)
(* managers when it launches the group and gives them back when the group  *)
(* has finished.  With one pod this is the library that does not           *)
(* replicate.                                                              *)
(*                                                                         *)
(* A manager counts in 64 bits; the addresses (EVAs) of the runtime have   *)
(* 32.                                                                     *)
(***************************************************************************)
EXTENDS MemoryManager

CONSTANTS
  Pods,        \* pods of the device
  DefaultPod,  \* device->default_pod_id
  DramBase,    \* first address of a pod's DRAM
  PodDram,     \* size of a pod's DRAM
  Ends,        \* where programs may end in DRAM (_bsg_dram_end_addr)
  Sizes,       \* sizes a program may ask for
  ArgvSizes,   \* sizes of the arguments of a kernel
  MaxGroups,   \* bound on the tile groups a pod runs at once
  EvaMod       \* 2^32, or what stands for it

ASSUME PodsAssumption == IsFiniteSet(Pods) /\ DefaultPod \in Pods /\ MaxGroups \in Nat
ASSUME DramAssumption ==
  /\ DramBase \in Nat /\ PodDram \in Nat \ {0}
  /\ Ends \subseteq DramBase .. DramBase + PodDram - 1
  /\ \A end \in Ends : end + Align < EvaMod
ASSUME SizesAssumption == Sizes \subseteq Nat /\ ArgvSizes \subseteq Nat
ASSUME NullAssumption == EvaMod \in Nat \ {0} /\ Null >= EvaMod

VARIABLES
  heap,    \* per pod: the memory manager of its program
  groups,  \* per pod: argv_eva of the tile groups launched and not finished
  argv,    \* size of the arguments of the kernel being executed; 0: none
  held     \* ghost: EVAs hb_mc_device_malloc returned with HB_MC_SUCCESS and
           \* the sizes asked for, until the program frees them

vars == <<heap, groups, argv, held>>

\* A pod with no program: program_loaded is 0.
NoProgram == [start |-> 0, size |-> 0, free |-> <<>>, busy |-> {}, freeSize |-> 0]

Init ==
  /\ heap = [p \in Pods |-> NoProgram]
  /\ groups = [p \in Pods |-> {}]
  /\ argv = 0
  /\ held = {}

\* The host thread is in no execution.
Idle == argv = 0

\* Calls that need a program find one.
Loaded == heap[DefaultPod] # NoProgram

\* The first block boundary after the program's end, a whole block further
\* when the program ends on one.
HeapStart(end) == end + Align - (end % Align)

\* hb_mc_config_get_dram_size: the banks of all the pods.
DramSize == PodDram * Cardinality(Pods)

ASSUME WholeUnits == DramSize % Align = 0

\* hb_mc_device_program_init: a new program, with a new manager, on every pod,
\* whether or not the pod still has one.
ProgramInit(end) ==
  /\ Idle /\ ~Loaded
  /\ heap' = [p \in Pods |-> Manager(HeapStart(end), DramSize)]
  /\ held' = {}
  /\ UNCHANGED <<groups, argv>>

\* hb_mc_device_program_finish: the program of the default pod only.
ProgramFinish ==
  /\ Idle /\ Loaded
  /\ heap' = [heap EXCEPT ![DefaultPod] = NoProgram]
  /\ held' = {}
  /\ UNCHANGED <<groups, argv>>

\* hb_mc_device_finish: the programs of all the pods.
DeviceFinish ==
  /\ Idle
  /\ heap' = [p \in Pods |-> NoProgram]
  /\ held' = {}
  /\ UNCHANGED <<groups, argv>>

\* hb_mc_device_pod_malloc.  The manager's answer is cut to the width of an
\* EVA before it is compared with mNull, which no EVA equals: it never fails.
PodMalloc(p, n) == AllocAt(heap[p], n) % EvaMod

\* Mutant: the answers of the pods are not compared.
SameInAllPodsUnchecked(evas) == TRUE

SameInAllPods(evas) == \A p \in Pods : evas[p] = evas[DefaultPod]

\* hb_mc_device_malloc: when the pods disagree the call fails, and the blocks
\* stay allocated.
DeviceMalloc(n) ==
  /\ Idle /\ Loaded
  /\ LET evas == [p \in Pods |-> PodMalloc(p, n)]
     IN held' = IF SameInAllPods(evas) THEN held \cup {<<evas[DefaultPod], n>>} ELSE held
  /\ heap' = [p \in Pods |-> Alloc(heap[p], n)]
  /\ UNCHANGED <<groups, argv>>

\* hb_mc_device_free, of an address the program holds.
DeviceFree(eva) ==
  /\ Idle /\ Loaded
  /\ heap' = [p \in Pods |-> Free(heap[p], eva)]
  /\ held' = {h \in held : h[1] # eva}
  /\ UNCHANGED <<groups, argv>>

\* hb_mc_device_tile_groups_execute: every pod runs the groups of the kernel.
ExecuteBegin(n) ==
  /\ Idle /\ Loaded /\ argv' = n
  /\ UNCHANGED <<heap, groups, held>>

\* hb_mc_device_pod_tile_group_launch takes the group's arguments.
GroupLaunch(p) ==
  /\ ~Idle /\ Cardinality(groups[p]) < MaxGroups
  /\ groups' = [groups EXCEPT ![p] = @ \cup {PodMalloc(p, argv)}]
  /\ heap' = [heap EXCEPT ![p] = Alloc(@, argv)]
  /\ UNCHANGED <<argv, held>>

\* hb_mc_device_pod_tile_group_exit gives them back.
GroupExit(p, eva) ==
  /\ groups' = [groups EXCEPT ![p] = @ \ {eva}]
  /\ heap' = [heap EXCEPT ![p] = Free(@, eva)]
  /\ UNCHANGED <<argv, held>>

\* The execution returns when all the groups have finished.
ExecuteEnd ==
  /\ ~Idle /\ \A p \in Pods : groups[p] = {}
  /\ argv' = 0
  /\ UNCHANGED <<heap, groups, held>>

HeldEvas == {h[1] : h \in held}

Next ==
  \/ \E end \in Ends : ProgramInit(end)
  \/ ProgramFinish
  \/ DeviceFinish
  \/ \E n \in Sizes : DeviceMalloc(n)
  \/ \E eva \in HeldEvas : DeviceFree(eva)
  \/ \E n \in ArgvSizes : ExecuteBegin(n)
  \/ \E p \in Pods : GroupLaunch(p) \/ \E eva \in groups[p] : GroupExit(p, eva)
  \/ ExecuteEnd

Spec == Init /\ [][Next]_vars

(***************************************************************************)
(* Properties.                                                             *)
(***************************************************************************)

FreeBlocks(m) == ToSet(m.free)
AllBlocks(m)  == FreeBlocks(m) \cup m.busy
Extent(b)     == b[1] .. b[1] + b[2] - 1

\* Blocks are whole units, the free size is within the heap, and what the
\* program and the groups hold fits an EVA.
TypeOK ==
  /\ \A p \in Pods :
       /\ heap[p].start \in Nat /\ heap[p].size \in {0, DramSize}
       /\ heap[p].freeSize \in 0 .. DramSize
       /\ \A b \in AllBlocks(heap[p]) : b \in Nat \X (Nat \ {0}) /\ b[2] % Align = 0
       /\ groups[p] \subseteq 0 .. EvaMod - 1
  /\ argv \in {0} \cup ArgvSizes
  /\ held \subseteq (0 .. EvaMod - 1) \X Sizes

\* The free blocks and the blocks handed out are apart, and together they are
\* the heap: allocation, freeing and merging neither lose nor duplicate memory,
\* and mFreeSize stays the size of the free blocks.
Partitioned(m) ==
  /\ Cardinality(FreeBlocks(m)) = Len(m.free)
  /\ \A a, b \in AllBlocks(m) : a # b => Extent(a) \cap Extent(b) = {}
  /\ FreeBlocks(m) \cap m.busy = {}
  /\ UNION {Extent(b) : b \in AllBlocks(m)} = m.start .. m.start + m.size - 1
  /\ m.freeSize = FoldLeft(LAMBDA n, b : n + b[2], 0, m.free)

Partition == \A p \in Pods : Partitioned(heap[p])

\* The blocks each pod hands out obey the abstract heap.
Heap(p) == INSTANCE HeapSpec WITH
  heap <- <<heap[p].start, heap[p].size>>, blocks <- heap[p].busy

ImplementsHeap ==
  /\ \A p \in Pods : Heap(p)!Init
  /\ [][\A p \in Pods : [Heap(p)!Next]_<<heap[p].start, heap[p].size, heap[p].busy>>]_vars

\* Fragmentation is bounded: however the program allocates and frees, a pod
\* whose blocks have all been given back is in no more pieces than the threshold.
FewPieces == \A p \in Pods : heap[p].busy = {} => Len(heap[p].free) <= Threshold

\* The block of pod p behind an EVA that malloc returned: as large as asked for.
Backed(p, h) == \E b \in heap[p].busy : b[1] = h[1] /\ b[2] >= h[2]

\* An EVA that malloc returned with success is the start of a block handed out,
\* in every pod, whatever groups each pod has run.
HeldBacked == \A h \in held : \A p \in Pods : Backed(p, h)

\* The same for the EVAs that are addresses of the heap at all: programs use one
\* pointer in every pod, so the managers of the pods, which diverge as groups
\* finish in different orders, must have granted it everywhere.
ReplicatedBacked ==
  \A h \in held : h[1] # Null % EvaMod => \A p \in Pods : Backed(p, h)
=============================================================================
