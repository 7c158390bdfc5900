# A TLA+ verification of bsg_replicant

`bsg_f1` (bsg_replicant) is the host side of the HammerBlade manycore: a C/C++
library that talks to a mesh of RISC-V tiles through a pair of FIFOs behind a
PCIe bar (AWS F1) or through DPI calls into a simulator, and a CUDA-Lite runtime
on top that loads programs, allocates device memory, moves data, and runs grids
of tile groups. This directory models the parts of it where order, capacity and
interleaving decide whether it is right; it checks them with TLC and proves the
links, the life cycle, the tile-group scheduler, the allocator, the caches with
DMA and the address translation with TLAPS.

Paths below are relative to `src/libraries`; `F1/` stands for
`platforms/aws-fpga/`, `DPI/` for `platforms/dpi-verilator/`.

## 1. Inventory of the system

| Part | State it keeps | Operations | Talks to |
|---|---|---|---|
| Packet link (`bsg_manycore.cpp`, `F1/bsg_manycore_platform.cpp`, `F1/hardware/*.v`) | load ids in flight, cached transmit vacancy; in the bridge: word FIFOs, converters, free-word counter, read credits | read, write, read_mem, write_mem, memset, fence; transmit, receive | the network endpoint, MMIO |
| DPI platforms (`DPI/`, wrapped by the VCS ones) | the half of the cycle, one outgoing packet, room for responses | the same, by retry after each evaluation | simulator |
| Life cycle (`bsg_manycore.cpp`, platforms) | active ids, platform record, name | init, exit, drain, with an error path per stage | platform, responders |
| Responders (`bsg_manycore_responder.cpp`, ...) | a list of callbacks, their data | add, del, init, quit, respond | life cycle, request packets |
| Loader (`bsg_manycore_loader.cpp`, `bsg_manycore_elf.cpp`) | the ELF image | load segments to tiles, DRAM, instruction caches; symbol lookup | link, virtual addresses |
| Tile registers (`bsg_manycore_tile.cpp`) | in the tile: freeze, origin, initial pc | posted stores | loader, runtime |
| CUDA-Lite runtime (`bsg_manycore_cuda.cpp`) | pods, meshes of tiles, tile groups, kernels with reference counts | program init/finish, enqueue, execute a pod or a vector of pods | link (launch), finish packets of tiles, allocator, loader |
| Replicating runtime (`bsg_manycore_cuda_legacy_replicate.cpp`) | none of its own | the calls of the device, once per pod | runtime |
| Device allocator (`bsg_manycore_memory_manager.cpp`) | free list, busy list, free size, per pod | alloc, free, coalesce; init and exit per program | runtime |
| Virtual addresses (`bsg_manycore_eva.cpp`, `bsg_manycore_config_pod.h`) | an origin per map; the DRAM switch of the instance | EVA to NPA, NPA to EVA, eva_write/read/memset | link, runtime, DMA |
| Vector caches and DMA (`bsg_manycore.cpp`, `features/dma`, `bsg_manycore_memsys.c`) | none on the host: caches and DRAM are the state; the map from banks to memories | AFL/AINV/TAGFL/TAGST on a line, range or pod; DMA read and write, safe and raw; pod DMA | link (posted requests), simulated memory |
| MMIO, tracer, profiler, printing, regression | little or none | single accesses, switches | – |

**How they interact.** One host thread makes library calls; there is no lock and
no second thread in the library. All concurrency is between that thread, the
clocked bridge or the simulator, the network and the tiles. Results come back as
load responses (counted by credits) and as finish packets in the host's request
FIFO. The runtime places tile groups, and what it believes about the tiles is
only as good as the matching of those packets. Processes end, also in the middle
of a call, while the FPGA and its tiles keep what they had.

**What is hard to test.** Flow control based on a counter the host reads late;
a fence made of two separate reads; load ids used again while answers are out;
the error path of every stage of an init; stores to different tiles overtaking
each other while a program is replaced; tile groups of different shapes coming
and going on one mesh; finish packets from several pods in one FIFO, also after
a failure; a write-back cache between the host's DMA and the kernels; first-fit
allocation over long histories, in several pods that must agree; five copies of
the same address arithmetic; a host that died. The `hazards` of PROJECT.json
list these one by one with the line where each bites and the property that
watches it.

**What makes each part correct.** The links: never a word without room, packets
keep their framing, responses always find room, an answer lands in its place, a
fence proves the path empty, every call returns. The life cycle: one instance
owns the hardware, and starts on clean FIFOs. The loader: a tile runs only when
its whole program is in place. The runtime: a tile has one owner, no group is
taken for finished that is not, an execution that returns has completed, kernels
are freed once, no wait with work that fits. Caches and DMA: a read returns the
last write, however it was made. Allocator: blocks partition the heap, and one
pointer is good in every pod. Virtual addresses: each pod's DRAM is one flat
memory, and the inverse agrees with the translation.

## 2. Modules

```
LinkSpec   <-implements-  HostLink      <- MCHostLink, HostLink_proofs
           <-implements-  DpiLink       <- MCDpiLink, DpiLink_proofs
                          ManycoreLife  <- MCManycoreLife, ManycoreLife_proofs
                          ProgramLoad   <- MCProgramLoad, ProgramLoad_proofs
                          CudaPod       <- MCCudaPod, CudaPod_proofs
HeapSpec   <-implements-  DeviceHeap    <- MCDeviceHeap, DeviceHeap_proofs
                                           (over MemoryManager)
                          VCacheDma     <- MCVCacheDma, VCacheDma_proofs
FlatMemory <-implements-  EvaMap        <- MCEvaMap, EvaMap_proofs
                                           (over DmaMap, PodGeometry)
```

The `map` of PROJECT.json names the source lines of every definition. Definitions
under a comment `Mutant:` are not part of the model: each is a plausible bug in
the definition that follows it, kept to show that a property notices it.

### HostLink and LinkSpec: the packet link of the F1 platform

State: the host thread (`op`, `pc`, how many requests and responses the call has
done, the cached vacancy `tv`, the words left of the packet being written, the
two locals of the fence), the bridge (`fifo`, `sipo`, `vac`, `rdc`, `rspq`,
`piso`, and `txq`, the kinds of the packets it has been given) and the network
(`outc` credits, `nst` stores, `nld` loads). Each MMIO access is one step, so a
packet is written word by word and the fence reads its two registers at
different times, as `hb_mc_platform_transmit`, `_receive` and `_fence` do. The
steps of the bridge are `SipoTake`, `SendPacket` and `RspToPiso` of
`bsg_mcl_axil_fifos_master.v`; the endpoint is external and answers in any order.
The uninitialised locals of the fence take any value of the constant `Garbage`.
The code reads the F1 transmit vacancy as a count of words and divides it by the
words of a packet; a fraction makes the call fail, which is `pc = "failed"`.

`LinkSpec` has no FIFO and no counter: requests are posted, performed in any
order, answered once; a fencing call returns when all are performed. The
refinement maps queue lengths and packets in flight to its three counters.

### DpiLink: the link of the simulation platforms

The same calls, over an interface that accepts a call only in one half of each
cycle: transmit, receive and the credit read evaluate the simulator and try
again. Here loads carry their load id and word, `ids` is the stack of free ids
of `hb_mc_manycore_read_mem_internal`, `index` its table `id_to_rsp_i` and `data`
the caller's buffer, so that the model shows where every answer is put.
`ExpectResponse` is what the host tells the interface of each packet, which
decides how much room for answers is set aside. The fence is two reads,
`FenceCredits` and `FenceVacant`, and its correctness rests on there being no
evaluation between them: a retry goes back to the first read. The link refines
the same `LinkSpec` as HostLink.

### ManycoreLife: init, exit and what an instance inherits

`hb_mc_manycore_init` and `_exit` of several instances in one process, stage by
stage (`pc` names the stage), each able to fail into the code's own error path:
what it frees, what it leaves set (`name`, `platform`, `active_ids`) and what it
skips. On the FPGA an init drains the request FIFO in rounds and checks the
transmit vacancy; on a simulation it drains packets up to the capacity. `stale`
and `fresh` tell requests from before the init from later ones, `torn` is part
of a packet in the transmit FIFO. `Crash` ends the process at any moment: the
FPGA keeps its FIFOs, torn if the host was writing, a simulation dies with it.

### ProgramLoad: loading, launching and replacing programs

Each library function is a script of stores and fences built from the code's
order of calls, cut short where the function returns early (`LoaderLoad`,
`ProgramLoadScript`, `LaunchScript`, `FinishScript`; a loop is `Chain`, the scripts
of its rounds up to one that fails). Stores to tile registers
are posted and not fenced, writes to memories are fenced at their end, and the
network keeps the order to one destination only. Tiles run the start-up code,
wait for their kernel pointer, meet in the kernel, clear the pointer. A binary is
a record of sections and segments; sound and broken ones, with symbols in
different places, replace each other. What the linker script of the programs sees
to and the loader takes on trust is `IsLinked`: the segments that are loaded and
the symbols of a file do not lie on each other, a segment has no more words in the
file than in memory, and one that is no larger than the memory lies inside it (the
loader compares its size with the memory's, not its end). `Crash` ends the host
while tiles run.

### CudaPod: tile groups, kernels and finish packets

`Enqueue` makes a tile group per coordinate of the grid. `ExecutePod` and
`ExecutePods` are the loops of `hb_mc_device_pod_kernels_execute` and
`..._podv_kernels_execute`, whose order differs: the first looks whether it is
done before it scans, the second after. `ScanSkip`, `ScanLaunch` and `ScanEnd`
are the turns of `try_launch_tile_groups`, with the `last_failed` shape;
`WaitFinish` and `WaitDrop` take a packet from the FIFO and match it by status,
origin and finish EPA. `Release` is all of `deallocate_tiles` and
`tile_group_exit`. A kernel the binary lacks makes `ScanLaunch` fail after the
tiles and arguments were allocated, as in the code. Kernels run for any time and
their packets arrive in any order. What is written to the tiles is in
ProgramLoad.

### DeviceHeap, MemoryManager and HeapSpec: device memory

`MemoryManager` is the class of that name as operators on a record: first fit,
a freed block goes to the end of the list, the list is sorted and merged past a
threshold. `Sorted` puts each block in the place its `Rank` gives it, the number of
blocks that come before it: what `std::list::sort` does, without its steps. `DeviceHeap` gives one to each pod and models the callers: the
program's mallocs and frees through the replicating runtime, one call per pod
with the comparison of the answers, and the arguments of tile groups, taken at
launch and given back when the group ends, in each pod in its own order. With one
pod this is the runtime that does not replicate. The answer of a manager is cut
to 32 bits (`EvaMod`) before it is compared with the 64-bit `mNull`.
`program_finish` of the device finishes the default pod only, and the next
program init replaces the programs of all pods. `HeapSpec` grants aligned blocks
inside the heap, apart from each other; each pod implements it.

### VCacheDma: caches, cache operations and DMA

A call is the sequence of requests and transfers its loops produce, in order
(`FlushRange`, `InvalidateRange`, `ApplyToPod`, `DmaToDevice`, ...). The host
issues them one at a time; requests are posted and each cache serves its queue in
order, fills and evicts lines when it likes, and kernels store through it between
calls. The ghost `memory` is what the last write gave each word, and `got` pairs
each value read with it. `ApplyToRange` sends every operation of a range to the
same address because the code passes `npa`, not `line_npa`.

### EvaMap, DmaMap, PodGeometry and FlatMemory: virtual addresses

`PodGeometry` (`Origin`, `IsNorth`, `IsSouth`, `PodOf`, `DramId`, `Dram`) is
`bsg_manycore_config_pod.h`. In `EvaMap`, `EvaToNpa` and `NpaToEva` are
`default_eva_to_npa` and its inverse, with masks and shifts written as quotients
and remainders by powers of two, and words for bytes. A transfer is the loop of
`eva_write_internal`, `eva_read_internal` and `eva_memset`: translate, copy the
smaller of what is left and what is contiguous, go on; `SetDram` is the switch
that limits a bank to its cache. `Launch` computes the finish address that a tile
of the group is given. The address translation of the tile's hardware
(`TileStore`) is external. `DmaMap` is the map from banks to the simulated
memories of each machine of `hb_mc_dma_init` and the permutation of an address
inside a memory; a DMA transfer of EvaMap goes through it and must meet the words
the network writes. `FlatMemory` says what programs rely on: spaces that are flat
arrays, and calls that move consecutive words in order. The refinement mapping
deals a pod's stripes to its banks in the order of the *identifiers*
(`Dram(id)`), a different piece of code from the translation it is checked
against. It gives a group address the tile it names only as far as `GroupReach`
goes: `default_eva_to_npa_group` (`bsg_manycore_eva.cpp:243-264`) compares the
tile with the shape of one pod plus the base of the first, so it refuses the tiles
of a group in another pod, as "larger than current manycore configuration",
although they are there. Such an address is one of a space without words
(`OutOfReach`): the promise is kept for DRAM, global and local addresses of every
pod, and for group addresses up to that bound and no further.

## 3. Runs

| Run | Bounds | What it shows |
|---|---|---|
| `host_link_calls` | 2 words per packet, 3 host and endpoint credits, 3 load ids, calls of up to 9 words | `TransmitFlowControl`, `WholePackets`, `ReadCredits`, `LoadsAccounted`, `FenceDrains`, `ImplementsLink`; `CallsReturn` with three times more loads than credits, so host and bridge really wait for each other's FIFO |
| `host_link_fence_garbage` | as the first, the stack may hold the maxima | *violation* of `FenceDrains` |
| `dpi_link` | 4 endpoint credits, room for 3 answers, 3 load ids, calls of up to 5 words | `ReadsInPlace`, `ImplementsLink`, `CallsReturn` with ids used again while answers are out |
| `manycore_life` | 3 instances, both platforms, 2 drain rounds, a FIFO of 3 packets | `OneOwner`, `CleanStart`, `CallsReturn` |
| `program_load` | 2 tiles, groups of one and two, 7 kinds of first binary replaced by a second, 2 launches, 1 crash | `RunsWholeProgram`, `KernelSeesLaunch`, `RecoversFromCrash`, `LaunchCompletes` |
| `cuda_pod` | two pods of 2x2 tiles, shapes 2x1, 1x2 and 2x2, two invocations each | `TilesOwned`, `References`, `WaitsOnlyWhenFull`, `FinishIsReal`, `ExecuteCompletes`, `ExecuteReturns` |
| `cuda_pod_stale_finish` | one pod of 2x1 tiles, two programs, a missing kernel | *violation* of `ExecuteCompletes` |
| `device_heap_blocks` | two pods with 5 bytes of heap, sizes 0 and 3, arguments of 1, threshold 2 | `Partition`, `FewPieces`, `ReplicatedBacked`, `ImplementsHeap` for each pod |
| `device_heap_exhausted` | one pod with 14 bytes, threshold 4 | *violation* of `HeldBacked` |
| `vcache_dma` | two banks, two lines, two ways | `ReadsFresh`, `Coherent` for DMA of lines, vectors of jobs and pod flushes |
| `vcache_dma_two_lines` | a DMA range of two lines | *violation* of `ReadsFresh` |
| `eva_map_flat` | four pods of 2x2 tiles, 16 banks of 4 words on 4 memories, stripes of 2; two calls | `ImplementsFlat`, `RoundTrip`, `FinishReaches` |

Every passing run checks its module's `TypeOK` as well.

**Why the bounds are enough.** HostLink: the packet size and the credits enter
only through products and comparisons, and the theorems below hold for all of
them; three credits let a packet be in the FIFO, one in the converter and one
being written. DpiLink: calls longer than the ids make every id be used twice,
and the room for answers is smaller than the credits, so both limits bite.
ManycoreLife: a third instance sees what two calls of others left; two rounds
and a FIFO longer than that let a drain end for each of its reasons.
ProgramLoad: two tiles are enough for a store to one to overtake a store to the
other, two binaries for a stale instruction, symbol or frozen tile. CudaPod: on
2x2 tiles a row and a column block each other and a group of the whole mesh must
wait for both; two pods and two grids give packets with equal EPAs and equal
origins in different pods. DeviceHeap: with two pods the arguments go and come in
different orders, so the managers diverge and the same malloc gets different
answers; the free list grows past the threshold, which is 4 in the code and 2
here because the heap is small (the number only decides when merging happens).
VCacheDma: two lines contend for a set, two ways and two banks distinguish the
loops' order, and two writes are needed for a stale value. EvaMap: 2x2 pods have
an inner DRAM row on each side, and the transfers start inside stripes, cross
north to south and the end of the banks, with the DRAM on and off; group addresses
are of a group of the first pod, of the pod beside it (whose first column is
within the bound and whose second is not) and of a pod in the next row (refused). Field widths
are scaled down because TLC's integers have 32 bits and the DRAM bit of the code
is bit 31. `MapsApart` of `DmaMap` (no two banks share a word of a memory) was
also evaluated once for the real machines: 4x4 pods with HBM2 and 32 channels,
one pod with 2, and the test and infinite memories.

`CHECK_DEADLOCK FALSE` appears only where the modelled program may stop after
its last call or with its host (`program_load`, `cuda_pod_stale_finish`,
`eva_map_flat`).

**Faults.** A process may die at any step of ManycoreLife (the FPGA keeps its
FIFOs, perhaps with half a packet; a simulation dies with it) and, once, at any
step of ProgramLoad (tiles run on; the next process must load over them). Every
stage of an init may fail. Requests are not lost or duplicated by the network,
and nothing in the code handles that.

**Fairness.** HostLink: weak fairness of the host thread, of each step of the
clocked bridge, and of the network's answers. DpiLink: weak fairness of the host
thread and of the evaluation of the simulator, strong fairness of what the
endpoint and the network do in an evaluation: each is possible only in some
halves of a cycle, and the simulated network does not starve a packet. CudaPod:
weak fairness of the host thread and of the completion of running tile groups.
ProgramLoad: weak fairness of the host and the manycore together: some store is
delivered or some tile goes on while any can. ManycoreLife: of the host only; a
manycore may send forever and a drain still ends. None assumes that the program
makes another call.

**Violations.** Each of the four `violation` runs shows the code doing other
than what its own comment says; `findings` in PROJECT.json quotes both.

**Seen while modelling, without a run of their own.** No comment or test states
the contrary clearly enough, or the consequence lies outside the model:

* A tile group larger than the mesh makes an execution wait for ever
  (`bsg_manycore_cuda.cpp:1655`; `ExecuteReturns` fails for such a call), and an
  empty grid allocates a kernel that nothing frees (`:1410`).
* The heap is as long as the DRAM of all pods although it serves one pod and
  starts after the program (`:191`), so its last blocks are outside the DRAM.
* In the replicating runtime a `device_malloc` whose answers differ keeps the
  block of every pod, and `program_finish` finishes the default pod only.
* Finish addresses of a large grid do not fit a word address of a tile
  (`bsg_manycore_eva.cpp:854`); `default_npa_is_dram` ignores the row (`:667`);
  the bound of a group address is that of pod (0,0), and is compared with `<`
  (`:252`, `:259`), so the host refuses group addresses of tile groups in other
  pods, but for the column and row just past the first one. `ImplementsFlat` says exactly which tiles are reached (section 2); with
  `GroupReach == Tiles`, what the error message claims, TLC finds the refusal.
* F1: the cycle counter is read in two halves, low first (`:555`); the check of
  the receive occupancy can never be true (`:67`).
* DPI: the drain looks at a packet nothing has written (`:73`), drops the result
  of its second call (`:243`), and a failed init keeps the identifier (`:221`).
* `features/dma/simulation/bsg_manycore_dma.cpp`: `hb_mc_dma_init` falls off its
  end without a value for other HBM2 machines, the default one has no return at
  all, and `memory->size()` is read before the null check (`:238`).
* `bsg_manycore.cpp:1132`: an index is compared with `>` where `>=` is meant; the
  table of ids never holds the one that would pass.

## 4. Proofs

Eight modules prove theorems for every value of the constants that the named
`ASSUME`s admit; TLC evaluates those in the runs.

**HostLink_proofs**, for every packet size of at least two words, any host
credits from two, any endpoint credits and load ids: `FlowControl`
(`Spec => []IInv`), `TypeCorrect`, `TransmitSafe` (`TransmitFlowControl`),
`WholePacketsKept`, `ResponsesFit` (`ReadCredits`), and `FenceCorrect`
(`FenceDrains`), which assumes that the uninitialised locals of the fence do not
already hold the maxima (`<<HostCredits, MaxOut>> \notin Garbage`): exactly what
`host_link_fence_garbage` shows to be needed. `LoadsKept` (`LoadsAccounted`)
adds where the call is (`CallInv`) and what appending and taking a packet do to
the number of packets of a kind (`QueuedAtEnd`, `TakenAtHead`), and
`LinkRefined` is the step simulation: under the same assumption every step of
the link is a step of `LinkSpec` or a stutter. The properties are not inductive
one by one: that the host's cached count is safe (`tv * Els + wleft <= vac`)
needs that the counter is exact (`vac + fifo + sipo = MaxWords`), that the
converter never launches with less than a packet needs the framing, and the type
of `vac` needs all three. `IInv` is their conjunction, with `WritingInv` (a
packet is being written exactly at `"word"`) and `EndpointCredits`. For the
fence, `FenceInv` says what each read has established: once the vacancy has been
read as the maximum the transmit path is empty and stays so, because the thread
is in the fence and nothing else sends; only then are the credits read. With the
reads swapped the second step fails, and TLC catches the mutant. The products of
the packet size are kept in one lemma (`Products`), so that the other steps are
linear.

**DpiLink_proofs**, for every number of credits, ids and room for answers:
`LinkInvariant`, `TypeCorrect`, `ReadsCorrect` (`ReadsInPlace`) and
`LinkRefined`, the step simulation of the same `LinkSpec`; here the fence needs
no assumption, because its second read follows the first without an evaluation
in between. The type
already says that a FIFO never overflows and that the ids on the stack are
distinct, so its proof carries most of the work: `Pending` ties the host's counts
to the answers still expected, `Promised` the room set aside to the answers that
may come, `Credits` the credits to the requests in flight, `DistinctIds` keeps
every id in one place (the stack, a packet, a load, an answer) and `Indexed`
keeps the table right for the ids that are out. `Filled` says that each word
asked for has arrived or is on its way with an id whose table entry is that word;
when a call ends nothing is on its way.

**ManycoreLife_proofs**, for any set of instances, rounds and capacity:
`TypeCorrect`, `SoleOwner` (`OneOwner`) and `StartsClean` (`CleanStart`). The
strengthening says which stages belong to which platform, what a drain has
counted, that the identifier is in use when somebody owns the hardware or asks
for it, and that after a drain's last look nothing stale is left.

**CudaPod_proofs**, for every mesh, set of pods and list of calls:
`SchedulerInvariant`, `TypeCorrect`, `TilesHaveOwners` (`TilesOwned`),
`ReferencesExact` (`References`) and `WaitsWhenFull` (`WaitsOnlyWhenFull`). What
is said of a pod is said of four values, its groups, busy tiles, reference
counts and argument vectors, so that placing, releasing and enqueueing are
lemmas about values (`PlaceKeeps`, `ReleaseKeeps`, `EnqueueKeeps`). `ScanInv`
says how far the scan has come: the groups passed do not fit, nor does the shape
remembered as failed, and a placed group only takes tiles away. That the first
free origin exists is well-foundedness of the numbers (`LeastExists`). About the
tiles themselves, `FinishesAreReal` (`FinishIsReal`) and `ExecutionsComplete`
(`ExecuteCompletes`) assume that each kernel called is in the program
(`AllKnown`), exactly what `cuda_pod_stale_finish` shows to be needed:
`FlightInv` then ties every running group and every packet to one launched group
of the program now loaded, which a launch that fails half way would break.

**DeviceHeap_proofs**, for any number of pods and every size of DRAM, program,
alignment and request: `Typed` (`TypeOK`), `PartitionHolds`, `FewPiecesHolds`,
`ReplicatedBackedHolds` and `HeapImplemented` (`ImplementsHeap`). Everything said of
a manager is one predicate of a record, `Good`: its free blocks and busy blocks
are aligned, apart from each other and cover the heap together, the free size is
the number of free bytes, and with nothing busy the list is no longer than the
threshold. The class is then a chain of lemmas about values: splitting a block,
putting one at the end of the list (`FreeKeeps`), sorting, merging. Sorting is a
permutation because a rank counts the blocks before a block and no two blocks of a
list start at one address; merging is a fold, reached by induction on its length
(the least counterexample, `LeastExists`, because the induction theorems of the
library take operators), with the invariant that what was merged covers what the
prefix covered. `NextApart` adds the callers: every pointer and every argument
vector has a block of its own in each pod. `HeapImplemented` is the step
simulation of `HeapSpec`, pod by pod. The assumptions are that the manager's
alignment divides the DRAM (`WholeUnits`), that the threshold is at least one (it
is 4, `bsg_manycore_memory_manager.cpp:29`; with 0 a heap in one piece would be
in more pieces than that), and, for `ReplicatedBackedHolds` only, `HeapsFit`: a heap
ends below the end of the 32-bit EVA space. The code does not check the last one,
and the heap it makes is longer than the DRAM it stands for
(`bsg_manycore_cuda.cpp:191`); past that end an address is cut to 32 bits and two
blocks could have one pointer.

**VCacheDma_proofs**, for any caches, lines, sets, ways, block size and vectors of
jobs: `InvariantHolds`, `TypeOKHolds`, `ReadsFreshHolds` and `CoherentHolds`.
`ReadsFresh` looks at one value and is far from inductive: it must be known, at
every moment between the call and the cache, who has the last value of each
word. The invariant follows the requests. The queue of a cache holds drops of
earlier calls, then flushes, then at most one access (`QueuesOrdered`); a flush is
behind no access and before a load that the host sends and waits for
(`FlushesAwaited`, `LoadsAwaited`), a store is waited for by a fence
(`StoresFenced`). What is left of a call is of one of three kinds (`TodoInv`):
flushes, loads, DMA, drops, in that order (`Staged`); a store and its fence; a DMA
write of a line and the drop of that line. Drops are posted and nothing waits for
them, so a line may be in a cache long after the call that replaced it: it is
`Doomed`, it says nothing about the memory, and no access reaches it, because the
drop is ahead in the queue. `CacheInv` and `DramInv` speak of the other lines: those
hold the last values, and a word whose last value is not in the DRAM is in a dirty
line that lives, or in a store on its way. `FlushInv` closes the argument for DMA: a
dirty line that the call will read behind the cache, or drop, has a flush on its
way or still to be sent. Each step of a call must then send exactly what the next
one counts on; for the pod calls this is that the loops visit every way of every set
of every bank (`PodCovered`, an argument about quotients and remainders), that a load of
each cache follows its flushes (`StagedCall`), and that the reads of a vector of
jobs, one job after the other, are reads of words and nothing else (`FlattenOf`). The
theorems assume `OneLine`: a DMA on one bank transfers one line. That is more than
the code says and what it needs: over two lines `ApplyToRange` sends both
operations to the first, which is `vcache_dma_two_lines`, and part of a line loses
the words beside it (the hazard at `bsg_manycore.cpp:1398`). Pod DMA, which drops
whole caches, needs no such assumption.

**ProgramLoad_proofs**, for every number of tiles, set of tile groups, size of the
memories, sequence of binaries, number of launches and of crashes:
`InvariantHolds`, `TypeOKHolds`, `RunsWholeProgramHolds`, `KernelSeesLaunchHolds`
and `RecoversFromCrashHolds`, from the assumptions on the constants in ProgramLoad
and nothing else. The three properties look at what a tile holds when it runs; why
it holds it was decided many steps before, when the host wrote the script and when
the network chose what to deliver. The invariant follows each word in between.
`Final(d, a, v, must)` says that `v` is what a cell will hold when every store has
arrived: it is the last store to the cell in the script, or there is none and it is
the last one on its way, or there is none of either and it is in the memory. With
`must` it also comes behind the store that gets its destination ready (the freeze of
the tile, the tags of the victim caches when there is no DRAM behind them): a word
that arrived before it could be lost, or be changed by a tile that still runs the
program of a dead process. `Settled` is the last of the three cases. The argument
then has four parts.

1. *Scripts.* Whatever the binary and wherever the loader gives up, the script of a
   load has the last store of every word of the program behind the mark of its
   destination, if it succeeds (`LoadScriptOf`), and unfreezes no tile if it fails;
   the script of a launch has every fact a kernel may look at, if it wakes the tile
   (`LaunchScriptOf`). Scripts are concatenations, so these are lemmas about `++` and
   `Chain`; the loops are reached by the least round that fails or the least tile
   that stores (`LeastExists`). That no two words of a program are stored to one cell
   is `OnlyWanted`, from `IsLinked`.
2. *Starting stores.* A store that starts a tile (`Unfreeze`) or a kernel (`Pointer`)
   comes straight after a fence, and the stores after it go neither to DRAM nor to
   the same tile (`Careful` of a script, `TriggerInv` of what is left of it). When
   it is posted the network is therefore empty and nothing that the tile relies on is
   still to come: what was `Final` is `Settled` (`Landed`). This is the only place
   where the order between destinations matters, and it is what the fence at the end
   of `eva_write` is for.
3. *What runs, keeps.* `Keep` says that a tile has its program, settled, and runs no
   other. `LoadInv` says of every tile, while a program is loaded, that either its
   unfreezing is still to come and its words are final, or it keeps the program;
   `LoadedInv` that afterwards all do. `OffInv` is the same seen from the tiles: in the
   first process, a tile that nobody has started is off and nothing on its way starts
   it, so program_finish, which marks every tile and waits, leaves none running.
4. *Kernel pointers.* A tile that is up has at most one kernel pointer, in the script,
   on its way or in its memory, and that of a launch it was woken for (`KernelInv`);
   the facts of that launch are settled until its finish packet is taken
   (`Woken`), since the groups that hold tiles and arguments hold different ones
   (`HeldApart`).

`IInv` has one lemma for each step: `InvHost`, `InvDelivers`, `InvWakens`,
`InvCompletes`, `InvLoads`, `InvPlaces`, `InvBeginFinish`, `InvReturns`, `InvFinished`,
`InvCrash`. TLC checked it on the instance of `program_load` before it was proved.

**EvaMap_proofs**, for every number of pods, size of
a pod and width of a field: `TypeCorrect`, `TranslationsInverse` (`RoundTrip`)
and `FinishesReach` (`FinishReaches`). The first part is the geometry: a
coordinate belongs to one pod (`TileOfPod`, `BankOfPod`), and the identifier of a
bank names it (`BankNamed`, `DramIsBank`). Its assumptions are that a pod has at
least two rows, because in a machine of one-row pods a southern bank and the
northern bank of the next pod would be one row, and that the host is in row 0.
The second splits an address into the fields that the code masks and shifts
(`Fielded`, `FieldsOf`, `Fields1` for DRAM, `GlobalOf` for tiles) and shows that
the way back, applied to the way there, gives the same place (`DramRoundTrip`,
`TileRoundTrip`). Divisions by a symbolic divisor are reduced to two lemmas,
`DivMod` and `Parts`. The invariant (`CallInv`) is that a call is a request of
the program advanced by some of its words, or a launch whose address is the
global one of the host. `RequestsAssumption` says what is asked of a program: that its
transfers touch DRAM and tiles there are; `SizesAssumption` that a stripe's
fields divide the weight of the DRAM bit, as powers of two do. `FinishesReach`
assumes that finish addresses fit the word field of a global address
(`FinishBase + MaxGroups <= GlobalEpaSpan`), which the code does not check.

**Only model-checked.** Liveness (`CallsReturn`, `ExecuteReturns`,
`LaunchCompletes`) and what needs ENABLED are out of the prover's reach.
EvaMap's refinement of FlatMemory (`ImplementsFlat`) needs that the permutation of
the words of a memory is one to one, which is a fold over its fields, and is left
to TLC. Every other property of a passing run is stated by a theorem.

## 5. Not modelled, and why

* The examples, regressions and benchmarks (`src/examples`, `src/regression`):
  some 16,000 of the repository's lines. They call the library and check a
  result; their calls are the inputs of the models. For the same reason the map
  covers about a fifth of all lines but most of those of the core library.
* ELF parsing, MMIO, single CSR accesses, memory system decoding, printing,
  tracer and profiler: I/O, parsing or text without a protocol. ProgramLoad takes
  what the parser finds of a binary as a record.
* The VCS platforms: they wrap a simulator around the F1 or DPI platform and
  keep no state of their own.
* Responders other than their initialisation and end: each call is one pass over
  a list that stops at the first failure; nothing runs between them.
* Timeouts other than "wait for ever": the platform refuses them.
* The request-receive direction of the link below the FIFO: CudaPod takes finish
  packets from a FIFO that never overflows in the model.
* DMA of parts of a line: invalidating the line drops neighbouring words a kernel
  has written, and the code states no contract for it.
* Group addresses of a tile outside its tile group, and banks of another pod row given to
  `NpaToEva`, where the code looks at the column only: programs make neither.
* `device_memcpy`, memset and DMA of the replicating runtime: the transfers of
  EvaMap and VCacheDma, once per pod.
* A heap without room for a tile group's arguments: the malloc at
  `bsg_manycore_cuda.cpp:1575` then succeeds with the address of
  `device_heap_exhausted`, and the copy to it at `:1579` fails or goes astray.
  CudaPod takes every argument vector for allocated; a launch that fails is
  modelled at the next step, the lookup of the kernel.
* Loading over a program that was not finished by the same process.
  `program_init` does not look for one: that `program_finish` comes first is the
  contract of that function's comment (`bsg_manycore_cuda.cpp:1019`), and `BeginLoad` takes it
  as its guard. The replicating runtime breaks it, because it finishes the
  default pod only. The state it leaves, tiles that run an old program under a new
  load, is the one a dead host leaves, which `RecoversFromCrash` covers.
* What the loads of a dead host would answer to the next one: the F1 platform
  asks for no reset of the manycore, and the answers would be taken for the new
  host's. ManycoreLife covers the request and transmit FIFOs only.
* `link_to_axil.v` as it stands instantiates a module with ports it does not
  have; HostLink models the bridge the current platform names.

## 6. What could follow

1. EvaMap's refinement of FlatMemory for memories without a permutation.
2. Composition of ProgramLoad with CudaPod: a launch as a script of stores
   inside the scan, with the tiles of ProgramLoad.
