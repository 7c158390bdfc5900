------------------------------ MODULE CudaPod ------------------------------
(***************************************************************************)
(* The tile-group scheduler of the CUDA-Lite runtime                       *)
(* (bsg_manycore_cuda.cpp).                                                *)
(*                                                                         *)
(* A kernel enqueued on a pod becomes a grid of tile groups.  Executing a  *)
(* pod, or a vector of pods, places tile groups on rectangles of free      *)
(* tiles, launches them, and waits for finish packets on the host's        *)
(* request FIFO; a finish packet frees the tiles and the resources of the  *)
(* tile group it is matched with, which makes room for others.             *)
(*                                                                         *)
(* The tiles are external: a launched tile group runs until its origin     *)
(* tile sends the finish packet, or until its tile is frozen.              *)
(***************************************************************************)
EXTENDS Integers, Sequences, FiniteSets

CONSTANTS
  Pods,         \* the pods of the device
  MeshX, MeshY, \* tiles of a pod
  Calls,        \* the kernel invocations a program may enqueue: records of
                \* grid and tile-group dimensions, and whether the binary
                \* has the kernel's symbol
  MaxGrids,     \* bound: invocations enqueued on a pod per program
  MaxPrograms   \* bound: programs initialised on a pod

Dims == (1 .. MeshX + MeshY) \X (1 .. MeshX + MeshY)

ASSUME MeshAssumption     == MeshX \in Nat \ {0} /\ MeshY \in Nat \ {0}
ASSUME CallsAssumption    == Calls \subseteq [grid : Dims, dim : Dims, known : BOOLEAN]
ASSUME PodsAssumption     == IsFiniteSet(Pods)
ASSUME GridsAssumption    == MaxGrids \in Nat
ASSUME ProgramsAssumption == MaxPrograms \in Nat \ {0}

VARIABLES
  \* pods
  programs,   \* programs initialised on the pod so far
  loaded,     \* pod->program_loaded
  tgs,        \* pod->tile_groups[0 .. num_tile_groups - 1]
  busy,       \* tiles of pod->mesh whose status is BUSY
  refs,       \* refcount of the kernel of each grid
  argvs,      \* argument vectors allocated in the pod's memory
  \* the host thread
  pc,
  podv,       \* pods being executed
  single,     \* kernels_execute on one pod, or podv_kernels_execute
  scan,       \* pods still to be scanned for tile groups to launch
  idx,        \* tile group the scan looks at
  failed,     \* dimension last found not to fit (last_failed)
  \* the manycore
  running,    \* tile groups running on the tiles
  fifo        \* finish packets on their way to the host or in its FIFO

podVars  == <<programs, loaded, tgs, busy, refs, argvs>>
hostVars == <<pc, podv, single, scan, idx, failed>>
devVars  == <<running, fifo>>
vars     == <<podVars, hostVars, devVars>>

Tiles == (0 .. MeshX - 1) \X (0 .. MeshY - 1)
Status == {"INITIALIZED", "ALLOCATED", "LAUNCHED", "FINISHED"}

\* The tiles foreach_coordinate visits from an origin.
Rect(origin, dim) ==
  {<<origin[1] + x, origin[2] + y>> : x \in 0 .. dim[1] - 1, y \in 0 .. dim[2] - 1}

\* foreach_coordinate goes down a column before it moves to the next.
Before(a, b) == a[1] < b[1] \/ (a[1] = b[1] /\ a[2] <= b[2])
First(S) == CHOOSE a \in S : \A b \in S : Before(a, b)

\* Mutant: what has been launched counts as finished.
AllLaunched(p) == \A i \in DOMAIN tgs[p] : tgs[p][i].status \in {"LAUNCHED", "FINISHED"}

Held(tg) == tg.status \in {"ALLOCATED", "LAUNCHED"}
AllFinished(p) == \A i \in DOMAIN tgs[p] : tgs[p][i].status = "FINISHED"

Init ==
  /\ programs = [p \in Pods |-> 0]
  /\ loaded = [p \in Pods |-> FALSE]
  /\ tgs = [p \in Pods |-> <<>>]
  /\ busy = [p \in Pods |-> {}]
  /\ refs = [p \in Pods |-> <<>>]
  /\ argvs = [p \in Pods |-> 0]
  /\ pc = "idle" /\ podv = {} /\ single = FALSE
  /\ scan = {} /\ idx = 1 /\ failed = <<0, 0>>
  /\ running = {} /\ fifo = {}

(***************************************************************************)
(* Programs and their kernels.                                             *)
(***************************************************************************)

\* A program is loaded: a mesh of free tiles, no tile groups.
ProgramInit(p) ==
  /\ pc = "idle" /\ ~loaded[p]
  /\ programs[p] < MaxPrograms
  /\ programs' = [programs EXCEPT ![p] = @ + 1]
  /\ loaded' = [loaded EXCEPT ![p] = TRUE]
  /\ tgs' = [tgs EXCEPT ![p] = <<>>]
  /\ busy' = [busy EXCEPT ![p] = {}]
  /\ refs' = [refs EXCEPT ![p] = <<>>]
  /\ argvs' = [argvs EXCEPT ![p] = 0]
  /\ UNCHANGED <<hostVars, devVars>>

\* hb_mc_tile_group_get_finish_signal_addr, less the base address.
FinishEpa(id, grid) == id[2] * grid[1] + id[1]

\* hb_mc_device_pod_tile_group_init for tile group `id' of grid `g'.
TileGroup(c, g, id) ==
  [status |-> "INITIALIZED", dim |-> c.dim, origin |-> <<0, 0>>, grid |-> g,
   epa |-> FinishEpa(id, c.grid), known |-> c.known]

\* The n-th coordinate (from zero) of a grid, in foreach_coordinate's order.
Nth(n, dim) == <<n \div dim[2], n % dim[2]>>

\* hb_mc_device_pod_kernel_enqueue: one tile group per coordinate of the grid,
\* each with a reference to the kernel.
Enqueue(p, c) ==
  /\ pc = "idle" /\ loaded[p]
  /\ Len(refs[p]) < MaxGrids
  /\ LET size == c.grid[1] * c.grid[2]
         g    == Len(refs[p]) + 1
     IN /\ tgs' = [tgs EXCEPT ![p] =
                     @ \o [n \in 1 .. size |-> TileGroup(c, g, Nth(n - 1, c.grid))]]
        /\ refs' = [refs EXCEPT ![p] = Append(@, size)]
  /\ UNCHANGED <<programs, loaded, busy, argvs, hostVars, devVars>>

\* hb_mc_device_pod_program_finish freezes the tiles and releases everything.
ProgramFinish(p) ==
  /\ pc = "idle" /\ loaded[p]
  /\ loaded' = [loaded EXCEPT ![p] = FALSE]
  /\ running' = {r \in running : r.pod # p}
  /\ tgs' = [tgs EXCEPT ![p] = <<>>]
  /\ busy' = [busy EXCEPT ![p] = {}]
  /\ refs' = [refs EXCEPT ![p] = <<>>]
  /\ argvs' = [argvs EXCEPT ![p] = 0]
  /\ UNCHANGED <<programs, hostVars, fifo>>

(***************************************************************************)
(* Execution.                                                              *)
(***************************************************************************)

BeginScan(P) == pc' = "scan" /\ scan' = P /\ idx' = 1 /\ failed' = <<0, 0>>

\* podv_kernels_execute scans every pod before it looks whether it is done.
ExecutePods(v) ==
  /\ pc = "idle" /\ v # {} /\ \A p \in v : loaded[p]
  /\ podv' = v /\ single' = FALSE
  /\ BeginScan(v)
  /\ UNCHANGED <<podVars, devVars>>

\* pod_kernels_execute looks first.
ExecutePod(p) ==
  /\ pc = "idle" /\ loaded[p]
  /\ podv' = {p} /\ single' = TRUE
  /\ pc' = "check"
  /\ UNCHANGED <<scan, idx, failed, podVars, devVars>>

\* The condition of the execute loop.
Check ==
  /\ pc = "check"
  /\ IF \A p \in podv : AllFinished(p)
       THEN pc' = "idle" /\ UNCHANGED <<scan, idx, failed>>
     ELSE IF single
       THEN BeginScan(podv)
       ELSE pc' = "wait" /\ UNCHANGED <<scan, idx, failed>>
  /\ UNCHANGED <<podv, single, podVars, devVars>>

Next1 == idx' = idx + 1 /\ UNCHANGED <<pc, scan>>

\* Mutants: the free rectangle is looked for one row and column too far; a
\* rectangle is taken for free when its origin is.
OriginsLong(p, dim) ==
  {o \in (0 .. MeshX - dim[1] + 1) \X (0 .. MeshY - dim[2] + 1) :
     Rect(o, dim) \cap busy[p] = {}}
OriginsOriginOnly(p, dim) ==
  {o \in (0 .. MeshX - dim[1]) \X (0 .. MeshY - dim[2]) : o \notin busy[p]}

\* Origins at which a rectangle of free tiles fits in the mesh; none when the
\* tile group is larger than the mesh (coordinate_sub_safe fails).
Origins(p, dim) ==
  {o \in (0 .. MeshX - dim[1]) \X (0 .. MeshY - dim[2]) :
     Rect(o, dim) \cap busy[p] = {}}

\* Only ready tile groups are placed, and not when a group of the same shape
\* has just been found not to fit.
Skip(tg) == tg.status # "INITIALIZED" \/ failed = tg.dim

\* The scan passes a tile group by, or finds no room for it.
ScanSkip(p) ==
  /\ idx \in DOMAIN tgs[p]
  /\ LET tg == tgs[p][idx] IN
       \/ /\ Skip(tg)
          /\ UNCHANGED failed
       \/ /\ ~Skip(tg)
          /\ Origins(p, tg.dim) = {}
          /\ failed' = tg.dim
  /\ Next1
  /\ UNCHANGED <<podv, single, podVars, devVars>>

Running(p, i, o) ==
  [pod |-> p, program |-> programs[p], tg |-> i, origin |-> o, epa |-> tgs[p][i].epa]

\* The scan places a tile group at the first origin that fits and launches
\* it: its tiles become busy, its arguments are allocated and written, and
\* its tiles are woken.  When the kernel's symbol is not in the binary the
\* launch fails after the arguments were allocated, and so does the execution.
\* (The heap is taken to have room for the arguments.)
ScanLaunch(p) ==
  /\ idx \in DOMAIN tgs[p]
  /\ LET tg == tgs[p][idx]
         o  == First(Origins(p, tg.dim))
     IN /\ ~Skip(tg) /\ Origins(p, tg.dim) # {}
        /\ busy' = [busy EXCEPT ![p] = @ \cup Rect(o, tg.dim)]
        /\ argvs' = [argvs EXCEPT ![p] = @ + 1]
        /\ tgs' = [tgs EXCEPT ![p][idx].origin = o,
                              ![p][idx].status = IF tg.known THEN "LAUNCHED" ELSE "ALLOCATED"]
        /\ IF tg.known
             THEN Next1 /\ running' = running \cup {Running(p, idx, o)}
             ELSE pc' = "idle" /\ UNCHANGED <<scan, idx, running>>
  /\ UNCHANGED <<programs, loaded, refs, failed, podv, single, fifo>>

\* Mutant: the host does not wait before it looks again.
ScanEndPolls(p) ==
  /\ idx \notin DOMAIN tgs[p]
  /\ IF scan = {p} THEN pc' = "check" /\ scan' = {}
                   ELSE pc' = "scan" /\ scan' = scan \ {p}
  /\ idx' = 1 /\ failed' = <<0, 0>>
  /\ UNCHANGED <<podv, single, podVars, devVars>>

\* The scan of a pod ends; after the last pod the host waits (one pod) or
\* looks whether it is done (a vector of pods).
ScanEnd(p) ==
  /\ idx \notin DOMAIN tgs[p]
  /\ IF scan = {p} THEN pc' = (IF single THEN "wait" ELSE "check") /\ scan' = {}
                   ELSE pc' = "scan" /\ scan' = scan \ {p}
  /\ idx' = 1 /\ failed' = <<0, 0>>
  /\ UNCHANGED <<podv, single, podVars, devVars>>

\* The pods of a vector are scanned one after the other; their order does not
\* matter to anything the model observes, so it is fixed.
ScanPod == CHOOSE p \in scan : TRUE

Scan == pc = "scan" /\ (ScanSkip(ScanPod) \/ ScanLaunch(ScanPod) \/ ScanEnd(ScanPod))

\* Mutant: the origin does not have to match.
MatchesAnyOrigin(tg, k) == tg.status = "LAUNCHED" /\ tg.epa = k.epa

\* The tile group a finish packet is taken for: launched, with the packet's
\* source as origin and its address as finish address.
Matches(tg, k) == tg.status = "LAUNCHED" /\ tg.origin = k.origin /\ tg.epa = k.epa

\* Mutant: the arguments are not freed.
ReleaseKeepArgv(p, i) ==
  /\ busy' = [busy EXCEPT ![p] = @ \ Rect(tgs[p][i].origin, tgs[p][i].dim)]
  /\ argvs' = argvs
  /\ refs' = [refs EXCEPT ![p][tgs[p][i].grid] = @ - 1]

\* deallocate_tiles and tile_group_exit: tiles, arguments, kernel reference.
Release(p, i) ==
  /\ busy' = [busy EXCEPT ![p] = @ \ Rect(tgs[p][i].origin, tgs[p][i].dim)]
  /\ argvs' = [argvs EXCEPT ![p] = @ - 1]
  /\ refs' = [refs EXCEPT ![p][tgs[p][i].grid] = @ - 1]

\* Mutant: always the first pod.
RescanFirst(p) == {CHOOSE q \in podv : TRUE}

\* The pods scanned when a tile group of pod p has finished.
Rescan(p) == {p}

\* wait_for_tile_group_finish_any takes a finish packet, whatever pod it comes
\* from, finishes the first tile group that matches, and goes on to scan the
\* pod (a vector of pods) or to the loop's condition (one pod).
WaitFinish(k) ==
  /\ pc = "wait" /\ k \in fifo
  /\ LET p == k.pod
         M == {i \in DOMAIN tgs[p] : Matches(tgs[p][i], k)}
         i == CHOOSE i \in M : \A j \in M : i <= j
     IN /\ M # {}
        /\ Release(p, i)
        /\ tgs' = [tgs EXCEPT ![p][i].status = "FINISHED", ![p][i].grid = 0,
                              ![p][i].dim = <<0, 0>>, ![p][i].origin = <<0, 0>>]
        /\ IF single THEN pc' = "check" /\ UNCHANGED <<scan, idx, failed>>
                     ELSE BeginScan(Rescan(p))
  /\ fifo' = fifo \ {k}
  /\ UNCHANGED <<programs, loaded, podv, single, running>>

\* A finish packet that matches no tile group is dropped.
WaitDrop(k) ==
  /\ pc = "wait" /\ k \in fifo
  /\ ~\E i \in DOMAIN tgs[k.pod] : Matches(tgs[k.pod][i], k)
  /\ fifo' = fifo \ {k}
  /\ UNCHANGED <<podVars, hostVars, running>>

(***************************************************************************)
(* The tiles (external).                                                   *)
(***************************************************************************)

\* A running tile group completes; its origin tile sends the finish packet.
TileGroupDone(r) ==
  /\ r \in running
  /\ running' = running \ {r}
  /\ fifo' = fifo \cup {r}
  /\ UNCHANGED <<podVars, hostVars>>

\* The program calls nothing more.
Rest == pc = "idle" /\ UNCHANGED vars

Program ==
  \/ Rest
  \/ \E p \in Pods : ProgramInit(p) \/ ProgramFinish(p) \/ ExecutePod(p)
  \/ \E p \in Pods, c \in Calls : Enqueue(p, c)
  \/ \E v \in SUBSET Pods : ExecutePods(v)
Wait == \E k \in fifo : WaitFinish(k) \/ WaitDrop(k)
Host == Check \/ Scan \/ Wait

Next == Program \/ Host \/ \E r \in running : TileGroupDone(r)

Spec == Init /\ [][Next]_vars

\* The host thread runs, packets arrive, and kernels terminate; nothing
\* obliges the program to make another call.
Fairness == WF_vars(Host) /\ WF_vars(\E r \in running : TileGroupDone(r))
FairSpec == Spec /\ Fairness

(***************************************************************************)
(* Properties.                                                             *)
(***************************************************************************)

\* An unfinished tile group belongs to a grid that has a kernel, and the busy
\* tiles are tiles of the mesh.
TypeOK ==
  /\ programs \in [Pods -> 0 .. MaxPrograms] /\ loaded \in [Pods -> BOOLEAN]
  /\ \A p \in Pods : \A i \in DOMAIN tgs[p] :
       /\ tgs[p][i].status \in Status
       /\ tgs[p][i].status # "FINISHED" => tgs[p][i].grid \in DOMAIN refs[p]
  /\ busy \in [Pods -> SUBSET Tiles] /\ argvs \in [Pods -> Nat]
  /\ pc \in {"idle", "check", "scan", "wait"}
  /\ podv \subseteq Pods /\ scan \subseteq Pods /\ idx \in Nat \ {0}

HeldGroups(p) == {i \in DOMAIN tgs[p] : Held(tgs[p][i])}
TilesOf(p, i) == Rect(tgs[p][i].origin, tgs[p][i].dim)

\* A tile is busy exactly when a tile group that has been placed and has not
\* finished covers it, and no two such groups share a tile.
TilesOwned ==
  \A p \in Pods :
    /\ busy[p] = UNION {TilesOf(p, i) : i \in HeldGroups(p)}
    /\ \A i, j \in HeldGroups(p) : i # j => TilesOf(p, i) \cap TilesOf(p, j) = {}

\* The host takes a tile group for finished only when that tile group, of the
\* program now loaded, has sent its finish packet: neither a packet of
\* another group nor one of an earlier program is taken for it.
FinishIsReal ==
  [][\A p \in Pods : \A i \in DOMAIN tgs[p] :
       tgs[p][i].status = "LAUNCHED" /\ i \in DOMAIN tgs'[p] /\ tgs'[p][i].status = "FINISHED"
         => \E k \in fifo \ fifo' : k.pod = p /\ k.tg = i /\ k.program = programs[p]]_vars

\* When an execution that did not fail returns, no tile group of its pods is
\* still running ("blocks until all kernels have been invoked and completed").
ExecuteCompletes ==
  [][pc = "check" /\ pc' = "idle" => \A r \in running : r.pod \notin podv]_vars

\* A kernel is referenced by its unfinished tile groups, so that it is freed
\* with the last of them and not before; each placed group has one argument
\* vector in the pod's memory.
References ==
  \A p \in Pods :
    /\ \A g \in DOMAIN refs[p] :
         refs[p][g] = Cardinality({i \in DOMAIN tgs[p] : tgs[p][i].grid = g})
    /\ argvs[p] = Cardinality(HeldGroups(p))

\* The host never waits while a tile group that is ready would fit on the free
\* tiles of a pod it executes: skipping known shapes and rescanning only the
\* pod that finished lose nothing.
WaitsOnlyWhenFull ==
  pc = "wait" =>
    \A p \in podv : \A i \in DOMAIN tgs[p] :
      tgs[p][i].status = "INITIALIZED" => Origins(p, tgs[p][i].dim) = {}

\* An execution of tile groups that fit the mesh, whose kernels exist and
\* terminate, returns.
ExecuteReturns == pc # "idle" ~> pc = "idle"
=============================================================================
