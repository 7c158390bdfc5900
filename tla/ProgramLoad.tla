----------------------------- MODULE ProgramLoad -----------------------------
(***************************************************************************)
(* Loading a program on the tiles of a pod and launching tile groups       *)
(* (bsg_manycore_loader.cpp, bsg_manycore_tile.cpp and the functions of    *)
(* bsg_manycore_cuda.cpp that write to tiles).                             *)
(*                                                                         *)
(* Everything the host does to a tile is a store: to its configuration     *)
(* registers (posted, not fenced), to its memories and to DRAM (fenced at  *)
(* the end of each write).  The network keeps the order of the stores to   *)
(* one destination and no order between destinations.  Each library        *)
(* function is a script of stores and fences, cut short where the function *)
(* returns early; the host thread executes scripts one step at a time.     *)
(*                                                                         *)
(* The tiles are external: an unfrozen tile runs the program's start-up    *)
(* code, waits until its kernel pointer is set, runs the kernel with its   *)
(* tile group, clears the pointer and waits again.  The kernel's tiles     *)
(* meet before the origin tile sends the finish packet.                    *)
(***************************************************************************)
EXTENDS Naturals, Sequences, FiniteSets, SequencesExt

CONSTANTS
  NTiles,       \* tiles of the mesh
  Groups,       \* rectangles of tiles a tile group may be placed on
  Images,       \* for each program loaded, the binaries it may be: see IsImage
  IcacheWords, DmemWords, DramWords,  \* sizes of the memories
  MaxLaunches,  \* bound: tile groups launched
  MaxCrashes    \* bound: host processes that end without finishing their program

Tiles == 1 .. NTiles
Dram  == 0              \* the destination of the stores to DRAM
Symbols == {"config", "not_loaded_val", "args", "kernel_ptr"}

\* A loadable image: the sections and segments of the file, and where its
\* symbols are in a tile's memory.
Segment ==
  [load : BOOLEAN, inside : BOOLEAN, aligned : BOOLEAN, dram : BOOLEAN, exec : BOOLEAN,
   at : Nat, file : Nat, mem : Nat]
Section == [inside : BOOLEAN, symtab : BOOLEAN, names : SUBSET (Symbols \cup {"_start"})]
IsImage(img) ==
  /\ DOMAIN img = {"valid", "sections", "segments", "symbol"}
  /\ img.valid \in BOOLEAN
  /\ img.sections \in Seq(Section) /\ img.segments \in Seq(Segment)
  /\ img.symbol \in [Symbols -> 0 .. DmemWords - 1]

\* The linker places the segments and the symbols of a file inside a memory,
\* apart from each other; the loader compares no more than a segment's size.
Capacity(seg) == IF seg.dram THEN DramWords ELSE DmemWords
Apart(a, b) == a.dram = b.dram => a.at + a.mem <= b.at \/ b.at + b.mem <= a.at
IsLinked(img) ==
  /\ \A s \in DOMAIN img.segments :
       LET seg == img.segments[s]
       IN seg.file <= seg.mem /\ (seg.mem <= Capacity(seg) => seg.at + seg.mem <= Capacity(seg))
  /\ \A r, s \in DOMAIN img.segments :
       r # s /\ img.segments[r].load /\ img.segments[s].load =>
         Apart(img.segments[r], img.segments[s])
  /\ IsInjective(img.symbol)

ASSUME TilesAssumption  == NTiles \in Nat \ {0}
ASSUME GroupsAssumption == Groups \subseteq (SUBSET Tiles) \ {{}}
ASSUME SizesAssumption  ==
  IcacheWords \in Nat \ {0} /\ DmemWords \in Nat \ {0} /\ DramWords \in Nat \ {0}
ASSUME ImagesAssumption ==
  /\ Images \in Seq(SUBSET UNION Range(Images)) /\ Len(Images) > 0
  /\ \A p \in DOMAIN Images : \A img \in Images[p] : IsImage(img) /\ IsLinked(img)
ASSUME BoundsAssumption == MaxLaunches \in Nat /\ MaxCrashes \in Nat

VARIABLES
  \* the host process
  call,      \* the function in progress
  todo,      \* what is left of its script
  ok,        \* whether it will return success
  loaded,    \* pod->program_loaded
  images,    \* the programs loaded or tried, oldest first
  launches,  \* the tile groups placed: tiles, argv slot, program, status
  crashes,   \* processes that ended
  \* the network and the manycore
  net,       \* stores on their way to each destination, oldest first
  mem,       \* what each destination holds
  run,       \* each tile: off (frozen), waiting for a kernel, or in a kernel
  runs,      \* the program each tile was unfrozen with
  got,       \* the launch whose kernel each tile is in
  fin,       \* launches whose finish packet is in the host's FIFO
  dramOn     \* hb_mc_manycore_dram_is_enabled

hostVars == <<call, todo, ok, loaded, images, launches, crashes>>
tileVars == <<run, runs, got>>
vars     == <<hostVars, net, mem, tileVars, fin, dramOn>>

\* Words.  A program's words are numbered; a symbol holds a launch.
ProgramWord(p, s, k) == <<p, s, k>>
Zero       == <<0, 0, 0>>
One        == <<0, 0, 1>>
NotLoaded  == One                    \* HB_MC_CUDA_KERNEL_NOT_LOADED_VAL
Number(n)  == <<0, 0, n>>
LaunchWord(n) == <<0, n, 0>>

Csr(r)    == <<r, 0>>
Icache(k) == <<"icache", k>>
Dmem(k)   == <<"dmem", k>>
DramAt(k) == <<"dram", k>>
Heap(n)   == <<"heap", n>>
Tags      == <<"tags", 0>>           \* the tags of the victim caches

TileCells ==
  {Csr(r) : r \in {"freeze", "origin", "pc"}}
    \cup {Icache(k) : k \in 0 .. IcacheWords - 1} \cup {Dmem(k) : k \in 0 .. DmemWords - 1}
DramCells ==
  {DramAt(k) : k \in 0 .. DramWords - 1} \cup {Heap(n) : n \in 1 .. MaxLaunches} \cup {Tags}

Least(S) == CHOOSE x \in S : \A y \in S : x <= y
FirstTile == 1

(***************************************************************************)
(* Scripts.                                                                *)
(***************************************************************************)

Nothing    == [steps |-> <<>>, ok |-> TRUE]
Require(c) == [steps |-> <<>>, ok |-> c]
a ++ b == IF a.ok THEN [steps |-> a.steps \o b.steps, ok |-> b.ok] ELSE a
Only(c, a) == IF c THEN a ELSE Nothing

\* A loop: the scripts of a sequence one after the other, up to one that fails.
Chain(xs) ==
  LET upto[n \in 0 .. Len(xs)] == IF n = 0 THEN Nothing ELSE upto[n - 1] ++ xs[n]
  IN upto[Len(xs)]

\* hb_mc_manycore_write32 posts a store.
Store(d, a, v) == [op |-> "store", to |-> d, at |-> a, val |-> v]
Write32(d, a, v) == [steps |-> <<Store(d, a, v)>>, ok |-> TRUE]

\* Mutant: the stores that follow do not wait.
NoFence == Nothing

FenceStep == [op |-> "fence"]
Fence == [steps |-> <<FenceStep>>, ok |-> TRUE]

\* eva_write and eva_memset: word after word, then a fence; nothing at all
\* for an empty region.
EvaWrite(d, region, from, words) ==
  IF words = <<>> THEN Nothing
  ELSE [steps |-> [i \in DOMAIN words |-> Store(d, <<region, from + i - 1>>, words[i])],
        ok |-> TRUE]
         ++ Fence

(***************************************************************************)
(* The symbols of a binary.                                                *)
(***************************************************************************)

\* The first section that lies outside the file, or is a symbol table that
\* has the symbol, ends the search.
Decides(section, name) == ~section.inside \/ (section.symtab /\ name \in section.names)

HasSymbol(img, name) ==
  /\ img.valid
  /\ \E i \in DOMAIN img.sections :
       /\ Decides(img.sections[i], name) /\ img.sections[i].inside
       /\ \A j \in 1 .. i - 1 : ~Decides(img.sections[j], name)

\* tile_set_symbol_val: a word in the tile's memory.
SetSymbol(img, t, name, v) ==
  Require(HasSymbol(img, name)) ++ EvaWrite(t, "dmem", img.symbol[name], <<v>>)

(***************************************************************************)
(* The loader.                                                             *)
(***************************************************************************)

TileFreeze(t)   == Write32(t, Csr("freeze"), One)
SetOrigin(t, o) == Write32(t, Csr("origin"), Number(o))
SetInitialPc(t, v) == Write32(t, Csr("pc"), v)

\* The address of _start, or 0.
PcInit(img) == IF HasSymbol(img, "_start") THEN One ELSE Zero

TileSetRegisters(img, t) ==
  TileFreeze(t) ++ SetOrigin(t, FirstTile) ++ SetInitialPc(t, PcInit(img))

\* With the DRAM disabled the caches are the memory: all tags become valid.
ValidateVcache == Write32(Dram, Tags, One)

TilesInitialize(img) ==
  Chain([t \in Tiles |-> TileSetRegisters(img, t)]) ++ Only(~dramOn, ValidateVcache)

\* Mutant: the size of the segment is not compared with the memory's.
LoadTileSegmentUnchecked(seg, p, s, t) ==
  LET d == IF seg.dram THEN Dram ELSE t
      region == IF seg.dram THEN "dram" ELSE "dmem"
  IN EvaWrite(d, region, seg.at, [k \in 1 .. seg.file |-> ProgramWord(p, s, k)])
       ++ EvaWrite(d, region, seg.at + seg.file, [k \in 1 .. seg.mem - seg.file |-> Zero])

\* One segment at one destination: its file words, then zeros.
LoadTileSegment(seg, p, s, t) ==
  LET d == IF seg.dram THEN Dram ELSE t
      region == IF seg.dram THEN "dram" ELSE "dmem"
  IN Require(seg.mem <= Capacity(seg))
       ++ Require(seg.aligned)
       ++ EvaWrite(d, region, seg.at, [k \in 1 .. seg.file |-> ProgramWord(p, s, k)])
       ++ EvaWrite(d, region, seg.at + seg.file, [k \in 1 .. seg.mem - seg.file |-> Zero])

\* Never, once (a DRAM segment, through the first tile), or on every tile.
LoadTilesSegment(seg, p, s) ==
  IF ~seg.load THEN Nothing
  ELSE IF seg.dram THEN LoadTileSegment(seg, p, s, FirstTile)
  ELSE Chain([t \in Tiles |-> LoadTileSegment(seg, p, s, t)])

TextSegments(img) ==
  {s \in DOMAIN img.segments : img.segments[s].load /\ img.segments[s].exec}
TextSegment(img) == CHOOSE s \in TextSegments(img) : \A r \in TextSegments(img) : r <= s

MinSize(m, n) == IF m < n THEN m ELSE n

\* The words of the text that fit go to the tile's instruction cache; an
\* empty text fails the check of the address.
LoadTileIcache(img, p, t) ==
  LET s  == TextSegment(img)
      sz == MinSize(img.segments[s].file, IcacheWords)
  IN Require(sz > 0)
       ++ EvaWrite(t, "icache", 0, [k \in 1 .. sz |-> ProgramWord(p, s, k)])

LoadSegments(img, p) ==
  Chain([s \in DOMAIN img.segments |->
           Require(img.segments[s].inside) ++ LoadTilesSegment(img.segments[s], p, s)])
    ++ Require(TextSegments(img) # {})
    ++ Chain([t \in Tiles |-> LoadTileIcache(img, p, t)])

\* Mutant: the tags are made valid after the segments have been loaded.
LoaderLoadTagsLast(img, p) ==
  Require(img.valid)
    ++ Chain([t \in Tiles |-> TileSetRegisters(img, t)])
    ++ LoadSegments(img, p)
    ++ Only(~dramOn, ValidateVcache)

LoaderLoad(img, p) == Require(img.valid) ++ TilesInitialize(img) ++ LoadSegments(img, p)

(***************************************************************************)
(* The runtime.                                                            *)
(***************************************************************************)

\* The registers and symbols that tell a tile its place: the origin of its
\* tile group, its index, the tile group's index.
SetConfigSymbols(img, t, origin, v) ==
  SetOrigin(t, origin)
    ++ SetSymbol(img, t, "config", v) ++ SetSymbol(img, t, "not_loaded_val", NotLoaded)

TileUnfreeze(img, t) ==
  SetSymbol(img, t, "kernel_ptr", NotLoaded) ++ Write32(t, Csr("freeze"), Zero)

FreezeTiles == Chain([t \in Tiles |-> TileFreeze(t)])

\* hb_mc_device_pod_program_load
ProgramLoadScript(img, p) ==
  FreezeTiles
    ++ LoaderLoad(img, p)
    ++ Chain([t \in Tiles |->
                SetConfigSymbols(img, t, FirstTile, Zero) ++ TileUnfreeze(img, t)])

\* hb_mc_device_pod_program_finish
FinishScript == FreezeTiles ++ Fence

\* Mutant: the kernel pointer is set before the arguments.
SetRuntimeSymbolsEarly(img, t, n) ==
  SetSymbol(img, t, "kernel_ptr", LaunchWord(n)) ++ SetSymbol(img, t, "args", LaunchWord(n))

SetRuntimeSymbols(img, t, n) ==
  SetSymbol(img, t, "args", LaunchWord(n)) ++ SetSymbol(img, t, "kernel_ptr", LaunchWord(n))

GroupOrigin(group) == Least(group)

\* Mutant: only the origin of the tile group is woken.
WakeTilesOrigin(img, group, n) == SetRuntimeSymbols(img, GroupOrigin(group), n)

WakeTiles(img, group, n) ==
  Chain([t \in Tiles |-> Only(t \in group, SetRuntimeSymbols(img, t, n))])

\* allocate_tiles gives every tile of the group its place; then the launch
\* copies the arguments to DRAM, looks the kernel up and wakes the tiles.
LaunchScript(img, group, n, slot, known) ==
  Chain([t \in Tiles |->
           Only(t \in group, SetConfigSymbols(img, t, GroupOrigin(group), LaunchWord(n)))])
    ++ EvaWrite(Dram, "heap", slot, <<LaunchWord(n)>>)
    ++ Require(known)
    ++ WakeTiles(img, group, n)

(***************************************************************************)
(* The host process.                                                       *)
(***************************************************************************)

\* Bound: as many programs are loaded as Images has choices.
MaxPrograms == Len(Images)
Program == Len(images)
Image   == images[Program]

Init ==
  /\ call = "idle" /\ todo = <<>> /\ ok = TRUE
  /\ loaded = FALSE /\ images = <<>> /\ launches = <<>> /\ crashes = 0
  /\ net = [d \in {Dram} \cup Tiles |-> <<>>]
  /\ mem = [d \in {Dram} \cup Tiles |->
              [a \in (IF d = Dram THEN DramCells ELSE TileCells) |-> Zero]]
  /\ run = [t \in Tiles |-> "off"]
  /\ runs = [t \in Tiles |-> 0] /\ got = [t \in Tiles |-> 0]
  /\ fin = {} /\ dramOn \in BOOLEAN

Start(c, script) == call' = c /\ todo' = script.steps /\ ok' = script.ok

Placed(n) ==
  launches[n].program = Program /\ launches[n].status \in {"allocated", "launched"}
Busy  == UNION {launches[n].tiles : n \in {m \in DOMAIN launches : Placed(m)}}
Slots == {launches[n].slot : n \in {m \in DOMAIN launches : Placed(m)}}

\* A program is loaded on a pod that has none: the code does not look, its
\* contract is that program_finish comes first.
BeginLoad(img) ==
  /\ call = "idle" /\ ~loaded
  /\ Program < MaxPrograms /\ img \in Images[Program + 1]
  /\ images' = Append(images, img)
  /\ Start("load", ProgramLoadScript(img, Program + 1))
  /\ UNCHANGED <<loaded, launches, crashes, net, mem, tileVars, fin, dramOn>>

\* A tile group is placed on free tiles and launched; its arguments take the
\* first free piece of the heap.
BeginLaunch(group, known) ==
  /\ call = "idle" /\ loaded
  /\ Len(launches) < MaxLaunches
  /\ group \cap Busy = {}
  /\ LET n    == Len(launches) + 1
         slot == Least((1 .. MaxLaunches) \ Slots)
     IN /\ launches' = Append(launches, [tiles |-> group, slot |-> slot, program |-> Program,
                                         status |-> "allocated"])
        /\ Start("launch", LaunchScript(Image, group, n, slot, known))
  /\ UNCHANGED <<loaded, images, crashes, net, mem, tileVars, fin, dramOn>>

BeginFinish ==
  /\ call = "idle" /\ loaded
  /\ Start("finish", FinishScript)
  /\ UNCHANGED <<loaded, images, launches, crashes, net, mem, tileVars, fin, dramOn>>

\* The next step of the script: a store is posted ...
HostStore ==
  /\ todo # <<>> /\ Head(todo).op = "store"
  /\ LET s == Head(todo)
     IN net' = [net EXCEPT ![s.to] = Append(@, [at |-> s.at, val |-> s.val])]
  /\ todo' = Tail(todo)
  /\ UNCHANGED <<call, ok, loaded, images, launches, crashes, mem, tileVars, fin, dramOn>>

\* ... a fence waits until every store has reached its destination.
HostFence ==
  /\ todo # <<>> /\ Head(todo).op = "fence"
  /\ \A d \in DOMAIN net : net[d] = <<>>
  /\ todo' = Tail(todo)
  /\ UNCHANGED <<call, ok, loaded, images, launches, crashes, net, mem, tileVars, fin, dramOn>>

\* The function returns.
Return ==
  /\ call # "idle" /\ todo = <<>>
  /\ call' = "idle"
  /\ loaded' = CASE call = "load" -> ok [] call = "finish" -> FALSE [] OTHER -> loaded
  /\ launches' = IF call = "launch" /\ ok
                   THEN [launches EXCEPT ![Len(launches)].status = "launched"]
                 ELSE IF call = "finish"
                   THEN [n \in DOMAIN launches |-> [launches[n] EXCEPT !.status = "finished"]]
                 ELSE launches
  /\ UNCHANGED <<todo, ok, images, crashes, net, mem, tileVars, fin, dramOn>>

\* A finish packet frees the tile group's tiles and arguments; one that
\* belongs to no launched tile group is dropped.
HandleFinish(n) ==
  /\ call = "idle" /\ n \in fin
  /\ fin' = fin \ {n}
  /\ launches' = IF launches[n].status = "launched"
                   THEN [launches EXCEPT ![n].status = "finished"] ELSE launches
  /\ UNCHANGED <<call, todo, ok, loaded, images, crashes, net, mem, tileVars, dramOn>>

\* The process ends without finishing its program; another one starts.  The
\* tiles go on; the FIFOs are drained when the next process initialises.
\* Bound: only while another process would still have something to do.
Crash ==
  /\ crashes < MaxCrashes /\ Program < MaxPrograms /\ Len(launches) < MaxLaunches
  /\ crashes' = crashes + 1
  /\ call' = "idle" /\ todo' = <<>> /\ ok' = TRUE /\ loaded' = FALSE
  /\ launches' = [n \in DOMAIN launches |-> [launches[n] EXCEPT !.status = "finished"]]
  /\ fin' = {}
  /\ UNCHANGED <<images, net, mem, tileVars, dramOn>>

(***************************************************************************)
(* The manycore (external).                                                *)
(***************************************************************************)

\* A store to a cache without a valid line has nowhere to go when there is
\* no DRAM behind it.
Lost(d, s) == d = Dram /\ s.at # Tags /\ ~dramOn /\ mem[Dram][Tags] # One

\* The oldest store on the way to a destination arrives.  Writing the freeze
\* register stops a tile, or starts it at its initial program counter.
Deliver(d) ==
  /\ net[d] # <<>>
  /\ LET s == Head(net[d])
     IN /\ mem' = IF Lost(d, s) THEN mem ELSE [mem EXCEPT ![d][s.at] = s.val]
        /\ IF s.at # Csr("freeze") THEN UNCHANGED tileVars
           ELSE IF s.val = One
             THEN run' = [run EXCEPT ![d] = "off"] /\ UNCHANGED <<runs, got>>
             ELSE /\ run' = [run EXCEPT ![d] = IF @ = "off" THEN "wait" ELSE @]
                  /\ runs' = [runs EXCEPT ![d] = Program]
                  /\ UNCHANGED got
  /\ net' = [net EXCEPT ![d] = Tail(@)]
  /\ UNCHANGED <<hostVars, fin, dramOn>>

TileSymbol(t, name) == mem[t][Dmem(images[runs[t]].symbol[name])]

\* A waiting tile finds its kernel pointer set.
StartKernel(t) ==
  /\ run[t] = "wait"
  /\ TileSymbol(t, "kernel_ptr") # TileSymbol(t, "not_loaded_val")
  /\ run' = [run EXCEPT ![t] = "kernel"]
  /\ got' = [got EXCEPT ![t] = TileSymbol(t, "kernel_ptr")[2]]
  /\ UNCHANGED <<hostVars, net, mem, runs, fin, dramOn>>

\* The tiles of a tile group complete the kernel.
KernelDone(n) ==
  /\ n \in DOMAIN launches
  /\ \A t \in launches[n].tiles : run[t] = "kernel" /\ got[t] = n
  /\ run' = [t \in Tiles |-> IF t \in launches[n].tiles THEN "wait" ELSE run[t]]
  /\ mem' = [d \in DOMAIN mem |->
               IF d \in launches[n].tiles
                 THEN [mem[d] EXCEPT ![Dmem(images[runs[d]].symbol["kernel_ptr"])] =
                         TileSymbol(d, "not_loaded_val")]
                 ELSE mem[d]]
  /\ fin' = fin \cup {n}
  /\ UNCHANGED <<hostVars, net, runs, got, dramOn>>

Calls ==
  \/ \E img \in UNION Range(Images) : BeginLoad(img)
  \/ \E group \in Groups, known \in BOOLEAN : BeginLaunch(group, known)
  \/ BeginFinish
  \/ Crash

Host == HostStore \/ HostFence \/ Return
Finishes == \E n \in fin : HandleFinish(n)
KernelsDone == \E n \in DOMAIN launches : KernelDone(n)
Manycore == (\E d \in DOMAIN net : Deliver(d)) \/ (\E t \in Tiles : StartKernel(t)) \/ KernelsDone

Next == Calls \/ Host \/ Finishes \/ Manycore

Spec == Init /\ [][Next]_vars

\* The host executes its scripts and takes the finish packets, stores arrive,
\* woken tiles see their kernel pointer, and kernels terminate.  Each of these
\* can only happen so often between two calls, so it is enough that they do
\* not all stop; nothing obliges a program to make another call.
Fairness == WF_vars(Host \/ Finishes \/ Manycore)
FairSpec == Spec /\ Fairness

(***************************************************************************)
(* Properties.                                                             *)
(***************************************************************************)

\* The scripts and the network hold stores to cells that exist.
TypeOK ==
  /\ call \in {"idle", "load", "launch", "finish"} /\ ok \in BOOLEAN /\ loaded \in BOOLEAN
  /\ Len(images) <= MaxPrograms /\ Len(launches) <= MaxLaunches
  /\ \A i \in DOMAIN todo : todo[i].op = "store" => todo[i].at \in DOMAIN mem[todo[i].to]
  /\ \A d \in DOMAIN net : \A i \in DOMAIN net[d] : net[d][i].at \in DOMAIN mem[d]
  /\ run \in [Tiles -> {"off", "wait", "kernel"}]
  /\ fin \subseteq DOMAIN launches

SymbolCells(img) == {Dmem(img.symbol[name]) : name \in Symbols}

\* The words of program p as its binary gives them, at tile t and in DRAM.
WordsPresent(p, t) ==
  LET img == images[p] IN
  /\ mem[t][Csr("pc")] = PcInit(img)
  /\ \A s \in DOMAIN img.segments : img.segments[s].load =>
       LET seg == img.segments[s] IN
       \A k \in 1 .. seg.mem :
         LET cell == IF seg.dram THEN DramAt(seg.at + k - 1) ELSE Dmem(seg.at + k - 1)
             word == IF k <= seg.file THEN ProgramWord(p, s, k) ELSE Zero
         IN IF seg.dram THEN mem[Dram][cell] = word
                        ELSE cell \in SymbolCells(img) \/ mem[t][cell] = word
  /\ \A k \in 1 .. MinSize(img.segments[TextSegment(img)].file, IcacheWords) :
       mem[t][Icache(k - 1)] = ProgramWord(p, TextSegment(img), k)

\* A tile that is not frozen has its whole program in place, every word in
\* DRAM, in its memory and in its instruction cache, and keeps it: it is
\* unfrozen only when the last store has landed, although the stores to
\* different destinations overtake each other, and the next program's first
\* store comes only when it is frozen.
RunsWholeProgram == crashes = 0 => \A t \in Tiles : run[t] # "off" => WordsPresent(runs[t], t)

\* A tile in a kernel was woken for a tile group it belongs to, and its
\* arguments, its place in the group and the arguments in DRAM are those of
\* that launch, from its first instruction until the kernel completes.
KernelSeesLaunch ==
  crashes = 0 => \A t \in Tiles : run[t] = "kernel" =>
    LET n == got[t] IN
    /\ n \in DOMAIN launches /\ t \in launches[n].tiles
    /\ TileSymbol(t, "args") = LaunchWord(n) /\ TileSymbol(t, "config") = LaunchWord(n)
    /\ mem[t][Csr("origin")] = Number(GroupOrigin(launches[n].tiles))
    /\ mem[Dram][Heap(launches[n].slot)] = LaunchWord(n)

\* Loading recovers from a process that died with its tiles running: once it
\* returns success, and until the program is finished, every tile that is not
\* frozen has restarted with the new program and has the whole of it, although
\* the first stores reached tiles that were still running the old one.
RecoversFromCrash ==
  loaded /\ call # "finish" =>
    \A t \in Tiles : run[t] # "off" => runs[t] = Program /\ WordsPresent(Program, t)

HasStatus(n, st) == n \in DOMAIN launches /\ launches[n].status = st

\* A tile group that was launched completes, unless its program is finished
\* first: every one of its tiles is woken, and none misses its wake-up.
LaunchCompletes ==
  \A n \in 1 .. MaxLaunches : HasStatus(n, "launched") ~> HasStatus(n, "finished")
=============================================================================
