------------------------- MODULE ProgramLoad_proofs -------------------------
(***************************************************************************)
(* Proofs about ProgramLoad: whatever the order in which the stores to     *)
(* different destinations arrive, a tile that runs has its whole program   *)
(* and a kernel sees its launch.                                           *)
(*                                                                         *)
(* The argument follows the last store to a cell from the script to the    *)
(* network to the memory.  A store that starts something (a tile, a        *)
(* kernel) comes straight after a fence, and nothing that it relies on     *)
(* comes after it: when it is posted the network is empty, and what it     *)
(* relies on is in the memories.                                           *)
(***************************************************************************)
EXTENDS ProgramLoad, FiniteSetTheorems, SequenceTheorems, NaturalsInduction,
        WellFoundedInduction, TLAPS

------------------------------------------------------------------------------
(* Types.                                                                   *)

Dests == {Dram} \cup Tiles
Cells(d) == IF d = Dram THEN DramCells ELSE TileCells
AllCells == DramCells \cup TileCells
Words == Nat \X Nat \X Nat

\* Tags are only made valid; the freeze register holds a bit.
Allowed(a, v) == (a = Tags => v = One) /\ (a = Csr("freeze") => v \in {Zero, One})

StoreSteps ==
  {x \in [op : {"store"}, to : Dests, at : AllCells, val : Words] :
     x.at \in Cells(x.to) /\ Allowed(x.at, x.val)}
Steps == {FenceStep} \cup StoreSteps

Packet(a, v) == [at |-> a, val |-> v]
Packets(d) == {x \in [at : AllCells, val : Words] : x.at \in Cells(d) /\ Allowed(x.at, x.val)}

Binaries == UNION Range(Images)
Launches ==
  [tiles : Groups, slot : 1 .. MaxLaunches, program : 1 .. MaxPrograms,
   status : {"allocated", "launched", "finished"}]

HostTypes ==
  /\ call \in {"idle", "load", "launch", "finish"} /\ ok \in BOOLEAN /\ loaded \in BOOLEAN
  /\ todo \in Seq(Steps)
  /\ images \in Seq(Binaries) /\ Program <= MaxPrograms
  /\ \A p \in 1 .. Program : images[p] \in Images[p]
  /\ launches \in Seq(Launches) /\ Len(launches) <= MaxLaunches
  /\ \A n \in DOMAIN launches : launches[n].program <= Program
  /\ crashes \in Nat /\ fin \subseteq DOMAIN launches
  /\ dramOn \in BOOLEAN

ManycoreTypes ==
  /\ net \in [Dests -> Seq([at : AllCells, val : Words])]
  /\ \A d \in Dests : net[d] \in Seq(Packets(d))
  /\ DOMAIN mem = Dests /\ \A d \in Dests : mem[d] \in [Cells(d) -> Words]
  /\ run \in [Tiles -> {"off", "wait", "kernel"}]
  /\ runs \in [Tiles -> 0 .. MaxPrograms] /\ got \in [Tiles -> Nat]

\* The calls a host makes of a pod with and without a program.
CallInv ==
  /\ call = "idle" => todo = <<>>
  /\ call = "load" => ~loaded
  /\ call \in {"launch", "finish"} => loaded
  /\ loaded \/ call = "load" => Program >= 1
  /\ Program = 0 => \A d \in Dests : net[d] = <<>>
  /\ \A t \in Tiles : runs[t] <= Program /\ (run[t] # "off" => runs[t] >= 1)

\* Tile groups that hold tiles and arguments hold different ones.
Held == {n \in DOMAIN launches : Placed(n)}
HeldApart ==
  \A m, n \in Held :
    m # n => launches[m].tiles \cap launches[n].tiles = {} /\ launches[m].slot # launches[n].slot

Types == HostTypes /\ ManycoreTypes /\ CallInv

------------------------------------------------------------------------------
(* The last store to a cell.                                                *)

Has(s, y) == \E i \in DOMAIN s : s[i] = y
IsStore(x, d, a) == x.op = "store" /\ x.to = d /\ x.at = a
StoredIn(s, d, a) == \E i \in DOMAIN s : IsStore(s[i], d, a)
SentTo(d, a) == \E i \in DOMAIN net[d] : net[d][i].at = a
Pending(d, a) == StoredIn(todo, d, a) \/ SentTo(d, a)

\* Freezing a tile, or making the tags valid, gets a destination ready for
\* the words of a program.
MarkCell(d) == IF d = Dram THEN Tags ELSE Csr("freeze")
Mark(d) == Store(d, MarkCell(d), One)
Starts(x) == x.at = Csr("freeze") /\ x.val # One

Ready(d) ==
  IF d = Dram THEN dramOn \/ mem[Dram][Tags] = One
  ELSE run[d] = "off" /\ \A i \in DOMAIN net[d] : ~Starts(net[d][i])

\* A mark on its way, and nothing behind it that starts the tile again.
Marked(d, p) ==
  /\ p \in DOMAIN net[d] /\ net[d][p] = Packet(MarkCell(d), One)
  /\ d # Dram => \A i \in DOMAIN net[d] : i > p => ~Starts(net[d][i])

\* v is what the cell will hold when all stores have arrived; if it must, it
\* comes after the destination is ready.
LastStore(s, i, d, a, v) ==
  i \in DOMAIN s /\ s[i] = Store(d, a, v) /\ \A j \in DOMAIN s : j > i => ~IsStore(s[j], d, a)
ToStore(d, a, v, must) ==
  \E i \in DOMAIN todo :
    /\ LastStore(todo, i, d, a, v)
    /\ must => Ready(d) \/ (\E p \in DOMAIN net[d] : Marked(d, p))
                        \/ (\E p \in 1 .. i : todo[p] = Mark(d))
Stored(d, a, v, must) ==
  \E i \in DOMAIN net[d] :
    /\ net[d][i] = Packet(a, v) /\ \A j \in DOMAIN net[d] : j > i => net[d][j].at # a
    /\ must => Ready(d) \/ (\E p \in 1 .. i : Marked(d, p))
Final(d, a, v, must) ==
  \/ ToStore(d, a, v, must)
  \/ ~StoredIn(todo, d, a) /\ Stored(d, a, v, must)
  \/ ~Pending(d, a) /\ mem[d][a] = v /\ (must => Ready(d))

Settled(d, a, v) == ~Pending(d, a) /\ mem[d][a] = v

------------------------------------------------------------------------------
(* Stores that start something.                                             *)

Unfreeze(t) == Store(t, Csr("freeze"), Zero)
Unfreezes == {Unfreeze(t) : t \in Tiles}

Cell(name) == Dmem(Image.symbol[name])
Pointer(img, t, n) == Store(t, Dmem(img.symbol["kernel_ptr"]), LaunchWord(n))
Pointers(img, n) == {Pointer(img, t, n) : t \in Tiles}
Wake(t, n) == Pointer(Image, t, n)

\* A starting store follows a fence; the stores after it go to other tiles.
Fenced(s, i) == i > 1 /\ s[i - 1] = FenceStep
NoneAfter(s, i) ==
  \A j \in DOMAIN s : j > i /\ s[j].op = "store" => s[j].to # Dram /\ s[j].to # s[i].to
NetEmpty == \A d \in Dests : net[d] = <<>>

Triggers ==
  Unfreezes \cup (IF call = "launch" THEN Pointers(Image, Len(launches)) ELSE {})
TriggerInv ==
  \A i \in DOMAIN todo : todo[i] \in Triggers =>
    (IF i = 1 THEN NetEmpty ELSE Fenced(todo, i)) /\ NoneAfter(todo, i)

UnfreezeInv ==
  \A i \in DOMAIN todo : todo[i] \in Unfreezes => call = "load" /\ ok

ToUnfreeze(t) == Has(todo, Unfreeze(t))
ToWake(t) == Has(todo, Wake(t, Len(launches)))

------------------------------------------------------------------------------
(* The words of a program.                                                  *)

Loaded(img) == {s \in DOMAIN img.segments : img.segments[s].load}
\* The segments that a memory has room for.
Fitting(img) == {s \in Loaded(img) : img.segments[s].mem <= Capacity(img.segments[s])}
SegmentDest(seg, t) == IF seg.dram THEN Dram ELSE t
SegmentCell(seg, k) == IF seg.dram THEN DramAt(seg.at + k - 1) ELSE Dmem(seg.at + k - 1)
SegmentWord(seg, p, s, k) == IF k <= seg.file THEN ProgramWord(p, s, k) ELSE Zero
TextSize(img) == MinSize(img.segments[TextSegment(img)].file, IcacheWords)

PcWord(img, t) == <<t, Csr("pc"), PcInit(img)>>
TextWord(img, p, t, k) == <<t, Icache(k - 1), ProgramWord(p, TextSegment(img), k)>>
DataWord(img, p, s, t, k) ==
  <<SegmentDest(img.segments[s], t), SegmentCell(img.segments[s], k),
    SegmentWord(img.segments[s], p, s, k)>>
TagsWord == <<Dram, Tags, One>>

DataWords(img, p, s, t) ==
  {w \in {DataWord(img, p, s, t, k) : k \in 1 .. img.segments[s].mem} :
     w[2] \notin SymbolCells(img)}

TextWords(img, p, t) == {TextWord(img, p, t, k) : k \in 1 .. TextSize(img)}
AllDataWords(img, p, t) == UNION {DataWords(img, p, s, t) : s \in Loaded(img)}
TagsWords == IF dramOn THEN {} ELSE {TagsWord}
Wanted(img, p, t) ==
  {PcWord(img, t)} \cup TextWords(img, p, t) \cup AllDataWords(img, p, t) \cup TagsWords

\* What a tile waits with.
Boot(img, t) ==
  {<<t, Dmem(img.symbol[name]), NotLoaded>> : name \in {"kernel_ptr", "not_loaded_val"}}

\* The tile has the program of its pod and keeps it.
Keep(t) ==
  /\ \A w \in Wanted(Image, Program, t) : Settled(w[1], w[2], w[3])
  /\ Ready(Dram)
  /\ run[t] # "off" => runs[t] = Program

\* A program that is loaded fits.
Fits(img) == Loaded(img) = Fitting(img) /\ TextSegments(img) # {}
FitsInv == loaded \/ (call = "load" /\ ok) => Fits(Image)

LoadInv ==
  call = "load" /\ ok =>
    \A t \in Tiles :
      IF ToUnfreeze(t)
        THEN \A w \in Wanted(Image, Program, t) \cup Boot(Image, t) :
               Final(w[1], w[2], w[3], TRUE)
        ELSE Keep(t) /\ \A i \in DOMAIN todo : todo[i].op = "store" => todo[i].to \notin {t, Dram}

LoadedInv == loaded => \A t \in Tiles : Keep(t)

------------------------------------------------------------------------------
(* Tiles that are not running, unless a process has died.                   *)

\* A program that is finished stops the tiles and waits.
Stops(t) ==
  Ready(t) \/ (\E p \in DOMAIN net[t] : Marked(t, p)) \/ Has(todo, Mark(t))

FinishInv ==
  call = "finish" =>
    /\ \A i \in DOMAIN todo : todo[i] = FenceStep \/ \E t \in Tiles : todo[i] = Mark(t)
    /\ IF todo = <<>> THEN NetEmpty ELSE todo[Len(todo)] = FenceStep

OffInv ==
  crashes = 0 =>
    \A t \in Tiles :
      /\ call = "idle" /\ ~loaded => Ready(t)
      /\ call = "load" => Ready(t) \/ (ok /\ ~ToUnfreeze(t))
      /\ call = "finish" => Stops(t)

------------------------------------------------------------------------------
(* Launches.                                                                *)

\* What a kernel may look at.
FactsOf(img, t, group, slot, n) ==
  {<<t, Dmem(img.symbol["args"]), LaunchWord(n)>>, <<t, Dmem(img.symbol["config"]), LaunchWord(n)>>,
   <<t, Csr("origin"), Number(GroupOrigin(group))>>, <<Dram, Heap(slot), LaunchWord(n)>>}
Facts(t, n) == FactsOf(Image, t, launches[n].tiles, launches[n].slot, n)

\* The stores of the launch of n.
TileStores(img, t, group, n) ==
  {Store(t, Dmem(img.symbol["args"]), LaunchWord(n)),
   Store(t, Dmem(img.symbol["config"]), LaunchWord(n)),
   Store(t, Csr("origin"), Number(GroupOrigin(group))),
   Store(t, Dmem(img.symbol["not_loaded_val"]), NotLoaded), Pointer(img, t, n)}
GroupStores(img, group, n) == UNION {TileStores(img, t, group, n) : t \in group}
LaunchSteps(img, group, slot, n) ==
  GroupStores(img, group, n) \cup {Store(Dram, Heap(slot), LaunchWord(n)), FenceStep}
LaunchStores(n) == LaunchSteps(Image, launches[n].tiles, launches[n].slot, n)

LaunchInv ==
  call = "launch" =>
    LET n == Len(launches) IN
    /\ n \in DOMAIN launches /\ Placed(n) /\ launches[n].status = "allocated"
    /\ \A i \in DOMAIN todo : todo[i] \in LaunchStores(n)
    /\ \A t \in Tiles : ToWake(t) =>
         n \notin fin /\ \A f \in Facts(t, n) : Final(f[1], f[2], f[3], FALSE)

\* The tile was unfrozen, or is about to be, with the program of its pod.
Up(t) == loaded \/ (call = "load" /\ ok /\ ~ToUnfreeze(t))

\* The tile has been woken for tile group n, which has not completed.
Woken(t, n) ==
  /\ n \in Held /\ t \in launches[n].tiles /\ n \notin fin
  /\ \A f \in Facts(t, n) : Settled(f[1], f[2], f[3])

\* There is at most one kernel pointer for the tile: in the script, on its
\* way, or in its memory, until the kernel has completed.
PointerInMemory(t) ==
  \/ mem[t][Cell("kernel_ptr")] = NotLoaded
  \/ \E n \in DOMAIN launches : mem[t][Cell("kernel_ptr")] = LaunchWord(n) /\ Woken(t, n)
Unset(t) == mem[t][Cell("kernel_ptr")] = NotLoaded /\ run[t] # "kernel"
PointerSent(t) ==
  \A i \in DOMAIN net[t] : net[t][i].at = Cell("kernel_ptr") =>
    /\ \E n \in DOMAIN launches : net[t][i].val = LaunchWord(n) /\ Woken(t, n)
    /\ Unset(t) /\ \A j \in DOMAIN net[t] : net[t][j].at = Cell("kernel_ptr") => j = i
PointerToSend(t) ==
  StoredIn(todo, t, Cell("kernel_ptr")) => Unset(t) /\ ~SentTo(t, Cell("kernel_ptr"))
Waits(t) ==
  /\ mem[t][Cell("not_loaded_val")] = NotLoaded
  /\ \A i \in DOMAIN net[t] : net[t][i].at = Cell("not_loaded_val") => net[t][i].val = NotLoaded
InKernel(t) == run[t] = "kernel" => mem[t][Cell("kernel_ptr")] = LaunchWord(got[t])

KernelInv ==
  \A t \in Tiles : Up(t) =>
    Waits(t) /\ PointerInMemory(t) /\ PointerSent(t) /\ PointerToSend(t) /\ InKernel(t)

ScriptInv == TriggerInv /\ UnfreezeInv /\ FinishInv /\ LaunchInv
IInv ==
  Types /\ HeldApart /\ ScriptInv /\ FitsInv /\ LoadInv /\ LoadedInv /\ OffInv /\ KernelInv

------------------------------------------------------------------------------
(* Sequences.                                                               *)

\* A name for concatenation that the provers leave alone.
Cat(s, t) == s \o t

LEMMA TailOf ==
  ASSUME NEW S, NEW s \in Seq(S), s # <<>>
  PROVE  /\ Head(s) = s[1] /\ 1 \in DOMAIN s /\ Tail(s) \in Seq(S) /\ Head(s) \in S
         /\ Len(s) \in Nat \ {0} /\ DOMAIN s = 1 .. Len(s) /\ DOMAIN Tail(s) = 1 .. Len(s) - 1
         /\ \A i \in DOMAIN Tail(s) : i + 1 \in DOMAIN s /\ Tail(s)[i] = s[i + 1]
         /\ \A i \in DOMAIN s : i # 1 => i - 1 \in DOMAIN Tail(s) /\ Tail(s)[i - 1] = s[i]
<1>1. Len(s) \in Nat \ {0} /\ DOMAIN s = 1 .. Len(s)
  BY EmptySeq
<1>2. Tail(s) \in Seq(S) /\ Len(Tail(s)) = Len(s) - 1
      /\ \A i \in 1 .. Len(s) - 1 : Tail(s)[i] = s[i + 1]
  BY <1>1
<1>3. QED
  BY <1>1, <1>2

LEMMA AppendOf ==
  ASSUME NEW S, NEW s \in Seq(S), NEW x \in S
  PROVE  /\ Append(s, x) \in Seq(S) /\ Len(s) \in Nat
         /\ DOMAIN s = 1 .. Len(s) /\ DOMAIN Append(s, x) = 1 .. Len(s) + 1
         /\ \A i \in 1 .. Len(s) : Append(s, x)[i] = s[i]
         /\ Append(s, x)[Len(s) + 1] = x
  OBVIOUS

LEMMA ConcatOf ==
  ASSUME NEW S, NEW s \in Seq(S), NEW t \in Seq(S), NEW u, u = Cat(s, t)
  PROVE  /\ u \in Seq(S) /\ Len(s) \in Nat /\ Len(t) \in Nat
         /\ DOMAIN s = 1 .. Len(s) /\ DOMAIN t = 1 .. Len(t) /\ DOMAIN u = 1 .. Len(s) + Len(t)
         /\ \A i \in 1 .. Len(s) : u[i] = s[i]
         /\ \A i \in 1 .. Len(t) : u[Len(s) + i] = t[i] /\ Len(s) + i \in 1 .. Len(s) + Len(t)
         /\ \A i \in Len(s) + 1 .. Len(s) + Len(t) : u[i] = t[i - Len(s)] /\ i - Len(s) \in 1 .. Len(t)
  BY DEF Cat

LEMMA ElementsOf ==
  ASSUME NEW S, NEW s \in Seq(S)
  PROVE  DOMAIN s = 1 .. Len(s) /\ Len(s) \in Nat /\ \A i \in DOMAIN s : s[i] \in S
  OBVIOUS

LEMMA HasConcat ==
  ASSUME NEW S, NEW s \in Seq(S), NEW t \in Seq(S), NEW y
  PROVE  Has(Cat(s, t), y) <=> Has(s, y) \/ Has(t, y)
<1> DEFINE u == Cat(s, t)
<1>0. u = Cat(s, t)
  OBVIOUS
<1> HIDE DEF u
<1>1. /\ Len(s) \in Nat /\ Len(t) \in Nat /\ DOMAIN s = 1 .. Len(s) /\ DOMAIN t = 1 .. Len(t)
      /\ DOMAIN u = 1 .. Len(s) + Len(t) /\ \A i \in 1 .. Len(s) : u[i] = s[i]
      /\ \A i \in 1 .. Len(t) : u[Len(s) + i] = t[i] /\ Len(s) + i \in 1 .. Len(s) + Len(t)
      /\ \A i \in Len(s) + 1 .. Len(s) + Len(t) : u[i] = t[i - Len(s)] /\ i - Len(s) \in 1 .. Len(t)
  BY <1>0 DEF Cat
<1>2. ASSUME Has(u, y) PROVE Has(s, y) \/ Has(t, y)
  <2>1. PICK i \in 1 .. Len(s) + Len(t) : u[i] = y
    BY <1>1, <1>2 DEF Has
  <2>2. CASE i \in 1 .. Len(s)
    BY <1>1, <2>1, <2>2 DEF Has
  <2>3. CASE i \notin 1 .. Len(s)
    <3>1. i \in Len(s) + 1 .. Len(s) + Len(t)
      BY <1>1, <2>3
    <3>2. t[i - Len(s)] = y /\ i - Len(s) \in DOMAIN t
      BY <1>1, <2>1, <3>1
    <3>3. QED
      BY <3>2 DEF Has
  <2>4. QED
    BY <2>2, <2>3
<1>3. ASSUME Has(s, y) PROVE Has(u, y)
  BY <1>1, <1>3 DEF Has
<1>4. ASSUME Has(t, y) PROVE Has(u, y)
  BY <1>1, <1>4 DEF Has
<1>5. QED
  BY <1>2, <1>3, <1>4 DEF u

LEMMA LeastExists ==
  ASSUME NEW S \in SUBSET Nat, S # {}
  PROVE  \E i \in S : \A j \in S : i <= j
<1>1. PICK i \in S : \A j \in S : <<j, i>> \notin OpToRel(<, Nat)
  <2>1. PICK x : x \in S
    BY Zenon
  <2>2. S \subseteq Nat /\ IsWellFoundedOn(OpToRel(<, Nat), Nat)
    BY NatLessThanWellFounded, Zenon
  <2>3. IsWellFoundedOn(OpToRel(<, Nat), S)
    BY <2>2, IsWellFoundedOnSubset, Zenon
  <2>4. QED
    BY <2>1, <2>2, WFMin, Zenon
<1>2. \A j \in S : ~(j < i)
  BY <1>1 DEF OpToRel
<1>3. QED
  BY <1>2

\* The last of the places where something is.
LEMMA LastExists ==
  ASSUME NEW n \in Nat, NEW S \in SUBSET (1 .. n), S # {}
  PROVE  \E i \in S : \A j \in S : j <= i
<1> DEFINE T == {n - i : i \in S}
<1>1. T \in SUBSET Nat /\ T # {}
  <2>1. \A i \in S : n - i \in Nat
    OBVIOUS
  <2>2. QED
    BY <2>1
<1> HIDE DEF T
<1>2. PICK k \in T : \A j \in T : k <= j
  BY <1>1, LeastExists
<1>3. PICK i \in S : k = n - i
  BY DEF T
<1>4. \A j \in S : n - j \in T
  BY DEF T
<1>5. \A j \in S : n - i <= n - j
  BY <1>2, <1>3, <1>4
<1>6. QED
  BY <1>5

------------------------------------------------------------------------------
(* Scripts.                                                                 *)

Scripts(Y) == [steps : Seq(Y), ok : BOOLEAN]

LEMMA NothingIn ==
  ASSUME NEW Y
  PROVE  /\ Nothing \in Scripts(Y) /\ Nothing.ok /\ \A y : ~Has(Nothing.steps, y)
         /\ \A c \in BOOLEAN : Require(c) \in Scripts(Y) /\ Require(c).ok = c
                               /\ \A y : ~Has(Require(c).steps, y)
<1>1. <<>> \in Seq(Y) /\ DOMAIN <<>> = {}
  OBVIOUS
<1>2. QED
  BY <1>1 DEF Nothing, Require, Scripts, Has

LEMMA Joined ==
  ASSUME NEW Y, NEW a \in Scripts(Y), NEW b, a.ok => b \in Scripts(Y)
  PROVE  /\ a ++ b \in Scripts(Y)
         /\ a.ok => /\ (a ++ b).steps = Cat(a.steps, b.steps) /\ ((a ++ b).ok <=> b.ok)
                    /\ b.steps \in Seq(Y) /\ b.ok \in BOOLEAN
         /\ ~a.ok => a ++ b = a
         /\ a.steps \in Seq(Y) /\ a.ok \in BOOLEAN
         /\ \A y : Has((a ++ b).steps, y) <=> Has(a.steps, y) \/ (a.ok /\ Has(b.steps, y))
<1>1. a.steps \in Seq(Y) /\ a.ok \in BOOLEAN
  BY DEF Scripts
<1>2. CASE a.ok
  <2>1. b.steps \in Seq(Y) /\ b.ok \in BOOLEAN
    BY <1>2 DEF Scripts
  <2>2. a ++ b = [steps |-> Cat(a.steps, b.steps), ok |-> b.ok]
    BY <1>2 DEF ++, Cat
  <2>3. Cat(a.steps, b.steps) \in Seq(Y)
    BY <1>1, <2>1, ConcatOf
  <2>4. a ++ b \in Scripts(Y) /\ (a ++ b).steps = Cat(a.steps, b.steps) /\ (a ++ b).ok = b.ok
    BY <2>1, <2>2, <2>3 DEF Scripts
  <2>5. \A y : Has(Cat(a.steps, b.steps), y) <=> Has(a.steps, y) \/ Has(b.steps, y)
    BY <1>1, <2>1, HasConcat
  <2>6. QED
    BY <1>1, <1>2, <2>1, <2>4, <2>5
<1>3. CASE ~a.ok
  BY <1>1, <1>3 DEF ++
<1>4. QED
  BY <1>1, <1>2, <1>3

LEMMA JoinedAs ==
  ASSUME NEW Y, NEW a \in Scripts(Y), NEW b \in Scripts(Y), NEW c, c = a ++ b
  PROVE  /\ a.ok => c.steps = Cat(a.steps, b.steps) /\ (c.ok <=> b.ok)
         /\ ~a.ok => c = a
         /\ a.steps \in Seq(Y) /\ b.steps \in Seq(Y)
         /\ \A y : Has(c.steps, y) <=> Has(a.steps, y) \/ (a.ok /\ Has(b.steps, y))
<1>1. a.ok => c.steps = Cat(a.steps, b.steps) /\ (c.ok <=> b.ok)
  BY Joined
<1>2. ~a.ok => c = a
  BY Joined
<1>3. a.steps \in Seq(Y) /\ b.steps \in Seq(Y)
  BY DEF Scripts
<1>4. \A y : Has(c.steps, y) <=> Has(a.steps, y) \/ (a.ok /\ Has(b.steps, y))
  BY Joined
<1>5. QED
  BY <1>1, <1>2, <1>3, <1>4

\* The scripts of the first k rounds of a loop.
IsChain(f, xs, k) ==
  f = [i \in 0 .. k |-> IF i = 0 THEN Nothing ELSE f[i - 1] ++ xs[i]]

LEMMA ChainExists ==
  ASSUME NEW Y, NEW xs \in Seq(Scripts(Y))
  PROVE  \E f \in [0 .. Len(xs) -> Scripts(Y)] : IsChain(f, xs, Len(xs))
<1> DEFINE n == Len(xs)
           Fails == {k \in 0 .. n : \A f \in [0 .. k -> Scripts(Y)] : ~IsChain(f, xs, k)}
<1>0. n \in Nat /\ \A i \in 1 .. n : xs[i] \in Scripts(Y)
  BY ElementsOf
<1> HIDE DEF n
<1>1. ASSUME Fails # {} PROVE FALSE
  <2>1. PICK k \in Fails : \A j \in Fails : k <= j
    <3>1. Fails \in SUBSET Nat
      BY <1>0
    <3> HIDE DEF Fails
    <3>2. QED
      BY <1>1, <3>1, LeastExists
  <2>2. k \in 0 .. n /\ \A f \in [0 .. k -> Scripts(Y)] : ~IsChain(f, xs, k)
    BY <2>1
  <2>3. CASE k = 0
    <3> DEFINE f == [i \in 0 .. k |-> Nothing]
    <3>1. 0 .. k = {0}
      BY <2>3
    <3>2. f \in [0 .. k -> Scripts(Y)]
      BY NothingIn
    <3>3. f = [i \in 0 .. k |-> IF i = 0 THEN Nothing ELSE f[i - 1] ++ xs[i]]
      BY <3>1
    <3>4. QED
      BY <2>2, <3>2, <3>3 DEF IsChain
  <2>4. CASE k # 0
    <3>1. k - 1 \in 0 .. n /\ k \in 1 .. n /\ k \in Nat /\ k - 1 \notin Fails
      BY <1>0, <2>1, <2>2, <2>4
    <3>2. PICK g \in [0 .. k - 1 -> Scripts(Y)] : IsChain(g, xs, k - 1)
      BY <3>1
    <3> HIDE DEF Fails
    <3> DEFINE last == g[k - 1] ++ xs[k]
               f == [i \in 0 .. k |-> IF i = k THEN last ELSE g[i]]
    <3>3. last \in Scripts(Y)
      <4>1. g[k - 1] \in Scripts(Y) /\ xs[k] \in Scripts(Y)
        BY <1>0, <3>1, <3>2
      <4>2. QED
        BY <4>1, Joined
    <3>4. last = g[k - 1] ++ xs[k]
      OBVIOUS
    <3> HIDE DEF last
    <3>5. f \in [0 .. k -> Scripts(Y)]
      <4>1. SUFFICES ASSUME NEW i \in 0 .. k PROVE f[i] \in Scripts(Y)
        OBVIOUS
      <4>2. i # k => i \in 0 .. k - 1
        BY <3>1
      <4>3. QED
        BY <3>2, <3>3, <4>2
    <3>6. \A i \in 0 .. k : f[i] = IF i = 0 THEN Nothing ELSE f[i - 1] ++ xs[i]
      <4>1. SUFFICES ASSUME NEW i \in 0 .. k PROVE f[i] = IF i = 0 THEN Nothing ELSE f[i - 1] ++ xs[i]
        OBVIOUS
      <4>2. i # 0 => i - 1 \in 0 .. k /\ i - 1 # k
        BY <3>1
      <4>3. CASE i = k
        <5>1. f[i] = last /\ i # 0
          BY <4>3, <2>4
        <5>2. f[i - 1] = g[k - 1]
          BY <4>2, <4>3, <2>4
        <5>3. QED
          BY <5>1, <5>2, <4>3, <3>4
      <4>4. CASE i # k
        <5>1. i \in 0 .. k - 1 /\ f[i] = g[i]
          BY <4>4, <3>1
        <5>2. g[i] = IF i = 0 THEN Nothing ELSE g[i - 1] ++ xs[i]
          BY <3>2, <5>1 DEF IsChain
        <5>3. i # 0 => f[i - 1] = g[i - 1]
          BY <4>2
        <5>4. QED
          BY <5>1, <5>2, <5>3
      <4>5. QED
        BY <4>3, <4>4
    <3>7. f = [i \in 0 .. k |-> IF i = 0 THEN Nothing ELSE f[i - 1] ++ xs[i]]
      <4>1. f = [i \in 0 .. k |-> f[i]]
        OBVIOUS
      <4>2. [i \in 0 .. k |-> f[i]] = [i \in 0 .. k |-> IF i = 0 THEN Nothing ELSE f[i - 1] ++ xs[i]]
        <5> HIDE DEF f
        <5>1. QED
          BY <3>6
      <4>3. QED
        BY <4>1, <4>2
    <3>8. QED
      <4> HIDE DEF f
      <4>1. IsChain(f, xs, k)
        BY <3>7 DEF IsChain
      <4>2. QED
        BY <2>2, <3>5, <4>1
  <2>5. QED
    BY <2>3, <2>4
<1>2. n \in 0 .. n /\ n \notin Fails
  BY <1>0, <1>1
<1>3. QED
  BY <1>2 DEF n

\* What a loop does, round by round.
LEMMA ChainOf ==
  ASSUME NEW Y, NEW xs \in Seq(Scripts(Y))
  PROVE  \E f \in [0 .. Len(xs) -> Scripts(Y)] :
           /\ f[0] = Nothing /\ f[Len(xs)] = Chain(xs)
           /\ \A i \in 1 .. Len(xs) : f[i] = f[i - 1] ++ xs[i]
<1> DEFINE n == Len(xs)
           g == CHOOSE f : IsChain(f, xs, n)
<1>1. n \in Nat /\ n \in 0 .. n
  OBVIOUS
<1>2. Chain(xs) = g[n]
  BY DEF Chain, IsChain
<1> HIDE DEF n
<1>3. PICK f \in [0 .. n -> Scripts(Y)] : IsChain(f, xs, n)
  BY ChainExists DEF n
<1>4. IsChain(g, xs, n)
  BY <1>3
<1> HIDE DEF g
<1>5. \A k \in 0 .. n : f[k] = IF k = 0 THEN Nothing ELSE f[k - 1] ++ xs[k]
  BY <1>3 DEF IsChain
<1>6. \A k \in 0 .. n : g[k] = IF k = 0 THEN Nothing ELSE g[k - 1] ++ xs[k]
  BY <1>4 DEF IsChain
<1> DEFINE Differ == {k \in 0 .. n : g[k] # f[k]}
<1>7. ASSUME Differ # {} PROVE FALSE
  <2>1. PICK k \in Differ : \A j \in Differ : k <= j
    <3>1. Differ \in SUBSET Nat
      BY <1>1
    <3> HIDE DEF Differ
    <3>2. QED
      BY <1>7, <3>1, LeastExists
  <2>2. k \in 0 .. n /\ g[k] # f[k]
    BY <2>1
  <2>3. k # 0 => k - 1 \in 0 .. n /\ g[k - 1] = f[k - 1]
    BY <1>1, <2>1
  <2>4. QED
    BY <2>2, <2>3, <1>5, <1>6
<1>8. f[n] = g[n]
  BY <1>1, <1>7
<1>9. f[0] = Nothing /\ \A i \in 1 .. n : f[i] = f[i - 1] ++ xs[i]
  BY <1>1, <1>5
<1>10. QED
  BY <1>2, <1>8, <1>9 DEF n

\* A loop does what its rounds do, all of it if it succeeds.
LEMMA ChainRounds ==
  ASSUME NEW Y, NEW xs \in Seq(Scripts(Y))
  PROVE  /\ Chain(xs) \in Scripts(Y)
         /\ Chain(xs).ok <=> \A i \in DOMAIN xs : xs[i].ok
         /\ Chain(xs).ok => \A i \in DOMAIN xs : \A y :
              Has(xs[i].steps, y) => Has(Chain(xs).steps, y)
         /\ \A y : Has(Chain(xs).steps, y) => \E i \in DOMAIN xs : Has(xs[i].steps, y)
<1> DEFINE n == Len(xs)
<1>1. n \in Nat /\ DOMAIN xs = 1 .. n /\ \A i \in 1 .. n : xs[i] \in Scripts(Y)
  BY ElementsOf
<1> HIDE DEF n
<1>2. PICK f \in [0 .. n -> Scripts(Y)] :
        /\ f[0] = Nothing /\ f[n] = Chain(xs)
        /\ \A i \in 1 .. n : f[i] = f[i - 1] ++ xs[i]
  BY ChainOf DEF n
<1> DEFINE Good(k) ==
      /\ f[k].ok <=> \A i \in 1 .. k : xs[i].ok
      /\ f[k].ok => \A i \in 1 .. k : \A y : Has(xs[i].steps, y) => Has(f[k].steps, y)
      /\ \A y : Has(f[k].steps, y) => \E i \in 1 .. k : Has(xs[i].steps, y)
           Bad == {k \in 0 .. n : ~Good(k)}
<1> HIDE DEF Good
<1>3. ASSUME Bad # {} PROVE FALSE
  <2>1. PICK k \in Bad : \A j \in Bad : k <= j
    <3>1. Bad \in SUBSET Nat
      BY <1>1
    <3> HIDE DEF Bad
    <3>2. QED
      BY <1>3, <3>1, LeastExists
  <2>2. k \in 0 .. n /\ ~Good(k)
    BY <2>1
  <2>3. CASE k = 0
    <3>1. 1 .. 0 = {}
      OBVIOUS
    <3>2. QED
      BY <1>2, <2>2, <2>3, <3>1, NothingIn DEF Good
  <2>4. CASE k # 0
    <3>1. k \in 1 .. n /\ k - 1 \in 0 .. n
      BY <1>1, <2>2, <2>4
    <3>2. Good(k - 1)
      BY <1>1, <2>1, <3>1
    <3> HIDE DEF Bad
    <3>3. f[k] = f[k - 1] ++ xs[k] /\ f[k - 1] \in Scripts(Y) /\ xs[k] \in Scripts(Y)
      BY <1>1, <1>2, <3>1
    <3>4. /\ f[k - 1].ok => (f[k].ok <=> xs[k].ok)
          /\ ~f[k - 1].ok => f[k] = f[k - 1]
          /\ \A y : Has(f[k].steps, y) <=> Has(f[k - 1].steps, y) \/ (f[k - 1].ok /\ Has(xs[k].steps, y))
      <4>1. PICK a \in Scripts(Y), b \in Scripts(Y), c \in {f[k]} :
              a = f[k - 1] /\ b = xs[k] /\ c = f[k] /\ c = a ++ b
        BY <3>3
      <4>2. ~a.ok => c = a
        BY <4>1, JoinedAs
      <4>3. a.ok => (c.ok <=> b.ok)
        BY <4>1, JoinedAs
      <4>4. \A x : Has(c.steps, x) <=> Has(a.steps, x) \/ (a.ok /\ Has(b.steps, x))
        <5>1. a \in Scripts(Y) /\ b \in Scripts(Y) /\ c = a ++ b
          BY <4>1
        <5>2. QED
          BY ONLY <5>1, JoinedAs
      <4>5. QED
        BY <4>1, <4>2, <4>3, <4>4
    <3>5. \A i : i \in 1 .. k <=> i \in 1 .. k - 1 \/ i = k
      BY <3>1, <1>1
    <3>6. f[k].ok <=> \A i \in 1 .. k : xs[i].ok
      BY <3>2, <3>4, <3>5 DEF Good
    <3>7. f[k].ok => \A i \in 1 .. k : \A y : Has(xs[i].steps, y) => Has(f[k].steps, y)
      BY <3>2, <3>4, <3>5 DEF Good
    <3>8. \A y : Has(f[k].steps, y) => \E i \in 1 .. k : Has(xs[i].steps, y)
      BY <3>2, <3>4, <3>5 DEF Good
    <3>9. QED
      BY <2>2, <3>6, <3>7, <3>8 DEF Good
  <2>5. QED
    BY <2>3, <2>4
<1>4. n \in 0 .. n /\ Good(n)
  BY <1>1, <1>3
<1>5. Chain(xs) \in Scripts(Y)
  BY <1>2, <1>4
<1>6. Good(n) => /\ Chain(xs).ok <=> \A i \in DOMAIN xs : xs[i].ok
                 /\ Chain(xs).ok => \A i \in DOMAIN xs : \A y :
                      Has(xs[i].steps, y) => Has(Chain(xs).steps, y)
                 /\ \A y : Has(Chain(xs).steps, y) => \E i \in DOMAIN xs : Has(xs[i].steps, y)
  BY <1>1, <1>2 DEF Good
<1>7. QED
  BY <1>4, <1>5, <1>6

\* What each round that does one thing also does, the loop does.
LEMMA ChainImplies ==
  ASSUME NEW Y, NEW xs \in Seq(Scripts(Y)), NEW y, NEW z,
         \A i \in DOMAIN xs : Has(xs[i].steps, y) => Has(xs[i].steps, z)
  PROVE  Has(Chain(xs).steps, y) => Has(Chain(xs).steps, z)
<1> DEFINE n == Len(xs)
<1>1. n \in Nat /\ DOMAIN xs = 1 .. n /\ \A i \in 1 .. n : xs[i] \in Scripts(Y)
  BY ElementsOf
<1> HIDE DEF n
<1>2. PICK f \in [0 .. n -> Scripts(Y)] :
        /\ f[0] = Nothing /\ f[n] = Chain(xs)
        /\ \A i \in 1 .. n : f[i] = f[i - 1] ++ xs[i]
  BY ChainOf DEF n
<1> DEFINE Good(k) == Has(f[k].steps, y) => Has(f[k].steps, z)
           Bad == {k \in 0 .. n : ~Good(k)}
<1> HIDE DEF Good
<1>3. ASSUME Bad # {} PROVE FALSE
  <2>1. PICK k \in Bad : \A j \in Bad : k <= j
    <3>1. Bad \in SUBSET Nat
      BY <1>1
    <3> HIDE DEF Bad
    <3>2. QED
      BY <1>3, <3>1, LeastExists
  <2>2. k \in 0 .. n /\ ~Good(k)
    BY <2>1
  <2>3. CASE k = 0
    BY <1>2, <2>2, <2>3, NothingIn DEF Good
  <2>4. CASE k # 0
    <3>1. k \in 1 .. n /\ k - 1 \in 0 .. n
      BY <1>1, <2>2, <2>4
    <3>2. Good(k - 1)
      BY <1>1, <2>1, <3>1
    <3> HIDE DEF Bad
    <3>3. f[k] = f[k - 1] ++ xs[k] /\ f[k - 1] \in Scripts(Y) /\ xs[k] \in Scripts(Y)
      BY <1>1, <1>2, <3>1
    <3>4. \A x : Has(f[k].steps, x) <=> Has(f[k - 1].steps, x) \/ (f[k - 1].ok /\ Has(xs[k].steps, x))
      <4>1. PICK a \in Scripts(Y), b \in Scripts(Y), c \in {f[k]} :
              a = f[k - 1] /\ b = xs[k] /\ c = f[k] /\ c = a ++ b
        BY <3>3
      <4>2. ~a.ok => c = a
        BY <4>1, JoinedAs
      <4>3. a.ok => (c.ok <=> b.ok)
        BY <4>1, JoinedAs
      <4>4. \A x : Has(c.steps, x) <=> Has(a.steps, x) \/ (a.ok /\ Has(b.steps, x))
        <5>1. a \in Scripts(Y) /\ b \in Scripts(Y) /\ c = a ++ b
          BY <4>1
        <5>2. QED
          BY ONLY <5>1, JoinedAs
      <4>5. QED
        BY <4>1, <4>2, <4>3, <4>4
    <3>5. QED
      BY <1>1, <2>2, <3>1, <3>2, <3>4 DEF Good
  <2>5. QED
    BY <2>3, <2>4
<1>4. n \in 0 .. n /\ Good(n)
  BY <1>1, <1>3
<1>5. QED
  BY <1>2, <1>4 DEF Good

------------------------------------------------------------------------------
(* Starting stores in scripts.                                              *)

\* Each starting store of a script follows a fence, and what comes after it
\* goes elsewhere.
Careful(s, T) == \A i \in DOMAIN s : s[i] \in T => Fenced(s, i) /\ NoneAfter(s, i)

\* Where the stores of a script go.
GoesTo(s, D) == \A i \in DOMAIN s : s[i].op = "store" => s[i].to \in D

LEMMA CarefulConcat ==
  ASSUME NEW Y, NEW s \in Seq(Y), NEW t \in Seq(Y), NEW T, Careful(s, T), Careful(t, T),
         \A x \in T : Has(s, x) => GoesTo(t, Tiles \ {x.to})
  PROVE  Careful(Cat(s, t), T)
<1> DEFINE u == Cat(s, t)
           m == Len(s)
           n == Len(t)
<1>0. u = Cat(s, t)
  OBVIOUS
<1> HIDE DEF u
<1>1. /\ m \in Nat /\ n \in Nat /\ DOMAIN s = 1 .. m /\ DOMAIN t = 1 .. n
      /\ DOMAIN u = 1 .. m + n /\ \A i \in 1 .. m : u[i] = s[i]
      /\ \A i \in m + 1 .. m + n : u[i] = t[i - m] /\ i - m \in 1 .. n
  BY <1>0 DEF Cat
<1> HIDE DEF m, n
<1>2. SUFFICES ASSUME NEW i \in DOMAIN u, u[i] \in T PROVE Fenced(u, i) /\ NoneAfter(u, i)
  BY DEF Careful, u
<1>3. CASE i \in 1 .. m
  <2>1. s[i] = u[i] /\ Fenced(s, i) /\ NoneAfter(s, i) /\ Has(s, u[i])
    BY <1>1, <1>2, <1>3 DEF Careful, Has
  <2>2. Fenced(u, i)
    BY <1>1, <1>3, <2>1 DEF Fenced
  <2>3. ASSUME NEW j \in DOMAIN u, j > i, u[j].op = "store"
        PROVE  u[j].to # Dram /\ u[j].to # u[i].to
    <3>1. CASE j \in 1 .. m
      BY <1>1, <2>1, <2>3, <3>1 DEF NoneAfter
    <3>2. CASE j \notin 1 .. m
      <4>1. j \in m + 1 .. m + n
        BY <1>1, <2>3, <3>2
      <4>2. u[j] = t[j - m] /\ j - m \in DOMAIN t
        BY <1>1, <4>1
      <4>3. GoesTo(t, Tiles \ {u[i].to})
        BY <1>2, <2>1
      <4>4. u[j].to \in Tiles \ {u[i].to}
        BY <2>3, <4>2, <4>3 DEF GoesTo
      <4>5. QED
        BY <4>4, TilesAssumption DEF Tiles, Dram
    <3>3. QED
      BY <3>1, <3>2
  <2>4. QED
    BY <2>2, <2>3 DEF NoneAfter
<1>4. CASE i \notin 1 .. m
  <2>1. i \in m + 1 .. m + n
    BY <1>1, <1>2, <1>4
  <2>2. u[i] = t[i - m] /\ i - m \in DOMAIN t
    BY <1>1, <2>1
  <2>3. Fenced(t, i - m) /\ NoneAfter(t, i - m)
    BY <1>2, <2>2 DEF Careful
  <2>4. i - m > 1 /\ t[i - m - 1] = FenceStep
    BY <2>3 DEF Fenced
  <2>5. i - 1 \in m + 1 .. m + n /\ i > 1 /\ i - m - 1 = (i - 1) - m
    BY <1>1, <2>1, <2>4
  <2>6. Fenced(u, i)
    BY <1>1, <2>4, <2>5 DEF Fenced
  <2>7. ASSUME NEW j \in DOMAIN u, j > i, u[j].op = "store"
        PROVE  u[j].to # Dram /\ u[j].to # u[i].to
    <3>1. j \in m + 1 .. m + n
      BY <1>1, <2>1, <2>7
    <3>2. u[j] = t[j - m] /\ j - m \in DOMAIN t /\ j - m > i - m
      BY <1>1, <2>1, <2>7, <3>1
    <3>3. QED
      BY <2>2, <2>3, <2>7, <3>2 DEF NoneAfter
  <2>8. QED
    BY <2>6, <2>7 DEF NoneAfter
<1>5. QED
  BY <1>3, <1>4

LEMMA CarefulNone ==
  ASSUME NEW Y, NEW s \in Seq(Y), NEW T, Y \cap T = {}
  PROVE  Careful(s, T)
  BY ElementsOf DEF Careful

\* A loop over the tiles, each round with stores to its own tile.
LEMMA CarefulChain ==
  ASSUME NEW Y, NEW xs \in [Tiles -> Scripts(Y)], NEW T,
         \A t \in Tiles : Careful(xs[t].steps, T) /\ GoesTo(xs[t].steps, {t}),
         \A x \in T : x.op = "store"
  PROVE  Careful(Chain(xs).steps, T)
<1>1. NTiles \in Nat /\ Tiles = 1 .. NTiles
  BY TilesAssumption DEF Tiles
<1>2. xs \in Seq(Scripts(Y)) /\ Len(xs) = NTiles
  BY <1>1
<1>3. PICK f \in [0 .. NTiles -> Scripts(Y)] :
        /\ f[0] = Nothing /\ f[NTiles] = Chain(xs)
        /\ \A i \in 1 .. NTiles : f[i] = f[i - 1] ++ xs[i]
  BY <1>2, ChainOf
<1> DEFINE Good(k) == Careful(f[k].steps, T) /\ GoesTo(f[k].steps, 1 .. k)
           Bad == {k \in 0 .. NTiles : ~Good(k)}
<1> HIDE DEF Good
<1>4. ASSUME Bad # {} PROVE FALSE
  <2>1. PICK k \in Bad : \A j \in Bad : k <= j
    <3>1. Bad \in SUBSET Nat
      BY <1>1
    <3> HIDE DEF Bad
    <3>2. QED
      BY <1>4, <3>1, LeastExists
  <2>2. k \in 0 .. NTiles /\ ~Good(k)
    BY <2>1
  <2>3. CASE k = 0
    <3>1. f[k].steps = <<>>
      BY <1>3, <2>3 DEF Nothing
    <3>2. DOMAIN f[k].steps = {}
      BY <3>1
    <3>3. QED
      BY <2>2, <3>2 DEF Careful, GoesTo, Good
  <2>4. CASE k # 0
    <3>1. k \in 1 .. NTiles /\ k - 1 \in 0 .. NTiles
      BY <1>1, <2>2, <2>4
    <3>2. Good(k - 1)
      BY <1>1, <2>1, <3>1
    <3> HIDE DEF Bad
    <3>3. f[k] = f[k - 1] ++ xs[k] /\ f[k - 1] \in Scripts(Y) /\ xs[k] \in Scripts(Y)
      BY <1>1, <1>3, <3>1
    <3>4. CASE ~f[k - 1].ok
      <4>1. f[k] = f[k - 1]
        BY <3>3, <3>4, JoinedAs
      <4>2. GoesTo(f[k].steps, 1 .. k)
        BY <3>1, <3>2, <4>1, <1>1 DEF GoesTo, Good
      <4>3. QED
        BY <2>2, <3>2, <4>1, <4>2 DEF Good
    <3>5. CASE f[k - 1].ok
      <4> DEFINE s == f[k - 1].steps
                 t == xs[k].steps
      <4>1. f[k].steps = Cat(s, t) /\ s \in Seq(Y) /\ t \in Seq(Y)
        BY <3>3, <3>5, JoinedAs
      <4>2. Careful(s, T) /\ GoesTo(s, 1 .. k - 1) /\ Careful(t, T) /\ GoesTo(t, {k})
        BY <1>1, <3>1, <3>2 DEF Good
      <4> HIDE DEF s, t
      <4>3. \A x \in T : Has(s, x) => GoesTo(t, Tiles \ {x.to})
        <5>1. SUFFICES ASSUME NEW x \in T, Has(s, x) PROVE GoesTo(t, Tiles \ {x.to})
          OBVIOUS
        <5>2. x.to \in 1 .. k - 1
          BY <4>2, <5>1 DEF Has, GoesTo
        <5>3. k \in Tiles \ {x.to}
          BY <1>1, <3>1, <5>2
        <5>4. QED
          BY <4>2, <5>3 DEF GoesTo
      <4>4. Careful(f[k].steps, T)
        BY <4>1, <4>2, <4>3, CarefulConcat
      <4>5. GoesTo(Cat(s, t), 1 .. k)
        <5>1. SUFFICES ASSUME NEW i \in DOMAIN Cat(s, t), Cat(s, t)[i].op = "store"
                       PROVE  Cat(s, t)[i].to \in 1 .. k
          BY DEF GoesTo
        <5>2. Has(s, Cat(s, t)[i]) \/ Has(t, Cat(s, t)[i])
          <6>1. Has(Cat(s, t), Cat(s, t)[i])
            BY <5>1 DEF Has
          <6>2. QED
            BY <4>1, <6>1, HasConcat
        <5>3. Cat(s, t)[i].to \in 1 .. k - 1 \/ Cat(s, t)[i].to = k
          BY <4>2, <5>1, <5>2 DEF Has, GoesTo
        <5>4. QED
          BY <3>1, <5>3, <1>1
      <4>6. QED
        BY <2>2, <4>1, <4>4, <4>5 DEF Good
    <3>6. QED
      BY <3>4, <3>5
  <2>5. QED
    BY <2>3, <2>4
<1>5. NTiles \in 0 .. NTiles /\ Good(NTiles)
  BY <1>1, <1>4
<1>6. QED
  BY <1>3, <1>5 DEF Good

------------------------------------------------------------------------------
(* The scripts of the library functions.                                    *)

LEMMA NumTiles ==
  NTiles \in Nat \ {0} /\ Tiles = 1 .. NTiles /\ FirstTile \in Tiles /\ FirstTile = 1 /\ Dram \notin Tiles
  BY TilesAssumption DEF Tiles, FirstTile, Dram

LEMMA WordTypes ==
  /\ Zero \in Words /\ One \in Words /\ NotLoaded \in Words /\ Zero # One /\ NotLoaded = One
  /\ \A n \in Nat : Number(n) \in Words /\ LaunchWord(n) \in Words /\ LaunchWord(n)[2] = n
                    /\ (n # 0 => LaunchWord(n) # NotLoaded /\ LaunchWord(n) # Zero)
  /\ \A p, s, k \in Nat : ProgramWord(p, s, k) \in Words
  /\ \A m, n \in Nat : LaunchWord(m) = LaunchWord(n) => m = n
  BY DEF Words, Zero, One, NotLoaded, Number, LaunchWord, ProgramWord

LEMMA CellTypes ==
  /\ Csr("freeze") \in TileCells /\ Csr("origin") \in TileCells /\ Csr("pc") \in TileCells
  /\ \A k \in 0 .. IcacheWords - 1 : Icache(k) \in TileCells
  /\ \A k \in 0 .. DmemWords - 1 : Dmem(k) \in TileCells
  /\ \A k \in 0 .. DramWords - 1 : DramAt(k) \in DramCells
  /\ \A n \in 1 .. MaxLaunches : Heap(n) \in DramCells
  /\ Tags \in DramCells
  BY DEF TileCells, DramCells

\* Registers, words of the memories, heap and tags are different cells.
LEMMA CellNames ==
  /\ \A k : Icache(k) # Csr("freeze") /\ Icache(k) # Csr("pc") /\ Icache(k) # Csr("origin")
            /\ Icache(k) # Tags
  /\ \A k : Dmem(k) # Csr("freeze") /\ Dmem(k) # Csr("pc") /\ Dmem(k) # Csr("origin")
            /\ Dmem(k) # Tags
  /\ \A k : DramAt(k) # Csr("freeze") /\ DramAt(k) # Csr("pc") /\ DramAt(k) # Csr("origin")
            /\ DramAt(k) # Tags
  /\ \A k : Heap(k) # Csr("freeze") /\ Heap(k) # Csr("pc") /\ Heap(k) # Csr("origin")
            /\ Heap(k) # Tags
  /\ Tags # Csr("freeze") /\ Tags # Csr("pc") /\ Tags # Csr("origin")
  /\ Csr("freeze") # Csr("pc") /\ Csr("freeze") # Csr("origin") /\ Csr("pc") # Csr("origin")
  /\ \A j, k : Icache(j) # Dmem(k) /\ Icache(j) # DramAt(k) /\ Icache(j) # Heap(k)
               /\ Dmem(j) # DramAt(k) /\ Dmem(j) # Heap(k) /\ DramAt(j) # Heap(k)
  /\ \A j, k : (Icache(j) = Icache(k) => j = k) /\ (Dmem(j) = Dmem(k) => j = k)
               /\ (DramAt(j) = DramAt(k) => j = k) /\ (Heap(j) = Heap(k) => j = k)
  BY DEF Csr, Icache, Dmem, DramAt, Heap, Tags

LEMMA StoreFields ==
  \A d, a, v : /\ Store(d, a, v).op = "store" /\ Store(d, a, v).to = d
               /\ Store(d, a, v).at = a /\ Store(d, a, v).val = v
               /\ Store(d, a, v) # FenceStep
               /\ \A e, b, u : Store(d, a, v) = Store(e, b, u) => d = e /\ a = b /\ v = u
               /\ \A e, b : IsStore(Store(d, a, v), e, b) <=> d = e /\ a = b
<1>1. FenceStep.op = "fence"
  BY DEF FenceStep
<1>2. \A d, a, v : /\ Store(d, a, v).op = "store" /\ Store(d, a, v).to = d
                   /\ Store(d, a, v).at = a /\ Store(d, a, v).val = v
  BY DEF Store
<1>3. QED
  BY <1>1, <1>2 DEF IsStore

LEMMA FenceFields == FenceStep.op # "store" /\ FenceStep \in Steps
  BY DEF FenceStep, Steps

LEMMA StoreTypes ==
  ASSUME NEW d \in Dests, NEW a \in Cells(d), NEW v \in Words, Allowed(a, v)
  PROVE  Store(d, a, v) \in StoreSteps /\ Store(d, a, v) \in Steps
<1>1. a \in AllCells
  BY DEF AllCells, Cells
<1>2. QED
  BY <1>1, StoreFields DEF StoreSteps, Steps, Store

LEMMA StepFields ==
  ASSUME NEW x \in Steps, x.op = "store"
  PROVE  /\ x \in StoreSteps /\ x = Store(x.to, x.at, x.val) /\ x.to \in Dests /\ x.at \in Cells(x.to)
         /\ x.val \in Words /\ Allowed(x.at, x.val) /\ x # FenceStep
  BY FenceFields DEF Steps, StoreSteps, Store

LEMMA One32 ==
  ASSUME NEW d, NEW a, NEW v, NEW Y, Store(d, a, v) \in Y
  PROVE  /\ Write32(d, a, v) \in Scripts(Y) /\ Write32(d, a, v).ok
         /\ Has(Write32(d, a, v).steps, Store(d, a, v))
         /\ Write32(d, a, v).steps = <<Store(d, a, v)>>
<1> DEFINE x == Store(d, a, v)
<1> HIDE DEF x
<1>1. <<x>> \in Seq(Y) /\ 1 \in DOMAIN <<x>> /\ <<x>>[1] = x
  BY DEF x
<1>2. QED
  BY <1>1 DEF Write32, Scripts, Has, x

\* Word after word, then a fence.
LEMMA EvaWriteOf ==
  ASSUME NEW d, NEW region, NEW from \in Nat, NEW n \in Nat, NEW W, NEW words \in [1 .. n -> W],
         NEW Y, FenceStep \in Y,
         \A i \in 1 .. n : Store(d, <<region, from + i - 1>>, words[i]) \in Y
  PROVE  /\ EvaWrite(d, region, from, words) \in Scripts(Y) /\ EvaWrite(d, region, from, words).ok
         /\ \A i \in 1 .. n : Has(EvaWrite(d, region, from, words).steps,
                                  Store(d, <<region, from + i - 1>>, words[i]))
         /\ n > 0 => Has(EvaWrite(d, region, from, words).steps, FenceStep)
<1>1. CASE n = 0
  <2>1. words = <<>>
    BY <1>1
  <2>2. EvaWrite(d, region, from, words) = Nothing
    BY <2>1 DEF EvaWrite
  <2>3. QED
    BY <1>1, <2>2, NothingIn
<1>2. CASE n # 0
  <2> DEFINE s == [i \in DOMAIN words |-> Store(d, <<region, from + i - 1>>, words[i])]
             a == [steps |-> s, ok |-> TRUE]
  <2>1. words # <<>> /\ DOMAIN words = 1 .. n
    BY <1>2
  <2>2. EvaWrite(d, region, from, words) = a ++ Fence
    BY <2>1 DEF EvaWrite
  <2>3. s \in Seq(Y) /\ DOMAIN s = 1 .. n
    BY <2>1
  <2>4. \A i \in 1 .. n : s[i] = Store(d, <<region, from + i - 1>>, words[i])
    BY <2>1
  <2>5. \A i \in 1 .. n : Has(s, Store(d, <<region, from + i - 1>>, words[i]))
    BY <2>3, <2>4 DEF Has
  <2> HIDE DEF s
  <2>6. a \in Scripts(Y) /\ a.ok /\ a.steps = s
    BY <2>3 DEF Scripts
  <2>7. Fence \in Scripts(Y) /\ Fence.ok /\ Has(Fence.steps, FenceStep)
    BY DEF Fence, Scripts, Has
  <2> HIDE DEF a
  <2>8. a ++ Fence \in Scripts(Y) /\ (a ++ Fence).ok
    BY <2>6, <2>7, Joined
  <2>9. \A y : Has((a ++ Fence).steps, y) <=> Has(a.steps, y) \/ (a.ok /\ Has(Fence.steps, y))
    BY <2>6, <2>7, Joined
  <2>10. QED
    BY <2>2, <2>5, <2>6, <2>7, <2>8, <2>9
<1>3. QED
  BY <1>1, <1>2

LEMMA PairOf ==
  ASSUME NEW x, NEW y
  PROVE  <<x>> \o <<y>> = <<x, y>>
<1> DEFINE S == {x, y}
           u == <<x>> \o <<y>>
<1>1. u \in Seq(S) /\ <<x, y>> \in Seq(S) /\ Len(u) = 2 /\ Len(<<x, y>>) = 2
  OBVIOUS
<1>2. u[1] = x /\ u[2] = y
  OBVIOUS
<1>3. \A i \in 1 .. Len(u) : u[i] = <<x, y>>[i]
  BY <1>1, <1>2
<1> HIDE DEF u, S
<1>4. u = <<x, y>>
  BY <1>1, <1>3, SeqEqual
<1>5. QED
  BY <1>4 DEF u

\* One word.
LEMMA EvaWriteOne ==
  ASSUME NEW d, NEW region, NEW from \in Nat, NEW v
  PROVE  /\ EvaWrite(d, region, from, <<v>>).ok
         /\ EvaWrite(d, region, from, <<v>>).steps = <<Store(d, <<region, from>>, v), FenceStep>>
<1> DEFINE s == [i \in DOMAIN <<v>> |-> Store(d, <<region, from + i - 1>>, <<v>>[i])]
           x == Store(d, <<region, from>>, v)
<1>1. DOMAIN <<v>> = {1} /\ <<v>>[1] = v /\ from + 1 - 1 = from
  OBVIOUS
<1>2. s = [i \in {1} |-> x]
  BY <1>1
<1>3. <<x>> = [i \in {1} |-> x]
  OBVIOUS
<1>4. EvaWrite(d, region, from, <<v>>) = [steps |-> <<x>>, ok |-> TRUE] ++ Fence
  BY <1>2, <1>3 DEF EvaWrite
<1> HIDE DEF x, s
<1>5. <<x>> \o <<FenceStep>> = <<x, FenceStep>>
  BY PairOf
<1>6. QED
  BY <1>4, <1>5 DEF ++, Fence, x

LEMMA SetSymbolOf ==
  ASSUME NEW img, NEW t, NEW name \in Symbols, NEW v, img.symbol[name] \in Nat,
         NEW Y, FenceStep \in Y, Store(t, Dmem(img.symbol[name]), v) \in Y
  PROVE  /\ SetSymbol(img, t, name, v) \in Scripts(Y)
         /\ SetSymbol(img, t, name, v).ok <=> HasSymbol(img, name)
         /\ HasSymbol(img, name) =>
              SetSymbol(img, t, name, v).steps = <<Store(t, Dmem(img.symbol[name]), v), FenceStep>>
         /\ ~HasSymbol(img, name) => \A y : ~Has(SetSymbol(img, t, name, v).steps, y)
<1> DEFINE c == HasSymbol(img, name)
           e == EvaWrite(t, "dmem", img.symbol[name], <<v>>)
           x == Store(t, Dmem(img.symbol[name]), v)
<1>1. c \in BOOLEAN
  BY DEF HasSymbol
<1>2. e.ok /\ e.steps = <<x, FenceStep>>
  BY EvaWriteOne DEF Dmem
<1>3. e = [steps |-> <<x, FenceStep>>, ok |-> TRUE]
  <2>1. e = Nothing \/ e = [steps |-> e.steps, ok |-> TRUE]
    BY <1>2 DEF EvaWrite, ++, Fence
  <2>2. QED
    BY <1>2, <2>1 DEF Nothing
<1>4. SetSymbol(img, t, name, v) = Require(c) ++ e
  BY DEF SetSymbol
<1> HIDE DEF c, e, x
<1>5. x \in Y
  BY DEF x
<1>6. <<x, FenceStep>> \in Seq(Y) /\ <<>> \o <<x, FenceStep>> = <<x, FenceStep>>
  BY <1>5
<1>7. CASE c
  <2>1. SetSymbol(img, t, name, v) = [steps |-> <<x, FenceStep>>, ok |-> TRUE]
    BY <1>3, <1>4, <1>6, <1>7 DEF Require, ++
  <2>2. QED
    BY <1>6, <1>7, <2>1 DEF Scripts, c, x
<1>8. CASE ~c
  <2>1. SetSymbol(img, t, name, v) = Require(FALSE)
    BY <1>1, <1>4, <1>8 DEF Require, ++
  <2>2. QED
    BY <1>8, <2>1, NothingIn DEF c
<1>9. QED
  BY <1>7, <1>8

------------------------------------------------------------------------------
(* The steps of loading a program.                                          *)

LEMMA Joined2 ==
  ASSUME NEW Y, NEW a \in Scripts(Y), NEW b \in Scripts(Y)
  PROVE  /\ a ++ b \in Scripts(Y)
         /\ (a ++ b).ok <=> a.ok /\ b.ok
         /\ \A y : Has((a ++ b).steps, y) <=> Has(a.steps, y) \/ (a.ok /\ Has(b.steps, y))
<1>1. a ++ b \in Scripts(Y)
  BY Joined
<1>2. a.ok => ((a ++ b).ok <=> b.ok)
  BY Joined
<1>3. ~a.ok => a ++ b = a
  BY Joined
<1>4. \A y : Has((a ++ b).steps, y) <=> Has(a.steps, y) \/ (a.ok /\ Has(b.steps, y))
  BY Joined
<1>5. QED
  BY <1>1, <1>2, <1>3, <1>4

LEMMA ScriptsGrow ==
  ASSUME NEW Y, NEW Z, Y \subseteq Z, NEW a \in Scripts(Y)
  PROVE  a \in Scripts(Z)
<1>1. a.steps \in Seq(Y) /\ a.ok \in BOOLEAN /\ a = [steps |-> a.steps, ok |-> a.ok]
  BY DEF Scripts
<1>2. a.steps \in Seq(Z)
  BY <1>1
<1>3. QED
  BY <1>1, <1>2 DEF Scripts

\* A loop over the tiles.
LEMMA TileLoop ==
  ASSUME NEW Y, NEW xs \in [Tiles -> Scripts(Y)]
  PROVE  /\ Chain(xs) \in Scripts(Y)
         /\ Chain(xs).ok <=> \A t \in Tiles : xs[t].ok
         /\ Chain(xs).ok => \A t \in Tiles : \A y : Has(xs[t].steps, y) => Has(Chain(xs).steps, y)
         /\ \A y : Has(Chain(xs).steps, y) => \E t \in Tiles : Has(xs[t].steps, y)
<1>1. xs \in Seq(Scripts(Y)) /\ DOMAIN xs = Tiles
  BY NumTiles
<1>2. QED
  BY <1>1, ChainRounds

FreezeSteps == {Mark(t) : t \in Tiles}

LEMMA FreezeOf ==
  /\ FreezeTiles \in Scripts(FreezeSteps) /\ FreezeTiles.ok
  /\ \A t \in Tiles : Has(FreezeTiles.steps, Mark(t))
<1> DEFINE xs == [t \in Tiles |-> TileFreeze(t)]
<1>1. \A t \in Tiles : /\ TileFreeze(t) \in Scripts(FreezeSteps) /\ TileFreeze(t).ok
                       /\ Has(TileFreeze(t).steps, Mark(t))
  <2>1. SUFFICES ASSUME NEW t \in Tiles
                 PROVE  /\ TileFreeze(t) \in Scripts(FreezeSteps) /\ TileFreeze(t).ok
                        /\ Has(TileFreeze(t).steps, Mark(t))
    OBVIOUS
  <2>2. Mark(t) = Store(t, Csr("freeze"), One) /\ Mark(t) \in FreezeSteps
    BY NumTiles DEF Mark, MarkCell, FreezeSteps
  <2>3. QED
    BY <2>2, One32 DEF TileFreeze
<1>2. xs \in [Tiles -> Scripts(FreezeSteps)] /\ \A t \in Tiles : xs[t] = TileFreeze(t)
  BY <1>1
<1> HIDE DEF xs
<1>3. /\ Chain(xs) \in Scripts(FreezeSteps)
      /\ Chain(xs).ok <=> \A t \in Tiles : xs[t].ok
      /\ Chain(xs).ok => \A t \in Tiles : \A y : Has(xs[t].steps, y) => Has(Chain(xs).steps, y)
  BY <1>2, TileLoop
<1>4. FreezeTiles = Chain(xs)
  BY DEF FreezeTiles, xs
<1>5. QED
  BY <1>1, <1>2, <1>3, <1>4

RegisterSteps(img) ==
  FreezeSteps \cup {Store(t, Csr("origin"), Number(FirstTile)) : t \in Tiles}
    \cup {Store(t, Csr("pc"), PcInit(img)) : t \in Tiles} \cup {Mark(Dram)}

LEMMA RegistersOf ==
  ASSUME NEW img, dramOn \in BOOLEAN
  PROVE  /\ TilesInitialize(img) \in Scripts(RegisterSteps(img)) /\ TilesInitialize(img).ok
         /\ \A t \in Tiles : Has(TilesInitialize(img).steps, Store(t, Csr("pc"), PcInit(img)))
         /\ ~dramOn => Has(TilesInitialize(img).steps, Mark(Dram))
<1> DEFINE Y == RegisterSteps(img)
           xs == [t \in Tiles |-> TileSetRegisters(img, t)]
           Pc(t) == Store(t, Csr("pc"), PcInit(img))
<1>1. ASSUME NEW t \in Tiles
      PROVE  /\ TileSetRegisters(img, t) \in Scripts(Y) /\ TileSetRegisters(img, t).ok
             /\ Has(TileSetRegisters(img, t).steps, Pc(t))
  <2> DEFINE a == TileFreeze(t)
             b == SetOrigin(t, FirstTile)
             c == SetInitialPc(t, PcInit(img))
  <2>1. Mark(t) = Store(t, Csr("freeze"), One) /\ Mark(t) \in Y
    BY NumTiles DEF Mark, MarkCell, FreezeSteps, RegisterSteps
  <2>2. Store(t, Csr("origin"), Number(FirstTile)) \in Y /\ Pc(t) \in Y
    BY DEF RegisterSteps
  <2> HIDE DEF Y
  <2>3. a \in Scripts(Y) /\ a.ok
    BY <2>1, One32 DEF TileFreeze
  <2>4. b \in Scripts(Y) /\ b.ok
    BY <2>2, One32 DEF SetOrigin
  <2>5. c \in Scripts(Y) /\ c.ok /\ Has(c.steps, Pc(t))
    BY <2>2, One32 DEF SetInitialPc
  <2>6. TileSetRegisters(img, t) = (a ++ b) ++ c
    BY DEF TileSetRegisters
  <2> HIDE DEF a, b, c, Pc
  <2>7. a ++ b \in Scripts(Y) /\ (a ++ b).ok
    BY <2>3, <2>4, Joined2
  <2>8. (a ++ b) ++ c \in Scripts(Y) /\ ((a ++ b) ++ c).ok
    BY <2>5, <2>7, Joined2
  <2>9. Has(((a ++ b) ++ c).steps, Pc(t))
    BY <2>5, <2>7, Joined2
  <2>10. QED
    BY <2>6, <2>8, <2>9
<1> HIDE DEF Pc
<1>2. xs \in [Tiles -> Scripts(Y)] /\ \A t \in Tiles : xs[t] = TileSetRegisters(img, t)
  BY <1>1
<1> HIDE DEF xs
<1>3. /\ Chain(xs) \in Scripts(Y)
      /\ Chain(xs).ok <=> \A t \in Tiles : xs[t].ok
      /\ Chain(xs).ok => \A t \in Tiles : \A y : Has(xs[t].steps, y) => Has(Chain(xs).steps, y)
  BY <1>2, TileLoop
<1>4. Chain(xs).ok /\ \A t \in Tiles : Has(Chain(xs).steps, Pc(t))
  BY <1>1, <1>2, <1>3
<1> DEFINE v == Only(~dramOn, ValidateVcache)
<1>5. v \in Scripts(Y) /\ v.ok /\ (~dramOn => Has(v.steps, Mark(Dram)))
  <2>1. Mark(Dram) = Store(Dram, Tags, One) /\ Mark(Dram) \in Y
    BY DEF Mark, MarkCell, RegisterSteps
  <2>2. ValidateVcache \in Scripts(Y) /\ ValidateVcache.ok /\ Has(ValidateVcache.steps, Mark(Dram))
    BY <2>1, One32 DEF ValidateVcache
  <2>3. CASE dramOn
    BY <2>3, NothingIn DEF Only
  <2>4. CASE ~dramOn
    BY <2>2, <2>4 DEF Only
  <2>5. QED
    BY <2>3, <2>4
<1>6. TilesInitialize(img) = Chain(xs) ++ v
  BY DEF TilesInitialize, xs
<1> HIDE DEF v, Y
<1>7. Chain(xs) ++ v \in Scripts(Y) /\ (Chain(xs) ++ v).ok
  BY <1>3, <1>4, <1>5, Joined2
<1>8. \A y : Has((Chain(xs) ++ v).steps, y) <=> Has(Chain(xs).steps, y) \/ (Chain(xs).ok /\ Has(v.steps, y))
  BY <1>3, <1>5, Joined2
<1>9. QED
  BY <1>4, <1>5, <1>6, <1>7, <1>8 DEF Y, Pc

------------------------------------------------------------------------------
(* Segments.                                                                *)

Put(w) == Store(w[1], w[2], w[3])

DataSteps(img, p, s) ==
  {FenceStep}
    \cup {Put(DataWord(img, p, s, t, k)) : t \in Tiles, k \in 1 .. img.segments[s].mem}
TextSteps(img, p) ==
  {FenceStep} \cup {Put(TextWord(img, p, t, k)) : t \in Tiles, k \in 1 .. TextSize(img)}
AllDataSteps(img, p) == UNION {DataSteps(img, p, s) : s \in Fitting(img)}
SomeTextSteps(img, p) == IF TextSegments(img) = {} THEN {} ELSE TextSteps(img, p)
SegmentSteps(img, p) == {FenceStep} \cup AllDataSteps(img, p) \cup SomeTextSteps(img, p)

LEMMA ImageTypes ==
  ASSUME NEW p \in DOMAIN Images, NEW img \in Images[p]
  PROVE  /\ img.valid \in BOOLEAN /\ img.symbol \in [Symbols -> 0 .. DmemWords - 1]
         /\ DOMAIN img.segments = 1 .. Len(img.segments) /\ Len(img.segments) \in Nat
         /\ \A s \in DOMAIN img.segments :
              /\ img.segments[s].load \in BOOLEAN /\ img.segments[s].inside \in BOOLEAN
              /\ img.segments[s].aligned \in BOOLEAN /\ img.segments[s].dram \in BOOLEAN
              /\ img.segments[s].exec \in BOOLEAN /\ img.segments[s].at \in Nat
              /\ img.segments[s].file \in Nat /\ img.segments[s].mem \in Nat
              /\ img.segments[s].file <= img.segments[s].mem
         /\ p \in Nat
         /\ \A name \in Symbols : img.symbol[name] \in 0 .. DmemWords - 1 /\ img.symbol[name] \in Nat
         /\ \A m, n \in Symbols : img.symbol[m] = img.symbol[n] => m = n
<1>1. IsImage(img) /\ IsLinked(img)
  BY ImagesAssumption
<1>2. img.segments \in Seq(Segment)
  BY <1>1 DEF IsImage
<1>3. \A s \in DOMAIN img.segments : img.segments[s] \in Segment
  BY <1>2
<1>4. \A s \in DOMAIN img.segments : img.segments[s].file <= img.segments[s].mem
  BY <1>1 DEF IsLinked
<1>5. p \in Nat
  BY ImagesAssumption
<1>6. img.symbol \in [Symbols -> 0 .. DmemWords - 1]
  BY <1>1 DEF IsImage
<1>7. \A m, n \in Symbols : img.symbol[m] = img.symbol[n] => m = n
  BY <1>1, <1>6 DEF IsLinked, IsInjective
<1>8. \A name \in Symbols : img.symbol[name] \in 0 .. DmemWords - 1 /\ img.symbol[name] \in Nat
  BY <1>6, SizesAssumption
<1>9. img.valid \in BOOLEAN
  BY <1>1 DEF IsImage
<1>10. DOMAIN img.segments = 1 .. Len(img.segments) /\ Len(img.segments) \in Nat
  BY <1>2
<1>11. QED
  BY <1>3, <1>4, <1>5, <1>6, <1>7, <1>8, <1>9, <1>10 DEF Segment

LEMMA TileSegmentOf ==
  ASSUME NEW p \in DOMAIN Images, NEW img \in Images[p], NEW s \in Loaded(img), NEW t \in Tiles
  PROVE  LET x == LoadTileSegment(img.segments[s], p, s, t)
         IN /\ x \in Scripts(IF s \in Fitting(img) THEN DataSteps(img, p, s) ELSE {})
            /\ x.ok => /\ s \in Fitting(img)
                       /\ \A k \in 1 .. img.segments[s].mem : Has(x.steps, Put(DataWord(img, p, s, t, k)))
<1> DEFINE seg == img.segments[s]
           d == SegmentDest(seg, t)
           region == IF seg.dram THEN "dram" ELSE "dmem"
           w1 == [k \in 1 .. seg.file |-> ProgramWord(p, s, k)]
           w2 == [k \in 1 .. seg.mem - seg.file |-> Zero]
           e1 == EvaWrite(d, region, seg.at, w1)
           e2 == EvaWrite(d, region, seg.at + seg.file, w2)
           r1 == Require(seg.mem <= Capacity(seg))
           r2 == Require(seg.aligned)
           x == LoadTileSegment(seg, p, s, t)
           Y == IF s \in Fitting(img) THEN DataSteps(img, p, s) ELSE {}
<1>1. /\ seg.at \in Nat /\ seg.file \in Nat /\ seg.mem \in Nat /\ seg.file <= seg.mem
      /\ seg.aligned \in BOOLEAN /\ seg.dram \in BOOLEAN /\ Capacity(seg) \in Nat
  BY ImageTypes, SizesAssumption DEF Loaded, Capacity
<1>2. x = ((r1 ++ r2) ++ e1) ++ e2
  BY DEF LoadTileSegment, SegmentDest
<1>3. r1 \in Scripts(Y) /\ r2 \in Scripts(Y) /\ (r1.ok <=> seg.mem <= Capacity(seg))
      /\ \A y : ~Has(r1.steps, y) /\ ~Has(r2.steps, y)
  <2>1. (seg.mem <= Capacity(seg)) \in BOOLEAN
    BY <1>1
  <2> HIDE DEF Y, seg
  <2>2. QED
    BY <1>1, <2>1, NothingIn
<1>4. CASE s \notin Fitting(img)
  <2>1. ~(seg.mem <= Capacity(seg))
    BY <1>4 DEF Fitting
  <2> HIDE DEF x, r1, r2, e1, e2, Y
  <2>2. ~r1.ok /\ r1 ++ r2 = r1
    BY <1>3, <2>1 DEF ++
  <2>3. (r1 ++ r2) ++ e1 = r1
    BY <2>2 DEF ++
  <2>4. x = r1
    BY <1>2, <2>2, <2>3 DEF ++
  <2>5. x \in Scripts(Y) /\ ~x.ok
    BY <1>3, <2>2, <2>4
  <2>6. QED
    BY <2>5, <1>4 DEF x, Y
<1>5. CASE s \in Fitting(img)
  <2>1. Y = DataSteps(img, p, s) /\ FenceStep \in Y
    BY <1>5 DEF DataSteps
  <2>2. \A k \in 1 .. seg.mem :
          /\ DataWord(img, p, s, t, k) = <<d, <<region, seg.at + k - 1>>, SegmentWord(seg, p, s, k)>>
          /\ Put(DataWord(img, p, s, t, k)) \in Y
    BY <2>1 DEF DataSteps, DataWord, SegmentDest, SegmentCell, DramAt, Dmem
  <2>3. \A k \in 1 .. seg.mem :
          Put(DataWord(img, p, s, t, k)) = Store(d, <<region, seg.at + k - 1>>, SegmentWord(seg, p, s, k))
    BY <2>2 DEF Put
  <2>4. \A k \in 1 .. seg.file : k \in 1 .. seg.mem /\ w1[k] = SegmentWord(seg, p, s, k)
    BY <1>1 DEF SegmentWord
  <2>5. \A k \in 1 .. seg.mem - seg.file :
          /\ seg.file + k \in 1 .. seg.mem /\ w2[k] = SegmentWord(seg, p, s, seg.file + k)
          /\ seg.at + seg.file + k - 1 = seg.at + (seg.file + k) - 1
    <3>1. SUFFICES ASSUME NEW k \in 1 .. seg.mem - seg.file
                   PROVE  /\ seg.file + k \in 1 .. seg.mem /\ w2[k] = SegmentWord(seg, p, s, seg.file + k)
                          /\ seg.at + seg.file + k - 1 = seg.at + (seg.file + k) - 1
      OBVIOUS
    <3>2. w2[k] = Zero
      BY <3>1
    <3> HIDE DEF w2, seg
    <3>3. seg.file + k \in 1 .. seg.mem /\ seg.at + seg.file + k - 1 = seg.at + (seg.file + k) - 1
      BY <1>1, <3>1
    <3>4. ~(seg.file + k <= seg.file)
      BY <1>1, <3>1
    <3>5. SegmentWord(seg, p, s, seg.file + k) = Zero
      BY <3>4 DEF SegmentWord
    <3>6. QED
      BY <3>2, <3>3, <3>5
  <2>6. seg.mem - seg.file \in Nat /\ seg.at + seg.file \in Nat
    BY <1>1
  <2>7. w1 \in [1 .. seg.file -> {w1[k] : k \in 1 .. seg.file}]
        /\ w2 \in [1 .. seg.mem - seg.file -> {Zero}]
    OBVIOUS
  <2> HIDE DEF seg, d, region, w1, w2, Y
  <2>8. \A k \in 1 .. seg.file : /\ Store(d, <<region, seg.at + k - 1>>, w1[k]) = Put(DataWord(img, p, s, t, k))
                                 /\ Store(d, <<region, seg.at + k - 1>>, w1[k]) \in Y
    BY <2>2, <2>3, <2>4
  <2>9. \A k \in 1 .. seg.mem - seg.file :
          /\ Store(d, <<region, seg.at + seg.file + k - 1>>, w2[k]) = Put(DataWord(img, p, s, t, seg.file + k))
          /\ Store(d, <<region, seg.at + seg.file + k - 1>>, w2[k]) \in Y
    BY <2>2, <2>3, <2>5
  <2>10. /\ e1 \in Scripts(Y) /\ e1.ok
         /\ \A k \in 1 .. seg.file : Has(e1.steps, Store(d, <<region, seg.at + k - 1>>, w1[k]))
    BY <1>1, <2>1, <2>7, <2>8, EvaWriteOf
  <2>11. /\ e2 \in Scripts(Y) /\ e2.ok
         /\ \A k \in 1 .. seg.mem - seg.file :
              Has(e2.steps, Store(d, <<region, seg.at + seg.file + k - 1>>, w2[k]))
    BY <1>1, <2>1, <2>6, <2>7, <2>9, EvaWriteOf
  <2> HIDE DEF e1, e2, r1, r2, x
  <2>12. r1 ++ r2 \in Scripts(Y)
    BY <1>3, Joined2
  <2>13. /\ (r1 ++ r2) ++ e1 \in Scripts(Y)
         /\ ((r1 ++ r2) ++ e1).ok <=> (r1 ++ r2).ok /\ e1.ok
         /\ \A y : Has(((r1 ++ r2) ++ e1).steps, y) <=> Has((r1 ++ r2).steps, y) \/ ((r1 ++ r2).ok /\ Has(e1.steps, y))
    BY <2>10, <2>12, Joined2
  <2>14. /\ x \in Scripts(Y)
         /\ x.ok <=> ((r1 ++ r2) ++ e1).ok /\ e2.ok
         /\ \A y : Has(x.steps, y) <=> Has(((r1 ++ r2) ++ e1).steps, y) \/ (((r1 ++ r2) ++ e1).ok /\ Has(e2.steps, y))
    BY <1>2, <2>11, <2>13, Joined2
  <2>15. ASSUME x.ok, NEW k \in 1 .. seg.mem PROVE Has(x.steps, Put(DataWord(img, p, s, t, k)))
    <3>1. CASE k <= seg.file
      <4>1. k \in 1 .. seg.file
        BY <1>1, <3>1
      <4>2. Has(e1.steps, Put(DataWord(img, p, s, t, k)))
        BY <2>8, <2>10, <4>1
      <4>3. QED
        BY <2>13, <2>14, <2>15, <4>2
    <3>2. CASE ~(k <= seg.file)
      <4>1. k - seg.file \in 1 .. seg.mem - seg.file /\ seg.file + (k - seg.file) = k
        BY <1>1, <3>2
      <4>2. Has(e2.steps, Put(DataWord(img, p, s, t, k)))
        BY <2>9, <2>11, <4>1
      <4>3. QED
        BY <2>14, <2>15, <4>2
    <3>3. QED
      BY <3>1, <3>2
  <2>16. QED
    BY <1>5, <2>14, <2>15 DEF x, seg, Y
<1>6. QED
  BY <1>4, <1>5

LEMMA TilesSegmentOf ==
  ASSUME NEW p \in DOMAIN Images, NEW img \in Images[p], NEW s \in DOMAIN img.segments
  PROVE  LET x == LoadTilesSegment(img.segments[s], p, s)
         IN /\ x \in Scripts(IF s \in Fitting(img) THEN DataSteps(img, p, s) ELSE {})
            /\ x.ok /\ s \in Loaded(img) =>
                 /\ s \in Fitting(img)
                 /\ \A t \in Tiles, k \in 1 .. img.segments[s].mem :
                      Has(x.steps, Put(DataWord(img, p, s, t, k)))
<1> DEFINE seg == img.segments[s]
           Y == IF s \in Fitting(img) THEN DataSteps(img, p, s) ELSE {}
           x == LoadTilesSegment(seg, p, s)
           W(t, k) == Put(DataWord(img, p, s, t, k))
           xs == [t \in Tiles |-> LoadTileSegment(seg, p, s, t)]
<1>1. seg.load \in BOOLEAN /\ seg.dram \in BOOLEAN /\ (s \in Loaded(img) <=> seg.load)
  BY ImageTypes DEF Loaded
<1>2. CASE ~seg.load
  <2>1. x = Nothing
    BY <1>2 DEF LoadTilesSegment
  <2> HIDE DEF x, seg, Y
  <2>2. x \in Scripts(Y) /\ s \notin Loaded(img)
    BY <1>1, <1>2, <2>1, NothingIn
  <2>3. QED
    BY <2>2 DEF x, seg, Y
<1>3. CASE seg.load
  <2>1. s \in Loaded(img)
    BY <1>1, <1>3
  <2>2. \A t \in Tiles : /\ LoadTileSegment(seg, p, s, t) \in Scripts(Y)
                         /\ LoadTileSegment(seg, p, s, t).ok =>
                              /\ s \in Fitting(img)
                              /\ \A k \in 1 .. seg.mem : Has(LoadTileSegment(seg, p, s, t).steps, W(t, k))
    BY <2>1, TileSegmentOf
  <2>3. CASE seg.dram
    <3>1. x = LoadTileSegment(seg, p, s, FirstTile)
      BY <1>3, <2>3 DEF LoadTilesSegment
    <3>2. \A t \in Tiles : \A k \in 1 .. seg.mem : W(t, k) = W(FirstTile, k)
      BY <2>3 DEF DataWord, SegmentDest
    <3> HIDE DEF x, seg, Y, W
    <3>3. x \in Scripts(Y) /\ (x.ok => s \in Fitting(img))
      BY <2>2, <3>1, NumTiles
    <3>4. x.ok => \A k \in 1 .. seg.mem : Has(x.steps, W(FirstTile, k))
      BY <2>2, <3>1, NumTiles
    <3>5. x.ok => \A t \in Tiles : \A k \in 1 .. seg.mem : Has(x.steps, W(t, k))
      BY <3>2, <3>4
    <3>6. QED
      BY <3>3, <3>5 DEF x, seg, Y, W
  <2>4. CASE ~seg.dram
    <3>1. x = Chain(xs)
      BY <1>3, <2>4 DEF LoadTilesSegment
    <3>2. xs \in [Tiles -> Scripts(Y)] /\ \A t \in Tiles : xs[t] = LoadTileSegment(seg, p, s, t)
      BY <2>2
    <3> HIDE DEF x, seg, Y, W, xs
    <3>3. /\ Chain(xs) \in Scripts(Y)
          /\ Chain(xs).ok <=> \A t \in Tiles : xs[t].ok
          /\ Chain(xs).ok => \A t \in Tiles : \A y : Has(xs[t].steps, y) => Has(Chain(xs).steps, y)
      BY <3>2, TileLoop
    <3>4. x.ok => s \in Fitting(img)
      BY <2>2, <3>1, <3>2, <3>3, NumTiles
    <3>5. x.ok => \A t \in Tiles : \A k \in 1 .. seg.mem : Has(x.steps, W(t, k))
      BY <2>2, <3>1, <3>2, <3>3
    <3>6. QED
      BY <3>1, <3>3, <3>4, <3>5 DEF x, seg, Y, W
  <2>5. QED
    BY <1>1, <2>3, <2>4
<1>4. QED
  BY <1>1, <1>2, <1>3

LEMMA TextSegmentOf ==
  ASSUME NEW p \in DOMAIN Images, NEW img \in Images[p], TextSegments(img) # {}
  PROVE  /\ TextSegment(img) \in TextSegments(img) /\ TextSegment(img) \in DOMAIN img.segments
         /\ img.segments[TextSegment(img)].file \in Nat /\ TextSize(img) \in Nat
         /\ TextSize(img) <= IcacheWords
<1>1. DOMAIN img.segments = 1 .. Len(img.segments) /\ Len(img.segments) \in Nat
  BY ImageTypes
<1>2. TextSegments(img) \in SUBSET (1 .. Len(img.segments))
  BY <1>1 DEF TextSegments
<1>3. \E i \in TextSegments(img) : \A j \in TextSegments(img) : j <= i
  BY <1>1, <1>2, LastExists
<1>4. TextSegment(img) \in TextSegments(img)
  BY <1>3 DEF TextSegment
<1>5. TextSegment(img) \in DOMAIN img.segments
  BY <1>4 DEF TextSegments
<1>6. img.segments[TextSegment(img)].file \in Nat
  BY <1>5, ImageTypes
<1>7. QED
  BY <1>4, <1>5, <1>6, SizesAssumption DEF TextSize, MinSize

LEMMA IcacheOf ==
  ASSUME NEW p \in DOMAIN Images, NEW img \in Images[p], TextSegments(img) # {}, NEW t \in Tiles
  PROVE  LET x == LoadTileIcache(img, p, t)
         IN /\ x \in Scripts(TextSteps(img, p))
            /\ x.ok => \A k \in 1 .. TextSize(img) : Has(x.steps, Put(TextWord(img, p, t, k)))
<1> DEFINE s == TextSegment(img)
           n == TextSize(img)
           words == [k \in 1 .. n |-> ProgramWord(p, s, k)]
           e == EvaWrite(t, "icache", 0, words)
           Y == TextSteps(img, p)
           x == LoadTileIcache(img, p, t)
           r == Require(n > 0)
           W(k) == Put(TextWord(img, p, t, k))
<1>1. n \in Nat
  BY TextSegmentOf
<1>2. x = r ++ e
  BY DEF LoadTileIcache, TextSize
<1>3. words \in [1 .. n -> {words[k] : k \in 1 .. n}]
  OBVIOUS
<1>4. \A k \in 1 .. n : Store(t, <<"icache", k - 1>>, words[k]) = W(k) /\ W(k) \in Y
  <2>1. \A k \in 1 .. n : W(k) \in Y
    BY DEF TextSteps
  <2>2. \A k \in 1 .. n : words[k] = ProgramWord(p, s, k)
    OBVIOUS
  <2>3. \A k \in 1 .. n : W(k) = Store(t, <<"icache", k - 1>>, ProgramWord(p, s, k))
    BY DEF Put, TextWord, Icache
  <2>4. QED
    BY <2>1, <2>2, <2>3
<1>5. FenceStep \in Y
  BY DEF TextSteps
<1>6. (n > 0) \in BOOLEAN
  BY <1>1
<1>7. r \in Scripts(Y)
  BY <1>6, NothingIn
<1> HIDE DEF s, n, words, Y, x, r, W
<1>8. \A k \in 1 .. n : 0 + k - 1 = k - 1
  BY <1>1
<1>9. \A k \in 1 .. n : Store(t, <<"icache", 0 + k - 1>>, words[k]) = W(k)
                        /\ Store(t, <<"icache", 0 + k - 1>>, words[k]) \in Y
  BY <1>4, <1>8
<1>10. e \in Scripts(Y) /\ e.ok
       /\ \A k \in 1 .. n : Has(e.steps, Store(t, <<"icache", 0 + k - 1>>, words[k]))
  BY <1>1, <1>3, <1>5, <1>9, EvaWriteOf
<1> HIDE DEF e
<1>11. x \in Scripts(Y)
  BY <1>2, <1>7, <1>10, Joined2
<1>12. x.ok => r.ok
  BY <1>2, <1>7, <1>10, Joined2
<1>13. \A y : Has(x.steps, y) <=> Has(r.steps, y) \/ (r.ok /\ Has(e.steps, y))
  BY <1>2, <1>7, <1>10, Joined2
<1>14. x.ok => \A k \in 1 .. n : Has(x.steps, W(k))
  BY <1>9, <1>10, <1>12, <1>13
<1>15. QED
  BY <1>11, <1>14 DEF x, Y, n, W

LEMMA SegmentsOf ==
  ASSUME NEW p \in DOMAIN Images, NEW img \in Images[p]
  PROVE  LET x == LoadSegments(img, p)
         IN /\ x \in Scripts(SegmentSteps(img, p))
            /\ x.ok =>
                 /\ TextSegments(img) # {} /\ Loaded(img) = Fitting(img)
                 /\ \A s \in Loaded(img) : \A t \in Tiles, k \in 1 .. img.segments[s].mem :
                      Has(x.steps, Put(DataWord(img, p, s, t, k)))
                 /\ \A t \in Tiles, k \in 1 .. TextSize(img) : Has(x.steps, Put(TextWord(img, p, t, k)))
<1> DEFINE Y == SegmentSteps(img, p)
           n == Len(img.segments)
           R(s) == Require(img.segments[s].inside)
           L(s) == LoadTilesSegment(img.segments[s], p, s)
           xs == [s \in DOMAIN img.segments |-> R(s) ++ L(s)]
           ys == [t \in Tiles |-> LoadTileIcache(img, p, t)]
           W(s, t, k) == Put(DataWord(img, p, s, t, k))
           V(t, k) == Put(TextWord(img, p, t, k))
           q == Require(TextSegments(img) # {})
           x == LoadSegments(img, p)
<1>1. DOMAIN img.segments = 1 .. n /\ n \in Nat
  BY ImageTypes
<1>2. ASSUME NEW s \in DOMAIN img.segments
      PROVE  /\ R(s) ++ L(s) \in Scripts(Y)
             /\ (R(s) ++ L(s)).ok /\ s \in Loaded(img) =>
                  /\ s \in Fitting(img)
                  /\ \A t \in Tiles, k \in 1 .. img.segments[s].mem : Has((R(s) ++ L(s)).steps, W(s, t, k))
  <2> DEFINE Z == IF s \in Fitting(img) THEN DataSteps(img, p, s) ELSE {}
             r == R(s)
             l == L(s)
  <2>1. l \in Scripts(Z) /\ (l.ok /\ s \in Loaded(img) =>
          s \in Fitting(img) /\ \A t \in Tiles, k \in 1 .. img.segments[s].mem : Has(l.steps, W(s, t, k)))
    BY TilesSegmentOf
  <2>2. Z \subseteq Y
    <3>1. Z \subseteq AllDataSteps(img, p)
      BY DEF AllDataSteps
    <3> HIDE DEF Z
    <3>2. AllDataSteps(img, p) \subseteq Y
      BY DEF SegmentSteps
    <3>3. QED
      BY <3>1, <3>2
  <2>3. r \in Scripts(Y)
    BY ImageTypes, NothingIn
  <2> HIDE DEF Y, Z, W, l, r
  <2>4. l \in Scripts(Y)
    BY <2>1, <2>2, ScriptsGrow
  <2>5. r ++ l \in Scripts(Y)
    BY <2>3, <2>4, Joined2
  <2>6. (r ++ l).ok => r.ok /\ l.ok
    BY <2>3, <2>4, Joined2
  <2>7. \A y : Has((r ++ l).steps, y) <=> Has(r.steps, y) \/ (r.ok /\ Has(l.steps, y))
    BY <2>3, <2>4, Joined2
  <2>8. (r ++ l).ok /\ s \in Loaded(img) => s \in Fitting(img)
    BY <2>1, <2>6
  <2>9. (r ++ l).ok /\ s \in Loaded(img) =>
          \A t \in Tiles, k \in 1 .. img.segments[s].mem : Has((r ++ l).steps, W(s, t, k))
    BY <2>1, <2>6, <2>7
  <2>10. QED
    BY <2>5, <2>8, <2>9 DEF r, l
<1>3. xs \in Seq(Scripts(Y)) /\ DOMAIN xs = DOMAIN img.segments
      /\ \A s \in DOMAIN img.segments : xs[s] = R(s) ++ L(s)
  BY <1>1, <1>2
<1> HIDE DEF xs, R, L
<1>4. /\ Chain(xs) \in Scripts(Y)
      /\ Chain(xs).ok <=> \A i \in DOMAIN xs : xs[i].ok
      /\ Chain(xs).ok => \A i \in DOMAIN xs : \A y : Has(xs[i].steps, y) => Has(Chain(xs).steps, y)
  BY <1>3, ChainRounds
<1>5. x = (Chain(xs) ++ q) ++ Chain(ys)
  BY DEF LoadSegments, xs, R, L
<1>6. q \in Scripts(Y) /\ (q.ok <=> TextSegments(img) # {})
  <2>1. (TextSegments(img) # {}) \in BOOLEAN
    OBVIOUS
  <2> HIDE DEF Y
  <2>2. QED
    BY <2>1, NothingIn
<1>7. ASSUME TextSegments(img) # {}
      PROVE  /\ Chain(ys) \in Scripts(Y)
             /\ Chain(ys).ok => \A t \in Tiles, k \in 1 .. TextSize(img) : Has(Chain(ys).steps, V(t, k))
  <2>1. TextSteps(img, p) \subseteq Y
    <3>1. SomeTextSteps(img, p) = TextSteps(img, p)
      BY <1>7 DEF SomeTextSteps
    <3>2. SomeTextSteps(img, p) \subseteq Y
      BY DEF SegmentSteps
    <3>3. QED
      BY <3>1, <3>2
  <2>2. ASSUME NEW t \in Tiles PROVE LoadTileIcache(img, p, t) \in Scripts(Y)
    <3> HIDE DEF Y
    <3>1. LoadTileIcache(img, p, t) \in Scripts(TextSteps(img, p))
      BY <1>7, IcacheOf
    <3>2. QED
      BY <2>1, <3>1, ScriptsGrow
  <2>3. ys \in [Tiles -> Scripts(Y)] /\ \A t \in Tiles : ys[t] = LoadTileIcache(img, p, t)
    BY <2>2
  <2>4. \A t \in Tiles : ys[t].ok => \A k \in 1 .. TextSize(img) : Has(ys[t].steps, V(t, k))
    BY <1>7, <2>3, IcacheOf
  <2> HIDE DEF ys, Y, V
  <2>5. /\ Chain(ys) \in Scripts(Y)
        /\ Chain(ys).ok <=> \A t \in Tiles : ys[t].ok
        /\ Chain(ys).ok => \A t \in Tiles : \A y : Has(ys[t].steps, y) => Has(Chain(ys).steps, y)
    BY <2>3, TileLoop
  <2>6. QED
    BY <2>4, <2>5
<1> HIDE DEF Y, W, V, ys, q, x
<1>8. Chain(xs) ++ q \in Scripts(Y)
  BY <1>4, <1>6, Joined2
<1>9. (Chain(xs) ++ q).ok <=> Chain(xs).ok /\ TextSegments(img) # {}
  BY <1>4, <1>6, Joined2
<1>10. \A y : Has((Chain(xs) ++ q).steps, y) <=> Has(Chain(xs).steps, y) \/ (Chain(xs).ok /\ Has(q.steps, y))
  BY <1>4, <1>6, Joined2
<1>11. x \in Scripts(Y)
  BY <1>5, <1>7, <1>8, <1>9, Joined
<1>12. x.ok => (Chain(xs) ++ q).ok /\ Chain(ys).ok
  BY <1>5, <1>7, <1>8, <1>9, Joined
<1>13. \A y : Has(x.steps, y) <=> Has((Chain(xs) ++ q).steps, y) \/ ((Chain(xs) ++ q).ok /\ Has(Chain(ys).steps, y))
  BY <1>5, <1>7, <1>8, <1>9, Joined
<1>14. SUFFICES ASSUME x.ok
                PROVE  /\ TextSegments(img) # {} /\ Loaded(img) = Fitting(img)
                       /\ \A s \in Loaded(img) : \A t \in Tiles, k \in 1 .. img.segments[s].mem : Has(x.steps, W(s, t, k))
                       /\ \A t \in Tiles, k \in 1 .. TextSize(img) : Has(x.steps, V(t, k))
  BY <1>11 DEF x, Y, W, V
<1>15. TextSegments(img) # {} /\ Chain(xs).ok /\ Chain(ys).ok
  BY <1>9, <1>12, <1>14
<1>16. \A t \in Tiles, k \in 1 .. TextSize(img) : Has(x.steps, V(t, k))
  BY <1>7, <1>9, <1>13, <1>15
<1>17. ASSUME NEW s \in Loaded(img)
       PROVE  s \in Fitting(img) /\ \A t \in Tiles, k \in 1 .. img.segments[s].mem : Has(x.steps, W(s, t, k))
  <2>1. s \in DOMAIN img.segments
    BY DEF Loaded
  <2>2. xs[s].ok /\ xs[s] = R(s) ++ L(s)
    BY <1>3, <1>4, <1>15, <2>1
  <2>3. s \in Fitting(img) /\ \A t \in Tiles, k \in 1 .. img.segments[s].mem : Has(xs[s].steps, W(s, t, k))
    BY <1>2, <2>1, <2>2 DEF W, R, L
  <2>4. \A y : Has(xs[s].steps, y) => Has(x.steps, y)
    BY <1>3, <1>4, <1>10, <1>13, <1>15, <2>1
  <2>5. QED
    BY <2>3, <2>4
<1>18. Loaded(img) = Fitting(img)
  BY <1>17 DEF Fitting
<1>19. QED
  BY <1>15, <1>16, <1>17, <1>18

------------------------------------------------------------------------------
(* The last store to a cell in a script.                                    *)

\* The last store to the cell gives it the value, and m comes first.
Ends(s, d, a, v, m) ==
  \E i \in DOMAIN s : LastStore(s, i, d, a, v) /\ \E q \in 1 .. i : s[q] = m

LEMMA EndsOf ==
  ASSUME NEW Y, NEW s \in Seq(Y), NEW d, NEW a, NEW v, Has(s, Store(d, a, v)),
         \A x \in Y : IsStore(x, d, a) => x = Store(d, a, v)
  PROVE  Ends(s, d, a, v, Store(d, a, v))
<1> DEFINE x == Store(d, a, v)
           I == {i \in 1 .. Len(s) : IsStore(s[i], d, a)}
<1>1. DOMAIN s = 1 .. Len(s) /\ Len(s) \in Nat /\ \A i \in DOMAIN s : s[i] \in Y
  BY ElementsOf
<1>2. PICK k \in DOMAIN s : s[k] = x
  BY DEF Has
<1>3. IsStore(x, d, a)
  BY StoreFields
<1> HIDE DEF x
<1>4. I \in SUBSET (1 .. Len(s)) /\ I # {}
  BY <1>1, <1>2, <1>3
<1>5. PICK i \in I : \A j \in I : j <= i
  <2> HIDE DEF I
  <2>1. QED
    BY <1>1, <1>4, LastExists
<1>6. i \in DOMAIN s /\ s[i] = x /\ i \in 1 .. i
  BY <1>1, <1>5 DEF x
<1>7. \A j \in DOMAIN s : j > i => ~IsStore(s[j], d, a)
  BY <1>1, <1>5
<1>8. QED
  BY <1>6, <1>7 DEF Ends, LastStore, x

LEMMA EndsFirst ==
  ASSUME NEW Y, NEW s \in Seq(Y), NEW t \in Seq(Y), NEW d, NEW a, NEW v, NEW m,
         Ends(s, d, a, v, m), ~StoredIn(t, d, a)
  PROVE  Ends(Cat(s, t), d, a, v, m)
<1> DEFINE u == Cat(s, t)
           x == Store(d, a, v)
<1>0. u = Cat(s, t)
  OBVIOUS
<1>1. PICK i \in DOMAIN s : LastStore(s, i, d, a, v) /\ \E q \in 1 .. i : s[q] = m
  BY DEF Ends
<1>2. PICK q \in 1 .. i : s[q] = m
  BY <1>1
<1>3. s[i] = x /\ \A j \in DOMAIN s : j > i => ~IsStore(s[j], d, a)
  BY <1>1 DEF LastStore
<1> HIDE DEF u, x
<1>4. /\ Len(s) \in Nat /\ Len(t) \in Nat /\ DOMAIN s = 1 .. Len(s) /\ DOMAIN t = 1 .. Len(t)
      /\ DOMAIN u = 1 .. Len(s) + Len(t) /\ \A j \in 1 .. Len(s) : u[j] = s[j]
      /\ \A j \in Len(s) + 1 .. Len(s) + Len(t) : u[j] = t[j - Len(s)] /\ j - Len(s) \in 1 .. Len(t)
  BY <1>0 DEF Cat
<1>5. i \in DOMAIN u /\ u[i] = x /\ q \in 1 .. i /\ u[q] = m
  BY <1>1, <1>2, <1>3, <1>4
<1>6. ASSUME NEW j \in DOMAIN u, j > i PROVE ~IsStore(u[j], d, a)
  <2>1. CASE j \in 1 .. Len(s)
    BY <1>3, <1>4, <1>6, <2>1
  <2>2. CASE j \notin 1 .. Len(s)
    <3>1. j \in Len(s) + 1 .. Len(s) + Len(t)
      BY <1>4, <2>2
    <3>2. u[j] = t[j - Len(s)] /\ j - Len(s) \in DOMAIN t
      BY <1>4, <3>1
    <3>3. QED
      BY <3>2 DEF StoredIn
  <2>3. QED
    BY <2>1, <2>2
<1>7. LastStore(u, i, d, a, v)
  BY <1>5, <1>6 DEF LastStore, x
<1>8. QED
  BY <1>5, <1>7 DEF Ends, u

LEMMA EndsSecond ==
  ASSUME NEW Y, NEW s \in Seq(Y), NEW t \in Seq(Y), NEW d, NEW a, NEW v, NEW m, NEW n,
         Ends(t, d, a, v, m), n = m \/ Has(s, n)
  PROVE  Ends(Cat(s, t), d, a, v, n)
<1> DEFINE u == Cat(s, t)
           x == Store(d, a, v)
<1>0. u = Cat(s, t)
  OBVIOUS
<1>1. PICK i \in DOMAIN t : LastStore(t, i, d, a, v) /\ \E q \in 1 .. i : t[q] = m
  BY DEF Ends
<1>2. PICK q \in 1 .. i : t[q] = m
  BY <1>1
<1>3. t[i] = x /\ \A j \in DOMAIN t : j > i => ~IsStore(t[j], d, a)
  BY <1>1 DEF LastStore
<1> HIDE DEF u, x
<1>4. /\ Len(s) \in Nat /\ Len(t) \in Nat /\ DOMAIN s = 1 .. Len(s) /\ DOMAIN t = 1 .. Len(t)
      /\ DOMAIN u = 1 .. Len(s) + Len(t) /\ \A j \in 1 .. Len(s) : u[j] = s[j]
      /\ \A j \in Len(s) + 1 .. Len(s) + Len(t) : u[j] = t[j - Len(s)] /\ j - Len(s) \in 1 .. Len(t)
  BY <1>0 DEF Cat
<1>5. \A j \in 1 .. Len(t) : Len(s) + j \in Len(s) + 1 .. Len(s) + Len(t) /\ (Len(s) + j) - Len(s) = j
  BY <1>4
<1>6. \A j \in 1 .. Len(t) : u[Len(s) + j] = t[j]
  BY <1>4, <1>5
<1>7. Len(s) + i \in DOMAIN u /\ u[Len(s) + i] = x
  BY <1>1, <1>3, <1>4, <1>6
<1>8. ASSUME NEW j \in DOMAIN u, j > Len(s) + i PROVE ~IsStore(u[j], d, a)
  <2>1. j \in Len(s) + 1 .. Len(s) + Len(t) /\ j - Len(s) > i
    BY <1>1, <1>4, <1>8
  <2>2. QED
    BY <1>3, <1>4, <2>1
<1>9. \E r \in 1 .. Len(s) + i : u[r] = n
  <2>1. CASE n = m
    <3>1. q \in 1 .. Len(t) /\ Len(s) + q \in 1 .. Len(s) + i
      BY <1>1, <1>2, <1>4
    <3>2. QED
      BY <1>2, <1>6, <2>1, <3>1
  <2>2. CASE Has(s, n)
    <3>1. PICK r \in DOMAIN s : s[r] = n
      BY <2>2 DEF Has
    <3>2. r \in 1 .. Len(s) + i /\ u[r] = n
      BY <1>1, <1>4, <3>1
    <3>3. QED
      BY <3>2
  <2>3. QED
    BY <2>1, <2>2
<1>10. LastStore(u, Len(s) + i, d, a, v)
  BY <1>7, <1>8 DEF LastStore, x
<1>11. QED
  BY <1>7, <1>9, <1>10 DEF Ends, u

LEMMA StoredInScript ==
  ASSUME NEW Y, NEW s \in Seq(Y), NEW d, NEW a, \A x \in Y : ~IsStore(x, d, a)
  PROVE  ~StoredIn(s, d, a)
  BY ElementsOf DEF StoredIn

------------------------------------------------------------------------------
(* Telling a tile its place and unfreezing it.                              *)

\* A word, a fence, and a script that begins with a starting store.
LEMMA CarefulPair ==
  ASSUME NEW Y, FenceStep \in Y, NEW x \in Y, NEW t \in Seq(Y), NEW T, x \notin T, FenceStep \notin T,
         \A i \in DOMAIN t : i > 1 => t[i] = FenceStep
  PROVE  Careful(Cat(<<x, FenceStep>>, t), T)
<1> DEFINE s == <<x, FenceStep>>
           u == Cat(s, t)
<1>0. u = Cat(s, t)
  OBVIOUS
<1>1. s \in Seq(Y) /\ Len(s) = 2 /\ s[1] = x /\ s[2] = FenceStep
  OBVIOUS
<1> HIDE DEF u, s
<1>4. /\ Len(s) \in Nat /\ Len(t) \in Nat /\ DOMAIN s = 1 .. Len(s) /\ DOMAIN t = 1 .. Len(t)
      /\ DOMAIN u = 1 .. Len(s) + Len(t) /\ \A j \in 1 .. Len(s) : u[j] = s[j]
      /\ \A j \in Len(s) + 1 .. Len(s) + Len(t) : u[j] = t[j - Len(s)] /\ j - Len(s) \in 1 .. Len(t)
  <2>1. s \in Seq(Y)
    BY <1>1
  <2>2. QED
    BY <1>0, <2>1 DEF Cat
<1>5. u[1] = x /\ u[2] = FenceStep
  BY <1>1, <1>4
<1>6. \A j \in DOMAIN u : j > 3 => u[j] = FenceStep
  <2>1. SUFFICES ASSUME NEW j \in DOMAIN u, j > 3 PROVE u[j] = FenceStep
    OBVIOUS
  <2>2. j \in Len(s) + 1 .. Len(s) + Len(t) /\ j - Len(s) > 1
    BY <1>1, <1>4, <2>1
  <2>3. QED
    BY <1>4, <2>2
<1>7. SUFFICES ASSUME NEW i \in DOMAIN u, u[i] \in T PROVE Fenced(u, i) /\ NoneAfter(u, i)
  BY DEF Careful, u, s
<1>8. i \in Nat /\ i = 3
  <2>1. i \in Nat /\ i > 0
    BY <1>1, <1>4
  <2>2. i # 1 /\ i # 2 /\ ~(i > 3)
    BY <1>5, <1>6, <1>7
  <2>3. QED
    BY <2>1, <2>2
<1>9. Fenced(u, i)
  <2>1. i - 1 = 2 /\ i > 1
    BY <1>8
  <2>2. QED
    BY <1>5, <2>1 DEF Fenced
<1>10. NoneAfter(u, i)
  BY <1>6, <1>8, FenceFields DEF NoneAfter
<1>11. QED
  BY <1>9, <1>10

PlaceSteps(img, t) ==
  {FenceStep, Store(t, Csr("origin"), Number(FirstTile)), Store(t, Dmem(img.symbol["config"]), Zero),
   Store(t, Dmem(img.symbol["not_loaded_val"]), NotLoaded),
   Store(t, Dmem(img.symbol["kernel_ptr"]), NotLoaded)}
ConfigSteps(img, t) == PlaceSteps(img, t) \cup {Unfreeze(t)}
HasSymbols(img) ==
  HasSymbol(img, "config") /\ HasSymbol(img, "not_loaded_val") /\ HasSymbol(img, "kernel_ptr")

LEMMA ConfigOf ==
  ASSUME NEW p \in DOMAIN Images, NEW img \in Images[p], NEW t \in Tiles
  PROVE  LET x == SetConfigSymbols(img, t, FirstTile, Zero) ++ TileUnfreeze(img, t)
         IN /\ x \in Scripts(ConfigSteps(img, t)) /\ Careful(x.steps, Unfreezes)
            /\ x.ok <=> HasSymbols(img)
            /\ x.ok => /\ Has(x.steps, Unfreeze(t))
                       /\ \A w \in Boot(img, t) : Has(x.steps, Put(w))
            /\ ~x.ok => \A u \in Tiles : ~Has(x.steps, Unfreeze(u))
<1> DEFINE Y == ConfigSteps(img, t)
           a == SetOrigin(t, FirstTile)
           b == SetSymbol(img, t, "config", Zero)
           c == SetSymbol(img, t, "not_loaded_val", NotLoaded)
           e == SetSymbol(img, t, "kernel_ptr", NotLoaded)
           f == Write32(t, Csr("freeze"), Zero)
           n == Store(t, Dmem(img.symbol["not_loaded_val"]), NotLoaded)
           k == Store(t, Dmem(img.symbol["kernel_ptr"]), NotLoaded)
           P == PlaceSteps(img, t)
           x == ((a ++ b) ++ c) ++ (e ++ f)
<1>1. P \subseteq Y /\ FenceStep \in P /\ n \in P /\ k \in P /\ Unfreeze(t) \in Y
      /\ Store(t, Csr("origin"), Number(FirstTile)) \in P /\ Store(t, Dmem(img.symbol["config"]), Zero) \in P
  BY DEF PlaceSteps, ConfigSteps
<1>2. P \cap Unfreezes = {} /\ FenceStep \notin Unfreezes /\ Unfreeze(t) \in Unfreezes
  BY StoreFields, CellNames DEF PlaceSteps, Unfreezes, Unfreeze
<1>3. /\ "config" \in Symbols /\ "not_loaded_val" \in Symbols /\ "kernel_ptr" \in Symbols
      /\ img.symbol["config"] \in Nat /\ img.symbol["not_loaded_val"] \in Nat
      /\ img.symbol["kernel_ptr"] \in Nat
  BY ImageTypes DEF Symbols
<1>4. SetConfigSymbols(img, t, FirstTile, Zero) ++ TileUnfreeze(img, t) = x
  BY DEF SetConfigSymbols, TileUnfreeze
<1>5. \A w \in Boot(img, t) : Put(w) \in {n, k}
  BY DEF Boot, Put
<1> HIDE DEF Y, P
<1>6. a \in Scripts(P) /\ a.ok
  BY <1>1, One32 DEF SetOrigin
<1>7. b \in Scripts(P) /\ (b.ok <=> HasSymbol(img, "config"))
  BY <1>1, <1>3, SetSymbolOf
<1>8. /\ c \in Scripts(P) /\ (c.ok <=> HasSymbol(img, "not_loaded_val"))
      /\ c.ok => c.steps = <<n, FenceStep>>
  BY <1>1, <1>3, SetSymbolOf
<1>9. /\ e \in Scripts(P) /\ (e.ok <=> HasSymbol(img, "kernel_ptr"))
      /\ e.ok => e.steps = <<k, FenceStep>>
  BY <1>1, <1>3, SetSymbolOf
<1>10. f \in Scripts(Y) /\ f.ok /\ f.steps = <<Unfreeze(t)>> /\ Has(f.steps, Unfreeze(t))
  BY <1>1, One32 DEF Unfreeze
<1>11. /\ c.ok => Has(c.steps, n)
       /\ e.ok => Has(e.steps, k)
  <2>1. \A z : Has(<<z, FenceStep>>, z)
    <3>1. SUFFICES ASSUME NEW z PROVE Has(<<z, FenceStep>>, z)
      OBVIOUS
    <3>2. 1 \in DOMAIN <<z, FenceStep>> /\ <<z, FenceStep>>[1] = z
      OBVIOUS
    <3>3. QED
      BY <3>2 DEF Has
  <2>2. QED
    BY <1>8, <1>9, <2>1
<1> DEFINE g == (a ++ b) ++ c
           h == e ++ f
<1> HIDE DEF a, b, c, e, f, n, k
<1>12. g \in Scripts(P) /\ (g.ok <=> b.ok /\ c.ok) /\ (g.ok => Has(g.steps, n))
  <2>1. a ++ b \in Scripts(P)
    BY <1>6, <1>7, Joined2
  <2>2. (a ++ b).ok <=> b.ok
    BY <1>6, <1>7, Joined2
  <2>3. (a ++ b) ++ c \in Scripts(P)
    BY <1>8, <2>1, Joined2
  <2>4. ((a ++ b) ++ c).ok <=> (a ++ b).ok /\ c.ok
    BY <1>8, <2>1, Joined2
  <2>5. \A y : Has(((a ++ b) ++ c).steps, y) <=> Has((a ++ b).steps, y) \/ ((a ++ b).ok /\ Has(c.steps, y))
    BY <1>8, <2>1, Joined2
  <2>6. QED
    BY <1>11, <2>2, <2>3, <2>4, <2>5
<1>13. g \in Scripts(Y) /\ e \in Scripts(Y)
  <2>1. g \in Scripts(P)
    BY <1>12
  <2> HIDE DEF g
  <2>2. g \in Scripts(Y)
    BY <1>1, <2>1, ScriptsGrow
  <2>3. e \in Scripts(Y)
    BY <1>1, <1>9, ScriptsGrow
  <2>4. QED
    BY <2>2, <2>3
<1>14. h \in Scripts(Y) /\ (h.ok <=> e.ok)
  BY <1>10, <1>13, Joined2
<1>15. \A y : Has(h.steps, y) <=> Has(e.steps, y) \/ (e.ok /\ Has(f.steps, y))
  BY <1>10, <1>13, Joined2
<1>16. e.ok => h.steps = Cat(e.steps, f.steps)
  BY <1>10, <1>13, Joined
<1>17. ~e.ok => h = e
  BY <1>10, <1>13, Joined
<1>18. Careful(h.steps, Unfreezes)
  <2>1. CASE e.ok
    <3>1. f.steps \in Seq(Y) /\ DOMAIN f.steps = {1}
      BY <1>10 DEF Scripts
    <3>2. \A i \in DOMAIN f.steps : i > 1 => f.steps[i] = FenceStep
      BY <3>1
    <3>3. k \in Y /\ k \notin Unfreezes
      BY <1>1, <1>2 DEF k
    <3>4. FenceStep \in Y
      BY <1>1
    <3>5. Careful(Cat(<<k, FenceStep>>, f.steps), Unfreezes)
      BY <1>2, <3>1, <3>2, <3>3, <3>4, CarefulPair
    <3>6. QED
      BY <1>9, <1>16, <2>1, <3>5
  <2>2. CASE ~e.ok
    <3>1. h.steps \in Seq(P)
      BY <1>9, <1>17, <2>2 DEF Scripts
    <3>2. QED
      BY <1>2, <3>1, CarefulNone
  <2>3. QED
    BY <2>1, <2>2
<1> HIDE DEF g, h
<1>19. \A u \in Tiles : ~Has(g.steps, Unfreeze(u)) /\ ~Has(e.steps, Unfreeze(u))
  <2>1. g.steps \in Seq(P) /\ e.steps \in Seq(P)
    BY <1>9, <1>12 DEF Scripts
  <2>2. \A i \in DOMAIN g.steps : g.steps[i] \in P
    BY <2>1, ElementsOf
  <2>3. \A i \in DOMAIN e.steps : e.steps[i] \in P
    BY <2>1, ElementsOf
  <2>4. QED
    BY <1>2, <2>2, <2>3 DEF Has, Unfreezes
<1>20. x = g ++ h
  BY DEF g, h
<1> HIDE DEF x
<1>21. x \in Scripts(Y)
  BY <1>13, <1>14, <1>20, Joined2
<1>22. x.ok <=> g.ok /\ h.ok
  BY <1>13, <1>14, <1>20, Joined2
<1>23. \A y : Has(x.steps, y) <=> Has(g.steps, y) \/ (g.ok /\ Has(h.steps, y))
  BY <1>13, <1>14, <1>20, Joined2
<1>24. Careful(x.steps, Unfreezes)
  <2>1. g.steps \in Seq(P) /\ g.steps \in Seq(Y) /\ h.steps \in Seq(Y)
    BY <1>12, <1>13, <1>14 DEF Scripts
  <2>2. Careful(g.steps, Unfreezes)
    BY <1>2, <2>1, CarefulNone
  <2>3. CASE g.ok
    <3>1. x.steps = Cat(g.steps, h.steps)
      BY <1>13, <1>14, <1>20, <2>3, Joined
    <3>2. \A z \in Unfreezes : Has(g.steps, z) => GoesTo(h.steps, Tiles \ {z.to})
      BY <1>19 DEF Unfreezes
    <3>3. QED
      BY <1>18, <2>1, <2>2, <3>1, <3>2, CarefulConcat
  <2>4. CASE ~g.ok
    <3>1. x = g
      BY <1>13, <1>14, <1>20, <2>4, Joined
    <3>2. QED
      BY <2>2, <3>1
  <2>5. QED
    BY <2>3, <2>4
<1>25. x.ok <=> HasSymbols(img)
  BY <1>7, <1>8, <1>9, <1>12, <1>14, <1>22 DEF HasSymbols
<1>26. x.ok => Has(x.steps, Unfreeze(t)) /\ Has(x.steps, n) /\ Has(x.steps, k)
  BY <1>10, <1>11, <1>12, <1>14, <1>15, <1>22, <1>23
<1>27. ~x.ok => \A u \in Tiles : ~Has(x.steps, Unfreeze(u))
  BY <1>14, <1>15, <1>19, <1>22, <1>23
<1>28. x.ok => \A w \in Boot(img, t) : Has(x.steps, Put(w))
  BY <1>5, <1>26
<1>29. QED
  BY <1>4, <1>21, <1>24, <1>25, <1>26, <1>27, <1>28 DEF Y

------------------------------------------------------------------------------
(* The script that loads a program.                                         *)

LoaderSteps(img, p) == RegisterSteps(img) \cup SegmentSteps(img, p)
AllConfigSteps(img) == UNION {ConfigSteps(img, t) : t \in Tiles}
LoadSteps(img, p) == LoaderSteps(img, p) \cup AllConfigSteps(img)

LEMMA LoaderKinds ==
  ASSUME NEW img, NEW p, NEW x \in LoaderSteps(img, p)
  PROVE  \/ x = FenceStep \/ x = Mark(Dram)
         \/ \E t \in Tiles : x = Mark(t) \/ x = Store(t, Csr("origin"), Number(FirstTile))
                             \/ x = Put(PcWord(img, t))
         \/ \E s \in Fitting(img) : \E t \in Tiles, k \in 1 .. img.segments[s].mem :
              x = Put(DataWord(img, p, s, t, k))
         \/ TextSegments(img) # {} /\ \E t \in Tiles, k \in 1 .. TextSize(img) :
              x = Put(TextWord(img, p, t, k))
<1>1. CASE x \in RegisterSteps(img)
  BY <1>1 DEF RegisterSteps, FreezeSteps, Put, PcWord
<1>2. CASE x \in SegmentSteps(img, p)
  <2>1. CASE x \in AllDataSteps(img, p)
    BY <2>1 DEF AllDataSteps, DataSteps
  <2>2. CASE x \in SomeTextSteps(img, p)
    BY <2>2 DEF SomeTextSteps, TextSteps
  <2>3. QED
    BY <1>2, <2>1, <2>2 DEF SegmentSteps
<1>3. QED
  BY <1>1, <1>2 DEF LoaderSteps

\* Where a word of a segment goes.
LEMMA DataWordOf ==
  ASSUME NEW p \in DOMAIN Images, NEW img \in Images[p], NEW s \in Fitting(img), NEW t \in Tiles,
         NEW k \in 1 .. img.segments[s].mem
  PROVE  LET w == DataWord(img, p, s, t, k)
         IN /\ w[1] \in Dests /\ w[2] \in Cells(w[1]) /\ w[3] \in Words
            /\ w[1] = Dram \/ w[1] = t
            /\ (w[1] = Dram <=> img.segments[s].dram)
            /\ \E j \in Nat : w[2] = DramAt(j) \/ w[2] = Dmem(j)
            /\ w = <<w[1], w[2], w[3]>>
<1> DEFINE seg == img.segments[s]
           w == DataWord(img, p, s, t, k)
           j == seg.at + k - 1
<1>1. IsLinked(img) /\ p \in Nat
  BY ImagesAssumption, ImageTypes
<1>2. s \in DOMAIN img.segments /\ s \in Nat /\ seg.mem <= Capacity(seg)
  BY ImageTypes DEF Fitting, Loaded
<1>3. seg.at \in Nat /\ seg.mem \in Nat /\ seg.file \in Nat /\ seg.dram \in BOOLEAN /\ Capacity(seg) \in Nat
  BY <1>2, ImageTypes, SizesAssumption DEF Capacity
<1>4. seg.at + seg.mem <= Capacity(seg)
  BY <1>1, <1>2 DEF IsLinked
<1>5. w = <<SegmentDest(seg, t), SegmentCell(seg, k), SegmentWord(seg, p, s, k)>>
  BY DEF DataWord
<1> HIDE DEF seg, w
<1>6. k \in Nat /\ j \in Nat /\ j \in 0 .. Capacity(seg) - 1
  BY <1>3, <1>4 DEF seg
<1>7. SegmentWord(seg, p, s, k) \in Words
  BY <1>1, <1>2, <1>6, WordTypes DEF SegmentWord
<1> HIDE DEF j
<1>8. CASE seg.dram
  <2>1. w[1] = Dram /\ w[2] = DramAt(j)
    BY <1>5, <1>8 DEF SegmentDest, SegmentCell, j
  <2>2. DramAt(j) \in DramCells
    BY <1>6, <1>8, CellTypes DEF Capacity
  <2>3. QED
    BY <1>5, <1>6, <1>7, <1>8, <2>1, <2>2 DEF Dests, Cells, w, seg
<1>9. CASE ~seg.dram
  <2>1. w[1] = t /\ w[2] = Dmem(j)
    BY <1>5, <1>9 DEF SegmentDest, SegmentCell, j
  <2>2. Dmem(j) \in TileCells
    BY <1>6, <1>9, CellTypes DEF Capacity
  <2>3. QED
    BY <1>5, <1>6, <1>7, <1>9, <2>1, <2>2, NumTiles DEF Dests, Cells, w, seg
<1>10. QED
  BY <1>3, <1>8, <1>9

\* No two words of a program's segments share a cell.
LEMMA DataApart ==
  ASSUME NEW p \in DOMAIN Images, NEW img \in Images[p], NEW r \in Loaded(img), NEW s \in Loaded(img),
         NEW j \in 1 .. img.segments[r].mem, NEW k \in 1 .. img.segments[s].mem,
         SegmentCell(img.segments[r], j) = SegmentCell(img.segments[s], k)
  PROVE  r = s /\ j = k
<1> DEFINE a == img.segments[r]
           b == img.segments[s]
<1>1. IsLinked(img) /\ r \in DOMAIN img.segments /\ s \in DOMAIN img.segments /\ a.load /\ b.load
  BY ImagesAssumption DEF Loaded
<1>2. /\ a.at \in Nat /\ b.at \in Nat /\ a.mem \in Nat /\ b.mem \in Nat
      /\ a.dram \in BOOLEAN /\ b.dram \in BOOLEAN
  BY <1>1, ImageTypes
<1>3. r # s => Apart(a, b)
  BY <1>1 DEF IsLinked
<1> HIDE DEF a, b
<1>4. (a.dram <=> b.dram) /\ a.at + j - 1 = b.at + k - 1
  BY <1>2, CellNames DEF SegmentCell, a, b
<1>5. j \in Nat /\ k \in Nat /\ 1 <= j /\ 1 <= k /\ j <= a.mem /\ k <= b.mem
  BY <1>2 DEF a, b
<1>6. a.at + j = b.at + k
  BY <1>2, <1>4, <1>5
<1>7. ASSUME r # s PROVE FALSE
  <2>1. a.at + a.mem <= b.at \/ b.at + b.mem <= a.at
    BY <1>2, <1>3, <1>4, <1>7 DEF Apart
  <2>2. QED
    BY <1>2, <1>5, <1>6, <2>1
<1>8. r = s => j = k
  BY <1>2, <1>5, <1>6 DEF a, b
<1>9. QED
  BY <1>7, <1>8

LEMMA PutFields ==
  \A w : /\ Put(w).op = "store" /\ Put(w).to = w[1] /\ Put(w).at = w[2] /\ Put(w).val = w[3]
        /\ \A e, b : IsStore(Put(w), e, b) <=> w[1] = e /\ w[2] = b
  BY StoreFields DEF Put

\* Fields of the words of a program.
LEMMA WordFields ==
  /\ \A img, t : PcWord(img, t)[1] = t /\ PcWord(img, t)[2] = Csr("pc") /\ PcWord(img, t)[3] = PcInit(img)
  /\ \A img, p, t, k : /\ TextWord(img, p, t, k)[1] = t /\ TextWord(img, p, t, k)[2] = Icache(k - 1)
                       /\ TextWord(img, p, t, k)[3] = ProgramWord(p, TextSegment(img), k)
  /\ TagsWord[1] = Dram /\ TagsWord[2] = Tags /\ TagsWord[3] = One
  /\ Put(TagsWord) = Mark(Dram)
  /\ \A img, p, s, t, k : /\ DataWord(img, p, s, t, k)[1] = SegmentDest(img.segments[s], t)
                          /\ DataWord(img, p, s, t, k)[2] = SegmentCell(img.segments[s], k)
                          /\ DataWord(img, p, s, t, k)[3] = SegmentWord(img.segments[s], p, s, k)
  BY DEF PcWord, TextWord, TagsWord, DataWord, Put, Mark, MarkCell

MarkFields == \A d : Mark(d).op = "store" /\ Mark(d).to = d /\ Mark(d).at = MarkCell(d) /\ Mark(d).val = One

LEMMA MarkFieldsHold ==
  MarkFields /\ \A t \in Tiles : MarkCell(t) = Csr("freeze") /\ MarkCell(Dram) = Tags
  BY StoreFields, NumTiles DEF MarkFields, Mark, MarkCell

LEMMA WantedKinds ==
  ASSUME NEW img, NEW p, NEW t, NEW w \in Wanted(img, p, t)
  PROVE  \/ w = PcWord(img, t)
         \/ \E k \in 1 .. TextSize(img) : w = TextWord(img, p, t, k)
         \/ \E s \in Loaded(img) : w \in DataWords(img, p, s, t)
         \/ w = TagsWord /\ ~dramOn
<1>1. \/ w = PcWord(img, t) \/ w \in TextWords(img, p, t) \/ w \in AllDataWords(img, p, t)
      \/ w \in TagsWords
  BY DEF Wanted
<1>2. w \in TextWords(img, p, t) => \E k \in 1 .. TextSize(img) : w = TextWord(img, p, t, k)
  BY DEF TextWords
<1>3. w \in AllDataWords(img, p, t) => \E s \in Loaded(img) : w \in DataWords(img, p, s, t)
  BY DEF AllDataWords
<1>4. w \in TagsWords => w = TagsWord /\ ~dramOn
  BY DEF TagsWords
<1>5. QED
  BY <1>1, <1>2, <1>3, <1>4

\* Every store of the loader to a wanted cell carries the word wanted there.
LEMMA OnlyWanted ==
  ASSUME NEW p \in DOMAIN Images, NEW img \in Images[p], NEW t \in Tiles, NEW w \in Wanted(img, p, t),
         Loaded(img) = Fitting(img), TextSegments(img) # {},
         NEW x \in LoaderSteps(img, p), IsStore(x, w[1], w[2])
  PROVE  x = Put(w)
<1>1. x.op = "store" /\ x.to = w[1] /\ x.at = w[2]
  BY DEF IsStore
<1>2. CASE w = PcWord(img, t)
  <2>1. x.to = t /\ x.at = Csr("pc")
    BY <1>1, <1>2, WordFields
  <2>2. QED
    <3>1. x # FenceStep /\ x # Mark(Dram) /\ \A u \in Tiles : x # Mark(u) /\ x # Store(u, Csr("origin"), Number(FirstTile))
      BY <1>1, <2>1, FenceFields, MarkFieldsHold, StoreFields, CellNames DEF MarkFields
    <3>2. \A s \in Fitting(img) : \A u \in Tiles, k \in 1 .. img.segments[s].mem : x # Put(DataWord(img, p, s, u, k))
      BY <2>1, PutFields, DataWordOf, CellNames
    <3>3. \A u \in Tiles, k \in 1 .. TextSize(img) : x # Put(TextWord(img, p, u, k))
      BY <2>1, PutFields, WordFields, CellNames
    <3>4. PICK u \in Tiles : x = Put(PcWord(img, u))
      BY <3>1, <3>2, <3>3, LoaderKinds
    <3>5. u = t
      BY <2>1, <3>4, PutFields, WordFields
    <3>6. QED
      BY <1>2, <3>4, <3>5
<1>3. CASE \E k \in 1 .. TextSize(img) : w = TextWord(img, p, t, k)
  <2>1. PICK k \in 1 .. TextSize(img) : w = TextWord(img, p, t, k)
    BY <1>3
  <2>2. x.to = t /\ x.at = Icache(k - 1)
    BY <1>1, <2>1, WordFields
  <2>3. x # FenceStep /\ x # Mark(Dram) /\ \A u \in Tiles : x # Mark(u) /\ x # Store(u, Csr("origin"), Number(FirstTile))
    BY <1>1, <2>2, FenceFields, MarkFieldsHold, StoreFields, CellNames DEF MarkFields
  <2>4. \A s \in Fitting(img) : \A u \in Tiles, j \in 1 .. img.segments[s].mem : x # Put(DataWord(img, p, s, u, j))
    BY <2>2, PutFields, DataWordOf, CellNames
  <2>5. \A u \in Tiles : x # Put(PcWord(img, u))
    BY <2>2, PutFields, WordFields, CellNames
  <2>6. PICK u \in Tiles, j \in 1 .. TextSize(img) : x = Put(TextWord(img, p, u, j))
    BY <2>3, <2>4, <2>5, LoaderKinds
  <2>7. u = t /\ j - 1 = k - 1
    <3>1. PICK c, e : c = k - 1 /\ e = j - 1
      OBVIOUS
    <3>2. x.to = u /\ x.at = Icache(e)
      BY <2>6, <3>1, PutFields, WordFields
    <3>3. Icache(e) = Icache(c) /\ u = t
      BY <2>2, <3>1, <3>2
    <3>4. e = c
      BY <3>3, CellNames
    <3>5. QED
      BY <3>1, <3>3, <3>4
  <2>8. j = k
    BY <2>7, TextSegmentOf
  <2>9. QED
    BY <2>1, <2>6, <2>7, <2>8
<1>4. CASE \E s \in Loaded(img) : w \in DataWords(img, p, s, t)
  <2>1. PICK s \in Loaded(img) : w \in DataWords(img, p, s, t)
    BY <1>4
  <2>2. PICK k \in 1 .. img.segments[s].mem : w = DataWord(img, p, s, t, k)
    BY <2>1 DEF DataWords
  <2>3. PICK j \in Nat : w[2] = DramAt(j) \/ w[2] = Dmem(j)
    BY <2>1, <2>2, DataWordOf
  <2>4. x # FenceStep /\ x # Mark(Dram) /\ \A u \in Tiles : x # Mark(u) /\ x # Store(u, Csr("origin"), Number(FirstTile))
    BY <1>1, <2>3, FenceFields, MarkFieldsHold, StoreFields, CellNames DEF MarkFields
  <2>5. \A u \in Tiles : x # Put(PcWord(img, u))
    BY <1>1, <2>3, PutFields, WordFields, CellNames
  <2>6. \A u \in Tiles, i \in 1 .. TextSize(img) : x # Put(TextWord(img, p, u, i))
    <3>1. SUFFICES ASSUME NEW u \in Tiles, NEW i \in 1 .. TextSize(img), x = Put(TextWord(img, p, u, i))
                   PROVE  FALSE
      OBVIOUS
    <3>2. PICK c : c = i - 1
      OBVIOUS
    <3>3. x.at = Icache(c)
      BY <3>1, <3>2, PutFields, WordFields
    <3>4. QED
      BY <1>1, <2>3, <3>3, CellNames
  <2>7. PICK r \in Fitting(img) : \E u \in Tiles, i \in 1 .. img.segments[r].mem : x = Put(DataWord(img, p, r, u, i))
    BY <2>4, <2>5, <2>6, LoaderKinds
  <2>8. PICK u \in Tiles, i \in 1 .. img.segments[r].mem : x = Put(DataWord(img, p, r, u, i))
    BY <2>7
  <2>9. SegmentCell(img.segments[r], i) = SegmentCell(img.segments[s], k)
    BY <1>1, <2>2, <2>8, PutFields, WordFields
  <2>10. r = s /\ i = k
    BY <2>7, <2>9, DataApart
  <2>11. SegmentDest(img.segments[s], u) = SegmentDest(img.segments[s], t)
    BY <1>1, <2>2, <2>8, <2>10, PutFields, WordFields
  <2>12. DataWord(img, p, r, u, i) = w
    BY <2>2, <2>10, <2>11 DEF DataWord
  <2>13. QED
    BY <2>8, <2>12
<1>5. CASE w = TagsWord
  <2>1. x.to = Dram /\ x.at = Tags
    BY <1>1, <1>5, WordFields
  <2>2. x # FenceStep /\ \A u \in Tiles : x # Mark(u) /\ x # Store(u, Csr("origin"), Number(FirstTile))
    BY <1>1, <2>1, FenceFields, MarkFieldsHold, StoreFields, CellNames DEF MarkFields
  <2>3. \A s \in Fitting(img) : \A u \in Tiles, j \in 1 .. img.segments[s].mem : x # Put(DataWord(img, p, s, u, j))
    BY <2>1, PutFields, DataWordOf, CellNames
  <2>4. \A u \in Tiles : x # Put(PcWord(img, u))
    BY <2>1, PutFields, WordFields, CellNames
  <2>5. \A u \in Tiles, i \in 1 .. TextSize(img) : x # Put(TextWord(img, p, u, i))
    BY <2>1, PutFields, WordFields, CellNames
  <2>6. x = Mark(Dram)
    BY <2>2, <2>3, <2>4, <2>5, LoaderKinds
  <2>7. QED
    BY <1>5, <2>6, WordFields
<1>6. QED
  BY <1>2, <1>3, <1>4, <1>5, WantedKinds

LEMMA WantedAt ==
  ASSUME NEW p \in DOMAIN Images, NEW img \in Images[p], NEW t \in Tiles, NEW w \in Wanted(img, p, t),
         Loaded(img) = Fitting(img), TextSegments(img) # {}
  PROVE  /\ w[1] \in Dests /\ w[2] \in Cells(w[1]) /\ w[3] \in Words /\ w = <<w[1], w[2], w[3]>>
         /\ w[1] = Dram \/ w[1] = t
         /\ w[2] # Csr("origin") /\ w[2] # Csr("freeze") /\ (\A n : w[2] # Heap(n))
         /\ w[2] \notin SymbolCells(img)
<1>1. CASE w = PcWord(img, t)
  <2>1. w[1] = t /\ w[2] = Csr("pc") /\ w[3] = PcInit(img) /\ w = <<w[1], w[2], w[3]>>
    BY <1>1, WordFields DEF PcWord
  <2>2. PcInit(img) \in Words
    BY WordTypes DEF PcInit
  <2>3. QED
    BY <2>1, <2>2, CellTypes, CellNames, NumTiles DEF Dests, Cells, SymbolCells
<1>2. CASE \E k \in 1 .. TextSize(img) : w = TextWord(img, p, t, k)
  <2>1. PICK k \in 1 .. TextSize(img) : w = TextWord(img, p, t, k)
    BY <1>2
  <2>2. PICK c : c = k - 1
    OBVIOUS
  <2>3. w[1] = t /\ w[2] = Icache(c) /\ w = <<w[1], w[2], w[3]>> /\ w[3] = ProgramWord(p, TextSegment(img), k)
    BY <2>1, <2>2, WordFields DEF TextWord
  <2>4. c \in 0 .. IcacheWords - 1 /\ k \in Nat
    BY <2>2, TextSegmentOf, SizesAssumption
  <2>5. ProgramWord(p, TextSegment(img), k) \in Words
    BY <2>4, WordTypes, TextSegmentOf, ImageTypes
  <2>6. Icache(c) \in TileCells
    BY <2>4, CellTypes
  <2>7. /\ Icache(c) # Csr("origin") /\ Icache(c) # Csr("freeze")
        /\ \A n : Icache(c) # Heap(n)
        /\ \A n : Icache(c) # Dmem(n)
    BY CellNames
  <2>8. w[1] \in Dests /\ w[2] \in Cells(w[1])
    BY <2>3, <2>6, NumTiles DEF Dests, Cells
  <2>9. w[2] \notin SymbolCells(img)
    BY <2>3, <2>7 DEF SymbolCells
  <2>10. w[2] # Csr("origin") /\ w[2] # Csr("freeze") /\ (\A n : w[2] # Heap(n))
    BY <2>3, <2>7
  <2>11. QED
    BY <2>3, <2>5, <2>8, <2>9, <2>10
<1>3. CASE \E s \in Loaded(img) : w \in DataWords(img, p, s, t)
  <2>1. PICK s \in Loaded(img) : w \in DataWords(img, p, s, t)
    BY <1>3
  <2>2. w[2] \notin SymbolCells(img)
    BY <2>1 DEF DataWords
  <2>3. PICK k \in 1 .. img.segments[s].mem : w = DataWord(img, p, s, t, k)
    BY <2>1 DEF DataWords
  <2>4. QED
    BY <2>1, <2>2, <2>3, DataWordOf, CellNames
<1>4. CASE w = TagsWord
  <2>1. w[1] = Dram /\ w[2] = Tags /\ w[3] = One /\ w = <<w[1], w[2], w[3]>>
    BY <1>4, WordFields DEF TagsWord
  <2>2. QED
    BY <2>1, CellTypes, CellNames, WordTypes DEF Dests, Cells, SymbolCells
<1>5. QED
  BY <1>1, <1>2, <1>3, <1>4, WantedKinds

LEMMA PutTypes ==
  ASSUME NEW w, w[1] \in Dests, w[2] \in Cells(w[1]), w[3] \in Words, w[2] # Csr("freeze"),
         w[2] = Tags => w[3] = One
  PROVE  Put(w) \in Steps /\ Put(w) \notin Unfreezes
<1>1. Put(w) \in Steps
  BY StoreTypes DEF Put, Allowed
<1>2. QED
  BY <1>1, StoreFields DEF Put, Unfreezes, Unfreeze

LEMMA MarkTypes ==
  ASSUME NEW d \in Dests
  PROVE  Mark(d) \in Steps /\ Mark(d) \notin Unfreezes
<1>1. MarkCell(d) \in Cells(d) /\ Allowed(MarkCell(d), One)
  BY CellTypes, CellNames, NumTiles DEF MarkCell, Cells, Allowed, Dests
<1>2. Mark(d) \in Steps
  BY <1>1, WordTypes, StoreTypes DEF Mark
<1>3. QED
  BY <1>2, StoreFields, WordTypes DEF Mark, Unfreezes, Unfreeze

LEMMA LoaderStepTypes ==
  ASSUME NEW p \in DOMAIN Images, NEW img \in Images[p], NEW x \in LoaderSteps(img, p)
  PROVE  x \in Steps /\ x \notin Unfreezes
<1>1. CASE x = FenceStep
  BY <1>1, FenceFields, StoreFields DEF Unfreezes, Unfreeze
<1>2. CASE x = Mark(Dram) \/ \E t \in Tiles : x = Mark(t)
  BY <1>2, MarkTypes DEF Dests
<1>3. ASSUME NEW t \in Tiles, x = Store(t, Csr("origin"), Number(FirstTile))
      PROVE  x \in Steps /\ x \notin Unfreezes
  <2>1. t \in Dests /\ Cells(t) = TileCells
    BY NumTiles DEF Dests, Cells
  <2>2. Number(FirstTile) \in Words
    BY WordTypes, NumTiles
  <2>3. x \in Steps
    BY <1>3, <2>1, <2>2, CellTypes, CellNames, StoreTypes DEF Allowed
  <2>4. QED
    BY <1>3, <2>3, StoreFields, CellNames DEF Unfreezes, Unfreeze
<1>4. ASSUME NEW t \in Tiles, x = Put(PcWord(img, t))
      PROVE  x \in Steps /\ x \notin Unfreezes
  <2>1. t \in Dests /\ Cells(t) = TileCells
    BY NumTiles DEF Dests, Cells
  <2>2. PcInit(img) \in Words
    BY WordTypes DEF PcInit
  <2>3. QED
    BY <1>4, <2>1, <2>2, WordFields, CellTypes, CellNames, PutTypes
<1>5. ASSUME NEW s \in Fitting(img), NEW t \in Tiles, NEW k \in 1 .. img.segments[s].mem,
             x = Put(DataWord(img, p, s, t, k))
      PROVE  x \in Steps /\ x \notin Unfreezes
  <2> DEFINE w == DataWord(img, p, s, t, k)
  <2>1. w[1] \in Dests /\ w[2] \in Cells(w[1]) /\ w[3] \in Words /\ \E j \in Nat : w[2] = DramAt(j) \/ w[2] = Dmem(j)
    BY DataWordOf
  <2> HIDE DEF w
  <2>2. w[2] # Csr("freeze") /\ w[2] # Tags
    BY <2>1, CellNames
  <2>3. Put(w) \in Steps /\ Put(w) \notin Unfreezes
    BY <2>1, <2>2, PutTypes
  <2>4. QED
    BY <1>5, <2>3 DEF w
<1>6. ASSUME TextSegments(img) # {}, NEW t \in Tiles, NEW k \in 1 .. TextSize(img),
             x = Put(TextWord(img, p, t, k))
      PROVE  x \in Steps /\ x \notin Unfreezes
  <2>1. PICK c : c = k - 1
    OBVIOUS
  <2>2. c \in 0 .. IcacheWords - 1 /\ k \in Nat
    BY <1>6, <2>1, TextSegmentOf, SizesAssumption
  <2>3. ProgramWord(p, TextSegment(img), k) \in Words
    BY <1>6, <2>2, WordTypes, TextSegmentOf, ImageTypes
  <2> DEFINE w == TextWord(img, p, t, k)
  <2>4. w[1] = t /\ w[2] = Icache(c) /\ w[3] \in Words
    BY <2>1, <2>3, WordFields
  <2> HIDE DEF w
  <2>5. w[1] \in Dests /\ w[2] \in Cells(w[1]) /\ w[2] # Csr("freeze") /\ w[2] # Tags
    BY <2>2, <2>4, CellTypes, CellNames, NumTiles DEF Dests, Cells
  <2>6. Put(w) \in Steps /\ Put(w) \notin Unfreezes
    BY <2>4, <2>5, PutTypes
  <2>7. QED
    BY <1>6, <2>6 DEF w
<1>7. QED
  BY <1>1, <1>2, <1>3, <1>4, <1>5, <1>6, LoaderKinds

LEMMA ConfigStepTypes ==
  ASSUME NEW p \in DOMAIN Images, NEW img \in Images[p], NEW t \in Tiles, NEW x \in ConfigSteps(img, t)
  PROVE  /\ x \in Steps
         /\ x # FenceStep => /\ x.to = t
                             /\ x.at \in {Csr("origin"), Csr("freeze")} \cup SymbolCells(img)
                             /\ \A w \in Boot(img, t) : x.at = w[2] => x = Put(w)
<1> DEFINE c == Dmem(img.symbol["config"])
           n == Dmem(img.symbol["not_loaded_val"])
           k == Dmem(img.symbol["kernel_ptr"])
<1>1. /\ "config" \in Symbols /\ "not_loaded_val" \in Symbols /\ "kernel_ptr" \in Symbols
      /\ \A y, z \in Symbols : img.symbol[y] = img.symbol[z] => y = z
      /\ \A y \in Symbols : img.symbol[y] \in 0 .. DmemWords - 1
  BY ImageTypes DEF Symbols
<1>2. /\ c # n /\ c # k /\ n # k /\ c \in TileCells /\ n \in TileCells /\ k \in TileCells
      /\ c \in SymbolCells(img) /\ n \in SymbolCells(img) /\ k \in SymbolCells(img)
      /\ \A z \in {c, n, k} : z # Csr("origin") /\ z # Csr("freeze") /\ z # Tags
  BY <1>1, CellNames, CellTypes DEF SymbolCells
<1>3. Boot(img, t) = {<<t, k, NotLoaded>>, <<t, n, NotLoaded>>}
  BY DEF Boot
<1>4. t \in Dests /\ Cells(t) = TileCells /\ Number(FirstTile) \in Words
  BY NumTiles, WordTypes DEF Dests, Cells
<1> HIDE DEF c, n, k
<1>5. \/ x = FenceStep \/ x = Store(t, Csr("origin"), Number(FirstTile)) \/ x = Store(t, c, Zero)
      \/ x = Store(t, n, NotLoaded) \/ x = Store(t, k, NotLoaded) \/ x = Store(t, Csr("freeze"), Zero)
  BY DEF ConfigSteps, PlaceSteps, Unfreeze, c, n, k
<1>6. x \in Steps
  BY <1>2, <1>4, <1>5, StoreTypes, FenceFields, CellTypes, CellNames, WordTypes DEF Allowed
<1>7. x # FenceStep => x.to = t
  BY <1>5, StoreFields
<1>8. x # FenceStep => x.at \in {Csr("origin"), Csr("freeze")} \cup SymbolCells(img)
  BY <1>2, <1>5, StoreFields
<1>9. ASSUME NEW w \in Boot(img, t), x # FenceStep, x.at = w[2] PROVE x = Put(w)
  <2>1. CASE w = <<t, k, NotLoaded>>
    BY <1>2, <1>5, <1>9, <2>1, StoreFields DEF Put
  <2>2. CASE w = <<t, n, NotLoaded>>
    BY <1>2, <1>5, <1>9, <2>2, StoreFields DEF Put
  <2>3. QED
    BY <1>3, <1>9, <2>1, <2>2
<1>10. QED
  BY <1>6, <1>7, <1>8, <1>9

\* A word that is the last of its cell, stored once the destination is ready.
Prepared(s, w) ==
  \E m : Ends(s, w[1], w[2], w[3], m) /\ (m = Mark(w[1]) \/ (w[1] = Dram /\ dramOn))

LEMMA LoaderLoadOf ==
  ASSUME NEW p \in DOMAIN Images, NEW img \in Images[p], dramOn \in BOOLEAN
  PROVE  LET x == FreezeTiles ++ LoaderLoad(img, p)
         IN /\ x \in Scripts(LoaderSteps(img, p))
            /\ x.ok => /\ \A t \in Tiles : Has(x.steps, Mark(t))
                       /\ TextSegments(img) # {} /\ Loaded(img) = Fitting(img)
                       /\ \A t \in Tiles : \A w \in Wanted(img, p, t) : Prepared(x.steps, w)
<1> DEFINE Y == LoaderSteps(img, p)
           F == FreezeTiles
           r == Require(img.valid)
           T == TilesInitialize(img)
           G == LoadSegments(img, p)
           Q == r ++ T
           P == Q ++ G
           x == F ++ P
<1>1. F ++ LoaderLoad(img, p) = x
  BY DEF LoaderLoad
<1>2. RegisterSteps(img) \subseteq Y /\ SegmentSteps(img, p) \subseteq Y /\ FreezeSteps \subseteq Y
  BY DEF LoaderSteps, RegisterSteps
<1>3. F \in Scripts(FreezeSteps) /\ F.ok /\ \A t \in Tiles : Has(F.steps, Mark(t))
  BY FreezeOf
<1>4. /\ T \in Scripts(RegisterSteps(img)) /\ T.ok
      /\ \A t \in Tiles : Has(T.steps, Put(PcWord(img, t)))
      /\ ~dramOn => Has(T.steps, Mark(Dram))
  BY RegistersOf DEF Put, PcWord
<1>5. /\ G \in Scripts(SegmentSteps(img, p))
      /\ G.ok =>
           /\ TextSegments(img) # {} /\ Loaded(img) = Fitting(img)
           /\ \A s \in Loaded(img) : \A t \in Tiles, k \in 1 .. img.segments[s].mem :
                Has(G.steps, Put(DataWord(img, p, s, t, k)))
           /\ \A t \in Tiles, k \in 1 .. TextSize(img) : Has(G.steps, Put(TextWord(img, p, t, k)))
  BY SegmentsOf
<1>6. r \in Scripts(Y)
  BY ImageTypes, NothingIn
<1> HIDE DEF Y, F, r, T, G
<1>7. F \in Scripts(Y)
  BY <1>2, <1>3, ScriptsGrow
<1>8. T \in Scripts(Y)
  BY <1>2, <1>4, ScriptsGrow
<1>9. G \in Scripts(Y)
  BY <1>2, <1>5, ScriptsGrow
<1>10. Q \in Scripts(Y)
  BY <1>6, <1>8, Joined2
<1>11. \A y : Has(Q.steps, y) <=> Has(r.steps, y) \/ (r.ok /\ Has(T.steps, y))
  BY <1>6, <1>8, Joined2
<1>12. Q.ok => r.ok
  BY <1>6, <1>8, Joined2
<1> HIDE DEF Q
<1>13. P \in Scripts(Y)
  BY <1>9, <1>10, Joined2
<1>14. P.ok <=> Q.ok /\ G.ok
  BY <1>9, <1>10, Joined2
<1>15. \A y : Has(P.steps, y) <=> Has(Q.steps, y) \/ (Q.ok /\ Has(G.steps, y))
  BY <1>9, <1>10, Joined2
<1>16. Q.ok => P.steps = Cat(Q.steps, G.steps)
  BY <1>9, <1>10, Joined
<1> HIDE DEF P
<1>17. x \in Scripts(Y)
  BY <1>7, <1>13, Joined2
<1>18. x.ok <=> P.ok
  BY <1>3, <1>7, <1>13, Joined2
<1>19. \A y : Has(x.steps, y) <=> Has(F.steps, y) \/ Has(P.steps, y)
  BY <1>3, <1>7, <1>13, Joined2
<1>20. x.steps = Cat(F.steps, P.steps)
  BY <1>3, <1>7, <1>13, Joined
<1>21. F.steps \in Seq(Y) /\ P.steps \in Seq(Y) /\ Q.steps \in Seq(Y) /\ G.steps \in Seq(Y)
  BY <1>7, <1>9, <1>10, <1>13 DEF Scripts
<1> HIDE DEF x
<1>22. ASSUME x.ok, NEW t \in Tiles, NEW w \in Wanted(img, p, t) PROVE Prepared(x.steps, w)
  <2>1. P.ok /\ Q.ok /\ G.ok /\ r.ok /\ TextSegments(img) # {} /\ Loaded(img) = Fitting(img)
    BY <1>5, <1>12, <1>14, <1>18, <1>22
  <2>2. \A y \in Y : IsStore(y, w[1], w[2]) => y = Put(w)
    BY <2>1, OnlyWanted DEF Y
  <2>3. (w = TagsWord /\ Has(Q.steps, Mark(Dram)) /\ ~dramOn) \/ w = PcWord(img, t) \/ Has(G.steps, Put(w))
    <3>1. CASE w = TagsWord /\ ~dramOn
      BY <1>4, <1>11, <2>1, <3>1
    <3>2. CASE \E k \in 1 .. TextSize(img) : w = TextWord(img, p, t, k)
      BY <1>5, <2>1, <3>2
    <3>3. CASE \E s \in Loaded(img) : w \in DataWords(img, p, s, t)
      <4>1. PICK s \in Loaded(img) : w \in DataWords(img, p, s, t)
        BY <3>3
      <4>2. PICK k \in 1 .. img.segments[s].mem : w = DataWord(img, p, s, t, k)
        BY <4>1 DEF DataWords
      <4>3. QED
        BY <1>5, <2>1, <4>1, <4>2
    <3>4. QED
      BY <3>1, <3>2, <3>3, WantedKinds
  <2>4. Has(P.steps, Put(w))
    <3>1. TagsWord = w => Put(w) = Mark(Dram)
      BY WordFields
    <3>2. w = PcWord(img, t) => Has(Q.steps, Put(w))
      BY <1>4, <1>11, <2>1
    <3>3. QED
      BY <1>15, <2>1, <2>3, <3>1, <3>2
  <2>5. Put(w) = Store(w[1], w[2], w[3])
    BY DEF Put
  <2> DEFINE d == w[1]
             a == w[2]
             v == w[3]
  <2>6. d \in Dests /\ (d = Dram \/ d = t)
    BY <2>1, WantedAt
  <2>7. \A y \in Y : IsStore(y, d, a) => y = Store(d, a, v)
    BY <2>2, <2>5
  <2>8. w = PcWord(img, t) => d = t
    BY WordFields
  <2>9. w = TagsWord => Store(d, a, v) = Mark(Dram)
    BY <2>5, WordFields
  <2>10. Has(P.steps, Store(d, a, v)) /\ (w = TagsWord \/ w = PcWord(img, t) \/ Has(G.steps, Store(d, a, v)))
    BY <2>3, <2>4, <2>5
  <2>11. SUFFICES \E m : Ends(x.steps, d, a, v, m) /\ (m = Mark(d) \/ (d = Dram /\ dramOn))
    BY DEF Prepared
  <2> HIDE DEF d, a, v
  <2>12. Ends(P.steps, d, a, v, Store(d, a, v))
    BY <1>21, <2>7, <2>10, EndsOf
  <2>13. CASE d # Dram
    <3>1. Has(F.steps, Mark(d))
      BY <1>3, <2>6, <2>13
    <3>2. Ends(x.steps, d, a, v, Mark(d))
      BY <1>20, <1>21, <2>12, <3>1, EndsSecond
    <3>3. QED
      BY <3>2
  <2>14. CASE d = Dram /\ dramOn
    <3>1. Ends(x.steps, d, a, v, Store(d, a, v))
      BY <1>20, <1>21, <2>12, EndsSecond
    <3>2. QED
      BY <2>14, <3>1
  <2>15. CASE d = Dram /\ ~dramOn
    <3>1. Ends(P.steps, d, a, v, Mark(Dram))
      <4>1. CASE w = TagsWord
        BY <2>9, <2>12, <4>1
      <4>2. CASE w # TagsWord
        <5>1. Has(G.steps, Store(d, a, v))
          BY <2>6, <2>8, <2>10, <2>15, <4>2, NumTiles
        <5>2. Ends(G.steps, d, a, v, Store(d, a, v))
          BY <1>21, <2>7, <5>1, EndsOf
        <5>3. Has(Q.steps, Mark(Dram))
          BY <1>4, <1>11, <2>1, <2>15
        <5>4. Ends(Cat(Q.steps, G.steps), d, a, v, Mark(Dram))
          BY <1>21, <5>2, <5>3, EndsSecond
        <5>5. QED
          BY <1>16, <2>1, <5>4
      <4>3. QED
        BY <4>1, <4>2
    <3>2. Ends(x.steps, d, a, v, Mark(Dram))
      BY <1>20, <1>21, <3>1, EndsSecond
    <3>3. QED
      BY <2>15, <3>2
  <2>16. QED
    BY <2>13, <2>14, <2>15
<1>23. x.ok => TextSegments(img) # {} /\ Loaded(img) = Fitting(img)
  BY <1>5, <1>14, <1>18
<1>24. \A t \in Tiles : Has(x.steps, Mark(t))
  BY <1>3, <1>19
<1>25. QED
  BY <1>1, <1>17, <1>22, <1>23, <1>24 DEF Y, F, x

LEMMA AllConfigOf ==
  ASSUME NEW p \in DOMAIN Images, NEW img \in Images[p]
  PROVE  LET x == Chain([t \in Tiles |->
                           SetConfigSymbols(img, t, FirstTile, Zero) ++ TileUnfreeze(img, t)])
         IN /\ x \in Scripts(AllConfigSteps(img)) /\ Careful(x.steps, Unfreezes)
            /\ x.ok => \A t \in Tiles : /\ Has(x.steps, Unfreeze(t))
                                        /\ \A w \in Boot(img, t) : Has(x.steps, Put(w))
            /\ ~x.ok => \A t \in Tiles : ~Has(x.steps, Unfreeze(t))
<1> DEFINE Y == AllConfigSteps(img)
           C(t) == SetConfigSymbols(img, t, FirstTile, Zero) ++ TileUnfreeze(img, t)
           xs == [t \in Tiles |-> C(t)]
           x == Chain(xs)
<1>1. ASSUME NEW t \in Tiles
      PROVE  /\ C(t) \in Scripts(Y) /\ Careful(C(t).steps, Unfreezes) /\ GoesTo(C(t).steps, {t})
             /\ C(t).ok <=> HasSymbols(img)
             /\ C(t).ok => Has(C(t).steps, Unfreeze(t)) /\ \A w \in Boot(img, t) : Has(C(t).steps, Put(w))
             /\ ~C(t).ok => \A u \in Tiles : ~Has(C(t).steps, Unfreeze(u))
  <2> DEFINE c == C(t)
  <2>1. /\ c \in Scripts(ConfigSteps(img, t)) /\ Careful(c.steps, Unfreezes)
        /\ c.ok <=> HasSymbols(img)
        /\ c.ok => Has(c.steps, Unfreeze(t)) /\ \A w \in Boot(img, t) : Has(c.steps, Put(w))
        /\ ~c.ok => \A u \in Tiles : ~Has(c.steps, Unfreeze(u))
    BY ConfigOf
  <2> HIDE DEF c
  <2>2. ConfigSteps(img, t) \subseteq Y
    BY DEF AllConfigSteps
  <2> HIDE DEF Y
  <2>3. c \in Scripts(Y)
    BY <2>1, <2>2, ScriptsGrow
  <2>4. c.steps \in Seq(ConfigSteps(img, t))
    BY <2>1 DEF Scripts
  <2>5. \A i \in DOMAIN c.steps : c.steps[i] \in ConfigSteps(img, t)
    BY <2>4, ElementsOf
  <2>6. GoesTo(c.steps, {t})
    BY <2>5, ConfigStepTypes, FenceFields DEF GoesTo
  <2>7. QED
    BY <2>1, <2>3, <2>6 DEF c
<1>2. xs \in [Tiles -> Scripts(Y)] /\ \A t \in Tiles : xs[t] = C(t)
  BY <1>1
<1> HIDE DEF xs, C
<1>3. /\ x \in Scripts(Y)
      /\ x.ok <=> \A t \in Tiles : xs[t].ok
      /\ x.ok => \A t \in Tiles : \A y : Has(xs[t].steps, y) => Has(x.steps, y)
      /\ \A y : Has(x.steps, y) => \E t \in Tiles : Has(xs[t].steps, y)
  BY <1>2, TileLoop
<1>4. \A z \in Unfreezes : z.op = "store"
  BY StoreFields DEF Unfreezes, Unfreeze
<1>5. \A t \in Tiles : Careful(xs[t].steps, Unfreezes) /\ GoesTo(xs[t].steps, {t})
  BY <1>1, <1>2
<1>6. Careful(x.steps, Unfreezes)
  BY <1>2, <1>4, <1>5, CarefulChain
<1>7. x.ok <=> HasSymbols(img)
  <2>1. \A t \in Tiles : C(t).ok <=> HasSymbols(img)
    BY <1>1
  <2>2. \A t \in Tiles : xs[t].ok <=> HasSymbols(img)
    BY <1>2, <2>1
  <2> HIDE DEF x
  <2>3. x.ok <=> \A t \in Tiles : xs[t].ok
    BY <1>3
  <2>4. QED
    BY <2>2, <2>3, NumTiles
<1>8. x.ok => \A t \in Tiles : Has(x.steps, Unfreeze(t)) /\ \A w \in Boot(img, t) : Has(x.steps, Put(w))
  BY <1>1, <1>2, <1>3
<1>9. ~x.ok => \A t \in Tiles : ~Has(x.steps, Unfreeze(t))
  BY <1>1, <1>2, <1>3, <1>7
<1>10. QED
  BY <1>3, <1>6, <1>8, <1>9 DEF x, xs, C

\* Loading: no tile is started unless the program is complete; everything
\* that the tile relies on has its last store after the destination is ready.
LEMMA LoadScriptOf ==
  ASSUME NEW p \in DOMAIN Images, NEW img \in Images[p], dramOn \in BOOLEAN
  PROVE  LET x == ProgramLoadScript(img, p)
         IN /\ x \in Scripts(Steps) /\ Careful(x.steps, Unfreezes)
            /\ ~x.ok => \A t \in Tiles : ~Has(x.steps, Unfreeze(t))
            /\ x.ok => Fits(img)
            /\ x.ok => \A t \in Tiles :
                 /\ Has(x.steps, Unfreeze(t))
                 /\ \A w \in Wanted(img, p, t) \cup Boot(img, t) : Prepared(x.steps, w)
<1> DEFINE Y == LoadSteps(img, p)
           A == FreezeTiles ++ LoaderLoad(img, p)
           C == Chain([t \in Tiles |->
                         SetConfigSymbols(img, t, FirstTile, Zero) ++ TileUnfreeze(img, t)])
           x == A ++ C
<1>1. ProgramLoadScript(img, p) = x
  BY DEF ProgramLoadScript
<1>2. /\ A \in Scripts(LoaderSteps(img, p))
      /\ A.ok => /\ \A t \in Tiles : Has(A.steps, Mark(t))
                 /\ TextSegments(img) # {} /\ Loaded(img) = Fitting(img)
                 /\ \A t \in Tiles : \A w \in Wanted(img, p, t) : Prepared(A.steps, w)
  BY LoaderLoadOf
<1>3. /\ C \in Scripts(AllConfigSteps(img)) /\ Careful(C.steps, Unfreezes)
      /\ C.ok => \A t \in Tiles : /\ Has(C.steps, Unfreeze(t))
                                  /\ \A w \in Boot(img, t) : Has(C.steps, Put(w))
      /\ ~C.ok => \A t \in Tiles : ~Has(C.steps, Unfreeze(t))
  BY AllConfigOf
<1> HIDE DEF A, C
<1>4. LoaderSteps(img, p) \subseteq Y /\ AllConfigSteps(img) \subseteq Y
  BY DEF LoadSteps
<1>5. ASSUME NEW z \in AllConfigSteps(img)
      PROVE  /\ z \in Steps
             /\ z # FenceStep => /\ z.to \in Tiles
                                 /\ z.at \in {Csr("origin"), Csr("freeze")} \cup SymbolCells(img)
                                 /\ \A w \in Boot(img, z.to) : z.at = w[2] => z = Put(w)
  <2>1. PICK t \in Tiles : z \in ConfigSteps(img, t)
    BY DEF AllConfigSteps
  <2>2. QED
    BY <2>1, ConfigStepTypes
<1>6. Y \subseteq Steps
  BY <1>5, LoaderStepTypes DEF LoadSteps
<1> HIDE DEF Y
<1>7. A \in Scripts(Y)
  BY <1>2, <1>4, ScriptsGrow
<1>8. C \in Scripts(Y)
  BY <1>3, <1>4, ScriptsGrow
<1>9. x \in Scripts(Y)
  BY <1>7, <1>8, Joined2
<1>10. x.ok <=> A.ok /\ C.ok
  BY <1>7, <1>8, Joined2
<1>11. \A y : Has(x.steps, y) <=> Has(A.steps, y) \/ (A.ok /\ Has(C.steps, y))
  BY <1>7, <1>8, Joined2
<1>12. A.ok => x.steps = Cat(A.steps, C.steps)
  BY <1>7, <1>8, Joined
<1>13. ~A.ok => x = A
  BY <1>7, <1>8, Joined
<1>14. A.steps \in Seq(Y) /\ C.steps \in Seq(Y) /\ A.steps \in Seq(LoaderSteps(img, p)) /\ C.steps \in Seq(AllConfigSteps(img))
  BY <1>2, <1>3, <1>7, <1>8 DEF Scripts
<1> HIDE DEF x
<1>15. \A t \in Tiles : ~Has(A.steps, Unfreeze(t))
  <2>1. \A i \in DOMAIN A.steps : A.steps[i] \in LoaderSteps(img, p)
    BY <1>14, ElementsOf
  <2>2. QED
    BY <2>1, LoaderStepTypes DEF Has, Unfreezes
<1>16. Careful(A.steps, Unfreezes)
  <2>1. LoaderSteps(img, p) \cap Unfreezes = {}
    BY LoaderStepTypes
  <2>2. QED
    BY <1>14, <2>1, CarefulNone
<1>17. Careful(x.steps, Unfreezes)
  <2>1. CASE A.ok
    <3>1. \A z \in Unfreezes : Has(A.steps, z) => GoesTo(C.steps, Tiles \ {z.to})
      BY <1>15 DEF Unfreezes
    <3>2. QED
      BY <1>3, <1>12, <1>14, <1>16, <2>1, <3>1, CarefulConcat
  <2>2. CASE ~A.ok
    BY <1>13, <1>16, <2>2
  <2>3. QED
    BY <2>1, <2>2
<1>18. x \in Scripts(Steps)
  BY <1>6, <1>9, ScriptsGrow
<1>19. ~x.ok => \A t \in Tiles : ~Has(x.steps, Unfreeze(t))
  BY <1>3, <1>10, <1>11, <1>15
<1>20. ASSUME x.ok, NEW t \in Tiles, NEW w \in Wanted(img, p, t)
       PROVE  Prepared(x.steps, w)
  <2>1. PICK m : Ends(A.steps, w[1], w[2], w[3], m) /\ (m = Mark(w[1]) \/ (w[1] = Dram /\ dramOn))
    BY <1>2, <1>10, <1>20 DEF Prepared
  <2>2. \A z \in AllConfigSteps(img) : ~IsStore(z, w[1], w[2])
    <3>1. w[2] # Csr("origin") /\ w[2] # Csr("freeze") /\ w[2] \notin SymbolCells(img)
      BY <1>2, <1>10, <1>20, WantedAt
    <3>2. QED
      BY <1>5, <3>1, FenceFields DEF IsStore
  <2>3. ~StoredIn(C.steps, w[1], w[2])
    BY <1>14, <2>2, StoredInScript
  <2>4. Ends(Cat(A.steps, C.steps), w[1], w[2], w[3], m)
    BY <1>14, <2>1, <2>3, EndsFirst
  <2>5. QED
    BY <1>10, <1>12, <1>20, <2>1, <2>4 DEF Prepared
<1>21. ASSUME x.ok, NEW t \in Tiles, NEW w \in Boot(img, t)
       PROVE  Prepared(x.steps, w)
  <2>1. w[1] = t
    BY DEF Boot
  <2>2. \A z \in AllConfigSteps(img) : IsStore(z, w[1], w[2]) => z = Store(w[1], w[2], w[3])
    BY <1>5, <2>1, FenceFields DEF IsStore, Put
  <2>3. Has(C.steps, Store(w[1], w[2], w[3]))
    BY <1>3, <1>10, <1>21 DEF Put
  <2>4. Ends(C.steps, w[1], w[2], w[3], Store(w[1], w[2], w[3]))
    BY <1>14, <2>2, <2>3, EndsOf
  <2>5. Has(A.steps, Mark(w[1]))
    BY <1>2, <1>10, <1>21, <2>1
  <2>6. Ends(Cat(A.steps, C.steps), w[1], w[2], w[3], Mark(w[1]))
    BY <1>14, <2>4, <2>5, EndsSecond
  <2>7. QED
    BY <1>10, <1>12, <1>21, <2>6 DEF Prepared
<1>22. x.ok => \A t \in Tiles : Has(x.steps, Unfreeze(t))
  BY <1>3, <1>10, <1>11
<1>23. x.ok => Fits(img)
  BY <1>2, <1>10 DEF Fits
<1>24. QED
  BY <1>1, <1>23, <1>17, <1>18, <1>19, <1>20, <1>21, <1>22

------------------------------------------------------------------------------
(* The script that launches a tile group.                                   *)

LEMMA LaunchKinds ==
  ASSUME NEW img, NEW group, NEW slot, NEW n, NEW x \in LaunchSteps(img, group, slot, n)
  PROVE  \/ x = FenceStep \/ x = Store(Dram, Heap(slot), LaunchWord(n))
         \/ \E t \in group : x \in TileStores(img, t, group, n)
<1>1. x \in GroupStores(img, group, n) => \E t \in group : x \in TileStores(img, t, group, n)
  BY DEF GroupStores
<1>2. QED
  BY <1>1 DEF LaunchSteps

LEMMA OriginOf ==
  ASSUME NEW group \in Groups
  PROVE  group \subseteq Tiles /\ GroupOrigin(group) \in group /\ GroupOrigin(group) \in Nat
<1>1. group \subseteq Tiles /\ group # {} /\ group \in SUBSET Nat
  BY GroupsAssumption, NumTiles
<1>2. \E i \in group : \A j \in group : i <= j
  BY <1>1, LeastExists
<1>3. QED
  BY <1>1, <1>2 DEF GroupOrigin, Least

LEMMA SymbolsApart ==
  ASSUME NEW p \in DOMAIN Images, NEW img \in Images[p]
  PROVE  /\ \A y \in Symbols : /\ Dmem(img.symbol[y]) \in TileCells /\ Dmem(img.symbol[y]) # Csr("origin")
                               /\ Dmem(img.symbol[y]) # Csr("freeze") /\ Dmem(img.symbol[y]) # Tags
                               /\ \A k : Dmem(img.symbol[y]) # Heap(k)
         /\ \A y, z \in Symbols : Dmem(img.symbol[y]) = Dmem(img.symbol[z]) => y = z
         /\ "config" \in Symbols /\ "not_loaded_val" \in Symbols /\ "args" \in Symbols
         /\ "kernel_ptr" \in Symbols
<1>1. /\ \A y \in Symbols : img.symbol[y] \in 0 .. DmemWords - 1
      /\ \A y, z \in Symbols : img.symbol[y] = img.symbol[z] => y = z
  BY ImageTypes
<1>2. \A k \in 0 .. DmemWords - 1 :
        /\ Dmem(k) \in TileCells /\ Dmem(k) # Csr("origin") /\ Dmem(k) # Csr("freeze")
        /\ Dmem(k) # Tags /\ \A j : Dmem(k) # Heap(j)
  BY CellTypes, CellNames
<1>3. \A j, k : Dmem(j) = Dmem(k) => j = k
  BY CellNames
<1>4. "config" \in Symbols /\ "not_loaded_val" \in Symbols /\ "args" \in Symbols /\ "kernel_ptr" \in Symbols
  BY DEF Symbols
<1>5. \A y \in Symbols : /\ Dmem(img.symbol[y]) \in TileCells /\ Dmem(img.symbol[y]) # Csr("origin")
                         /\ Dmem(img.symbol[y]) # Csr("freeze") /\ Dmem(img.symbol[y]) # Tags
                         /\ \A k : Dmem(img.symbol[y]) # Heap(k)
  BY <1>1, <1>2
<1>6. \A y, z \in Symbols : Dmem(img.symbol[y]) = Dmem(img.symbol[z]) => y = z
  BY <1>1, <1>3
<1>7. QED
  BY <1>4, <1>5, <1>6

LEMMA TileStoreOf ==
  ASSUME NEW p \in DOMAIN Images, NEW img \in Images[p], NEW group \in Groups, NEW n \in Nat,
         NEW t \in Tiles, NEW x \in TileStores(img, t, group, n)
  PROVE  /\ x \in Steps /\ x # FenceStep /\ x.op = "store" /\ x.to = t /\ x \notin Unfreezes
         /\ x.at # Csr("freeze") /\ x.at # Tags /\ x.at \in TileCells
         /\ x.at = Csr("origin") \/ x.at \in SymbolCells(img)
         /\ x.at = Dmem(img.symbol["args"]) => x.val = LaunchWord(n)
         /\ x.at = Dmem(img.symbol["config"]) => x.val = LaunchWord(n)
         /\ x.at = Csr("origin") => x.val = Number(GroupOrigin(group))
         /\ x.at = Dmem(img.symbol["not_loaded_val"]) => x.val = NotLoaded
         /\ x.at = Dmem(img.symbol["kernel_ptr"]) => x = Pointer(img, t, n)
<1> DEFINE a == Dmem(img.symbol["args"])
           c == Dmem(img.symbol["config"])
           v == Dmem(img.symbol["not_loaded_val"])
           k == Dmem(img.symbol["kernel_ptr"])
<1>1. /\ \A y \in {a, c, v, k} : y \in TileCells /\ y # Csr("origin") /\ y # Csr("freeze") /\ y # Tags
                                 /\ y \in SymbolCells(img)
      /\ a # c /\ a # v /\ a # k /\ c # v /\ c # k /\ v # k
  BY SymbolsApart DEF SymbolCells
<1>2. t \in Dests /\ Cells(t) = TileCells
  BY NumTiles DEF Dests, Cells
<1>3. Number(GroupOrigin(group)) \in Words /\ LaunchWord(n) \in Words /\ NotLoaded \in Words
  BY OriginOf, WordTypes
<1>4. Csr("origin") \in TileCells /\ Csr("origin") # Csr("freeze") /\ Csr("origin") # Tags
  BY CellTypes, CellNames
<1> HIDE DEF a, c, v, k
<1>5. \/ x = Store(t, a, LaunchWord(n)) \/ x = Store(t, c, LaunchWord(n))
      \/ x = Store(t, Csr("origin"), Number(GroupOrigin(group))) \/ x = Store(t, v, NotLoaded)
      \/ x = Store(t, k, LaunchWord(n))
  BY DEF TileStores, Pointer, a, c, v, k
<1>6. /\ x # FenceStep /\ x.op = "store" /\ x.to = t /\ x.at \in {a, c, v, k, Csr("origin")}
      /\ x = Store(t, x.at, x.val) /\ x.val \in Words
  BY <1>3, <1>5, StoreFields
<1>7. x.at \in TileCells /\ x.at # Csr("freeze") /\ x.at # Tags /\ (x.at = Csr("origin") \/ x.at \in SymbolCells(img))
  BY <1>1, <1>4, <1>6
<1>8. x \in Steps
  BY <1>2, <1>6, <1>7, StoreTypes DEF Allowed
<1>9. x \notin Unfreezes
  BY <1>7, StoreFields DEF Unfreezes, Unfreeze
<1>10. /\ x.at = a => x.val = LaunchWord(n)
       /\ x.at = c => x.val = LaunchWord(n)
  BY <1>1, <1>5, StoreFields
<1>11. /\ x.at = Csr("origin") => x.val = Number(GroupOrigin(group))
       /\ x.at = v => x.val = NotLoaded
  BY <1>1, <1>5, StoreFields
<1>12. x.at = k => x = Store(t, k, LaunchWord(n))
  BY <1>1, <1>5, StoreFields
<1>13. QED
  BY <1>6, <1>7, <1>8, <1>9, <1>10, <1>11, <1>12 DEF Pointer, a, c, v, k

LEMMA LaunchStepOf ==
  ASSUME NEW p \in DOMAIN Images, NEW img \in Images[p], NEW group \in Groups,
         NEW slot \in 1 .. MaxLaunches, NEW n \in Nat, NEW x \in LaunchSteps(img, group, slot, n)
  PROVE  /\ x \in Steps /\ x \notin Unfreezes
         /\ x # FenceStep => x.op = "store" /\ x.at # Csr("freeze") /\ x.at # Tags
         /\ \A t \in Tiles : \A f \in FactsOf(img, t, group, slot, n) :
              IsStore(x, f[1], f[2]) => x = Put(f)
         /\ x # FenceStep /\ x.to = Dram => x = Store(Dram, Heap(slot), LaunchWord(n))
         /\ x # FenceStep /\ x.to # Dram => x.to \in group /\ x \in TileStores(img, x.to, group, n)
<1> DEFINE h == Store(Dram, Heap(slot), LaunchWord(n))
<1>1. h \in Steps
  BY WordTypes, CellTypes, CellNames, StoreTypes DEF Dests, Cells, Allowed
<1>2. /\ h.op = "store" /\ h.at = Heap(slot) /\ h.to = Dram /\ h # FenceStep /\ h.val = LaunchWord(n)
      /\ h.at # Csr("freeze") /\ h.at # Tags /\ h \notin Unfreezes
  BY StoreFields, CellNames DEF Unfreezes, Unfreeze
<1>3. CASE x = FenceStep
  BY <1>3, FenceFields, StoreFields DEF Unfreezes, Unfreeze, IsStore
<1>4. CASE x = h
  <2>1. ASSUME NEW t \in Tiles, NEW f \in FactsOf(img, t, group, slot, n), IsStore(x, f[1], f[2])
        PROVE  x = Put(f)
    <3>1. f[1] = Dram /\ f[2] = Heap(slot)
      BY <1>2, <1>4, <2>1 DEF IsStore
    <3>2. t # Dram
      BY NumTiles
    <3>3. f = <<Dram, Heap(slot), LaunchWord(n)>>
      BY <2>1, <3>1, <3>2 DEF FactsOf
    <3>4. QED
      BY <1>4, <3>3 DEF Put
  <2> HIDE DEF h
  <2>2. QED
    BY <1>1, <1>2, <1>4, <2>1 DEF h
<1>5. ASSUME NEW t \in group, x \in TileStores(img, t, group, n)
      PROVE  /\ x \in Steps /\ x \notin Unfreezes
             /\ x # FenceStep => x.op = "store" /\ x.at # Csr("freeze") /\ x.at # Tags
             /\ \A u \in Tiles : \A f \in FactsOf(img, u, group, slot, n) :
                  IsStore(x, f[1], f[2]) => x = Put(f)
             /\ x # FenceStep /\ x.to = Dram => x = h
             /\ x # FenceStep /\ x.to # Dram => x.to \in group /\ x \in TileStores(img, x.to, group, n)
  <2>1. t \in Tiles
    BY OriginOf
  <2>2. /\ x \in Steps /\ x # FenceStep /\ x.op = "store" /\ x.to = t /\ x \notin Unfreezes
        /\ x.at # Csr("freeze") /\ x.at # Tags /\ x.at \in TileCells
        /\ x.at = Dmem(img.symbol["args"]) => x.val = LaunchWord(n)
        /\ x.at = Dmem(img.symbol["config"]) => x.val = LaunchWord(n)
        /\ x.at = Csr("origin") => x.val = Number(GroupOrigin(group))
    BY <1>5, <2>1, TileStoreOf
  <2>3. x = Store(x.to, x.at, x.val)
    BY <2>2, StepFields
  <2>4. ASSUME NEW u \in Tiles, NEW f \in FactsOf(img, u, group, slot, n), IsStore(x, f[1], f[2])
        PROVE  x = Put(f)
    <3>1. f[1] = t /\ f[2] = x.at /\ t # Dram
      BY <2>1, <2>2, <2>4, NumTiles DEF IsStore
    <3>2. f # <<Dram, Heap(slot), LaunchWord(n)>>
      BY <3>1
    <3>3. f[3] = x.val
      BY <2>2, <2>4, <3>1, <3>2 DEF FactsOf
    <3>4. QED
      BY <2>2, <2>3, <3>1, <3>3 DEF Put
  <2>5. x.to # Dram
    BY <2>1, <2>2, NumTiles
  <2>6. QED
    BY <1>5, <2>2, <2>4, <2>5
<1>6. QED
  BY <1>3, <1>4, <1>5, LaunchKinds

LEMMA OnlyOf ==
  ASSUME NEW Y, NEW c \in BOOLEAN, NEW a, c => a \in Scripts(Y)
  PROVE  /\ Only(c, a) \in Scripts(Y)
         /\ c => Only(c, a) = a
         /\ ~c => Only(c, a).ok /\ \A y : ~Has(Only(c, a).steps, y)
  BY NothingIn DEF Only

LEMMA OneHas ==
  \A x, y : Has(<<x, y>>, x)
<1>1. SUFFICES ASSUME NEW x, NEW y PROVE Has(<<x, y>>, x)
  OBVIOUS
<1>2. 1 \in DOMAIN <<x, y>> /\ <<x, y>>[1] = x
  OBVIOUS
<1>3. QED
  BY <1>2 DEF Has

\* The place of a tile in its tile group.
LEMMA PlaceOf ==
  ASSUME NEW p \in DOMAIN Images, NEW img \in Images[p], NEW group \in Groups, NEW n \in Nat,
         NEW t \in group
  PROVE  LET x == SetConfigSymbols(img, t, GroupOrigin(group), LaunchWord(n))
             Y == TileStores(img, t, group, n) \cup {FenceStep}
         IN /\ x \in Scripts(Y)
            /\ x.ok => /\ Has(x.steps, Store(t, Csr("origin"), Number(GroupOrigin(group))))
                       /\ Has(x.steps, Store(t, Dmem(img.symbol["config"]), LaunchWord(n)))
            /\ \A u \in Tiles : ~Has(x.steps, Pointer(img, u, n))
<1> DEFINE O == Store(t, Csr("origin"), Number(GroupOrigin(group)))
           C == Store(t, Dmem(img.symbol["config"]), LaunchWord(n))
           V == Store(t, Dmem(img.symbol["not_loaded_val"]), NotLoaded)
           Z == {O, C, V, FenceStep}
           Y == TileStores(img, t, group, n) \cup {FenceStep}
           a == SetOrigin(t, GroupOrigin(group))
           b == SetSymbol(img, t, "config", LaunchWord(n))
           c == SetSymbol(img, t, "not_loaded_val", NotLoaded)
           x == (a ++ b) ++ c
<1>1. Z \subseteq Y
  BY DEF TileStores
<1>2. /\ "config" \in Symbols /\ "not_loaded_val" \in Symbols /\ "kernel_ptr" \in Symbols
      /\ img.symbol["config"] \in Nat /\ img.symbol["not_loaded_val"] \in Nat
  BY ImageTypes DEF Symbols
<1>3. \A u \in Tiles : Pointer(img, u, n) \notin Z
  <2>1. /\ Dmem(img.symbol["kernel_ptr"]) # Csr("origin")
        /\ Dmem(img.symbol["kernel_ptr"]) # Dmem(img.symbol["config"])
        /\ Dmem(img.symbol["kernel_ptr"]) # Dmem(img.symbol["not_loaded_val"])
    BY <1>2, SymbolsApart
  <2>2. QED
    BY <2>1, StoreFields DEF Pointer
<1>4. SetConfigSymbols(img, t, GroupOrigin(group), LaunchWord(n)) = x
  BY DEF SetConfigSymbols
<1>5. O \in Z /\ C \in Z /\ V \in Z /\ FenceStep \in Z
  OBVIOUS
<1> HIDE DEF Z, Y
<1>6. a \in Scripts(Z) /\ a.ok /\ Has(a.steps, O)
  BY <1>5, One32 DEF SetOrigin
<1>7. /\ b \in Scripts(Z) /\ (b.ok <=> HasSymbol(img, "config"))
      /\ b.ok => b.steps = <<C, FenceStep>>
  BY <1>2, <1>5, SetSymbolOf
<1>8. c \in Scripts(Z)
  BY <1>2, <1>5, SetSymbolOf
<1>9. b.ok => Has(b.steps, C)
  BY <1>7, OneHas
<1> HIDE DEF a, b, c, O, C, V
<1>10. a ++ b \in Scripts(Z)
  BY <1>6, <1>7, Joined2
<1>11. (a ++ b).ok <=> b.ok
  BY <1>6, <1>7, Joined2
<1>12. \A y : Has((a ++ b).steps, y) <=> Has(a.steps, y) \/ Has(b.steps, y)
  BY <1>6, <1>7, Joined2
<1>13. x \in Scripts(Z)
  BY <1>8, <1>10, Joined2
<1>14. x.ok => (a ++ b).ok
  BY <1>8, <1>10, Joined2
<1>15. \A y : Has((a ++ b).steps, y) => Has(x.steps, y)
  BY <1>8, <1>10, Joined2
<1> HIDE DEF x
<1>16. x.ok => Has(x.steps, O) /\ Has(x.steps, C)
  BY <1>6, <1>9, <1>11, <1>12, <1>14, <1>15
<1>17. x.steps \in Seq(Z)
  BY <1>13 DEF Scripts
<1>18. \A i \in DOMAIN x.steps : x.steps[i] \in Z
  BY <1>17, ElementsOf
<1>19. \A u \in Tiles : ~Has(x.steps, Pointer(img, u, n))
  BY <1>3, <1>18 DEF Has
<1>20. x \in Scripts(Y)
  BY <1>1, <1>13, ScriptsGrow
<1>21. QED
  BY <1>4, <1>16, <1>19, <1>20 DEF Y, O, C

\* Waking a tile: the arguments, and then the kernel pointer.
LEMMA RuntimeOf ==
  ASSUME NEW p \in DOMAIN Images, NEW img \in Images[p], NEW group \in Groups, NEW n \in Nat,
         NEW t \in group
  PROVE  LET x == SetRuntimeSymbols(img, t, n)
             Y == TileStores(img, t, group, n) \cup {FenceStep}
         IN /\ x \in Scripts(Y) /\ Careful(x.steps, Pointers(img, n))
            /\ Has(x.steps, Pointer(img, t, n)) =>
                 Has(x.steps, Store(t, Dmem(img.symbol["args"]), LaunchWord(n)))
            /\ \A u \in Tiles : Has(x.steps, Pointer(img, u, n)) => u = t
<1> DEFINE A == Store(t, Dmem(img.symbol["args"]), LaunchWord(n))
           K == Pointer(img, t, n)
           Y == TileStores(img, t, group, n) \cup {FenceStep}
           a == SetSymbol(img, t, "args", LaunchWord(n))
           b == SetSymbol(img, t, "kernel_ptr", LaunchWord(n))
           x == a ++ b
           T == Pointers(img, n)
<1>1. t \in Tiles
  BY OriginOf
<1>2. /\ "args" \in Symbols /\ "kernel_ptr" \in Symbols
      /\ img.symbol["args"] \in Nat /\ img.symbol["kernel_ptr"] \in Nat
  BY ImageTypes DEF Symbols
<1>3. Dmem(img.symbol["kernel_ptr"]) # Dmem(img.symbol["args"])
  BY <1>2, SymbolsApart
<1>4. A \notin T /\ FenceStep \notin T /\ K \in T
  BY <1>1, <1>3, StoreFields DEF Pointers, Pointer
<1>5. A \in Y /\ K \in Y /\ FenceStep \in Y
  BY DEF TileStores
<1>6. SetRuntimeSymbols(img, t, n) = x
  BY DEF SetRuntimeSymbols
<1>7. \A u \in Tiles : u # t => Pointer(img, u, n) # K
  BY StoreFields DEF Pointer
<1>8. K = Store(t, Dmem(img.symbol["kernel_ptr"]), LaunchWord(n))
  BY DEF Pointer
<1>9. \A u \in Tiles : Pointer(img, u, n) \in T
  BY DEF Pointers
<1> HIDE DEF Y, T, K
<1>10. /\ a \in Scripts(Y) /\ (a.ok <=> HasSymbol(img, "args"))
       /\ a.ok => a.steps = <<A, FenceStep>>
       /\ ~a.ok => \A y : ~Has(a.steps, y)
  BY <1>2, <1>5, SetSymbolOf
<1>11. /\ b \in Scripts(Y) /\ (b.ok <=> HasSymbol(img, "kernel_ptr"))
       /\ b.ok => b.steps = <<K, FenceStep>>
       /\ ~b.ok => \A y : ~Has(b.steps, y)
  BY <1>2, <1>5, <1>8, SetSymbolOf
<1> HIDE DEF a, b, A
<1>12. x \in Scripts(Y)
  BY <1>10, <1>11, Joined2
<1>13. \A y : Has(x.steps, y) <=> Has(a.steps, y) \/ (a.ok /\ Has(b.steps, y))
  BY <1>10, <1>11, Joined2
<1>14. a.ok => x.steps = Cat(a.steps, b.steps)
  BY <1>10, <1>11, Joined
<1>15. ~a.ok => x = a
  BY <1>10, <1>11, Joined
<1> HIDE DEF x
<1>16. \A y : Has(a.steps, y) => y = A \/ y = FenceStep
  <2>1. \A y : Has(<<A, FenceStep>>, y) => y = A \/ y = FenceStep
    BY DEF Has
  <2>2. QED
    BY <1>10, <2>1
<1>17. \A y : Has(b.steps, y) => y = K \/ y = FenceStep
  <2>1. \A y : Has(<<K, FenceStep>>, y) => y = K \/ y = FenceStep
    BY DEF Has
  <2>2. QED
    BY <1>11, <2>1
<1>18. Has(x.steps, K) => Has(x.steps, A)
  <2>1. a.ok => Has(a.steps, A)
    BY <1>10, OneHas
  <2>2. Has(x.steps, K) => a.ok
    BY <1>4, <1>13, <1>16
  <2>3. QED
    BY <1>13, <2>1, <2>2
<1>19. \A u \in Tiles : Has(x.steps, Pointer(img, u, n)) => u = t
  BY <1>4, <1>7, <1>9, <1>13, <1>16, <1>17
<1>20. Careful(x.steps, T)
  <2>1. CASE a.ok /\ b.ok
    <3>1. b.steps \in Seq(Y)
      BY <1>11 DEF Scripts
    <3>2. \A i \in DOMAIN b.steps : i > 1 => b.steps[i] = FenceStep
      BY <1>11, <2>1
    <3>3. Careful(Cat(<<A, FenceStep>>, b.steps), T)
      BY <1>4, <1>5, <3>1, <3>2, CarefulPair
    <3>4. QED
      BY <1>10, <1>14, <2>1, <3>3
  <2>2. CASE ~(a.ok /\ b.ok)
    <3>1. \A y : Has(x.steps, y) => y \notin T
      BY <1>4, <1>11, <1>13, <1>16, <2>2
    <3>2. QED
      BY <3>1 DEF Careful, Has
  <2>3. QED
    BY <2>1, <2>2
<1>21. QED
  BY <1>6, <1>12, <1>18, <1>19, <1>20 DEF Y, T, K, A

\* Launching: the kernel pointers come after fences, and everything that a
\* kernel looks at is in the script of a tile that is woken.
LEMMA PlacesOf ==
  ASSUME NEW p \in DOMAIN Images, NEW img \in Images[p], NEW group \in Groups,
         NEW slot \in 1 .. MaxLaunches, NEW n \in Nat
  PROVE  LET x == Chain([t \in Tiles |->
                    Only(t \in group, SetConfigSymbols(img, t, GroupOrigin(group), LaunchWord(n)))])
         IN /\ x \in Scripts(LaunchSteps(img, group, slot, n))
            /\ x.ok => \A t \in group :
                 /\ Has(x.steps, Store(t, Csr("origin"), Number(GroupOrigin(group))))
                 /\ Has(x.steps, Store(t, Dmem(img.symbol["config"]), LaunchWord(n)))
            /\ \A u \in Tiles : ~Has(x.steps, Pointer(img, u, n))
<1> DEFINE Y == LaunchSteps(img, group, slot, n)
           C(t) == SetConfigSymbols(img, t, GroupOrigin(group), LaunchWord(n))
           R(t) == Only(t \in group, C(t))
           xs == [t \in Tiles |-> R(t)]
           x == Chain(xs)
           O(t) == Store(t, Csr("origin"), Number(GroupOrigin(group)))
           D(t) == Store(t, Dmem(img.symbol["config"]), LaunchWord(n))
           W(t) == Pointer(img, t, n)
<1>1. \A t \in group : TileStores(img, t, group, n) \cup {FenceStep} \subseteq Y
  BY DEF LaunchSteps, GroupStores
<1>2. ASSUME NEW t \in group
      PROVE  /\ C(t) \in Scripts(Y) /\ (C(t).ok => Has(C(t).steps, O(t)) /\ Has(C(t).steps, D(t)))
             /\ \A u \in Tiles : ~Has(C(t).steps, W(u))
  <2>1. /\ C(t) \in Scripts(TileStores(img, t, group, n) \cup {FenceStep})
        /\ C(t).ok => Has(C(t).steps, O(t)) /\ Has(C(t).steps, D(t))
        /\ \A u \in Tiles : ~Has(C(t).steps, W(u))
    BY PlaceOf
  <2> HIDE DEF C, Y
  <2>2. C(t) \in Scripts(Y)
    BY <1>1, <2>1, ScriptsGrow
  <2>3. QED
    BY <2>1, <2>2
<1> HIDE DEF Y, C, W, O, D
<1>3. ASSUME NEW t \in Tiles
      PROVE  /\ R(t) \in Scripts(Y) /\ (t \in group => R(t) = C(t))
             /\ \A u \in Tiles : ~Has(R(t).steps, W(u))
  <2>1. (t \in group) \in BOOLEAN
    OBVIOUS
  <2>2. R(t) \in Scripts(Y)
    BY <1>2, <2>1, OnlyOf
  <2>3. t \in group => R(t) = C(t)
    BY <1>2, <2>1, OnlyOf
  <2>4. t \notin group => \A u \in Tiles : ~Has(R(t).steps, W(u))
    BY <1>2, <2>1, OnlyOf
  <2>5. QED
    BY <1>2, <2>2, <2>3, <2>4
<1>4. xs \in [Tiles -> Scripts(Y)] /\ \A t \in Tiles : xs[t] = R(t)
  BY <1>3
<1> HIDE DEF xs, R
<1>5. /\ x \in Scripts(Y)
      /\ x.ok <=> \A t \in Tiles : xs[t].ok
      /\ x.ok => \A t \in Tiles : \A y : Has(xs[t].steps, y) => Has(x.steps, y)
      /\ \A y : Has(x.steps, y) => \E t \in Tiles : Has(xs[t].steps, y)
  BY <1>4, TileLoop
<1>6. group \subseteq Tiles
  BY OriginOf
<1>7. \A u \in Tiles : ~Has(x.steps, W(u))
  BY <1>3, <1>4, <1>5
<1>8. x.ok => \A t \in group : Has(x.steps, O(t)) /\ Has(x.steps, D(t))
  BY <1>2, <1>3, <1>4, <1>5, <1>6
<1>9. QED
  BY <1>5, <1>7, <1>8 DEF x, xs, R, C, Y, O, D, W

LEMMA WakeTilesOf ==
  ASSUME NEW p \in DOMAIN Images, NEW img \in Images[p], NEW group \in Groups,
         NEW slot \in 1 .. MaxLaunches, NEW n \in Nat
  PROVE  LET x == WakeTiles(img, group, n)
         IN /\ x \in Scripts(LaunchSteps(img, group, slot, n)) /\ Careful(x.steps, Pointers(img, n))
            /\ \A t \in Tiles : Has(x.steps, Pointer(img, t, n)) =>
                 t \in group /\ Has(x.steps, Store(t, Dmem(img.symbol["args"]), LaunchWord(n)))
<1> DEFINE Y == LaunchSteps(img, group, slot, n)
           C(t) == SetRuntimeSymbols(img, t, n)
           R(t) == Only(t \in group, C(t))
           xs == [t \in Tiles |-> R(t)]
           x == Chain(xs)
           A(t) == Store(t, Dmem(img.symbol["args"]), LaunchWord(n))
           W(t) == Pointer(img, t, n)
           T == Pointers(img, n)
<1>1. \A t \in group : TileStores(img, t, group, n) \cup {FenceStep} \subseteq Y
  BY DEF LaunchSteps, GroupStores
<1>2. ASSUME NEW t \in group
      PROVE  /\ C(t) \in Scripts(Y) /\ Careful(C(t).steps, T) /\ GoesTo(C(t).steps, {t})
             /\ Has(C(t).steps, W(t)) => Has(C(t).steps, A(t))
             /\ \A u \in Tiles : Has(C(t).steps, W(u)) => u = t
  <2> DEFINE Z == TileStores(img, t, group, n) \cup {FenceStep}
  <2>1. /\ C(t) \in Scripts(Z) /\ Careful(C(t).steps, T)
        /\ Has(C(t).steps, W(t)) => Has(C(t).steps, A(t))
        /\ \A u \in Tiles : Has(C(t).steps, W(u)) => u = t
    BY RuntimeOf
  <2>2. Z \subseteq Y
    BY <1>1
  <2>3. \A z \in Z : z.op = "store" => z.to = t
    <3>1. \A z \in TileStores(img, t, group, n) : z.to = t
      BY OriginOf, TileStoreOf
    <3>2. QED
      BY <3>1, FenceFields
  <2> HIDE DEF C, Y, T, W, A, Z
  <2>4. C(t) \in Scripts(Y)
    BY <2>1, <2>2, ScriptsGrow
  <2>5. C(t).steps \in Seq(Z)
    BY <2>1 DEF Scripts
  <2>6. \A i \in DOMAIN C(t).steps : C(t).steps[i] \in Z
    BY <2>5, ElementsOf
  <2>7. GoesTo(C(t).steps, {t})
    BY <2>3, <2>6 DEF GoesTo
  <2>8. QED
    BY <2>1, <2>4, <2>7
<1>3. \A y \in T : y.op = "store"
  BY StoreFields DEF Pointers, Pointer
<1> HIDE DEF Y, C, W, A, T
<1>4. ASSUME NEW t \in Tiles
      PROVE  /\ R(t) \in Scripts(Y) /\ Careful(R(t).steps, T) /\ GoesTo(R(t).steps, {t})
             /\ \A u \in Tiles : Has(R(t).steps, W(u)) => u = t /\ t \in group /\ Has(R(t).steps, A(t))
  <2>1. (t \in group) \in BOOLEAN
    OBVIOUS
  <2>2. R(t) \in Scripts(Y)
    BY <1>2, <2>1, OnlyOf
  <2>3. t \in group => R(t) = C(t)
    BY <1>2, <2>1, OnlyOf
  <2>4. t \notin group => \A y : ~Has(R(t).steps, y)
    BY <1>2, <2>1, OnlyOf
  <2> HIDE DEF R
  <2>5. t \notin group => Careful(R(t).steps, T) /\ GoesTo(R(t).steps, {t})
    BY <2>4 DEF Has, Careful, GoesTo
  <2>6. Careful(R(t).steps, T) /\ GoesTo(R(t).steps, {t})
    BY <1>2, <2>3, <2>5
  <2>7. \A u \in Tiles : Has(R(t).steps, W(u)) => u = t /\ t \in group /\ Has(R(t).steps, A(t))
    BY <1>2, <2>3, <2>4
  <2>8. QED
    BY <2>2, <2>6, <2>7
<1>5. xs \in [Tiles -> Scripts(Y)] /\ \A t \in Tiles : xs[t] = R(t)
  BY <1>4
<1>6. WakeTiles(img, group, n) = x
  BY DEF WakeTiles, C
<1> HIDE DEF xs, R
<1>7. /\ x \in Scripts(Y)
      /\ \A y : Has(x.steps, y) => \E t \in Tiles : Has(xs[t].steps, y)
  BY <1>5, TileLoop
<1>8. Careful(x.steps, T)
  <2>1. \A t \in Tiles : Careful(xs[t].steps, T) /\ GoesTo(xs[t].steps, {t})
    BY <1>4, <1>5
  <2>2. QED
    BY <1>3, <1>5, <2>1, CarefulChain
<1>9. ASSUME NEW t \in Tiles, Has(x.steps, W(t)) PROVE t \in group /\ Has(x.steps, A(t))
  <2>1. t \in group
    BY <1>4, <1>5, <1>7, <1>9
  <2>2. xs \in Seq(Scripts(Y)) /\ DOMAIN xs = Tiles
    BY <1>5, NumTiles
  <2> DEFINE y == W(t)
             z == A(t)
  <2>3. \A i \in DOMAIN xs : Has(xs[i].steps, y) => Has(xs[i].steps, z)
    BY <1>4, <1>5, <2>2
  <2> HIDE DEF y, z, x
  <2>4. Has(Chain(xs).steps, y) => Has(Chain(xs).steps, z)
    BY <2>2, <2>3, ChainImplies
  <2>5. QED
    BY <1>9, <2>1, <2>4 DEF x, y, z
<1>10. QED
  BY <1>6, <1>7, <1>8, <1>9 DEF Y, T, W, A

LEMMA LaunchScriptOf ==
  ASSUME NEW p \in DOMAIN Images, NEW img \in Images[p], NEW group \in Groups,
         NEW slot \in 1 .. MaxLaunches, NEW n \in Nat, NEW known \in BOOLEAN
  PROVE  LET x == LaunchScript(img, group, n, slot, known)
         IN /\ x \in Scripts(LaunchSteps(img, group, slot, n)) /\ x \in Scripts(Steps)
            /\ Careful(x.steps, Pointers(img, n))
            /\ \A t \in Tiles : Has(x.steps, Pointer(img, t, n)) =>
                 /\ t \in group
                 /\ \A f \in FactsOf(img, t, group, slot, n) : Ends(x.steps, f[1], f[2], f[3], Put(f))
<1> DEFINE Y == LaunchSteps(img, group, slot, n)
           a == Chain([t \in Tiles |->
                  Only(t \in group, SetConfigSymbols(img, t, GroupOrigin(group), LaunchWord(n)))])
           b == EvaWrite(Dram, "heap", slot, <<LaunchWord(n)>>)
           c == Require(known)
           e == WakeTiles(img, group, n)
           g == (a ++ b) ++ c
           x == g ++ e
           O(t) == Store(t, Csr("origin"), Number(GroupOrigin(group)))
           D(t) == Store(t, Dmem(img.symbol["config"]), LaunchWord(n))
           A(t) == Store(t, Dmem(img.symbol["args"]), LaunchWord(n))
           W(t) == Pointer(img, t, n)
           H == Store(Dram, Heap(slot), LaunchWord(n))
           T == Pointers(img, n)
<1>1. LaunchScript(img, group, n, slot, known) = x
  BY DEF LaunchScript
<1>2. /\ a \in Scripts(Y)
      /\ a.ok => \A t \in group : Has(a.steps, O(t)) /\ Has(a.steps, D(t))
      /\ \A u \in Tiles : ~Has(a.steps, W(u))
  BY PlacesOf
<1>3. /\ e \in Scripts(Y) /\ Careful(e.steps, T)
      /\ \A t \in Tiles : Has(e.steps, W(t)) => t \in group /\ Has(e.steps, A(t))
  BY WakeTilesOf
<1>4. b.ok /\ b.steps = <<H, FenceStep>> /\ b \in Scripts(Y)
  <2>1. slot \in Nat
    BY BoundsAssumption
  <2>2. b.ok /\ b.steps = <<H, FenceStep>>
    BY <2>1, EvaWriteOne DEF Heap
  <2>3. H \in Y /\ FenceStep \in Y
    BY DEF LaunchSteps
  <2>4. b = [steps |-> b.steps, ok |-> b.ok] /\ b.ok = TRUE
    BY <2>2 DEF EvaWrite, ++, Fence, Nothing
  <2> HIDE DEF b, H, Y
  <2>5. <<H, FenceStep>> \in Seq(Y)
    BY <2>3
  <2>6. QED
    BY <2>2, <2>4, <2>5 DEF Scripts
<1>5. c \in Scripts(Y) /\ \A y : ~Has(c.steps, y)
  BY NothingIn
<1>6. \A t \in Tiles : \A f \in FactsOf(img, t, group, slot, n) : Put(f) \in {O(t), D(t), A(t), H}
  BY DEF FactsOf, Put
<1>7. \A z \in Y : z \in Steps
  BY LaunchStepOf
<1>8. \A t \in Tiles : \A f \in FactsOf(img, t, group, slot, n) : \A z \in Y :
        IsStore(z, f[1], f[2]) => z = Put(f)
  BY LaunchStepOf
<1>9. \A t \in Tiles : H # W(t) /\ W(t) \in T /\ W(t) # FenceStep
  BY NumTiles, StoreFields DEF Pointer, Pointers
<1>10. \A z \in T : \E t \in Tiles : z = W(t)
  BY DEF Pointers
<1> HIDE DEF Y, a, b, c, e, O, D, A, W, H, T
<1>11. a ++ b \in Scripts(Y)
  BY <1>2, <1>4, Joined2
<1>12. (a ++ b).ok <=> a.ok
  BY <1>2, <1>4, Joined2
<1>13. \A y : Has((a ++ b).steps, y) <=> Has(a.steps, y) \/ (a.ok /\ Has(b.steps, y))
  BY <1>2, <1>4, Joined2
<1>14. g \in Scripts(Y)
  BY <1>5, <1>11, Joined2
<1>15. g.ok => (a ++ b).ok
  BY <1>5, <1>11, Joined2
<1>16. \A y : Has(g.steps, y) <=> Has((a ++ b).steps, y)
  BY <1>5, <1>11, Joined2
<1> HIDE DEF g
<1>17. x \in Scripts(Y)
  BY <1>3, <1>14, Joined2
<1>18. \A y : Has(x.steps, y) <=> Has(g.steps, y) \/ (g.ok /\ Has(e.steps, y))
  BY <1>3, <1>14, Joined2
<1>19. g.ok => x.steps = Cat(g.steps, e.steps)
  BY <1>3, <1>14, Joined
<1>20. ~g.ok => x = g
  BY <1>3, <1>14, Joined
<1> HIDE DEF x
<1>21. x.steps \in Seq(Y) /\ g.steps \in Seq(Y) /\ e.steps \in Seq(Y)
  BY <1>3, <1>14, <1>17 DEF Scripts
<1>22. \A t \in Tiles : ~Has(g.steps, W(t))
  <2>1. \A y : Has(b.steps, y) => y = H \/ y = FenceStep
    <3>1. \A y : Has(<<H, FenceStep>>, y) => y = H \/ y = FenceStep
      BY DEF Has
    <3>2. QED
      BY <1>4, <3>1
  <2>2. QED
    BY <1>2, <1>9, <1>13, <1>16, <2>1
<1>23. Careful(x.steps, T)
  <2>1. Careful(g.steps, T)
    BY <1>10, <1>22 DEF Careful, Has
  <2>2. CASE g.ok
    <3>1. \A z \in T : Has(g.steps, z) => GoesTo(e.steps, Tiles \ {z.to})
      BY <1>10, <1>22
    <3>2. Careful(Cat(g.steps, e.steps), T)
      BY <1>3, <1>21, <2>1, <3>1, CarefulConcat
    <3>3. QED
      BY <1>19, <2>2, <3>2
  <2>3. CASE ~g.ok
    BY <1>20, <2>1, <2>3
  <2>4. QED
    BY <2>2, <2>3
<1>24. ASSUME NEW t \in Tiles, Has(x.steps, W(t))
       PROVE  t \in group /\ a.ok /\ g.ok /\ Has(e.steps, A(t))
  <2>1. g.ok /\ Has(e.steps, W(t))
    BY <1>18, <1>22, <1>24
  <2>2. QED
    BY <1>3, <1>12, <1>15, <2>1
<1>25. ASSUME NEW t \in Tiles, Has(x.steps, W(t)), NEW f \in FactsOf(img, t, group, slot, n)
       PROVE  Ends(x.steps, f[1], f[2], f[3], Put(f))
  <2>1. t \in group /\ a.ok /\ g.ok /\ Has(e.steps, A(t))
    BY <1>24, <1>25
  <2>2. Has(b.steps, H)
    BY <1>4, OneHas
  <2>3. Has(x.steps, O(t)) /\ Has(x.steps, D(t)) /\ Has(x.steps, A(t)) /\ Has(x.steps, H)
    BY <1>2, <1>13, <1>16, <1>18, <2>1, <2>2
  <2>4. Has(x.steps, Put(f))
    BY <1>6, <2>3
  <2>5. Put(f) = Store(f[1], f[2], f[3])
    BY DEF Put
  <2>6. \A z \in Y : IsStore(z, f[1], f[2]) => z = Store(f[1], f[2], f[3])
    BY <1>8, <2>5
  <2>7. Ends(x.steps, f[1], f[2], f[3], Store(f[1], f[2], f[3]))
    BY <1>21, <2>4, <2>5, <2>6, EndsOf
  <2>8. QED
    BY <2>5, <2>7
<1>26. x \in Scripts(Steps)
  BY <1>7, <1>17, ScriptsGrow
<1>27. QED
  BY <1>1, <1>17, <1>23, <1>24, <1>25, <1>26 DEF Y, T, W

LEMMA FinishScriptOf ==
  /\ FinishScript \in Scripts(Steps) /\ FinishScript.steps # <<>>
  /\ \A i \in DOMAIN FinishScript.steps :
       FinishScript.steps[i] = FenceStep \/ \E t \in Tiles : FinishScript.steps[i] = Mark(t)
  /\ FinishScript.steps[Len(FinishScript.steps)] = FenceStep
  /\ \A t \in Tiles : Has(FinishScript.steps, Mark(t))
<1> DEFINE Y == FreezeSteps \cup {FenceStep}
           F == FreezeTiles
           x == F ++ Fence
<1>1. F \in Scripts(FreezeSteps) /\ F.ok /\ \A t \in Tiles : Has(F.steps, Mark(t))
  BY FreezeOf
<1>2. Fence \in Scripts(Y) /\ Fence.steps = <<FenceStep>>
  BY DEF Fence, Scripts
<1>3. \A y \in Y : y \in Steps /\ (y = FenceStep \/ \E t \in Tiles : y = Mark(t))
  BY FenceFields, MarkTypes DEF FreezeSteps, Dests
<1> HIDE DEF F, Y
<1>4. F \in Scripts(Y)
  BY <1>1, ScriptsGrow DEF Y
<1>5. x \in Scripts(Y)
  BY <1>2, <1>4, Joined2
<1>6. \A y : Has(F.steps, y) => Has(x.steps, y)
  BY <1>2, <1>4, Joined2
<1>7. x.steps = Cat(F.steps, Fence.steps)
  BY <1>1, <1>2, <1>4, Joined
<1>8. FinishScript = x
  BY DEF FinishScript, F
<1> DEFINE u == x.steps
<1> HIDE DEF x
<1>9. u \in Seq(Y) /\ F.steps \in Seq(Y) /\ Fence.steps \in Seq(Y)
  BY <1>2, <1>4, <1>5 DEF Scripts
<1>10. x \in Scripts(Steps)
  BY <1>3, <1>5, ScriptsGrow
<1>11. \A i \in DOMAIN u : u[i] \in Y
  BY <1>9, ElementsOf
<1>12. u = Cat(F.steps, Fence.steps)
  BY <1>7
<1> HIDE DEF u
<1>13. /\ Len(F.steps) \in Nat /\ Len(Fence.steps) = 1 /\ DOMAIN u = 1 .. Len(F.steps) + 1
       /\ Len(u) = Len(F.steps) + 1
       /\ \A j \in Len(F.steps) + 1 .. Len(F.steps) + 1 : u[j] = Fence.steps[j - Len(F.steps)]
  BY <1>2, <1>9, <1>12 DEF Cat
<1>14. u[Len(u)] = FenceStep /\ u # <<>>
  <2>1. u[Len(F.steps) + 1] = Fence.steps[1]
    BY <1>13
  <2>2. QED
    BY <1>2, <1>13, <2>1
<1>15. QED
  BY <1>1, <1>3, <1>6, <1>8, <1>10, <1>11, <1>14 DEF u

------------------------------------------------------------------------------
(* What the steps of the host and of the network do.                        *)

\* The first step of the script is taken.
Advances ==
  /\ todo \in Seq(Steps) /\ todo' \in Seq(Steps) /\ Len(todo) \in Nat \ {0} /\ 1 \in DOMAIN todo
  /\ DOMAIN todo = 1 .. Len(todo) /\ DOMAIN todo' = 1 .. Len(todo) - 1 /\ Len(todo') = Len(todo) - 1
  /\ \A i \in DOMAIN todo' : i + 1 \in DOMAIN todo /\ todo'[i] = todo[i + 1]
  /\ \A i \in DOMAIN todo : i # 1 => i - 1 \in DOMAIN todo' /\ todo'[i - 1] = todo[i]
  /\ UNCHANGED <<call, ok, loaded, images, launches, crashes, mem, tileVars, fin, dramOn>>

Posts(d, a, v) ==
  /\ Advances /\ todo[1] = Store(d, a, v)
  /\ d \in Dests /\ a \in Cells(d) /\ a \in AllCells /\ v \in Words /\ Allowed(a, v)
  /\ Len(net[d]) \in Nat /\ DOMAIN net[d] = 1 .. Len(net[d]) /\ DOMAIN net'[d] = 1 .. Len(net[d]) + 1
  /\ \A i \in 1 .. Len(net[d]) : net'[d][i] = net[d][i]
  /\ net'[d][Len(net[d]) + 1] = Packet(a, v)
  /\ \A e \in Dests : e # d => net'[e] = net[e]

LEMMA Popped ==
  ASSUME HostTypes, todo # <<>>, todo' = Tail(todo)
  PROVE  /\ todo \in Seq(Steps) /\ todo' \in Seq(Steps) /\ Len(todo) \in Nat \ {0} /\ 1 \in DOMAIN todo
         /\ DOMAIN todo = 1 .. Len(todo) /\ DOMAIN todo' = 1 .. Len(todo) - 1 /\ Len(todo') = Len(todo) - 1
         /\ \A i \in DOMAIN todo' : i + 1 \in DOMAIN todo /\ todo'[i] = todo[i + 1]
         /\ \A i \in DOMAIN todo : i # 1 => i - 1 \in DOMAIN todo' /\ todo'[i - 1] = todo[i]
         /\ Head(todo) = todo[1] /\ todo[1] \in Steps
<1>1. todo \in Seq(Steps)
  BY DEF HostTypes
<1> DEFINE s == todo
           u == Tail(s)
<1>2. s \in Seq(Steps) /\ s # <<>> /\ todo' = u
  BY <1>1
<1> HIDE DEF s
<1>3. /\ Head(s) = s[1] /\ 1 \in DOMAIN s /\ Tail(s) \in Seq(Steps) /\ Head(s) \in Steps
      /\ Len(s) \in Nat \ {0} /\ DOMAIN s = 1 .. Len(s) /\ DOMAIN Tail(s) = 1 .. Len(s) - 1
      /\ \A i \in DOMAIN Tail(s) : i + 1 \in DOMAIN s /\ Tail(s)[i] = s[i + 1]
      /\ \A i \in DOMAIN s : i # 1 => i - 1 \in DOMAIN Tail(s) /\ Tail(s)[i - 1] = s[i]
  BY <1>2, TailOf
<1>4. Len(u) = Len(s) - 1
  BY <1>2, <1>3
<1> HIDE DEF u
<1>5. /\ Head(s) = s[1] /\ 1 \in DOMAIN s /\ u \in Seq(Steps) /\ Head(s) \in Steps
      /\ Len(s) \in Nat \ {0} /\ DOMAIN s = 1 .. Len(s) /\ DOMAIN u = 1 .. Len(s) - 1
      /\ \A i \in DOMAIN u : i + 1 \in DOMAIN s /\ u[i] = s[i + 1]
      /\ \A i \in DOMAIN s : i # 1 => i - 1 \in DOMAIN u /\ u[i - 1] = s[i]
  BY <1>3 DEF u
<1>6. QED
  BY <1>2, <1>4, <1>5 DEF s

LEMMA PacketFields ==
  /\ \A a, v : Packet(a, v).at = a /\ Packet(a, v).val = v
  /\ \A a, b, u, v : Packet(a, v) = Packet(b, u) => a = b /\ v = u
<1>1. \A a, v : Packet(a, v).at = a /\ Packet(a, v).val = v
  BY DEF Packet
<1>2. QED
  BY <1>1

LEMMA PacketTypes ==
  ASSUME NEW d \in Dests
  PROVE  /\ \A a \in Cells(d) : \A v \in Words : Allowed(a, v) => Packet(a, v) \in Packets(d)
         /\ \A x \in Packets(d) : /\ x = Packet(x.at, x.val) /\ x.at \in Cells(d) /\ x.val \in Words
                                  /\ Allowed(x.at, x.val)
<1>1. Cells(d) \subseteq AllCells
  BY DEF Cells, AllCells
<1>2. \A a \in Cells(d) : \A v \in Words : Packet(a, v) \in [at : AllCells, val : Words]
  BY <1>1 DEF Packet
<1>3. \A a \in Cells(d) : \A v \in Words : Allowed(a, v) => Packet(a, v) \in Packets(d)
  BY <1>2, PacketFields DEF Packets
<1>4. \A x \in Packets(d) : x = Packet(x.at, x.val)
  BY DEF Packets, Packet
<1>5. \A x \in Packets(d) : x.at \in Cells(d) /\ x.val \in Words /\ Allowed(x.at, x.val)
  BY DEF Packets
<1>6. QED
  BY <1>3, <1>4, <1>5

LEMMA HostStoreOf ==
  ASSUME Types, HostStore
  PROVE  \E d \in Dests : \E a \in Cells(d) : \E v \in Words : Posts(d, a, v)
<1> DEFINE x == todo[1]
<1>1. HostTypes /\ todo # <<>> /\ todo' = Tail(todo) /\ Head(todo).op = "store"
  BY DEF Types, HostStore
<1>2. /\ todo \in Seq(Steps) /\ todo' \in Seq(Steps) /\ Len(todo) \in Nat \ {0} /\ 1 \in DOMAIN todo
      /\ DOMAIN todo = 1 .. Len(todo) /\ DOMAIN todo' = 1 .. Len(todo) - 1 /\ Len(todo') = Len(todo) - 1
      /\ \A i \in DOMAIN todo' : i + 1 \in DOMAIN todo /\ todo'[i] = todo[i + 1]
      /\ \A i \in DOMAIN todo : i # 1 => i - 1 \in DOMAIN todo' /\ todo'[i - 1] = todo[i]
      /\ Head(todo) = x /\ x \in Steps
  BY <1>1, Popped
<1>3. UNCHANGED <<call, ok, loaded, images, launches, crashes, mem, tileVars, fin, dramOn>>
  BY DEF HostStore
<1>4. Advances
  BY <1>2, <1>3 DEF Advances
<1>5. x.op = "store"
  BY <1>1, <1>2
<1>6. PICK d, a, v : d = x.to /\ a = x.at /\ v = x.val
  OBVIOUS
<1>7. x = Store(d, a, v) /\ d \in Dests /\ a \in Cells(d) /\ v \in Words /\ Allowed(a, v)
  BY <1>2, <1>5, <1>6, StepFields
<1>8. net' = [net EXCEPT ![d] = Append(@, Packet(a, v))]
  BY <1>2, <1>6 DEF HostStore, Packet
<1>9. net \in [Dests -> Seq([at : AllCells, val : Words])] /\ net[d] \in Seq(Packets(d))
  BY <1>7 DEF Types, ManycoreTypes
<1>10. net'[d] = Append(net[d], Packet(a, v)) /\ \A e \in Dests : e # d => net'[e] = net[e]
  BY <1>7, <1>8, <1>9
<1>11. Packet(a, v) \in Packets(d) /\ a \in AllCells
  BY <1>7, PacketTypes DEF AllCells, Cells
<1> DEFINE s == net[d]
<1> HIDE DEF s
<1>12. s \in Seq(Packets(d)) /\ net'[d] = Append(s, Packet(a, v))
  BY <1>9, <1>10 DEF s
<1>13. /\ Len(s) \in Nat /\ DOMAIN s = 1 .. Len(s) /\ DOMAIN Append(s, Packet(a, v)) = 1 .. Len(s) + 1
       /\ \A i \in 1 .. Len(s) : Append(s, Packet(a, v))[i] = s[i]
       /\ Append(s, Packet(a, v))[Len(s) + 1] = Packet(a, v)
  BY <1>11, <1>12, AppendOf
<1>14. /\ Len(s) \in Nat /\ DOMAIN s = 1 .. Len(s) /\ DOMAIN net'[d] = 1 .. Len(s) + 1
       /\ \A i \in 1 .. Len(s) : net'[d][i] = s[i]
       /\ net'[d][Len(s) + 1] = Packet(a, v)
  BY <1>12, <1>13
<1>15. Posts(d, a, v)
  BY <1>4, <1>7, <1>10, <1>11, <1>14 DEF Posts, s
<1>16. QED
  BY <1>7, <1>15

LEMMA HostFenceOf ==
  ASSUME Types, HostFence
  PROVE  Advances /\ todo[1] = FenceStep /\ NetEmpty /\ net' = net
<1>1. HostTypes /\ todo # <<>> /\ todo' = Tail(todo) /\ Head(todo).op = "fence"
  BY DEF Types, HostFence
<1>2. /\ todo \in Seq(Steps) /\ todo' \in Seq(Steps) /\ Len(todo) \in Nat \ {0} /\ 1 \in DOMAIN todo
      /\ DOMAIN todo = 1 .. Len(todo) /\ DOMAIN todo' = 1 .. Len(todo) - 1 /\ Len(todo') = Len(todo) - 1
      /\ \A i \in DOMAIN todo' : i + 1 \in DOMAIN todo /\ todo'[i] = todo[i + 1]
      /\ \A i \in DOMAIN todo : i # 1 => i - 1 \in DOMAIN todo' /\ todo'[i - 1] = todo[i]
      /\ Head(todo) = todo[1] /\ todo[1] \in Steps
  BY <1>1, Popped
<1>3. UNCHANGED <<call, ok, loaded, images, launches, crashes, net, mem, tileVars, fin, dramOn>>
  BY DEF HostFence
<1>4. todo[1] = FenceStep
  <2>1. \A x \in StoreSteps : x.op = "store"
    BY DEF StoreSteps
  <2>2. QED
    BY <1>1, <1>2, <2>1 DEF Steps
<1>5. NetEmpty
  <2>1. DOMAIN net = Dests
    BY DEF Types, ManycoreTypes
  <2>2. QED
    BY <2>1 DEF HostFence, NetEmpty
<1>6. QED
  BY <1>2, <1>3, <1>4, <1>5 DEF Advances

TilesOnly(e) ==
  \A t \in Tiles : t # e => run'[t] = run[t] /\ runs'[t] = runs[t]

Delivers(e, a, v) ==
  /\ e \in Dests /\ a \in Cells(e) /\ v \in Words /\ Allowed(a, v)
  /\ Len(net[e]) \in Nat \ {0} /\ DOMAIN net[e] = 1 .. Len(net[e]) /\ 1 \in DOMAIN net[e]
  /\ net[e][1] = Packet(a, v)
  /\ DOMAIN net'[e] = 1 .. Len(net[e]) - 1
  /\ \A i \in DOMAIN net'[e] : i + 1 \in DOMAIN net[e] /\ net'[e][i] = net[e][i + 1]
  /\ \A i \in DOMAIN net[e] : i # 1 => i - 1 \in DOMAIN net'[e] /\ net'[e][i - 1] = net[e][i]
  /\ \A d \in Dests : d # e => net'[d] = net[d] /\ mem'[d] = mem[d]
  /\ \A c \in Cells(e) : c # a => mem'[e][c] = mem[e][c]
  /\ e # Dram \/ a = Tags \/ Ready(Dram) => mem'[e][a] = v
  /\ mem'[e][a] \in {v, mem[e][a]}
  /\ a # Csr("freeze") => run' = run /\ runs' = runs
  /\ a = Csr("freeze") => e \in Tiles /\ TilesOnly(e)
  /\ a = Csr("freeze") /\ v = One => run'[e] = "off" /\ runs'[e] = runs[e]
  /\ a = Csr("freeze") /\ v # One => /\ run'[e] = (IF run[e] = "off" THEN "wait" ELSE run[e])
                                     /\ runs'[e] = Program
  /\ got' = got /\ UNCHANGED <<hostVars, fin, dramOn>>

LEMMA FreezeCell ==
  \A d \in Dests : Csr("freeze") \in Cells(d) => d \in Tiles
<1>1. Csr("freeze") \notin DramCells
  BY CellNames DEF DramCells
<1>2. QED
  BY <1>1 DEF Cells, Dests

LEMMA DeliverOf ==
  ASSUME Types, NEW e \in DOMAIN net, Deliver(e)
  PROVE  \E a \in Cells(e) : \E v \in Words : Delivers(e, a, v)
<1>1. /\ net \in [Dests -> Seq([at : AllCells, val : Words])] /\ e \in Dests /\ net[e] \in Seq(Packets(e))
      /\ DOMAIN mem = Dests /\ \A d \in Dests : mem[d] \in [Cells(d) -> Words]
      /\ run \in [Tiles -> {"off", "wait", "kernel"}] /\ runs \in [Tiles -> 0 .. MaxPrograms]
  BY DEF Types, ManycoreTypes
<1> DEFINE s == net[e]
<1>2. /\ s # <<>> /\ net' = [net EXCEPT ![e] = Tail(@)]
      /\ UNCHANGED <<hostVars, fin, dramOn>>
  BY DEF Deliver
<1> HIDE DEF s
<1>3. s \in Seq(Packets(e)) /\ net'[e] = Tail(s) /\ \A d \in Dests : d # e => net'[d] = net[d]
  BY <1>1, <1>2 DEF s
<1>4. /\ Head(s) = s[1] /\ 1 \in DOMAIN s /\ Tail(s) \in Seq(Packets(e)) /\ Head(s) \in Packets(e)
      /\ Len(s) \in Nat \ {0} /\ DOMAIN s = 1 .. Len(s) /\ DOMAIN Tail(s) = 1 .. Len(s) - 1
      /\ \A i \in DOMAIN Tail(s) : i + 1 \in DOMAIN s /\ Tail(s)[i] = s[i + 1]
      /\ \A i \in DOMAIN s : i # 1 => i - 1 \in DOMAIN Tail(s) /\ Tail(s)[i - 1] = s[i]
  BY <1>2, <1>3, TailOf
<1>5. PICK x : x = s[1]
  OBVIOUS
<1>6. PICK a, v : a = x.at /\ v = x.val
  OBVIOUS
<1>7. x \in Packets(e) /\ x = Packet(a, v) /\ a \in Cells(e) /\ v \in Words /\ Allowed(a, v)
  BY <1>1, <1>4, <1>5, <1>6, PacketTypes
<1>8. Head(net[e]) = x
  BY <1>4, <1>5 DEF s
<1>9. /\ mem' = IF Lost(e, x) THEN mem ELSE [mem EXCEPT ![e][a] = v]
      /\ IF a # Csr("freeze") THEN UNCHANGED tileVars
         ELSE IF v = One
           THEN run' = [run EXCEPT ![e] = "off"] /\ UNCHANGED <<runs, got>>
           ELSE /\ run' = [run EXCEPT ![e] = IF @ = "off" THEN "wait" ELSE @]
                /\ runs' = [runs EXCEPT ![e] = Program]
                /\ UNCHANGED got
  BY <1>6, <1>8 DEF Deliver
<1>10. Lost(e, x) <=> e = Dram /\ a # Tags /\ ~dramOn /\ mem[Dram][Tags] # One
  BY <1>6 DEF Lost
<1>11. [mem EXCEPT ![e][a] = v] = [mem EXCEPT ![e] = [mem[e] EXCEPT ![a] = v]]
  BY <1>1, <1>7
<1>12. ~Lost(e, x) => /\ mem'[e] = [mem[e] EXCEPT ![a] = v]
                      /\ \A d \in Dests : d # e => mem'[d] = mem[d]
  BY <1>1, <1>9, <1>11
<1>13. mem[e] \in [Cells(e) -> Words]
  BY <1>1
<1>14. /\ \A d \in Dests : d # e => mem'[d] = mem[d]
       /\ \A c \in Cells(e) : c # a => mem'[e][c] = mem[e][c]
       /\ ~Lost(e, x) => mem'[e][a] = v
       /\ mem'[e][a] \in {v, mem[e][a]}
  BY <1>7, <1>9, <1>12, <1>13
<1>15. e # Dram \/ a = Tags \/ Ready(Dram) => mem'[e][a] = v
  BY <1>10, <1>14 DEF Ready
<1>16. got' = got /\ (a # Csr("freeze") => run' = run /\ runs' = runs)
  BY <1>9 DEF tileVars
<1>17. a = Csr("freeze") => e \in Tiles
  BY <1>1, <1>7, FreezeCell
<1>18. a = Csr("freeze") => TilesOnly(e)
  BY <1>1, <1>9, <1>17 DEF TilesOnly
<1>19. a = Csr("freeze") /\ v = One => run'[e] = "off" /\ runs'[e] = runs[e]
  BY <1>1, <1>9, <1>17
<1>20. a = Csr("freeze") /\ v # One => /\ run'[e] = (IF run[e] = "off" THEN "wait" ELSE run[e])
                                       /\ runs'[e] = Program
  BY <1>1, <1>9, <1>17
<1>21. /\ DOMAIN net'[e] = 1 .. Len(s) - 1
       /\ \A i \in DOMAIN net'[e] : i + 1 \in DOMAIN s /\ net'[e][i] = s[i + 1]
       /\ \A i \in DOMAIN s : i # 1 => i - 1 \in DOMAIN net'[e] /\ net'[e][i - 1] = s[i]
  BY <1>3, <1>4
<1>22. Delivers(e, a, v)
  BY <1>1, <1>2, <1>3, <1>4, <1>5, <1>7, <1>14, <1>15, <1>16, <1>17, <1>18, <1>19, <1>20, <1>21 DEF Delivers, s
<1>23. QED
  BY <1>7, <1>22

------------------------------------------------------------------------------
(* The last store to a cell on its way from the script to the memory.       *)


LEMMA ReadyPosted ==
  ASSUME NEW d, NEW a, NEW v, Posts(d, a, v), NEW e \in Dests, e # Dram => Store(d, a, v) # Unfreeze(e)
  PROVE  /\ Ready(e) => Ready(e)'
         /\ \A q : Marked(e, q) => Marked(e, q)'
         /\ \A q : Store(d, a, v) = Mark(e) /\ q = Len(net[e]) + 1 => Marked(e, q)'
<1>1. e = d /\ e # Dram /\ a = Csr("freeze") => v = One
  <2>1. v \in {Zero, One} \/ a # Csr("freeze")
    BY DEF Posts, Allowed
  <2>2. v = Zero /\ a = Csr("freeze") /\ e = d /\ e # Dram => FALSE
    BY DEF Unfreeze
  <2>3. QED
    BY <2>1, <2>2
<1>2. e = d /\ e # Dram => ~Starts(Packet(a, v))
  BY <1>1, PacketFields DEF Starts
<1>3. /\ mem' = mem /\ dramOn' = dramOn /\ run' = run
  BY DEF Posts, Advances, tileVars
<1>4. \A i \in DOMAIN net'[e] : \/ i \in DOMAIN net[e] /\ net'[e][i] = net[e][i]
                                \/ e = d /\ net'[e][i] = Packet(a, v) /\ i = Len(net[d]) + 1
  <2>1. CASE e # d
    BY <2>1 DEF Posts
  <2>2. CASE e = d
    <3>1. SUFFICES ASSUME NEW i \in DOMAIN net'[d], i \notin DOMAIN net[d] PROVE i = Len(net[d]) + 1
      BY <2>2 DEF Posts
    <3>2. QED
      BY <3>1 DEF Posts
  <2>3. QED
    BY <2>1, <2>2
<1>5. \A i \in DOMAIN net[e] : i \in DOMAIN net'[e] /\ net'[e][i] = net[e][i]
  BY DEF Posts
<1>6. Ready(e) => Ready(e)'
  <2>1. CASE e = Dram
    BY <1>3, <2>1 DEF Ready
  <2>2. CASE e # Dram
    BY <1>2, <1>3, <1>4, <2>2 DEF Ready
  <2>3. QED
    BY <2>1, <2>2
<1>7. ASSUME NEW q, Marked(e, q) PROVE Marked(e, q)'
  <2>1. q \in DOMAIN net[e] /\ net[e][q] = Packet(MarkCell(e), One)
        /\ (e # Dram => \A i \in DOMAIN net[e] : i > q => ~Starts(net[e][i]))
    BY <1>7 DEF Marked
  <2>2. q \in DOMAIN net'[e] /\ net'[e][q] = Packet(MarkCell(e), One)
    BY <1>5, <2>1
  <2>3. e # Dram => \A i \in DOMAIN net'[e] : i > q => ~Starts(net'[e][i])
    BY <1>2, <1>4, <2>1
  <2>4. QED
    BY <2>2, <2>3 DEF Marked
<1>8. ASSUME Store(d, a, v) = Mark(e), NEW q, q = Len(net[e]) + 1 PROVE Marked(e, q)'
  <2>1. d = e /\ a = MarkCell(e) /\ v = One
    BY <1>8, StoreFields DEF Mark
  <2>2. DOMAIN net'[e] = 1 .. q /\ net'[e][q] = Packet(MarkCell(e), One) /\ q \in Nat \ {0}
    BY <1>8, <2>1 DEF Posts
  <2>3. \A i \in DOMAIN net'[e] : ~(i > q)
    BY <2>2
  <2>4. QED
    BY <2>2, <2>3 DEF Marked
<1>9. QED
  BY <1>6, <1>7, <1>8

LEMMA AdvancesOf ==
  ASSUME Advances, NEW d, NEW a
  PROVE  /\ StoredIn(todo, d, a)' => StoredIn(todo, d, a)
         /\ StoredIn(todo, d, a) /\ ~IsStore(todo[1], d, a) => StoredIn(todo, d, a)'
         /\ \A i, v : LastStore(todo, i, d, a, v) /\ i # 1 => LastStore(todo', i - 1, d, a, v)
         /\ \A v : LastStore(todo, 1, d, a, v) => ~StoredIn(todo, d, a)'
         /\ \A y : Has(todo', y) => Has(todo, y)
         /\ \A y : Has(todo, y) /\ todo[1] # y => Has(todo', y)
<1>1. StoredIn(todo, d, a)' => StoredIn(todo, d, a)
  BY DEF Advances, StoredIn
<1>2. StoredIn(todo, d, a) /\ ~IsStore(todo[1], d, a) => StoredIn(todo, d, a)'
  <2>1. SUFFICES ASSUME NEW i \in DOMAIN todo, IsStore(todo[i], d, a), ~IsStore(todo[1], d, a)
                 PROVE  StoredIn(todo, d, a)'
    BY DEF StoredIn
  <2>2. i # 1
    BY <2>1
  <2>3. PICK j : j = i - 1
    OBVIOUS
  <2>4. j \in DOMAIN todo' /\ todo'[j] = todo[i]
    BY <2>1, <2>2, <2>3 DEF Advances
  <2>5. QED
    BY <2>1, <2>4 DEF StoredIn
<1>3. ASSUME NEW i, NEW v, LastStore(todo, i, d, a, v), i # 1 PROVE LastStore(todo', i - 1, d, a, v)
  <2>1. /\ i \in DOMAIN todo /\ todo[i] = Store(d, a, v)
        /\ \A j \in DOMAIN todo : j > i => ~IsStore(todo[j], d, a)
    BY <1>3 DEF LastStore
  <2>2. i - 1 \in DOMAIN todo' /\ todo'[i - 1] = todo[i] /\ i \in Nat
    BY <1>3, <2>1 DEF Advances
  <2>3. ASSUME NEW j \in DOMAIN todo', j > i - 1 PROVE ~IsStore(todo'[j], d, a)
    <3>1. j + 1 \in DOMAIN todo /\ todo'[j] = todo[j + 1] /\ j \in Nat
      BY <2>3 DEF Advances
    <3>2. j + 1 > i
      BY <2>2, <2>3, <3>1
    <3>3. QED
      BY <2>1, <3>1, <3>2
  <2>4. QED
    BY <2>1, <2>2, <2>3 DEF LastStore
<1>4. ASSUME NEW v, LastStore(todo, 1, d, a, v) PROVE ~StoredIn(todo, d, a)'
  <2>1. \A j \in DOMAIN todo : j > 1 => ~IsStore(todo[j], d, a)
    BY <1>4 DEF LastStore
  <2>2. ASSUME NEW j \in DOMAIN todo' PROVE ~IsStore(todo'[j], d, a)
    <3>1. j + 1 \in DOMAIN todo /\ todo'[j] = todo[j + 1] /\ j \in Nat /\ j >= 1
      BY DEF Advances
    <3>2. QED
      BY <2>1, <3>1
  <2>3. QED
    BY <2>2 DEF StoredIn
<1>5. \A y : Has(todo', y) => Has(todo, y)
  BY DEF Advances, Has
<1>6. ASSUME NEW y, Has(todo, y), todo[1] # y PROVE Has(todo', y)
  <2>1. PICK i \in DOMAIN todo : todo[i] = y
    BY <1>6 DEF Has
  <2>2. i # 1
    BY <1>6, <2>1
  <2>3. PICK j : j = i - 1
    OBVIOUS
  <2>4. j \in DOMAIN todo' /\ todo'[j] = todo[i]
    BY <2>1, <2>2, <2>3 DEF Advances
  <2>5. QED
    BY <2>1, <2>4 DEF Has
<1>7. QED
  BY <1>1, <1>2, <1>3, <1>4, <1>5, <1>6

\* The first step posts a store to the cell only if it is that store.
LEMMA PostedAt ==
  ASSUME NEW d, NEW a, NEW v, Posts(d, a, v), NEW e \in Dests, NEW b
  PROVE  /\ IsStore(todo[1], e, b) <=> d = e /\ a = b
         /\ \A i \in DOMAIN net[e] : i \in DOMAIN net'[e] /\ net'[e][i] = net[e][i] /\ i <= Len(net[e])
         /\ \A i \in DOMAIN net'[e] : \/ i \in DOMAIN net[e] /\ net'[e][i] = net[e][i]
                                      \/ e = d /\ net'[e][i] = Packet(a, v) /\ i = Len(net[d]) + 1
         /\ ~StoredIn(todo, e, b) => ~(d = e /\ a = b)
<1>1. IsStore(todo[1], e, b) <=> d = e /\ a = b
  BY StoreFields DEF Posts
<1>2. CASE e # d
  <2>1. net'[e] = net[e]
    BY <1>2 DEF Posts
  <2>2. 1 \in DOMAIN todo
    BY DEF Posts, Advances
  <2>3. QED
    BY <1>1, <1>2, <2>1
<1>3. CASE e = d
  <2>1. 1 \in DOMAIN todo
    BY DEF Posts, Advances
  <2>2. ~StoredIn(todo, e, b) => ~(d = e /\ a = b)
    BY <1>1, <2>1 DEF StoredIn
  <2>3. ASSUME NEW i \in DOMAIN net'[e], i \notin DOMAIN net[e] PROVE net'[e][i] = Packet(a, v) /\ i = Len(net[d]) + 1
    BY <1>3, <2>3 DEF Posts
  <2>4. \A i \in DOMAIN net[e] : i \in DOMAIN net'[e] /\ net'[e][i] = net[e][i] /\ i <= Len(net[e])
    BY <1>3 DEF Posts
  <2>5. QED
    BY <1>1, <1>3, <2>2, <2>3, <2>4
<1>4. QED
  BY <1>2, <1>3

LEMMA SettledPosted ==
  ASSUME NEW d, NEW a, NEW v, Posts(d, a, v), NEW e \in Dests, NEW b, NEW u, Settled(e, b, u)
  PROVE  Settled(e, b, u)'
<1>1. ~StoredIn(todo, e, b) /\ ~SentTo(e, b) /\ mem[e][b] = u
  BY DEF Settled, Pending
<1>2. Advances /\ mem' = mem
  BY DEF Posts, Advances
<1>3. ~StoredIn(todo, e, b)'
  BY <1>1, <1>2, AdvancesOf
<1>4. ~(d = e /\ a = b)
  BY <1>1, PostedAt
<1>5. ~SentTo(e, b)'
  BY <1>1, <1>4, PostedAt, PacketFields DEF SentTo
<1>6. QED
  BY <1>1, <1>2, <1>3, <1>5 DEF Settled, Pending

LEMMA FinalPosted ==
  ASSUME NEW d, NEW a, NEW v, Posts(d, a, v), NEW e \in Dests, NEW b, NEW u, NEW must \in BOOLEAN,
         Final(e, b, u, must), must /\ e # Dram => todo[1] # Unfreeze(e)
  PROVE  Final(e, b, u, must)'
<1> DEFINE q == Len(net[e]) + 1
<1>0. Advances /\ mem' = mem /\ todo[1] = Store(d, a, v) /\ Len(net[d]) \in Nat
      /\ 1 \in DOMAIN todo /\ DOMAIN todo = 1 .. Len(todo)
      /\ Len(todo) \in Nat /\ DOMAIN todo' = 1 .. Len(todo) - 1
  BY DEF Posts, Advances
<1>1. PICK r : r = Len(net[d]) + 1
  OBVIOUS
<1>2. must => (Ready(e) => Ready(e)')
  BY <1>0, ReadyPosted
<1>3. must => \A p : Marked(e, p) => Marked(e, p)'
  BY <1>0, ReadyPosted
<1>4. must => (todo[1] = Mark(e) => e = d /\ Marked(e, r)' /\ r \in DOMAIN net'[e])
  <2>1. todo[1] = Mark(e) => e = d
    <3>1. todo[1].to = d
      BY <1>0, StoreFields
    <3>2. Mark(e).to = e
      BY MarkFieldsHold DEF MarkFields
    <3>3. QED
      BY <3>1, <3>2
  <2>2. must /\ todo[1] = Mark(e) => Marked(e, r)'
    BY <1>0, <1>1, <2>1, ReadyPosted
  <2>3. QED
    BY <2>1, <2>2 DEF Marked
<1>5. ASSUME NEW i, LastStore(todo, i, e, b, u),
             must => Ready(e) \/ (\E p \in DOMAIN net[e] : Marked(e, p)) \/ (\E p \in 1 .. i : todo[p] = Mark(e)),
             i = 1
      PROVE  Final(e, b, u, must)'
  <2>1. ~StoredIn(todo, e, b)'
    BY <1>0, <1>5, AdvancesOf
  <2>2. d = e /\ a = b /\ v = u
    BY <1>0, <1>5, StoreFields DEF LastStore
  <2>3. /\ DOMAIN net'[e] = 1 .. r /\ net'[e][r] = Packet(b, u) /\ r \in Nat \ {0}
        /\ DOMAIN net[e] = 1 .. r - 1
    BY <1>1, <2>2 DEF Posts
  <2>4. r \in DOMAIN net'[e] /\ \A j \in DOMAIN net'[e] : j > r => net'[e][j].at # b
    BY <2>3
  <2>5. must => Ready(e)' \/ \E p \in 1 .. r : Marked(e, p)'
    <3>1. CASE must /\ Ready(e)
      BY <1>2, <3>1
    <3>2. CASE must /\ \E p \in DOMAIN net[e] : Marked(e, p)
      BY <1>3, <2>3, <3>2
    <3>3. CASE must /\ \E p \in 1 .. i : todo[p] = Mark(e)
      <4>1. todo[1] = Mark(e)
        BY <1>5, <3>3
      <4>2. Marked(e, r)' /\ r \in 1 .. r
        BY <1>4, <2>3, <3>3, <4>1
      <4>3. QED
        BY <4>2
    <3>4. QED
      BY <1>5, <3>1, <3>2, <3>3
  <2>6. Stored(e, b, u, must)'
    BY <2>3, <2>4, <2>5 DEF Stored
  <2>7. QED
    BY <2>1, <2>6 DEF Final
<1>6. ASSUME NEW i, LastStore(todo, i, e, b, u),
             must => Ready(e) \/ (\E p \in DOMAIN net[e] : Marked(e, p)) \/ (\E p \in 1 .. i : todo[p] = Mark(e)),
             i # 1
      PROVE  Final(e, b, u, must)'
  <2>0. PICK j : j = i - 1
    OBVIOUS
  <2>1. LastStore(todo', j, e, b, u)
    BY <1>0, <1>6, <2>0, AdvancesOf
  <2>2. i \in DOMAIN todo /\ j \in DOMAIN todo'
    BY <1>6, <2>1 DEF LastStore
  <2>3. must => \/ Ready(e)' \/ (\E p \in DOMAIN net'[e] : Marked(e, p)')
                \/ (\E p \in 1 .. j : todo'[p] = Mark(e))
    <3>1. CASE must /\ Ready(e)
      BY <1>2, <3>1
    <3>2. CASE must /\ \E p \in DOMAIN net[e] : Marked(e, p)
      BY <1>3, <3>2, PostedAt
    <3>3. CASE must /\ \E p \in 1 .. i : todo[p] = Mark(e)
      <4>1. PICK p \in 1 .. i : todo[p] = Mark(e)
        BY <3>3
      <4>2. CASE p = 1
        BY <1>4, <3>3, <4>1, <4>2
      <4>3. CASE p # 1
        <5>1. PICK c : c = p - 1
          OBVIOUS
        <5>2. p \in DOMAIN todo
          BY <1>0, <2>2
        <5>3. todo'[c] = todo[p]
          BY <1>0, <4>3, <5>1, <5>2 DEF Advances
        <5>4. c \in 1 .. j
          BY <1>0, <2>0, <2>2, <4>1, <4>3, <5>1
        <5>5. QED
          BY <4>1, <5>3, <5>4
      <4>4. QED
        BY <4>2, <4>3
    <3>4. QED
      BY <1>6, <3>1, <3>2, <3>3
  <2>4. ToStore(e, b, u, must)'
    BY <2>1, <2>2, <2>3 DEF ToStore
  <2>5. QED
    BY <2>4 DEF Final
<1>7. CASE ToStore(e, b, u, must)
  BY <1>5, <1>6, <1>7 DEF ToStore
<1>8. CASE ~StoredIn(todo, e, b) /\ Stored(e, b, u, must)
  <2>1. ~(d = e /\ a = b)
    BY <1>8, PostedAt
  <2>2. ~StoredIn(todo, e, b)'
    BY <1>0, <1>8, AdvancesOf
  <2>3. PICK i \in DOMAIN net[e] :
          /\ net[e][i] = Packet(b, u) /\ \A j \in DOMAIN net[e] : j > i => net[e][j].at # b
          /\ must => Ready(e) \/ (\E p \in 1 .. i : Marked(e, p))
    BY <1>8 DEF Stored
  <2>4. i \in DOMAIN net'[e] /\ net'[e][i] = Packet(b, u)
    BY <2>3, PostedAt
  <2>5. \A j \in DOMAIN net'[e] : j > i => net'[e][j].at # b
    BY <2>1, <2>3, PostedAt, PacketFields
  <2>6. must => Ready(e)' \/ (\E p \in 1 .. i : Marked(e, p)')
    BY <1>2, <1>3, <2>3
  <2>7. Stored(e, b, u, must)'
    BY <2>4, <2>5, <2>6 DEF Stored
  <2>8. QED
    BY <2>2, <2>7 DEF Final
<1>9. CASE ~Pending(e, b) /\ mem[e][b] = u /\ (must => Ready(e))
  <2>1. Settled(e, b, u)'
    BY <1>9, SettledPosted DEF Settled
  <2>2. QED
    BY <1>2, <1>9, <2>1 DEF Settled, Final
<1>10. QED
  BY <1>7, <1>8, <1>9 DEF Final

\* A fence is taken when the network is empty.
Fences == Advances /\ todo[1] = FenceStep /\ NetEmpty /\ net' = net

LEMMA FinalFenced ==
  ASSUME Fences, NEW e \in Dests, NEW b, NEW u, NEW must \in BOOLEAN, Final(e, b, u, must)
  PROVE  Final(e, b, u, must)'
<1>0. Advances /\ mem' = mem /\ todo[1] = FenceStep /\ net' = net /\ run' = run /\ dramOn' = dramOn
      /\ 1 \in DOMAIN todo /\ DOMAIN todo = 1 .. Len(todo)
      /\ Len(todo) \in Nat /\ DOMAIN todo' = 1 .. Len(todo) - 1
  BY DEF Fences, Advances, tileVars
<1>1. Ready(e) => Ready(e)'
  BY <1>0 DEF Ready
<1>2. \A p : Marked(e, p) => Marked(e, p)'
  BY <1>0 DEF Marked
<1>3. ~IsStore(todo[1], e, b)
  BY <1>0, FenceFields DEF IsStore
<1>4. CASE ToStore(e, b, u, must)
  <2>1. PICK i \in DOMAIN todo :
          /\ LastStore(todo, i, e, b, u)
          /\ must => Ready(e) \/ (\E p \in DOMAIN net[e] : Marked(e, p)) \/ (\E p \in 1 .. i : todo[p] = Mark(e))
    BY <1>4 DEF ToStore
  <2>2. i # 1
    BY <1>0, <2>1, StoreFields DEF LastStore
  <2>3. PICK j : j = i - 1
    OBVIOUS
  <2>4. LastStore(todo', j, e, b, u)
    BY <1>0, <2>1, <2>2, <2>3, AdvancesOf
  <2>5. j \in DOMAIN todo'
    BY <2>4 DEF LastStore
  <2>6. ASSUME NEW p \in 1 .. i, todo[p] = Mark(e) PROVE \E c \in 1 .. j : todo'[c] = Mark(e)
    <3>1. p # 1
      BY <1>0, <2>6, FenceFields, MarkFieldsHold DEF MarkFields
    <3>2. PICK c : c = p - 1
      OBVIOUS
    <3>3. p \in DOMAIN todo
      BY <1>0, <2>1
    <3>4. todo'[c] = todo[p]
      BY <1>0, <3>1, <3>2, <3>3 DEF Advances
    <3>5. c \in 1 .. j
      BY <1>0, <2>1, <2>3, <3>1, <3>2
    <3>6. QED
      BY <2>6, <3>4, <3>5
  <2>7. must => \/ Ready(e)' \/ (\E p \in DOMAIN net'[e] : Marked(e, p)')
                \/ (\E p \in 1 .. j : todo'[p] = Mark(e))
    BY <1>0, <1>1, <1>2, <2>1, <2>6
  <2>8. QED
    BY <2>4, <2>5, <2>7 DEF ToStore, Final
<1>5. CASE ~StoredIn(todo, e, b) /\ Stored(e, b, u, must)
  <2>1. ~StoredIn(todo, e, b)'
    BY <1>0, <1>5, AdvancesOf
  <2>2. Stored(e, b, u, must)'
    BY <1>0, <1>1, <1>2, <1>5 DEF Stored
  <2>3. QED
    BY <2>1, <2>2 DEF Final
<1>6. CASE ~Pending(e, b) /\ mem[e][b] = u /\ (must => Ready(e))
  <2>1. ~StoredIn(todo, e, b)'
    BY <1>0, <1>6, AdvancesOf DEF Pending
  <2>2. ~SentTo(e, b)'
    BY <1>0, <1>6 DEF Pending, SentTo
  <2>3. QED
    BY <1>0, <1>1, <1>6, <2>1, <2>2 DEF Pending, Final
<1>7. QED
  BY <1>4, <1>5, <1>6 DEF Final

LEMMA SettledFenced ==
  ASSUME Fences, NEW e, NEW b, NEW u, Settled(e, b, u)
  PROVE  Settled(e, b, u)'
<1>0. Advances /\ mem' = mem /\ net' = net
  BY DEF Fences, Advances
<1>1. ~StoredIn(todo, e, b)'
  BY <1>0, AdvancesOf DEF Settled, Pending
<1>2. QED
  BY <1>0, <1>1 DEF Settled, Pending, SentTo

LEMMA ReadyDelivered ==
  ASSUME NEW c, NEW a, NEW v, Delivers(c, a, v), NEW e \in Dests
  PROVE  /\ Ready(e) => Ready(e)'
         /\ \A p : Marked(e, p) /\ ~(c = e /\ p = 1) => \E q : Marked(e, q)' /\ (c = e => q = p - 1 /\ p \in Nat) /\ (c # e => q = p)
         /\ c = e /\ Marked(e, 1) => Ready(e)'
<1>0. dramOn' = dramOn
  BY DEF Delivers
<1>1. /\ c = e => /\ DOMAIN net[e] = 1 .. Len(net[e]) /\ Len(net[e]) \in Nat \ {0} /\ 1 \in DOMAIN net[e]
                  /\ DOMAIN net'[e] = 1 .. Len(net[e]) - 1 /\ net[e][1] = Packet(a, v)
                  /\ \A i \in DOMAIN net'[e] : i + 1 \in DOMAIN net[e] /\ net'[e][i] = net[e][i + 1]
                  /\ \A i \in DOMAIN net[e] : i # 1 => i - 1 \in DOMAIN net'[e] /\ net'[e][i - 1] = net[e][i]
      /\ c # e => net'[e] = net[e] /\ mem'[e] = mem[e]
  BY DEF Delivers
<1>2. c = e /\ e # Dram /\ a = Csr("freeze") /\ v = One => run'[e] = "off"
  BY DEF Delivers
<1>3. e # Dram /\ (c # e \/ a # Csr("freeze")) => run'[e] = run[e]
  <2>1. CASE a # Csr("freeze")
    BY <2>1 DEF Delivers
  <2>2. CASE a = Csr("freeze") /\ c # e
    BY <2>2 DEF Delivers, TilesOnly, Dests
  <2>3. QED
    BY <2>1, <2>2
<1>4. Ready(e) => Ready(e)'
  <2>1. CASE e = Dram
    <3>1. c = Dram => mem'[Dram][Tags] = mem[Dram][Tags] \/ mem'[Dram][Tags] = One
      <4>1. Tags \in Cells(Dram)
        BY CellTypes DEF Cells
      <4>2. a = Tags => v = One
        BY DEF Delivers, Allowed
      <4>3. QED
        BY <4>1, <4>2 DEF Delivers
    <3>2. QED
      BY <1>0, <1>1, <2>1, <3>1 DEF Ready
  <2>2. CASE e # Dram
    <3>1. SUFFICES ASSUME Ready(e) PROVE Ready(e)'
      OBVIOUS
    <3>2. run[e] = "off" /\ \A i \in DOMAIN net[e] : ~Starts(net[e][i])
      BY <2>2, <3>1 DEF Ready
    <3>3. c = e /\ a = Csr("freeze") => v = One
      BY <1>1, <3>2, PacketFields DEF Starts
    <3>4. run'[e] = "off"
      BY <1>2, <1>3, <2>2, <3>2, <3>3
    <3>5. \A i \in DOMAIN net'[e] : ~Starts(net'[e][i])
      BY <1>1, <3>2
    <3>6. QED
      BY <2>2, <3>4, <3>5 DEF Ready
  <2>3. QED
    BY <2>1, <2>2
<1>5. ASSUME NEW p, Marked(e, p), ~(c = e /\ p = 1)
      PROVE  \E q : Marked(e, q)' /\ (c = e => q = p - 1 /\ p \in Nat) /\ (c # e => q = p)
  <2>0. PICK q : q = (IF c = e THEN p - 1 ELSE p)
    OBVIOUS
  <2>1. p \in DOMAIN net[e] /\ net[e][p] = Packet(MarkCell(e), One)
        /\ (e # Dram => \A i \in DOMAIN net[e] : i > p => ~Starts(net[e][i]))
    BY <1>5 DEF Marked
  <2>2. CASE c = e
    <3>1. q = p - 1 /\ p \in Nat
      BY <1>1, <2>0, <2>1, <2>2
    <3>2. q \in DOMAIN net'[e] /\ net'[e][q] = Packet(MarkCell(e), One)
      BY <1>1, <1>5, <2>1, <2>2, <3>1
    <3>3. ASSUME e # Dram, NEW i \in DOMAIN net'[e], i > q PROVE ~Starts(net'[e][i])
      <4>1. i + 1 \in DOMAIN net[e] /\ net'[e][i] = net[e][i + 1] /\ i \in Nat
        BY <1>1, <2>2, <3>3
      <4>2. i + 1 > p
        BY <3>1, <3>3, <4>1
      <4>3. QED
        BY <2>1, <3>3, <4>1, <4>2
    <3>4. Marked(e, q)'
      BY <3>2, <3>3 DEF Marked
    <3>5. QED
      BY <2>2, <3>1, <3>4
  <2>3. CASE c # e
    <3>1. q = p /\ Marked(e, q)'
      BY <1>1, <2>0, <2>1, <2>3 DEF Marked
    <3>2. QED
      BY <2>3, <3>1
  <2>4. QED
    BY <2>2, <2>3
<1>6. ASSUME c = e, Marked(e, 1) PROVE Ready(e)'
  <2>1. net[e][1] = Packet(MarkCell(e), One)
        /\ (e # Dram => \A i \in DOMAIN net[e] : i > 1 => ~Starts(net[e][i]))
    BY <1>6 DEF Marked
  <2>2. a = MarkCell(e) /\ v = One
    BY <1>1, <1>6, <2>1, PacketFields
  <2>3. CASE e = Dram
    <3>1. a = Tags
      BY <2>2, <2>3 DEF MarkCell
    <3>2. mem'[e][a] = v
      BY <1>6, <3>1 DEF Delivers
    <3>3. QED
      BY <2>2, <2>3, <3>1, <3>2 DEF Ready
  <2>4. CASE e # Dram
    <3>1. run'[e] = "off"
      BY <1>2, <1>6, <2>2, <2>4 DEF MarkCell
    <3>2. ASSUME NEW i \in DOMAIN net'[e] PROVE ~Starts(net'[e][i])
      <4>1. i + 1 \in DOMAIN net[e] /\ net'[e][i] = net[e][i + 1] /\ i \in Nat /\ i >= 1
        BY <1>1, <1>6
      <4>2. QED
        BY <2>1, <2>4, <4>1
    <3>3. QED
      BY <2>4, <3>1, <3>2 DEF Ready
  <2>5. QED
    BY <2>3, <2>4
<1>7. QED
  BY <1>4, <1>5, <1>6

LEMMA DeliveredAt ==
  ASSUME NEW c, NEW a, NEW v, Delivers(c, a, v), NEW e \in Dests, NEW b \in Cells(e)
  PROVE  /\ SentTo(e, b)' => SentTo(e, b)
         /\ todo' = todo
         /\ ~SentTo(e, b) => mem'[e][b] = mem[e][b]
<1>1. CASE c # e
  BY <1>1 DEF Delivers, SentTo, hostVars
<1>2. CASE c = e
  <2>1. todo' = todo
    BY DEF Delivers, hostVars
  <2>2. SentTo(e, b)' => SentTo(e, b)
    BY <1>2 DEF Delivers, SentTo
  <2>3. ~SentTo(e, b) => a # b
    BY <1>2, PacketFields DEF Delivers, SentTo
  <2>4. a # b => mem'[e][b] = mem[e][b]
    BY <1>2 DEF Delivers
  <2>5. QED
    BY <2>1, <2>2, <2>3, <2>4
<1>3. QED
  BY <1>1, <1>2

LEMMA SettledDelivered ==
  ASSUME NEW c, NEW a, NEW v, Delivers(c, a, v), NEW e \in Dests, NEW b \in Cells(e), NEW u,
         Settled(e, b, u)
  PROVE  Settled(e, b, u)'
<1>1. ~StoredIn(todo, e, b) /\ ~SentTo(e, b) /\ mem[e][b] = u
  BY DEF Settled, Pending
<1>2. todo' = todo /\ ~SentTo(e, b)' /\ mem'[e][b] = u
  BY <1>1, DeliveredAt
<1>3. QED
  BY <1>1, <1>2 DEF Settled, Pending

LEMMA FinalDelivered ==
  ASSUME NEW c, NEW a, NEW v, Delivers(c, a, v), NEW e \in Dests, NEW b \in Cells(e), NEW u,
         NEW must \in BOOLEAN, Final(e, b, u, must), e = Dram => must \/ Ready(Dram)
  PROVE  Final(e, b, u, must)'
<1>1. todo' = todo
  BY DeliveredAt
<1>2. Ready(e) => Ready(e)'
  BY ReadyDelivered
<1>3. ASSUME NEW p, Marked(e, p)
      PROVE  Ready(e)' \/ \E q : Marked(e, q)' /\ (c = e => q = p - 1 /\ p \in Nat) /\ (c # e => q = p)
  <2>1. CASE c = e /\ p = 1
    BY <1>3, <2>1, ReadyDelivered
  <2>2. CASE ~(c = e /\ p = 1)
    BY <1>3, <2>2, ReadyDelivered
  <2>3. QED
    BY <2>1, <2>2
<1>4. CASE ToStore(e, b, u, must)
  <2>1. PICK i \in DOMAIN todo :
          /\ LastStore(todo, i, e, b, u)
          /\ must => Ready(e) \/ (\E p \in DOMAIN net[e] : Marked(e, p)) \/ (\E p \in 1 .. i : todo[p] = Mark(e))
    BY <1>4 DEF ToStore
  <2>2. (\E p \in DOMAIN net[e] : Marked(e, p)) => Ready(e)' \/ \E p \in DOMAIN net'[e] : Marked(e, p)'
    BY <1>3 DEF Marked
  <2>3. must => \/ Ready(e)' \/ (\E p \in DOMAIN net'[e] : Marked(e, p)')
                \/ (\E p \in 1 .. i : todo[p] = Mark(e))
    BY <1>2, <2>1, <2>2
  <2>4. ToStore(e, b, u, must)'
    BY <1>1, <2>1, <2>3 DEF ToStore
  <2>5. QED
    BY <2>4 DEF Final
<1>5. CASE ~StoredIn(todo, e, b) /\ Stored(e, b, u, must)
  <2>1. ~StoredIn(todo, e, b)'
    BY <1>1, <1>5
  <2>2. PICK i \in DOMAIN net[e] :
          /\ net[e][i] = Packet(b, u) /\ \A j \in DOMAIN net[e] : j > i => net[e][j].at # b
          /\ must => Ready(e) \/ (\E p \in 1 .. i : Marked(e, p))
    BY <1>5 DEF Stored
  <2>3. CASE c # e
    <3>1. net'[e] = net[e]
      BY <2>3 DEF Delivers
    <3>2. must => Ready(e)' \/ (\E p \in 1 .. i : Marked(e, p)')
      BY <1>2, <1>3, <2>2, <2>3
    <3>3. Stored(e, b, u, must)'
      BY <2>2, <3>1, <3>2 DEF Stored
    <3>4. QED
      BY <2>1, <3>3 DEF Final
  <2>4. CASE c = e /\ i # 1
    <3>0. PICK k : k = i - 1
      OBVIOUS
    <3>1. k \in DOMAIN net'[e] /\ net'[e][k] = Packet(b, u) /\ i \in Nat
      BY <2>2, <2>4, <3>0 DEF Delivers
    <3>2. ASSUME NEW j \in DOMAIN net'[e], j > k PROVE net'[e][j].at # b
      <4>1. j + 1 \in DOMAIN net[e] /\ net'[e][j] = net[e][j + 1] /\ j \in Nat
        <5>1. j \in DOMAIN net'[c]
          BY <2>4
        <5>2. j + 1 \in DOMAIN net[c] /\ net'[c][j] = net[c][j + 1]
          BY <5>1 DEF Delivers
        <5>3. j \in Nat
          BY <5>1 DEF Delivers
        <5>4. QED
          BY <2>4, <5>2, <5>3
      <4>2. j + 1 > i
        BY <3>0, <3>1, <3>2, <4>1
      <4>3. QED
        BY <2>2, <4>1, <4>2
    <3>3. must => Ready(e)' \/ (\E p \in 1 .. k : Marked(e, p)')
      <4>1. CASE must /\ Ready(e)
        BY <1>2, <4>1
      <4>2. CASE must /\ \E p \in 1 .. i : Marked(e, p)
        <5>1. PICK p \in 1 .. i : Marked(e, p)
          BY <4>2
        <5>2. Ready(e)' \/ \E q : Marked(e, q)' /\ q = p - 1
          BY <1>3, <2>4, <5>1
        <5>3. ASSUME NEW q, Marked(e, q)', q = p - 1 PROVE q \in 1 .. k
          <6>1. q \in DOMAIN net'[e]
            BY <5>3 DEF Marked
          <6>2. q \in Nat /\ q >= 1
            BY <2>4, <6>1 DEF Delivers
          <6>3. QED
            BY <3>0, <3>1, <5>1, <5>3, <6>2
        <5>4. QED
          BY <5>2, <5>3
      <4>3. QED
        BY <2>2, <4>1, <4>2
    <3>4. Stored(e, b, u, must)'
      BY <3>1, <3>2, <3>3 DEF Stored
    <3>5. QED
      BY <2>1, <3>4 DEF Final
  <2>5. CASE c = e /\ i = 1
    <3>1. a = b /\ v = u
      BY <2>2, <2>5, PacketFields DEF Delivers
    <3>2. ~SentTo(e, b)'
      <4>1. ASSUME NEW j \in DOMAIN net'[e] PROVE net'[e][j].at # b
        <5>1. j + 1 \in DOMAIN net[e] /\ net'[e][j] = net[e][j + 1] /\ j \in Nat /\ j >= 1
          BY <2>5 DEF Delivers
        <5>2. QED
          BY <2>2, <2>5, <5>1
      <4>2. QED
        BY <4>1 DEF SentTo
    <3>3. must => Ready(e)'
      <4>1. must => Ready(e) \/ Marked(e, 1)
        BY <2>2, <2>5
      <4>2. QED
        BY <1>2, <2>5, <4>1, ReadyDelivered
    <3>4. mem'[e][b] = u
      <4>1. CASE e # Dram
        BY <2>5, <3>1, <4>1 DEF Delivers
      <4>2. CASE e = Dram /\ Ready(Dram)
        BY <2>5, <3>1, <4>2 DEF Delivers
      <4>3. CASE e = Dram /\ Marked(e, 1)
        <5>1. b = Tags
          BY <2>2, <2>5, <4>3, PacketFields DEF Marked, MarkCell
        <5>2. QED
          BY <2>5, <3>1, <5>1 DEF Delivers
      <4>4. must => Ready(e) \/ Marked(e, 1)
        BY <2>2, <2>5
      <4>5. QED
        BY <4>1, <4>2, <4>3, <4>4
    <3>5. QED
      BY <2>1, <3>2, <3>3, <3>4 DEF Final, Pending
  <2>6. QED
    BY <2>3, <2>4, <2>5
<1>6. CASE ~Pending(e, b) /\ mem[e][b] = u /\ (must => Ready(e))
  <2>1. Settled(e, b, u)'
    BY <1>6, SettledDelivered DEF Settled
  <2>2. QED
    BY <1>2, <1>6, <2>1 DEF Settled, Final
<1>7. QED
  BY <1>4, <1>5, <1>6 DEF Final

\* Steps of the manycore that move no store.
LEMMA FinalQuiet ==
  ASSUME UNCHANGED <<todo, net>>, NEW e, NEW b, NEW u, NEW must \in BOOLEAN,
         Final(e, b, u, must), Ready(e) => Ready(e)', (must => Ready(e)) => mem'[e][b] = mem[e][b]
  PROVE  Final(e, b, u, must)'
<1>1. \A p : Marked(e, p) => Marked(e, p)'
  BY DEF Marked
<1>2. CASE ToStore(e, b, u, must)
  <2>1. ToStore(e, b, u, must)'
    BY <1>1, <1>2 DEF ToStore
  <2>2. QED
    BY <2>1 DEF Final
<1>3. CASE ~StoredIn(todo, e, b) /\ Stored(e, b, u, must)
  <2>1. Stored(e, b, u, must)' /\ ~StoredIn(todo, e, b)'
    BY <1>1, <1>3 DEF Stored
  <2>2. QED
    BY <2>1 DEF Final
<1>4. CASE ~Pending(e, b) /\ mem[e][b] = u /\ (must => Ready(e))
  <2>1. ~Pending(e, b)' /\ mem'[e][b] = u
    BY <1>4 DEF Pending, SentTo
  <2>2. QED
    BY <1>4, <2>1 DEF Final
<1>5. QED
  BY <1>2, <1>3, <1>4 DEF Final

LEMMA SettledQuiet ==
  ASSUME NEW e, NEW b, NEW u, Settled(e, b, u), UNCHANGED net,
         StoredIn(todo, e, b)' => StoredIn(todo, e, b), mem'[e][b] = mem[e][b]
  PROVE  Settled(e, b, u)'
<1>1. ~StoredIn(todo, e, b) /\ ~SentTo(e, b) /\ mem[e][b] = u
  BY DEF Settled, Pending
<1>2. ~StoredIn(todo, e, b)' /\ ~SentTo(e, b)' /\ mem'[e][b] = u
  BY <1>1 DEF SentTo
<1>3. QED
  BY <1>2 DEF Settled, Pending

------------------------------------------------------------------------------
(* Types are kept.                                                          *)

LEMMA ImageOf ==
  ASSUME Types
  PROVE  /\ Program \in Nat /\ DOMAIN images = 1 .. Program /\ DOMAIN Images = 1 .. MaxPrograms
         /\ MaxPrograms \in Nat
         /\ \A p \in 1 .. Program : p \in DOMAIN Images /\ images[p] \in Images[p]
         /\ Program >= 1 => Program \in DOMAIN Images /\ Image \in Images[Program]
<1>1. MaxPrograms \in Nat /\ DOMAIN Images = 1 .. MaxPrograms
  BY ImagesAssumption DEF MaxPrograms
<1>2. images \in Seq(Binaries) /\ Program <= MaxPrograms /\ \A p \in 1 .. Program : images[p] \in Images[p]
  BY DEF Types, HostTypes
<1>3. Program \in Nat /\ DOMAIN images = 1 .. Program
  BY <1>2, ElementsOf DEF Program
<1>4. \A p \in 1 .. Program : p \in DOMAIN Images /\ images[p] \in Images[p]
  BY <1>1, <1>2, <1>3
<1>5. QED
  BY <1>1, <1>3, <1>4 DEF Image

\* What is a function's script and what it leaves alone.
Loads(img) ==
  /\ call = "idle" /\ ~loaded /\ call' = "load" /\ Program \in Nat /\ Program' = Program + 1
  /\ Program + 1 \in DOMAIN Images /\ img \in Images[Program + 1] /\ Image' = img
  /\ images' \in Seq(Binaries) /\ \A p \in 1 .. Program : images'[p] = images[p]
  /\ images'[Program + 1] = img
  /\ todo' = ProgramLoadScript(img, Program + 1).steps
  /\ ok' = ProgramLoadScript(img, Program + 1).ok
  /\ UNCHANGED <<loaded, launches, crashes, net, mem, tileVars, fin, dramOn>>

LEMMA LoadsOf ==
  ASSUME Types, NEW img, BeginLoad(img)
  PROVE  Loads(img)
<1> DEFINE s == images
           u == Append(s, img)
<1>1. /\ call = "idle" /\ ~loaded /\ Program < MaxPrograms /\ img \in Images[Program + 1]
      /\ images' = u
      /\ call' = "load" /\ todo' = ProgramLoadScript(img, Program + 1).steps
      /\ ok' = ProgramLoadScript(img, Program + 1).ok
      /\ UNCHANGED <<loaded, launches, crashes, net, mem, tileVars, fin, dramOn>>
  BY DEF BeginLoad, Start
<1>2. Program \in Nat /\ DOMAIN Images = 1 .. MaxPrograms /\ MaxPrograms \in Nat
  BY ImageOf
<1>3. Program + 1 \in DOMAIN Images
  BY <1>1, <1>2
<1>4. img \in Binaries
  <2>1. Images[Program + 1] \in Range(Images)
    BY <1>3 DEF Range
  <2>2. Images[Program + 1] \in SUBSET UNION Range(Images)
    BY <1>3, ImagesAssumption, ElementsOf
  <2>3. QED
    BY <1>1, <2>2 DEF Binaries
<1>5. s \in Seq(Binaries) /\ Program = Len(s)
  BY DEF Types, HostTypes, Program
<1> HIDE DEF s
<1>6. /\ u \in Seq(Binaries) /\ DOMAIN u = 1 .. Len(s) + 1
      /\ \A i \in 1 .. Len(s) : u[i] = s[i]
      /\ u[Len(s) + 1] = img
  BY <1>4, <1>5, AppendOf
<1> HIDE DEF u
<1>7. Len(u) = Len(s) + 1
  BY <1>2, <1>5, <1>6, ElementsOf
<1>8. Program' = Program + 1
  BY <1>1, <1>5, <1>7 DEF Program
<1>9. Image' = img
  BY <1>1, <1>5, <1>6, <1>8 DEF Image
<1>10. \A p \in 1 .. Program : images'[p] = images[p]
  BY <1>1, <1>5, <1>6 DEF s
<1>11. QED
  BY <1>1, <1>2, <1>3, <1>5, <1>6, <1>8, <1>9, <1>10 DEF Loads

Places(group, known, slot, n) ==
  /\ call = "idle" /\ loaded /\ call' = "launch" /\ group \in Groups /\ group \cap Busy = {}
  /\ Len(launches) \in Nat /\ n = Len(launches) + 1 /\ n <= MaxLaunches
  /\ slot \in 1 .. MaxLaunches /\ slot \notin Slots /\ launches' \in Seq(Launches)
  /\ DOMAIN launches = 1 .. n - 1 /\ DOMAIN launches' = 1 .. n /\ Len(launches') = n
  /\ \A m \in 1 .. n - 1 : launches'[m] = launches[m]
  /\ launches'[n] = [tiles |-> group, slot |-> slot, program |-> Program, status |-> "allocated"]
  /\ todo' = LaunchScript(Image, group, n, slot, known).steps
  /\ ok' = LaunchScript(Image, group, n, slot, known).ok
  /\ UNCHANGED <<loaded, images, crashes, net, mem, tileVars, fin, dramOn>>

\* There are fewer tile groups than pieces of the heap.
LEMMA SlotFree ==
  ASSUME Types, Len(launches) < MaxLaunches
  PROVE  Least((1 .. MaxLaunches) \ Slots) \in (1 .. MaxLaunches) \ Slots
<1>1. launches \in Seq(Launches) /\ Len(launches) \in Nat /\ DOMAIN launches = 1 .. Len(launches)
      /\ \A n \in DOMAIN launches : launches[n] \in Launches
  <2>1. launches \in Seq(Launches)
    BY DEF Types, HostTypes
  <2>2. QED
    BY <2>1, ElementsOf
<1>2. Held \subseteq 1 .. Len(launches)
  BY <1>1 DEF Held
<1>3. IsFiniteSet(1 .. Len(launches)) /\ Cardinality(1 .. Len(launches)) = Len(launches)
  BY <1>1, FS_Interval
<1>4. IsFiniteSet(Held) /\ Cardinality(Held) <= Len(launches)
  BY <1>2, <1>3, FS_Subset
<1>5. Slots = {launches[n].slot : n \in Held}
  BY DEF Slots, Held
<1>6. IsFiniteSet(Slots) /\ Cardinality(Slots) <= Cardinality(Held)
  <2> DEFINE f == [n \in Held |-> launches[n].slot]
  <2>1. f \in Surjection(Held, Slots)
    BY <1>5 DEF Surjection
  <2>2. QED
    BY <1>4, <2>1, FS_Surjection
<1>7. IsFiniteSet(1 .. MaxLaunches) /\ Cardinality(1 .. MaxLaunches) = MaxLaunches /\ MaxLaunches \in Nat
  BY BoundsAssumption, FS_Interval
<1>8. (1 .. MaxLaunches) \ Slots # {}
  <2>1. SUFFICES ASSUME (1 .. MaxLaunches) \subseteq Slots PROVE FALSE
    OBVIOUS
  <2>2. Cardinality(1 .. MaxLaunches) <= Cardinality(Slots)
    BY <1>6, <2>1, FS_Subset
  <2>3. Cardinality(Slots) \in Nat /\ Cardinality(Held) \in Nat
    BY <1>4, <1>6, FS_CardinalityType
  <2>4. QED
    BY <1>1, <1>4, <1>6, <1>7, <2>2, <2>3
<1>9. QED
  <2> DEFINE S == (1 .. MaxLaunches) \ Slots
  <2>1. S \in SUBSET Nat /\ S # {}
    BY <1>7, <1>8
  <2> HIDE DEF S
  <2>2. \E i \in S : \A j \in S : i <= j
    BY <2>1, LeastExists
  <2>3. Least(S) \in S
    BY <2>2 DEF Least
  <2>4. QED
    BY <2>3 DEF S

LEMMA PlacesOfLaunch ==
  ASSUME Types, NEW group \in Groups, NEW known \in BOOLEAN, BeginLaunch(group, known)
  PROVE  \E slot \in 1 .. MaxLaunches, n \in Nat : Places(group, known, slot, n)
<1> DEFINE slot == Least((1 .. MaxLaunches) \ Slots)
           s == launches
           n == Len(s) + 1
           x == [tiles |-> group, slot |-> slot, program |-> Program, status |-> "allocated"]
           u == Append(s, x)
<1>1. /\ call = "idle" /\ loaded /\ Len(launches) < MaxLaunches /\ group \cap Busy = {}
      /\ launches' = u
      /\ call' = "launch" /\ todo' = LaunchScript(Image, group, n, slot, known).steps
      /\ ok' = LaunchScript(Image, group, n, slot, known).ok
      /\ UNCHANGED <<loaded, images, crashes, net, mem, tileVars, fin, dramOn>>
  BY DEF BeginLaunch, Start
<1>2. slot \in 1 .. MaxLaunches /\ slot \notin Slots
  BY <1>1, SlotFree
<1>3. Program \in 1 .. MaxPrograms
  <2>1. Program >= 1
    BY <1>1 DEF Types, CallInv
  <2>2. QED
    BY <2>1, ImageOf
<1> HIDE DEF slot
<1>4. x \in Launches
  BY <1>2, <1>3 DEF Launches
<1> HIDE DEF x
<1>5. s \in Seq(Launches)
  BY DEF Types, HostTypes
<1>6. launches = s
  OBVIOUS
<1> HIDE DEF s
<1>7. /\ u \in Seq(Launches) /\ DOMAIN u = 1 .. Len(s) + 1 /\ Len(s) \in Nat /\ DOMAIN s = 1 .. Len(s)
      /\ \A i \in 1 .. Len(s) : u[i] = s[i]
      /\ u[Len(s) + 1] = x
  BY <1>4, <1>5, AppendOf
<1> HIDE DEF u
<1>8. Len(u) = Len(s) + 1
  BY <1>7, ElementsOf
<1>9. PICK m : m = n
  OBVIOUS
<1>10. m \in Nat /\ m - 1 = Len(s) /\ m <= MaxLaunches
  BY <1>1, <1>6, <1>7, <1>9, BoundsAssumption
<1> HIDE DEF n
<1>11. DOMAIN launches = 1 .. m - 1 /\ DOMAIN launches' = 1 .. m /\ Len(launches') = m /\ m = Len(launches) + 1
       /\ launches' \in Seq(Launches) /\ Len(launches) \in Nat
  BY <1>1, <1>6, <1>7, <1>8, <1>9, <1>10 DEF n
<1>12. launches'[m] = x /\ \A k \in 1 .. m - 1 : launches'[k] = launches[k]
  BY <1>1, <1>6, <1>7, <1>9, <1>10 DEF n
<1>13. Places(group, known, slot, m)
  BY <1>1, <1>2, <1>9, <1>10, <1>11, <1>12 DEF Places, x
<1>14. QED
  BY <1>2, <1>9, <1>10, <1>13

\* Only the status of tile groups changes.
SameGroups(ls) ==
  /\ ls \in Seq(Launches) /\ DOMAIN ls = DOMAIN launches /\ Len(ls) = Len(launches)
  /\ \A n \in DOMAIN launches : /\ ls[n].tiles = launches[n].tiles /\ ls[n].slot = launches[n].slot
                                /\ ls[n].program = launches[n].program

LEMMA LaunchesOf ==
  ASSUME Types
  PROVE  /\ launches \in Seq(Launches) /\ Len(launches) \in Nat /\ Len(launches) <= MaxLaunches
         /\ DOMAIN launches = 1 .. Len(launches) /\ MaxLaunches \in Nat
         /\ \A n \in DOMAIN launches :
              /\ launches[n] \in Launches /\ launches[n].tiles \in Groups
              /\ launches[n].tiles \subseteq Tiles
              /\ launches[n].slot \in 1 .. MaxLaunches /\ launches[n].program <= Program
              /\ launches[n].program \in 1 .. MaxPrograms
              /\ launches[n].status \in {"allocated", "launched", "finished"}
<1>1. launches \in Seq(Launches) /\ Len(launches) <= MaxLaunches
      /\ \A n \in DOMAIN launches : launches[n].program <= Program
  BY DEF Types, HostTypes
<1>2. Len(launches) \in Nat /\ DOMAIN launches = 1 .. Len(launches)
      /\ \A n \in DOMAIN launches : launches[n] \in Launches
  BY <1>1, ElementsOf
<1>3. \A x \in Launches : /\ x.tiles \in Groups /\ x.tiles \subseteq Tiles /\ x.slot \in 1 .. MaxLaunches
                          /\ x.program \in 1 .. MaxPrograms
                          /\ x.status \in {"allocated", "launched", "finished"}
  BY GroupsAssumption DEF Launches
<1>4. QED
  BY <1>1, <1>2, <1>3, BoundsAssumption

LEMMA StatusOf ==
  ASSUME Types, NEW n \in DOMAIN launches, NEW st \in {"allocated", "launched", "finished"},
         NEW ls, ls = [launches EXCEPT ![n].status = st]
  PROVE  SameGroups(ls) /\ ls[n].status = st /\ \A m \in DOMAIN launches : m # n => ls[m] = launches[m]
<1>1. launches \in Seq(Launches) /\ Len(launches) \in Nat /\ DOMAIN launches = 1 .. Len(launches)
      /\ \A m \in DOMAIN launches : launches[m] \in Launches
  BY LaunchesOf
<1> DEFINE x == [launches[n] EXCEPT !.status = st]
<1>2. ls = [launches EXCEPT ![n] = x]
  BY <1>1
<1>3. x \in Launches /\ x.tiles = launches[n].tiles /\ x.slot = launches[n].slot
      /\ x.program = launches[n].program /\ x.status = st
  BY <1>1 DEF Launches
<1> HIDE DEF x
<1>4. DOMAIN ls = 1 .. Len(launches) /\ ls[n] = x /\ \A m \in DOMAIN launches : m # n => ls[m] = launches[m]
  BY <1>1, <1>2
<1>5. ls \in [1 .. Len(launches) -> Launches]
  BY <1>1, <1>2, <1>3
<1>6. ls \in Seq(Launches) /\ Len(ls) = Len(launches)
  BY <1>1, <1>5
<1>7. QED
  BY <1>1, <1>3, <1>4, <1>6 DEF SameGroups

LEMMA FinishedOf ==
  ASSUME Types, NEW ls, ls = [n \in DOMAIN launches |-> [launches[n] EXCEPT !.status = "finished"]]
  PROVE  SameGroups(ls) /\ \A n \in DOMAIN launches : ls[n].status = "finished"
<1>1. launches \in Seq(Launches) /\ Len(launches) \in Nat /\ DOMAIN launches = 1 .. Len(launches)
      /\ \A m \in DOMAIN launches : launches[m] \in Launches
  BY LaunchesOf
<1>2. ASSUME NEW x \in Launches
      PROVE  LET y == [x EXCEPT !.status = "finished"]
             IN y \in Launches /\ y.tiles = x.tiles /\ y.slot = x.slot /\ y.program = x.program
                /\ y.status = "finished"
  BY DEF Launches
<1>3. \A m \in DOMAIN launches : /\ ls[m] \in Launches /\ ls[m].tiles = launches[m].tiles
        /\ ls[m].slot = launches[m].slot /\ ls[m].program = launches[m].program /\ ls[m].status = "finished"
  BY <1>1, <1>2
<1>4. ls \in [1 .. Len(launches) -> Launches] /\ DOMAIN ls = 1 .. Len(launches)
  BY <1>1, <1>3
<1>5. ls \in Seq(Launches) /\ Len(ls) = Len(launches)
  BY <1>1, <1>4
<1>6. QED
  BY <1>1, <1>3, <1>4, <1>5 DEF SameGroups

\* What the end of a call does.
Returns ==
  /\ call # "idle" /\ todo = <<>> /\ call' = "idle" /\ SameGroups(launches')
  /\ loaded' = (CASE call = "load" -> ok [] call = "finish" -> FALSE [] OTHER -> loaded)
  /\ \A n \in DOMAIN launches :
       \/ launches'[n].status = launches[n].status
       \/ call = "launch" /\ ok /\ n = Len(launches) /\ launches'[n].status = "launched"
       \/ call = "finish" /\ launches'[n].status = "finished"
  /\ UNCHANGED <<todo, ok, images, crashes, net, mem, tileVars, fin, dramOn>>

LEMMA ReturnsOf ==
  ASSUME Types, Return, call = "launch" => Len(launches) \in DOMAIN launches
  PROVE  Returns
<1>1. /\ call # "idle" /\ todo = <<>> /\ call' = "idle"
      /\ loaded' = (CASE call = "load" -> ok [] call = "finish" -> FALSE [] OTHER -> loaded)
      /\ UNCHANGED <<todo, ok, images, crashes, net, mem, tileVars, fin, dramOn>>
      /\ launches' = IF call = "launch" /\ ok
                       THEN [launches EXCEPT ![Len(launches)].status = "launched"]
                     ELSE IF call = "finish"
                       THEN [n \in DOMAIN launches |-> [launches[n] EXCEPT !.status = "finished"]]
                     ELSE launches
  BY DEF Return
<1>2. CASE call = "launch" /\ ok
  <2>1. launches' = [launches EXCEPT ![Len(launches)].status = "launched"]
    BY <1>1, <1>2
  <2>2. SameGroups(launches') /\ launches'[Len(launches)].status = "launched"
        /\ \A m \in DOMAIN launches : m # Len(launches) => launches'[m] = launches[m]
    BY <1>2, <2>1, StatusOf
  <2>3. QED
    BY <1>1, <1>2, <2>2 DEF Returns
<1>3. CASE call = "finish"
  <2>1. SameGroups(launches') /\ \A n \in DOMAIN launches : launches'[n].status = "finished"
    BY <1>1, <1>3, FinishedOf
  <2>2. QED
    BY <1>1, <1>3, <2>1 DEF Returns
<1>4. CASE ~(call = "launch" /\ ok) /\ call # "finish"
  <2>1. launches' = launches
    BY <1>1, <1>4
  <2>2. SameGroups(launches')
    BY <2>1, LaunchesOf DEF SameGroups
  <2>3. QED
    BY <1>1, <2>1, <2>2 DEF Returns
<1>5. QED
  BY <1>2, <1>3, <1>4

LEMMA SameGroupsTypes ==
  ASSUME Types, NEW ls, SameGroups(ls)
  PROVE  /\ ls \in Seq(Launches) /\ Len(ls) <= MaxLaunches
         /\ \A n \in DOMAIN ls : ls[n].program <= Program
BY DEF SameGroups, Types, HostTypes

LEMMA TypesLoads ==
  ASSUME Types, NEW img, Loads(img)
  PROVE  Types'
<1>1. HostTypes /\ ManycoreTypes /\ CallInv
  BY DEF Types
<1>2. todo' \in Seq(Steps) /\ ok' \in BOOLEAN
  <2>1. dramOn \in BOOLEAN
    BY <1>1 DEF HostTypes
  <2>2. ProgramLoadScript(img, Program + 1) \in Scripts(Steps)
    BY <2>1, LoadScriptOf DEF Loads
  <2>3. QED
    BY <2>2 DEF Loads, Scripts
<1>3. Program' \in Nat /\ Program' <= MaxPrograms /\ Program' >= 1
  <2>1. Program + 1 <= MaxPrograms
    BY ImageOf DEF Loads
  <2>2. QED
    BY <2>1 DEF Loads
<1>4. \A p \in 1 .. Program' : images'[p] \in Images[p]
  <2>1. \A p \in 1 .. Program : images'[p] \in Images[p]
    BY <1>1 DEF HostTypes, Loads
  <2>2. QED
    BY <2>1 DEF Loads
<1>5. HostTypes'
  <2>1. \A n \in DOMAIN launches' : launches'[n].program <= Program'
    <3>1. \A n \in DOMAIN launches : launches[n].program <= Program /\ launches[n].program \in Nat
      BY LaunchesOf
    <3>2. QED
      BY <3>1 DEF Loads
  <2>2. QED
    BY <1>1, <1>2, <1>3, <1>4, <2>1 DEF HostTypes, Loads
<1>6. ManycoreTypes'
  BY <1>1 DEF ManycoreTypes, Loads, tileVars
<1>7. CallInv'
  <2>1. \A t \in Tiles : runs'[t] <= Program' /\ (run'[t] # "off" => runs'[t] >= 1)
    <3>1. \A t \in Tiles : runs[t] \in Nat
      BY <1>1 DEF ManycoreTypes
    <3>2. QED
      BY <1>1, <3>1 DEF CallInv, Loads, tileVars
  <2>2. QED
    BY <1>3, <2>1 DEF CallInv, Loads
<1>8. QED
  BY <1>5, <1>6, <1>7 DEF Types

LEMMA TypesPlaces ==
  ASSUME Types, NEW group, NEW known \in BOOLEAN, NEW slot \in 1 .. MaxLaunches, NEW n \in Nat, Places(group, known, slot, n)
  PROVE  Types'
<1>1. HostTypes /\ ManycoreTypes /\ CallInv
  BY DEF Types
<1>2. Program \in 1 .. MaxPrograms /\ Program \in DOMAIN Images /\ Image \in Images[Program]
  <2>1. Program >= 1
    BY <1>1 DEF CallInv, Places
  <2>2. QED
    BY <2>1, ImageOf
<1>3. todo' \in Seq(Steps) /\ ok' \in BOOLEAN
  <2>1. LaunchScript(Image, group, n, slot, known) \in Scripts(Steps)
    BY <1>2, LaunchScriptOf DEF Places
  <2>2. QED
    BY <2>1 DEF Places, Scripts
<1>4. images' = images /\ Program' = Program
  BY DEF Places, Program
<1>5. \A m \in DOMAIN launches' : launches'[m].program <= Program'
  <2>1. \A m \in DOMAIN launches : launches[m].program <= Program
    BY LaunchesOf
  <2>2. launches'[n].program = Program
    BY DEF Places
  <2>3. \A m \in DOMAIN launches' : m = n \/ (m \in DOMAIN launches /\ launches'[m] = launches[m])
    BY DEF Places
  <2>4. QED
    BY <1>2, <1>4, <2>1, <2>2, <2>3
<1>6. fin' \subseteq DOMAIN launches'
  BY <1>1 DEF HostTypes, Places
<1>7. HostTypes'
  BY <1>1, <1>3, <1>4, <1>5, <1>6 DEF HostTypes, Places
<1>8. ManycoreTypes'
  BY <1>1 DEF ManycoreTypes, Places, tileVars
<1>9. CallInv'
  BY <1>1, <1>4 DEF CallInv, Places, tileVars
<1>10. QED
  BY <1>7, <1>8, <1>9 DEF Types

LEMMA TypesReturns ==
  ASSUME Types, Returns
  PROVE  Types'
<1>1. HostTypes /\ ManycoreTypes /\ CallInv
  BY DEF Types
<1>2. images' = images /\ Program' = Program /\ DOMAIN launches' = DOMAIN launches
  BY DEF Returns, Program, SameGroups
<1>3. launches' \in Seq(Launches) /\ Len(launches') <= MaxLaunches
      /\ \A n \in DOMAIN launches' : launches'[n].program <= Program'
  BY <1>2, SameGroupsTypes DEF Returns
<1>4. loaded' \in BOOLEAN
  BY <1>1 DEF HostTypes, Returns
<1>5. HostTypes'
  BY <1>1, <1>2, <1>3, <1>4 DEF HostTypes, Returns
<1>6. ManycoreTypes'
  BY <1>1 DEF ManycoreTypes, Returns, tileVars
<1>7. loaded' => Program' >= 1
  BY <1>1, <1>2 DEF CallInv, Returns, HostTypes
<1>8. CallInv'
  BY <1>1, <1>2, <1>7 DEF CallInv, Returns, tileVars
<1>9. QED
  BY <1>5, <1>6, <1>8 DEF Types

LEMMA TypesBeginFinish ==
  ASSUME Types, BeginFinish
  PROVE  Types'
<1>1. HostTypes /\ ManycoreTypes /\ CallInv
  BY DEF Types
<1>2. /\ loaded /\ call' = "finish" /\ todo' = FinishScript.steps /\ ok' = FinishScript.ok
      /\ UNCHANGED <<loaded, images, launches, crashes, net, mem, tileVars, fin, dramOn>>
  BY DEF BeginFinish, Start
<1>3. todo' \in Seq(Steps) /\ ok' \in BOOLEAN
  BY <1>2, FinishScriptOf DEF Scripts
<1>4. Program' = Program
  BY <1>2 DEF Program
<1>5. HostTypes'
  BY <1>1, <1>2, <1>3, <1>4 DEF HostTypes
<1>6. ManycoreTypes'
  BY <1>1, <1>2 DEF ManycoreTypes, tileVars
<1>7. CallInv'
  BY <1>1, <1>2, <1>4 DEF CallInv, tileVars
<1>8. QED
  BY <1>5, <1>6, <1>7 DEF Types

LEMMA TypesCrash ==
  ASSUME Types, Crash
  PROVE  Types'
<1>1. HostTypes /\ ManycoreTypes /\ CallInv
  BY DEF Types
<1>2. /\ crashes' = crashes + 1 /\ call' = "idle" /\ todo' = <<>> /\ ok' = TRUE /\ loaded' = FALSE
      /\ launches' = [n \in DOMAIN launches |-> [launches[n] EXCEPT !.status = "finished"]]
      /\ fin' = {} /\ UNCHANGED <<images, net, mem, tileVars, dramOn>>
  BY DEF Crash
<1>3. Program' = Program
  BY <1>2 DEF Program
<1>4. launches' \in Seq(Launches) /\ Len(launches') <= MaxLaunches
      /\ \A n \in DOMAIN launches' : launches'[n].program <= Program'
  <2>1. SameGroups(launches')
    BY <1>2, FinishedOf
  <2>2. QED
    BY <1>3, <2>1, SameGroupsTypes
<1>5. todo' \in Seq(Steps)
  BY <1>2
<1>6. HostTypes'
  <2>1. call' \in {"idle", "load", "launch", "finish"} /\ ok' \in BOOLEAN /\ loaded' \in BOOLEAN
        /\ fin' \subseteq DOMAIN launches' /\ dramOn' \in BOOLEAN
    <3>1. fin' \subseteq DOMAIN launches'
      BY <1>2
    <3>2. dramOn' \in BOOLEAN
      BY <1>1, <1>2 DEF HostTypes
    <3>3. QED
      BY <1>2, <3>1, <3>2
  <2>2. images' \in Seq(Binaries) /\ Program' <= MaxPrograms /\ \A p \in 1 .. Program' : images'[p] \in Images[p]
    BY <1>1, <1>2, <1>3 DEF HostTypes
  <2>3. crashes' \in Nat
    <3>1. crashes \in Nat
      BY <1>1 DEF HostTypes
    <3>2. QED
      BY <1>2, <3>1
  <2>4. QED
    BY <1>4, <1>5, <2>1, <2>2, <2>3 DEF HostTypes
<1>7. ManycoreTypes'
  BY <1>1, <1>2 DEF ManycoreTypes, tileVars
<1>8. CallInv'
  BY <1>1, <1>2, <1>3 DEF CallInv, tileVars
<1>9. QED
  BY <1>6, <1>7, <1>8 DEF Types

\* A finish packet is taken.
Finished(n) ==
  /\ call = "idle" /\ n \in fin /\ fin' = fin \ {n} /\ SameGroups(launches')
  /\ \A m \in DOMAIN launches : m # n => launches'[m] = launches[m]
  /\ launches'[n].status # "launched"
  /\ launches'[n].status = launches[n].status \/ launches'[n].status = "finished"
  /\ UNCHANGED <<call, todo, ok, loaded, images, crashes, net, mem, tileVars, dramOn>>

LEMMA FinishedAs ==
  ASSUME Types, NEW n, HandleFinish(n)
  PROVE  Finished(n)
<1>1. /\ call = "idle" /\ n \in fin /\ fin' = fin \ {n}
      /\ launches' = IF launches[n].status = "launched"
                       THEN [launches EXCEPT ![n].status = "finished"] ELSE launches
      /\ UNCHANGED <<call, todo, ok, loaded, images, crashes, net, mem, tileVars, dramOn>>
  BY DEF HandleFinish
<1>2. n \in DOMAIN launches
  BY <1>1 DEF Types, HostTypes
<1>3. CASE launches[n].status = "launched"
  <2>1. launches' = [launches EXCEPT ![n].status = "finished"]
    BY <1>1, <1>3
  <2>2. SameGroups(launches') /\ launches'[n].status = "finished"
        /\ \A m \in DOMAIN launches : m # n => launches'[m] = launches[m]
    BY <1>2, <2>1, StatusOf
  <2>3. QED
    BY <1>1, <2>2 DEF Finished
<1>4. CASE launches[n].status # "launched"
  <2>1. launches' = launches
    BY <1>1, <1>4
  <2>2. SameGroups(launches')
    BY <2>1, LaunchesOf DEF SameGroups
  <2>3. QED
    BY <1>1, <1>4, <2>1, <2>2 DEF Finished
<1>5. QED
  BY <1>3, <1>4

LEMMA TypesFinished ==
  ASSUME Types, NEW n, Finished(n)
  PROVE  Types'
<1>1. HostTypes /\ ManycoreTypes /\ CallInv
  BY DEF Types
<1>2. images' = images /\ Program' = Program /\ DOMAIN launches' = DOMAIN launches
  BY DEF Finished, Program, SameGroups
<1>3. launches' \in Seq(Launches) /\ Len(launches') <= MaxLaunches
      /\ \A m \in DOMAIN launches' : launches'[m].program <= Program'
  BY <1>2, SameGroupsTypes DEF Finished
<1>4. HostTypes'
  BY <1>1, <1>2, <1>3 DEF HostTypes, Finished
<1>5. ManycoreTypes'
  BY <1>1 DEF ManycoreTypes, Finished, tileVars
<1>6. CallInv'
  BY <1>1, <1>2 DEF CallInv, Finished, tileVars
<1>7. QED
  BY <1>4, <1>5, <1>6 DEF Types


LEMMA TypesHost ==
  ASSUME Types, HostStore \/ HostFence
  PROVE  Types'
<1>1. HostTypes /\ ManycoreTypes /\ CallInv
  BY DEF Types
<1>2. Advances /\ todo # <<>>
  BY HostStoreOf, HostFenceOf DEF Posts, HostStore, HostFence
<1>3. Program' = Program
  BY <1>2 DEF Advances, Program
<1>4. HostTypes'
  BY <1>1, <1>2, <1>3 DEF HostTypes, Advances
<1>5. call # "idle" /\ Program >= 1
  BY <1>1, <1>2 DEF CallInv, HostTypes
<1>6. CallInv'
  BY <1>1, <1>2, <1>3, <1>5 DEF CallInv, Advances, tileVars
<1>7. net' \in [Dests -> Seq([at : AllCells, val : Words])] /\ \A d \in Dests : net'[d] \in Seq(Packets(d))
  <2>1. net \in [Dests -> Seq([at : AllCells, val : Words])] /\ \A d \in Dests : net[d] \in Seq(Packets(d))
    BY <1>1 DEF ManycoreTypes
  <2>2. CASE HostFence
    BY <2>1, <2>2 DEF HostFence
  <2>3. CASE HostStore
    <3>1. PICK d \in Dests : \E a \in Cells(d) : \E v \in Words : Posts(d, a, v)
      BY <2>3, HostStoreOf
    <3>2. PICK a \in Cells(d), v \in Words : Posts(d, a, v)
      BY <3>1
    <3>3. todo[1] = Head(todo) /\ Store(d, a, v) = Head(todo)
      BY <1>1, <1>2, <3>2, Popped DEF Posts, HostStore
    <3>4. net' = [net EXCEPT ![d] = Append(@, Packet(a, v))]
      <4>1. PICK h : h = Head(todo)
        OBVIOUS
      <4>2. h.to = d /\ h.at = a /\ h.val = v
        BY <3>3, <4>1, StoreFields
      <4>3. net' = [net EXCEPT ![h.to] = Append(@, [at |-> h.at, val |-> h.val])]
        BY <2>3, <4>1 DEF HostStore
      <4>4. QED
        BY <4>2, <4>3 DEF Packet
    <3>5. Packet(a, v) \in Packets(d)
      BY <3>2, PacketTypes DEF Posts
    <3>6. Packet(a, v) \in [at : AllCells, val : Words]
      BY <3>5 DEF Packets
    <3>7. Append(net[d], Packet(a, v)) \in Seq([at : AllCells, val : Words])
          /\ Append(net[d], Packet(a, v)) \in Seq(Packets(d))
      BY <2>1, <3>5, <3>6, AppendOf
    <3>8. QED
      BY <2>1, <3>4, <3>7
  <2>4. QED
    BY <2>2, <2>3
<1>8. ManycoreTypes'
  BY <1>1, <1>2, <1>7 DEF ManycoreTypes, Advances, tileVars
<1>9. QED
  BY <1>4, <1>6, <1>8 DEF Types

LEMMA TypesDelivers ==
  ASSUME Types, NEW e \in DOMAIN net, Deliver(e)
  PROVE  Types'
<1>1. HostTypes /\ ManycoreTypes /\ CallInv
  BY DEF Types
<1>2. PICK a \in Cells(e), v \in Words : Delivers(e, a, v)
  BY DeliverOf
<1>3. UNCHANGED <<hostVars, fin, dramOn>> /\ e \in Dests /\ got' = got /\ Program' = Program
  BY <1>2 DEF Delivers, hostVars, Program
<1>4. HostTypes'
  BY <1>1, <1>3 DEF HostTypes, hostVars
<1>5. net \in [Dests -> Seq([at : AllCells, val : Words])] /\ (\A d \in Dests : net[d] \in Seq(Packets(d)))
      /\ DOMAIN mem = Dests /\ (\A d \in Dests : mem[d] \in [Cells(d) -> Words])
      /\ run \in [Tiles -> {"off", "wait", "kernel"}]
      /\ runs \in [Tiles -> 0 .. MaxPrograms] /\ got \in [Tiles -> Nat]
  BY <1>1 DEF ManycoreTypes
<1>6. net' \in [Dests -> Seq([at : AllCells, val : Words])] /\ \A d \in Dests : net'[d] \in Seq(Packets(d))
  <2>1. net' = [net EXCEPT ![e] = Tail(@)] /\ net[e] # <<>>
    BY DEF Deliver
  <2>2. Tail(net[e]) \in Seq([at : AllCells, val : Words]) /\ Tail(net[e]) \in Seq(Packets(e))
    BY <1>3, <1>5, <2>1, TailOf
  <2>3. QED
    BY <1>3, <1>5, <2>1, <2>2
<1>7. DOMAIN mem' = Dests /\ \A d \in Dests : mem'[d] \in [Cells(d) -> Words]
  <2>1. mem' = mem \/ \E b, u : mem' = [mem EXCEPT ![e] = [mem[e] EXCEPT ![b] = u]]
    BY <1>3, <1>5 DEF Deliver
  <2>2. DOMAIN mem' = Dests
    BY <1>5, <2>1
  <2>3. \A d \in Dests : d # e => mem'[d] = mem[d]
    BY <1>2 DEF Delivers
  <2>4. mem'[e] \in [Cells(e) -> Words]
    <3>1. mem[e] \in [Cells(e) -> Words]
      BY <1>3, <1>5
    <3>2. mem'[e] = mem[e] \/ \E b, u : mem'[e] = [mem[e] EXCEPT ![b] = u]
      <4>1. SUFFICES ASSUME NEW b, NEW u, mem' = [mem EXCEPT ![e] = [mem[e] EXCEPT ![b] = u]]
                     PROVE  mem'[e] = [mem[e] EXCEPT ![b] = u]
        BY <2>1
      <4>2. e \in DOMAIN mem
        BY <1>3, <1>5
      <4>3. QED
        BY <4>1, <4>2
    <3>3. DOMAIN mem'[e] = Cells(e) /\ mem'[e] = [b \in Cells(e) |-> mem'[e][b]]
      BY <3>1, <3>2
    <3>4. \A b \in Cells(e) : mem'[e][b] \in Words
      BY <1>2, <3>1 DEF Delivers
    <3>5. QED
      BY <3>3, <3>4
  <2>5. QED
    BY <1>5, <2>2, <2>3, <2>4
<1>8. Program >= 1 /\ Program \in 1 .. MaxPrograms
  <2>1. net[e] # <<>>
    BY DEF Deliver
  <2>2. Program >= 1
    BY <1>1, <1>3, <2>1 , ImageOf DEF CallInv
  <2>3. QED
    BY <2>2, ImageOf, <1>1 DEF HostTypes
<1>9. run' \in [Tiles -> {"off", "wait", "kernel"}] /\ runs' \in [Tiles -> 0 .. MaxPrograms]
  <2>1. a # Csr("freeze") => run' = run /\ runs' = runs
    BY <1>2 DEF Delivers
  <2>2. run' = run \/ run' = [run EXCEPT ![e] = "off"] \/ run' = [run EXCEPT ![e] = IF @ = "off" THEN "wait" ELSE @]
    BY DEF Deliver, tileVars
  <2>3. runs' = runs \/ runs' = [runs EXCEPT ![e] = Program]
    BY DEF Deliver, tileVars
  <2>4. run' \in [Tiles -> {"off", "wait", "kernel"}]
    BY <1>5, <2>2
  <2>5. runs' \in [Tiles -> 0 .. MaxPrograms]
    <3>1. Program \in 0 .. MaxPrograms
      BY <1>8
    <3>2. QED
      BY <1>5, <2>3, <3>1
  <2>6. QED
    BY <2>4, <2>5
<1>10. ManycoreTypes'
  BY <1>3, <1>5, <1>6, <1>7, <1>9 DEF ManycoreTypes
<1>11. \A t \in Tiles : runs'[t] <= Program /\ (run'[t] # "off" => runs'[t] >= 1)
  <2>1. \A t \in Tiles : runs[t] <= Program /\ (run[t] # "off" => runs[t] >= 1)
    BY <1>1 DEF CallInv
  <2>2. CASE a # Csr("freeze")
    BY <1>2, <2>1, <2>2 DEF Delivers
  <2>3. CASE a = Csr("freeze")
    <3>1. e \in Tiles /\ \A t \in Tiles : t # e => run'[t] = run[t] /\ runs'[t] = runs[t]
      BY <1>2, <2>3 DEF Delivers, TilesOnly
    <3>2. runs'[e] <= Program /\ (run'[e] # "off" => runs'[e] >= 1)
      <4>1. CASE v = One
        <5>1. run'[e] = "off" /\ runs'[e] = runs[e]
          BY <1>2, <2>3, <4>1 DEF Delivers
        <5>2. QED
          BY <2>1, <3>1, <5>1
      <4>2. CASE v # One
        <5>1. runs'[e] = Program
          BY <1>2, <2>3, <4>2 DEF Delivers
        <5>2. QED
          BY <1>8, <5>1
      <4>3. QED
        BY <4>1, <4>2
    <3>3. QED
      BY <2>1, <3>1, <3>2
  <2>4. QED
    BY <2>2, <2>3
<1>12. CallInv'
  BY <1>1, <1>3, <1>8, <1>11 DEF CallInv, hostVars
<1>13. QED
  BY <1>4, <1>10, <1>12 DEF Types

\* A tile that runs looks its symbols up in the image it was unfrozen with.
LEMMA RunningImage ==
  ASSUME Types, NEW t \in Tiles, run[t] # "off"
  PROVE  /\ runs[t] \in 1 .. Program /\ images[runs[t]] \in Images[runs[t]] /\ runs[t] \in DOMAIN Images
         /\ \A y \in Symbols : /\ Dmem(images[runs[t]].symbol[y]) \in Cells(t)
                               /\ TileSymbol(t, y) \in Words
                               /\ TileSymbol(t, y) = mem[t][Dmem(images[runs[t]].symbol[y])]
<1>1. runs[t] \in 1 .. Program
  <2>1. runs[t] >= 1 /\ runs[t] <= Program
    BY DEF Types, CallInv
  <2>2. runs[t] \in Nat
    BY DEF Types, ManycoreTypes
  <2>3. QED
    BY <2>1, <2>2, ImageOf
<1>2. images[runs[t]] \in Images[runs[t]] /\ runs[t] \in DOMAIN Images
  BY <1>1, ImageOf
<1>3. PICK p, img : p = runs[t] /\ img = images[runs[t]]
  OBVIOUS
<1>4. \A y \in Symbols : Dmem(img.symbol[y]) \in TileCells
  BY <1>2, <1>3, SymbolsApart
<1>5. t \in Dests /\ Cells(t) = TileCells
  BY NumTiles DEF Dests, Cells
<1>6. mem[t] \in [Cells(t) -> Words]
  BY <1>5 DEF Types, ManycoreTypes
<1>7. QED
  BY <1>1, <1>2, <1>3, <1>4, <1>5, <1>6 DEF TileSymbol

Wakens(t) ==
  /\ run[t] = "wait" /\ TileSymbol(t, "kernel_ptr") # TileSymbol(t, "not_loaded_val")
  /\ run'[t] = "kernel" /\ got'[t] = TileSymbol(t, "kernel_ptr")[2]
  /\ \A u \in Tiles : u # t => run'[u] = run[u] /\ got'[u] = got[u]
  /\ UNCHANGED <<hostVars, net, mem, runs, fin, dramOn>>

LEMMA WakensOf ==
  ASSUME Types, NEW t \in Tiles, StartKernel(t)
  PROVE  Wakens(t)
<1>1. run \in [Tiles -> {"off", "wait", "kernel"}] /\ got \in [Tiles -> Nat]
  BY DEF Types, ManycoreTypes
<1>2. QED
  BY <1>1 DEF StartKernel, Wakens

LEMMA TypesWakens ==
  ASSUME Types, NEW t \in Tiles, StartKernel(t)
  PROVE  Types'
<1>1. HostTypes /\ ManycoreTypes /\ CallInv
  BY DEF Types
<1>2. Wakens(t)
  BY WakensOf
<1>3. TileSymbol(t, "kernel_ptr")[2] \in Nat
  <2>1. TileSymbol(t, "kernel_ptr") \in Words
    BY <1>2, RunningImage DEF Wakens, Symbols
  <2>2. QED
    BY <2>1 DEF Words
<1>4. HostTypes'
  BY <1>1, <1>2 DEF HostTypes, Wakens, hostVars, Program
<1>5. ManycoreTypes'
  <2>1. run' \in [Tiles -> {"off", "wait", "kernel"}]
    BY <1>1 DEF StartKernel, ManycoreTypes
  <2>2. got' \in [Tiles -> Nat]
    BY <1>1, <1>3 DEF StartKernel, ManycoreTypes
  <2>3. QED
    BY <1>1, <1>2, <2>1, <2>2 DEF ManycoreTypes, Wakens
<1>6. \A u \in Tiles : run'[u] # "off" => runs[u] >= 1
  BY <1>1, <1>2 DEF CallInv, Wakens
<1>7. CallInv'
  BY <1>1, <1>2, <1>6 DEF CallInv, Wakens, hostVars, Program
<1>8. QED
  BY <1>4, <1>5, <1>7 DEF Types

\* The cell of a tile's kernel pointer.
PointerCell(t) == Dmem(images[runs[t]].symbol["kernel_ptr"])
Completes(n) ==
  /\ n \in DOMAIN launches /\ n \in Nat
  /\ \A t \in launches[n].tiles : t \in Tiles /\ run[t] = "kernel" /\ got[t] = n /\ run'[t] = "wait"
  /\ \A t \in Tiles : t \notin launches[n].tiles => run'[t] = run[t]
  /\ \A d \in Dests : d \notin launches[n].tiles => mem'[d] = mem[d]
  /\ \A t \in launches[n].tiles :
       /\ PointerCell(t) \in Cells(t) /\ mem'[t][PointerCell(t)] = TileSymbol(t, "not_loaded_val")
       /\ \A b \in Cells(t) : b # PointerCell(t) => mem'[t][b] = mem[t][b]
  /\ fin' = fin \cup {n}
  /\ UNCHANGED <<hostVars, net, runs, got, dramOn>>

LEMMA CompletesOf ==
  ASSUME Types, NEW n, KernelDone(n)
  PROVE  /\ Completes(n) /\ DOMAIN mem' = Dests /\ \A d \in Dests : mem'[d] \in [Cells(d) -> Words]
         /\ run' \in [Tiles -> {"off", "wait", "kernel"}]
<1>1. DOMAIN mem = Dests /\ (\A d \in Dests : mem[d] \in [Cells(d) -> Words])
      /\ run \in [Tiles -> {"off", "wait", "kernel"}]
  BY DEF Types, ManycoreTypes
<1>2. n \in DOMAIN launches /\ launches[n].tiles \subseteq Tiles /\ n \in Nat
  BY LaunchesOf DEF KernelDone
<1> DEFINE T == launches[n].tiles
<1>3. /\ \A t \in T : run[t] = "kernel" /\ got[t] = n
      /\ run' = [t \in Tiles |-> IF t \in T THEN "wait" ELSE run[t]]
      /\ mem' = [d \in DOMAIN mem |->
                   IF d \in T THEN [mem[d] EXCEPT ![PointerCell(d)] = TileSymbol(d, "not_loaded_val")]
                   ELSE mem[d]]
      /\ fin' = fin \cup {n}
      /\ UNCHANGED <<hostVars, net, runs, got, dramOn>>
  BY DEF KernelDone, PointerCell
<1> HIDE DEF T
<1>4. T \subseteq Tiles /\ Tiles \subseteq Dests
  BY <1>2 DEF T, Dests
<1>5. ASSUME NEW t \in T
      PROVE  PointerCell(t) \in Cells(t) /\ TileSymbol(t, "not_loaded_val") \in Words
  BY <1>3, <1>4, <1>5, RunningImage DEF PointerCell, Symbols
<1>6. \A d \in Dests : d \notin T => mem'[d] = mem[d]
  BY <1>1, <1>3
<1>7. ASSUME NEW t \in T
      PROVE  /\ mem'[t] \in [Cells(t) -> Words] /\ mem'[t][PointerCell(t)] = TileSymbol(t, "not_loaded_val")
             /\ \A b \in Cells(t) : b # PointerCell(t) => mem'[t][b] = mem[t][b]
  <2>1. mem'[t] = [mem[t] EXCEPT ![PointerCell(t)] = TileSymbol(t, "not_loaded_val")]
    BY <1>1, <1>3, <1>4
  <2>2. mem[t] \in [Cells(t) -> Words]
    BY <1>1, <1>4
  <2>3. PICK c, w : c = PointerCell(t) /\ w = TileSymbol(t, "not_loaded_val")
    OBVIOUS
  <2>4. c \in Cells(t) /\ w \in Words /\ mem'[t] = [mem[t] EXCEPT ![c] = w]
    BY <1>5, <2>1, <2>3
  <2>5. mem'[t] \in [Cells(t) -> Words] /\ mem'[t][c] = w
    BY <2>2, <2>4
  <2>6. \A b \in Cells(t) : b # c => mem'[t][b] = mem[t][b]
    <3>1. SUFFICES ASSUME NEW b \in Cells(t), b # c PROVE mem'[t][b] = mem[t][b]
      OBVIOUS
    <3>2. QED
      BY <2>2, <2>4, <3>1
  <2>7. QED
    BY <2>3, <2>5, <2>6
<1>8. DOMAIN mem' = Dests /\ \A d \in Dests : mem'[d] \in [Cells(d) -> Words]
  BY <1>1, <1>3, <1>6, <1>7
<1>9. \A t \in T : t \in Tiles /\ run[t] = "kernel" /\ got[t] = n /\ run'[t] = "wait"
  BY <1>3, <1>4
<1>10. run' \in [Tiles -> {"off", "wait", "kernel"}] /\ \A t \in Tiles : t \notin T => run'[t] = run[t]
  BY <1>1, <1>3
<1>11. Completes(n)
  BY <1>2, <1>3, <1>5, <1>6, <1>7, <1>9, <1>10 DEF Completes, T
<1>12. QED
  BY <1>8, <1>10, <1>11

LEMMA TypesCompletes ==
  ASSUME Types, NEW n, KernelDone(n)
  PROVE  Types'
<1>1. HostTypes /\ ManycoreTypes /\ CallInv
  BY DEF Types
<1>2. /\ Completes(n) /\ DOMAIN mem' = Dests /\ (\A d \in Dests : mem'[d] \in [Cells(d) -> Words])
      /\ run' \in [Tiles -> {"off", "wait", "kernel"}]
  BY CompletesOf
<1>3. UNCHANGED <<hostVars, net, runs, got, dramOn>> /\ fin' = fin \cup {n} /\ n \in DOMAIN launches
  BY <1>2 DEF Completes
<1>4. Program' = Program
  BY <1>3 DEF hostVars, Program
<1>5. HostTypes'
  BY <1>1, <1>3, <1>4 DEF HostTypes, hostVars
<1>6. ManycoreTypes'
  BY <1>1, <1>2, <1>3 DEF ManycoreTypes
<1>7. \A u \in Tiles : run'[u] # "off" => runs[u] >= 1
  BY <1>1, <1>2 DEF CallInv, Completes
<1>8. CallInv'
  BY <1>1, <1>3, <1>4, <1>7 DEF CallInv, hostVars
<1>9. QED
  BY <1>5, <1>6, <1>8 DEF Types

------------------------------------------------------------------------------
(* The host takes the next step of its script.                              *)

Moves == Fences \/ \E d \in Dests : \E a \in Cells(d) : \E v \in Words : Posts(d, a, v)

LEMMA MovesOf ==
  ASSUME Types, HostStore \/ HostFence
  PROVE  Moves /\ Advances
<1>1. CASE HostStore
  BY <1>1, HostStoreOf DEF Moves, Posts
<1>2. CASE HostFence
  BY <1>2, HostFenceOf DEF Moves, Fences
<1>3. QED
  BY <1>1, <1>2

LEMMA SettledMoved ==
  ASSUME Moves, NEW e \in Dests, NEW b, NEW u, Settled(e, b, u)
  PROVE  Settled(e, b, u)'
BY SettledFenced, SettledPosted DEF Moves

LEMMA FinalMoved ==
  ASSUME Moves, NEW e \in Dests, NEW b, NEW u, NEW must \in BOOLEAN, Final(e, b, u, must),
         must /\ e # Dram => todo[1] # Unfreeze(e)
  PROVE  Final(e, b, u, must)'
BY FinalFenced, FinalPosted DEF Moves

LEMMA ReadyMoved ==
  ASSUME Moves, NEW e \in Dests, e # Dram => todo[1] # Unfreeze(e)
  PROVE  /\ Ready(e) => Ready(e)'
         /\ \A q : Marked(e, q) => Marked(e, q)'
         /\ todo[1] = Mark(e) => \E q : Marked(e, q)'
<1>1. CASE Fences
  <2>1. net' = net /\ mem' = mem /\ run' = run /\ dramOn' = dramOn
    BY <1>1 DEF Fences, Advances, tileVars
  <2>2. todo[1] # Mark(e)
    BY <1>1, FenceFields, MarkFieldsHold DEF Fences, MarkFields
  <2>3. QED
    BY <2>1, <2>2 DEF Ready, Marked
<1>2. ASSUME NEW d, NEW a, NEW v, Posts(d, a, v)
      PROVE  /\ Ready(e) => Ready(e)'
             /\ \A q : Marked(e, q) => Marked(e, q)'
             /\ todo[1] = Mark(e) => \E q : Marked(e, q)'
  <2>1. todo[1] = Store(d, a, v)
    BY <1>2 DEF Posts
  <2>2. PICK r : r = Len(net[e]) + 1
    OBVIOUS
  <2>3. QED
    BY <1>2, <2>1, <2>2, ReadyPosted
<1>3. QED
  BY <1>1, <1>2 DEF Moves

\* When a store that starts something is the next one, what it relies on has
\* arrived.
LEMMA Landed ==
  ASSUME NEW t, NEW c, NEW y, todo[1] = Store(t, c, y), NetEmpty, NoneAfter(todo, 1),
         todo \in Seq(Steps), todo # <<>>,
         NEW e \in Dests, e = t \/ e = Dram, NEW b, ~(e = t /\ b = c), NEW u, NEW must \in BOOLEAN,
         Final(e, b, u, must)
  PROVE  Settled(e, b, u) /\ (must => Ready(e))
<1>1. ~SentTo(e, b)
  BY DEF NetEmpty, SentTo
<1>2. ~Stored(e, b, u, must)
  BY DEF NetEmpty, Stored
<1>3. DOMAIN todo = 1 .. Len(todo) /\ Len(todo) \in Nat
  BY ElementsOf
<1>4. ASSUME NEW i \in DOMAIN todo, IsStore(todo[i], e, b) PROVE FALSE
  <2>1. i # 1
    BY <1>4, StoreFields
  <2>2. i > 1 /\ todo[i].op = "store" /\ todo[i].to = e
    BY <1>3, <1>4, <2>1 DEF IsStore
  <2>3. todo[1].to = t
    BY StoreFields
  <2>4. QED
    BY <2>2, <2>3 DEF NoneAfter
<1>5. ~ToStore(e, b, u, must)
  <2>1. SUFFICES ASSUME NEW i \in DOMAIN todo, LastStore(todo, i, e, b, u) PROVE FALSE
    BY DEF ToStore
  <2>2. IsStore(todo[i], e, b)
    BY <2>1, StoreFields DEF LastStore
  <2>3. QED
    BY <1>4, <2>2
<1>6. ~Pending(e, b) /\ mem[e][b] = u /\ (must => Ready(e))
  BY <1>2, <1>5 DEF Final
<1>7. QED
  BY <1>6 DEF Settled

\* The words wanted at a tile, with where they go.
LEMMA WordsAt ==
  ASSUME Types, Program >= 1, Fits(Image), NEW t \in Tiles, NEW w \in Wanted(Image, Program, t)
  PROVE  /\ w[1] \in Dests /\ w[2] \in Cells(w[1]) /\ (w[1] = Dram \/ w[1] = t)
         /\ w[2] # Csr("origin") /\ w[2] # Csr("freeze") /\ (\A n : w[2] # Heap(n))
         /\ w[2] \notin SymbolCells(Image)
<1>1. PICK p, img : p = Program /\ img = Image
  OBVIOUS
<1>2. p \in DOMAIN Images /\ img \in Images[p]
  BY <1>1, ImageOf
<1>3. Loaded(img) = Fitting(img) /\ TextSegments(img) # {} /\ w \in Wanted(img, p, t)
  BY <1>1 DEF Fits
<1>4. QED
  BY <1>1, <1>2, <1>3, WantedAt

LEMMA BootAt ==
  ASSUME Types, Program >= 1, NEW t \in Tiles, NEW w \in Boot(Image, t)
  PROVE  /\ w[1] = t /\ w[1] \in Dests /\ w[2] \in Cells(w[1]) /\ w[3] = NotLoaded
         /\ w[2] # Csr("freeze") /\ w[2] # Csr("origin")
         /\ w[2] \in SymbolCells(Image)
<1>1. PICK p, img : p = Program /\ img = Image
  OBVIOUS
<1>2. p \in DOMAIN Images /\ img \in Images[p]
  BY <1>1, ImageOf
<1>3. PICK y \in {"kernel_ptr", "not_loaded_val"} : w = <<t, Dmem(img.symbol[y]), NotLoaded>>
  BY <1>1 DEF Boot
<1>4. y \in Symbols /\ w[1] = t /\ w[2] = Dmem(img.symbol[y]) /\ w[3] = NotLoaded
  BY <1>3 DEF Symbols
<1>5. Dmem(img.symbol[y]) \in TileCells /\ Dmem(img.symbol[y]) # Csr("freeze")
      /\ Dmem(img.symbol[y]) # Csr("origin")
  BY <1>2, <1>4, SymbolsApart
<1>6. t \in Dests /\ Cells(t) = TileCells
  BY NumTiles DEF Dests, Cells
<1>7. QED
  BY <1>1, <1>4, <1>5, <1>6 DEF SymbolCells

LEMMA CellOf ==
  ASSUME Types, Program >= 1
  PROVE  /\ \A y \in Symbols : /\ Cell(y) \in TileCells /\ Cell(y) # Csr("origin")
                               /\ Cell(y) # Csr("freeze") /\ \A k : Cell(y) # Heap(k)
                               /\ Cell(y) \in SymbolCells(Image)
         /\ \A y, z \in Symbols : Cell(y) = Cell(z) => y = z
         /\ \A t \in Tiles : t \in Dests /\ t # Dram /\ Cells(t) = TileCells
         /\ "config" \in Symbols /\ "not_loaded_val" \in Symbols /\ "args" \in Symbols
         /\ "kernel_ptr" \in Symbols
<1>1. PICK p, img : p = Program /\ img = Image
  OBVIOUS
<1>2. p \in DOMAIN Images /\ img \in Images[p]
  BY <1>1, ImageOf
<1>3. \A y \in Symbols : Cell(y) = Dmem(img.symbol[y])
  BY <1>1 DEF Cell
<1>4. \A y \in Symbols : Cell(y) \in SymbolCells(Image)
  BY <1>1, <1>3 DEF SymbolCells
<1>5. /\ \A y \in Symbols : /\ Dmem(img.symbol[y]) \in TileCells /\ Dmem(img.symbol[y]) # Csr("origin")
                            /\ Dmem(img.symbol[y]) # Csr("freeze") /\ Dmem(img.symbol[y]) # Tags
                            /\ \A k : Dmem(img.symbol[y]) # Heap(k)
      /\ \A y, z \in Symbols : Dmem(img.symbol[y]) = Dmem(img.symbol[z]) => y = z
      /\ "config" \in Symbols /\ "not_loaded_val" \in Symbols /\ "args" \in Symbols
      /\ "kernel_ptr" \in Symbols
  BY <1>2, SymbolsApart
<1>6. \A t \in Tiles : t \in Dests /\ t # Dram /\ Cells(t) = TileCells
  BY NumTiles DEF Dests, Cells
<1>7. QED
  BY <1>3, <1>4, <1>5, <1>6

LEMMA FactAt ==
  ASSUME Types, Program >= 1, NEW n \in DOMAIN launches, NEW t \in Tiles, NEW f \in Facts(t, n)
  PROVE  /\ f[1] \in Dests /\ f[2] \in Cells(f[1]) /\ (f[1] = t \/ f[1] = Dram)
         /\ f[2] # Csr("freeze") /\ f[2] # Cell("kernel_ptr") /\ f[2] # Cell("not_loaded_val")
         /\ f[1] = Dram => f[2] = Heap(launches[n].slot)
         /\ f[1] = t => f[2] = Csr("origin") \/ f[2] \in SymbolCells(Image)
<1>1. \/ f = <<t, Cell("args"), LaunchWord(n)>> \/ f = <<t, Cell("config"), LaunchWord(n)>>
      \/ f = <<t, Csr("origin"), Number(GroupOrigin(launches[n].tiles))>>
      \/ f = <<Dram, Heap(launches[n].slot), LaunchWord(n)>>
  BY DEF Facts, FactsOf, Cell
<1>2. launches[n].slot \in 1 .. MaxLaunches
  BY LaunchesOf
<1>3. Heap(launches[n].slot) \in DramCells /\ Csr("origin") \in TileCells /\ Cells(Dram) = DramCells /\ Dram \in Dests
  BY <1>2, CellTypes DEF Cells, Dests
<1>4. CASE f = <<t, Cell("args"), LaunchWord(n)>>
  <2>1. f[1] = t /\ f[2] = Cell("args")
    BY <1>4
  <2>2. QED
    BY <2>1, CellOf
<1>5. CASE f = <<t, Cell("config"), LaunchWord(n)>>
  <2>1. f[1] = t /\ f[2] = Cell("config")
    BY <1>5
  <2>2. QED
    BY <2>1, CellOf
<1>6. CASE f = <<t, Csr("origin"), Number(GroupOrigin(launches[n].tiles))>>
  <2>1. f[1] = t /\ f[2] = Csr("origin")
    BY <1>6
  <2>2. QED
    BY <1>3, <2>1, CellOf, CellNames
<1>7. CASE f = <<Dram, Heap(launches[n].slot), LaunchWord(n)>>
  <2>1. f[1] = Dram /\ f[2] = Heap(launches[n].slot)
    BY <1>7
  <2>2. QED
    BY <1>3, <2>1, CellOf, CellNames
<1>8. QED
  BY <1>1, <1>4, <1>5, <1>6, <1>7

LEMMA Triggered ==
  ASSUME TriggerInv, Advances, todo[1] \in Triggers
  PROVE  NetEmpty /\ NoneAfter(todo, 1)
BY DEF TriggerInv, Advances

LEMMA SameImage ==
  ASSUME images' = images
  PROVE  /\ Program' = Program /\ Image' = Image
         /\ \A y : Cell(y)' = Cell(y)
BY DEF Program, Image, Cell

LEMMA SameTriggers ==
  ASSUME UNCHANGED <<images, launches, call>>
  PROVE  Triggers' = Triggers
BY SameImage DEF Triggers

LEMMA TriggerKept ==
  ASSUME TriggerInv, Moves, Advances
  PROVE  TriggerInv'
<1>1. Triggers' = Triggers
  BY SameTriggers DEF Advances
<1>2. SUFFICES ASSUME NEW i \in DOMAIN todo', todo'[i] \in Triggers
               PROVE  (IF i = 1 THEN NetEmpty' ELSE Fenced(todo', i)) /\ NoneAfter(todo', i)
  BY <1>1 DEF TriggerInv
<1>3. PICK k : k = i + 1
  OBVIOUS
<1>4. k \in DOMAIN todo /\ todo'[i] = todo[k] /\ k # 1 /\ i \in Nat /\ i >= 1
  BY <1>2, <1>3 DEF Advances
<1>5. Fenced(todo, k) /\ NoneAfter(todo, k)
  BY <1>2, <1>4 DEF TriggerInv
<1>6. NoneAfter(todo', i)
  <2>1. ASSUME NEW j \in DOMAIN todo', j > i, todo'[j].op = "store"
        PROVE  todo'[j].to # Dram /\ todo'[j].to # todo'[i].to
    <3>1. j + 1 \in DOMAIN todo /\ todo'[j] = todo[j + 1] /\ j \in Nat
      BY <2>1 DEF Advances
    <3>2. j + 1 > k
      BY <1>3, <1>4, <2>1, <3>1
    <3>3. QED
      BY <1>4, <1>5, <2>1, <3>1, <3>2 DEF NoneAfter
  <2>2. QED
    BY <2>1 DEF NoneAfter
<1>7. CASE i = 1
  <2>1. todo[1] = FenceStep
    BY <1>3, <1>5, <1>7 DEF Fenced
  <2>2. Fences
    BY <2>1, StoreFields DEF Moves, Posts
  <2>3. NetEmpty'
    BY <2>2 DEF Fences, NetEmpty
  <2>4. QED
    BY <1>6, <1>7, <2>3
<1>8. CASE i # 1
  <2>1. PICK j : j = i - 1
    OBVIOUS
  <2>2. todo[k - 1] = FenceStep
    BY <1>5 DEF Fenced
  <2>3. j \in DOMAIN todo' /\ j + 1 = i /\ k - 1 = i
    BY <1>2, <1>3, <1>4, <1>8, <2>1 DEF Advances
  <2>4. todo'[j] = todo[i]
    BY <2>3 DEF Advances
  <2>5. Fenced(todo', i)
    BY <1>4, <1>8, <2>1, <2>2, <2>3, <2>4 DEF Fenced
  <2>6. QED
    BY <1>6, <1>8, <2>5
<1>9. QED
  BY <1>7, <1>8

LEMMA UnfreezeKept ==
  ASSUME UnfreezeInv, Advances
  PROVE  UnfreezeInv'
<1>1. call' = call /\ ok' = ok
  BY DEF Advances
<1>2. \A i \in DOMAIN todo' : i + 1 \in DOMAIN todo /\ todo'[i] = todo[i + 1]
  BY DEF Advances
<1>3. QED
  BY <1>1, <1>2 DEF UnfreezeInv

LEMMA FinishKept ==
  ASSUME FinishInv, Moves, Advances
  PROVE  FinishInv'
<1>1. SUFFICES ASSUME call = "finish"
               PROVE  /\ \A i \in DOMAIN todo' : todo'[i] = FenceStep \/ \E t \in Tiles : todo'[i] = Mark(t)
                      /\ IF todo' = <<>> THEN NetEmpty' ELSE todo'[Len(todo')] = FenceStep
  BY DEF FinishInv, Advances
<1>2. /\ \A i \in DOMAIN todo : todo[i] = FenceStep \/ \E t \in Tiles : todo[i] = Mark(t)
      /\ todo[Len(todo)] = FenceStep
  <2>1. todo # <<>>
    BY DEF Advances
  <2>2. QED
    BY <1>1, <2>1 DEF FinishInv
<1>3. \A i \in DOMAIN todo' : todo'[i] = FenceStep \/ \E t \in Tiles : todo'[i] = Mark(t)
  BY <1>2 DEF Advances
<1>4. CASE todo' = <<>>
  <2>1. Len(todo) = 1
    BY <1>4 DEF Advances
  <2>2. Fences
    BY <1>2, <2>1, StoreFields DEF Moves, Posts
  <2>3. NetEmpty'
    BY <2>2 DEF Fences, NetEmpty
  <2>4. QED
    BY <1>3, <1>4, <2>3
<1>5. CASE todo' # <<>>
  <2>1. todo' \in Seq(Steps) /\ Len(todo') = Len(todo) - 1 /\ Len(todo) \in Nat \ {0}
    BY DEF Advances
  <2>2. Len(todo') # 0
    BY <1>5, <2>1
  <2>3. Len(todo) # 1 /\ Len(todo) \in DOMAIN todo
    BY <2>1, <2>2 DEF Advances
  <2>4. PICK k : k = Len(todo) - 1
    OBVIOUS
  <2>5. k = Len(todo') /\ k \in DOMAIN todo' /\ k + 1 = Len(todo)
    BY <2>1, <2>3, <2>4 DEF Advances
  <2>6. todo'[k] = todo[Len(todo)]
    BY <2>5 DEF Advances
  <2>7. QED
    BY <1>2, <1>3, <1>5, <2>5, <2>6
<1>6. QED
  BY <1>4, <1>5

LEMMA HeldKept ==
  ASSUME UNCHANGED <<images, launches>>
  PROVE  /\ Held' = Held
         /\ \A n : Placed(n)' <=> Placed(n)
         /\ HeldApart => HeldApart'
         /\ \A t, n : Facts(t, n)' = Facts(t, n)
<1>1. \A n : Placed(n)' <=> Placed(n)
  BY SameImage DEF Placed
<1>2. Held' = Held
  BY <1>1 DEF Held
<1>3. HeldApart => HeldApart'
  BY <1>2 DEF HeldApart
<1>4. \A t, n : Facts(t, n)' = Facts(t, n)
  BY SameImage DEF Facts
<1>5. QED
  BY <1>1, <1>2, <1>3, <1>4

LEMMA LaunchSameSteps ==
  ASSUME UNCHANGED <<images, launches>>
  PROVE  /\ \A n : LaunchStores(n)' = LaunchStores(n)
         /\ \A t, n : Wake(t, n)' = Wake(t, n)
BY SameImage DEF LaunchStores, Wake

LEMMA LaunchMoved ==
  ASSUME Types, UnfreezeInv, LaunchInv, Moves, Advances
  PROVE  LaunchInv'
<1>1. UNCHANGED <<call, images, launches, fin>>
  BY DEF Advances
<1>2. SUFFICES ASSUME call = "launch" PROVE LaunchInv'
  BY <1>1 DEF LaunchInv
<1>3. PICK n : n = Len(launches)
  OBVIOUS
<1>4. Len(launches') = n /\ Program >= 1
  BY <1>1, <1>2, <1>3 DEF Types, CallInv
<1>5. /\ n \in DOMAIN launches /\ Placed(n) /\ launches[n].status = "allocated"
      /\ \A i \in DOMAIN todo : todo[i] \in LaunchStores(n)
      /\ \A t \in Tiles : Has(todo, Wake(t, n)) =>
           n \notin fin /\ \A f \in Facts(t, n) : Final(f[1], f[2], f[3], FALSE)
  BY <1>2, <1>3 DEF LaunchInv, ToWake
<1>6. n \in DOMAIN launches' /\ Placed(n)' /\ launches'[n].status = "allocated"
  BY <1>1, <1>5, HeldKept
<1>7. \A i \in DOMAIN todo' : todo'[i] \in LaunchStores(n)'
  <2>1. LaunchStores(n)' = LaunchStores(n)
    BY <1>1, LaunchSameSteps
  <2>2. QED
    BY <1>5, <2>1 DEF Advances
<1>8. ASSUME NEW t \in Tiles, Has(todo', Wake(t, n)') PROVE n \notin fin' /\ \A f \in Facts(t, n)' : Final(f[1], f[2], f[3], FALSE)'
  <2>1. Wake(t, n)' = Wake(t, n) /\ Facts(t, n)' = Facts(t, n)
    BY <1>1, LaunchSameSteps, HeldKept
  <2>2. Has(todo, Wake(t, n))
    BY <1>8, <2>1, AdvancesOf
  <2>3. ASSUME NEW f \in Facts(t, n) PROVE Final(f[1], f[2], f[3], FALSE)'
    <3>1. PICK e, b, u : e = f[1] /\ b = f[2] /\ u = f[3]
      OBVIOUS
    <3>2. Final(e, b, u, FALSE) /\ e \in Dests
      BY <1>4, <1>5, <2>2, <3>1, FactAt
    <3>3. Final(e, b, u, FALSE)'
      BY <3>2, FinalMoved
    <3>4. QED
      BY <3>1, <3>3
  <2>4. QED
    BY <1>1, <1>5, <2>1, <2>2, <2>3
<1>9. QED
  BY <1>3, <1>4, <1>6, <1>7, <1>8 DEF LaunchInv, ToWake

LEMMA FitsKept ==
  ASSUME FitsInv, UNCHANGED <<images, loaded, call, ok>>
  PROVE  FitsInv'
BY SameImage DEF FitsInv

LEMMA WantedSame ==
  ASSUME UNCHANGED <<images, dramOn>>
  PROVE  /\ \A t : Wanted(Image, Program, t)' = Wanted(Image, Program, t)
         /\ \A t : Boot(Image, t)' = Boot(Image, t)
<1>1. Image' = Image /\ Program' = Program
  BY SameImage
<1>2. \A t : Wanted(Image, Program, t)' = Wanted(Image, Program, t)
  BY <1>1 DEF Wanted, TagsWords, AllDataWords, TextWords
<1>3. QED
  BY <1>1, <1>2

LEMMA KeepMoved ==
  ASSUME Types, Program >= 1, Fits(Image), Moves, Advances, NEW t \in Tiles, Keep(t)
  PROVE  Keep(t)'
<1>1. UNCHANGED <<images, dramOn, run, runs>> /\ Program' = Program
  BY SameImage DEF Advances, tileVars
<1>2. ASSUME NEW w \in Wanted(Image, Program, t) PROVE Settled(w[1], w[2], w[3])'
  <2>1. PICK e, b, u : e = w[1] /\ b = w[2] /\ u = w[3]
    OBVIOUS
  <2>2. Settled(e, b, u) /\ e \in Dests
    BY <2>1, WordsAt DEF Keep
  <2>3. Settled(e, b, u)'
    BY <2>2, SettledMoved
  <2>4. QED
    BY <2>1, <2>3
<1>3. Ready(Dram)'
  BY ReadyMoved DEF Keep, Dests
<1>4. run'[t] # "off" => runs'[t] = Program'
  BY <1>1 DEF Keep
<1>5. Wanted(Image, Program, t)' = Wanted(Image, Program, t)
  BY <1>1, WantedSame
<1>6. QED
  BY <1>2, <1>3, <1>4, <1>5 DEF Keep

\* Unfreezing a tile is posted when its whole program has arrived.
LEMMA UnfreezePosted ==
  ASSUME Types, Program >= 1, Fits(Image), TriggerInv, LoadInv, call = "load", ok, Moves, Advances,
         NEW t \in Tiles, todo[1] = Unfreeze(t)
  PROVE  /\ Keep(t)' /\ run[t] = "off" /\ \A w \in Boot(Image, t) : Settled(w[1], w[2], w[3])
         /\ \A i \in DOMAIN todo' : todo'[i].op = "store" => todo'[i].to \notin {t, Dram}
<1>1. UNCHANGED <<images, dramOn, run, runs>>
  BY DEF Advances, tileVars
<1>2. todo[1] = Store(t, Csr("freeze"), Zero) /\ todo[1].to = t
  BY StoreFields DEF Unfreeze
<1>3. todo \in Seq(Steps) /\ todo # <<>> /\ 1 \in DOMAIN todo
  BY DEF Advances
<1>4. NetEmpty /\ NoneAfter(todo, 1)
  <2>1. todo[1] \in Triggers
    BY DEF Triggers, Unfreezes
  <2>2. QED
    BY <2>1, Triggered
<1>5. \A w \in Wanted(Image, Program, t) \cup Boot(Image, t) : Final(w[1], w[2], w[3], TRUE)
  BY <1>3 DEF LoadInv, ToUnfreeze, Has
<1>6. ASSUME NEW w \in Wanted(Image, Program, t) \cup Boot(Image, t)
      PROVE  Settled(w[1], w[2], w[3]) /\ Ready(w[1]) /\ w[1] \in Dests
  <2>1. PICK e, b, u : e = w[1] /\ b = w[2] /\ u = w[3]
    OBVIOUS
  <2>2. e \in Dests /\ (e = t \/ e = Dram) /\ b # Csr("freeze")
    BY <2>1, WordsAt, BootAt
  <2>3. Final(e, b, u, TRUE)
    BY <1>5, <2>1
  <2>4. Settled(e, b, u) /\ Ready(e)
    BY <1>2, <1>3, <1>4, <2>2, <2>3, Landed
  <2>5. QED
    BY <2>1, <2>2, <2>4
<1>7. ASSUME NEW w \in Wanted(Image, Program, t) PROVE Settled(w[1], w[2], w[3])'
  <2>1. PICK e, b, u : e = w[1] /\ b = w[2] /\ u = w[3]
    OBVIOUS
  <2>2. Settled(e, b, u)'
    BY <1>6, <2>1, SettledMoved
  <2>3. QED
    BY <2>1, <2>2
<1>8. Ready(Dram)
  <2>1. CASE dramOn
    BY <2>1 DEF Ready
  <2>2. CASE ~dramOn
    <3>1. TagsWord \in Wanted(Image, Program, t)
      BY <2>2 DEF Wanted, TagsWords
    <3>2. QED
      BY <1>6, <3>1, WordFields
  <2>3. QED
    BY <2>1, <2>2
<1>9. Ready(Dram)'
  BY <1>8, ReadyMoved DEF Dests
<1>10. run[t] = "off"
  <2>1. PcWord(Image, t) \in Wanted(Image, Program, t) /\ PcWord(Image, t)[1] = t
    BY WordFields DEF Wanted
  <2>2. Ready(t)
    BY <1>6, <2>1
  <2>3. QED
    BY <2>2, NumTiles DEF Ready
<1>11. Wanted(Image, Program, t)' = Wanted(Image, Program, t)
  BY <1>1, WantedSame
<1>12. Keep(t)'
  BY <1>1, <1>7, <1>9, <1>10, <1>11 DEF Keep
<1>13. ASSUME NEW i \in DOMAIN todo', todo'[i].op = "store" PROVE todo'[i].to \notin {t, Dram}
  <2>1. i + 1 \in DOMAIN todo /\ todo'[i] = todo[i + 1] /\ i \in Nat /\ i >= 1
    BY DEF Advances
  <2>2. i + 1 > 1
    BY <2>1
  <2>3. QED
    BY <1>2, <1>4, <1>13, <2>1, <2>2 DEF NoneAfter
<1>14. QED
  BY <1>6, <1>10, <1>12, <1>13

LEMMA LoadMoved ==
  ASSUME Types, TriggerInv, FitsInv, LoadInv, Moves, Advances
  PROVE  LoadInv'
<1>1. UNCHANGED <<call, ok, images, dramOn>>
  BY DEF Advances
<1>2. SUFFICES ASSUME call = "load", ok, NEW t \in Tiles
               PROVE  IF ToUnfreeze(t)'
                        THEN \A w \in (Wanted(Image, Program, t) \cup Boot(Image, t))' :
                               Final(w[1], w[2], w[3], TRUE)'
                        ELSE Keep(t)' /\ \A i \in DOMAIN todo' : todo'[i].op = "store" => todo'[i].to \notin {t, Dram}
  BY <1>1 DEF LoadInv
<1>3. Program >= 1 /\ Fits(Image)
  BY <1>2 DEF Types, CallInv, FitsInv
<1>4. Wanted(Image, Program, t)' = Wanted(Image, Program, t) /\ Boot(Image, t)' = Boot(Image, t)
  BY <1>1, WantedSame
<1>5. CASE todo[1] = Unfreeze(t)
  <2>1. /\ Keep(t)'
        /\ \A i \in DOMAIN todo' : todo'[i].op = "store" => todo'[i].to \notin {t, Dram}
    BY <1>2, <1>3, <1>5, UnfreezePosted
  <2>2. ~ToUnfreeze(t)'
    <3>1. Unfreeze(t).op = "store" /\ Unfreeze(t).to = t
      BY StoreFields DEF Unfreeze
    <3>2. QED
      BY <2>1, <3>1 DEF ToUnfreeze, Has
  <2>3. QED
    BY <2>1, <2>2
<1>6. CASE todo[1] # Unfreeze(t)
  <2>1. ToUnfreeze(t)' <=> ToUnfreeze(t)
    BY <1>6, AdvancesOf DEF ToUnfreeze
  <2>2. CASE ToUnfreeze(t)
    <3>1. ASSUME NEW w \in Wanted(Image, Program, t) \cup Boot(Image, t) PROVE Final(w[1], w[2], w[3], TRUE)'
      <4>1. PICK e, b, u : e = w[1] /\ b = w[2] /\ u = w[3]
        OBVIOUS
      <4>2. e \in Dests /\ (e = t \/ e = Dram)
        BY <1>3, <4>1, WordsAt, BootAt
      <4>3. Final(e, b, u, TRUE)
        BY <1>2, <2>2, <4>1 DEF LoadInv
      <4>4. Final(e, b, u, TRUE)'
        BY <1>6, <4>2, <4>3, FinalMoved
      <4>5. QED
        BY <4>1, <4>4
    <3>2. QED
      BY <1>4, <2>1, <2>2, <3>1
  <2>3. CASE ~ToUnfreeze(t)
    <3>1. Keep(t) /\ \A i \in DOMAIN todo : todo[i].op = "store" => todo[i].to \notin {t, Dram}
      BY <1>2, <2>3 DEF LoadInv
    <3>2. Keep(t)'
      BY <1>3, <3>1, KeepMoved
    <3>3. \A i \in DOMAIN todo' : todo'[i].op = "store" => todo'[i].to \notin {t, Dram}
      BY <3>1 DEF Advances
    <3>4. QED
      BY <2>1, <2>3, <3>2, <3>3
  <2>4. QED
    BY <2>2, <2>3
<1>7. QED
  BY <1>5, <1>6

LEMMA LoadedMoved ==
  ASSUME Types, FitsInv, LoadedInv, Moves, Advances
  PROVE  LoadedInv'
<1>1. loaded' = loaded
  BY DEF Advances
<1>2. loaded => Program >= 1 /\ Fits(Image)
  BY DEF Types, CallInv, FitsInv
<1>3. QED
  BY <1>1, <1>2, KeepMoved DEF LoadedInv

LEMMA OffMoved ==
  ASSUME Types, TriggerInv, UnfreezeInv, OffInv, Moves, Advances
  PROVE  OffInv'
<1>1. UNCHANGED <<call, ok, loaded, crashes>>
  BY DEF Advances
<1>2. call # "idle"
  BY DEF Advances, Types, CallInv
<1>3. SUFFICES ASSUME crashes = 0, NEW t \in Tiles
               PROVE  /\ call = "load" => Ready(t)' \/ (ok /\ ~ToUnfreeze(t)')
                      /\ call = "finish" => Stops(t)'
  BY <1>1, <1>2 DEF OffInv
<1>4. t \in Dests /\ t # Dram
  BY NumTiles DEF Dests
<1>5. todo[1] = Unfreeze(t) => call = "load" /\ ok /\ ~ToUnfreeze(t)'
  <2>1. SUFFICES ASSUME todo[1] = Unfreeze(t) PROVE call = "load" /\ ok /\ ~ToUnfreeze(t)'
    OBVIOUS
  <2>2. 1 \in DOMAIN todo
    BY DEF Advances
  <2>3. call = "load" /\ ok
    BY <2>1, <2>2 DEF UnfreezeInv, Unfreezes
  <2>4. NoneAfter(todo, 1)
    BY <2>1, Triggered DEF Triggers, Unfreezes
  <2>5. Unfreeze(t).op = "store" /\ Unfreeze(t).to = t
    BY StoreFields DEF Unfreeze
  <2>6. ASSUME NEW i \in DOMAIN todo', todo'[i] = Unfreeze(t) PROVE FALSE
    <3>1. i + 1 \in DOMAIN todo /\ todo'[i] = todo[i + 1] /\ i \in Nat /\ i >= 1
      BY DEF Advances
    <3>2. i + 1 > 1
      BY <3>1
    <3>3. QED
      BY <2>1, <2>4, <2>5, <2>6, <3>1, <3>2 DEF NoneAfter
  <2>7. QED
    BY <2>3, <2>6 DEF ToUnfreeze, Has
<1>6. CASE call = "load"
  <2>1. Ready(t) \/ (ok /\ ~ToUnfreeze(t))
    BY <1>3, <1>6 DEF OffInv
  <2>2. CASE ok /\ ~ToUnfreeze(t)
    BY <1>6, <2>2, AdvancesOf DEF ToUnfreeze
  <2>3. CASE Ready(t) /\ todo[1] # Unfreeze(t)
    BY <1>4, <1>6, <2>3, ReadyMoved
  <2>4. QED
    BY <1>5, <1>6, <2>1, <2>2, <2>3
<1>7. CASE call = "finish"
  <2>1. todo[1] # Unfreeze(t)
    BY <1>5, <1>7
  <2>2. Stops(t)
    BY <1>3, <1>7 DEF OffInv
  <2>3. CASE Ready(t)
    BY <1>4, <1>7, <2>1, <2>3, ReadyMoved DEF Stops
  <2>4. CASE \E p \in DOMAIN net[t] : Marked(t, p)
    <3>1. \E p : Marked(t, p)'
      BY <1>4, <2>1, <2>4, ReadyMoved
    <3>2. QED
      BY <1>7, <3>1 DEF Stops, Marked
  <2>5. CASE Has(todo, Mark(t)) /\ todo[1] # Mark(t)
    <3>1. Has(todo', Mark(t))
      BY <2>5, AdvancesOf
    <3>2. QED
      BY <1>7, <3>1 DEF Stops
  <2>6. CASE todo[1] = Mark(t)
    <3>1. \E p : Marked(t, p)'
      BY <1>4, <2>1, <2>6, ReadyMoved
    <3>2. QED
      BY <1>7, <3>1 DEF Stops, Marked
  <2>7. QED
    BY <2>2, <2>3, <2>4, <2>5, <2>6 DEF Stops
<1>8. QED
  BY <1>6, <1>7

LEMMA WokenMoved ==
  ASSUME Types, Program >= 1, Moves, Advances, NEW t \in Tiles, NEW n, Woken(t, n)
  PROVE  Woken(t, n)'
<1>1. UNCHANGED <<images, launches, fin>>
  BY DEF Advances
<1>2. n \in Held /\ n \in DOMAIN launches /\ t \in launches[n].tiles /\ n \notin fin
      /\ \A f \in Facts(t, n) : Settled(f[1], f[2], f[3])
  BY DEF Woken, Held
<1>3. ASSUME NEW f \in Facts(t, n) PROVE Settled(f[1], f[2], f[3])'
  <2>1. PICK e, b, u : e = f[1] /\ b = f[2] /\ u = f[3]
    OBVIOUS
  <2>2. Settled(e, b, u) /\ e \in Dests
    BY <1>2, <2>1, FactAt
  <2>3. Settled(e, b, u)'
    BY <2>2, SettledMoved
  <2>4. QED
    BY <2>1, <2>3
<1>4. Held' = Held /\ Facts(t, n)' = Facts(t, n)
  BY <1>1, HeldKept
<1>5. QED
  BY <1>1, <1>2, <1>3, <1>4 DEF Woken

\* A tile that is up is only sent the stores of a launch, or frozen.
LEMMA PostedUp ==
  ASSUME Types, LaunchInv, FinishInv, LoadInv, NEW t \in Tiles, Up(t), NEW a, NEW v, Posts(t, a, v)
  PROVE  /\ a = Cell("not_loaded_val") => v = NotLoaded
         /\ a = Cell("kernel_ptr") => /\ call = "launch" /\ Len(launches) \in DOMAIN launches
                                      /\ Placed(Len(launches)) /\ v = LaunchWord(Len(launches))
                                      /\ todo[1] = Wake(t, Len(launches))
                                      /\ t \in launches[Len(launches)].tiles
<1>1. Advances /\ todo[1] = Store(t, a, v) /\ todo[1].op = "store" /\ todo[1].to = t /\ todo[1].at = a
      /\ todo[1].val = v /\ todo[1] # FenceStep /\ 1 \in DOMAIN todo /\ todo # <<>>
  BY StoreFields DEF Posts, Advances
<1>2. Program >= 1
  BY <1>1 DEF Types, CallInv, Up
<1>3. call # "idle" /\ call \in {"idle", "load", "launch", "finish"}
  BY <1>1 DEF Types, CallInv, HostTypes
<1>4. CASE call = "load"
  <2>1. ok /\ ~ToUnfreeze(t)
    BY <1>4 DEF Up, Types, CallInv
  <2>2. todo[1].to \notin {t, Dram}
    BY <1>1, <1>4, <2>1 DEF LoadInv
  <2>3. QED
    BY <1>1, <2>2
<1>5. CASE call = "finish"
  <2>1. PICK u \in Tiles : todo[1] = Mark(u)
    BY <1>1, <1>5 DEF FinishInv
  <2>2. a = Csr("freeze")
    BY <1>1, <2>1, MarkFieldsHold DEF MarkFields
  <2>3. QED
    BY <1>2, <2>2, CellOf
<1>6. CASE call = "launch"
  <2>1. PICK n : n = Len(launches)
    OBVIOUS
  <2>2. n \in DOMAIN launches /\ Placed(n) /\ todo[1] \in LaunchStores(n)
    BY <1>1, <1>6, <2>1 DEF LaunchInv
  <2>3. PICK p, img, group, slot : /\ p = Program /\ img = Image /\ group = launches[n].tiles
                                   /\ slot = launches[n].slot
    OBVIOUS
  <2>4. p \in DOMAIN Images /\ img \in Images[p] /\ group \in Groups /\ slot \in 1 .. MaxLaunches /\ n \in Nat
    BY <1>2, <2>2, <2>3, ImageOf, LaunchesOf
  <2>5. todo[1] \in LaunchSteps(img, group, slot, n)
    BY <2>2, <2>3 DEF LaunchStores
  <2>6. t \in group /\ todo[1] \in TileStores(img, t, group, n)
    BY <1>1, <2>4, <2>5, LaunchStepOf, NumTiles
  <2>7. /\ a = Dmem(img.symbol["not_loaded_val"]) => v = NotLoaded
        /\ a = Dmem(img.symbol["kernel_ptr"]) => todo[1] = Pointer(img, t, n)
    BY <1>1, <2>4, <2>6, TileStoreOf
  <2>8. todo[1] = Pointer(img, t, n) => v = LaunchWord(n)
    BY <1>1, StoreFields DEF Pointer
  <2>9. QED
    BY <1>6, <2>1, <2>2, <2>3, <2>6, <2>7, <2>8 DEF Cell, Wake
<1>7. QED
  BY <1>3, <1>4, <1>5, <1>6

\* Waking a tile is posted when everything the kernel may look at has arrived.
LEMMA WakePosted ==
  ASSUME Types, Program >= 1, TriggerInv, LaunchInv, Moves, Advances, NEW t \in Tiles, NEW n,
         n = Len(launches), call = "launch", n \in DOMAIN launches, Placed(n),
         t \in launches[n].tiles, todo[1] = Wake(t, n)
  PROVE  Woken(t, n) /\ NetEmpty /\ \A i \in DOMAIN todo' : todo'[i].op = "store" => todo'[i].to # t
<1>1. todo[1] = Store(t, Cell("kernel_ptr"), LaunchWord(n)) /\ todo[1].to = t
  BY StoreFields DEF Wake, Pointer, Cell
<1>2. todo \in Seq(Steps) /\ todo # <<>> /\ 1 \in DOMAIN todo
  BY DEF Advances
<1>3. NetEmpty /\ NoneAfter(todo, 1)
  <2>1. todo[1] \in Triggers
    BY DEF Triggers, Pointers, Wake
  <2>2. QED
    BY <2>1, Triggered
<1>4. n \notin fin /\ \A f \in Facts(t, n) : Final(f[1], f[2], f[3], FALSE)
  <2>1. ToWake(t)
    BY <1>2 DEF ToWake, Has
  <2>2. QED
    BY <2>1 DEF LaunchInv
<1>5. ASSUME NEW f \in Facts(t, n) PROVE Settled(f[1], f[2], f[3])
  <2>1. PICK e, b, u : e = f[1] /\ b = f[2] /\ u = f[3]
    OBVIOUS
  <2>2. e \in Dests /\ (e = t \/ e = Dram) /\ b # Cell("kernel_ptr") /\ Final(e, b, u, FALSE)
    BY <1>4, <2>1, FactAt
  <2>3. Settled(e, b, u)
    BY <1>1, <1>2, <1>3, <2>2, Landed
  <2>4. QED
    BY <2>1, <2>3
<1>6. Woken(t, n)
  BY <1>4, <1>5 DEF Woken, Held
<1>7. ASSUME NEW i \in DOMAIN todo', todo'[i].op = "store" PROVE todo'[i].to # t
  <2>1. i + 1 \in DOMAIN todo /\ todo'[i] = todo[i + 1] /\ i \in Nat /\ i >= 1
    BY DEF Advances
  <2>2. i + 1 > 1
    BY <2>1
  <2>3. QED
    BY <1>1, <1>3, <1>7, <2>1, <2>2 DEF NoneAfter
<1>8. QED
  BY <1>3, <1>6, <1>7

KernelTile(t) == Waits(t) /\ PointerInMemory(t) /\ PointerSent(t) /\ PointerToSend(t) /\ InKernel(t)

LEMMA PointerMoved ==
  ASSUME Types, Program >= 1, TriggerInv, LaunchInv, FinishInv, LoadInv, Moves, Advances,
         NEW t \in Tiles, Up(t), KernelTile(t)
  PROVE  KernelTile(t)'
<1>0. UNCHANGED <<call, images, launches, fin, mem, run, got>> /\ t \in Dests /\ t # Dram
  BY CellOf DEF Advances, tileVars
<1>1. PICK kp, nlv : kp = Cell("kernel_ptr") /\ nlv = Cell("not_loaded_val")
  OBVIOUS
<1>2. Cell("kernel_ptr")' = kp /\ Cell("not_loaded_val")' = nlv /\ kp # nlv
  BY <1>0, <1>1, SameImage, CellOf
<1>3. \A n : Woken(t, n) => Woken(t, n)'
  BY WokenMoved
<1>4. Unset(t) => Unset(t)'
  BY <1>0, <1>1, <1>2 DEF Unset
<1>5. PointerInMemory(t)'
  BY <1>0, <1>1, <1>2, <1>3 DEF KernelTile, PointerInMemory
<1>6. InKernel(t)'
  BY <1>0, <1>1, <1>2 DEF KernelTile, InKernel
<1>7. CASE net'[t] = net[t]
  <2>1. Waits(t)'
    BY <1>0, <1>1, <1>2, <1>7 DEF KernelTile, Waits
  <2>2. PointerSent(t)'
    BY <1>0, <1>1, <1>2, <1>3, <1>4, <1>7 DEF KernelTile, PointerSent
  <2>3. PointerToSend(t)'
    <3>1. StoredIn(todo', t, kp) => StoredIn(todo, t, kp)
      BY AdvancesOf
    <3>2. SentTo(t, kp)' => SentTo(t, kp)
      BY <1>7 DEF SentTo
    <3>3. StoredIn(todo, t, kp) => Unset(t) /\ ~SentTo(t, kp)
      BY <1>1 DEF KernelTile, PointerToSend
    <3>4. QED
      BY <1>2, <1>4, <3>1, <3>2, <3>3 DEF PointerToSend, SentTo
  <2>4. QED
    BY <1>5, <1>6, <2>1, <2>2, <2>3 DEF KernelTile
<1>8. ASSUME NEW a, NEW v, Posts(t, a, v) PROVE KernelTile(t)'
  <2>1. /\ a = nlv => v = NotLoaded
        /\ a = kp => /\ call = "launch" /\ Len(launches) \in DOMAIN launches
                     /\ Placed(Len(launches)) /\ v = LaunchWord(Len(launches))
                     /\ todo[1] = Wake(t, Len(launches))
                     /\ t \in launches[Len(launches)].tiles
    BY <1>1, <1>8, PostedUp
  <2>2. /\ \A i \in DOMAIN net[t] : i \in DOMAIN net'[t] /\ net'[t][i] = net[t][i] /\ i <= Len(net[t])
        /\ \A i \in DOMAIN net'[t] : \/ i \in DOMAIN net[t] /\ net'[t][i] = net[t][i]
                                     \/ net'[t][i] = Packet(a, v) /\ i = Len(net[t]) + 1
    BY <1>0, <1>8, PostedAt
  <2>3. Packet(a, v).at = a /\ Packet(a, v).val = v
    BY PacketFields
  <2>4. Waits(t)'
    <3>1. \A i \in DOMAIN net'[t] : net'[t][i].at = nlv => net'[t][i].val = NotLoaded
      BY <1>1, <2>1, <2>2, <2>3 DEF KernelTile, Waits
    <3>2. mem'[t][nlv] = NotLoaded
      BY <1>0, <1>1 DEF KernelTile, Waits
    <3>3. QED
      BY <1>2, <3>1, <3>2 DEF Waits
  <2>5. CASE a = kp
    <3>1. PICK n : n = Len(launches)
      OBVIOUS
    <3>2. Woken(t, n) /\ NetEmpty /\ \A i \in DOMAIN todo' : todo'[i].op = "store" => todo'[i].to # t
      BY <2>1, <2>5, <3>1, WakePosted
    <3>3. Unset(t)
      <4>1. StoredIn(todo, t, kp)
        <5>1. 1 \in DOMAIN todo /\ IsStore(todo[1], t, kp)
          BY <1>8, <2>5, StoreFields DEF Posts, Advances
        <5>2. QED
          BY <5>1 DEF StoredIn
      <4>2. QED
        BY <1>1, <4>1 DEF KernelTile, PointerToSend
    <3>4. n \in DOMAIN launches /\ v = LaunchWord(n)
      BY <2>1, <2>5, <3>1
    <3>5. \A i \in DOMAIN net'[t] : net'[t][i] = Packet(a, v) /\ i = Len(net[t]) + 1
      <4>1. net[t] = <<>>
        BY <1>0, <3>2 DEF NetEmpty
      <4>2. DOMAIN net[t] = {}
        BY <4>1
      <4>3. QED
        BY <2>2, <4>2
    <3>6. PointerSent(t)'
      BY <1>0, <1>2, <1>3, <1>4, <2>3, <3>2, <3>3, <3>4, <3>5 DEF PointerSent
    <3>7. PointerToSend(t)'
      BY <3>2 DEF PointerToSend, StoredIn, IsStore
    <3>8. QED
      BY <1>5, <1>6, <2>4, <3>6, <3>7 DEF KernelTile
  <2>6. CASE a # kp
    <3>1. \A i \in DOMAIN net'[t] : net'[t][i].at = kp => i \in DOMAIN net[t] /\ net'[t][i] = net[t][i]
      BY <2>2, <2>3, <2>6
    <3>2. PointerSent(t)'
      BY <1>0, <1>1, <1>2, <1>3, <1>4, <3>1 DEF KernelTile, PointerSent
    <3>3. StoredIn(todo', t, kp) => StoredIn(todo, t, kp)
      BY AdvancesOf
    <3>4. SentTo(t, kp)' => SentTo(t, kp)
      BY <3>1 DEF SentTo
    <3>5. StoredIn(todo, t, kp) => Unset(t) /\ ~SentTo(t, kp)
      BY <1>1 DEF KernelTile, PointerToSend
    <3>6. PointerToSend(t)'
      BY <1>2, <1>4, <3>3, <3>4, <3>5 DEF PointerToSend, SentTo
    <3>7. QED
      BY <1>5, <1>6, <2>4, <3>2, <3>6 DEF KernelTile
  <2>7. QED
    BY <2>5, <2>6
<1>9. net'[t] = net[t] \/ \E a, v : Posts(t, a, v)
  BY <1>0 DEF Moves, Fences, Posts
<1>10. QED
  BY <1>7, <1>8, <1>9

LEMMA KernelMoved ==
  ASSUME Types, TriggerInv, LaunchInv, FinishInv, FitsInv, LoadInv, KernelInv, Moves, Advances
  PROVE  KernelInv'
<1>1. UNCHANGED <<call, ok, loaded, images, launches, fin, mem, run, got>>
  BY DEF Advances, tileVars
<1>2. SUFFICES ASSUME NEW t \in Tiles, Up(t)' PROVE KernelTile(t)'
  BY DEF KernelInv, KernelTile
<1>3. Program >= 1
  BY <1>1, <1>2 DEF Up, Types, CallInv
<1>4. CASE Up(t)
  <2>1. KernelTile(t)
    BY <1>4 DEF KernelInv, KernelTile
  <2>2. QED
    BY <1>3, <1>4, <2>1, PointerMoved
<1>5. CASE ~Up(t)
  <2>1. call = "load" /\ ok /\ ToUnfreeze(t) /\ ~ToUnfreeze(t)'
    BY <1>1, <1>2, <1>5 DEF Up
  <2>2. todo[1] = Unfreeze(t)
    BY <2>1, AdvancesOf DEF ToUnfreeze
  <2>3. Fits(Image)
    BY <2>1 DEF FitsInv
  <2>4. /\ run[t] = "off" /\ \A w \in Boot(Image, t) : Settled(w[1], w[2], w[3])
        /\ \A i \in DOMAIN todo' : todo'[i].op = "store" => todo'[i].to \notin {t, Dram}
    BY <1>3, <2>1, <2>2, <2>3, UnfreezePosted
  <2>5. PICK kp, nlv : kp = Cell("kernel_ptr") /\ nlv = Cell("not_loaded_val")
    OBVIOUS
  <2>6. Cell("kernel_ptr")' = kp /\ Cell("not_loaded_val")' = nlv
    BY <1>1, <2>5, SameImage
  <2>7. t \in Dests
    BY <1>3, CellOf
  <2>8. Settled(t, kp, NotLoaded) /\ Settled(t, nlv, NotLoaded)
    <3>1. <<t, kp, NotLoaded>> \in Boot(Image, t) /\ <<t, nlv, NotLoaded>> \in Boot(Image, t)
      BY <2>5 DEF Boot, Cell
    <3>2. QED
      BY <2>4, <3>1
  <2>9. Settled(t, kp, NotLoaded)' /\ Settled(t, nlv, NotLoaded)'
    BY <2>7, <2>8, SettledMoved
  <2>10. /\ mem'[t][kp] = NotLoaded /\ ~StoredIn(todo', t, kp) /\ mem'[t][nlv] = NotLoaded
         /\ \A i \in DOMAIN net'[t] : net'[t][i].at # kp /\ net'[t][i].at # nlv
    BY <2>9 DEF Settled, Pending, SentTo
  <2>11. run'[t] = "off"
    BY <1>1, <2>4
  <2>12. Waits(t)' /\ PointerInMemory(t)'
    BY <2>6, <2>10 DEF Waits, PointerInMemory
  <2>13. PointerSent(t)' /\ PointerToSend(t)' /\ InKernel(t)'
    BY <2>6, <2>10, <2>11 DEF PointerSent, PointerToSend, InKernel
  <2>14. QED
    BY <2>12, <2>13 DEF KernelTile
<1>6. QED
  BY <1>4, <1>5

LEMMA InvHost ==
  ASSUME IInv, HostStore \/ HostFence
  PROVE  IInv'
<1>1. Types /\ HeldApart /\ TriggerInv /\ UnfreezeInv /\ FinishInv /\ LaunchInv /\ FitsInv
      /\ LoadInv /\ LoadedInv /\ OffInv /\ KernelInv
  BY DEF IInv, ScriptInv
<1>2. Moves /\ Advances
  BY <1>1, MovesOf
<1>3. UNCHANGED <<images, launches, loaded, call, ok>>
  BY <1>2 DEF Advances
<1>4. Types'
  BY <1>1, TypesHost
<1>5. HeldApart' /\ FitsInv'
  BY <1>1, <1>3, HeldKept, FitsKept
<1>6. TriggerInv' /\ UnfreezeInv' /\ FinishInv'
  BY <1>1, <1>2, TriggerKept, UnfreezeKept, FinishKept
<1>7. LaunchInv'
  BY <1>1, <1>2, LaunchMoved
<1>8. LoadInv' /\ LoadedInv' /\ OffInv'
  BY <1>1, <1>2, LoadMoved, LoadedMoved, OffMoved
<1>9. KernelInv'
  BY <1>1, <1>2, KernelMoved
<1>10. QED
  BY <1>4, <1>5, <1>6, <1>7, <1>8, <1>9 DEF IInv, ScriptInv

------------------------------------------------------------------------------
(* A store arrives.                                                         *)

LEMMA KeepDelivered ==
  ASSUME Types, Program >= 1, Fits(Image), NEW c, NEW a, NEW v, Delivers(c, a, v), NEW t \in Tiles, Keep(t)
  PROVE  Keep(t)'
<1>1. UNCHANGED <<images, dramOn>> /\ Program' = Program
  BY SameImage DEF Delivers, hostVars
<1>2. ASSUME NEW w \in Wanted(Image, Program, t) PROVE Settled(w[1], w[2], w[3])'
  <2>1. PICK e, b, u : e = w[1] /\ b = w[2] /\ u = w[3]
    OBVIOUS
  <2>2. Settled(e, b, u) /\ e \in Dests /\ b \in Cells(e)
    BY <2>1, WordsAt DEF Keep
  <2>3. Settled(e, b, u)'
    BY <2>2, SettledDelivered
  <2>4. QED
    BY <2>1, <2>3
<1>3. Ready(Dram)'
  BY ReadyDelivered DEF Keep, Dests
<1>4. run'[t] # "off" => runs'[t] = Program'
  <2>1. run[t] # "off" => runs[t] = Program
    BY DEF Keep
  <2>2. CASE a # Csr("freeze")
    BY <1>1, <2>1, <2>2 DEF Delivers
  <2>3. CASE a = Csr("freeze") /\ c # t
    BY <1>1, <2>1, <2>3 DEF Delivers, TilesOnly
  <2>4. CASE a = Csr("freeze") /\ c = t /\ v = One
    BY <2>4 DEF Delivers
  <2>5. CASE a = Csr("freeze") /\ c = t /\ v # One
    BY <1>1, <2>5 DEF Delivers
  <2>6. QED
    BY <2>2, <2>3, <2>4, <2>5
<1>5. Wanted(Image, Program, t)' = Wanted(Image, Program, t)
  BY <1>1, WantedSame
<1>6. QED
  BY <1>2, <1>3, <1>4, <1>5 DEF Keep

LEMMA ScriptDelivered ==
  ASSUME TriggerInv, UnfreezeInv, FinishInv, NEW c, NEW a, NEW v, Delivers(c, a, v)
  PROVE  TriggerInv' /\ UnfreezeInv' /\ FinishInv'
<1>1. UNCHANGED <<call, ok, todo, images, launches>> /\ ~NetEmpty
  BY DEF Delivers, hostVars, NetEmpty
<1>2. Triggers' = Triggers
  BY <1>1, SameTriggers
<1>3. TriggerInv'
  BY <1>1, <1>2 DEF TriggerInv
<1>4. UnfreezeInv'
  BY <1>1 DEF UnfreezeInv
<1>5. FinishInv'
  BY <1>1 DEF FinishInv
<1>6. QED
  BY <1>3, <1>4, <1>5

\* The invariant of a launch follows its facts.
LEMMA LaunchFollows ==
  ASSUME Types, LaunchInv, UNCHANGED <<call, images, launches, todo>>,
         \A n \in DOMAIN launches, t \in Tiles :
           call = "launch" /\ n = Len(launches) /\ ToWake(t) /\ n \notin fin =>
             /\ n \notin fin'
             /\ \A f \in Facts(t, n) : Final(f[1], f[2], f[3], FALSE) => Final(f[1], f[2], f[3], FALSE)'
  PROVE  LaunchInv'
<1>2. SUFFICES ASSUME call = "launch" PROVE LaunchInv'
  BY DEF LaunchInv
<1>3. PICK n : n = Len(launches)
  OBVIOUS
<1>4. Len(launches') = n
  BY <1>3
<1>5. /\ n \in DOMAIN launches /\ Placed(n) /\ launches[n].status = "allocated"
      /\ \A i \in DOMAIN todo : todo[i] \in LaunchStores(n)
      /\ \A t \in Tiles : Has(todo, Wake(t, n)) =>
           n \notin fin /\ \A f \in Facts(t, n) : Final(f[1], f[2], f[3], FALSE)
  BY <1>2, <1>3 DEF LaunchInv, ToWake
<1>6. n \in DOMAIN launches' /\ Placed(n)' /\ launches'[n].status = "allocated"
  BY <1>5, HeldKept
<1>7. \A i \in DOMAIN todo' : todo'[i] \in LaunchStores(n)'
  <2>1. LaunchStores(n)' = LaunchStores(n)
    BY LaunchSameSteps
  <2>2. QED
    BY <1>5, <2>1
<1>8. ASSUME NEW t \in Tiles, Has(todo', Wake(t, n)')
      PROVE n \notin fin' /\ \A f \in Facts(t, n)' : Final(f[1], f[2], f[3], FALSE)'
  <2>1. Wake(t, n)' = Wake(t, n) /\ Facts(t, n)' = Facts(t, n)
    BY LaunchSameSteps, HeldKept
  <2>2. Has(todo, Wake(t, n))
    BY <1>8, <2>1
  <2>3. ToWake(t)
    BY <1>3, <2>2 DEF ToWake
  <2>4. QED
    BY <1>2, <1>3, <1>5, <2>1, <2>2, <2>3
<1>9. QED
  BY <1>3, <1>4, <1>6, <1>7, <1>8 DEF LaunchInv, ToWake

\* So does the invariant of a program that is being loaded.
LEMMA LoadFollows ==
  ASSUME Types, FitsInv, LoadInv, UNCHANGED <<call, ok, images, dramOn, todo>>,
         Program >= 1 /\ Fits(Image) /\ call = "load" => \A t \in Tiles :
           /\ Keep(t) => Keep(t)'
           /\ \A w \in Wanted(Image, Program, t) \cup Boot(Image, t) :
                Final(w[1], w[2], w[3], TRUE) => Final(w[1], w[2], w[3], TRUE)'
  PROVE  LoadInv'
<1>1. SUFFICES ASSUME call = "load", ok, NEW t \in Tiles
               PROVE  IF ToUnfreeze(t)'
                        THEN \A w \in (Wanted(Image, Program, t) \cup Boot(Image, t))' :
                               Final(w[1], w[2], w[3], TRUE)'
                        ELSE Keep(t)' /\ \A i \in DOMAIN todo' : todo'[i].op = "store" => todo'[i].to \notin {t, Dram}
  BY DEF LoadInv
<1>2. Program >= 1 /\ Fits(Image)
  BY <1>1 DEF Types, CallInv, FitsInv
<1>3. Wanted(Image, Program, t)' = Wanted(Image, Program, t) /\ Boot(Image, t)' = Boot(Image, t)
  BY WantedSame
<1>4. ToUnfreeze(t)' <=> ToUnfreeze(t)
  BY DEF ToUnfreeze
<1>5. QED
  BY <1>1, <1>2, <1>3, <1>4 DEF LoadInv

LEMMA LoadedFollows ==
  ASSUME Types, FitsInv, LoadedInv, loaded' => loaded,
         Program >= 1 /\ Fits(Image) /\ loaded /\ loaded' => \A t \in Tiles : Keep(t) => Keep(t)'
  PROVE  LoadedInv'
BY DEF LoadedInv, Types, CallInv, FitsInv

LEMMA LaunchDelivered ==
  ASSUME Types, LaunchInv, LoadedInv, NEW c, NEW a, NEW v, Delivers(c, a, v)
  PROVE  LaunchInv'
<1>1. UNCHANGED <<call, images, launches, todo, fin>>
  BY DEF Delivers, hostVars
<1>2. ASSUME NEW n \in DOMAIN launches, NEW t \in Tiles, call = "launch", NEW f \in Facts(t, n),
             Final(f[1], f[2], f[3], FALSE)
      PROVE  Final(f[1], f[2], f[3], FALSE)'
  <2>1. PICK e, b, u : e = f[1] /\ b = f[2] /\ u = f[3]
    OBVIOUS
  <2>2. Program >= 1 /\ Ready(Dram)
    BY <1>2 DEF Types, CallInv, LoadedInv, Keep
  <2>3. e \in Dests /\ b \in Cells(e)
    BY <2>1, <2>2, FactAt
  <2>4. Final(e, b, u, FALSE)'
    BY <1>2, <2>1, <2>2, <2>3, FinalDelivered
  <2>5. QED
    BY <2>1, <2>4
<1>3. QED
  BY <1>1, <1>2, LaunchFollows

LEMMA LoadDelivered ==
  ASSUME Types, FitsInv, LoadInv, LoadedInv, NEW c, NEW a, NEW v, Delivers(c, a, v)
  PROVE  LoadInv' /\ LoadedInv'
<1>1. UNCHANGED <<call, ok, loaded, images, todo, dramOn>>
  BY DEF Delivers, hostVars
<1>2. ASSUME Program >= 1, Fits(Image), NEW t \in Tiles PROVE Keep(t) => Keep(t)'
  BY <1>2, KeepDelivered
<1>3. ASSUME Program >= 1, Fits(Image), NEW t \in Tiles, NEW w \in Wanted(Image, Program, t) \cup Boot(Image, t),
             Final(w[1], w[2], w[3], TRUE)
      PROVE  Final(w[1], w[2], w[3], TRUE)'
  <2>1. PICK e, b, u : e = w[1] /\ b = w[2] /\ u = w[3]
    OBVIOUS
  <2>2. e \in Dests /\ b \in Cells(e) /\ Final(e, b, u, TRUE)
    BY <1>3, <2>1, WordsAt, BootAt
  <2>3. Final(e, b, u, TRUE)'
    BY <2>2, FinalDelivered
  <2>4. QED
    BY <2>1, <2>3
<1>4. LoadInv'
  BY <1>1, <1>2, <1>3, LoadFollows
<1>5. LoadedInv'
  BY <1>1, <1>2, LoadedFollows
<1>6. QED
  BY <1>4, <1>5

LEMMA OffDelivered ==
  ASSUME OffInv, NEW c, NEW a, NEW v, Delivers(c, a, v)
  PROVE  OffInv'
<1>1. UNCHANGED <<call, ok, loaded, crashes, todo>>
  BY DEF Delivers, hostVars
<1>2. \A t \in Tiles : Ready(t) => Ready(t)'
  BY ReadyDelivered DEF Dests
<1>3. ASSUME NEW t \in Tiles, Stops(t) PROVE Stops(t)'
  <2>1. CASE Ready(t)
    BY <1>2, <2>1 DEF Stops
  <2>2. CASE \E p \in DOMAIN net[t] : Marked(t, p)
    <3>1. PICK p : Marked(t, p)
      BY <2>2
    <3>2. CASE c = t /\ p = 1
      <4>1. Ready(t)'
        BY <3>1, <3>2, ReadyDelivered DEF Dests
      <4>2. QED
        BY <4>1 DEF Stops
    <3>3. CASE ~(c = t /\ p = 1)
      <4>1. \E q : Marked(t, q)'
        BY <3>1, <3>3, ReadyDelivered DEF Dests
      <4>2. QED
        BY <4>1 DEF Stops, Marked
    <3>4. QED
      BY <3>2, <3>3
  <2>3. CASE Has(todo, Mark(t))
    BY <1>1, <2>3 DEF Stops
  <2>4. QED
    BY <1>3, <2>1, <2>2, <2>3 DEF Stops
<1>4. \A t : ToUnfreeze(t)' <=> ToUnfreeze(t)
  BY <1>1 DEF ToUnfreeze
<1>5. QED
  BY <1>1, <1>2, <1>3, <1>4 DEF OffInv

LEMMA WokenDelivered ==
  ASSUME Types, Program >= 1, NEW c, NEW a, NEW v, Delivers(c, a, v), NEW t \in Tiles, NEW n, Woken(t, n)
  PROVE  Woken(t, n)'
<1>1. UNCHANGED <<images, launches, fin>>
  BY DEF Delivers, hostVars
<1>2. n \in Held /\ n \in DOMAIN launches /\ t \in launches[n].tiles /\ n \notin fin
      /\ \A f \in Facts(t, n) : Settled(f[1], f[2], f[3])
  BY DEF Woken, Held
<1>3. ASSUME NEW f \in Facts(t, n) PROVE Settled(f[1], f[2], f[3])'
  <2>1. PICK e, b, u : e = f[1] /\ b = f[2] /\ u = f[3]
    OBVIOUS
  <2>2. Settled(e, b, u) /\ e \in Dests /\ b \in Cells(e)
    BY <1>2, <2>1, FactAt
  <2>3. Settled(e, b, u)'
    BY <2>2, SettledDelivered
  <2>4. QED
    BY <2>1, <2>3
<1>4. Held' = Held /\ Facts(t, n)' = Facts(t, n)
  BY <1>1, HeldKept
<1>5. QED
  BY <1>1, <1>2, <1>3, <1>4 DEF Woken

LEMMA PointerDelivered ==
  ASSUME Types, Program >= 1, NEW c, NEW a, NEW v, Delivers(c, a, v), NEW t \in Tiles, KernelTile(t)
  PROVE  KernelTile(t)'
<1>0. UNCHANGED <<call, images, launches, fin, todo, got>> /\ t \in Dests /\ t # Dram
  BY CellOf DEF Delivers, hostVars
<1>1. PICK kp, nlv : kp = Cell("kernel_ptr") /\ nlv = Cell("not_loaded_val")
  OBVIOUS
<1>2. Cell("kernel_ptr")' = kp /\ Cell("not_loaded_val")' = nlv /\ kp # nlv
  BY <1>0, <1>1, SameImage, CellOf
<1>3. kp \in Cells(t) /\ nlv \in Cells(t) /\ kp # Csr("freeze")
  BY <1>1, CellOf
<1>4. \A n : Woken(t, n) => Woken(t, n)'
  BY WokenDelivered
<1>5. run'[t] = "kernel" => run[t] = "kernel"
  <2>1. CASE a # Csr("freeze")
    BY <2>1 DEF Delivers
  <2>2. CASE a = Csr("freeze") /\ c # t
    BY <2>2 DEF Delivers, TilesOnly
  <2>3. CASE a = Csr("freeze") /\ c = t
    BY <2>3 DEF Delivers
  <2>4. QED
    BY <2>1, <2>2, <2>3
<1>6. CASE c # t
  <2>1. net'[t] = net[t] /\ mem'[t] = mem[t]
    BY <1>0, <1>6 DEF Delivers
  <2>2. Unset(t) => Unset(t)'
    BY <1>1, <1>2, <1>5, <2>1 DEF Unset
  <2>3. Waits(t)' /\ PointerInMemory(t)'
    BY <1>0, <1>1, <1>2, <1>4, <2>1 DEF KernelTile, Waits, PointerInMemory
  <2>4. PointerSent(t)'
    BY <1>0, <1>1, <1>2, <1>4, <2>1, <2>2 DEF KernelTile, PointerSent
  <2>5. PointerToSend(t)'
    BY <1>0, <1>1, <1>2, <2>1, <2>2 DEF KernelTile, PointerToSend, SentTo
  <2>6. InKernel(t)'
    BY <1>0, <1>1, <1>2, <1>5, <2>1 DEF KernelTile, InKernel
  <2>7. QED
    BY <2>3, <2>4, <2>5, <2>6 DEF KernelTile
<1>7. CASE c = t
  <2>1. /\ 1 \in DOMAIN net[t] /\ net[t][1].at = a /\ net[t][1].val = v
        /\ \A i \in DOMAIN net'[t] : i + 1 \in DOMAIN net[t] /\ net'[t][i] = net[t][i + 1] /\ i \in Nat /\ i >= 1
        /\ \A b \in Cells(t) : b # a => mem'[t][b] = mem[t][b]
        /\ mem'[t][a] = v
    <3>1. net[t][1].at = a /\ net[t][1].val = v
      BY <1>7, PacketFields DEF Delivers
    <3>2. \A i \in DOMAIN net'[t] : i \in Nat /\ i >= 1
      BY <1>7 DEF Delivers
    <3>3. QED
      BY <1>0, <1>7, <3>1, <3>2 DEF Delivers
  <2>2. Waits(t)'
    <3>1. mem'[t][nlv] = NotLoaded
      BY <1>1, <1>3, <2>1 DEF KernelTile, Waits
    <3>2. \A i \in DOMAIN net'[t] : net'[t][i].at = nlv => net'[t][i].val = NotLoaded
      BY <1>1, <2>1 DEF KernelTile, Waits
    <3>3. QED
      BY <1>2, <3>1, <3>2 DEF Waits
  <2>3. \A i \in DOMAIN net'[t] : net'[t][i].at = kp => a # kp
    <3>1. SUFFICES ASSUME NEW i \in DOMAIN net'[t], net'[t][i].at = kp, a = kp PROVE FALSE
      OBVIOUS
    <3>2. i + 1 \in DOMAIN net[t] /\ net[t][i + 1].at = kp /\ i + 1 # 1
      BY <2>1, <3>1
    <3>3. \A j \in DOMAIN net[t] : net[t][j].at = kp => j = i + 1
      BY <1>1, <3>2 DEF KernelTile, PointerSent
    <3>4. QED
      BY <2>1, <3>1, <3>2, <3>3
  <2>4. a = kp => /\ \E n \in DOMAIN launches : v = LaunchWord(n) /\ Woken(t, n)
                  /\ Unset(t)
    BY <1>1, <2>1 DEF KernelTile, PointerSent
  <2>5. a # kp => (Unset(t) => Unset(t)')
    BY <1>1, <1>2, <1>3, <1>5, <2>1 DEF Unset
  <2>6. PointerInMemory(t)'
    <3>1. CASE a = kp
      BY <1>0, <1>2, <1>4, <2>1, <2>4, <3>1 DEF PointerInMemory
    <3>2. CASE a # kp
      BY <1>0, <1>1, <1>2, <1>3, <1>4, <2>1, <3>2 DEF KernelTile, PointerInMemory
    <3>3. QED
      BY <3>1, <3>2
  <2>7. PointerSent(t)'
    <3>1. SUFFICES ASSUME NEW i \in DOMAIN net'[t], net'[t][i].at = kp
                   PROVE  /\ \E n \in DOMAIN launches' : net'[t][i].val = LaunchWord(n) /\ Woken(t, n)'
                          /\ Unset(t)' /\ \A j \in DOMAIN net'[t] : net'[t][j].at = kp => j = i
      BY <1>2 DEF PointerSent
    <3>2. PICK k : k = i + 1
      OBVIOUS
    <3>3. k \in DOMAIN net[t] /\ net'[t][i] = net[t][k] /\ net[t][k].at = kp /\ a # kp
      BY <2>1, <2>3, <3>1, <3>2
    <3>4. /\ \E n \in DOMAIN launches : net[t][k].val = LaunchWord(n) /\ Woken(t, n)
          /\ Unset(t) /\ \A j \in DOMAIN net[t] : net[t][j].at = kp => j = k
      BY <1>1, <3>3 DEF KernelTile, PointerSent
    <3>5. \A j \in DOMAIN net'[t] : net'[t][j].at = kp => j = i
      <4>1. SUFFICES ASSUME NEW j \in DOMAIN net'[t], net'[t][j].at = kp PROVE j = i
        OBVIOUS
      <4>2. j + 1 = k
        BY <2>1, <3>4, <4>1
      <4>3. QED
        BY <2>1, <3>1, <3>2, <4>1, <4>2
    <3>6. QED
      BY <1>0, <1>4, <2>5, <3>3, <3>4, <3>5
  <2>8. PointerToSend(t)'
    <3>1. SUFFICES ASSUME StoredIn(todo, t, kp) PROVE Unset(t)' /\ ~SentTo(t, kp)'
      BY <1>0, <1>2 DEF PointerToSend, SentTo
    <3>2. Unset(t) /\ ~SentTo(t, kp)
      BY <1>1, <3>1 DEF KernelTile, PointerToSend
    <3>3. a # kp
      BY <2>1, <3>2 DEF SentTo
    <3>4. ~SentTo(t, kp)'
      BY <2>1, <3>2 DEF SentTo
    <3>5. QED
      BY <2>5, <3>2, <3>3, <3>4
  <2>9. InKernel(t)'
    <3>1. SUFFICES ASSUME run'[t] = "kernel" PROVE mem'[t][kp] = LaunchWord(got'[t])
      BY <1>2 DEF InKernel
    <3>2. run[t] = "kernel" /\ mem[t][kp] = LaunchWord(got[t])
      BY <1>1, <1>5, <3>1 DEF KernelTile, InKernel
    <3>3. a # kp
      BY <2>4, <3>2 DEF Unset
    <3>4. QED
      BY <1>0, <1>3, <2>1, <3>2, <3>3
  <2>10. QED
    BY <2>2, <2>6, <2>7, <2>8, <2>9 DEF KernelTile
<1>8. QED
  BY <1>6, <1>7

LEMMA InvDelivers ==
  ASSUME IInv, NEW d \in DOMAIN net, Deliver(d)
  PROVE  IInv'
<1>1. Types /\ HeldApart /\ TriggerInv /\ UnfreezeInv /\ FinishInv /\ LaunchInv /\ FitsInv
      /\ LoadInv /\ LoadedInv /\ OffInv /\ KernelInv
  BY DEF IInv, ScriptInv
<1>2. PICK a, v : Delivers(d, a, v)
  BY <1>1, DeliverOf
<1>3. UNCHANGED <<images, launches, loaded, call, ok, todo>>
  BY <1>2 DEF Delivers, hostVars
<1>4. Types'
  BY <1>1, TypesDelivers
<1>5. HeldApart' /\ FitsInv'
  BY <1>1, <1>3, HeldKept, FitsKept
<1>6. TriggerInv' /\ UnfreezeInv' /\ FinishInv'
  BY <1>1, <1>2, ScriptDelivered
<1>7. LaunchInv'
  BY <1>1, <1>2, LaunchDelivered
<1>8. LoadInv' /\ LoadedInv' /\ OffInv'
  BY <1>1, <1>2, LoadDelivered, OffDelivered
<1>9. KernelInv'
  <2>1. SUFFICES ASSUME NEW t \in Tiles, Up(t)' PROVE KernelTile(t)'
    BY DEF KernelInv, KernelTile
  <2>2. Up(t)
    BY <1>3, <2>1 DEF Up, ToUnfreeze
  <2>3. Program >= 1
    BY <1>1, <2>2 DEF Up, Types, CallInv
  <2>4. KernelTile(t)
    BY <1>1, <2>2 DEF KernelInv, KernelTile
  <2>5. QED
    BY <1>1, <1>2, <2>3, <2>4, PointerDelivered
<1>10. QED
  BY <1>4, <1>5, <1>6, <1>7, <1>8, <1>9 DEF IInv, ScriptInv

------------------------------------------------------------------------------
(* A tile enters its kernel, a tile group leaves it.                        *)

\* Only tiles that run go on; the cells that change are kernel pointers of
\* tiles in a kernel.
Runs ==
  /\ UNCHANGED <<hostVars, net, runs, dramOn>>
  /\ \A t \in Tiles : run'[t] # run[t] => run[t] # "off" /\ run'[t] # "off"
  /\ \A d \in Dests : \A b \in Cells(d) :
       mem'[d][b] = mem[d][b] \/ (d \in Tiles /\ run[d] = "kernel" /\ b = PointerCell(d))

LEMMA RunsOf ==
  ASSUME Types
  PROVE  /\ \A t \in Tiles : Wakens(t) => Runs
         /\ \A n : Completes(n) => Runs
<1>1. ASSUME NEW t \in Tiles, Wakens(t) PROVE Runs
  <2>1. \A u \in Tiles : run'[u] # run[u] => run[u] # "off" /\ run'[u] # "off"
    BY <1>1 DEF Wakens
  <2>2. QED
    BY <1>1, <2>1 DEF Wakens, Runs
<1>2. ASSUME NEW n, Completes(n) PROVE Runs
  <2>1. UNCHANGED <<hostVars, net, runs, dramOn>>
    BY <1>2 DEF Completes
  <2>2. \A t \in Tiles : run'[t] # run[t] => run[t] # "off" /\ run'[t] # "off"
    BY <1>2 DEF Completes
  <2>3. ASSUME NEW d \in Dests, NEW b \in Cells(d)
        PROVE  mem'[d][b] = mem[d][b] \/ (d \in Tiles /\ run[d] = "kernel" /\ b = PointerCell(d))
    <3>1. CASE d \in launches[n].tiles
      BY <1>2, <3>1 DEF Completes
    <3>2. CASE d \notin launches[n].tiles
      BY <1>2, <3>2 DEF Completes
    <3>3. QED
      BY <3>1, <3>2
  <2>4. QED
    BY <2>1, <2>2, <2>3 DEF Runs
<1>3. QED
  BY <1>1, <1>2

LEMMA ReadyRuns ==
  ASSUME Types, Runs, NEW e \in Dests
  PROVE  Ready(e) => Ready(e)'
<1>1. CASE e = Dram
  <2>1. Tags \in Cells(Dram) /\ Dram \notin Tiles
    BY CellTypes, NumTiles DEF Cells
  <2>2. mem'[Dram][Tags] = mem[Dram][Tags] /\ dramOn' = dramOn
    BY <1>1, <2>1 DEF Runs
  <2>3. QED
    BY <1>1, <2>2 DEF Ready
<1>2. CASE e # Dram
  <2>1. e \in Tiles
    BY <1>2 DEF Dests
  <2>2. QED
    BY <1>2, <2>1 DEF Runs, Ready
<1>3. QED
  BY <1>1, <1>2

\* A tile that runs the program of its pod waits at that program's pointer.
LEMMA PointerOf ==
  ASSUME Types, Program >= 1, NEW t \in Tiles, Keep(t), run[t] # "off"
  PROVE  /\ PointerCell(t) = Cell("kernel_ptr") /\ runs[t] = Program
         /\ \A y : TileSymbol(t, y) = mem[t][Cell(y)]
<1>1. runs[t] = Program
  BY DEF Keep
<1>2. QED
  BY <1>1 DEF PointerCell, TileSymbol, Cell, Image

\* The other cells of a tile that keeps its program stay.
LEMMA CellKept ==
  ASSUME Types, Program >= 1, Runs, NEW e \in Dests, e # Dram => Keep(e),
         NEW b \in Cells(e), e # Dram => b # Cell("kernel_ptr")
  PROVE  mem'[e][b] = mem[e][b]
<1>1. SUFFICES ASSUME e \in Tiles, run[e] = "kernel", b = PointerCell(e) PROVE FALSE
  BY DEF Runs
<1>2. e # Dram
  BY <1>1, NumTiles
<1>3. PointerCell(e) = Cell("kernel_ptr")
  BY <1>1, <1>2, PointerOf
<1>4. QED
  BY <1>1, <1>2, <1>3

LEMMA KeepRuns ==
  ASSUME Types, Program >= 1, Fits(Image), Runs, NEW t \in Tiles, Keep(t)
  PROVE  Keep(t)'
<1>1. UNCHANGED <<images, dramOn, todo, net, runs>> /\ Program' = Program
  BY SameImage DEF Runs, hostVars
<1>2. ASSUME NEW w \in Wanted(Image, Program, t) PROVE Settled(w[1], w[2], w[3])'
  <2>1. PICK e, b, u : e = w[1] /\ b = w[2] /\ u = w[3]
    OBVIOUS
  <2>2. Settled(e, b, u) /\ e \in Dests /\ b \in Cells(e) /\ (e = Dram \/ e = t) /\ b \notin SymbolCells(Image)
    BY <2>1, WordsAt DEF Keep
  <2>3. b # Cell("kernel_ptr")
    BY <2>2, CellOf
  <2>4. mem'[e][b] = mem[e][b]
    BY <2>2, <2>3, CellKept
  <2>5. Settled(e, b, u)'
    BY <1>1, <2>2, <2>4, SettledQuiet
  <2>6. QED
    BY <2>1, <2>5
<1>3. Ready(Dram)'
  BY ReadyRuns DEF Keep, Dests
<1>4. run'[t] # "off" => runs'[t] = Program'
  BY <1>1 DEF Keep, Runs
<1>5. Wanted(Image, Program, t)' = Wanted(Image, Program, t)
  BY <1>1, WantedSame
<1>6. QED
  BY <1>2, <1>3, <1>4, <1>5 DEF Keep

LEMMA UpKeeps ==
  ASSUME LoadInv, LoadedInv, NEW t \in Tiles, Up(t)
  PROVE  Keep(t)
BY DEF LoadInv, LoadedInv, Up

LEMMA ScriptRuns ==
  ASSUME TriggerInv, UnfreezeInv, FinishInv, Runs
  PROVE  TriggerInv' /\ UnfreezeInv' /\ FinishInv'
<1>1. UNCHANGED <<call, ok, todo, images, launches, net>>
  BY DEF Runs, hostVars
<1>2. Triggers' = Triggers
  BY <1>1, SameTriggers
<1>3. NetEmpty' <=> NetEmpty
  BY <1>1 DEF NetEmpty
<1>4. TriggerInv'
  BY <1>1, <1>2, <1>3 DEF TriggerInv
<1>5. UnfreezeInv'
  BY <1>1 DEF UnfreezeInv
<1>6. FinishInv'
  BY <1>1, <1>3 DEF FinishInv
<1>7. QED
  BY <1>4, <1>5, <1>6

LEMMA LoadRuns ==
  ASSUME Types, FitsInv, LoadInv, LoadedInv, Runs
  PROVE  LoadInv' /\ LoadedInv'
<1>1. UNCHANGED <<call, ok, loaded, images, todo, net, dramOn>>
  BY DEF Runs, hostVars
<1>2. ASSUME Program >= 1, Fits(Image), NEW t \in Tiles PROVE Keep(t) => Keep(t)'
  BY <1>2, KeepRuns
<1>3. ASSUME Program >= 1, Fits(Image), NEW t \in Tiles, NEW w \in Wanted(Image, Program, t) \cup Boot(Image, t),
             Final(w[1], w[2], w[3], TRUE)
      PROVE  Final(w[1], w[2], w[3], TRUE)'
  <2>1. PICK e, b, u : e = w[1] /\ b = w[2] /\ u = w[3]
    OBVIOUS
  <2>2. e \in Dests /\ b \in Cells(e) /\ Final(e, b, u, TRUE)
    BY <1>3, <2>1, WordsAt, BootAt
  <2>3. Ready(e) => mem'[e][b] = mem[e][b]
    <3>1. CASE e = Dram
      BY <2>2, <3>1, NumTiles DEF Runs
    <3>2. CASE e # Dram
      BY <2>2, <3>2 DEF Runs, Ready
    <3>3. QED
      BY <3>1, <3>2
  <2>4. Final(e, b, u, TRUE)'
    BY <1>1, <2>2, <2>3, ReadyRuns, FinalQuiet
  <2>5. QED
    BY <2>1, <2>4
<1>4. LoadInv'
  BY <1>1, <1>2, <1>3, LoadFollows
<1>5. LoadedInv'
  BY <1>1, <1>2, LoadedFollows
<1>6. QED
  BY <1>4, <1>5

LEMMA OffRuns ==
  ASSUME Types, OffInv, Runs
  PROVE  OffInv'
<1>1. UNCHANGED <<call, ok, loaded, crashes, todo, net>>
  BY DEF Runs, hostVars
<1>2. \A t \in Tiles : Ready(t) => Ready(t)'
  BY ReadyRuns DEF Dests
<1>3. \A t \in Tiles : Stops(t) => Stops(t)'
  BY <1>1, <1>2 DEF Stops, Marked
<1>4. \A t : ToUnfreeze(t)' <=> ToUnfreeze(t)
  BY <1>1 DEF ToUnfreeze
<1>5. QED
  BY <1>1, <1>2, <1>3, <1>4 DEF OffInv

LEMMA LaunchRuns ==
  ASSUME Types, LaunchInv, LoadedInv, Runs,
         \A n \in DOMAIN launches, t \in Tiles :
           call = "launch" /\ n = Len(launches) /\ ToWake(t) /\ n \notin fin => n \notin fin'
  PROVE  LaunchInv'
<1>1. UNCHANGED <<call, images, launches, todo, net>>
  BY DEF Runs, hostVars
<1>2. ASSUME NEW n \in DOMAIN launches, NEW t \in Tiles, call = "launch", NEW f \in Facts(t, n),
             Final(f[1], f[2], f[3], FALSE)
      PROVE  Final(f[1], f[2], f[3], FALSE)'
  <2>1. PICK e, b, u : e = f[1] /\ b = f[2] /\ u = f[3]
    OBVIOUS
  <2>2. Program >= 1 /\ \A w \in Tiles : Keep(w)
    BY <1>2 DEF Types, CallInv, LoadedInv
  <2>3. e \in Dests /\ b \in Cells(e) /\ b # Cell("kernel_ptr") /\ (e = t \/ e = Dram)
    BY <2>1, <2>2, FactAt
  <2>4. mem'[e][b] = mem[e][b]
    BY <2>2, <2>3, CellKept
  <2>5. Final(e, b, u, FALSE)'
    BY <1>1, <1>2, <2>1, <2>3, <2>4, ReadyRuns, FinalQuiet
  <2>6. QED
    BY <2>1, <2>5
<1>3. QED
  BY <1>1, <1>2, LaunchFollows

LEMMA WokenRuns ==
  ASSUME Types, Program >= 1, Runs, NEW t \in Tiles, Keep(t), NEW n, Woken(t, n), n \notin fin'
  PROVE  Woken(t, n)'
<1>1. UNCHANGED <<images, launches, todo, net>>
  BY DEF Runs, hostVars
<1>2. n \in Held /\ n \in DOMAIN launches /\ t \in launches[n].tiles
      /\ \A f \in Facts(t, n) : Settled(f[1], f[2], f[3])
  BY DEF Woken, Held
<1>3. ASSUME NEW f \in Facts(t, n) PROVE Settled(f[1], f[2], f[3])'
  <2>1. PICK e, b, u : e = f[1] /\ b = f[2] /\ u = f[3]
    OBVIOUS
  <2>2. Settled(e, b, u) /\ e \in Dests /\ b \in Cells(e) /\ b # Cell("kernel_ptr") /\ (e = t \/ e = Dram)
    BY <1>2, <2>1, FactAt
  <2>3. mem'[e][b] = mem[e][b]
    BY <2>2, CellKept
  <2>4. Settled(e, b, u)'
    BY <1>1, <2>2, <2>3, SettledQuiet
  <2>5. QED
    BY <2>1, <2>4
<1>4. Held' = Held /\ Facts(t, n)' = Facts(t, n)
  BY <1>1, HeldKept
<1>5. QED
  BY <1>1, <1>2, <1>3, <1>4 DEF Woken

LEMMA PointerWakens ==
  ASSUME Types, Program >= 1, NEW u \in Tiles, Wakens(u), NEW t \in Tiles, Keep(t), KernelTile(t)
  PROVE  KernelTile(t)'
<1>0. Runs /\ UNCHANGED <<images, launches, fin, todo, net, mem>>
  BY RunsOf DEF Wakens, hostVars
<1>1. PICK kp, nlv : kp = Cell("kernel_ptr") /\ nlv = Cell("not_loaded_val")
  OBVIOUS
<1>2. Cell("kernel_ptr")' = kp /\ Cell("not_loaded_val")' = nlv
  BY <1>0, <1>1, SameImage
<1>3. \A n : Woken(t, n) => Woken(t, n)'
  <2>1. SUFFICES ASSUME NEW n, Woken(t, n) PROVE Woken(t, n)'
    OBVIOUS
  <2>2. n \notin fin'
    BY <1>0, <2>1 DEF Woken
  <2>3. QED
    BY <1>0, <2>1, <2>2, WokenRuns
<1>4. Waits(t)' /\ PointerInMemory(t)'
  BY <1>0, <1>1, <1>2, <1>3 DEF KernelTile, Waits, PointerInMemory
<1>5. CASE t # u
  <2>1. run'[t] = run[t] /\ got'[t] = got[t]
    BY <1>5 DEF Wakens
  <2>2. Unset(t) => Unset(t)'
    BY <1>0, <1>1, <1>2, <2>1 DEF Unset
  <2>3. PointerSent(t)'
    BY <1>0, <1>1, <1>2, <1>3, <2>2 DEF KernelTile, PointerSent
  <2>4. PointerToSend(t)'
    BY <1>0, <1>1, <1>2, <2>2 DEF KernelTile, PointerToSend, SentTo
  <2>5. InKernel(t)'
    BY <1>0, <1>1, <1>2, <2>1 DEF KernelTile, InKernel
  <2>6. QED
    BY <1>4, <2>3, <2>4, <2>5 DEF KernelTile
<1>6. CASE t = u
  <2>1. run[t] = "wait" /\ TileSymbol(t, "kernel_ptr") # TileSymbol(t, "not_loaded_val")
        /\ run'[t] = "kernel" /\ got'[t] = TileSymbol(t, "kernel_ptr")[2]
    BY <1>6 DEF Wakens
  <2>2. TileSymbol(t, "kernel_ptr") = mem[t][kp] /\ TileSymbol(t, "not_loaded_val") = mem[t][nlv]
    BY <1>1, <2>1, PointerOf
  <2>3. mem[t][kp] # NotLoaded
    BY <1>1, <2>1, <2>2 DEF KernelTile, Waits
  <2>4. PICK n \in DOMAIN launches : mem[t][kp] = LaunchWord(n)
    BY <1>1, <2>3 DEF KernelTile, PointerInMemory
  <2>5. got'[t] = n
    BY <2>1, <2>2, <2>4 DEF LaunchWord
  <2>6. InKernel(t)'
    BY <1>0, <1>2, <2>4, <2>5 DEF InKernel
  <2>7. ~Unset(t)
    BY <1>1, <2>3 DEF Unset
  <2>8. PointerSent(t)' /\ PointerToSend(t)'
    BY <1>0, <1>1, <1>2, <2>7 DEF KernelTile, PointerSent, PointerToSend
  <2>9. QED
    BY <1>4, <2>6, <2>8 DEF KernelTile
<1>7. QED
  BY <1>5, <1>6

LEMMA PointerCompletes ==
  ASSUME Types, Program >= 1, NEW n, Completes(n), NEW t \in Tiles, Keep(t), KernelTile(t)
  PROVE  KernelTile(t)'
<1>0. Runs /\ UNCHANGED <<images, launches, todo, net, got>> /\ fin' = fin \cup {n} /\ t \in Dests
      /\ DOMAIN launches' = DOMAIN launches
  BY RunsOf DEF Completes, hostVars, Dests
<1>1. PICK kp, nlv : kp = Cell("kernel_ptr") /\ nlv = Cell("not_loaded_val")
  OBVIOUS
<1>2. Cell("kernel_ptr")' = kp /\ Cell("not_loaded_val")' = nlv /\ kp # nlv /\ nlv \in Cells(t)
  BY <1>0, <1>1, SameImage, CellOf
<1>3. \A m : Woken(t, m) /\ m # n => Woken(t, m)'
  <2>1. SUFFICES ASSUME NEW m, Woken(t, m), m # n PROVE Woken(t, m)'
    OBVIOUS
  <2>2. m \notin fin'
    BY <1>0, <2>1 DEF Woken
  <2>3. QED
    BY <1>0, <2>1, <2>2, WokenRuns
<1>4. mem'[t][nlv] = mem[t][nlv]
  BY <1>0, <1>1, <1>2, CellKept
<1>5. Waits(t)'
  BY <1>0, <1>1, <1>2, <1>4 DEF KernelTile, Waits
<1>6. CASE t \in launches[n].tiles
  <2>1. run[t] = "kernel" /\ run'[t] = "wait" /\ mem'[t][PointerCell(t)] = TileSymbol(t, "not_loaded_val")
    BY <1>6 DEF Completes
  <2>2. PointerCell(t) = kp /\ TileSymbol(t, "not_loaded_val") = mem[t][nlv]
    BY <1>1, <2>1, PointerOf
  <2>3. mem'[t][kp] = NotLoaded
    BY <1>1, <2>1, <2>2 DEF KernelTile, Waits
  <2>4. PointerInMemory(t)' /\ InKernel(t)'
    BY <1>2, <2>1, <2>3 DEF PointerInMemory, InKernel
  <2>5. ~Unset(t)
    BY <2>1 DEF Unset
  <2>6. PointerSent(t)' /\ PointerToSend(t)'
    BY <1>0, <1>1, <1>2, <2>5 DEF KernelTile, PointerSent, PointerToSend
  <2>7. QED
    BY <1>5, <2>4, <2>6 DEF KernelTile
<1>7. CASE t \notin launches[n].tiles
  <2>1. run'[t] = run[t] /\ mem'[t] = mem[t] /\ got'[t] = got[t]
    BY <1>0, <1>7 DEF Completes
  <2>2. \A m : Woken(t, m) => Woken(t, m)'
    <3>1. \A m : Woken(t, m) => m # n
      BY <1>7 DEF Woken
    <3>2. QED
      BY <1>3, <3>1
  <2>3. Unset(t) => Unset(t)'
    BY <1>1, <1>2, <2>1 DEF Unset
  <2>4. PointerInMemory(t)'
    BY <1>0, <1>1, <1>2, <2>1, <2>2 DEF KernelTile, PointerInMemory
  <2>5. PointerSent(t)'
    BY <1>0, <1>1, <1>2, <2>2, <2>3 DEF KernelTile, PointerSent
  <2>6. PointerToSend(t)'
    BY <1>0, <1>1, <1>2, <2>3 DEF KernelTile, PointerToSend, SentTo
  <2>7. InKernel(t)'
    BY <1>1, <1>2, <2>1 DEF KernelTile, InKernel
  <2>8. QED
    BY <1>5, <2>4, <2>5, <2>6, <2>7 DEF KernelTile
<1>8. QED
  BY <1>6, <1>7

LEMMA InvRuns ==
  ASSUME IInv, Types', Runs, UNCHANGED <<images, launches>>,
         Program >= 1 => \A t \in Tiles : Keep(t) /\ KernelTile(t) => KernelTile(t)',
         \A n \in DOMAIN launches, t \in Tiles :
           call = "launch" /\ n = Len(launches) /\ ToWake(t) /\ n \notin fin => n \notin fin'
  PROVE  IInv'
<1>1. Types /\ HeldApart /\ TriggerInv /\ UnfreezeInv /\ FinishInv /\ LaunchInv /\ FitsInv
      /\ LoadInv /\ LoadedInv /\ OffInv /\ KernelInv
  BY DEF IInv, ScriptInv
<1>2. UNCHANGED <<loaded, call, ok, todo>>
  BY DEF Runs, hostVars
<1>3. HeldApart' /\ FitsInv'
  BY <1>1, <1>2, HeldKept, FitsKept
<1>4. TriggerInv' /\ UnfreezeInv' /\ FinishInv'
  BY <1>1, ScriptRuns
<1>5. LaunchInv'
  BY <1>1, LaunchRuns
<1>6. LoadInv' /\ LoadedInv' /\ OffInv'
  BY <1>1, LoadRuns, OffRuns
<1>7. KernelInv'
  <2>1. SUFFICES ASSUME NEW t \in Tiles, Up(t)' PROVE KernelTile(t)'
    BY DEF KernelInv, KernelTile
  <2>2. Up(t)
    BY <1>2, <2>1 DEF Up, ToUnfreeze
  <2>3. Program >= 1
    BY <1>1, <2>2 DEF Up, Types, CallInv
  <2>4. KernelTile(t) /\ Keep(t)
    BY <1>1, <2>2, UpKeeps DEF KernelInv, KernelTile
  <2>5. QED
    BY <2>3, <2>4
<1>8. QED
  BY <1>3, <1>4, <1>5, <1>6, <1>7 DEF IInv, ScriptInv

LEMMA InvWakens ==
  ASSUME IInv, NEW u \in Tiles, StartKernel(u)
  PROVE  IInv'
<1>1. Types /\ Types' /\ Wakens(u)
  BY TypesWakens, WakensOf DEF IInv
<1>2. Runs /\ UNCHANGED <<images, launches, fin>>
  BY <1>1, RunsOf DEF Wakens, hostVars
<1>3. Program >= 1 => \A t \in Tiles : Keep(t) /\ KernelTile(t) => KernelTile(t)'
  BY <1>1, PointerWakens
<1>4. QED
  BY <1>1, <1>2, <1>3, InvRuns

LEMMA InvCompletes ==
  ASSUME IInv, NEW m, KernelDone(m)
  PROVE  IInv'
<1>1. Types /\ Types' /\ Completes(m)
  BY TypesCompletes, CompletesOf DEF IInv
<1>2. Runs /\ UNCHANGED <<images, launches>> /\ fin' = fin \cup {m}
  BY <1>1, RunsOf DEF Completes, hostVars
<1>3. Program >= 1 => \A t \in Tiles : Keep(t) /\ KernelTile(t) => KernelTile(t)'
  BY <1>1, PointerCompletes
<1>4. ASSUME NEW n \in DOMAIN launches, NEW t \in Tiles, call = "launch", n = Len(launches), ToWake(t), n \notin fin
      PROVE  n \notin fin'
  <2>1. SUFFICES ASSUME n = m PROVE FALSE
    BY <1>2, <1>4
  <2>2. PICK i \in DOMAIN todo : todo[i] = Wake(t, n)
    BY <1>4 DEF ToWake, Has
  <2>3. loaded /\ Program >= 1
    BY <1>1, <1>4 DEF Types, CallInv
  <2>4. todo[i] = Store(t, Cell("kernel_ptr"), LaunchWord(n)) /\ todo[i].to = t /\ todo[i] # FenceStep
    BY <2>2, StoreFields DEF Wake, Pointer, Cell
  <2>5. StoredIn(todo, t, Cell("kernel_ptr"))
    BY <2>4, StoreFields DEF StoredIn
  <2>6. run[t] # "kernel"
    <3>1. Up(t)
      BY <2>3 DEF Up
    <3>2. PointerToSend(t)
      BY <3>1 DEF IInv, KernelInv
    <3>3. QED
      BY <2>5, <3>2 DEF PointerToSend, Unset
  <2>7. t \in launches[n].tiles
    <3>1. todo[i] \in LaunchStores(n)
      BY <1>4 DEF IInv, ScriptInv, LaunchInv
    <3>2. PICK p, img, group, slot : /\ p = Program /\ img = Image /\ group = launches[n].tiles
                                     /\ slot = launches[n].slot
      OBVIOUS
    <3>3. p \in DOMAIN Images /\ img \in Images[p] /\ group \in Groups /\ slot \in 1 .. MaxLaunches /\ n \in Nat
      BY <1>1, <2>3, <3>2, ImageOf, LaunchesOf
    <3>4. todo[i] \in LaunchSteps(img, group, slot, n)
      BY <3>1, <3>2 DEF LaunchStores
    <3>5. QED
      BY <2>4, <3>2, <3>3, <3>4, LaunchStepOf, NumTiles
  <2>8. QED
    BY <1>1, <2>1, <2>6, <2>7 DEF Completes
<1>5. QED
  BY <1>1, <1>2, <1>3, <1>4, InvRuns

------------------------------------------------------------------------------
(* Calls that change the status of tile groups only.                        *)

LEMMA GroupsKept ==
  ASSUME UNCHANGED images, SameGroups(launches')
  PROVE  /\ \A n \in DOMAIN launches : \A t : Facts(t, n)' = Facts(t, n)
         /\ \A n \in DOMAIN launches :
              launches'[n].status = launches[n].status => (Placed(n)' <=> Placed(n))
         /\ \A n \in DOMAIN launches : launches'[n].status = "finished" => ~Placed(n)'
<1>1. Program' = Program /\ Image' = Image
  BY SameImage
<1>2. ASSUME NEW n \in DOMAIN launches, NEW t PROVE Facts(t, n)' = Facts(t, n)
  BY <1>1, <1>2 DEF Facts, SameGroups
<1>3. ASSUME NEW n \in DOMAIN launches
      PROVE  /\ launches'[n].status = launches[n].status => (Placed(n)' <=> Placed(n))
             /\ launches'[n].status = "finished" => ~Placed(n)'
  BY <1>1, <1>3 DEF Placed, SameGroups
<1>4. QED
  BY <1>2, <1>3

LEMMA HeldShrinks ==
  ASSUME UNCHANGED images, SameGroups(launches'),
         \A n \in DOMAIN launches : Placed(n)' => Placed(n)
  PROVE  Held' \subseteq Held /\ (HeldApart => HeldApart')
<1>1. Held' \subseteq Held
  BY DEF Held, SameGroups
<1>2. ASSUME HeldApart PROVE HeldApart'
  <2>1. SUFFICES ASSUME NEW m \in Held', NEW n \in Held', m # n
                 PROVE  /\ launches'[m].tiles \cap launches'[n].tiles = {}
                        /\ launches'[m].slot # launches'[n].slot
    BY DEF HeldApart
  <2>2. m \in Held /\ n \in Held /\ m \in DOMAIN launches /\ n \in DOMAIN launches
    BY <1>1, <2>1 DEF Held
  <2>3. QED
    BY <1>2, <2>1, <2>2 DEF HeldApart, SameGroups
<1>3. QED
  BY <1>1, <1>2

LEMMA WokenKept ==
  ASSUME UNCHANGED <<todo, images, net, mem>>, SameGroups(launches'), NEW t, NEW n, Woken(t, n),
         Placed(n)', n \notin fin'
  PROVE  Woken(t, n)'
<1>1. n \in DOMAIN launches /\ n \in Held' /\ t \in launches'[n].tiles
  BY DEF Woken, Held, SameGroups
<1>2. Facts(t, n)' = Facts(t, n)
  BY <1>1, GroupsKept
<1>3. \A f \in Facts(t, n) : Settled(f[1], f[2], f[3])'
  BY DEF Woken, Settled, Pending, StoredIn, SentTo
<1>4. QED
  BY <1>1, <1>2, <1>3 DEF Woken

LEMMA KernelKept ==
  ASSUME UNCHANGED <<todo, images, net, mem, tileVars>>, SameGroups(launches'), NEW t, KernelTile(t),
         \A n \in DOMAIN launches : Woken(t, n) => Woken(t, n)'
  PROVE  KernelTile(t)'
<1>1. \A y : Cell(y)' = Cell(y)
  BY SameImage
<1>2. run' = run /\ got' = got /\ DOMAIN launches' = DOMAIN launches
  BY DEF tileVars, SameGroups
<1>3. Waits(t)'
  BY <1>1 DEF Waits, KernelTile
<1>4. PointerInMemory(t)'
  BY <1>1, <1>2 DEF PointerInMemory, KernelTile
<1>5. PointerSent(t)'
  BY <1>1, <1>2 DEF PointerSent, Unset, KernelTile
<1>6. PointerToSend(t)'
  BY <1>1, <1>2 DEF PointerToSend, Unset, StoredIn, SentTo, KernelTile
<1>7. InKernel(t)'
  BY <1>1, <1>2 DEF InKernel, KernelTile
<1>8. QED
  BY <1>3, <1>4, <1>5, <1>6, <1>7 DEF KernelTile

LEMMA KeepSame ==
  ASSUME UNCHANGED <<todo, images, net, mem, tileVars, dramOn>>, NEW t
  PROVE  /\ Keep(t) => Keep(t)'
         /\ \A d : Ready(d) => Ready(d)'
         /\ Stops(t) => Stops(t)'
<1>1. Program' = Program /\ Wanted(Image, Program, t)' = Wanted(Image, Program, t)
  BY SameImage, WantedSame
<1>2. run' = run /\ runs' = runs
  BY DEF tileVars
<1>3. \A d : Ready(d) => Ready(d)'
  BY <1>2 DEF Ready
<1>4. ASSUME Keep(t) PROVE Keep(t)'
  <2>1. \A w \in Wanted(Image, Program, t) : Settled(w[1], w[2], w[3])'
    BY <1>4 DEF Keep, Settled, Pending, StoredIn, SentTo
  <2>2. QED
    BY <1>1, <1>2, <1>3, <1>4, <2>1 DEF Keep
<1>5. Stops(t) => Stops(t)'
  BY <1>3 DEF Stops, Marked
<1>6. QED
  BY <1>3, <1>4, <1>5

LEMMA InvFinished ==
  ASSUME IInv, NEW n, HandleFinish(n)
  PROVE  IInv'
<1>1. Types /\ HeldApart /\ TriggerInv /\ UnfreezeInv /\ FinishInv /\ LaunchInv /\ FitsInv
      /\ LoadInv /\ LoadedInv /\ OffInv /\ KernelInv
  BY DEF IInv, ScriptInv
<1>2. Finished(n)
  BY <1>1, FinishedAs
<1>3. /\ UNCHANGED <<call, todo, ok, loaded, images, crashes, net, mem, tileVars, dramOn>>
      /\ call = "idle" /\ todo = <<>> /\ SameGroups(launches') /\ n \in DOMAIN launches
  BY <1>1, <1>2 DEF Finished, Types, CallInv, HostTypes
<1>4. Types'
  BY <1>1, <1>2, TypesFinished
<1>5. \A m \in DOMAIN launches : Placed(m)' => Placed(m)
  <2>1. \A m \in DOMAIN launches : launches'[m].status = launches[m].status \/ launches'[m].status = "finished"
    BY <1>2 DEF Finished
  <2>2. QED
    BY <1>3, <2>1, GroupsKept
<1>6. HeldApart'
  BY <1>1, <1>3, <1>5, HeldShrinks
<1>7. ScriptInv'
  BY <1>3 DEF ScriptInv, TriggerInv, UnfreezeInv, FinishInv, LaunchInv
<1>8. FitsInv'
  BY <1>1, <1>3, FitsKept
<1>9. LoadInv' /\ LoadedInv'
  BY <1>1, <1>3, KeepSame DEF LoadInv, LoadedInv
<1>10. OffInv'
  <2>1. call' = "idle" /\ loaded' = loaded /\ crashes' = crashes
    BY <1>3
  <2>2. \A t \in Tiles : Ready(t) => Ready(t)'
    BY <1>3, KeepSame
  <2>3. QED
    BY <1>1, <1>3, <2>1, <2>2 DEF OffInv
<1>11. KernelInv'
  <2>1. ASSUME NEW t \in Tiles, Up(t)' PROVE KernelTile(t)'
    <3>1. Up(t)
      BY <1>3, <2>1 DEF Up
    <3>2. KernelTile(t)
      BY <1>1, <3>1 DEF KernelInv, KernelTile
    <3>3. ASSUME NEW m \in DOMAIN launches, Woken(t, m) PROVE Woken(t, m)'
      <4>1. m \notin fin /\ m # n /\ m \notin fin' /\ Placed(m)
        BY <1>2, <3>3 DEF Woken, Finished, Held
      <4>2. launches'[m] = launches[m]
        BY <1>2, <3>3, <4>1 DEF Finished
      <4>3. Placed(m)'
        BY <1>3, <3>3, <4>1, <4>2, GroupsKept
      <4>4. QED
        BY <1>3, <3>3, <4>1, <4>3, WokenKept
    <3>4. QED
      BY <1>3, <3>2, <3>3, KernelKept
  <2>2. QED
    BY <2>1 DEF KernelInv, KernelTile
<1>12. QED
  BY <1>4, <1>6, <1>7, <1>8, <1>9, <1>10, <1>11 DEF IInv

LEMMA EmptyOf ==
  ASSUME todo = <<>>
  PROVE  /\ \A y : ~Has(todo, y)
         /\ \A t : ~ToUnfreeze(t)
BY DEF Has, ToUnfreeze

\* A function returns.
LEMMA ReturnUp ==
  ASSUME Types, LaunchInv, LoadInv, LoadedInv, FinishInv, Returns, NEW t \in Tiles, loaded'
  PROVE  Up(t) /\ Keep(t) /\ call # "finish"
<1>1. todo = <<>>
  BY DEF Returns
<1>2. call # "finish" /\ (loaded \/ (call = "load" /\ ok))
  BY DEF Returns
<1>3. Up(t)
  BY <1>1, <1>2, EmptyOf DEF Up
<1>4. Keep(t)
  BY <1>3, UpKeeps
<1>5. QED
  BY <1>2, <1>3, <1>4

LEMMA ReturnStops ==
  ASSUME Types, FinishInv, OffInv, Returns, crashes = 0, NEW t \in Tiles, ~loaded'
  PROVE  Ready(t)
<1>1. todo = <<>> /\ ~ToUnfreeze(t) /\ ~Has(todo, Mark(t))
  BY EmptyOf DEF Returns
<1>2. CASE call = "load"
  <2>1. ~ok
    BY <1>2 DEF Returns
  <2>2. QED
    BY <1>2, <2>1 DEF OffInv
<1>3. CASE call = "finish"
  <2>1. NetEmpty /\ Stops(t)
    BY <1>1, <1>3 DEF FinishInv, OffInv
  <2>2. DOMAIN net[t] = {}
    BY <2>1 DEF NetEmpty, Dests
  <2>3. QED
    BY <1>1, <2>1, <2>2 DEF Stops
<1>4. CASE call = "launch"
  BY <1>4 DEF Returns, Types, CallInv
<1>5. QED
  BY <1>2, <1>3, <1>4 DEF Returns, Types, HostTypes

LEMMA InvReturns ==
  ASSUME IInv, Return
  PROVE  IInv'
<1>1. Types /\ HeldApart /\ TriggerInv /\ UnfreezeInv /\ FinishInv /\ LaunchInv /\ FitsInv
      /\ LoadInv /\ LoadedInv /\ OffInv /\ KernelInv
  BY DEF IInv, ScriptInv
<1>2. Returns
  BY <1>1, ReturnsOf DEF LaunchInv
<1>3. /\ UNCHANGED <<todo, ok, images, crashes, net, mem, tileVars, fin, dramOn>>
      /\ call' = "idle" /\ todo = <<>> /\ SameGroups(launches')
  BY <1>2 DEF Returns
<1>4. Types'
  BY <1>1, <1>2, TypesReturns
<1>5. \A n \in DOMAIN launches : Placed(n)' => Placed(n)
  <2>1. ASSUME NEW n \in DOMAIN launches, call = "launch", n = Len(launches) PROVE Placed(n)
    BY <1>1, <2>1 DEF LaunchInv
  <2>2. QED
    BY <1>2, <1>3, <2>1, GroupsKept DEF Returns
<1>6. HeldApart'
  BY <1>1, <1>3, <1>5, HeldShrinks
<1>7. ScriptInv'
  BY <1>3 DEF ScriptInv, TriggerInv, UnfreezeInv, FinishInv, LaunchInv
<1>8. FitsInv'
  BY <1>1, <1>2, <1>3, SameImage DEF FitsInv, Returns
<1>9. LoadInv'
  BY <1>3 DEF LoadInv
<1>10. LoadedInv'
  <2>1. ASSUME loaded', NEW t \in Tiles PROVE Keep(t)'
    <3>1. Keep(t)
      BY <1>1, <1>2, <2>1, ReturnUp
    <3>2. QED
      BY <1>3, <3>1, KeepSame
  <2>2. QED
    BY <2>1 DEF LoadedInv
<1>11. OffInv'
  <2>1. ASSUME crashes = 0, ~loaded', NEW t \in Tiles PROVE Ready(t)'
    <3>1. Ready(t)
      BY <1>1, <1>2, <2>1, ReturnStops
    <3>2. QED
      BY <1>3, <3>1, KeepSame
  <2>2. QED
    BY <1>3, <2>1 DEF OffInv
<1>12. KernelInv'
  <2>1. ASSUME NEW t \in Tiles, Up(t)' PROVE KernelTile(t)'
    <3>1. loaded'
      BY <1>3, <2>1 DEF Up
    <3>2. Up(t) /\ call # "finish"
      BY <1>1, <1>2, <3>1, ReturnUp
    <3>3. KernelTile(t)
      BY <1>1, <3>2 DEF KernelInv, KernelTile
    <3>4. ASSUME NEW m \in DOMAIN launches, Woken(t, m) PROVE Woken(t, m)'
      <4>1. m \notin fin' /\ Placed(m)
        BY <1>3, <3>4 DEF Woken, Held
      <4>2. launches'[m].status = launches[m].status \/ launches'[m].status = "launched"
        BY <1>2, <3>2 DEF Returns
      <4>3. Placed(m)'
        <5>1. CASE launches'[m].status = launches[m].status
          BY <1>3, <4>1, <5>1, GroupsKept
        <5>2. CASE launches'[m].status = "launched"
          BY <1>3, <4>1, <5>2, SameImage DEF Placed, SameGroups
        <5>3. QED
          BY <4>2, <5>1, <5>2
      <4>4. QED
        BY <1>3, <3>4, <4>1, <4>3, WokenKept
    <3>5. QED
      BY <1>3, <3>3, <3>4, KernelKept
  <2>2. QED
    BY <2>1 DEF KernelInv, KernelTile
<1>13. QED
  BY <1>4, <1>6, <1>7, <1>8, <1>9, <1>10, <1>11, <1>12 DEF IInv

\* A process ends.
LEMMA InvCrash ==
  ASSUME IInv, Crash
  PROVE  IInv'
<1>1. Types'
  BY TypesCrash DEF IInv
<1>2. call' = "idle" /\ todo' = <<>> /\ loaded' = FALSE /\ crashes' # 0
  BY DEF Crash, IInv, Types, HostTypes
<1>3. Held' = {}
  <2>1. \A n \in DOMAIN launches' : launches'[n].status = "finished"
    BY FinishedOf DEF Crash, IInv, SameGroups
  <2>2. QED
    BY <2>1 DEF Held, Placed
<1>4. HeldApart'
  BY <1>3 DEF HeldApart
<1>5. ScriptInv'
  BY <1>2 DEF ScriptInv, TriggerInv, UnfreezeInv, FinishInv, LaunchInv
<1>6. FitsInv' /\ LoadInv' /\ LoadedInv' /\ OffInv' /\ KernelInv'
  BY <1>2 DEF FitsInv, LoadInv, LoadedInv, OffInv, KernelInv, Up
<1>7. QED
  BY <1>1, <1>4, <1>5, <1>6 DEF IInv

------------------------------------------------------------------------------
(* Calls that start a script.                                               *)

LEMMA SettledScripted ==
  ASSUME UNCHANGED <<net, mem>>, NEW e, NEW b, NEW u, Settled(e, b, u), ~StoredIn(todo', e, b)
  PROVE  Settled(e, b, u)'
BY DEF Settled, Pending, SentTo, StoredIn

LEMMA KeepScripted ==
  ASSUME UNCHANGED <<images, net, mem, tileVars, dramOn>>, NEW t, Keep(t),
         \A w \in Wanted(Image, Program, t) : ~StoredIn(todo', w[1], w[2])
  PROVE  Keep(t)'
<1>1. Program' = Program /\ Wanted(Image, Program, t)' = Wanted(Image, Program, t)
  BY SameImage, WantedSame
<1>2. run' = run /\ runs' = runs
  BY DEF tileVars
<1>3. Ready(Dram)'
  BY DEF Ready, Keep
<1>4. ASSUME NEW w \in Wanted(Image, Program, t) PROVE Settled(w[1], w[2], w[3])'
  <2>1. PICK e, b, u : e = w[1] /\ b = w[2] /\ u = w[3]
    OBVIOUS
  <2>2. Settled(e, b, u) /\ ~StoredIn(todo', e, b)
    BY <2>1 DEF Keep
  <2>3. Settled(e, b, u)'
    BY <2>2, SettledScripted
  <2>4. QED
    BY <2>1, <2>3
<1>5. QED
  BY <1>1, <1>2, <1>3, <1>4 DEF Keep

LEMMA KernelScripted ==
  ASSUME UNCHANGED <<images, net, mem, tileVars>>, NEW t, KernelTile(t),
         \A n \in DOMAIN launches : n \in DOMAIN launches' /\ (Woken(t, n) => Woken(t, n)'),
         StoredIn(todo', t, Cell("kernel_ptr")) => Unset(t) /\ ~SentTo(t, Cell("kernel_ptr"))
  PROVE  KernelTile(t)'
<1>1. \A y : Cell(y)' = Cell(y)
  BY SameImage
<1>2. run' = run /\ got' = got
  BY DEF tileVars
<1>3. Waits(t)'
  BY <1>1 DEF Waits, KernelTile
<1>4. PointerInMemory(t)'
  BY <1>1, <1>2 DEF PointerInMemory, KernelTile
<1>5. PointerSent(t)'
  BY <1>1, <1>2 DEF PointerSent, Unset, KernelTile
<1>6. PointerToSend(t)'
  BY <1>1, <1>2 DEF PointerToSend, Unset, StoredIn, SentTo
<1>7. InKernel(t)'
  BY <1>1, <1>2 DEF InKernel, KernelTile
<1>8. QED
  BY <1>3, <1>4, <1>5, <1>6, <1>7 DEF KernelTile

LEMMA WokenScripted ==
  ASSUME UNCHANGED <<net, mem, fin>>, NEW t, NEW n, Woken(t, n), n \in Held',
         launches'[n].tiles = launches[n].tiles, Facts(t, n)' = Facts(t, n),
         \A f \in Facts(t, n) : ~StoredIn(todo', f[1], f[2])
  PROVE  Woken(t, n)'
<1>1. ASSUME NEW f \in Facts(t, n) PROVE Settled(f[1], f[2], f[3])'
  <2>1. PICK e, b, u : e = f[1] /\ b = f[2] /\ u = f[3]
    OBVIOUS
  <2>2. Settled(e, b, u) /\ ~StoredIn(todo', e, b)
    BY <2>1 DEF Woken
  <2>3. Settled(e, b, u)'
    BY <2>2, SettledScripted
  <2>4. QED
    BY <2>1, <2>3
<1>2. QED
  BY <1>1 DEF Woken

LEMMA InvBeginFinish ==
  ASSUME IInv, BeginFinish
  PROVE  IInv'
<1>1. Types /\ HeldApart /\ TriggerInv /\ UnfreezeInv /\ FinishInv /\ LaunchInv /\ FitsInv
      /\ LoadInv /\ LoadedInv /\ OffInv /\ KernelInv
  BY DEF IInv, ScriptInv
<1>2. /\ call = "idle" /\ loaded /\ todo' = FinishScript.steps /\ call' = "finish"
      /\ UNCHANGED <<loaded, images, launches, crashes, net, mem, tileVars, fin, dramOn>>
      /\ Program >= 1 /\ Fits(Image)
  BY <1>1 DEF BeginFinish, Start, Types, CallInv, FitsInv
<1>3. /\ \A i \in DOMAIN todo' : todo'[i] = FenceStep \/ \E t \in Tiles : todo'[i] = Mark(t)
      /\ todo' # <<>> /\ todo'[Len(todo')] = FenceStep /\ \A t \in Tiles : Has(todo', Mark(t))
  BY <1>2, FinishScriptOf
<1>4. \A e, b : b # Csr("freeze") => ~StoredIn(todo', e, b)
  BY <1>3, MarkFieldsHold, FenceFields DEF StoredIn, IsStore, MarkFields
<1>5. Types'
  BY <1>1, TypesBeginFinish
<1>6. HeldApart' /\ Held' = Held /\ \A t, n : Facts(t, n)' = Facts(t, n)
  BY <1>1, <1>2, HeldKept
<1>7. \A i \in DOMAIN todo' : todo'[i] \notin Unfreezes
  BY <1>3, MarkTypes, StoreFields DEF Unfreezes, Unfreeze, Dests
<1>8. TriggerInv' /\ UnfreezeInv'
  <2>1. \A i \in DOMAIN todo' : todo'[i] \notin Triggers'
    BY <1>2, <1>7 DEF Triggers
  <2>2. QED
    BY <1>7, <2>1 DEF TriggerInv, UnfreezeInv
<1>9. FinishInv' /\ LaunchInv' /\ FitsInv' /\ LoadInv'
  BY <1>1, <1>2, <1>3, SameImage DEF FinishInv, LaunchInv, FitsInv, LoadInv
<1>10. LoadedInv'
  <2>1. ASSUME NEW t \in Tiles PROVE Keep(t)'
    <3>1. Keep(t)
      BY <1>1, <1>2 DEF LoadedInv
    <3>2. \A w \in Wanted(Image, Program, t) : ~StoredIn(todo', w[1], w[2])
      BY <1>1, <1>2, <1>4, WordsAt
    <3>3. QED
      BY <1>2, <3>1, <3>2, KeepScripted
  <2>2. QED
    BY <2>1 DEF LoadedInv
<1>11. OffInv'
  BY <1>2, <1>3 DEF OffInv, Stops
<1>12. KernelInv'
  <2>1. ASSUME NEW t \in Tiles PROVE KernelTile(t)'
    <3>1. KernelTile(t)
      BY <1>1, <1>2 DEF KernelInv, KernelTile, Up
    <3>2. ASSUME NEW n \in DOMAIN launches, Woken(t, n) PROVE Woken(t, n)'
      <4>1. \A f \in Facts(t, n) : ~StoredIn(todo', f[1], f[2])
        BY <1>1, <1>2, <1>4, FactAt
      <4>2. n \in Held'
        BY <1>6, <3>2 DEF Woken
      <4>3. QED
        BY <1>2, <1>6, <3>2, <4>1, <4>2, WokenScripted
    <3>3. ~StoredIn(todo', t, Cell("kernel_ptr"))
      BY <1>1, <1>2, <1>4, CellOf
    <3>4. QED
      BY <1>2, <3>1, <3>2, <3>3, KernelScripted
  <2>2. QED
    BY <2>1 DEF KernelInv, KernelTile
<1>13. QED
  BY <1>5, <1>6, <1>8, <1>9, <1>10, <1>11, <1>12 DEF IInv, ScriptInv

\* A tile group that is placed, and the script of its launch.
LEMMA PlacedGroup ==
  ASSUME Types, NEW group, NEW known \in BOOLEAN, NEW slot \in 1 .. MaxLaunches, NEW n \in Nat, Places(group, known, slot, n)
  PROVE  /\ n \in Nat /\ slot \in 1 .. MaxLaunches /\ group \in Groups /\ n \in DOMAIN launches'
         /\ n \notin DOMAIN launches /\ Len(launches') = n
         /\ launches'[n].status = "allocated" /\ launches'[n].tiles = group /\ launches'[n].slot = slot
         /\ launches'[n].program = Program
BY DEF Places

LEMMA PlacedHeld ==
  ASSUME Types, NEW group, NEW known \in BOOLEAN, NEW slot \in 1 .. MaxLaunches, NEW n \in Nat, Places(group, known, slot, n)
  PROVE  /\ Held' = Held \cup {n} /\ Placed(n)'
         /\ \A m \in DOMAIN launches : launches'[m] = launches[m] /\ m \in DOMAIN launches' /\ m # n
<1>1. Program' = Program
  BY SameImage DEF Places
<1>2. \A m \in DOMAIN launches : launches'[m] = launches[m] /\ m \in DOMAIN launches' /\ m # n
  BY DEF Places
<1>3. \A m \in DOMAIN launches' : m = n \/ m \in DOMAIN launches
  BY DEF Places
<1>4. n \in DOMAIN launches' /\ launches'[n].status = "allocated" /\ launches'[n].program = Program
  BY DEF Places
<1>5. Placed(n)' /\ \A m \in DOMAIN launches : Placed(m)' <=> Placed(m)
  BY <1>1, <1>2, <1>4 DEF Placed
<1>6. Held' = Held \cup {n}
  BY <1>2, <1>3, <1>4, <1>5 DEF Held
<1>7. QED
  BY <1>2, <1>5, <1>6

LEMMA PlacedFacts ==
  ASSUME Types, NEW group, NEW known \in BOOLEAN, NEW slot \in 1 .. MaxLaunches, NEW n \in Nat, Places(group, known, slot, n)
  PROVE  /\ \A m \in DOMAIN launches : \A t : Facts(t, m)' = Facts(t, m)
         /\ \A t : Facts(t, n)' = FactsOf(Image, t, group, slot, n)
         /\ LaunchStores(n)' = LaunchSteps(Image, group, slot, n)
         /\ \A t : Wake(t, n)' = Pointer(Image, t, n)
<1>1. Image' = Image
  BY SameImage DEF Places
<1>2. launches'[n].tiles = group /\ launches'[n].slot = slot
  BY PlacedGroup
<1>3. \A m \in DOMAIN launches : launches'[m] = launches[m]
  BY PlacedHeld
<1>7. \A m \in DOMAIN launches : \A t : Facts(t, m)' = Facts(t, m)
  BY <1>1, <1>3 DEF Facts
<1>8. \A t : Facts(t, n)' = FactsOf(Image, t, group, slot, n)
  BY <1>1, <1>2 DEF Facts
<1>9. LaunchStores(n)' = LaunchSteps(Image, group, slot, n)
  BY <1>1, <1>2 DEF LaunchStores
<1>10. \A t : Wake(t, n)' = Pointer(Image, t, n)
  BY <1>1 DEF Wake
<1>11. QED
  BY <1>7, <1>8, <1>9, <1>10

LEMMA PlacedScript ==
  ASSUME Types, NEW group, NEW known \in BOOLEAN, NEW slot \in 1 .. MaxLaunches, NEW n \in Nat, Places(group, known, slot, n)
  PROVE  /\ Program >= 1 /\ Careful(todo', Pointers(Image, n))
         /\ \A i \in DOMAIN todo' : todo'[i] \in LaunchSteps(Image, group, slot, n) /\ todo'[i] \notin Unfreezes
         /\ \A t \in Tiles : Has(todo', Pointer(Image, t, n)) =>
              /\ t \in group
              /\ \A f \in FactsOf(Image, t, group, slot, n) : Ends(todo', f[1], f[2], f[3], Put(f))
<1>1. n \in Nat /\ slot \in 1 .. MaxLaunches /\ group \in Groups /\ Program >= 1 /\ group \subseteq Tiles
  BY PlacedGroup, OriginOf DEF Places, Types, CallInv
<1>2. PICK p, img : p = Program /\ img = Image
  OBVIOUS
<1>3. p \in DOMAIN Images /\ img \in Images[p]
  BY <1>1, <1>2, ImageOf
<1>4. todo' = LaunchScript(img, group, n, slot, known).steps
  BY <1>2 DEF Places
<1>5. /\ todo' \in Seq(LaunchSteps(img, group, slot, n)) /\ Careful(todo', Pointers(img, n))
      /\ \A t \in Tiles : Has(todo', Pointer(img, t, n)) =>
           /\ t \in group
           /\ \A f \in FactsOf(img, t, group, slot, n) : Ends(todo', f[1], f[2], f[3], Put(f))
  <2>1. LaunchScript(img, group, n, slot, known) \in Scripts(LaunchSteps(img, group, slot, n))
    BY <1>1, <1>3, LaunchScriptOf
  <2>2. todo' \in Seq(LaunchSteps(img, group, slot, n))
    BY <1>4, <2>1 DEF Scripts
  <2>3. QED
    BY <1>1, <1>3, <1>4, <2>2, LaunchScriptOf
<1>6. \A i \in DOMAIN todo' : todo'[i] \in LaunchSteps(img, group, slot, n)
  BY <1>5, ElementsOf
<1>7. \A i \in DOMAIN todo' : todo'[i] \notin Unfreezes
  BY <1>1, <1>3, <1>6, LaunchStepOf
<1>8. QED
  BY <1>1, <1>2, <1>5, <1>6, <1>7

LEMMA PlacedStores ==
  ASSUME Types, NEW group, NEW known \in BOOLEAN, NEW slot \in 1 .. MaxLaunches, NEW n \in Nat,
         Places(group, known, slot, n), NEW e, NEW b, StoredIn(todo', e, b)
  PROVE  \/ e = Dram /\ b = Heap(slot)
         \/ e \in group /\ e \in Tiles /\ (b = Csr("origin") \/ b \in SymbolCells(Image))
<1>1. group \in Groups /\ Program >= 1 /\ group \subseteq Tiles
  BY OriginOf DEF Places, Types, CallInv
<1>2. PICK p, img : p = Program /\ img = Image
  OBVIOUS
<1>3. p \in DOMAIN Images /\ img \in Images[p]
  BY <1>1, <1>2, ImageOf
<1>4. \A i \in DOMAIN todo' : todo'[i] \in LaunchSteps(img, group, slot, n)
  BY <1>2, PlacedScript
<1>5. PICK x \in LaunchSteps(img, group, slot, n) : IsStore(x, e, b)
  BY <1>4 DEF StoredIn
<1>6. x # FenceStep /\ x.to = e /\ x.at = b
  BY <1>5, FenceFields DEF IsStore
<1>7. CASE e = Dram
  <2>1. x = Store(Dram, Heap(slot), LaunchWord(n))
    BY <1>1, <1>3, <1>5, <1>6, <1>7, LaunchStepOf
  <2>2. QED
    BY <1>6, <1>7, <2>1, StoreFields
<1>8. CASE e # Dram
  <2>1. e \in group /\ x \in TileStores(img, e, group, n)
    BY <1>1, <1>3, <1>5, <1>6, <1>8, LaunchStepOf
  <2>2. x.at = Csr("origin") \/ x.at \in SymbolCells(img)
    BY <1>1, <1>3, <2>1, TileStoreOf
  <2>3. QED
    BY <1>1, <1>2, <1>6, <2>1, <2>2
<1>9. QED
  BY <1>7, <1>8

LEMMA PlacedBusy ==
  ASSUME Types, NEW group, NEW known \in BOOLEAN, NEW slot \in 1 .. MaxLaunches, NEW n \in Nat, Places(group, known, slot, n),
         NEW m \in Held
  PROVE  launches[m].tiles \cap group = {} /\ launches[m].slot # slot
<1>1. m \in {k \in DOMAIN launches : Placed(k)}
  BY DEF Held
<1>2. launches[m].tiles \subseteq Busy
  BY <1>1 DEF Busy
<1>3. launches[m].slot \in Slots
  BY <1>1 DEF Slots
<1>4. QED
  BY <1>2, <1>3 DEF Places

LEMMA PlacedKernel ==
  ASSUME Types, Program >= 1, NEW group, NEW known \in BOOLEAN, NEW slot \in 1 .. MaxLaunches, NEW n \in Nat,
         Places(group, known, slot, n), NEW t \in Tiles, KernelTile(t)
  PROVE  KernelTile(t)'
<1>1. UNCHANGED <<images, net, mem, tileVars, fin>>
  BY DEF Places
<1>2. ASSUME NEW m \in DOMAIN launches, Woken(t, m) PROVE Woken(t, m)'
  <2>1. m \in Held /\ t \in launches[m].tiles /\ launches[m].slot # slot /\ t \notin group
    BY <1>2, PlacedBusy DEF Woken
  <2>2. m \in Held' /\ launches'[m].tiles = launches[m].tiles /\ Facts(t, m)' = Facts(t, m)
    BY <1>2, <2>1, PlacedHeld, PlacedFacts
  <2>3. ASSUME NEW f \in Facts(t, m), StoredIn(todo', f[1], f[2]) PROVE FALSE
    <3>1. /\ f[1] = t \/ f[1] = Dram
          /\ f[1] = Dram => f[2] = Heap(launches[m].slot)
      BY <1>2, <2>3, FactAt
    <3>2. f[1] = Dram /\ f[2] = Heap(slot)
      <4>1. PICK e, b : e = f[1] /\ b = f[2]
        OBVIOUS
      <4>2. StoredIn(todo', e, b)
        BY <2>3, <4>1
      <4>3. (e \in group /\ e \in Tiles) \/ (e = Dram /\ b = Heap(slot))
        BY <4>2, PlacedStores
      <4>4. QED
        BY <2>1, <3>1, <4>1, <4>3, NumTiles
    <3>3. QED
      BY <2>1, <3>1, <3>2, CellNames
  <2>4. QED
    BY <1>1, <1>2, <2>2, <2>3, WokenScripted
<1>3. ASSUME StoredIn(todo', t, Cell("kernel_ptr")) PROVE Unset(t) /\ ~SentTo(t, Cell("kernel_ptr"))
  <2>1. t \in group
    BY <1>3, PlacedStores, NumTiles
  <2>2. \A m : ~Woken(t, m)
    BY <2>1, PlacedBusy DEF Woken
  <2>3. mem[t][Cell("kernel_ptr")] = NotLoaded
    BY <2>2 DEF KernelTile, PointerInMemory
  <2>4. \A k : LaunchWord(k) # NotLoaded
    BY DEF LaunchWord, NotLoaded, One
  <2>5. run[t] # "kernel"
    BY <2>3, <2>4 DEF KernelTile, InKernel
  <2>6. ~SentTo(t, Cell("kernel_ptr"))
    BY <2>2 DEF KernelTile, PointerSent, SentTo
  <2>7. QED
    BY <2>3, <2>5, <2>6 DEF Unset
<1>4. \A m \in DOMAIN launches : m \in DOMAIN launches'
  BY PlacedHeld
<1>5. QED
  BY <1>1, <1>2, <1>3, <1>4, KernelScripted

LEMMA PlacedKeep ==
  ASSUME Types, Program >= 1, Fits(Image), NEW group, NEW known \in BOOLEAN, NEW slot \in 1 .. MaxLaunches, NEW n \in Nat,
         Places(group, known, slot, n), NEW t \in Tiles, Keep(t)
  PROVE  Keep(t)'
<1>1. UNCHANGED <<images, net, mem, tileVars, dramOn>>
  BY DEF Places
<1>2. ASSUME NEW w \in Wanted(Image, Program, t), StoredIn(todo', w[1], w[2]) PROVE FALSE
  <2>1. w[2] # Csr("origin") /\ (\A k : w[2] # Heap(k)) /\ w[2] \notin SymbolCells(Image)
    BY <1>2, WordsAt
  <2>2. PICK e, b : e = w[1] /\ b = w[2]
    OBVIOUS
  <2>3. StoredIn(todo', e, b)
    BY <1>2, <2>2
  <2>4. \/ e = Dram /\ b = Heap(slot)
        \/ e \in group /\ e \in Tiles /\ (b = Csr("origin") \/ b \in SymbolCells(Image))
    BY <2>3, PlacedStores
  <2>5. QED
    BY <2>1, <2>2, <2>4
<1>3. QED
  BY <1>1, <1>2, KeepScripted

LEMMA PlacedLaunch ==
  ASSUME Types, NEW group, NEW known \in BOOLEAN, NEW slot \in 1 .. MaxLaunches, NEW n \in Nat, Places(group, known, slot, n)
  PROVE  LaunchInv'
<1>1. Len(launches') = n
  BY PlacedGroup
<1>2. n \in DOMAIN launches' /\ Placed(n)' /\ launches'[n].status = "allocated"
  <2>1. Placed(n)'
    BY PlacedHeld
  <2>2. n \in DOMAIN launches' /\ launches'[n].status = "allocated"
    BY DEF Places
  <2>3. QED
    BY <2>1, <2>2
<1>3. \A i \in DOMAIN todo' : todo'[i] \in LaunchStores(n)'
  <2>1. LaunchStores(n)' = LaunchSteps(Image, group, slot, n)
    BY PlacedFacts
  <2>2. QED
    BY <2>1, PlacedScript
<1>4. ASSUME NEW t \in Tiles, Has(todo', Wake(t, n)')
      PROVE  n \notin fin' /\ \A f \in Facts(t, n)' : Final(f[1], f[2], f[3], FALSE)'
  <2>1. Has(todo', Pointer(Image, t, n))
    BY <1>4, PlacedFacts
  <2>2. n \notin fin'
    BY PlacedGroup DEF Places, Types, HostTypes
  <2>3. ASSUME NEW f \in FactsOf(Image, t, group, slot, n) PROVE Final(f[1], f[2], f[3], FALSE)'
    <3>1. PICK e, b, u : e = f[1] /\ b = f[2] /\ u = f[3]
      OBVIOUS
    <3>2. Ends(todo', e, b, u, Put(f))
      BY <2>1, <2>3, <3>1, PlacedScript
    <3>3. PICK i : LastStore(todo', i, e, b, u)
      BY <3>2 DEF Ends
    <3>4. ToStore(e, b, u, FALSE)'
      BY <3>3 DEF ToStore, LastStore
    <3>5. Final(e, b, u, FALSE)'
      BY <3>4 DEF Final
    <3>6. QED
      BY <3>1, <3>5
  <2>4. QED
    <3>1. Facts(t, n)' = FactsOf(Image, t, group, slot, n)
      BY PlacedFacts
    <3>2. QED
      BY <2>2, <2>3, <3>1
<1>5. QED
  BY <1>1, <1>2, <1>3, <1>4 DEF LaunchInv, ToWake

LEMMA InvPlaces ==
  ASSUME IInv, NEW group \in Groups, NEW known \in BOOLEAN, BeginLaunch(group, known)
  PROVE  IInv'
<1>1. Types /\ HeldApart /\ TriggerInv /\ UnfreezeInv /\ FinishInv /\ LaunchInv /\ FitsInv
      /\ LoadInv /\ LoadedInv /\ OffInv /\ KernelInv
  BY DEF IInv, ScriptInv
<1>2. PICK slot \in 1 .. MaxLaunches, n \in Nat : Places(group, known, slot, n)
  BY <1>1, PlacesOfLaunch
<1>3. /\ call' = "launch" /\ loaded /\ loaded' = loaded /\ images' = images
      /\ Program >= 1 /\ Fits(Image)
  BY <1>1, <1>2 DEF Places, Types, CallInv, FitsInv
<1>4. Types'
  BY <1>1, <1>2, TypesPlaces
<1>5. HeldApart'
  <2>1. SUFFICES ASSUME NEW m \in Held', NEW k \in Held', m # k
                 PROVE  /\ launches'[m].tiles \cap launches'[k].tiles = {}
                        /\ launches'[m].slot # launches'[k].slot
    BY DEF HeldApart
  <2>2. /\ \A j \in Held : j \in DOMAIN launches /\ launches'[j] = launches[j] /\ j # n
        /\ \A j \in Held' : j = n \/ j \in Held
        /\ launches'[n].tiles = group /\ launches'[n].slot = slot
    <3>1. Held' = Held \cup {n} /\ \A j \in DOMAIN launches : launches'[j] = launches[j] /\ j # n
      BY <1>1, <1>2, PlacedHeld
    <3>2. launches'[n].tiles = group /\ launches'[n].slot = slot
      BY <1>2 DEF Places
    <3>3. QED
      BY <3>1, <3>2 DEF Held
  <2>3. \A j \in Held : launches[j].tiles \cap group = {} /\ launches[j].slot # slot
    BY <1>1, <1>2, PlacedBusy
  <2>4. CASE m \in Held /\ k \in Held
    BY <1>1, <2>1, <2>2, <2>4 DEF HeldApart
  <2>5. CASE m = n /\ k \in Held
    BY <2>2, <2>3, <2>5
  <2>6. CASE m \in Held /\ k = n
    BY <2>2, <2>3, <2>6
  <2>7. QED
    BY <2>1, <2>2, <2>4, <2>5, <2>6
<1>6. TriggerInv' /\ UnfreezeInv'
  <2>1. Triggers' = Unfreezes \cup Pointers(Image, n)
    BY <1>1, <1>2, <1>3, SameImage, PlacedGroup DEF Triggers
  <2>2. \A i \in DOMAIN todo' : todo'[i] \notin Unfreezes
    BY <1>1, <1>2, PlacedScript
  <2>3. Careful(todo', Pointers(Image, n))
    BY <1>1, <1>2, PlacedScript
  <2>4. \A i \in DOMAIN todo' : todo'[i] \in Triggers' => i # 1 /\ Fenced(todo', i) /\ NoneAfter(todo', i)
    BY <2>1, <2>2, <2>3 DEF Careful, Fenced
  <2>5. QED
    BY <2>2, <2>4 DEF TriggerInv, UnfreezeInv
<1>7. FinishInv' /\ FitsInv' /\ LoadInv' /\ OffInv'
  BY <1>3, SameImage DEF FinishInv, FitsInv, LoadInv, OffInv
<1>8. LaunchInv'
  BY <1>1, <1>2, PlacedLaunch
<1>9. LoadedInv'
  BY <1>1, <1>2, <1>3, PlacedKeep DEF LoadedInv
<1>10. KernelInv'
  BY <1>1, <1>2, <1>3, PlacedKernel DEF KernelInv, KernelTile, Up
<1>11. QED
  BY <1>4, <1>5, <1>6, <1>7, <1>8, <1>9, <1>10 DEF IInv, ScriptInv

\* The script of a load.
LEMMA LoadScriptAt ==
  ASSUME Types, NEW img, Loads(img), NEW p, p = Program + 1
  PROVE  /\ p \in DOMAIN Images /\ img \in Images[p] /\ Program' = p /\ Image' = img
         /\ Careful(todo', Unfreezes)
         /\ ok' => Fits(img)
         /\ ~ok' => \A t \in Tiles : ~Has(todo', Unfreeze(t))
         /\ ok' => \A t \in Tiles : Has(todo', Unfreeze(t))
<1>1. /\ p \in DOMAIN Images /\ img \in Images[p] /\ Program' = p /\ Image' = img
      /\ todo' = ProgramLoadScript(img, p).steps /\ ok' = ProgramLoadScript(img, p).ok
  BY DEF Loads
<1>2. dramOn \in BOOLEAN
  BY DEF Types, HostTypes
<1>3. QED
  BY <1>1, <1>2, LoadScriptOf

LEMMA LoadPrepared ==
  ASSUME Types, NEW img, Loads(img), NEW p, p = Program + 1, ok', NEW t \in Tiles,
         NEW w \in Wanted(img, p, t) \cup Boot(img, t)
  PROVE  Final(w[1], w[2], w[3], TRUE)'
<1>1. /\ p \in DOMAIN Images /\ img \in Images[p] /\ dramOn' = dramOn
      /\ todo' = ProgramLoadScript(img, p).steps /\ ProgramLoadScript(img, p).ok
  BY DEF Loads
<1>2. dramOn \in BOOLEAN
  BY DEF Types, HostTypes
<1>3. Prepared(todo', w)
  BY <1>1, <1>2, LoadScriptOf
<1>4. PICK e, b, u : e = w[1] /\ b = w[2] /\ u = w[3]
  OBVIOUS
<1>5. PICK m : Ends(todo', e, b, u, m) /\ (m = Mark(e) \/ (e = Dram /\ dramOn))
  BY <1>3, <1>4 DEF Prepared
<1>6. PICK i \in DOMAIN todo' : LastStore(todo', i, e, b, u) /\ \E q \in 1 .. i : todo'[q] = m
  BY <1>5 DEF Ends, LastStore
<1>7. Ready(e)' \/ \E q \in 1 .. i : todo'[q] = Mark(e)
  BY <1>1, <1>5, <1>6 DEF Ready
<1>8. ToStore(e, b, u, TRUE)'
  BY <1>6, <1>7 DEF ToStore
<1>9. Final(e, b, u, TRUE)'
  BY <1>8 DEF Final
<1>10. QED
  BY <1>4, <1>9

LEMMA InvLoads ==
  ASSUME IInv, NEW img, BeginLoad(img)
  PROVE  IInv'
<1>1. Types /\ OffInv
  BY DEF IInv
<1>2. Loads(img)
  BY <1>1, LoadsOf
<1>3. PICK p : p = Program + 1
  OBVIOUS
<1>4. /\ p \in DOMAIN Images /\ img \in Images[p] /\ Program' = p /\ Image' = img
      /\ Careful(todo', Unfreezes)
      /\ ok' => Fits(img)
      /\ ~ok' => \A t \in Tiles : ~Has(todo', Unfreeze(t))
      /\ ok' => \A t \in Tiles : Has(todo', Unfreeze(t))
  BY <1>1, <1>2, <1>3, LoadScriptAt
<1>5. /\ call = "idle" /\ ~loaded /\ call' = "load" /\ loaded' = loaded /\ Program \in Nat
      /\ UNCHANGED <<loaded, launches, crashes, net, mem, tileVars, fin, dramOn>>
  BY <1>2 DEF Loads
<1>6. Types'
  BY <1>1, <1>2, TypesLoads
<1>7. HeldApart'
  <2>1. ASSUME NEW n \in DOMAIN launches' PROVE ~Placed(n)'
    <3>1. launches'[n] = launches[n] /\ n \in DOMAIN launches
      BY <1>5, <2>1
    <3>2. launches[n].program <= Program /\ launches[n].program \in Nat
      BY <1>1, <3>1, LaunchesOf
    <3>3. launches'[n].program # Program'
      BY <1>3, <1>4, <1>5, <3>1, <3>2
    <3>4. QED
      BY <3>3 DEF Placed
  <2>2. Held' = {}
    BY <2>1 DEF Held
  <2>3. QED
    BY <2>2 DEF HeldApart
<1>8. TriggerInv'
  <2>1. Triggers' = Unfreezes
    BY <1>5 DEF Triggers
  <2>2. \A i \in DOMAIN todo' : todo'[i] \in Triggers' => i # 1 /\ Fenced(todo', i) /\ NoneAfter(todo', i)
    BY <1>4, <2>1 DEF Careful, Fenced
  <2>3. QED
    BY <2>2 DEF TriggerInv
<1>9. UnfreezeInv'
  BY <1>4, <1>5 DEF UnfreezeInv, Unfreezes, Has
<1>10. FinishInv' /\ LaunchInv' /\ LoadedInv'
  BY <1>5 DEF FinishInv, LaunchInv, LoadedInv
<1>11. FitsInv'
  BY <1>4, <1>5 DEF FitsInv
<1>12. LoadInv'
  <2>1. ASSUME ok', NEW t \in Tiles
        PROVE  /\ ToUnfreeze(t)'
               /\ \A w \in (Wanted(Image, Program, t) \cup Boot(Image, t))' : Final(w[1], w[2], w[3], TRUE)'
    <3>1. ToUnfreeze(t)'
      BY <1>4, <2>1 DEF ToUnfreeze
    <3>2. Wanted(Image, Program, t)' = Wanted(img, p, t) /\ Boot(Image, t)' = Boot(img, t)
      BY <1>4, <1>5 DEF Wanted, TagsWords, AllDataWords, TextWords
    <3>3. \A w \in Wanted(img, p, t) \cup Boot(img, t) : Final(w[1], w[2], w[3], TRUE)'
      BY <1>1, <1>2, <1>3, <2>1, LoadPrepared
    <3>4. QED
      BY <3>1, <3>2, <3>3
  <2>2. QED
    BY <2>1 DEF LoadInv
<1>13. OffInv'
  <2>1. ASSUME crashes = 0, NEW t \in Tiles PROVE Ready(t)'
    <3>1. Ready(t)
      BY <1>1, <1>5, <2>1 DEF OffInv
    <3>2. QED
      BY <1>5, <3>1, NumTiles DEF Ready, tileVars
  <2>2. QED
    BY <1>5, <2>1 DEF OffInv
<1>14. KernelInv'
  BY <1>4, <1>5 DEF KernelInv, Up, ToUnfreeze
<1>15. QED
  BY <1>6, <1>7, <1>8, <1>9, <1>10, <1>11, <1>12, <1>13, <1>14 DEF IInv, ScriptInv

------------------------------------------------------------------------------
(* What the invariant says.                                                 *)

\* A tile that keeps the program of its pod has every word of it.
LEMMA PresentOf ==
  ASSUME Types, Program >= 1, Fits(Image), NEW t \in Tiles, Keep(t)
  PROVE  WordsPresent(Program, t)
<1>1. PICK p, img : p = Program /\ img = Image
  OBVIOUS
<1>2. p \in DOMAIN Images /\ img \in Images[p] /\ img = images[p]
  BY <1>1, ImageOf DEF Image
<1>3. ASSUME NEW w \in Wanted(img, p, t), NEW e, NEW b, NEW u, e = w[1], b = w[2], u = w[3]
      PROVE  mem[e][b] = u
  BY <1>1, <1>3 DEF Keep, Settled
<1>4. mem[t][Csr("pc")] = PcInit(img)
  <2>1. PcWord(img, t) \in Wanted(img, p, t)
    BY DEF Wanted
  <2>2. QED
    BY <1>3, <2>1, WordFields
<1>5. ASSUME NEW s \in DOMAIN img.segments, img.segments[s].load, NEW k \in 1 .. img.segments[s].mem
      PROVE  LET seg  == img.segments[s]
                 cell == IF seg.dram THEN DramAt(seg.at + k - 1) ELSE Dmem(seg.at + k - 1)
                 word == IF k <= seg.file THEN ProgramWord(p, s, k) ELSE Zero
             IN IF seg.dram THEN mem[Dram][cell] = word
                            ELSE cell \in SymbolCells(img) \/ mem[t][cell] = word
  <2>1. PICK w : w = DataWord(img, p, s, t, k)
    OBVIOUS
  <2>2. PICK e, b, u : e = w[1] /\ b = w[2] /\ u = w[3]
    OBVIOUS
  <2>3. /\ e = SegmentDest(img.segments[s], t) /\ b = SegmentCell(img.segments[s], k)
        /\ u = SegmentWord(img.segments[s], p, s, k)
    BY <2>1, <2>2, WordFields
  <2>4. ASSUME b \notin SymbolCells(img) PROVE mem[e][b] = u
    <3>1. w \in DataWords(img, p, s, t)
      BY <2>1, <2>2, <2>4 DEF DataWords
    <3>2. w \in AllDataWords(img, p, t)
      BY <1>5, <3>1 DEF AllDataWords, Loaded
    <3>3. w \in Wanted(img, p, t)
      BY <3>2 DEF Wanted
    <3>4. QED
      BY <1>3, <2>2, <3>3
  <2>5. CASE img.segments[s].dram
    <3>1. b = DramAt(img.segments[s].at + k - 1) /\ e = Dram
      BY <2>3, <2>5 DEF SegmentCell, SegmentDest
    <3>2. b \notin SymbolCells(img)
      BY <3>1, CellNames DEF SymbolCells
    <3>3. QED
      BY <2>3, <2>4, <2>5, <3>1, <3>2 DEF SegmentWord
  <2>6. CASE ~img.segments[s].dram
    <3>1. b = Dmem(img.segments[s].at + k - 1) /\ e = t
      BY <2>3, <2>6 DEF SegmentCell, SegmentDest
    <3>2. QED
      BY <2>3, <2>4, <2>6, <3>1 DEF SegmentWord
  <2>7. QED
    BY <2>5, <2>6
<1>6. ASSUME NEW k \in 1 .. MinSize(img.segments[TextSegment(img)].file, IcacheWords)
      PROVE  mem[t][Icache(k - 1)] = ProgramWord(p, TextSegment(img), k)
  <2>1. PICK w : w = TextWord(img, p, t, k)
    OBVIOUS
  <2>2. PICK e, b, u : e = w[1] /\ b = w[2] /\ u = w[3]
    OBVIOUS
  <2>3. e = t /\ b = Icache(k - 1) /\ u = ProgramWord(p, TextSegment(img), k)
    BY <2>1, <2>2, WordFields
  <2>4. w \in Wanted(img, p, t)
    BY <1>6, <2>1 DEF Wanted, TextWords, TextSize
  <2>5. QED
    BY <1>3, <2>2, <2>3, <2>4
<1>7. QED
  BY <1>1, <1>2, <1>4, <1>5, <1>6 DEF WordsPresent

\* A tile that runs, in the first process, keeps the program of its pod.
LEMMA RunningKeeps ==
  ASSUME IInv, crashes = 0, NEW t \in Tiles, run[t] # "off"
  PROVE  Keep(t) /\ Program >= 1 /\ Fits(Image) /\ Types
<1>1. Types /\ FitsInv /\ LoadInv /\ LoadedInv /\ OffInv
  BY DEF IInv
<1>2. CASE loaded
  BY <1>1, <1>2 DEF LoadedInv, FitsInv, Types, CallInv
<1>3. CASE ~loaded
  <2>1. ~Ready(t)
    BY NumTiles DEF Ready
  <2>2. call = "load" /\ ok /\ ~ToUnfreeze(t)
    BY <1>1, <1>3, <2>1 DEF OffInv, Types, HostTypes, CallInv
  <2>3. QED
    BY <1>1, <2>2 DEF LoadInv, FitsInv, Types, CallInv
<1>4. QED
  BY <1>2, <1>3

LEMMA RunsWhole ==
  ASSUME IInv
  PROVE  RunsWholeProgram
<1>1. ASSUME crashes = 0, NEW t \in Tiles, run[t] # "off" PROVE WordsPresent(runs[t], t)
  <2>1. Keep(t) /\ Program >= 1 /\ Fits(Image) /\ Types
    BY <1>1, RunningKeeps
  <2>2. runs[t] = Program
    BY <1>1, <2>1 DEF Keep
  <2>3. WordsPresent(Program, t)
    BY <2>1, PresentOf
  <2>4. QED
    BY <2>2, <2>3
<1>2. QED
  BY <1>1 DEF RunsWholeProgram

LEMMA Recovers ==
  ASSUME IInv
  PROVE  RecoversFromCrash
<1>1. ASSUME loaded, NEW t \in Tiles, run[t] # "off" PROVE runs[t] = Program /\ WordsPresent(Program, t)
  <2>1. Keep(t) /\ Program >= 1 /\ Fits(Image) /\ Types
    BY <1>1 DEF IInv, LoadedInv, FitsInv, Types, CallInv
  <2>2. runs[t] = Program
    BY <1>1, <2>1 DEF Keep
  <2>3. QED
    BY <2>1, <2>2, PresentOf
<1>2. QED
  BY <1>1 DEF RecoversFromCrash

LEMMA SeesLaunch ==
  ASSUME IInv
  PROVE  KernelSeesLaunch
<1>1. ASSUME crashes = 0, NEW t \in Tiles, run[t] = "kernel"
      PROVE  LET n == got[t] IN
             /\ n \in DOMAIN launches /\ t \in launches[n].tiles
             /\ TileSymbol(t, "args") = LaunchWord(n) /\ TileSymbol(t, "config") = LaunchWord(n)
             /\ mem[t][Csr("origin")] = Number(GroupOrigin(launches[n].tiles))
             /\ mem[Dram][Heap(launches[n].slot)] = LaunchWord(n)
  <2>1. Keep(t) /\ Program >= 1 /\ Fits(Image) /\ Types
    BY <1>1, RunningKeeps
  <2>2. Up(t)
    <3>1. ~Ready(t)
      BY <1>1, NumTiles DEF Ready
    <3>2. QED
      BY <1>1, <3>1 DEF IInv, OffInv, Types, HostTypes, CallInv, Up
  <2>3. PointerInMemory(t) /\ InKernel(t)
    BY <2>2 DEF IInv, KernelInv
  <2>4. mem[t][Cell("kernel_ptr")] = LaunchWord(got[t])
    BY <1>1, <2>3 DEF InKernel
  <2>5. \A k : LaunchWord(k) # NotLoaded
    BY DEF LaunchWord, NotLoaded, One
  <2>6. PICK n \in DOMAIN launches : LaunchWord(got[t]) = LaunchWord(n) /\ Woken(t, n)
    BY <2>3, <2>4, <2>5 DEF PointerInMemory
  <2>7. n = got[t]
    <3>1. LaunchWord(got[t])[2] = got[t] /\ LaunchWord(n)[2] = n
      BY DEF LaunchWord
    <3>2. QED
      BY <2>6, <3>1
  <2>8. t \in launches[n].tiles /\ \A f \in Facts(t, n) : Settled(f[1], f[2], f[3])
    BY <2>6 DEF Woken
  <2>9. ASSUME NEW e, NEW b, NEW u, <<e, b, u>> \in Facts(t, n) PROVE mem[e][b] = u
    <3>1. Settled(e, b, u)
      BY <2>8, <2>9
    <3>2. QED
      BY <3>1 DEF Settled
  <2>10. /\ <<t, Cell("args"), LaunchWord(n)>> \in Facts(t, n)
         /\ <<t, Cell("config"), LaunchWord(n)>> \in Facts(t, n)
         /\ <<t, Csr("origin"), Number(GroupOrigin(launches[n].tiles))>> \in Facts(t, n)
         /\ <<Dram, Heap(launches[n].slot), LaunchWord(n)>> \in Facts(t, n)
    BY DEF Facts, FactsOf, Cell
  <2>11. TileSymbol(t, "args") = mem[t][Cell("args")] /\ TileSymbol(t, "config") = mem[t][Cell("config")]
    BY <1>1, <2>1, PointerOf
  <2>12. QED
    BY <2>6, <2>7, <2>8, <2>9, <2>10, <2>11
<1>2. QED
  BY <1>1 DEF KernelSeesLaunch

LEMMA TypesOK ==
  ASSUME IInv
  PROVE  TypeOK
<1>1. Types
  BY DEF IInv
<1>2. ASSUME NEW i \in DOMAIN todo, todo[i].op = "store" PROVE todo[i].at \in DOMAIN mem[todo[i].to]
  <2>1. todo[i] \in Steps
    BY <1>1, <1>2, ElementsOf DEF Types, HostTypes
  <2>2. todo[i].to \in Dests /\ todo[i].at \in Cells(todo[i].to)
    BY <1>2, <2>1, StepFields
  <2>3. QED
    BY <1>1, <2>2 DEF Types, ManycoreTypes
<1>3. ASSUME NEW d \in DOMAIN net, NEW i \in DOMAIN net[d] PROVE net[d][i].at \in DOMAIN mem[d]
  <2>1. d \in Dests /\ net[d] \in Seq(Packets(d))
    BY <1>1, <1>3 DEF Types, ManycoreTypes
  <2>2. net[d][i] \in Packets(d)
    BY <1>3, <2>1, ElementsOf
  <2>3. net[d][i].at \in Cells(d)
    BY <2>2 DEF Packets
  <2>4. QED
    BY <1>1, <2>1, <2>3 DEF Types, ManycoreTypes
<1>4. QED
  BY <1>1, <1>2, <1>3 DEF TypeOK, Types, HostTypes, ManycoreTypes, Program

------------------------------------------------------------------------------
(* The theorems.                                                            *)

LEMMA InvInit ==
  ASSUME Init
  PROVE  IInv
<1>1. /\ call = "idle" /\ todo = <<>> /\ loaded = FALSE /\ images = <<>> /\ launches = <<>>
      /\ crashes = 0 /\ ok = TRUE /\ fin = {} /\ dramOn \in BOOLEAN
      /\ net = [d \in Dests |-> <<>>] /\ run = [t \in Tiles |-> "off"]
      /\ runs = [t \in Tiles |-> 0] /\ got = [t \in Tiles |-> 0]
  BY DEF Init, Dests
<1>2. DOMAIN mem = Dests /\ \A d \in Dests : mem[d] \in [Cells(d) -> Words]
  <2>1. mem = [d \in Dests |-> [a \in Cells(d) |-> Zero]]
    BY DEF Init, Dests, Cells
  <2>2. QED
    BY <2>1, WordTypes
<1>3. Program = 0 /\ DOMAIN launches = {} /\ Len(launches) = 0
  BY <1>1 DEF Program
<1>4. MaxPrograms \in Nat /\ MaxLaunches \in Nat
  <2>1. Images \in Seq(SUBSET UNION Range(Images))
    BY ImagesAssumption
  <2>2. QED
    BY <2>1, BoundsAssumption, ElementsOf DEF MaxPrograms
<1>5. HostTypes
  <2>1. todo \in Seq(Steps) /\ images \in Seq(Binaries) /\ launches \in Seq(Launches)
    BY <1>1
  <2>2. Program <= MaxPrograms /\ Len(launches) <= MaxLaunches
    BY <1>3, <1>4
  <2>3. \A p \in 1 .. Program : FALSE
    BY <1>3
  <2>4. QED
    BY <1>1, <1>3, <2>1, <2>2, <2>3 DEF HostTypes
<1>6. ManycoreTypes
  BY <1>1, <1>2, <1>4 DEF ManycoreTypes
<1>7. CallInv
  BY <1>1, <1>3 DEF CallInv
<1>8. HeldApart
  BY <1>3 DEF HeldApart, Held
<1>9. ScriptInv
  BY <1>1 DEF ScriptInv, TriggerInv, UnfreezeInv, FinishInv, LaunchInv
<1>10. FitsInv /\ LoadInv /\ LoadedInv /\ KernelInv
  BY <1>1 DEF FitsInv, LoadInv, LoadedInv, KernelInv, Up
<1>11. OffInv
  BY <1>1, NumTiles DEF OffInv, Ready, Dests
<1>12. QED
  BY <1>5, <1>6, <1>7, <1>8, <1>9, <1>10, <1>11 DEF IInv, Types

LEMMA InvNext ==
  ASSUME IInv, [Next]_vars
  PROVE  IInv'
<1>1. CASE \E img \in UNION Range(Images) : BeginLoad(img)
  BY <1>1, InvLoads
<1>2. CASE \E group \in Groups, known \in BOOLEAN : BeginLaunch(group, known)
  BY <1>2, InvPlaces
<1>3. CASE BeginFinish
  BY <1>3, InvBeginFinish
<1>4. CASE Crash
  BY <1>4, InvCrash
<1>5. CASE HostStore \/ HostFence
  BY <1>5, InvHost
<1>6. CASE Return
  BY <1>6, InvReturns
<1>7. CASE \E n \in fin : HandleFinish(n)
  BY <1>7, InvFinished
<1>8. CASE \E d \in DOMAIN net : Deliver(d)
  BY <1>8, InvDelivers
<1>9. CASE \E t \in Tiles : StartKernel(t)
  BY <1>9, InvWakens
<1>10. CASE \E n \in DOMAIN launches : KernelDone(n)
  BY <1>10, InvCompletes
<1>11. CASE UNCHANGED vars
  <2>1. /\ UNCHANGED <<call, todo, ok, loaded, images, launches, crashes>>
        /\ UNCHANGED <<net, mem, run, runs, got, fin, dramOn>>
    BY <1>11 DEF vars, hostVars, tileVars
  <2>2. Types'
    BY <2>1, SameImage DEF IInv, Types, HostTypes, ManycoreTypes, CallInv
  <2>3. HeldApart' /\ FitsInv' /\ (\A n : LaunchStores(n)' = LaunchStores(n)) /\ Triggers' = Triggers
    BY <2>1, HeldKept, FitsKept, LaunchSameSteps, SameTriggers DEF IInv
  <2>4. TriggerInv' /\ UnfreezeInv' /\ FinishInv' /\ OffInv'
    BY <2>1, <2>3 DEF IInv, ScriptInv, TriggerInv, UnfreezeInv, FinishInv, OffInv, NetEmpty, Ready, Stops,
                      Marked, ToUnfreeze
  <2>5. LaunchInv'
    <3>1. \A t, n : Facts(t, n)' = Facts(t, n) /\ Wake(t, n)' = Wake(t, n)
      BY <2>1, HeldKept, LaunchSameSteps
    <3>2. \A n : Placed(n)' <=> Placed(n)
      BY <2>1, HeldKept
    <3>3. \A d, a, v, m : Final(d, a, v, m)' <=> Final(d, a, v, m)
      BY <2>1 DEF Final, ToStore, Stored, StoredIn, Pending, SentTo, Ready, Marked
    <3>4. QED
      BY <2>1, <2>3, <3>1, <3>2, <3>3 DEF IInv, ScriptInv, LaunchInv, ToWake
  <2>6. LoadInv' /\ LoadedInv' /\ KernelInv'
    <3>1. \A t : Wanted(Image, Program, t)' = Wanted(Image, Program, t) /\ Boot(Image, t)' = Boot(Image, t)
      BY <2>1, WantedSame
    <3>2. \A d, a, v, m : Final(d, a, v, m)' <=> Final(d, a, v, m)
      BY <2>1 DEF Final, ToStore, Stored, StoredIn, Pending, SentTo, Ready, Marked
    <3>3. \A t : Keep(t) => Keep(t)'
      BY <2>1, KeepSame DEF tileVars
    <3>4. LoadInv' /\ LoadedInv'
      BY <2>1, <3>1, <3>2, <3>3 DEF IInv, LoadInv, LoadedInv, ToUnfreeze
    <3>5. KernelInv'
      <4>1. SameGroups(launches')
        BY <2>1, LaunchesOf DEF IInv, SameGroups
      <4>2. ASSUME NEW t \in Tiles, KernelTile(t) PROVE KernelTile(t)'
        <5>1. \A n \in DOMAIN launches : Woken(t, n) => Woken(t, n)'
          BY <2>1, <4>1, WokenKept, HeldKept DEF Woken, Held
        <5>2. QED
          BY <2>1, <4>1, <4>2, <5>1, KernelKept DEF tileVars
      <4>3. QED
        BY <2>1, <4>2 DEF IInv, KernelInv, KernelTile, Up, ToUnfreeze
    <3>6. QED
      BY <3>4, <3>5
  <2>7. QED
    BY <2>2, <2>3, <2>4, <2>5, <2>6 DEF IInv, ScriptInv
<1>12. QED
  BY <1>1, <1>2, <1>3, <1>4, <1>5, <1>6, <1>7, <1>8, <1>9, <1>10, <1>11
     DEF Next, Calls, Host, Finishes, Manycore, KernelsDone

\* The inductive invariant of loading and launching.
THEOREM InvariantHolds == Spec => []IInv
BY InvInit, InvNext, PTL DEF Spec

\* The stores that the host and the network hold go to cells that exist.
THEOREM TypeOKHolds == Spec => []TypeOK
BY InvariantHolds, TypesOK, PTL

\* A tile that is not frozen has its whole program in place, whatever the
\* program, the number of tiles and the order in which the stores arrive.
THEOREM RunsWholeProgramHolds == Spec => []RunsWholeProgram
BY InvariantHolds, RunsWhole, PTL

\* A tile in a kernel belongs to the tile group it was woken for, and its
\* arguments and its place are those of that launch.
THEOREM KernelSeesLaunchHolds == Spec => []KernelSeesLaunch
BY InvariantHolds, SeesLaunch, PTL

\* A program loaded after a process died runs whole, on every tile.
THEOREM RecoversFromCrashHolds == Spec => []RecoversFromCrash
BY InvariantHolds, Recovers, PTL
=============================================================================
