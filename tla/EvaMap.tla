------------------------------- MODULE EvaMap -------------------------------
(***************************************************************************)
(* Endpoint virtual addresses: how a pod's DRAM and the tiles' memories    *)
(* appear to the host and to the tiles, and the transfers that walk them   *)
(* (bsg_manycore_eva.cpp, bsg_manycore_config_pod.h, and the pod's memcpy, *)
(* memset and DMA of bsg_manycore_cuda.cpp).                               *)
(*                                                                         *)
(* Addresses count words.  An address is an integer whose fields are       *)
(* quotients and remainders by the powers of two below; the constants      *)
(* that name a bit are its weight.  A translation is a set: empty when the *)
(* code returns an error, else the one result.                             *)
(***************************************************************************)
EXTENDS DmaMap, Sequences

CONSTANTS
  Stripe,             \* words of a stripe
  BankWords,          \* words a bank's address can name
  DramWords,          \* words of all the banks, from the ROM
  CacheWords,         \* words of a bank's cache
  DmemWords, Csrs,    \* a tile's memory and its control registers
  EpaSpan,            \* 2^HB_MC_EPA_LOGSZ
  GroupXs, GroupYs,   \* 2^ the widths of the fields of a group address
  GlobalEpaSpan,      \* 2^HB_MC_GLOBAL_EPA_LOGSZ
  GlobalXs, GlobalYs, \* 2^ the widths of the fields of a global address
  FinishBase,         \* where the finish addresses of the host begin
  Requests,           \* the transfers a program may ask for
  MaxCalls,           \* how many it asks for (bound)
  MaxGroups           \* tile groups of the largest grid (bound)

GroupBit == EpaSpan * GroupXs * GroupYs
GlobalBit == GlobalEpaSpan * GlobalXs * GlobalYs
DramBit == 4 * GroupBit

ASSUME GeometryAssumption ==
  /\ Stripe \in PowersOfTwo
  /\ GlobalBit = 2 * GroupBit
  /\ DmemWords <= GlobalEpaSpan /\ GlobalEpaSpan <= EpaSpan
  /\ \A c \in Csrs : c >= DmemWords /\ c < EpaSpan
  /\ CacheWords <= BankWords
  /\ FinishBase + MaxGroups <= 2 * GlobalEpaSpan

ASSUME SizesAssumption ==
  /\ {Stripe, BankWords, DmemWords, EpaSpan, GroupXs, GroupYs, GlobalEpaSpan, GlobalXs, GlobalYs}
       \subseteq Nat \ {0}
  /\ {DramWords, CacheWords, FinishBase, MaxGroups, MaxCalls} \subseteq Nat
  /\ Csrs \subseteq Nat
  /\ BankWords <= DramWords
  /\ DramBit % (2 * Stripe * Cols) = 0

\* The fields of a global address are wide enough for the machine.
ASSUME MeshAssumption ==
  \A co \in Tiles \cup {Host} : co[1] < GlobalXs /\ co[2] < GlobalYs

VARIABLES
  mem,          \* [cell -> word]: what the memories and the tiles hold
  dramEnabled,
  call,         \* the call in progress, or NoCall
  got,          \* the words the last read has returned so far
  calls         \* how many calls there have been

vars == <<mem, dramEnabled, call, got, calls>>

NoCall == [kind |-> "none"]

-----------------------------------------------------------------------------
\* A network physical address.
Npa(co, epa) == [xy |-> co, epa |-> epa]

Places ==
  {Npa(co, e) : co \in Banks, e \in 0 .. BankWords - 1}
    \cup {Npa(co, e) : co \in Tiles, e \in (0 .. DmemWords - 1) \cup Csrs}

\* Where the word of a place is kept: a bank's lies behind its cache, which
\* writes back and fills before and after DMA (module VCacheDma).
Cell == [p \in Places |-> IF p.xy \in Banks THEN MemoryPlace(p.xy, p.epa) ELSE p]
Cells == {Cell[p] : p \in Places}

-----------------------------------------------------------------------------
(* From virtual to physical: one operator per kind of address.             *)

\* A word of a bank: with the DRAM disabled only the cache is there.
BankLimit == IF dramEnabled THEN BankWords ELSE CacheWords

\* The bank: a stripe goes to a column, north or south of the pod.
DramBank(src, e) ==
  LET og == Origin(PodOf(src))
      south == (e \div (Stripe * Cols)) % 2 = 1
  IN <<og[1] + ((e \div Stripe) % Cols), og[2] + (IF south THEN Rows ELSE -1)>>

\* The word in it: the bits above those that chose the bank, and those below.
DramEpa(e) ==
  (e % Stripe) + Stripe * ((e % DramBit) \div (2 * Stripe * Cols))

\* Mutant: every chunk as long as a stripe.
EvaDramWholeStripe(src, e) ==
  {[npa |-> Npa(DramBank(src, e), epa), sz |-> Stripe] :
     epa \in {DramEpa(e)} \cap 0 .. BankLimit - 1}

EvaDram(src, e) ==
  {[npa |-> Npa(DramBank(src, e), epa), sz |-> Stripe - (e % Stripe)] :
     epa \in {DramEpa(e)} \cap 0 .. BankLimit - 1}

\* A word of a tile: its memory to the end, or one control register.
EvaTile(co, e) ==
  IF e < DmemWords THEN {[npa |-> Npa(co, e), sz |-> DmemWords - e]}
  ELSE IF e \in Csrs THEN {[npa |-> Npa(co, e), sz |-> 1]}
  ELSE {}

GlobalXY(e) == <<(e \div GlobalEpaSpan) % GlobalXs,
                 (e \div (GlobalEpaSpan * GlobalXs)) % GlobalYs>>

EvaGlobal(e) == EvaTile(GlobalXY(e), e % GlobalEpaSpan)

GroupXY(org, e) == <<org[1] + ((e \div EpaSpan) % GroupXs),
                     org[2] + ((e \div (EpaSpan * GroupXs)) % GroupYs)>>

\* The bound compares with the geometry of the first pod, and with '<'.
EvaGroup(org, e) ==
  LET co == GroupXY(org, e)
  IN IF Cols + VcoreBase[1] < co[1] \/ Rows + VcoreBase[2] < co[2] THEN {}
     ELSE EvaTile(co, e % EpaSpan)

\* The tile's own: no bit above its words is set.
EvaLocal(src, e) == IF e < EpaSpan THEN EvaTile(src, e) ELSE {}

HasBit(e, bit) == (e \div bit) % 2 = 1

\* default_eva_to_npa: the highest bit that is set decides.
EvaToNpa(org, src, e) ==
  IF HasBit(e, DramBit) THEN EvaDram(src, e)
  ELSE IF HasBit(e, GlobalBit) THEN EvaGlobal(e)
  ELSE IF HasBit(e, GroupBit) THEN EvaGroup(org, e)
  ELSE EvaLocal(src, e)

\* What a program may ask for: transfers that begin and end at addresses of
\* DRAM or of tiles there are (any word of them, also one a tile does not have).
ASSUME RequestsAssumption ==
  \A r \in Requests :
    /\ r.kind \in {"read", "write", "memset"} /\ r.dma \in BOOLEAN
    /\ r.src \in Tiles /\ r.eva \in Nat /\ r.sz \in Nat
    /\ \A e \in r.eva .. r.eva + r.sz :
         ~HasBit(e, DramBit) =>
           /\ HasBit(e, GlobalBit) => GlobalXY(e) \in Tiles
           /\ ~HasBit(e, GlobalBit) /\ HasBit(e, GroupBit) => GroupXY(r.org, e) \in Tiles

-----------------------------------------------------------------------------
(* From physical to virtual.                                               *)

DramEpaIsValid(epa) == epa < (IF dramEnabled THEN DramWords ELSE CacheWords)

\* The columns of the target's pod; the row of the bank is not looked at.
NpaIsDram(tgt, npa) ==
  LET og == Origin(PodOf(tgt))
  IN /\ IsDram(npa.xy)
     /\ DramEpaIsValid(npa.epa)
     /\ npa.xy[1] \in og[1] .. og[1] + Cols - 1

\* Mutant: without the bit of the side.
NpaToEvaDramNoSide(tgt, npa) ==
  DramBit + (npa.epa % Stripe)
    + Stripe * (npa.xy[1] - Origin(PodOf(tgt))[1])
    + 2 * Stripe * Cols * (npa.epa \div Stripe)

NpaToEvaDram(tgt, npa) ==
  DramBit + (npa.epa % Stripe)
    + Stripe * (npa.xy[1] - Origin(PodOf(tgt))[1])
    + Stripe * Cols * (IF IsSouth(npa.xy) THEN 1 ELSE 0)
    + 2 * Stripe * Cols * (npa.epa \div Stripe)

\* The code joins the fields with '|': an epa past its field joins the x above it.
NpaToEvaGlobal(npa) ==
  LET over == npa.epa \div GlobalEpaSpan
      x == npa.xy[1]
      joined == x + over - (IF over = 1 /\ x % 2 = 1 THEN 1 ELSE 0)
  IN GlobalBit + (npa.epa % GlobalEpaSpan)
       + GlobalEpaSpan * joined + GlobalEpaSpan * GlobalXs * npa.xy[2]

LocalEpaIsValid(epa) == epa < DmemWords

NpaIsHost(npa) == npa.xy = Host
NpaIsLocal(tgt, npa) == npa.xy = tgt /\ LocalEpaIsValid(npa.epa)
NpaIsGlobal(npa) == IsVcore(npa.xy) /\ LocalEpaIsValid(npa.epa)

NpaToEva(tgt, npa) ==
  IF NpaIsDram(tgt, npa) THEN {NpaToEvaDram(tgt, npa)}
  ELSE IF NpaIsHost(npa) \/ NpaIsLocal(tgt, npa) \/ NpaIsGlobal(npa)
  THEN {NpaToEvaGlobal(npa)}
  ELSE {}

-----------------------------------------------------------------------------
Init ==
  /\ mem = [c \in Cells |-> 0]
  /\ dramEnabled = TRUE
  /\ call = NoCall
  /\ got = <<>>
  /\ calls = 0

SetDram(on) ==
  /\ call = NoCall
  /\ dramEnabled' = on
  /\ UNCHANGED <<mem, call, got, calls>>

\* A program asks for a transfer, by DMA or by requests (DMA is refused while
\* the DRAM is disabled); the loops below keep the current address, the words
\* left and the place in the buffer.
Start(r) ==
  /\ call = NoCall /\ calls < MaxCalls
  /\ r.dma => dramEnabled
  /\ call' = [kind |-> r.kind, dma |-> r.dma, org |-> r.org, src |-> r.src,
              eva |-> r.eva, sz |-> r.sz, done |-> 0]
  /\ got' = <<>>
  /\ calls' = calls + 1
  /\ UNCHANGED <<mem, dramEnabled>>

\* The words of the buffer of a write are numbered; memset has one value.
Filler == -1
Word(kind, i) == IF kind = "memset" THEN Filler ELSE i

Translated == EvaToNpa(call.org, call.src, call.eva)

\* Mutant: the larger of the two sizes, where the smaller is meant.
MaxSize(x, y) == IF x < y THEN y ELSE x
MinSize(x, y) == IF x < y THEN x ELSE y

\* The cells of xfer words from a place on: each of them translated on its own
\* way through the network, or one copy from the place of the first.
CellsFrom(npa, xfer) ==
  [i \in 1 .. xfer |->
     IF call.dma THEN [Cell[npa] EXCEPT !.at = @ + i - 1]
                 ELSE Cell[Npa(npa.xy, npa.epa + i - 1)]]

\* One turn of the loop: as many words as are contiguous.
Chunk ==
  /\ call.kind \in {"read", "write", "memset"} /\ call.sz > 0
  /\ \E t \in Translated :
       LET xfer == MinSize(call.sz, t.sz)
           cells == CellsFrom(t.npa, xfer)
       IN /\ call' = [call EXCEPT !.eva = @ + xfer, !.sz = @ - xfer, !.done = @ + xfer]
          /\ IF call.kind = "read"
             THEN /\ got' = got \o [i \in 1 .. xfer |-> mem[cells[i]]]
                  /\ UNCHANGED mem
             ELSE /\ mem' = [c \in Cells |->
                       IF \E i \in 1 .. xfer : cells[i] = c
                       THEN Word(call.kind, call.done + CHOOSE i \in 1 .. xfer : cells[i] = c)
                       ELSE mem[c]]
                  /\ UNCHANGED got
  /\ UNCHANGED <<dramEnabled, calls>>

\* The loop is over, or an address has no translation.
Return ==
  /\ call # NoCall
  /\ call.kind # "launch" => call.sz = 0 \/ Translated = {}
  /\ call' = NoCall
  /\ UNCHANGED <<mem, dramEnabled, got, calls>>

\* A launch gives the tile the virtual address of its group's finish signal.
Launch(tile, group) ==
  /\ call = NoCall /\ calls < MaxCalls
  /\ \E e \in NpaToEva(tile, Npa(Host, FinishBase + group)) :
       call' = [kind |-> "launch", src |-> tile, group |-> group, eva |-> e]
  /\ calls' = calls + 1
  /\ UNCHANGED <<mem, dramEnabled, got>>

Next ==
  \/ \E on \in BOOLEAN : SetDram(on)
  \/ \E r \in Requests : Start(r)
  \/ Chunk
  \/ Return
  \/ \E tile \in Tiles, group \in 0 .. MaxGroups - 1 : Launch(tile, group)

Spec == Init /\ [][Next]_vars

-----------------------------------------------------------------------------
(* The abstract machine: pod DRAMs and tiles as flat spaces.               *)

TileWords == (0 .. DmemWords - 1) \cup Csrs
PodWords == 0 .. 2 * Cols * BankWords - 1

\* The tiles that a group address can reach: of the first pod, and of the row
\* and the column just past it.  The others are behind a space without words.
GroupReach == {co \in Tiles : co[1] <= VcoreBase[1] + Cols /\ co[2] <= VcoreBase[2] + Rows}
OutOfReach == <<"unreachable", <<>>>>

Spaces ==
  {<<"dram", pod>> : pod \in Pods} \cup {<<"tile", co>> : co \in Tiles} \cup {OutOfReach}

\* Where a word of a pod's DRAM lies: stripes dealt to the pod's banks in the
\* order of their identifiers.
Dealt(pod, a) ==
  LET stripe == a \div Stripe
      bank == (pod[1] * PodsY + pod[2]) * 2 * Cols + (stripe % (2 * Cols))
  IN Npa(Dram(bank), (a % Stripe) + Stripe * (stripe \div (2 * Cols)))

Contents ==
  [s \in Spaces |->
     CASE s[1] = "dram" -> [a \in PodWords |-> mem[Cell[Dealt(s[2], a)]]]
       [] s[1] = "tile" -> [a \in TileWords |-> mem[Cell[Npa(s[2], a)]]]
       [] s = OutOfReach -> <<>>]

Usable ==
  [s \in Spaces |->
     CASE s[1] = "dram" -> 0 .. 2 * Cols * BankLimit - 1
       [] s[1] = "tile" -> TileWords
       [] s = OutOfReach -> {}]

\* What a virtual address names.
Named(c) ==
  IF c.eva >= DramBit
  THEN [space |-> <<"dram", CHOOSE pod \in Pods : c.src \in TilesOf(pod)>>,
        at |-> c.eva - DramBit]
  ELSE IF c.eva >= GlobalBit
  THEN [space |-> <<"tile", GlobalXY(c.eva)>>, at |-> c.eva % GlobalEpaSpan]
  ELSE IF c.eva >= GroupBit
  THEN LET tile == (c.eva - GroupBit) \div EpaSpan
           co == <<c.org[1] + (tile % GroupXs), c.org[2] + tile \div GroupXs>>
       IN [space |-> IF co \in GroupReach THEN <<"tile", co>> ELSE OutOfReach,
           at |-> c.eva % EpaSpan]
  ELSE [space |-> <<"tile", c.src>>, at |-> c.eva]

Flat == INSTANCE FlatMemory WITH
  contents <- Contents,
  usable <- Usable,
  op <- IF call.kind \in {"none", "launch"} THEN [kind |-> "idle"]
        ELSE [kind |-> IF call.kind = "read" THEN "read" ELSE "write",
              space |-> Named(call).space, at |-> Named(call).at, left |-> call.sz,
              data |-> IF call.kind = "read" THEN <<>>
                       ELSE [i \in 1 .. call.sz |-> Word(call.kind, call.done + i)]],
  got <- got

-----------------------------------------------------------------------------
\* Every cell holds a word, and no transfer goes past the end of its buffer
\* (sz of the loops, unsigned in the code, never wraps).
TypeOK ==
  /\ mem \in [Cells -> Int]
  /\ dramEnabled \in BOOLEAN
  /\ call.kind \in {"none", "read", "write", "memset", "launch"}
  /\ call.kind \in {"read", "write", "memset"} => call.sz \in Nat
  /\ calls \in 0 .. MaxCalls

\* The transfers implement flat memories: whatever the stripes, the banks and
\* the tile the address is seen from, a call moves consecutive words of one
\* space in order, touches nothing else, and gives up only where the space
\* ends (eva_write_internal, eva_read_internal, eva_memset).  A group address
\* names the tile only within GroupReach: for a tile group of another pod the
\* call moves nothing and gives up at once, although its tiles are there, and
\* a group that begins in the first column past the first pod is cut in two.
ImplementsFlat == Flat!Spec

\* Translating back what an address was translated to, and forth again, finds
\* the same word (default_npa_to_eva against default_eva_to_npa); a bank is the
\* one its identifier names, by which the simulated memory is chosen, in the
\* pod of the tile that sees it.
RoundTrip ==
  call.kind \in {"read", "write", "memset"} =>
    \A t \in Translated :
      /\ t.npa.xy \in Banks \/ t.npa.epa < DmemWords =>
           \E e \in NpaToEva(call.src, t.npa) :
             \E u \in EvaToNpa(call.org, call.src, e) : u.npa = t.npa
      /\ t.npa.xy \in Banks =>
           /\ Dram(DramId(t.npa.xy)) = t.npa.xy
           /\ call.src \in TilesOf(PodOf(t.npa.xy))

\* The store of a tile to its finish address reaches the host, at the address
\* the host waits for.  (TileStore is the translation of the tile's hardware.)
TileStore(e) == Npa(GlobalXY(e), e % GlobalEpaSpan)

FinishReaches ==
  call.kind = "launch" => TileStore(call.eva) = Npa(Host, FinishBase + call.group)
=============================================================================
