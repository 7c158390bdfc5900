----------------------------- MODULE VCacheDma -----------------------------
(***************************************************************************)
(* The host's cache operations and DMA (bsg_manycore.cpp,                  *)
(* bsg_manycore_cuda.cpp).                                                 *)
(*                                                                         *)
(* A pod's DRAM is reached in two ways.  Loads and stores of the host and  *)
(* of the tiles go through write-back victim caches, one per bank, which   *)
(* the host reaches over the network: its requests are posted, and each    *)
(* cache serves those it gets in order.  DMA goes straight to the DRAM.    *)
(* The library keeps the two views consistent with cache operations: it    *)
(* flushes what a DMA read will look at and invalidates what a DMA write   *)
(* has replaced.                                                           *)
(*                                                                         *)
(* The program is one host thread.  A call is the sequence of requests and *)
(* DMA transfers its loops produce; they are issued one at a time while    *)
(* the caches serve requests and evict lines.  Caches, DRAM and tiles are  *)
(* external.                                                               *)
(***************************************************************************)
EXTENDS Integers, Sequences, FiniteSets, SequencesExt

CONSTANTS
  Caches,     \* the victim caches (DRAM banks) of the pod
  Lines,      \* cache lines' worth of DRAM behind each cache
  Block,      \* words in a line
  Sets, Ways, \* geometry of each cache
  Ranges,     \* <<first word, number of words>> of the DMA calls on one bank
  Jobs,       \* vectors of DMA jobs on the pod, a job being a set of words
  MaxWrites   \* bound: writes the program and its kernels make

ASSUME SizesAssumption ==
  /\ Lines \in Nat \ {0} /\ Block \in Nat \ {0}
  /\ Sets \in Nat \ {0} /\ Ways \in Nat \ {0} /\ MaxWrites \in Nat
ASSUME CachesAssumption == IsFiniteSet(Caches)
ASSUME RangesAssumption ==
  \A r \in Ranges : r[1] \in Nat /\ r[2] \in Nat /\ r[1] + r[2] <= Lines * Block

Epas  == 0 .. Lines * Block - 1   \* word addresses behind a cache
Words == Caches \X Epas
Vals  == 0 .. MaxWrites           \* the value 0 and one value per write
Ids   == (0 .. Ways - 1) \X (0 .. Sets - 1)   \* way and set

ASSUME JobsAssumption == Jobs \subseteq Seq(SUBSET Words)

VARIABLES
  dram,    \* what the DRAM holds
  cached,  \* the line each way of each cache holds, -1 for none
  dirty,   \* whether it was written since it was filled or flushed
  data,    \* its words
  net,     \* requests on their way to each cache
  todo,    \* what is left of the host's call
  writes,  \* writes so far: the value the last one wrote
  memory,  \* ghost: the value the last write gave each word
  got      \* value a load or a DMA read returned, and the one it should have

cacheVars == <<cached, dirty, data>>
vars == <<dram, cacheVars, net, todo, writes, memory, got>>

LineOf(e) == e \div Block
SetOf(l)  == l % Sets                  \* hb_mc_vcache_set

Init ==
  /\ dram = [w \in Words |-> 0]
  /\ cached = [c \in Caches |-> [id \in Ids |-> -1]]
  /\ dirty = [c \in Caches |-> [id \in Ids |-> FALSE]]
  /\ data = [c \in Caches |-> [id \in Ids |-> [o \in 0 .. Block - 1 |-> 0]]]
  /\ net = [c \in Caches |-> <<>>]
  /\ todo = <<>> /\ writes = 0
  /\ memory = [w \in Words |-> 0]
  /\ got = <<0, 0>>

(***************************************************************************)
(* The calls, as what they issue.  A request goes to a cache's queue; a    *)
(* load also waits for its answer; a fence waits for every answer.         *)
(***************************************************************************)

Request(op, c, x) == [kind |-> "request", op |-> op, cache |-> c, arg |-> x]
Load(c, e)        == [kind |-> "load", op |-> "load", cache |-> c, arg |-> e]
Fence             == [kind |-> "fence"]
DmaWrite(W)       == [kind |-> "dma_write", words |-> W]
DmaRead(w)        == [kind |-> "dma_read", word |-> w]

\* hb_mc_manycore_write_mem of one word.
WriteMem(c, e) == <<Request("store", c, e), Fence>>

\* Lines a range touches, counted as the loop does: the size is rounded up to
\* whole blocks after the offset of the first word has been added.
LineCount(e, n) == (n + (e % Block) + Block - 1) \div Block

\* vcache_apply_to_npa_range: one operation per line of the range, each of
\* them sent to the address the range starts at.
ApplyToRange(op, c, e, n) == [i \in 1 .. LineCount(e, n) |-> Request(op, c, e)]

\* Mutant: nothing is read after the flushes.
FlushRangePosted(c, e, n) == ApplyToRange("AFL", c, e, n)

\* vcache_flush_npa_range waits for its flushes with a load from the range.
FlushRange(c, e, n) == ApplyToRange("AFL", c, e, n) \o <<Load(c, e)>>
InvalidateRange(c, e, n) == ApplyToRange("AINV", c, e, n)

Span(c, e, n) == {c} \X (e .. e + n - 1)

\* hb_mc_dma_read reads the words of a span.
ReadSpan(W) == [i \in 1 .. Cardinality(W) |-> DmaRead(SetToSeq(W)[i])]

\* hb_mc_manycore_dma_write and hb_mc_manycore_dma_read.
DmaWriteSafe(c, e, n) == <<DmaWrite(Span(c, e, n))>> \o InvalidateRange(c, e, n)
DmaReadSafe(c, e, n) == FlushRange(c, e, n) \o ReadSpan(Span(c, e, n))

Banks == SetToSeq(Caches)

\* Mutant: the last way is left out.
ApplyToPodShort(op) ==
  LET nb == Len(Banks)
  IN [i \in 1 .. (Ways - 1) * Sets * nb |->
        Request(op, Banks[((i - 1) % nb) + 1],
                <<(i - 1) \div (Sets * nb), ((i - 1) \div nb) % Sets>>)]

\* pod_apply_to_vcache: ways, then sets, then banks.
ApplyToPod(op) ==
  LET nb == Len(Banks)
  IN [i \in 1 .. Ways * Sets * nb |->
        Request(op, Banks[((i - 1) % nb) + 1],
                <<(i - 1) \div (Sets * nb), ((i - 1) \div nb) % Sets>>)]

\* pod_flush_vcache: flush every way, then read a word of each cache, which
\* is answered after the flushes.
FlushPod == ApplyToPod("TAGFL") \o [i \in DOMAIN Banks |-> Load(Banks[i], 0)]

\* pod_invalidate_vcache: a tag without the valid bit in every way.
InvalidatePod == ApplyToPod("TAGST")

DmaWrites(jobs) == [i \in DOMAIN jobs |-> DmaWrite(jobs[i])]

\* Mutant: the jobs are written before the cache is flushed.
DmaToDeviceLateFlush(jobs) == DmaWrites(jobs) \o FlushPod \o InvalidatePod

\* hb_mc_device_pod_dma_to_device and hb_mc_device_pod_dma_to_host.  A job is
\* the set of words a range of EVAs maps to, in one bank or several.
DmaToDevice(jobs) == FlushPod \o DmaWrites(jobs) \o InvalidatePod
DmaToHost(jobs) == FlushPod \o FlattenSeq([i \in DOMAIN jobs |-> ReadSpan(jobs[i])])

(***************************************************************************)
(* The host.                                                               *)
(***************************************************************************)

Begin(call) ==
  /\ todo = <<>>
  /\ todo' = call
  /\ UNCHANGED <<dram, cacheVars, net, writes, memory, got>>

WriteCall ==
  \/ /\ writes < MaxWrites
     /\ \/ \E c \in Caches, e \in Epas : Begin(WriteMem(c, e))
        \/ \E c \in Caches, r \in Ranges : Begin(DmaWriteSafe(c, r[1], r[2]))
  \/ \E jobs \in Jobs : writes + Len(jobs) <= MaxWrites /\ Begin(DmaToDevice(jobs))

ReadCall ==
  \/ \E c \in Caches, e \in Epas : Begin(<<Load(c, e)>>)
  \/ \E c \in Caches, r \in Ranges : Begin(DmaReadSafe(c, r[1], r[2]))
  \/ \E jobs \in Jobs : Begin(DmaToHost(jobs))

Drained == \A c \in Caches : net[c] = <<>>

\* The host issues a request; a store's value is that of the next write.
IssueRequest ==
  /\ todo # <<>> /\ Head(todo).kind = "request"
  /\ LET r == Head(todo) IN
       IF r.op = "store"
         THEN /\ writes' = writes + 1
              /\ memory' = [memory EXCEPT ![<<r.cache, r.arg>>] = writes + 1]
              /\ net' = [net EXCEPT ![r.cache] = Append(@, [op |-> "store", arg |-> r.arg, val |-> writes + 1])]
         ELSE /\ net' = [net EXCEPT ![r.cache] = Append(@, [op |-> r.op, arg |-> r.arg, val |-> 0])]
              /\ UNCHANGED <<writes, memory>>
  /\ todo' = Tail(todo)
  /\ UNCHANGED <<dram, cacheVars, got>>

\* The host sends a load, and waits: a load is the last request it has sent.
IssueLoad ==
  /\ todo # <<>> /\ Head(todo).kind = "load"
  /\ LET r == Head(todo) IN
       /\ net' = [net EXCEPT ![r.cache] = Append(@, [op |-> "load", arg |-> r.arg, val |-> 0])]
       /\ todo' = <<[kind |-> "answer"]>> \o Tail(todo)
  /\ UNCHANGED <<dram, cacheVars, writes, memory, got>>

FenceReturns ==
  /\ todo # <<>> /\ Head(todo).kind = "fence" /\ Drained
  /\ todo' = Tail(todo)
  /\ UNCHANGED <<dram, cacheVars, net, writes, memory, got>>

\* DMA changes the DRAM and nothing else.
TransferOut ==
  /\ todo # <<>> /\ Head(todo).kind = "dma_write"
  /\ LET W == Head(todo).words IN
       /\ dram' = [w \in Words |-> IF w \in W THEN writes + 1 ELSE dram[w]]
       /\ memory' = [w \in Words |-> IF w \in W THEN writes + 1 ELSE memory[w]]
  /\ writes' = writes + 1
  /\ todo' = Tail(todo)
  /\ UNCHANGED <<cacheVars, net, got>>

TransferIn ==
  /\ todo # <<>> /\ Head(todo).kind = "dma_read"
  /\ got' = <<dram[Head(todo).word], memory[Head(todo).word]>>
  /\ todo' = Tail(todo)
  /\ UNCHANGED <<dram, cacheVars, net, writes, memory>>

Host == IssueRequest \/ IssueLoad \/ FenceReturns \/ TransferOut \/ TransferIn

(***************************************************************************)
(* The caches, the DRAM and the tiles (external).                          *)
(***************************************************************************)

LineWords(c, l) == {c} \X (l * Block .. l * Block + Block - 1)

\* DRAM after way `id' of cache `c' has been written back, if it is dirty.
WrittenBack(c, id) ==
  IF cached[c][id] # -1 /\ dirty[c][id]
    THEN [w \in Words |-> IF w \in LineWords(c, cached[c][id])
                            THEN data[c][id][w[2] % Block] ELSE dram[w]]
    ELSE dram

Holds(c, id, l) == cached[c][id] = l

Drop(c, id) ==
  /\ cached' = [cached EXCEPT ![c][id] = -1]
  /\ dirty' = [dirty EXCEPT ![c][id] = FALSE]
  /\ data' = [data EXCEPT ![c][id] = [o \in 0 .. Block - 1 |-> 0]]

Put(c, id, e, v) ==
  /\ data' = [data EXCEPT ![c][id][e % Block] = v]
  /\ dirty' = [dirty EXCEPT ![c][id] = TRUE]

\* Mutant: a line is filled though another way holds it.
FillAgain(c, l, id) ==
  /\ id[2] = SetOf(l)
  /\ dram' = WrittenBack(c, id)
  /\ cached' = [cached EXCEPT ![c][id] = l]
  /\ dirty' = [dirty EXCEPT ![c][id] = FALSE]
  /\ data' = [data EXCEPT ![c][id] = [o \in 0 .. Block - 1 |-> dram[<<c, l * Block + o>>]]]
  /\ UNCHANGED <<net, todo, writes, memory, got>>

\* A miss: any way of the set gives up its line to the one needed.
Fill(c, l, id) ==
  /\ id[2] = SetOf(l)
  /\ ~\E j \in Ids : Holds(c, j, l)
  /\ dram' = WrittenBack(c, id)
  /\ cached' = [cached EXCEPT ![c][id] = l]
  /\ dirty' = [dirty EXCEPT ![c][id] = FALSE]
  /\ data' = [data EXCEPT ![c][id] = [o \in 0 .. Block - 1 |-> dram[<<c, l * Block + o>>]]]
  /\ UNCHANGED <<net, todo, writes, memory, got>>

\* A store or a load of the host that hits.
ServeAccess(c, r, id) ==
  /\ r.op \in {"store", "load"} /\ Holds(c, id, LineOf(r.arg))
  /\ IF r.op = "store"
       THEN Put(c, id, r.arg, r.val) /\ UNCHANGED <<cached, todo, got>>
       ELSE /\ got' = <<data[c][id][r.arg % Block], memory[<<c, r.arg>>]>>
            /\ todo' = Tail(todo)
            /\ UNCHANGED cacheVars
  /\ UNCHANGED dram

\* AFL and TAGFL write a line back and keep it; AINV and TAGST, a tag store
\* without valid bit, drop it.
ServeFlush(c, r, id) ==
  /\ \/ r.op = "AFL" /\ Holds(c, id, LineOf(r.arg))
     \/ r.op = "TAGFL" /\ r.arg = id
  /\ dram' = WrittenBack(c, id)
  /\ dirty' = [dirty EXCEPT ![c][id] = FALSE]
  /\ UNCHANGED <<cached, data, todo, got>>
ServeDrop(c, r, id) ==
  /\ \/ r.op = "AINV" /\ Holds(c, id, LineOf(r.arg))
     \/ r.op = "TAGST" /\ r.arg = id
  /\ Drop(c, id)
  /\ UNCHANGED <<dram, todo, got>>
ServeNothing(c, r) ==
  /\ r.op \in {"AFL", "AINV"} /\ ~\E j \in Ids : Holds(c, j, LineOf(r.arg))
  /\ UNCHANGED <<dram, cacheVars, todo, got>>

Serve(c) ==
  /\ net[c] # <<>>
  /\ LET r == Head(net[c]) IN
       \/ \E id \in Ids : ServeAccess(c, r, id) \/ ServeFlush(c, r, id) \/ ServeDrop(c, r, id)
       \/ ServeNothing(c, r)
  /\ net' = [net EXCEPT ![c] = Tail(@)]
  /\ UNCHANGED <<writes, memory>>

\* A cache fills a line for the request it serves or, while no call is under
\* way, for a tile; a tile's store comes from a kernel, which runs between the
\* host's calls with no request of the host outstanding.
Miss(c) ==
  \E l \in 0 .. Lines - 1, id \in Ids :
    /\ \/ net[c] # <<>> /\ Head(net[c]).op \in {"store", "load"} /\ LineOf(Head(net[c]).arg) = l
       \/ todo = <<>> /\ Drained
    /\ Fill(c, l, id)

KernelStore(c, e) ==
  /\ todo = <<>> /\ Drained /\ writes < MaxWrites
  /\ \E id \in Ids : Holds(c, id, LineOf(e)) /\ Put(c, id, e, writes + 1)
  /\ writes' = writes + 1
  /\ memory' = [memory EXCEPT ![<<c, e>>] = writes + 1]
  /\ UNCHANGED <<dram, cached, net, todo, got>>

Cache == \E c \in Caches : Serve(c) \/ Miss(c) \/ \E e \in Epas : KernelStore(c, e)

Next == WriteCall \/ ReadCall \/ Host \/ Cache

Spec == Init /\ [][Next]_vars

(***************************************************************************)
(* Properties.                                                             *)
(***************************************************************************)

\* Words hold values that were written, and no line is cached twice.
TypeOK ==
  /\ dram \in [Words -> Vals] /\ memory \in [Words -> Vals] /\ writes \in Vals
  /\ cached \in [Caches -> [Ids -> -1 .. Lines - 1]]
  /\ dirty \in [Caches -> [Ids -> BOOLEAN]]
  /\ data \in [Caches -> [Ids -> [0 .. Block - 1 -> Vals]]]
  /\ got \in Vals \X Vals
  /\ \A c \in Caches, i, j \in Ids : cached[c][i] # -1 /\ cached[c][i] = cached[c][j] => i = j

\* A load and a DMA read return the value last written to the word, whichever
\* way it was written and whichever way it is read.
ReadsFresh == got[1] = got[2]

\* The value a load of the word would be given.
Visible(c, e) ==
  IF \E id \in Ids : Holds(c, id, LineOf(e))
    THEN data[c][CHOOSE id \in Ids : Holds(c, id, LineOf(e))][e % Block]
    ELSE dram[<<c, e>>]

\* Between calls, once the requests have been served, the memory seen through
\* the caches is the memory written: no stale line is left behind by a DMA
\* write, and no write-back has overtaken one.
Coherent == todo = <<>> /\ Drained => \A w \in Words : Visible(w[1], w[2]) = memory[w]

=============================================================================
