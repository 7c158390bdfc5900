--------------------------- MODULE VCacheDma_proofs ---------------------------
(***************************************************************************)
(* Proofs about VCacheDma: the caches and the DRAM stay consistent however *)
(* the caches serve the posted requests and evict lines in the meantime.   *)
(*                                                                         *)
(* The argument follows a request from the call to the cache.  The queue   *)
(* of a cache holds drops of earlier calls, then flushes, then at most one *)
(* access; a line that a drop on its way will remove is doomed, and only   *)
(* the others say anything about the memory.  A call that reads by DMA or  *)
(* drops lines first flushes them and reads a word behind the flushes, so  *)
(* once its loads are answered no line it counts on is dirty.              *)
(***************************************************************************)
EXTENDS VCacheDma, FiniteSetTheorems, SequenceTheorems, NaturalsInduction,
        WellFoundedInduction, TLAPS

\* DMA calls on a bank transfer one line.
OneLine == \A r \in Ranges : r[1] % Block = 0 /\ r[2] = Block

------------------------------------------------------------------------------
(* The requests on their way to a cache: those that drop a line were sent   *)
(* by earlier calls, then come those of the call that is under way.         *)

DropOps   == {"AINV", "TAGST"}
FlushOps  == {"AFL", "TAGFL"}
AccessOps == {"store", "load"}

Requests ==
  [op : {"TAGFL", "TAGST"}, arg : Ids, val : Vals]
    \cup [op : {"AFL", "AINV", "store", "load"}, arg : Epas, val : Vals]

QueueRank(q) == IF q.op \in DropOps THEN 1 ELSE IF q.op \in FlushOps THEN 2 ELSE 3

\* Drops, then flushes, then at most one access.
QueueOrdered(s) ==
  \A i, j \in DOMAIN s :
    i < j => QueueRank(s[i]) <= QueueRank(s[j]) /\ QueueRank(s[i]) < 3

Todo == ToSet(todo)
Sent(c) == ToSet(net[c])

Answer == [kind |-> "answer"]
Answering == todo # <<>> /\ Head(todo) = Answer

NetType == net \in [Caches -> Seq(Requests)]

QueuesOrdered == \A c \in Caches : QueueOrdered(net[c])

\* The host waits behind a store with a fence, behind a load for its answer,
\* and behind flushes with a load.
LoadSent(c) == \E q \in Sent(c) : q.op = "load"
StoresFenced ==
  \A c \in Caches : \A q \in Sent(c) :
    q.op = "store" => todo = <<Fence>> /\ q.val = memory[<<c, q.arg>>]
LoadsAwaited == \A c \in Caches : LoadSent(c) => Answering
FlushesAwaited ==
  \A c \in Caches : \A q \in Sent(c) :
    q.op \in FlushOps => LoadSent(c) \/ \E e \in Epas : Load(c, e) \in Todo
OneLoad == \A c, d \in Caches : LoadSent(c) /\ LoadSent(d) => c = d

NetInv == QueuesOrdered /\ StoresFenced /\ LoadsAwaited /\ FlushesAwaited /\ OneLoad

------------------------------------------------------------------------------
(* What is left of the call.                                                *)

Items ==
  {Request("AFL", c, e) : c \in Caches, e \in Epas}
    \cup {Request("TAGFL", c, id) : c \in Caches, id \in Ids}
    \cup {Request("TAGST", c, id) : c \in Caches, id \in Ids}
    \cup {Load(c, e) : c \in Caches, e \in Epas}
    \cup {Answer}
    \cup {DmaRead(w) : w \in Words}
    \cup {DmaWrite(W) : W \in SUBSET Words}

Rank(x) ==
  IF x.kind = "request" THEN (IF x.op = "TAGST" THEN 4 ELSE 1)
  ELSE IF x.kind \in {"load", "answer"} THEN 2
  ELSE 3

\* Flushes, then loads, then DMA, then drops.
Ordered(s) == \A i, j \in DOMAIN s : i < j => Rank(s[i]) <= Rank(s[j])

\* A call that flushes, waits with loads, moves words by DMA and drops lines:
\* each flush is followed by a load from its cache, each DMA write by a drop
\* of every line, and a DMA read by no drop.
Staged(s) ==
  /\ s \in Seq(Items) /\ Ordered(s)
  /\ \A i \in DOMAIN s : s[i] = Answer => i = 1
  /\ \A x \in ToSet(s) : x.kind = "request" /\ x.op \in FlushOps =>
       \E e \in Epas : Load(x.cache, e) \in ToSet(s)
  /\ \A x \in ToSet(s) : x.kind = "dma_write" =>
       \A c \in Caches, id \in Ids : Request("TAGST", c, id) \in ToSet(s)
  /\ \A x, y \in ToSet(s) : x.kind = "dma_read" => ~(y.kind = "request" /\ y.op = "TAGST")

Storing(s) == s = <<Fence>> \/ \E c \in Caches, e \in Epas : s = WriteMem(c, e)

\* The word that names a line.
First(l) == l * Block

Replacing(s) ==
  \E c \in Caches, l \in 0 .. Lines - 1 :
    \/ s = <<Request("AINV", c, First(l))>>
    \/ s = <<DmaWrite(Span(c, First(l), Block)), Request("AINV", c, First(l))>>

\* The writes of the call stay within the bound.
IsWrite(x) == x.kind = "dma_write" \/ (x.kind = "request" /\ x.op = "store")
Budget(s, n) ==
  \A i, j \in DOMAIN s : IsWrite(s[i]) /\ IsWrite(s[j]) => n + (j - i) + 1 <= MaxWrites

TodoInv ==
  /\ Staged(todo) \/ Storing(todo) \/ Replacing(todo)
  /\ Budget(todo, writes)

------------------------------------------------------------------------------
(* What the caches and the DRAM hold.                                       *)

\* Nothing that the call waits for is left of it.
Flushed == \A x \in Todo : x.kind \notin {"load", "answer"}

\* A drop on its way removes the line in a way.
DropSent(c, id) ==
  \E q \in Sent(c) : \/ q.op = "TAGST" /\ q.arg = id
                     \/ q.op = "AINV" /\ cached[c][id] = LineOf(q.arg)

\* The line in a way will be dropped before it is looked at again.
Doomed(c, id) ==
  \/ DropSent(c, id)
  \/ Flushed /\ Request("TAGST", c, id) \in Todo
  \/ \E e \in Epas : todo = <<Request("AINV", c, e)>> /\ cached[c][id] = LineOf(e)

Alive(c, id) == cached[c][id] # -1 /\ ~Doomed(c, id)

\* The line in a way will be written back.
FlushSent(c, id) ==
  \E q \in Sent(c) : \/ q.op = "TAGFL" /\ q.arg = id
                     \/ q.op = "AFL" /\ cached[c][id] = LineOf(q.arg)
FlushToSend(c, id) ==
  \/ Request("TAGFL", c, id) \in Todo
  \/ \E e \in Epas : Request("AFL", c, e) \in Todo /\ cached[c][id] = LineOf(e)
FlushPending(c, id) == FlushSent(c, id) \/ FlushToSend(c, id)

\* The call counts on it.
MustFlush(c, id) ==
  \/ \E w \in Words : DmaRead(w) \in Todo /\ w[1] = c /\ cached[c][id] = LineOf(w[2])
  \/ Request("TAGST", c, id) \in Todo

FlushInv ==
  \A c \in Caches, id \in Ids :
    Alive(c, id) /\ dirty[c][id] /\ MustFlush(c, id) => FlushPending(c, id)

\* A store of this word is on its way.
Storeable(c, e) == \E q \in Sent(c) : q.op = "store" /\ q.arg = e

\* The last value written is in the DRAM, or on its way, or in a line that
\* will be written back.
DramInv ==
  \A c \in Caches, e \in Epas :
    \/ dram[<<c, e>>] = memory[<<c, e>>]
    \/ Storeable(c, e)
    \/ \E id \in Ids : Holds(c, id, LineOf(e)) /\ Alive(c, id) /\ dirty[c][id]

\* A line that is not doomed holds the last values written.
CacheInv ==
  \A c \in Caches, id \in Ids, e \in Epas :
    Alive(c, id) /\ Holds(c, id, LineOf(e)) =>
      data[c][id][e % Block] = memory[<<c, e>>] \/ Storeable(c, e)

IInv == TypeOK /\ NetType /\ NetInv /\ TodoInv /\ FlushInv /\ DramInv /\ CacheInv /\ ReadsFresh

------------------------------------------------------------------------------
(* Arithmetic of lines and words.                                           *)

LEMMA DivMod ==
  ASSUME NEW a \in Nat, NEW d \in Nat \ {0}
  PROVE  /\ a \div d \in Nat /\ a % d \in 0 .. d - 1
         /\ a = d * (a \div d) + (a % d)
  BY Z3

LEMMA Unique ==
  ASSUME NEW d \in Nat \ {0}, NEW q \in Nat, NEW p \in Nat,
         NEW r \in 0 .. d - 1, NEW s \in 0 .. d - 1, d * q + r = d * p + s
  PROVE  q = p /\ r = s
<1>1. ASSUME q > p PROVE FALSE
  <2>1. d * q >= d * (p + 1)
    BY <1>1
  <2>2. d * (p + 1) = d * p + d
    OBVIOUS
  <2>3. QED
    BY <2>1, <2>2
<1>2. ASSUME p > q PROVE FALSE
  <2>1. d * p >= d * (q + 1)
    BY <1>2
  <2>2. d * (q + 1) = d * q + d
    OBVIOUS
  <2>3. QED
    BY <2>1, <2>2
<1>3. q = p
  BY <1>1, <1>2
<1>4. QED
  BY <1>3

LEMMA Parts ==
  ASSUME NEW d \in Nat \ {0}, NEW q \in Nat, NEW r \in 0 .. d - 1
  PROVE  (d * q + r) \div d = q /\ (d * q + r) % d = r
<1>1. d * q \in Nat /\ d * q + r \in Nat
  OBVIOUS
<1>2. QED
  BY <1>1, Unique, DivMod

\* Fewer than n groups of d make a number below n * d.
LEMMA Below ==
  ASSUME NEW d \in Nat \ {0}, NEW n \in Nat, NEW q \in 0 .. n - 1, NEW r \in 0 .. d - 1
  PROVE  q * d + r \in 0 .. n * d - 1
<1>1. (q + 1) * d <= n * d
  OBVIOUS
<1>2. (q + 1) * d = q * d + d /\ q * d \in Nat /\ n * d \in Nat
  OBVIOUS
<1>3. QED
  BY <1>1, <1>2

LEMMA Quotient ==
  ASSUME NEW d \in Nat \ {0}, NEW n \in Nat, NEW a \in 0 .. n * d - 1
  PROVE  a \div d \in 0 .. n - 1 /\ a % d \in 0 .. d - 1 /\ a = (a \div d) * d + (a % d)
<1> DEFINE q == a \div d
           r == a % d
<1>1. n * d \in Nat
  OBVIOUS
<1>2. q \in Nat /\ r \in 0 .. d - 1 /\ a = d * q + r
  <2>1. a \in Nat
    BY <1>1
  <2>2. QED
    BY <2>1, DivMod
<1> HIDE DEF q, r
<1>3. ASSUME q >= n PROVE FALSE
  <2>1. d * q >= d * n
    BY <1>2, <1>3
  <2>2. d * n = n * d
    OBVIOUS
  <2>3. QED
    BY <2>1, <2>2, <1>2
<1>4. d * q = q * d
  BY <1>2
<1>5. QED
  BY <1>2, <1>3, <1>4 DEF q, r

\* A word, its line and its place in the line.
LEMMA WordOf ==
  ASSUME NEW e \in Epas
  PROVE  /\ LineOf(e) \in 0 .. Lines - 1 /\ e % Block \in 0 .. Block - 1
         /\ e = LineOf(e) * Block + (e % Block)
  BY Quotient, SizesAssumption DEF Epas, LineOf

LEMMA WordAt ==
  ASSUME NEW l \in 0 .. Lines - 1, NEW o \in 0 .. Block - 1
  PROVE  /\ l * Block + o \in Epas
         /\ LineOf(l * Block + o) = l /\ (l * Block + o) % Block = o
<1>1. Block \in Nat \ {0} /\ Lines \in Nat /\ l \in Nat
  BY SizesAssumption
<1>2. l * Block + o \in Epas
  BY <1>1, Below DEF Epas
<1>3. Block * l = l * Block
  BY <1>1
<1>4. (Block * l + o) \div Block = l /\ (Block * l + o) % Block = o
  BY <1>1, Parts
<1>5. QED
  BY <1>2, <1>3, <1>4 DEF LineOf

LEMMA OneWord ==
  ASSUME NEW e \in Epas, NEW f \in Epas, LineOf(e) = LineOf(f), e % Block = f % Block
  PROVE  e = f
  BY WordOf

LEMMA LineWordsAre ==
  ASSUME NEW c, NEW l \in 0 .. Lines - 1, NEW e \in Epas
  PROVE  e \in l * Block .. l * Block + Block - 1 <=> LineOf(e) = l
<1>1. Block \in Nat \ {0} /\ Lines \in Nat /\ l \in Nat /\ l * Block \in Nat /\ e \in Nat
  BY SizesAssumption DEF Epas
<1>2. ASSUME LineOf(e) = l PROVE e \in l * Block .. l * Block + Block - 1
  BY <1>1, <1>2, WordOf
<1>3. ASSUME e \in l * Block .. l * Block + Block - 1 PROVE LineOf(e) = l
  <2>1. e - l * Block \in 0 .. Block - 1
    BY <1>1, <1>3
  <2>2. l * Block + (e - l * Block) = e
    BY <1>1
  <2>3. QED
    BY <2>1, <2>2, WordAt
<1>4. QED
  BY <1>2, <1>3

\* The words of a line, as a set of words.
LEMMA InLine ==
  ASSUME NEW c \in Caches, NEW d \in Caches, NEW l \in 0 .. Lines - 1, NEW e \in Epas
  PROVE  /\ <<d, e>> \in LineWords(c, l) <=> d = c /\ LineOf(e) = l
         /\ <<d, e>> \in Span(c, First(l), Block) <=> d = c /\ LineOf(e) = l
  BY LineWordsAre DEF LineWords, Span, First

LEMMA FirstOf ==
  ASSUME NEW l \in 0 .. Lines - 1
  PROVE  First(l) \in Epas /\ LineOf(First(l)) = l
<1>1. 0 \in 0 .. Block - 1 /\ l * Block + 0 = l * Block
  BY SizesAssumption
<1>2. QED
  BY <1>1, WordAt DEF First

------------------------------------------------------------------------------
(* Sequences and the sets of their elements.                                *)

LEMMA SetOfAppend ==
  ASSUME NEW S, NEW s \in Seq(S), NEW x
  PROVE  ToSet(Append(s, x)) = ToSet(s) \cup {x}
<1>1. /\ Len(Append(s, x)) = Len(s) + 1 /\ Len(s) \in Nat
      /\ DOMAIN Append(s, x) = 1 .. Len(s) + 1 /\ DOMAIN s = 1 .. Len(s)
      /\ \A i \in 1 .. Len(s) : Append(s, x)[i] = s[i]
      /\ Append(s, x)[Len(s) + 1] = x
  OBVIOUS
<1>2. QED
  BY <1>1 DEF ToSet

LEMMA TailOf ==
  ASSUME NEW S, NEW s \in Seq(S), s # <<>>
  PROVE  /\ Head(s) = s[1] /\ 1 \in DOMAIN s /\ Tail(s) \in Seq(S) /\ Head(s) \in S
         /\ Len(s) \in Nat \ {0} /\ DOMAIN s = 1 .. Len(s) /\ DOMAIN Tail(s) = 1 .. Len(s) - 1
         /\ \A i \in DOMAIN Tail(s) : i + 1 \in DOMAIN s /\ Tail(s)[i] = s[i + 1]
         /\ \A i \in DOMAIN s : i # 1 => i - 1 \in DOMAIN Tail(s) /\ Tail(s)[i - 1] = s[i]
<1>1. Len(s) \in Nat \ {0} /\ DOMAIN s = 1 .. Len(s)
  BY EmptySeq
<1>2. Tail(s) \in Seq(S) /\ Len(Tail(s)) = Len(s) - 1 /\ \A i \in 1 .. Len(s) - 1 : Tail(s)[i] = s[i + 1]
  BY <1>1
<1>3. QED
  BY <1>1, <1>2

LEMMA SetOfTail ==
  ASSUME NEW S, NEW s \in Seq(S), s # <<>>
  PROVE  /\ ToSet(s) = {Head(s)} \cup ToSet(Tail(s)) /\ Head(s) \in ToSet(s)
         /\ ToSet(Tail(s)) \subseteq ToSet(s) /\ ToSet(s) \subseteq S
<1>1. ToSet(Tail(s)) \subseteq ToSet(s) /\ Head(s) \in ToSet(s)
  BY TailOf DEF ToSet
<1>2. ToSet(s) \subseteq {Head(s)} \cup ToSet(Tail(s))
  <2>1. SUFFICES ASSUME NEW i \in DOMAIN s PROVE s[i] \in {Head(s)} \cup ToSet(Tail(s))
    BY DEF ToSet
  <2>2. CASE i = 1
    BY <2>2, TailOf
  <2>3. CASE i # 1
    <3>1. i - 1 \in DOMAIN Tail(s) /\ Tail(s)[i - 1] = s[i]
      BY <2>1, <2>3, TailOf
    <3>2. QED
      BY <3>1 DEF ToSet
  <2>4. QED
    BY <2>2, <2>3
<1>3. ToSet(s) \subseteq S
  BY DEF ToSet
<1>4. QED
  BY <1>1, <1>2, <1>3

LEMMA SetIn ==
  ASSUME NEW S, NEW s \in Seq(S)
  PROVE  ToSet(s) \subseteq S /\ \A i \in DOMAIN s : s[i] \in S /\ s[i] \in ToSet(s)
  BY DEF ToSet

LEMMA SetOfEmpty == ToSet(<<>>) = {}
  BY DEF ToSet

LEMMA SetOfOne == ASSUME NEW x PROVE ToSet(<<x>>) = {x}
  BY DEF ToSet

LEMMA SetOfTwo == ASSUME NEW x, NEW y PROVE ToSet(<<x, y>>) = {x, y}
  BY DEF ToSet

LEMMA SetOfConcat ==
  ASSUME NEW S, NEW s \in Seq(S), NEW t \in Seq(S)
  PROVE  ToSet(s \o t) = ToSet(s) \cup ToSet(t)
<1>1. /\ s \o t \in Seq(S) /\ Len(s \o t) = Len(s) + Len(t) /\ Len(s) \in Nat /\ Len(t) \in Nat
      /\ \A i \in 1 .. Len(s) : (s \o t)[i] = s[i]
      /\ \A i \in Len(s) + 1 .. Len(s) + Len(t) : (s \o t)[i] = t[i - Len(s)]
  OBVIOUS
<1>2. ASSUME NEW i \in 1 .. Len(t) PROVE t[i] \in ToSet(s \o t)
  <2>1. Len(s) + i \in 1 .. Len(s \o t) /\ (s \o t)[Len(s) + i] = t[i]
    BY <1>1
  <2>2. QED
    BY <2>1, <1>1 DEF ToSet
<1>3. ToSet(s) \subseteq ToSet(s \o t)
  BY <1>1 DEF ToSet
<1>4. ToSet(t) \subseteq ToSet(s \o t)
  BY <1>1, <1>2 DEF ToSet
<1>5. ASSUME NEW i \in 1 .. Len(s) + Len(t) PROVE (s \o t)[i] \in ToSet(s) \cup ToSet(t)
  <2>1. CASE i <= Len(s)
    BY <2>1, <1>1 DEF ToSet
  <2>2. CASE i > Len(s)
    BY <2>2, <1>1 DEF ToSet
  <2>3. QED
    BY <2>1, <2>2, <1>1
<1>6. ToSet(s \o t) \subseteq ToSet(s) \cup ToSet(t)
  BY <1>1, <1>5 DEF ToSet
<1>7. QED
  BY <1>3, <1>4, <1>6

------------------------------------------------------------------------------
(* Queues.                                                                  *)

LEMMA RequestType ==
  ASSUME NEW q \in Requests
  PROVE  /\ q.op \in DropOps \cup FlushOps \cup AccessOps /\ q.val \in Vals
         /\ q.op \in {"TAGFL", "TAGST"} => q.arg \in Ids
         /\ q.op \in {"AFL", "AINV", "store", "load"} => q.arg \in Epas
         /\ QueueRank(q) \in 1 .. 3
         /\ QueueRank(q) = 1 <=> q.op \in DropOps
         /\ QueueRank(q) = 2 <=> q.op \in FlushOps
         /\ QueueRank(q) = 3 <=> q.op \in AccessOps
  BY DEF Requests, DropOps, FlushOps, AccessOps, QueueRank

\* What is behind the head of a queue.
LEMMA QueueTail ==
  ASSUME NEW s \in Seq(Requests), s # <<>>, QueueOrdered(s)
  PROVE  /\ QueueOrdered(Tail(s))
         /\ \A q \in ToSet(Tail(s)) : QueueRank(Head(s)) <= QueueRank(q) /\ QueueRank(Head(s)) < 3
<1>1. /\ Len(s) \in Nat \ {0} /\ DOMAIN s = 1 .. Len(s) /\ DOMAIN Tail(s) = 1 .. Len(s) - 1
      /\ \A i \in 1 .. Len(s) - 1 : Tail(s)[i] = s[i + 1]
      /\ Head(s) = s[1]
  BY TailOf
<1>2. QueueOrdered(Tail(s))
  <2>1. SUFFICES ASSUME NEW i \in 1 .. Len(s) - 1, NEW j \in 1 .. Len(s) - 1, i < j
                 PROVE  QueueRank(s[i + 1]) <= QueueRank(s[j + 1]) /\ QueueRank(s[i + 1]) < 3
    BY <1>1 DEF QueueOrdered
  <2>2. i + 1 \in DOMAIN s /\ j + 1 \in DOMAIN s /\ i + 1 < j + 1
    BY <2>1, <1>1
  <2>3. QED
    BY <2>2 DEF QueueOrdered
<1>3. ASSUME NEW i \in 1 .. Len(s) - 1
      PROVE  QueueRank(s[1]) <= QueueRank(s[i + 1]) /\ QueueRank(s[1]) < 3
  <2>1. i + 1 \in DOMAIN s /\ 1 \in DOMAIN s /\ 1 < i + 1
    BY <1>1
  <2>2. QED
    BY <2>1 DEF QueueOrdered
<1>4. QED
  BY <1>1, <1>2, <1>3 DEF ToSet

LEMMA QueueAppend ==
  ASSUME NEW s \in Seq(Requests), NEW x \in Requests, QueueOrdered(s),
         \A q \in ToSet(s) : QueueRank(q) <= QueueRank(x) /\ QueueRank(q) < 3
  PROVE  QueueOrdered(Append(s, x))
<1>1. /\ Len(s) \in Nat /\ DOMAIN s = 1 .. Len(s) /\ DOMAIN Append(s, x) = 1 .. Len(s) + 1
      /\ \A i \in 1 .. Len(s) : Append(s, x)[i] = s[i]
      /\ Append(s, x)[Len(s) + 1] = x
  OBVIOUS
<1>2. SUFFICES ASSUME NEW i \in 1 .. Len(s) + 1, NEW j \in 1 .. Len(s) + 1, i < j
               PROVE  /\ QueueRank(Append(s, x)[i]) <= QueueRank(Append(s, x)[j])
                      /\ QueueRank(Append(s, x)[i]) < 3
  BY <1>1 DEF QueueOrdered
<1>3. i \in 1 .. Len(s) /\ Append(s, x)[i] = s[i] /\ s[i] \in ToSet(s)
  BY <1>1, <1>2 DEF ToSet
<1>4. CASE j = Len(s) + 1
  BY <1>1, <1>3, <1>4
<1>5. CASE j \in 1 .. Len(s)
  <2>1. Append(s, x)[j] = s[j] /\ i \in DOMAIN s /\ j \in DOMAIN s
    BY <1>1, <1>3, <1>5
  <2>2. QED
    BY <2>1, <1>2, <1>3 DEF QueueOrdered
<1>6. QED
  BY <1>1, <1>2, <1>4, <1>5

------------------------------------------------------------------------------
(* What is left of a call.                                                  *)

LEMMA ItemType ==
  ASSUME NEW x \in Items
  PROVE  /\ x.kind \in {"request", "load", "answer", "dma_read", "dma_write"}
         /\ x.kind = "request" =>
              \/ \E c \in Caches, e \in Epas : x = Request("AFL", c, e)
              \/ \E c \in Caches, id \in Ids : x = Request("TAGFL", c, id)
              \/ \E c \in Caches, id \in Ids : x = Request("TAGST", c, id)
         /\ x.kind = "load" => \E c \in Caches, e \in Epas : x = Load(c, e)
         /\ x.kind = "answer" => x = Answer
         /\ x.kind = "dma_read" => \E w \in Words : x = DmaRead(w)
         /\ x.kind = "dma_write" => \E W \in SUBSET Words : x = DmaWrite(W)
         /\ Rank(x) \in 1 .. 4
         /\ Rank(x) = 1 <=> x.kind = "request" /\ x.op \in FlushOps
         /\ Rank(x) = 2 <=> x.kind \in {"load", "answer"}
         /\ Rank(x) = 3 <=> x.kind \in {"dma_read", "dma_write"}
         /\ Rank(x) = 4 <=> x.kind = "request" /\ x.op = "TAGST"
  BY DEF Items, Request, Load, Answer, DmaRead, DmaWrite, Rank, FlushOps

LEMMA ItemsAre ==
  ASSUME NEW c \in Caches
  PROVE  /\ \A e \in Epas : Request("AFL", c, e) \in Items /\ Load(c, e) \in Items
         /\ \A id \in Ids : Request("TAGFL", c, id) \in Items /\ Request("TAGST", c, id) \in Items
  BY DEF Items

LEMMA OtherItems ==
  /\ Answer \in Items
  /\ \A w \in Words : DmaRead(w) \in Items
  /\ \A W \in SUBSET Words : DmaWrite(W) \in Items
  BY DEF Items

LEMMA OrderedTail ==
  ASSUME NEW s \in Seq(Items), s # <<>>, Ordered(s)
  PROVE  Ordered(Tail(s)) /\ \A x \in ToSet(s) : Rank(Head(s)) <= Rank(x)
<1>1. /\ Len(s) \in Nat \ {0} /\ DOMAIN s = 1 .. Len(s) /\ DOMAIN Tail(s) = 1 .. Len(s) - 1
      /\ \A i \in 1 .. Len(s) - 1 : Tail(s)[i] = s[i + 1]
      /\ Head(s) = s[1] /\ Head(s) \in Items
  BY TailOf
<1>2. Ordered(Tail(s))
  <2>1. SUFFICES ASSUME NEW i \in 1 .. Len(s) - 1, NEW j \in 1 .. Len(s) - 1, i < j
                 PROVE  Rank(s[i + 1]) <= Rank(s[j + 1])
    BY <1>1 DEF Ordered
  <2>2. i + 1 \in DOMAIN s /\ j + 1 \in DOMAIN s /\ i + 1 < j + 1
    BY <2>1, <1>1
  <2>3. QED
    BY <2>2 DEF Ordered
<1>3. ASSUME NEW i \in 1 .. Len(s) PROVE Rank(s[1]) <= Rank(s[i])
  <2>1. Rank(s[1]) \in 1 .. 4
    BY <1>1, ItemType
  <2>2. CASE i = 1
    BY <2>1, <2>2
  <2>3. CASE i # 1
    <3>1. i \in DOMAIN s /\ 1 \in DOMAIN s /\ 1 < i
      BY <1>1, <2>3
    <3>2. QED
      BY <3>1 DEF Ordered
  <2>4. QED
    BY <2>2, <2>3
<1>4. QED
  BY <1>1, <1>2, <1>3 DEF ToSet

LEMMA StagedTail ==
  ASSUME NEW s, Staged(s), s # <<>>
  PROVE  Staged(Tail(s)) /\ Answer \notin ToSet(Tail(s))
<1>1. s \in Seq(Items) /\ Tail(s) \in Seq(Items) /\ Ordered(s) /\ Ordered(Tail(s)) /\ Head(s) \in Items
  BY OrderedTail, TailOf DEF Staged
<1>2. ToSet(s) = {Head(s)} \cup ToSet(Tail(s)) /\ ToSet(s) \subseteq Items
  BY <1>1, SetOfTail
<1>3. \A x \in ToSet(s) : Rank(Head(s)) <= Rank(x)
  BY <1>1, OrderedTail
<1>4. Answer \notin ToSet(Tail(s))
  <2>1. SUFFICES ASSUME NEW i \in DOMAIN Tail(s), Tail(s)[i] = Answer PROVE FALSE
    BY DEF ToSet
  <2>2. i + 1 \in DOMAIN s /\ s[i + 1] = Answer /\ i \in Nat /\ i >= 1
    BY <1>1, <2>1, TailOf
  <2>3. QED
    BY <2>2 DEF Staged
<1>5. ASSUME NEW x \in ToSet(Tail(s)), x.kind = "request", x.op \in FlushOps
      PROVE  \E e \in Epas : Load(x.cache, e) \in ToSet(Tail(s))
  <2>1. PICK e \in Epas : Load(x.cache, e) \in ToSet(s)
    BY <1>2, <1>5 DEF Staged
  <2>2. Load(x.cache, e) # Head(s)
    <3>1. Load(x.cache, e).kind = "load"
      BY DEF Load
    <3>2. x \in Items /\ Rank(x) = 1
      BY <1>2, <1>5, ItemType
    <3>3. Rank(Head(s)) <= 1
      BY <1>2, <1>3, <1>5, <3>2
    <3>4. QED
      BY <1>1, <3>1, <3>3, ItemType
  <2>3. QED
    BY <1>2, <2>1, <2>2
<1>6. ASSUME NEW x \in ToSet(Tail(s)), x.kind = "dma_write", NEW c \in Caches, NEW id \in Ids
      PROVE  Request("TAGST", c, id) \in ToSet(Tail(s))
  <2>1. Request("TAGST", c, id) \in ToSet(s)
    BY <1>2, <1>6 DEF Staged
  <2>2. Request("TAGST", c, id) # Head(s)
    <3>1. Request("TAGST", c, id).kind = "request" /\ Request("TAGST", c, id).op = "TAGST"
      BY DEF Request
    <3>2. x \in Items /\ Rank(x) = 3
      BY <1>2, <1>6, ItemType
    <3>3. Rank(Head(s)) <= 3
      BY <1>2, <1>3, <1>6, <3>2
    <3>4. QED
      BY <1>1, <3>1, <3>3, ItemType
  <2>3. QED
    BY <1>2, <2>1, <2>2
<1>7. \A x, y \in ToSet(Tail(s)) : x.kind = "dma_read" => ~(y.kind = "request" /\ y.op = "TAGST")
  BY <1>2 DEF Staged
<1>8. \A i \in DOMAIN Tail(s) : Tail(s)[i] = Answer => i = 1
  BY <1>4 DEF ToSet
<1>9. QED
  BY <1>1, <1>4, <1>5, <1>6, <1>7, <1>8 DEF Staged

\* A load that has been sent is replaced by the wait for its answer.
LEMMA StagedAnswer ==
  ASSUME NEW s, Staged(s), s # <<>>, Head(s).kind = "load"
  PROVE  /\ Staged(<<Answer>> \o Tail(s))
         /\ ToSet(<<Answer>> \o Tail(s)) = {Answer} \cup ToSet(Tail(s))
         /\ <<Answer>> \o Tail(s) # <<>> /\ Head(<<Answer>> \o Tail(s)) = Answer
<1> DEFINE t == <<Answer>> \o Tail(s)
<1>1. s \in Seq(Items) /\ Tail(s) \in Seq(Items) /\ Ordered(s) /\ Ordered(Tail(s)) /\ Head(s) \in Items
  BY OrderedTail, TailOf DEF Staged
<1>2. ToSet(s) = {Head(s)} \cup ToSet(Tail(s)) /\ ToSet(s) \subseteq Items
  BY <1>1, SetOfTail
<1>3. Staged(Tail(s)) /\ Answer \notin ToSet(Tail(s))
  BY StagedTail
<1>4. <<Answer>> \in Seq(Items) /\ t \in Seq(Items)
  BY <1>1, OtherItems
<1>5. ToSet(t) = {Answer} \cup ToSet(Tail(s))
  <2>1. ToSet(<<Answer>>) = {Answer}
    BY SetOfOne
  <2>2. ToSet(<<Answer>> \o Tail(s)) = ToSet(<<Answer>>) \cup ToSet(Tail(s))
    BY <1>1, <1>4, SetOfConcat
  <2>3. QED
    BY <2>1, <2>2
<1>6. /\ Len(t) = Len(Tail(s)) + 1 /\ Len(Tail(s)) \in Nat /\ DOMAIN t = 1 .. Len(Tail(s)) + 1
      /\ DOMAIN Tail(s) = 1 .. Len(Tail(s))
      /\ t[1] = Answer /\ \A i \in 2 .. Len(Tail(s)) + 1 : t[i] = Tail(s)[i - 1]
  BY <1>1, <1>4
<1>7. t # <<>> /\ Head(t) = Answer
  BY <1>4, <1>6
<1> HIDE DEF t
<1>8. \A x \in ToSet(Tail(s)) : 2 <= Rank(x)
  <2>1. Rank(Head(s)) = 2
    BY <1>1, ItemType
  <2>2. QED
    BY <2>1, <1>1, <1>2, OrderedTail
<1>9. Rank(Answer) = 2
  BY DEF Rank, Answer
<1>10. Ordered(t)
  <2>1. SUFFICES ASSUME NEW i \in DOMAIN t, NEW j \in DOMAIN t, i < j PROVE Rank(t[i]) <= Rank(t[j])
    BY DEF Ordered
  <2>2. j \in 2 .. Len(Tail(s)) + 1 /\ j - 1 \in DOMAIN Tail(s) /\ t[j] = Tail(s)[j - 1]
    BY <2>1, <1>6
  <2>3. CASE i = 1
    <3>1. t[j] \in ToSet(Tail(s))
      BY <2>2 DEF ToSet
    <3>2. QED
      BY <3>1, <2>3, <1>6, <1>8, <1>9
  <2>4. CASE i # 1
    <3>1. i - 1 \in DOMAIN Tail(s) /\ t[i] = Tail(s)[i - 1] /\ i - 1 < j - 1
      BY <2>1, <2>2, <2>4, <1>6
    <3>2. QED
      BY <3>1, <2>2, <1>1 DEF Ordered
  <2>5. QED
    BY <2>3, <2>4
<1>11. ASSUME NEW i \in DOMAIN t, t[i] = Answer PROVE i = 1
  <2>1. SUFFICES ASSUME i # 1 PROVE FALSE
    OBVIOUS
  <2>2. i - 1 \in DOMAIN Tail(s) /\ t[i] = Tail(s)[i - 1]
    BY <1>6, <1>11, <2>1
  <2>3. QED
    BY <2>2, <1>3, <1>11 DEF ToSet
<1>12. Answer.kind = "answer"
  BY DEF Answer
<1>13. \A x \in ToSet(t) : x.kind = "request" /\ x.op \in FlushOps =>
          \E e \in Epas : Load(x.cache, e) \in ToSet(t)
  BY <1>3, <1>5, <1>12 DEF Staged
<1>14. \A x \in ToSet(t) : x.kind = "dma_write" =>
          \A c \in Caches, id \in Ids : Request("TAGST", c, id) \in ToSet(t)
  BY <1>3, <1>5, <1>12 DEF Staged
<1>15. \A x, y \in ToSet(t) : x.kind = "dma_read" => ~(y.kind = "request" /\ y.op = "TAGST")
  BY <1>3, <1>5, <1>12 DEF Staged
<1>16. Staged(t)
  BY <1>4, <1>10, <1>11, <1>13, <1>14, <1>15 DEF Staged
<1>17. QED
  BY <1>5, <1>7, <1>16 DEF t

LEMMA StoringIs ==
  ASSUME NEW s, Storing(s)
  PROVE  /\ s # <<>>
         /\ \/ s = <<Fence>> /\ Head(s) = Fence /\ Tail(s) = <<>> /\ ToSet(s) = {Fence}
            \/ \E c \in Caches, e \in Epas :
                 /\ s = <<Request("store", c, e), Fence>> /\ Head(s) = Request("store", c, e)
                 /\ Tail(s) = <<Fence>> /\ ToSet(s) = {Request("store", c, e), Fence}
         /\ DOMAIN s \subseteq 1 .. 2
<1>1. CASE s = <<Fence>>
  BY <1>1, SetOfOne
<1>2. ASSUME NEW c \in Caches, NEW e \in Epas, s = WriteMem(c, e)
      PROVE  /\ s = <<Request("store", c, e), Fence>> /\ Head(s) = Request("store", c, e)
             /\ Tail(s) = <<Fence>> /\ ToSet(s) = {Request("store", c, e), Fence}
             /\ DOMAIN s \subseteq 1 .. 2 /\ s # <<>>
  BY <1>2, SetOfTwo DEF WriteMem
<1>3. QED
  BY <1>1, <1>2 DEF Storing

LEMMA ReplacingIs ==
  ASSUME NEW s, Replacing(s)
  PROVE  /\ s # <<>>
         /\ \E c \in Caches, l \in 0 .. Lines - 1 :
              LET drop == Request("AINV", c, First(l))
                  dma  == DmaWrite(Span(c, First(l), Block))
              IN \/ s = <<drop>> /\ Head(s) = drop /\ Tail(s) = <<>> /\ ToSet(s) = {drop}
                 \/ s = <<dma, drop>> /\ Head(s) = dma /\ Tail(s) = <<drop>> /\ ToSet(s) = {dma, drop}
         /\ DOMAIN s \subseteq 1 .. 2
<1>1. PICK c \in Caches, l \in 0 .. Lines - 1 :
        \/ s = <<Request("AINV", c, First(l))>>
        \/ s = <<DmaWrite(Span(c, First(l), Block)), Request("AINV", c, First(l))>>
  BY DEF Replacing
<1> DEFINE drop == Request("AINV", c, First(l))
           dma  == DmaWrite(Span(c, First(l), Block))
<1>2. s = <<drop>> \/ s = <<dma, drop>>
  BY <1>1
<1> HIDE DEF drop, dma
<1>3. /\ \/ s = <<drop>> /\ Head(s) = drop /\ Tail(s) = <<>> /\ ToSet(s) = {drop}
         \/ s = <<dma, drop>> /\ Head(s) = dma /\ Tail(s) = <<drop>> /\ ToSet(s) = {dma, drop}
      /\ DOMAIN s \subseteq 1 .. 2 /\ s # <<>>
  <2>1. CASE s = <<drop>>
    <3>1. ToSet(<<drop>>) = {drop}
      BY SetOfOne
    <3>2. QED
      BY <2>1, <3>1
  <2>2. CASE s = <<dma, drop>>
    <3>1. ToSet(<<dma, drop>>) = {dma, drop}
      BY SetOfTwo
    <3>2. QED
      BY <2>2, <3>1
  <2>3. QED
    BY <1>2, <2>1, <2>2
<1>4. QED
  BY <1>1, <1>3 DEF drop, dma

\* The head of what is left decides which call it is.
LEMMA Heads ==
  ASSUME TodoInv, todo # <<>>
  PROVE  /\ Head(todo).kind \in {"request", "load", "answer", "dma_read", "dma_write", "fence"}
         /\ Head(todo).kind = "request" =>
              \/ Staged(todo) /\ \E c \in Caches, e \in Epas : Head(todo) = Request("AFL", c, e)
              \/ Staged(todo) /\ \E c \in Caches, id \in Ids : Head(todo) = Request("TAGFL", c, id)
              \/ Staged(todo) /\ \E c \in Caches, id \in Ids : Head(todo) = Request("TAGST", c, id)
              \/ \E c \in Caches, e \in Epas :
                   /\ Head(todo) = Request("store", c, e) /\ Tail(todo) = <<Fence>>
                   /\ Todo = {Request("store", c, e), Fence}
              \/ \E c \in Caches, l \in 0 .. Lines - 1 :
                   /\ Head(todo) = Request("AINV", c, First(l)) /\ Tail(todo) = <<>>
                   /\ todo = <<Request("AINV", c, First(l))>> /\ Todo = {Request("AINV", c, First(l))}
         /\ Head(todo).kind = "load" => Staged(todo) /\ \E c \in Caches, e \in Epas : Head(todo) = Load(c, e)
         /\ Head(todo).kind = "answer" => Staged(todo) /\ Head(todo) = Answer
         /\ Head(todo).kind = "fence" => todo = <<Fence>> /\ Tail(todo) = <<>>
         /\ Head(todo).kind = "dma_read" => Staged(todo) /\ \E w \in Words : Head(todo) = DmaRead(w)
         /\ Head(todo).kind = "dma_write" =>
              \/ Staged(todo) /\ \E W \in SUBSET Words : Head(todo) = DmaWrite(W)
              \/ \E c \in Caches, l \in 0 .. Lines - 1 :
                   /\ Head(todo) = DmaWrite(Span(c, First(l), Block))
                   /\ Tail(todo) = <<Request("AINV", c, First(l))>>
                   /\ todo = <<DmaWrite(Span(c, First(l), Block)), Request("AINV", c, First(l))>>
                   /\ Todo = {DmaWrite(Span(c, First(l), Block)), Request("AINV", c, First(l))}
<1>1. CASE Staged(todo)
  <2>1. Head(todo) \in Items
    BY <1>1, TailOf DEF Staged
  <2>2. QED
    BY <1>1, <2>1, ItemType
<1>2. CASE Storing(todo)
  <2>1. Fence.kind = "fence" /\ \A c, e : Request("store", c, e).kind = "request"
    BY DEF Fence, Request
  <2>2. QED
    BY <1>2, <2>1, StoringIs DEF Todo
<1>3. CASE Replacing(todo)
  <2>1. \A c, e, W : Request("AINV", c, e).kind = "request" /\ DmaWrite(W).kind = "dma_write"
    BY DEF DmaWrite, Request
  <2>2. QED
    BY <1>3, <2>1, ReplacingIs DEF Todo
<1>4. QED
  BY <1>1, <1>2, <1>3 DEF TodoInv

\* What is left of a call once its head has been done.
LEMMA TodoSeq ==
  ASSUME TodoInv
  PROVE  \E S : todo \in Seq(S)
<1>1. CASE Staged(todo)
  BY <1>1 DEF Staged
<1>2. ASSUME NEW x, NEW y, todo = <<x>> \/ todo = <<x, y>> PROVE \E S : todo \in Seq(S)
  <2>1. <<x>> \in Seq({x, y}) /\ <<x, y>> \in Seq({x, y})
    OBVIOUS
  <2>2. QED
    BY <2>1, <1>2
<1>3. CASE Storing(todo)
  <2>1. \E x, y : todo = <<x>> \/ todo = <<x, y>>
    BY <1>3, StoringIs
  <2>2. QED
    BY <2>1, <1>2
<1>4. CASE Replacing(todo)
  <2>1. \E x, y : todo = <<x>> \/ todo = <<x, y>>
    BY <1>4, ReplacingIs
  <2>2. QED
    BY <2>1, <1>2
<1>5. QED
  BY <1>1, <1>3, <1>4 DEF TodoInv

LEMMA TodoNext ==
  ASSUME TodoInv, TypeOK, todo # <<>>, todo' = Tail(todo),
         writes' = writes \/ (IsWrite(Head(todo)) /\ writes' = writes + 1)
  PROVE  /\ TodoInv' /\ Todo = {Head(todo)} \cup Todo'
         /\ IsWrite(Head(todo)) => writes + 1 <= MaxWrites
<1>1. PICK S : todo \in Seq(S)
  BY TodoSeq
<1>2. Todo = {Head(todo)} \cup Todo'
  BY <1>1, SetOfTail DEF Todo
<1>3. Staged(todo') \/ Storing(todo') \/ Replacing(todo')
  <2>1. CASE Staged(todo)
    BY <2>1, StagedTail
  <2>2. CASE Storing(todo)
    <3>1. Staged(<<>>)
      BY SetOfEmpty DEF Staged, Ordered
    <3>2. QED
      BY <3>1, <2>2, StoringIs DEF Storing
  <2>3. CASE Replacing(todo)
    <3>1. Staged(<<>>)
      BY SetOfEmpty DEF Staged, Ordered
    <3>2. QED
      BY <3>1, <2>3, ReplacingIs DEF Replacing
  <2>4. QED
    BY <2>1, <2>2, <2>3 DEF TodoInv
<1>4. writes \in Nat /\ MaxWrites \in Nat
  BY SizesAssumption DEF TypeOK, Vals
<1>5. Budget(todo', writes')
  <2>1. SUFFICES ASSUME NEW i \in DOMAIN Tail(todo), NEW j \in DOMAIN Tail(todo),
                        IsWrite(Tail(todo)[i]), IsWrite(Tail(todo)[j])
                 PROVE  writes' + (j - i) + 1 <= MaxWrites
    BY DEF Budget
  <2>2. /\ i + 1 \in DOMAIN todo /\ j + 1 \in DOMAIN todo /\ i \in Nat \ {0} /\ j \in Nat
        /\ IsWrite(todo[i + 1]) /\ IsWrite(todo[j + 1]) /\ 1 \in DOMAIN todo /\ Head(todo) = todo[1]
    BY <1>1, <2>1, TailOf
  <2>3. writes + ((j + 1) - (i + 1)) + 1 <= MaxWrites
    BY <2>2 DEF TodoInv, Budget
  <2>4. IsWrite(Head(todo)) => writes + ((j + 1) - 1) + 1 <= MaxWrites
    BY <2>2 DEF TodoInv, Budget
  <2>5. QED
    BY <2>2, <2>3, <2>4, <1>4
<1>6. IsWrite(Head(todo)) => writes + 1 <= MaxWrites
  <2>1. SUFFICES ASSUME IsWrite(Head(todo)) PROVE writes + 1 <= MaxWrites
    OBVIOUS
  <2>2. 1 \in DOMAIN todo /\ Head(todo) = todo[1]
    BY <1>1, TailOf
  <2>3. writes + (1 - 1) + 1 <= MaxWrites
    BY <2>1, <2>2 DEF TodoInv, Budget
  <2>4. QED
    BY <2>3, <1>4
<1>7. QED
  BY <1>2, <1>3, <1>5, <1>6 DEF TodoInv

LEMMA TodoLoad ==
  ASSUME TodoInv, TypeOK, todo # <<>>, Head(todo).kind = "load",
         todo' = <<[kind |-> "answer"]>> \o Tail(todo), writes' = writes
  PROVE  /\ TodoInv' /\ Answering'
         /\ Todo = {Head(todo)} \cup ToSet(Tail(todo)) /\ Todo' = {Answer} \cup ToSet(Tail(todo))
<1>1. Staged(todo)
  BY Heads
<1>2. todo \in Seq(Items) /\ Tail(todo) \in Seq(Items) /\ todo' = <<Answer>> \o Tail(todo)
  BY <1>1, TailOf DEF Staged, Answer
<1>3. /\ Staged(todo') /\ Todo' = {Answer} \cup ToSet(Tail(todo)) /\ Answering'
      /\ Todo = {Head(todo)} \cup ToSet(Tail(todo))
  BY <1>1, <1>2, StagedAnswer, SetOfTail DEF Todo, Answering
<1>4. /\ Len(todo) \in Nat \ {0} /\ DOMAIN todo = 1 .. Len(todo) /\ DOMAIN Tail(todo) = 1 .. Len(todo) - 1
      /\ \A i \in DOMAIN Tail(todo) : Tail(todo)[i] = todo[i + 1]
  BY <1>2, TailOf
<1>5. /\ DOMAIN todo' = 1 .. Len(todo) /\ todo'[1] = Answer
      /\ \A i \in 2 .. Len(todo) : todo'[i] = todo[i]
  <2>1. Len(Tail(todo)) = Len(todo) - 1 /\ <<Answer>> \in Seq(Items)
    BY <1>2, <1>4, OtherItems
  <2>2. /\ DOMAIN todo' = 1 .. Len(todo) /\ todo'[1] = Answer
        /\ \A i \in 2 .. Len(todo) : todo'[i] = Tail(todo)[i - 1]
    BY <1>2, <1>4, <2>1
  <2>3. ASSUME NEW i \in 2 .. Len(todo) PROVE Tail(todo)[i - 1] = todo[i]
    <3>1. i - 1 \in DOMAIN Tail(todo) /\ (i - 1) + 1 = i
      BY <1>4
    <3>2. QED
      BY <3>1, <1>4
  <2>4. QED
    BY <2>2, <2>3
<1>6. Budget(todo', writes')
  <2>1. ~IsWrite(Answer)
    BY DEF IsWrite, Answer
  <2>2. SUFFICES ASSUME NEW i \in DOMAIN todo', NEW j \in DOMAIN todo', IsWrite(todo'[i]), IsWrite(todo'[j])
                 PROVE  writes + (j - i) + 1 <= MaxWrites
    BY DEF Budget
  <2>3. i \in DOMAIN todo /\ j \in DOMAIN todo /\ todo'[i] = todo[i] /\ todo'[j] = todo[j]
    BY <2>1, <2>2, <1>4, <1>5
  <2>4. QED
    BY <2>2, <2>3 DEF TodoInv, Budget
<1>7. QED
  BY <1>3, <1>6 DEF TodoInv

------------------------------------------------------------------------------
(* The requests on their way.                                               *)

LEMMA SentType ==
  ASSUME NetType, NEW c \in Caches
  PROVE  net[c] \in Seq(Requests) /\ Sent(c) \subseteq Requests
  BY SetIn DEF NetType, Sent

\* Between an answer and the next access, nothing is on its way but drops and
\* flushes; when no load is left, nothing but drops and a store.
LEMMA NoAccess ==
  ASSUME NetType, NetInv, ~Answering, NEW c \in Caches, NEW q \in Sent(c)
  PROVE  /\ q.op # "load"
         /\ todo # <<Fence>> => QueueRank(q) < 3
         /\ (\A e \in Epas : Load(c, e) \notin Todo) => q.op \notin FlushOps
         /\ (\A e \in Epas : Load(c, e) \notin Todo) /\ todo # <<Fence>> => q.op \in DropOps
<1>1. q \in Requests
  BY SentType
<1>2. ~LoadSent(c) /\ q.op # "load"
  BY DEF NetInv, LoadsAwaited, LoadSent
<1>3. todo # <<Fence>> => q.op # "store"
  BY DEF NetInv, StoresFenced
<1>4. (\A e \in Epas : Load(c, e) \notin Todo) => q.op \notin FlushOps
  BY <1>2 DEF NetInv, FlushesAwaited
<1>5. QED
  BY <1>1, <1>2, <1>3, <1>4, RequestType DEF AccessOps

LEMMA Appended ==
  ASSUME NetType, NEW c \in Caches, NEW x \in Requests,
         net' = [net EXCEPT ![c] = Append(@, x)]
  PROVE  /\ NetType'
         /\ Sent(c)' = Sent(c) \cup {x}
         /\ \A d \in Caches : d # c => net'[d] = net[d] /\ Sent(d)' = Sent(d)
<1>1. \A d \in Caches : net'[d] = IF d = c THEN Append(net[d], x) ELSE net[d]
  BY DEF NetType
<1>2. \A d \in Caches : net'[d] \in Seq(Requests)
  BY <1>1, SentType
<1>3. NetType'
  BY <1>2 DEF NetType
<1>4. Sent(c)' = Sent(c) \cup {x}
  BY <1>1, SentType, SetOfAppend DEF Sent
<1>5. QED
  BY <1>1, <1>3, <1>4 DEF Sent

LEMMA Served ==
  ASSUME NetType, QueuesOrdered, NEW c \in Caches, net[c] # <<>>,
         net' = [net EXCEPT ![c] = Tail(@)]
  PROVE  /\ NetType' /\ QueuesOrdered'
         /\ Sent(c) = {Head(net[c])} \cup Sent(c)' /\ Head(net[c]) \in Requests
         /\ \A q \in Sent(c)' : QueueRank(Head(net[c])) <= QueueRank(q) /\ QueueRank(Head(net[c])) < 3
         /\ \A d \in Caches : d # c => net'[d] = net[d] /\ Sent(d)' = Sent(d)
<1>1. \A d \in Caches : net'[d] = IF d = c THEN Tail(net[d]) ELSE net[d]
  BY DEF NetType
<1>2. Tail(net[c]) \in Seq(Requests) /\ Head(net[c]) \in Requests
  BY SentType, TailOf
<1>3. \A d \in Caches : net'[d] \in Seq(Requests)
  BY <1>1, <1>2, SentType
<1>4. NetType'
  BY <1>3 DEF NetType
<1>5. Sent(c) = {Head(net[c])} \cup Sent(c)'
  BY <1>1, SentType, SetOfTail DEF Sent
<1>6. /\ QueueOrdered(Tail(net[c]))
      /\ \A q \in ToSet(Tail(net[c])) : QueueRank(Head(net[c])) <= QueueRank(q) /\ QueueRank(Head(net[c])) < 3
  BY SentType, QueueTail DEF QueuesOrdered
<1>7. QED
  BY <1>1, <1>2, <1>4, <1>5, <1>6 DEF Sent, QueuesOrdered

\* A queue whose head is not a drop is in a cache nothing will be dropped from.
LEMMA HeadIsLeast ==
  ASSUME NetType, QueuesOrdered, NEW c \in Caches, net[c] # <<>>
  PROVE  /\ Head(net[c]) \in Requests /\ Head(net[c]) \in Sent(c)
         /\ \A q \in Sent(c) : q = Head(net[c]) \/ QueueRank(Head(net[c])) <= QueueRank(q)
         /\ Head(net[c]).op \in AccessOps => Sent(c) = {Head(net[c])} /\ ToSet(Tail(net[c])) = {}
<1>1. net[c] \in Seq(Requests) /\ QueueOrdered(net[c])
  BY SentType DEF QueuesOrdered
<1>2. /\ Head(net[c]) \in Requests
      /\ Sent(c) = {Head(net[c])} \cup ToSet(Tail(net[c]))
      /\ \A q \in ToSet(Tail(net[c])) : QueueRank(Head(net[c])) <= QueueRank(q) /\ QueueRank(Head(net[c])) < 3
  BY <1>1, QueueTail, TailOf, SetOfTail DEF Sent
<1>3. Head(net[c]).op \in AccessOps => QueueRank(Head(net[c])) = 3
  BY <1>2, RequestType
<1>4. QED
  BY <1>2, <1>3

\* The request that the head of a call becomes.
Sending(x) == net' = [net EXCEPT ![Head(todo).cache] = Append(@, x)]

\* A request that is not an access joins a queue without one.
LEMMA IssueNet ==
  ASSUME NetType, NetInv, TodoInv, TypeOK, IssueRequest
  PROVE  /\ NetType' /\ NetInv' /\ writes' \in Vals /\ memory' \in [Words -> Vals]
         /\ Head(todo).op # "store" => writes' = writes /\ memory' = memory
         /\ \E x \in Requests : Sending(x) /\ x.op = Head(todo).op /\ x.arg = Head(todo).arg
<1> DEFINE r == Head(todo)
           v == IF r.op = "store" THEN writes + 1 ELSE 0
           x == [op |-> r.op, arg |-> r.arg, val |-> v]
<1>1. todo # <<>> /\ r.kind = "request" /\ todo' = Tail(todo)
  BY DEF IssueRequest
<1>2. /\ \/ Staged(todo) /\ r.op \in {"AFL", "TAGFL", "TAGST"}
         \/ r.op = "store" /\ Todo = {r, Fence} /\ todo' = <<Fence>>
         \/ r.op = "AINV" /\ Todo = {r}
      /\ r.cache \in Caches
      /\ r.op \in {"TAGFL", "TAGST"} => r.arg \in Ids
      /\ r.op \in {"AFL", "AINV", "store"} => r.arg \in Epas
  <2>1. /\ \A op, c, y : /\ Request(op, c, y).kind = "request" /\ Request(op, c, y).op = op
                         /\ Request(op, c, y).cache = c /\ Request(op, c, y).arg = y
    BY DEF Request
  <2>2. \A l \in 0 .. Lines - 1 : First(l) \in Epas
    BY FirstOf
  <2> HIDE DEF r
  <2>3. r = Head(todo)
    BY DEF r
  <2>4. /\ \/ Staged(todo) /\ r.op \in {"AFL", "TAGFL", "TAGST"}
           \/ r.op = "store" /\ Todo = {r, Fence} /\ todo' = <<Fence>>
           \/ r.op = "AINV" /\ Todo = {r}
        /\ r.cache \in Caches
        /\ r.op \in {"TAGFL", "TAGST"} => r.arg \in Ids
        /\ r.op \in {"AFL", "AINV", "store"} => r.arg \in Epas
    BY <2>1, <2>2, <2>3, <1>1, Heads
  <2>5. QED
    BY <2>4
<1>b. PICK b \in Caches : b = r.cache
  BY <1>2
<1>3. writes \in Nat /\ MaxWrites \in Nat /\ writes <= MaxWrites /\ 0 \in Vals
  BY SizesAssumption DEF TypeOK, Vals
<1>4. r.op = "store" => writes + 1 \in Vals
  <2>1. SUFFICES ASSUME r.op = "store" PROVE writes + 1 \in Vals
    OBVIOUS
  <2>2. writes' = writes + 1 /\ IsWrite(r)
    BY <1>1, <2>1 DEF IssueRequest, IsWrite
  <2>3. writes + 1 <= MaxWrites
    BY <1>1, <2>2, TodoNext
  <2>4. QED
    BY <2>3, <1>3 DEF Vals
<1>5. x \in Requests
  BY <1>2, <1>3, <1>4 DEF Requests
<1>6. net' = [net EXCEPT ![r.cache] = Append(@, x)] /\ Sending(x)
  BY DEF IssueRequest, Sending
<1>7. /\ r.op = "store" => writes' = writes + 1 /\ memory' = [memory EXCEPT ![<<r.cache, r.arg>>] = writes + 1]
      /\ r.op # "store" => writes' = writes /\ memory' = memory
  BY DEF IssueRequest
<1>8. x.op = r.op /\ x.arg = r.arg /\ (r.op = "store" => x.val = writes + 1)
  OBVIOUS
<1> HIDE DEF x, v
<1>9. /\ NetType' /\ Sent(b)' = Sent(b) \cup {x}
      /\ \A d \in Caches : d # b => net'[d] = net[d] /\ Sent(d)' = Sent(d)
  BY <1>b, <1>5, <1>6, Appended
<1>10. ~Answering /\ todo # <<Fence>>
  BY <1>1 DEF Answering, Answer, Fence
<1>11. \A c \in Caches : \A q \in Sent(c) : q.op # "load" /\ q.op # "store" /\ QueueRank(q) < 3
  <2>1. \A c \in Caches : \A q \in Sent(c) : q.op # "load" /\ QueueRank(q) < 3 /\ q \in Requests
    BY <1>10, NoAccess, SentType
  <2>2. QED
    BY <2>1, RequestType DEF AccessOps
<1>12. \A c \in Caches : LoadSent(c)' => FALSE
  BY <1>2, <1>8, <1>9, <1>11 DEF LoadSent
<1>13. LoadsAwaited' /\ OneLoad'
  BY <1>12 DEF LoadsAwaited, OneLoad
<1>14. StoresFenced'
  <2>1. SUFFICES ASSUME NEW c \in Caches, NEW q \in Sent(c)', q.op = "store"
                 PROVE  todo' = <<Fence>> /\ q.val = memory'[<<c, q.arg>>]
    BY DEF StoresFenced
  <2>2. c = b /\ q = x
    BY <2>1, <1>9, <1>11
  <2>3. r.op = "store" /\ todo' = <<Fence>>
    BY <2>1, <2>2, <1>2, <1>8
  <2>4. memory'[<<c, q.arg>>] = writes + 1
    BY <2>2, <2>3, <1>b, <1>2, <1>7, <1>8 DEF TypeOK, Words
  <2>5. QED
    BY <2>2, <2>3, <2>4, <1>8
<1>15. r.op \notin FlushOps => \A c \in Caches, e \in Epas : Load(c, e) \notin Todo
  <2>1. SUFFICES ASSUME r.op \notin FlushOps, NEW c \in Caches, NEW e \in Epas, Load(c, e) \in Todo
                 PROVE  FALSE
    OBVIOUS
  <2>2. Load(c, e).kind = "load" /\ Fence.kind = "fence"
    BY DEF Load, Fence
  <2>3. Staged(todo) /\ r.op = "TAGST"
    BY <2>1, <2>2, <1>1, <1>2 DEF FlushOps
  <2>4. Rank(r) <= Rank(Load(c, e)) /\ r \in Items /\ Load(c, e) \in Items
    BY <2>1, <2>3, <1>1, OrderedTail, TailOf, ItemsAre DEF Staged, Todo
  <2>5. Rank(r) = 4 /\ Rank(Load(c, e)) = 2
    BY <2>2, <2>3, <2>4, <1>1, ItemType
  <2>6. QED
    BY <2>4, <2>5
<1>16. QueuesOrdered'
  <2>1. \A q \in Sent(b) : QueueRank(q) <= QueueRank(x) /\ QueueRank(q) < 3
    <3>1. SUFFICES ASSUME NEW q \in Sent(b) PROVE QueueRank(q) <= QueueRank(x) /\ QueueRank(q) < 3
      OBVIOUS
    <3>2. q \in Requests /\ QueueRank(q) \in 1 .. 3 /\ QueueRank(x) \in 1 .. 3 /\ QueueRank(q) < 3
      BY <3>1, <1>2, <1>5, <1>11, RequestType, SentType
    <3>3. CASE r.op \in FlushOps
      <4>1. QueueRank(x) = 2
        BY <3>3, <1>5, <1>8, RequestType
      <4>2. QED
        BY <4>1, <3>2
    <3>4. CASE r.op \notin FlushOps
      <4>1. q.op \in DropOps
        BY <3>1, <3>4, <1>b, <1>10, <1>15, NoAccess
      <4>2. QueueRank(q) = 1
        BY <4>1, <3>2, RequestType
      <4>3. QED
        BY <4>2, <3>2
    <3>5. QED
      BY <3>3, <3>4
  <2>2. net[b] \in Seq(Requests) /\ QueueOrdered(net[b])
    BY SentType DEF NetInv, QueuesOrdered
  <2>3. QueueOrdered(Append(net[b], x))
    BY <2>1, <2>2, <1>5, QueueAppend DEF Sent
  <2>4. net'[b] = Append(net[b], x)
    BY <1>b, <1>6 DEF NetType
  <2>5. QED
    BY <2>3, <2>4, <1>9 DEF NetInv, QueuesOrdered
<1>17. FlushesAwaited'
  <2>1. SUFFICES ASSUME NEW c \in Caches, NEW q \in Sent(c)', q.op \in FlushOps
                 PROVE  \E e \in Epas : Load(c, e) \in Todo'
    BY DEF FlushesAwaited
  <2>2. \E e \in Epas : Load(c, e) \in Todo
    <3>1. CASE q \in Sent(c)
      BY <3>1, <2>1, <1>10, NoAccess
    <3>2. CASE q \notin Sent(c)
      <4>1. c = b /\ r.op \in FlushOps
        BY <3>2, <2>1, <1>8, <1>9
      <4>2. Staged(todo) /\ r \in ToSet(todo)
        <5>1. Staged(todo)
          BY <4>1, <1>2 DEF FlushOps
        <5>2. QED
          BY <5>1, <1>1, SetOfTail DEF Staged
      <4>3. QED
        BY <4>1, <4>2, <1>b, <1>1 DEF Staged, Todo
    <3>3. QED
      BY <3>1, <3>2
  <2>3. \A e : Load(c, e) # r
    BY <1>1 DEF Load
  <2>4. PICK S : todo \in Seq(S)
    BY TodoSeq
  <2>5. Todo = {r} \cup Todo'
    BY <2>4, <1>1, SetOfTail DEF Todo
  <2>6. QED
    BY <2>2, <2>3, <2>5
<1>18. writes' \in Vals /\ memory' \in [Words -> Vals]
  BY <1>4, <1>7 DEF TypeOK
<1>19. QED
  BY <1>5, <1>6, <1>7, <1>8, <1>9, <1>13, <1>14, <1>16, <1>17, <1>18 DEF NetInv

LEMMA LoadNet ==
  ASSUME NetType, NetInv, TodoInv, TypeOK, IssueLoad
  PROVE  /\ NetType' /\ NetInv' /\ TodoInv' /\ Answering' /\ Staged(todo)
         /\ \E b \in Caches, e \in Epas :
              /\ Head(todo) = Load(b, e) /\ net[b] \in Seq(Requests)
              /\ Sent(b)' = Sent(b) \cup {[op |-> "load", arg |-> e, val |-> 0]}
              /\ \A d \in Caches : d # b => Sent(d)' = Sent(d)
         /\ Todo = {Head(todo)} \cup ToSet(Tail(todo)) /\ Todo' = {Answer} \cup ToSet(Tail(todo))
<1>1. /\ todo # <<>> /\ Head(todo).kind = "load" /\ writes' = writes
      /\ todo' = <<[kind |-> "answer"]>> \o Tail(todo)
  BY DEF IssueLoad
<1>2. /\ TodoInv' /\ Answering'
      /\ Todo = {Head(todo)} \cup ToSet(Tail(todo)) /\ Todo' = {Answer} \cup ToSet(Tail(todo))
  BY <1>1, TodoLoad
<1>3. PICK b \in Caches, e \in Epas : Head(todo) = Load(b, e)
  BY <1>1, Heads
<1> DEFINE x == [op |-> "load", arg |-> e, val |-> 0]
<1>4. x \in Requests /\ x.op = "load" /\ QueueRank(x) = 3
  BY <1>3, SizesAssumption DEF Requests, Vals, QueueRank, DropOps, FlushOps
<1>5. net' = [net EXCEPT ![b] = Append(@, x)]
  <2>1. Head(todo).cache = b /\ Head(todo).arg = e
    BY <1>3 DEF Load
  <2>2. QED
    BY <2>1 DEF IssueLoad
<1> HIDE DEF x
<1>6. /\ NetType' /\ Sent(b)' = Sent(b) \cup {x}
      /\ \A d \in Caches : d # b => net'[d] = net[d] /\ Sent(d)' = Sent(d)
  BY <1>4, <1>5, Appended
<1>7. ~Answering /\ todo # <<Fence>>
  BY <1>1 DEF Answering, Answer, Fence
<1>8. \A c \in Caches : \A q \in Sent(c) : q.op # "load" /\ q.op # "store" /\ QueueRank(q) < 3
  <2>1. \A c \in Caches : \A q \in Sent(c) : q.op # "load" /\ QueueRank(q) < 3 /\ q \in Requests
    BY <1>7, NoAccess, SentType
  <2>2. QED
    BY <2>1, RequestType DEF AccessOps
<1>9. \A c \in Caches : LoadSent(c)' <=> c = b
  <2>1. SUFFICES ASSUME NEW c \in Caches PROVE LoadSent(c)' <=> c = b
    OBVIOUS
  <2>2. CASE c = b
    BY <2>2, <1>4, <1>6 DEF LoadSent
  <2>3. CASE c # b
    BY <2>3, <1>6, <1>8 DEF LoadSent
  <2>4. QED
    BY <2>2, <2>3
<1>10. LoadsAwaited' /\ OneLoad'
  BY <1>2, <1>9 DEF LoadsAwaited, OneLoad
<1>11. StoresFenced'
  <2>1. SUFFICES ASSUME NEW c \in Caches, NEW q \in Sent(c)', q.op = "store" PROVE FALSE
    BY DEF StoresFenced
  <2>2. QED
    BY <2>1, <1>4, <1>6, <1>8
<1>12. QueuesOrdered'
  <2>1. QueueOrdered(net[b]) /\ net[b] \in Seq(Requests)
    BY SentType DEF NetInv, QueuesOrdered
  <2>2. \A q \in Sent(b) : QueueRank(q) <= QueueRank(x) /\ QueueRank(q) < 3
    <3>1. \A q \in Sent(b) : QueueRank(q) \in 1 .. 3
      BY SentType, RequestType
    <3>2. QED
      BY <3>1, <1>4, <1>8
  <2>3. QueueOrdered(Append(net[b], x))
    BY <2>1, <2>2, <1>4, QueueAppend DEF Sent
  <2>4. net'[b] = Append(net[b], x)
    BY <1>5 DEF NetType
  <2>5. QED
    BY <2>3, <2>4, <1>6 DEF NetInv, QueuesOrdered
<1>13. FlushesAwaited'
  <2>1. SUFFICES ASSUME NEW c \in Caches, NEW q \in Sent(c)', q.op \in FlushOps, c # b
                 PROVE  \E f \in Epas : Load(c, f) \in Todo'
    BY <1>9 DEF FlushesAwaited
  <2>2. PICK f \in Epas : Load(c, f) \in Todo
    BY <2>1, <1>6, <1>7, NoAccess
  <2>3. Load(c, f) # Head(todo)
    BY <2>1, <1>3 DEF Load
  <2>4. QED
    BY <2>2, <2>3, <1>2
<1>14. Staged(todo)
  BY <1>1, Heads
<1>15. \E d \in Caches, f \in Epas :
         /\ Head(todo) = Load(d, f) /\ net[d] \in Seq(Requests)
         /\ Sent(d)' = Sent(d) \cup {[op |-> "load", arg |-> f, val |-> 0]}
         /\ \A a \in Caches : a # d => Sent(a)' = Sent(a)
  BY <1>3, <1>6, SentType DEF x
<1>16. QED
  BY <1>2, <1>6, <1>10, <1>11, <1>12, <1>13, <1>14, <1>15 DEF NetInv

\* With nothing but drops on their way, the network asks nothing of the host.
LEMMA StillNet ==
  ASSUME NetType, NetInv, net' = net, \A c \in Caches : \A q \in Sent(c) : q.op \in DropOps
  PROVE  NetType' /\ NetInv' /\ \A c \in Caches : Sent(c)' = Sent(c)
<1>1. NetType' /\ QueuesOrdered' /\ \A c \in Caches : Sent(c)' = Sent(c)
  BY DEF NetType, NetInv, QueuesOrdered, Sent
<1>2. \A c \in Caches : \A q \in Sent(c)' : q.op \notin FlushOps /\ q.op # "load" /\ q.op # "store"
  BY <1>1 DEF DropOps, FlushOps
<1>3. \A c \in Caches : LoadSent(c)' => FALSE
  BY <1>2 DEF LoadSent
<1>4. StoresFenced' /\ LoadsAwaited' /\ FlushesAwaited' /\ OneLoad'
  BY <1>2, <1>3 DEF StoresFenced, LoadsAwaited, FlushesAwaited, OneLoad
<1>5. QED
  BY <1>1, <1>4 DEF NetInv

\* A request is served: it is taken from the head of its queue, and the host
\* goes on only when it was the load whose answer it awaits.
LEMMA ServeNet ==
  ASSUME NetType, NetInv, TodoInv, TypeOK, NEW b \in Caches, net[b] # <<>>,
         net' = [net EXCEPT ![b] = Tail(@)], memory' = memory,
         IF Head(net[b]).op = "load" THEN todo' = Tail(todo) ELSE todo' = todo
  PROVE  /\ NetType' /\ NetInv'
         /\ Head(net[b]).op = "load" =>
              /\ Answering /\ Staged(todo) /\ todo # <<>> /\ Todo = {Answer} \cup Todo'
              /\ \A d \in Caches : Sent(d)' = IF d = b THEN {} ELSE Sent(d)
              /\ \A d \in Caches : d # b => ~LoadSent(d)
<1> DEFINE h == Head(net[b])
<1>1. /\ NetType' /\ QueuesOrdered' /\ Sent(b) = {h} \cup Sent(b)' /\ h \in Requests
      /\ \A q \in Sent(b)' : QueueRank(h) <= QueueRank(q) /\ QueueRank(h) < 3
      /\ \A d \in Caches : d # b => net'[d] = net[d] /\ Sent(d)' = Sent(d)
  BY Served DEF NetInv
<1> HIDE DEF h
<1>2. \A d \in Caches : Sent(d)' \subseteq Sent(d)
  BY <1>1
<1>3. CASE h.op = "load"
  <2>1. QueueRank(h) = 3
    BY <1>1, <1>3, RequestType DEF AccessOps
  <2>2. Sent(b)' = {}
    BY <1>1, <2>1
  <2>3. LoadSent(b) /\ Answering
    BY <1>1, <1>3 DEF LoadSent, NetInv, LoadsAwaited
  <2>4. Staged(todo) /\ todo # <<>> /\ Head(todo) = Answer
    BY <2>3, Heads DEF Answering, Answer
  <2>5. Todo = {Answer} \cup Todo' /\ todo' = Tail(todo)
    <3>1. todo' = Tail(todo)
      BY <1>3 DEF h
    <3>2. QED
      BY <2>4, <3>1, SetOfTail DEF Staged, Todo
  <2>6. \A d \in Caches : d # b => ~LoadSent(d)
    BY <2>3 DEF NetInv, OneLoad
  <2>7. \A d \in Caches : LoadSent(d)' => FALSE
    BY <1>1, <2>2, <2>6 DEF LoadSent
  <2>8. LoadsAwaited' /\ OneLoad'
    BY <2>7 DEF LoadsAwaited, OneLoad
  <2>9. StoresFenced'
    <3>1. SUFFICES ASSUME NEW c \in Caches, NEW q \in Sent(c), q.op = "store" PROVE FALSE
      BY <1>2 DEF StoresFenced
    <3>2. todo = <<Fence>>
      BY <3>1 DEF NetInv, StoresFenced
    <3>3. QED
      BY <3>2, <2>3 DEF Answering, Answer, Fence
  <2>10. FlushesAwaited'
    <3>1. SUFFICES ASSUME NEW c \in Caches, NEW q \in Sent(c)', q.op \in FlushOps
                   PROVE  \E e \in Epas : Load(c, e) \in Todo'
      BY DEF FlushesAwaited
    <3>2. c # b /\ q \in Sent(c)
      BY <3>1, <2>2, <1>2
    <3>3. PICK e \in Epas : Load(c, e) \in Todo
      BY <3>1, <3>2, <2>6 DEF NetInv, FlushesAwaited
    <3>4. Load(c, e) # Answer
      <4>1. Load(c, e).kind = "load" /\ Answer.kind = "answer"
        BY DEF Load, Answer
      <4>2. QED
        BY <4>1
    <3>5. QED
      BY <3>3, <3>4, <2>5
  <2>11. QED
    BY <1>1, <2>2, <2>3, <2>4, <2>5, <2>6, <2>8, <2>9, <2>10 DEF NetInv, h
<1>4. CASE h.op # "load"
  <2>1. todo' = todo /\ Todo' = Todo /\ (Answering' <=> Answering)
    BY <1>4 DEF h, Todo, Answering
  <2>2. \A d \in Caches : LoadSent(d)' <=> LoadSent(d)
    BY <1>1, <1>4 DEF LoadSent
  <2>3. LoadsAwaited' /\ OneLoad' /\ FlushesAwaited'
    BY <1>2, <2>1, <2>2 DEF NetInv, LoadsAwaited, OneLoad, FlushesAwaited
  <2>4. StoresFenced'
    BY <1>2, <2>1 DEF NetInv, StoresFenced
  <2>5. QED
    BY <1>1, <1>4, <2>3, <2>4 DEF NetInv, h
<1>5. QED
  BY <1>3, <1>4

------------------------------------------------------------------------------
(* Lines that are doomed, and those that are not.                           *)

LEMMA KindsApart ==
  /\ Fence.kind = "fence" /\ Answer.kind = "answer"
  /\ \A op, c, x : /\ Request(op, c, x).kind = "request" /\ Request(op, c, x).op = op
                   /\ Request(op, c, x).cache = c /\ Request(op, c, x).arg = x
  /\ \A c, e : Load(c, e).kind = "load" /\ Load(c, e).cache = c /\ Load(c, e).arg = e
  /\ \A w : DmaRead(w).kind = "dma_read" /\ DmaRead(w).word = w
  /\ \A W : DmaWrite(W).kind = "dma_write" /\ DmaWrite(W).words = W
  BY DEF Fence, Answer, Request, Load, DmaRead, DmaWrite

LEMMA AnsweringIs ==
  ASSUME TodoInv, Answering
  PROVE  Staged(todo) /\ todo # <<>> /\ Answer \in Todo /\ ~Flushed
<1>1. Staged(todo) /\ todo # <<>>
  BY Heads DEF Answering, Answer
<1>2. Answer \in Todo
  BY <1>1, SetOfTail DEF Answering, Staged, Todo
<1>3. QED
  BY <1>1, <1>2 DEF Flushed, Answer

LEMMA SingleDrop ==
  ASSUME NEW c, NEW e, todo = <<Request("AINV", c, e)>>
  PROVE  Todo = {Request("AINV", c, e)} /\ ~Answering
<1>1. Todo = {Request("AINV", c, e)}
  BY SetOfOne DEF Todo
<1>2. Head(todo) = Request("AINV", c, e)
  OBVIOUS
<1>3. ~Answering
  BY <1>2, KindsApart DEF Answering
<1>4. QED
  BY <1>1, <1>3

\* Nothing in a cache is or will be dropped.
Undropped(c) ==
  /\ \A q \in Sent(c) : q.op \notin DropOps
  /\ Flushed => \A id \in Ids : Request("TAGST", c, id) \notin Todo
  /\ \A e \in Epas : todo # <<Request("AINV", c, e)>>

\* A cache whose next request is not a drop has no line that is doomed.
LEMMA NoDrops ==
  ASSUME NetType, NetInv, TodoInv, NEW c \in Caches, net[c] # <<>>,
         Head(net[c]).op \notin DropOps
  PROVE  Undropped(c)
<1> DEFINE h == Head(net[c])
<1>1. h \in Requests /\ h \in Sent(c) /\ \A q \in Sent(c) : q = h \/ QueueRank(h) <= QueueRank(q)
  BY HeadIsLeast DEF NetInv
<1>2. \A q \in Sent(c) : q.op \notin DropOps
  <2>1. SUFFICES ASSUME NEW q \in Sent(c), q.op \in DropOps PROVE FALSE
    OBVIOUS
  <2>2. q \in Requests /\ QueueRank(q) = 1 /\ q # h
    BY <2>1, SentType, RequestType
  <2>3. QueueRank(h) \in 2 .. 3
    BY <1>1, RequestType
  <2>4. QED
    BY <1>1, <2>1, <2>2, <2>3
<1> HIDE DEF h
<1>3. \/ Answering
      \/ \E e \in Epas : Load(c, e) \in Todo
      \/ todo = <<Fence>>
  <2>1. h.op = "store" => todo = <<Fence>>
    BY <1>1 DEF NetInv, StoresFenced
  <2>2. h.op = "load" => Answering
    BY <1>1 DEF NetInv, LoadsAwaited, LoadSent
  <2>3. h.op \in FlushOps => LoadSent(c) \/ \E e \in Epas : Load(c, e) \in Todo
    BY <1>1 DEF NetInv, FlushesAwaited
  <2>4. LoadSent(c) => Answering
    BY DEF NetInv, LoadsAwaited
  <2>5. h.op \in {"store", "load"} \cup FlushOps
    BY <1>1, <1>2, RequestType DEF AccessOps
  <2>6. QED
    BY <2>1, <2>2, <2>3, <2>4, <2>5
<1>4. ~Flushed \/ todo = <<Fence>>
  BY <1>3, AnsweringIs, KindsApart DEF Flushed
<1>5. todo = <<Fence>> => Todo = {Fence}
  BY SetOfOne DEF Todo
<1>6. Flushed => \A id \in Ids : Request("TAGST", c, id) \notin Todo
  BY <1>4, <1>5, KindsApart
<1>7. ASSUME NEW e \in Epas, todo = <<Request("AINV", c, e)>> PROVE FALSE
  <2>1. Todo = {Request("AINV", c, e)} /\ ~Answering
    BY <1>7, SingleDrop
  <2>2. \A f : Load(c, f) \notin Todo
    BY <2>1, KindsApart
  <2>3. Fence \notin Todo
    BY <2>1, KindsApart
  <2>4. QED
    BY <2>1, <2>2, <2>3, <1>3, <1>5
<1>8. QED
  BY <1>2, <1>6, <1>7 DEF Undropped

LEMMA UndroppedAlive ==
  ASSUME NEW c \in Caches, Undropped(c), NEW id \in Ids
  PROVE  ~Doomed(c, id)
<1>1. ~DropSent(c, id)
  BY DEF DropSent, DropOps, Undropped
<1>2. QED
  BY <1>1 DEF Undropped, Doomed

LEMMA AllAlive ==
  ASSUME NetType, NetInv, TodoInv, NEW c \in Caches, net[c] # <<>>,
         Head(net[c]).op \notin DropOps, NEW id \in Ids
  PROVE  ~Doomed(c, id)
  BY NoDrops, UndroppedAlive

LEMMA IdleAlive ==
  ASSUME todo = <<>>, Drained, NEW c \in Caches, NEW id \in Ids
  PROVE  ~Doomed(c, id) /\ Sent(c) = {} /\ Todo = {} /\ Undropped(c)
<1>1. Sent(c) = {} /\ Todo = {}
  BY SetOfEmpty DEF Drained, Sent, Todo
<1>2. Undropped(c)
  BY <1>1 DEF Undropped
<1>3. QED
  BY <1>1, <1>2, UndroppedAlive

\* Steps that move requests and change no memory: no line that is dirty dies,
\* none comes back to life, and what must be flushed still will be.
LEMMA Steady ==
  ASSUME FlushInv, DramInv, CacheInv,
         dram' = dram, cached' = cached, dirty' = dirty, data' = data, memory' = memory,
         \A c \in Caches, e \in Epas : Storeable(c, e)' <=> Storeable(c, e),
         \A c \in Caches, id \in Ids : Doomed(c, id) => Doomed(c, id)',
         \A c \in Caches, id \in Ids : Doomed(c, id)' /\ Alive(c, id) => ~dirty[c][id],
         \A c \in Caches, id \in Ids :
            Alive(c, id) /\ dirty[c][id] /\ MustFlush(c, id)' =>
               \/ MustFlush(c, id) /\ (FlushPending(c, id) => FlushPending(c, id)')
               \/ FlushPending(c, id)'
  PROVE  FlushInv' /\ DramInv' /\ CacheInv'
<1>1. \A c \in Caches, id \in Ids : Alive(c, id)' => Alive(c, id)
  BY DEF Alive
<1>2. \A c \in Caches, id \in Ids : Alive(c, id) /\ dirty[c][id] => Alive(c, id)'
  BY DEF Alive
<1>3. \A c \in Caches, id \in Ids : \A l : Holds(c, id, l)' <=> Holds(c, id, l)
  BY DEF Holds
<1>4. FlushInv'
  BY <1>1 DEF FlushInv
<1>5. DramInv'
  <2>1. SUFFICES ASSUME NEW c \in Caches, NEW e \in Epas
                 PROVE  \/ dram'[<<c, e>>] = memory'[<<c, e>>]
                        \/ Storeable(c, e)'
                        \/ \E id \in Ids : Holds(c, id, LineOf(e))' /\ Alive(c, id)' /\ dirty'[c][id]
    BY DEF DramInv, LineOf
  <2>2. \/ dram[<<c, e>>] = memory[<<c, e>>]
        \/ Storeable(c, e)
        \/ \E id \in Ids : Holds(c, id, LineOf(e)) /\ Alive(c, id) /\ dirty[c][id]
    BY DEF DramInv
  <2>3. QED
    BY <2>2, <1>2, <1>3
<1>6. CacheInv'
  <2>1. SUFFICES ASSUME NEW c \in Caches, NEW id \in Ids, NEW e \in Epas,
                        Alive(c, id)', Holds(c, id, LineOf(e))'
                 PROVE  data'[c][id][e % Block] = memory'[<<c, e>>] \/ Storeable(c, e)'
    BY DEF CacheInv, LineOf
  <2>2. Alive(c, id) /\ Holds(c, id, LineOf(e))
    BY <2>1, <1>1, <1>3
  <2>3. QED
    BY <2>2 DEF CacheInv
<1>7. QED
  BY <1>4, <1>5, <1>6

------------------------------------------------------------------------------
(* Steps of the host.                                                       *)

\* A request moves from what is left of the call to a queue.
IssuedAs(op, b, y, x) ==
  /\ Head(todo) = Request(op, b, y) /\ x.op = op /\ x.arg = y
  /\ Todo = {Request(op, b, y)} \cup Todo'
  /\ Sent(b)' = Sent(b) \cup {x}
  /\ \A d \in Caches : d # b => Sent(d)' = Sent(d)
  /\ todo # <<>> /\ todo' = Tail(todo)
  /\ \/ Staged(todo) /\ op \in FlushOps
     \/ Staged(todo) /\ op = "TAGST"
     \/ op = "store" /\ todo' = <<Fence>> /\ y \in Epas /\ Todo = {Request(op, b, y), Fence}
     \/ op = "AINV" /\ todo' = <<>> /\ y \in Epas /\ todo = <<Request(op, b, y)>>
          /\ Todo = {Request(op, b, y)}

LEMMA IssueMoves ==
  ASSUME NetType, NetInv, TodoInv, TypeOK, IssueRequest
  PROVE  \E op, y : \E b \in Caches, x \in Requests : IssuedAs(op, b, y, x)
<1>1. todo # <<>> /\ Head(todo).kind = "request" /\ todo' = Tail(todo)
  BY DEF IssueRequest
<1>2. PICK op, y : \E b \in Caches :
        /\ Head(todo) = Request(op, b, y)
        /\ \/ Staged(todo) /\ op \in FlushOps
           \/ Staged(todo) /\ op = "TAGST"
           \/ op = "store" /\ Tail(todo) = <<Fence>> /\ y \in Epas /\ Todo = {Request(op, b, y), Fence}
           \/ op = "AINV" /\ Tail(todo) = <<>> /\ y \in Epas /\ todo = <<Request(op, b, y)>>
                /\ Todo = {Request(op, b, y)}
  BY <1>1, Heads, FirstOf DEF FlushOps
<1>3. PICK b \in Caches :
        /\ Head(todo) = Request(op, b, y)
        /\ \/ Staged(todo) /\ op \in FlushOps
           \/ Staged(todo) /\ op = "TAGST"
           \/ op = "store" /\ Tail(todo) = <<Fence>> /\ y \in Epas /\ Todo = {Request(op, b, y), Fence}
           \/ op = "AINV" /\ Tail(todo) = <<>> /\ y \in Epas /\ todo = <<Request(op, b, y)>>
                /\ Todo = {Request(op, b, y)}
  BY <1>2
<1>4. Head(todo).cache = b /\ Head(todo).op = op /\ Head(todo).arg = y
  BY <1>3, KindsApart
<1>5. PICK x \in Requests : Sending(x) /\ x.op = op /\ x.arg = y
  BY <1>4, IssueNet
<1>6. net' = [net EXCEPT ![b] = Append(@, x)]
  BY <1>4, <1>5 DEF Sending
<1>7. Sent(b)' = Sent(b) \cup {x} /\ \A d \in Caches : d # b => Sent(d)' = Sent(d)
  BY <1>5, <1>6, Appended
<1>8. Todo = {Request(op, b, y)} \cup Todo'
  <2>1. PICK S : todo \in Seq(S)
    BY TodoSeq
  <2>2. QED
    BY <2>1, <1>1, <1>3, SetOfTail DEF Todo
<1>9. IssuedAs(op, b, y, x)
  BY <1>1, <1>3, <1>5, <1>7, <1>8 DEF IssuedAs
<1>10. QED
  BY <1>5, <1>9

\* In a staged call, behind the head there is nothing of an earlier stage.
LEMMA StagedHead ==
  ASSUME Staged(todo), todo # <<>>
  PROVE  /\ Todo \subseteq Items /\ Head(todo) \in Items /\ Head(todo) \in Todo
         /\ \A x \in Todo : Rank(Head(todo)) <= Rank(x)
         /\ Rank(Head(todo)) >= 3 => /\ Flushed
                                     /\ \A x \in Todo : x.kind = "request" => x.op \notin FlushOps
                                     /\ \A c, e : Load(c, e) \notin Todo
         /\ \A c, e : Request("AINV", c, e) \notin Todo
<1>1. Todo \subseteq Items /\ Head(todo) \in Items /\ Head(todo) \in Todo
  BY TailOf, SetOfTail DEF Staged, Todo
<1>2. \A x \in Todo : Rank(Head(todo)) <= Rank(x)
  BY OrderedTail DEF Staged, Todo
<1>3. ASSUME Rank(Head(todo)) >= 3, NEW x \in Todo
      PROVE  x.kind \notin {"load", "answer"} /\ ~(x.kind = "request" /\ x.op \in FlushOps)
  <2>1. x \in Items /\ Rank(Head(todo)) <= Rank(x) /\ Rank(Head(todo)) \in 1 .. 4
    BY <1>1, <1>2, <1>3, ItemType
  <2>2. Rank(x) \in 1 .. 4 /\ Rank(x) # 1 /\ Rank(x) # 2
    BY <2>1, <1>3, ItemType
  <2>3. QED
    BY <2>1, <2>2, ItemType
<1>4. \A c, e : Request("AINV", c, e) \notin Todo
  <2>1. SUFFICES ASSUME NEW c, NEW e, Request("AINV", c, e) \in Items PROVE FALSE
    BY <1>1
  <2>2. QED
    BY <2>1, ItemType, KindsApart
<1>5. QED
  BY <1>1, <1>2, <1>3, <1>4, KindsApart DEF Flushed

\* Issuing a flush or a drop.
LEMMA IssueSteady ==
  ASSUME NetType, NetInv, TodoInv, TypeOK, FlushInv, DramInv, CacheInv,
         IssueRequest, Head(todo).op # "store"
  PROVE  FlushInv' /\ DramInv' /\ CacheInv'
<1>1. PICK op, y : \E b \in Caches, x \in Requests : IssuedAs(op, b, y, x)
  BY IssueMoves
<1>a. PICK b \in Caches, x \in Requests : IssuedAs(op, b, y, x)
  BY <1>1
<1>2. /\ Head(todo) = Request(op, b, y) /\ x.op = op /\ x.arg = y
      /\ Todo = {Request(op, b, y)} \cup Todo'
      /\ Sent(b)' = Sent(b) \cup {x}
      /\ \A d \in Caches : d # b => Sent(d)' = Sent(d)
      /\ todo # <<>> /\ todo' = Tail(todo)
      /\ b \in Caches /\ x \in Requests
  BY <1>a DEF IssuedAs
<1>3. op # "store" /\ x.op # "store"
  BY <1>2, KindsApart
<1>4. dram' = dram /\ cached' = cached /\ dirty' = dirty /\ data' = data /\ memory' = memory
  BY <1>2, <1>3, KindsApart DEF IssueRequest, cacheVars
<1>5. \A c \in Caches, e \in Epas : Storeable(c, e)' <=> Storeable(c, e)
  BY <1>2, <1>3 DEF Storeable
<1>6. \A c \in Caches, id \in Ids :
        /\ DropSent(c, id) => DropSent(c, id)'
        /\ DropSent(c, id)' => \/ DropSent(c, id)
                               \/ /\ c = b
                                  /\ \/ op = "TAGST" /\ y = id
                                     \/ op = "AINV" /\ cached[c][id] = LineOf(y)
  BY <1>2, <1>4 DEF DropSent, LineOf
<1>7. \A c \in Caches, id \in Ids :
        /\ c = b /\ op = "TAGST" /\ y = id => DropSent(c, id)'
        /\ c = b /\ op = "AINV" /\ cached[c][id] = LineOf(y) => DropSent(c, id)'
  BY <1>2, <1>4 DEF DropSent, LineOf
<1>8. CASE Staged(todo) /\ op \in FlushOps
  <2>1. Request(op, b, y) \in Todo /\ ToSet(todo) = Todo
    BY <1>2 DEF Todo
  <2>2. PICK f \in Epas : Load(b, f) \in Todo
    BY <2>1, <1>8, KindsApart DEF Staged
  <2>3. Load(b, f) \in Todo'
    BY <2>2, <1>2, KindsApart
  <2>4. ~Flushed /\ ~Flushed'
    BY <2>2, <2>3, KindsApart DEF Flushed
  <2>5. \A c, e : todo # <<Request("AINV", c, e)>> /\ todo' # <<Request("AINV", c, e)>>
    <3>1. SUFFICES ASSUME NEW c, NEW e
                   PROVE  todo # <<Request("AINV", c, e)>> /\ todo' # <<Request("AINV", c, e)>>
      OBVIOUS
    <3>2. ToSet(<<Request("AINV", c, e)>>) = {Request("AINV", c, e)}
      BY SetOfOne
    <3>3. Load(b, f) # Request("AINV", c, e)
      BY KindsApart
    <3>4. QED
      BY <3>2, <3>3, <2>2, <2>3 DEF Todo
  <2>6. \A c \in Caches, id \in Ids : Doomed(c, id)' <=> Doomed(c, id)
    BY <2>4, <2>5, <1>6, <1>8 DEF Doomed, FlushOps
  <2>7. ASSUME NEW c \in Caches, NEW id \in Ids
        PROVE  /\ MustFlush(c, id)' => MustFlush(c, id)
               /\ FlushPending(c, id) => FlushPending(c, id)'
    <3>1. MustFlush(c, id)' => MustFlush(c, id)
      BY <1>2, <1>4 DEF MustFlush, LineOf
    <3>2. FlushSent(c, id) => FlushSent(c, id)'
      BY <1>2, <1>4 DEF FlushSent, LineOf
    <3>3. Request("TAGFL", c, id) \in Todo => Request("TAGFL", c, id) \in Todo' \/ FlushSent(c, id)'
      <4>1. Request("TAGFL", c, id) = Request(op, b, y) => FlushSent(c, id)'
        <5>1. SUFFICES ASSUME Request("TAGFL", c, id) = Request(op, b, y) PROVE FlushSent(c, id)'
          OBVIOUS
        <5>2. c = b /\ op = "TAGFL" /\ id = y
          BY <5>1, KindsApart
        <5>3. QED
          BY <5>2, <1>2 DEF FlushSent
      <4>2. QED
        BY <4>1, <1>2
    <3>4. ASSUME NEW e \in Epas, Request("AFL", c, e) \in Todo, cached[c][id] = LineOf(e)
          PROVE  Request("AFL", c, e) \in Todo' \/ FlushSent(c, id)'
      <4>1. Request("AFL", c, e) = Request(op, b, y) => FlushSent(c, id)'
        <5>1. SUFFICES ASSUME Request("AFL", c, e) = Request(op, b, y) PROVE FlushSent(c, id)'
          OBVIOUS
        <5>2. c = b /\ op = "AFL" /\ e = y
          BY <5>1, KindsApart
        <5>3. QED
          BY <5>2, <3>4, <1>2, <1>4 DEF FlushSent, LineOf
      <4>2. QED
        BY <4>1, <3>4, <1>2
    <3>5. FlushToSend(c, id) => FlushToSend(c, id)' \/ FlushSent(c, id)'
      BY <3>3, <3>4, <1>4 DEF FlushToSend, LineOf
    <3>6. QED
      BY <3>1, <3>2, <3>5 DEF FlushPending
  <2>8. \A c \in Caches, id \in Ids : Doomed(c, id)' /\ Alive(c, id) => FALSE
    BY <2>6 DEF Alive
  <2>9. QED
    BY <1>4, <1>5, <2>6, <2>7, <2>8, Steady
<1>9. CASE Staged(todo) /\ op = "TAGST"
  <2>1. Rank(Head(todo)) = 4
    BY <1>2, <1>9, StagedHead, ItemType, KindsApart
  <2>2. Flushed /\ \A c, e : Request("AINV", c, e) \notin Todo
    BY <2>1, <1>2, <1>9, StagedHead
  <2>3. Flushed'
    BY <2>2, <1>2 DEF Flushed
  <2>4. \A c, e : todo # <<Request("AINV", c, e)>> /\ todo' # <<Request("AINV", c, e)>>
    <3>1. SUFFICES ASSUME NEW c, NEW e
                   PROVE  todo # <<Request("AINV", c, e)>> /\ todo' # <<Request("AINV", c, e)>>
      OBVIOUS
    <3>2. ToSet(<<Request("AINV", c, e)>>) = {Request("AINV", c, e)}
      BY SetOfOne
    <3>3. QED
      BY <3>2, <2>2, <1>2 DEF Todo
  <2>5. ASSUME NEW c \in Caches, NEW id \in Ids
        PROVE  Request("TAGST", c, id) \in Todo <=>
                 \/ Request("TAGST", c, id) \in Todo'
                 \/ c = b /\ op = "TAGST" /\ y = id
    <3>1. Request("TAGST", c, id) = Request(op, b, y) <=> c = b /\ y = id
      <4>1. Request("TAGST", c, id) = Request(op, b, y) => c = b /\ y = id
        BY KindsApart
      <4>2. c = b /\ y = id => Request("TAGST", c, id) = Request(op, b, y)
        BY <1>9
      <4>3. QED
        BY <4>1, <4>2
    <3>2. QED
      BY <3>1, <1>2, <1>9
  <2>6. \A c \in Caches, id \in Ids : Doomed(c, id)' <=> Doomed(c, id)
    <3>1. SUFFICES ASSUME NEW c \in Caches, NEW id \in Ids PROVE Doomed(c, id)' <=> Doomed(c, id)
      OBVIOUS
    <3>2. Doomed(c, id) <=> DropSent(c, id) \/ Request("TAGST", c, id) \in Todo
      BY <2>2, <2>4 DEF Doomed
    <3>3. Doomed(c, id)' <=> DropSent(c, id)' \/ Request("TAGST", c, id) \in Todo'
      BY <2>3, <2>4 DEF Doomed
    <3>4. op # "AINV"
      BY <1>9
    <3>5. QED
      BY <3>2, <3>3, <3>4, <2>5, <1>6, <1>7, <1>9
  <2>7. ASSUME NEW c \in Caches, NEW id \in Ids
        PROVE  /\ MustFlush(c, id)' => MustFlush(c, id)
               /\ FlushPending(c, id) => FlushPending(c, id)'
    <3>1. MustFlush(c, id)' => MustFlush(c, id)
      BY <1>2, <1>4 DEF MustFlush, LineOf
    <3>2. FlushSent(c, id) => FlushSent(c, id)'
      BY <1>2, <1>4 DEF FlushSent, LineOf
    <3>3. ~FlushToSend(c, id)
      <4>1. \A z \in Todo : z.kind = "request" => z.op \notin FlushOps
        BY <2>1, <1>2, <1>9, StagedHead
      <4>2. QED
        BY <4>1, KindsApart DEF FlushToSend, FlushOps
    <3>4. QED
      BY <3>1, <3>2, <3>3 DEF FlushPending
  <2>8. \A c \in Caches, id \in Ids : Doomed(c, id)' /\ Alive(c, id) => FALSE
    BY <2>6 DEF Alive
  <2>9. QED
    BY <1>4, <1>5, <2>6, <2>7, <2>8, Steady
<1>10. CASE op = "AINV" /\ todo' = <<>> /\ y \in Epas /\ todo = <<Request(op, b, y)>>
              /\ Todo = {Request(op, b, y)}
  <2>1. Todo' = {}
    BY <1>10, SetOfEmpty DEF Todo
  <2>2. ASSUME NEW c \in Caches, NEW id \in Ids PROVE Doomed(c, id)' <=> Doomed(c, id)
    <3>1. \A e : Request("AINV", c, e) = Request(op, b, y) <=> c = b /\ e = y
      <4>1. \A e : Request("AINV", c, e) = Request(op, b, y) => c = b /\ e = y
        BY KindsApart
      <4>2. \A e : c = b /\ e = y => Request("AINV", c, e) = Request(op, b, y)
        BY <1>10
      <4>3. QED
        BY <4>1, <4>2
    <3>2. \A e : todo = <<Request("AINV", c, e)>> <=> c = b /\ e = y
      BY <3>1, <1>10
    <3>3. Request("TAGST", c, id) \notin Todo
      BY <1>10, KindsApart
    <3>4. Doomed(c, id) <=> DropSent(c, id) \/ (c = b /\ cached[c][id] = LineOf(y))
      BY <3>2, <3>3, <1>10 DEF Doomed
    <3>5. Doomed(c, id)' <=> DropSent(c, id)'
      <4>1. \A e : todo' # <<Request("AINV", c, e)>>
        BY <1>10
      <4>2. QED
        BY <4>1, <2>1 DEF Doomed
    <3>6. QED
      BY <3>4, <3>5, <1>6, <1>7, <1>10
  <2>3. \A c \in Caches, id \in Ids : ~MustFlush(c, id)'
    BY <2>1 DEF MustFlush
  <2>4. \A c \in Caches, id \in Ids : Doomed(c, id)' /\ Alive(c, id) => FALSE
    BY <2>2 DEF Alive
  <2>5. QED
    BY <1>4, <1>5, <2>2, <2>3, <2>4, Steady
<1>11. QED
  BY <1>a, <1>3, <1>8, <1>9, <1>10 DEF IssuedAs

\* Issuing a store: the word is on its way.
LEMMA IssueStore ==
  ASSUME NetType, NetInv, TodoInv, TypeOK, FlushInv, DramInv, CacheInv,
         IssueRequest, Head(todo).op = "store"
  PROVE  FlushInv' /\ DramInv' /\ CacheInv'
<1>1. PICK op, y : \E b \in Caches, x \in Requests : IssuedAs(op, b, y, x)
  BY IssueMoves
<1>2. PICK b \in Caches, x \in Requests : IssuedAs(op, b, y, x)
  BY <1>1
<1>3. /\ op = "store" /\ x.op = "store" /\ x.arg = y /\ y \in Epas
      /\ Todo = {Request(op, b, y), Fence} /\ Todo' = {Fence} /\ todo' = <<Fence>>
      /\ Sent(b)' = Sent(b) \cup {x} /\ \A d \in Caches : d # b => Sent(d)' = Sent(d)
      /\ Head(todo) = Request(op, b, y)
  <2>1. Head(todo) = Request(op, b, y) /\ x.op = op /\ x.arg = y
    BY <1>2 DEF IssuedAs
  <2>2. op = "store"
    BY <2>1, KindsApart
  <2>3. /\ y \in Epas /\ Todo = {Request(op, b, y), Fence} /\ todo' = <<Fence>>
        /\ Sent(b)' = Sent(b) \cup {x} /\ \A d \in Caches : d # b => Sent(d)' = Sent(d)
    BY <1>2, <2>2 DEF IssuedAs, FlushOps
  <2>4. Todo' = {Fence}
    BY <2>3, SetOfOne DEF Todo
  <2>5. QED
    BY <2>1, <2>2, <2>3, <2>4
<1>4. /\ dram' = dram /\ cached' = cached /\ dirty' = dirty /\ data' = data
      /\ memory' = [memory EXCEPT ![<<b, y>>] = writes + 1]
  BY <1>3, KindsApart DEF IssueRequest, cacheVars
<1>5. \A c \in Caches, e \in Epas : memory'[<<c, e>>] = memory[<<c, e>>] \/ Storeable(c, e)'
  <2>1. SUFFICES ASSUME NEW c \in Caches, NEW e \in Epas
                 PROVE  memory'[<<c, e>>] = memory[<<c, e>>] \/ Storeable(c, e)'
    OBVIOUS
  <2>2. CASE c = b /\ e = y
    BY <2>2, <1>3 DEF Storeable
  <2>3. CASE ~(c = b /\ e = y)
    BY <2>3, <1>4 DEF TypeOK, Words
  <2>4. QED
    BY <2>2, <2>3
<1>6. \A c \in Caches, e \in Epas : Storeable(c, e) => Storeable(c, e)'
  BY <1>3 DEF Storeable
<1>7. \A c \in Caches, id \in Ids : DropSent(c, id)' <=> DropSent(c, id)
  BY <1>3, <1>4 DEF DropSent, LineOf
<1>8. \A c, id : /\ Request("TAGST", c, id) \notin Todo /\ Request("TAGST", c, id) \notin Todo'
                 /\ todo # <<Request("AINV", c, id)>> /\ todo' # <<Request("AINV", c, id)>>
  <2>1. SUFFICES ASSUME NEW c, NEW id
                 PROVE  /\ Request("TAGST", c, id) \notin Todo /\ Request("TAGST", c, id) \notin Todo'
                        /\ todo # <<Request("AINV", c, id)>> /\ todo' # <<Request("AINV", c, id)>>
    OBVIOUS
  <2>2. ToSet(<<Request("AINV", c, id)>>) = {Request("AINV", c, id)}
    BY SetOfOne
  <2>3. Fence # Request("AINV", c, id) /\ Fence # Request("TAGST", c, id)
    BY KindsApart
  <2>4. Request("TAGST", c, id) # Request(op, b, y)
    BY <1>3, KindsApart
  <2>5. Fence \in ToSet(todo) /\ Fence \in ToSet(todo')
    BY <1>3 DEF Todo
  <2>6. QED
    BY <2>2, <2>3, <2>4, <2>5, <1>3
<1>9. \A c \in Caches, id \in Ids : Doomed(c, id)' <=> Doomed(c, id)
  BY <1>7, <1>8 DEF Doomed
<1>10. \A c \in Caches, id \in Ids : Alive(c, id)' <=> Alive(c, id)
  BY <1>4, <1>9 DEF Alive
<1>11. FlushInv'
  <2>1. \A w : DmaRead(w) \notin Todo'
    BY <1>3, KindsApart
  <2>2. \A c \in Caches, id \in Ids : ~MustFlush(c, id)'
    BY <2>1, <1>8 DEF MustFlush
  <2>3. QED
    BY <2>2 DEF FlushInv
<1>12. DramInv'
  <2>1. SUFFICES ASSUME NEW c \in Caches, NEW e \in Epas
                 PROVE  \/ dram'[<<c, e>>] = memory'[<<c, e>>]
                        \/ Storeable(c, e)'
                        \/ \E id \in Ids : Holds(c, id, LineOf(e)) /\ Alive(c, id)' /\ dirty'[c][id]
    BY <1>4 DEF DramInv, LineOf, Holds
  <2>2. \/ dram[<<c, e>>] = memory[<<c, e>>]
        \/ Storeable(c, e)
        \/ \E id \in Ids : Holds(c, id, LineOf(e)) /\ Alive(c, id) /\ dirty[c][id]
    BY DEF DramInv
  <2>3. QED
    BY <2>2, <1>4, <1>5, <1>6, <1>10
<1>13. CacheInv'
  <2>1. SUFFICES ASSUME NEW c \in Caches, NEW id \in Ids, NEW e \in Epas,
                        Alive(c, id)', Holds(c, id, LineOf(e))
                 PROVE  data'[c][id][e % Block] = memory'[<<c, e>>] \/ Storeable(c, e)'
    BY <1>4 DEF CacheInv, LineOf, Holds
  <2>2. data[c][id][e % Block] = memory[<<c, e>>] \/ Storeable(c, e)
    BY <2>1, <1>10 DEF CacheInv
  <2>3. QED
    BY <2>2, <1>4, <1>5, <1>6
<1>14. QED
  BY <1>11, <1>12, <1>13

LEMMA LoadSteady ==
  ASSUME NetType, NetInv, TodoInv, TypeOK, FlushInv, DramInv, CacheInv, IssueLoad
  PROVE  FlushInv' /\ DramInv' /\ CacheInv'
<1>1. PICK b \in Caches, e \in Epas :
        /\ Head(todo) = Load(b, e) /\ net[b] \in Seq(Requests)
        /\ Sent(b)' = Sent(b) \cup {[op |-> "load", arg |-> e, val |-> 0]}
        /\ \A d \in Caches : d # b => Sent(d)' = Sent(d)
  BY LoadNet
<1>2. /\ Staged(todo) /\ Answering' /\ TodoInv'
      /\ Todo = {Load(b, e)} \cup ToSet(Tail(todo)) /\ Todo' = {Answer} \cup ToSet(Tail(todo))
  BY <1>1, LoadNet
<1>3. todo # <<>> /\ dram' = dram /\ cached' = cached /\ dirty' = dirty /\ data' = data /\ memory' = memory
  BY DEF IssueLoad, cacheVars
<1>4. /\ \A c \in Caches, f \in Epas : Storeable(c, f)' <=> Storeable(c, f)
      /\ \A c \in Caches, id \in Ids : DropSent(c, id)' <=> DropSent(c, id)
      /\ \A c \in Caches, id \in Ids : FlushSent(c, id)' <=> FlushSent(c, id)
  <2> DEFINE x == [op |-> "load", arg |-> e, val |-> 0]
  <2>1. x.op = "load" /\ \A c \in Caches : Sent(c)' = IF c = b THEN Sent(c) \cup {x} ELSE Sent(c)
    BY <1>1
  <2> HIDE DEF x
  <2>2. \A c \in Caches, f \in Epas : Storeable(c, f)' <=> Storeable(c, f)
    BY <2>1 DEF Storeable
  <2>3. \A c \in Caches, id \in Ids : DropSent(c, id)' <=> DropSent(c, id)
    BY <2>1, <1>3 DEF DropSent, LineOf
  <2>4. \A c \in Caches, id \in Ids : FlushSent(c, id)' <=> FlushSent(c, id)
    BY <2>1, <1>3 DEF FlushSent, LineOf
  <2>5. QED
    BY <2>2, <2>3, <2>4
<1>5. ~Flushed /\ ~Flushed'
  BY <1>2, KindsApart DEF Flushed
<1>6. \A c, f : todo # <<Request("AINV", c, f)>> /\ todo' # <<Request("AINV", c, f)>>
  <2>1. SUFFICES ASSUME NEW c, NEW f
                 PROVE  todo # <<Request("AINV", c, f)>> /\ todo' # <<Request("AINV", c, f)>>
    OBVIOUS
  <2>2. ToSet(<<Request("AINV", c, f)>>) = {Request("AINV", c, f)}
    BY SetOfOne
  <2>3. Answer # Request("AINV", c, f) /\ Load(b, e) # Request("AINV", c, f)
    BY KindsApart
  <2>4. QED
    BY <2>2, <2>3, <1>2 DEF Todo
<1>7. \A c \in Caches, id \in Ids : Doomed(c, id)' <=> Doomed(c, id)
  BY <1>4, <1>5, <1>6 DEF Doomed
<1>8. \A op, c, z : Request(op, c, z) \in Todo <=> Request(op, c, z) \in Todo'
  BY <1>2, KindsApart
<1>9. \A w : DmaRead(w) \in Todo <=> DmaRead(w) \in Todo'
  BY <1>2, KindsApart
<1>10. \A c \in Caches, id \in Ids : MustFlush(c, id)' => MustFlush(c, id)
  BY <1>3, <1>8, <1>9 DEF MustFlush, LineOf
<1>11. \A c \in Caches, id \in Ids : FlushPending(c, id) => FlushPending(c, id)'
  BY <1>3, <1>4, <1>8 DEF FlushPending, FlushToSend, LineOf
<1>12. \A c \in Caches, id \in Ids : Doomed(c, id)' /\ Alive(c, id) => FALSE
  BY <1>7 DEF Alive
<1>13. QED
  BY <1>3, <1>4, <1>7, <1>10, <1>11, <1>12, Steady

LEMMA FenceSteady ==
  ASSUME NetType, NetInv, TodoInv, TypeOK, FlushInv, DramInv, CacheInv, FenceReturns
  PROVE  NetType' /\ NetInv' /\ FlushInv' /\ DramInv' /\ CacheInv'
<1>1. /\ todo = <<Fence>> /\ todo' = <<>> /\ Drained
  BY Heads DEF FenceReturns
<1>2. /\ dram' = dram /\ cached' = cached /\ dirty' = dirty /\ data' = data
      /\ memory' = memory /\ net' = net
  BY DEF FenceReturns, cacheVars
<1>3. \A c \in Caches : Sent(c) = {}
  BY <1>1, SetOfEmpty DEF Drained, Sent
<1>4. NetType' /\ NetInv' /\ \A c \in Caches : Sent(c)' = Sent(c)
  BY <1>2, <1>3, StillNet
<1>5. Todo = {Fence} /\ Todo' = {}
  BY <1>1, SetOfOne, SetOfEmpty DEF Todo
<1>6. \A c, e : todo # <<Request("AINV", c, e)>> /\ todo' # <<Request("AINV", c, e)>>
  <2>1. SUFFICES ASSUME NEW c, NEW e
                 PROVE  todo # <<Request("AINV", c, e)>> /\ todo' # <<Request("AINV", c, e)>>
    OBVIOUS
  <2>2. Fence # Request("AINV", c, e)
    BY KindsApart
  <2>3. QED
    BY <2>2, <1>1
<1>7. \A c \in Caches, id \in Ids : ~Doomed(c, id) /\ ~Doomed(c, id)'
  <2>1. \A c \in Caches, id \in Ids : ~DropSent(c, id) /\ ~DropSent(c, id)'
    BY <1>3, <1>4 DEF DropSent
  <2>2. \A c, id : Request("TAGST", c, id) \notin Todo /\ Request("TAGST", c, id) \notin Todo'
    BY <1>5, KindsApart
  <2>3. QED
    BY <2>1, <2>2, <1>6 DEF Doomed
<1>8. \A c \in Caches, id \in Ids : ~MustFlush(c, id)'
  BY <1>5 DEF MustFlush
<1>9. \A c \in Caches, e \in Epas : Storeable(c, e)' <=> Storeable(c, e)
  BY <1>4 DEF Storeable
<1>10. FlushInv' /\ DramInv' /\ CacheInv'
  BY <1>2, <1>7, <1>8, <1>9, Steady
<1>11. QED
  BY <1>4, <1>10

\* When the host comes to a DMA transfer, only drops are on their way.
LEMMA QuietDma ==
  ASSUME NetType, NetInv, TodoInv, todo # <<>>, Head(todo).kind \in {"dma_read", "dma_write"}
  PROVE  /\ \A c \in Caches : \A q \in Sent(c) : q.op \in DropOps
         /\ \A c \in Caches, e \in Epas : ~Storeable(c, e)
<1>1. ~Answering /\ todo # <<Fence>>
  BY KindsApart DEF Answering
<1>2. \A c \in Caches, e \in Epas : Load(c, e) \notin Todo
  <2>1. CASE Staged(todo)
    <3>1. Rank(Head(todo)) = 3
      BY <2>1, StagedHead, ItemType
    <3>2. QED
      BY <2>1, <3>1, StagedHead
  <2>2. CASE Replacing(todo)
    <3>1. PICK x, y : Todo \subseteq {x, y} /\ x.kind # "load" /\ y.kind # "load"
      BY <2>2, ReplacingIs, KindsApart DEF Todo
    <3>2. QED
      BY <3>1, KindsApart
  <2>3. CASE Storing(todo)
    <3>1. Head(todo).kind \in {"fence", "request"}
      BY <2>3, StoringIs, KindsApart
    <3>2. QED
      BY <3>1
  <2>4. QED
    BY <2>1, <2>2, <2>3 DEF TodoInv
<1>3. \A c \in Caches : \A q \in Sent(c) : q.op \in DropOps
  BY <1>1, <1>2, NoAccess
<1>4. QED
  BY <1>3 DEF Storeable, DropOps

\* A DMA read finds the last value written: a line that holds the word and is
\* dirty would still be waiting to be flushed.
LEMMA TransferInFresh ==
  ASSUME NetType, NetInv, TodoInv, TypeOK, FlushInv, DramInv, CacheInv, TransferIn
  PROVE  /\ NetType' /\ NetInv' /\ FlushInv' /\ DramInv' /\ CacheInv'
         /\ got' \in Vals \X Vals /\ ReadsFresh'
<1>1. /\ todo # <<>> /\ Head(todo).kind = "dma_read" /\ todo' = Tail(todo)
      /\ got' = <<dram[Head(todo).word], memory[Head(todo).word]>>
      /\ dram' = dram /\ cached' = cached /\ dirty' = dirty /\ data' = data
      /\ memory' = memory /\ net' = net
  BY DEF TransferIn, cacheVars
<1>2. PICK w \in Words : Head(todo) = DmaRead(w)
  BY <1>1, Heads
<1>3. Staged(todo) /\ Rank(Head(todo)) = 3 /\ DmaRead(w) \in Todo /\ Todo \subseteq Items
  BY <1>1, <1>2, Heads, StagedHead, ItemType
<1>4. /\ Flushed /\ \A x \in Todo : x.kind = "request" => x.op \notin FlushOps
      /\ \A c, e : Request("AINV", c, e) \notin Todo
  BY <1>1, <1>3, StagedHead
<1>5. /\ \A c \in Caches : \A q \in Sent(c) : q.op \in DropOps
      /\ \A c \in Caches, e \in Epas : ~Storeable(c, e)
  BY <1>1, QuietDma
<1>6. NetType' /\ NetInv' /\ \A c \in Caches : Sent(c)' = Sent(c)
  BY <1>1, <1>5, StillNet
<1>7. Todo = {DmaRead(w)} \cup Todo'
  BY <1>1, <1>2, <1>3, SetOfTail DEF Staged, Todo
<1>8. \A c, id : Request("TAGST", c, id) \notin Todo
  BY <1>3, KindsApart DEF Staged, Todo
<1>9. \A c, e : todo # <<Request("AINV", c, e)>> /\ todo' # <<Request("AINV", c, e)>>
  <2>1. SUFFICES ASSUME NEW c, NEW e
                 PROVE  todo # <<Request("AINV", c, e)>> /\ todo' # <<Request("AINV", c, e)>>
    OBVIOUS
  <2>2. ToSet(<<Request("AINV", c, e)>>) = {Request("AINV", c, e)}
    BY SetOfOne
  <2>3. QED
    BY <2>2, <1>4, <1>7 DEF Todo
<1>10. \A c \in Caches, id \in Ids : DropSent(c, id)' <=> DropSent(c, id)
  BY <1>1, <1>6 DEF DropSent, LineOf
<1>11. \A c \in Caches, id \in Ids : Doomed(c, id)' <=> Doomed(c, id)
  BY <1>7, <1>8, <1>9, <1>10 DEF Doomed
<1>12. \A c \in Caches, id \in Ids : ~FlushPending(c, id)
  <2>1. \A c \in Caches, id \in Ids : ~FlushSent(c, id)
    BY <1>5 DEF FlushSent, DropOps
  <2>2. \A c \in Caches, id \in Ids : ~FlushToSend(c, id)
    BY <1>4, KindsApart DEF FlushToSend, FlushOps
  <2>3. QED
    BY <2>1, <2>2 DEF FlushPending
<1>13. \A c \in Caches, id \in Ids : MustFlush(c, id)' => MustFlush(c, id)
  BY <1>1, <1>7 DEF MustFlush, LineOf
<1>14. \A c \in Caches, e \in Epas : Storeable(c, e)' <=> Storeable(c, e)
  BY <1>6 DEF Storeable
<1>15. FlushInv' /\ DramInv' /\ CacheInv'
  <2>1. \A c \in Caches, id \in Ids : Doomed(c, id)' /\ Alive(c, id) => FALSE
    BY <1>11 DEF Alive
  <2>2. QED
    BY <2>1, <1>1, <1>11, <1>12, <1>13, <1>14, Steady
<1>16. dram[w] = memory[w]
  <2>1. PICK c \in Caches, e \in Epas : w = <<c, e>>
    BY DEF Words
  <2>2. ASSUME NEW id \in Ids, Holds(c, id, LineOf(e)), Alive(c, id), dirty[c][id] PROVE FALSE
    <3>1. MustFlush(c, id)
      BY <2>1, <2>2, <1>3 DEF MustFlush, Holds
    <3>2. FlushPending(c, id)
      BY <3>1, <2>2 DEF FlushInv
    <3>3. QED
      BY <3>2, <1>12
  <2>3. dram[<<c, e>>] = memory[<<c, e>>]
    BY <2>2, <1>5 DEF DramInv
  <2>4. QED
    BY <2>1, <2>3
<1>17. got' = <<dram[w], memory[w]>>
  BY <1>1, <1>2, KindsApart
<1>18. got' \in Vals \X Vals /\ ReadsFresh'
  BY <1>16, <1>17 DEF TypeOK, ReadsFresh
<1>19. QED
  BY <1>6, <1>15, <1>18

\* A DMA write changes words of lines that the call drops afterwards.
LEMMA TransferOutSteady ==
  ASSUME NetType, NetInv, TodoInv, TypeOK, FlushInv, DramInv, CacheInv, TransferOut
  PROVE  /\ NetType' /\ NetInv' /\ FlushInv' /\ DramInv' /\ CacheInv'
         /\ writes' \in Vals /\ dram' \in [Words -> Vals] /\ memory' \in [Words -> Vals]
<1>1. /\ todo # <<>> /\ Head(todo).kind = "dma_write" /\ todo' = Tail(todo) /\ writes' = writes + 1
      /\ cached' = cached /\ dirty' = dirty /\ data' = data /\ net' = net
      /\ dram' = [w \in Words |-> IF w \in Head(todo).words THEN writes + 1 ELSE dram[w]]
      /\ memory' = [w \in Words |-> IF w \in Head(todo).words THEN writes + 1 ELSE memory[w]]
  BY DEF TransferOut, cacheVars
<1>2. writes' \in Vals
  <2>1. IsWrite(Head(todo))
    BY <1>1 DEF IsWrite
  <2>2. writes + 1 <= MaxWrites
    BY <2>1, <1>1, TodoNext
  <2>3. QED
    BY <2>2, <1>1 DEF TypeOK, Vals
<1>3. dram' \in [Words -> Vals] /\ memory' \in [Words -> Vals]
  BY <1>1, <1>2 DEF TypeOK
<1>4. /\ \A c \in Caches : \A q \in Sent(c) : q.op \in DropOps
      /\ \A c \in Caches, e \in Epas : ~Storeable(c, e)
  BY <1>1, QuietDma
<1>5. NetType' /\ NetInv' /\ \A c \in Caches : Sent(c)' = Sent(c)
  BY <1>1, <1>4, StillNet
<1>6. \A c \in Caches, e \in Epas : ~Storeable(c, e)'
  BY <1>4, <1>5 DEF Storeable
<1>7. \A w \in Words : dram[w] = memory[w] => dram'[w] = memory'[w]
  BY <1>1
<1>8. \A c \in Caches, id \in Ids : DropSent(c, id)' <=> DropSent(c, id)
  BY <1>1, <1>5 DEF DropSent, LineOf
<1>9. CASE Staged(todo)
  <2>1. Rank(Head(todo)) = 3
    BY <1>1, <1>9, StagedHead, ItemType
  <2>2. Flushed /\ Head(todo) \in Todo
    BY <1>1, <1>9, <2>1, StagedHead
  <2>3. Todo = {Head(todo)} \cup Todo'
    BY <1>1, <1>9, SetOfTail DEF Staged, Todo
  <2>4. Flushed'
    BY <2>2, <2>3 DEF Flushed
  <2>5. \A c \in Caches, id \in Ids : Request("TAGST", c, id) \in Todo
    BY <1>1, <1>9, <2>2 DEF Staged, Todo
  <2>6. \A c \in Caches, id \in Ids : Request("TAGST", c, id) \in Todo'
    BY <2>3, <2>5, <1>1, KindsApart
  <2>7. \A c \in Caches, id \in Ids : Doomed(c, id) /\ Doomed(c, id)'
    BY <2>2, <2>4, <2>5, <2>6 DEF Doomed
  <2>8. \A c \in Caches, id \in Ids : ~Alive(c, id) /\ ~Alive(c, id)'
    BY <2>7 DEF Alive
  <2>9. \A c \in Caches, e \in Epas : dram[<<c, e>>] = memory[<<c, e>>]
    BY <2>8, <1>4 DEF DramInv
  <2>10. DramInv'
    BY <2>9, <1>7 DEF DramInv, Words
  <2>11. FlushInv' /\ CacheInv'
    BY <2>8 DEF FlushInv, CacheInv
  <2>12. QED
    BY <1>2, <1>3, <1>5, <2>10, <2>11
<1>10. CASE ~Staged(todo)
  <2>1. PICK b \in Caches, l \in 0 .. Lines - 1 :
          /\ Head(todo) = DmaWrite(Span(b, First(l), Block))
          /\ Tail(todo) = <<Request("AINV", b, First(l))>>
          /\ todo = <<DmaWrite(Span(b, First(l), Block)), Request("AINV", b, First(l))>>
          /\ Todo = {DmaWrite(Span(b, First(l), Block)), Request("AINV", b, First(l))}
    BY <1>1, <1>10, Heads
  <2>2. \A c \in Caches, e \in Epas : <<c, e>> \in Head(todo).words <=> c = b /\ LineOf(e) = l
    BY <2>1, InLine, KindsApart
  <2>3. Todo' = {Request("AINV", b, First(l))}
    BY <2>1, <1>1, SetOfOne DEF Todo
  <2>4. \A c, id : Request("TAGST", c, id) \notin Todo /\ Request("TAGST", c, id) \notin Todo'
    BY <2>1, <2>3, KindsApart
  <2>5. \A c, e : todo # <<Request("AINV", c, e)>>
    BY <2>1
  <2>6. \A c, e : todo' = <<Request("AINV", c, e)>> <=> c = b /\ e = First(l)
    <3>1. SUFFICES ASSUME NEW c, NEW e PROVE todo' = <<Request("AINV", c, e)>> <=> c = b /\ e = First(l)
      OBVIOUS
    <3>2. todo' = <<Request("AINV", b, First(l))>>
      BY <1>1, <2>1
    <3>3. Request("AINV", c, e) = Request("AINV", b, First(l)) => c = b /\ e = First(l)
      BY KindsApart
    <3>4. QED
      BY <3>2, <3>3
  <2>7. First(l) \in Epas /\ LineOf(First(l)) = l
    BY FirstOf
  <2>8. ASSUME NEW c \in Caches, NEW id \in Ids
        PROVE  /\ Doomed(c, id) <=> DropSent(c, id)
               /\ Doomed(c, id)' <=> Doomed(c, id) \/ (c = b /\ cached[c][id] = l)
    <3>1. Doomed(c, id) <=> DropSent(c, id)
      BY <2>4, <2>5 DEF Doomed
    <3>2. Doomed(c, id)' <=> \/ DropSent(c, id)'
                             \/ \E e \in Epas : todo' = <<Request("AINV", c, e)>> /\ cached'[c][id] = LineOf(e)
      BY <2>4 DEF Doomed, LineOf
    <3>3. (\E e \in Epas : todo' = <<Request("AINV", c, e)>> /\ cached'[c][id] = LineOf(e))
            <=> c = b /\ cached[c][id] = l
      BY <1>1, <2>6, <2>7
    <3>4. QED
      BY <3>1, <3>2, <3>3, <1>8
  <2>9. \A c \in Caches, id \in Ids :
          Alive(c, id)' <=> Alive(c, id) /\ ~(c = b /\ cached[c][id] = l)
    BY <1>1, <2>8 DEF Alive
  <2>10. FlushInv'
    <3>1. \A c \in Caches, id \in Ids : ~MustFlush(c, id)'
      BY <2>3, <2>4, KindsApart DEF MustFlush
    <3>2. QED
      BY <3>1 DEF FlushInv
  <2>11. DramInv'
    <3>1. SUFFICES ASSUME NEW c \in Caches, NEW e \in Epas
                   PROVE  \/ dram'[<<c, e>>] = memory'[<<c, e>>]
                          \/ \E id \in Ids : Holds(c, id, LineOf(e)) /\ Alive(c, id)' /\ dirty'[c][id]
      BY <1>1 DEF DramInv, LineOf, Holds
    <3>2. <<c, e>> \in Words
      BY DEF Words
    <3>3. CASE c = b /\ LineOf(e) = l
      BY <3>2, <3>3, <2>2, <1>1
    <3>4. CASE ~(c = b /\ LineOf(e) = l)
      <4>1. \/ dram[<<c, e>>] = memory[<<c, e>>]
            \/ \E id \in Ids : Holds(c, id, LineOf(e)) /\ Alive(c, id) /\ dirty[c][id]
        BY <1>4 DEF DramInv
      <4>2. QED
        BY <4>1, <3>2, <3>4, <1>1, <1>7, <2>9 DEF Holds
    <3>5. QED
      BY <3>3, <3>4
  <2>12. CacheInv'
    <3>1. SUFFICES ASSUME NEW c \in Caches, NEW id \in Ids, NEW e \in Epas,
                          Alive(c, id)', Holds(c, id, LineOf(e))
                   PROVE  data'[c][id][e % Block] = memory'[<<c, e>>]
      BY <1>1 DEF CacheInv, LineOf, Holds
    <3>2. Alive(c, id) /\ ~(c = b /\ LineOf(e) = l)
      BY <3>1, <2>9 DEF Holds
    <3>3. data[c][id][e % Block] = memory[<<c, e>>]
      BY <3>1, <3>2, <1>4 DEF CacheInv
    <3>4. <<c, e>> \in Words /\ <<c, e>> \notin Head(todo).words
      BY <3>2, <2>2 DEF Words
    <3>5. QED
      BY <3>3, <3>4, <1>1
  <2>13. QED
    BY <1>2, <1>3, <1>5, <2>10, <2>11, <2>12
<1>11. QED
  BY <1>9, <1>10

------------------------------------------------------------------------------
(* Steps of the caches.                                                     *)

\* The types of the memories, without that of the last value read.
LEMMA MemoryTypes ==
  ASSUME TypeOK, NEW c \in Caches, NEW id \in Ids
  PROVE  /\ cached \in [Caches -> [Ids -> -1 .. Lines - 1]] /\ cached[c] \in [Ids -> -1 .. Lines - 1]
         /\ dirty \in [Caches -> [Ids -> BOOLEAN]] /\ dirty[c] \in [Ids -> BOOLEAN]
         /\ data \in [Caches -> [Ids -> [0 .. Block - 1 -> Vals]]]
         /\ data[c] \in [Ids -> [0 .. Block - 1 -> Vals]]
         /\ data[c][id] \in [0 .. Block - 1 -> Vals]
         /\ cached[c][id] \in -1 .. Lines - 1
         /\ \A j \in Ids : cached[c][id] # -1 /\ cached[c][id] = cached[c][j] => id = j
  BY DEF TypeOK

\* A line is in one way of a cache.
LEMMA OneHolder ==
  ASSUME TypeOK, NEW c \in Caches, NEW i \in Ids, NEW j \in Ids, NEW e \in Epas,
         cached[c][i] = LineOf(e), cached[c][j] = LineOf(e)
  PROVE  i = j
<1>1. LineOf(e) # -1
  BY WordOf, SizesAssumption
<1>2. QED
  BY <1>1, MemoryTypes

\* What writing a line back does to the DRAM.
LEMMA WroteBack ==
  ASSUME TypeOK, NEW c \in Caches, NEW id \in Ids
  PROVE  /\ WrittenBack(c, id) \in [Words -> Vals]
         /\ \A d \in Caches, e \in Epas :
              WrittenBack(c, id)[<<d, e>>] =
                IF d = c /\ Holds(c, id, LineOf(e)) /\ dirty[c][id] THEN data[c][id][e % Block]
                                                                   ELSE dram[<<d, e>>]
<1>1. CASE cached[c][id] # -1 /\ dirty[c][id]
  <2>1. cached[c][id] \in 0 .. Lines - 1
    <3>1. cached[c][id] \in -1 .. Lines - 1 /\ Lines \in Nat
      BY MemoryTypes, SizesAssumption
    <3>2. QED
      BY <3>1, <1>1
  <2>2. \A d \in Caches, e \in Epas :
           <<d, e>> \in LineWords(c, cached[c][id]) <=> d = c /\ Holds(c, id, LineOf(e))
    BY <2>1, InLine DEF Holds
  <2>3. WrittenBack(c, id) = [w \in Words |-> IF w \in LineWords(c, cached[c][id])
                                                THEN data[c][id][w[2] % Block] ELSE dram[w]]
    BY <1>1 DEF WrittenBack
  <2>4. \A w \in Words : w[2] % Block \in 0 .. Block - 1 /\ data[c][id][w[2] % Block] \in Vals
    <3>1. SUFFICES ASSUME NEW w \in Words
                   PROVE  w[2] % Block \in 0 .. Block - 1 /\ data[c][id][w[2] % Block] \in Vals
      OBVIOUS
    <3>2. w[2] \in Epas
      BY DEF Words
    <3>3. w[2] % Block \in 0 .. Block - 1
      BY <3>2, WordOf
    <3>4. QED
      BY <3>3, MemoryTypes
  <2>5. WrittenBack(c, id) \in [Words -> Vals]
    BY <2>3, <2>4 DEF TypeOK
  <2>6. ASSUME NEW d \in Caches, NEW e \in Epas
        PROVE  WrittenBack(c, id)[<<d, e>>] =
                 IF d = c /\ Holds(c, id, LineOf(e)) /\ dirty[c][id] THEN data[c][id][e % Block]
                                                                    ELSE dram[<<d, e>>]
    <3>1. <<d, e>> \in Words /\ <<d, e>>[2] = e
      BY DEF Words
    <3>2. QED
      BY <3>1, <2>2, <2>3, <1>1
  <2>7. QED
    BY <2>5, <2>6
<1>2. CASE ~(cached[c][id] # -1 /\ dirty[c][id])
  <2>1. WrittenBack(c, id) = dram
    BY <1>2 DEF WrittenBack
  <2>2. \A e \in Epas : ~(Holds(c, id, LineOf(e)) /\ dirty[c][id])
    <3>1. \A e \in Epas : LineOf(e) # -1
      BY WordOf, SizesAssumption
    <3>2. QED
      BY <3>1, <1>2 DEF Holds
  <2>3. QED
    BY <2>1, <2>2 DEF TypeOK
<1>3. QED
  BY <1>1, <1>2

\* A flush is never in a queue with a store on its way.
LEMMA FlushNoStore ==
  ASSUME NetType, NetInv, TodoInv, NEW b \in Caches, NEW h \in Sent(b), h.op \in FlushOps,
         NEW c \in Caches, NEW e \in Epas
  PROVE  ~Storeable(c, e)
<1>1. SUFFICES ASSUME todo = <<Fence>> PROVE FALSE
  BY DEF Storeable, NetInv, StoresFenced
<1>2. Todo = {Fence} /\ ~Answering
  <2>1. Todo = {Fence}
    BY <1>1, SetOfOne DEF Todo
  <2>2. Head(todo) = Fence
    BY <1>1
  <2>3. QED
    BY <2>1, <2>2, KindsApart DEF Answering
<1>3. QED
  BY <1>2, KindsApart DEF NetInv, FlushesAwaited, LoadsAwaited

LEMMA ServeFlushSteady ==
  ASSUME NetType, NetInv, TodoInv, TypeOK, FlushInv, DramInv, CacheInv, NEW b \in Caches,
         net[b] # <<>>, net' = [net EXCEPT ![b] = Tail(@)], writes' = writes, memory' = memory,
         NEW id \in Ids, ServeFlush(b, Head(net[b]), id)
  PROVE  NetType' /\ NetInv' /\ FlushInv' /\ DramInv' /\ CacheInv' /\ TypeOK'
<1> DEFINE h == Head(net[b])
<1>1. /\ \/ h.op = "AFL" /\ Holds(b, id, LineOf(h.arg))
         \/ h.op = "TAGFL" /\ h.arg = id
      /\ dram' = WrittenBack(b, id) /\ dirty' = [dirty EXCEPT ![b][id] = FALSE]
      /\ cached' = cached /\ data' = data /\ todo' = todo /\ got' = got
  BY DEF ServeFlush
<1>2. NetType' /\ NetInv'
  BY <1>1, ServeNet
<1>3. /\ Sent(b) = {h} \cup Sent(b)' /\ h \in Requests
      /\ \A d \in Caches : d # b => Sent(d)' = Sent(d)
  BY Served DEF NetInv
<1>4. \A j \in Ids : ~Doomed(b, j)
  BY <1>1, AllAlive DEF DropOps
<1> HIDE DEF h
<1>5. PICK k \in Requests : k = h
  BY <1>3
<1>6. /\ k.op \in FlushOps /\ k \in Sent(b) /\ (k.op = "AFL" => k.arg \in Epas)
      /\ Sent(b) = {k} \cup Sent(b)'
      /\ \/ k.op = "AFL" /\ Holds(b, id, LineOf(k.arg))
         \/ k.op = "TAGFL" /\ k.arg = id
  BY <1>1, <1>3, <1>5, RequestType DEF FlushOps
<1>7. \A c \in Caches, e \in Epas : ~Storeable(c, e) /\ ~Storeable(c, e)'
  <2>1. \A c \in Caches, e \in Epas : ~Storeable(c, e)
    BY <1>6, FlushNoStore
  <2>2. QED
    BY <2>1, <1>3 DEF Storeable
<1>8. Todo' = Todo /\ (Flushed' <=> Flushed)
  BY <1>1 DEF Todo, Flushed
<1>9. \A c \in Caches, j \in Ids : Doomed(c, j)' <=> Doomed(c, j)
  <2>1. SUFFICES ASSUME NEW c \in Caches, NEW j \in Ids PROVE Doomed(c, j)' <=> Doomed(c, j)
    OBVIOUS
  <2>2. DropSent(c, j)' <=> DropSent(c, j)
    <3>1. CASE c = b
      BY <3>1, <1>1, <1>3, <1>4 DEF Doomed, DropSent, LineOf
    <3>2. CASE c # b
      BY <3>2, <1>1, <1>3 DEF DropSent, LineOf
    <3>3. QED
      BY <3>1, <3>2
  <2>3. QED
    BY <2>2, <1>1, <1>8 DEF Doomed, LineOf
<1>10. \A c \in Caches, j \in Ids : Alive(c, j)' <=> Alive(c, j)
  BY <1>1, <1>9 DEF Alive
<1>11. \A c \in Caches, j \in Ids : dirty'[c][j] <=> dirty[c][j] /\ ~(c = b /\ j = id)
  BY <1>1 DEF TypeOK
<1>12. FlushInv'
  <2>1. SUFFICES ASSUME NEW c \in Caches, NEW j \in Ids,
                        Alive(c, j)', dirty'[c][j], MustFlush(c, j)'
                 PROVE  FlushPending(c, j)'
    BY DEF FlushInv
  <2>2. ~(c = b /\ j = id) /\ dirty[c][j] /\ Alive(c, j)
    BY <2>1, <1>10, <1>11
  <2>3. MustFlush(c, j)
    BY <2>1, <1>1, <1>8 DEF MustFlush, LineOf
  <2>4. FlushPending(c, j)
    BY <2>2, <2>3 DEF FlushInv
  <2>5. FlushToSend(c, j) => FlushToSend(c, j)'
    BY <1>1, <1>8 DEF FlushToSend, LineOf
  <2>6. FlushSent(c, j) => FlushSent(c, j)'
    <3>1. CASE c # b
      BY <3>1, <1>1, <1>3 DEF FlushSent, LineOf
    <3>2. CASE c = b
      <4>1. ~(k.op = "TAGFL" /\ k.arg = j)
        BY <3>2, <2>2, <1>6
      <4>2. ~(k.op = "AFL" /\ cached[b][j] = LineOf(k.arg))
        BY <3>2, <2>2, <1>6, OneHolder DEF Holds
      <4>3. QED
        BY <3>2, <4>1, <4>2, <1>1, <1>6 DEF FlushSent, LineOf
    <3>3. QED
      BY <3>1, <3>2
  <2>7. QED
    BY <2>4, <2>5, <2>6 DEF FlushPending
<1>13. DramInv'
  <2>1. SUFFICES ASSUME NEW c \in Caches, NEW e \in Epas
                 PROVE  \/ dram'[<<c, e>>] = memory[<<c, e>>]
                        \/ \E j \in Ids : Holds(c, j, LineOf(e)) /\ Alive(c, j)' /\ dirty'[c][j]
    BY <1>1 DEF DramInv, LineOf, Holds
  <2>2. CASE c = b /\ Holds(b, id, LineOf(e)) /\ dirty[b][id]
    <3>1. dram'[<<c, e>>] = data[b][id][e % Block]
      BY <2>2, <1>1, WroteBack
    <3>2. cached[b][id] # -1
      BY <2>2, WordOf, SizesAssumption DEF Holds
    <3>3. Alive(b, id)
      BY <3>2, <1>4 DEF Alive
    <3>4. QED
      BY <3>1, <3>3, <2>2, <1>7 DEF CacheInv
  <2>3. CASE ~(c = b /\ Holds(b, id, LineOf(e)) /\ dirty[b][id])
    <3>1. dram'[<<c, e>>] = dram[<<c, e>>]
      BY <2>3, <1>1, WroteBack
    <3>2. \/ dram[<<c, e>>] = memory[<<c, e>>]
          \/ \E j \in Ids : Holds(c, j, LineOf(e)) /\ Alive(c, j) /\ dirty[c][j]
      BY <1>7 DEF DramInv
    <3>3. ASSUME NEW j \in Ids, Holds(c, j, LineOf(e)), Alive(c, j), dirty[c][j]
          PROVE  dirty'[c][j] /\ Alive(c, j)'
      BY <3>3, <2>3, <1>10, <1>11
    <3>4. QED
      BY <3>1, <3>2, <3>3
  <2>4. QED
    BY <2>2, <2>3
<1>14. CacheInv'
  <2>1. SUFFICES ASSUME NEW c \in Caches, NEW j \in Ids, NEW e \in Epas,
                        Alive(c, j)', Holds(c, j, LineOf(e))
                 PROVE  data'[c][j][e % Block] = memory'[<<c, e>>]
    BY <1>1 DEF CacheInv, LineOf, Holds
  <2>2. QED
    BY <2>1, <1>1, <1>7, <1>10 DEF CacheInv
<1>15. TypeOK'
  <2>1. dram' \in [Words -> Vals]
    BY <1>1, WroteBack
  <2>2. dirty' \in [Caches -> [Ids -> BOOLEAN]]
    BY <1>1 DEF TypeOK
  <2>3. QED
    BY <2>1, <2>2, <1>1 DEF TypeOK
<1>16. QED
  BY <1>2, <1>12, <1>13, <1>14, <1>15

LEMMA ServeDropSteady ==
  ASSUME NetType, NetInv, TodoInv, TypeOK, FlushInv, DramInv, CacheInv, NEW b \in Caches,
         net[b] # <<>>, net' = [net EXCEPT ![b] = Tail(@)], writes' = writes, memory' = memory,
         NEW id \in Ids, ServeDrop(b, Head(net[b]), id)
  PROVE  NetType' /\ NetInv' /\ FlushInv' /\ DramInv' /\ CacheInv' /\ TypeOK'
<1> DEFINE h == Head(net[b])
<1>1. /\ \/ h.op = "AINV" /\ Holds(b, id, LineOf(h.arg))
         \/ h.op = "TAGST" /\ h.arg = id
      /\ cached' = [cached EXCEPT ![b][id] = -1]
      /\ dirty' = [dirty EXCEPT ![b][id] = FALSE]
      /\ data' = [data EXCEPT ![b][id] = [o \in 0 .. Block - 1 |-> 0]]
      /\ dram' = dram /\ todo' = todo /\ got' = got
  BY DEF ServeDrop, Drop
<1>2. NetType' /\ NetInv'
  BY <1>1, ServeNet
<1>3. /\ Sent(b) = {h} \cup Sent(b)' /\ h \in Requests
      /\ \A d \in Caches : d # b => Sent(d)' = Sent(d)
  BY Served DEF NetInv
<1> HIDE DEF h
<1>4. PICK k \in Requests : k = h
  BY <1>3
<1>5. /\ k.op \in DropOps /\ k \in Sent(b) /\ (k.op = "AINV" => k.arg \in Epas)
      /\ Sent(b) = {k} \cup Sent(b)'
      /\ \/ k.op = "AINV" /\ Holds(b, id, LineOf(k.arg))
         \/ k.op = "TAGST" /\ k.arg = id
  BY <1>1, <1>3, <1>4, RequestType DEF DropOps
<1>6. ~Alive(b, id)
  BY <1>5 DEF Alive, Doomed, DropSent, Holds
<1>7. /\ \A c \in Caches, j \in Ids : ~(c = b /\ j = id) =>
           cached'[c][j] = cached[c][j] /\ dirty'[c][j] = dirty[c][j] /\ data'[c][j] = data[c][j]
      /\ cached'[b][id] = -1
  BY <1>1 DEF TypeOK
<1>8. ~Alive(b, id)'
  BY <1>7 DEF Alive
<1>9. \A c \in Caches, e \in Epas : Storeable(c, e)' <=> Storeable(c, e)
  BY <1>3, <1>5 DEF Storeable, DropOps
<1>10. Todo' = Todo /\ (Flushed' <=> Flushed)
  BY <1>1 DEF Todo, Flushed
<1>11. ASSUME NEW c \in Caches, NEW j \in Ids, ~(c = b /\ j = id)
       PROVE  Alive(c, j)' <=> Alive(c, j)
  <2>1. DropSent(c, j)' <=> DropSent(c, j)
    <3>1. CASE c # b
      BY <3>1, <1>3, <1>7, <1>11 DEF DropSent, LineOf
    <3>2. CASE c = b
      <4>1. ~(k.op = "TAGST" /\ k.arg = j)
        BY <3>2, <1>5, <1>11
      <4>2. ~(k.op = "AINV" /\ cached[b][j] = LineOf(k.arg))
        BY <3>2, <1>5, <1>11, OneHolder DEF Holds
      <4>3. cached'[b][j] = cached[b][j]
        BY <3>2, <1>7, <1>11
      <4>4. QED
        BY <3>2, <4>1, <4>2, <4>3, <1>5 DEF DropSent, LineOf
    <3>3. QED
      BY <3>1, <3>2
  <2>2. QED
    BY <2>1, <1>1, <1>7, <1>10, <1>11 DEF Alive, Doomed, LineOf
<1>12. FlushInv'
  <2>1. SUFFICES ASSUME NEW c \in Caches, NEW j \in Ids,
                        Alive(c, j)', dirty'[c][j], MustFlush(c, j)'
                 PROVE  FlushPending(c, j)'
    BY DEF FlushInv
  <2>2. ~(c = b /\ j = id)
    BY <2>1, <1>8
  <2>3. Alive(c, j) /\ dirty[c][j] /\ cached'[c][j] = cached[c][j]
    BY <2>1, <2>2, <1>7, <1>11
  <2>4. MustFlush(c, j)
    BY <2>1, <2>3, <1>10 DEF MustFlush, LineOf
  <2>5. FlushPending(c, j)
    BY <2>3, <2>4 DEF FlushInv
  <2>6. FlushSent(c, j) => FlushSent(c, j)'
    BY <2>3, <1>3, <1>5 DEF FlushSent, LineOf, DropOps
  <2>7. FlushToSend(c, j) => FlushToSend(c, j)'
    BY <2>3, <1>10 DEF FlushToSend, LineOf
  <2>8. QED
    BY <2>5, <2>6, <2>7 DEF FlushPending
<1>13. DramInv'
  <2>1. SUFFICES ASSUME NEW c \in Caches, NEW e \in Epas
                 PROVE  \/ dram[<<c, e>>] = memory[<<c, e>>]
                        \/ Storeable(c, e)'
                        \/ \E j \in Ids : Holds(c, j, LineOf(e))' /\ Alive(c, j)' /\ dirty'[c][j]
    BY <1>1 DEF DramInv, LineOf
  <2>2. \/ dram[<<c, e>>] = memory[<<c, e>>]
        \/ Storeable(c, e)
        \/ \E j \in Ids : Holds(c, j, LineOf(e)) /\ Alive(c, j) /\ dirty[c][j]
    BY DEF DramInv
  <2>3. ASSUME NEW j \in Ids, Holds(c, j, LineOf(e)), Alive(c, j), dirty[c][j]
        PROVE  Holds(c, j, LineOf(e))' /\ Alive(c, j)' /\ dirty'[c][j]
    <3>1. ~(c = b /\ j = id)
      BY <2>3, <1>6
    <3>2. cached'[c][j] = cached[c][j] /\ dirty'[c][j] /\ Alive(c, j)'
      BY <3>1, <2>3, <1>7, <1>11
    <3>3. QED
      BY <3>2, <2>3 DEF Holds, LineOf
  <2>4. QED
    BY <2>2, <2>3, <1>9
<1>14. CacheInv'
  <2>1. SUFFICES ASSUME NEW c \in Caches, NEW j \in Ids, NEW e \in Epas,
                        Alive(c, j)', cached'[c][j] = LineOf(e)
                 PROVE  data'[c][j][e % Block] = memory[<<c, e>>] \/ Storeable(c, e)
    BY <1>9 DEF CacheInv, LineOf, Holds
  <2>2. ~(c = b /\ j = id)
    BY <2>1, <1>8
  <2>3. Alive(c, j) /\ Holds(c, j, LineOf(e)) /\ data'[c][j] = data[c][j]
    BY <2>1, <2>2, <1>7, <1>11 DEF Holds
  <2>4. QED
    BY <2>3 DEF CacheInv
<1>15. TypeOK'
  <2>1. 0 \in Vals /\ -1 \in -1 .. Lines - 1
    BY SizesAssumption DEF Vals
  <2>2. cached' \in [Caches -> [Ids -> -1 .. Lines - 1]]
    BY <2>1, <1>1 DEF TypeOK
  <2>3. data' \in [Caches -> [Ids -> [0 .. Block - 1 -> Vals]]] /\ dirty' \in [Caches -> [Ids -> BOOLEAN]]
    BY <2>1, <1>1 DEF TypeOK
  <2>4. \A c \in Caches, i, j \in Ids : cached'[c][i] # -1 /\ cached'[c][i] = cached'[c][j] => i = j
    <3>1. SUFFICES ASSUME NEW c \in Caches, NEW i \in Ids, NEW j \in Ids,
                          cached'[c][i] # -1, cached'[c][i] = cached'[c][j]
                   PROVE  i = j
      OBVIOUS
    <3>2. cached'[c][i] = cached[c][i] /\ cached'[c][j] = cached[c][j]
      BY <3>1, <1>7
    <3>3. QED
      BY <3>1, <3>2, MemoryTypes
  <2>5. QED
    BY <2>2, <2>3, <2>4, <1>1 DEF TypeOK
<1>16. QED
  BY <1>2, <1>12, <1>13, <1>14, <1>15

LEMMA ServeNothingSteady ==
  ASSUME NetType, NetInv, TodoInv, TypeOK, FlushInv, DramInv, CacheInv, NEW b \in Caches,
         net[b] # <<>>, net' = [net EXCEPT ![b] = Tail(@)], writes' = writes, memory' = memory,
         ServeNothing(b, Head(net[b]))
  PROVE  NetType' /\ NetInv' /\ FlushInv' /\ DramInv' /\ CacheInv' /\ TypeOK'
<1> DEFINE h == Head(net[b])
<1>1. /\ h.op \in {"AFL", "AINV"} /\ \A j \in Ids : ~Holds(b, j, LineOf(h.arg))
      /\ dram' = dram /\ cached' = cached /\ dirty' = dirty /\ data' = data
      /\ todo' = todo /\ got' = got
  BY DEF ServeNothing, cacheVars
<1>2. NetType' /\ NetInv'
  BY <1>1, ServeNet
<1>3. /\ Sent(b) = {h} \cup Sent(b)' /\ h \in Requests
      /\ \A d \in Caches : d # b => Sent(d)' = Sent(d)
  BY Served DEF NetInv
<1> HIDE DEF h
<1>4. PICK k \in Requests : k = h
  BY <1>3
<1>5. /\ k.op \in {"AFL", "AINV"} /\ \A j \in Ids : cached[b][j] # LineOf(k.arg)
      /\ Sent(b) = {k} \cup Sent(b)'
  BY <1>1, <1>3, <1>4 DEF Holds
<1>6. \A c \in Caches, e \in Epas : Storeable(c, e)' <=> Storeable(c, e)
  BY <1>3, <1>5 DEF Storeable
<1>7. Todo' = Todo /\ (Flushed' <=> Flushed)
  BY <1>1 DEF Todo, Flushed
<1>8. \A c \in Caches, j \in Ids : DropSent(c, j)' <=> DropSent(c, j)
  <2>1. SUFFICES ASSUME NEW c \in Caches, NEW j \in Ids PROVE DropSent(c, j)' <=> DropSent(c, j)
    OBVIOUS
  <2>2. CASE c = b
    BY <2>2, <1>1, <1>5 DEF DropSent, LineOf
  <2>3. CASE c # b
    BY <2>3, <1>1, <1>3 DEF DropSent, LineOf
  <2>4. QED
    BY <2>2, <2>3
<1>9. \A c \in Caches, j \in Ids : FlushSent(c, j)' <=> FlushSent(c, j)
  <2>1. SUFFICES ASSUME NEW c \in Caches, NEW j \in Ids PROVE FlushSent(c, j)' <=> FlushSent(c, j)
    OBVIOUS
  <2>2. CASE c = b
    BY <2>2, <1>1, <1>5 DEF FlushSent, LineOf
  <2>3. CASE c # b
    BY <2>3, <1>1, <1>3 DEF FlushSent, LineOf
  <2>4. QED
    BY <2>2, <2>3
<1>10. \A c \in Caches, j \in Ids : Doomed(c, j)' <=> Doomed(c, j)
  BY <1>1, <1>7, <1>8 DEF Doomed, LineOf
<1>11. \A c \in Caches, j \in Ids : Doomed(c, j)' /\ Alive(c, j) => FALSE
  BY <1>10 DEF Alive
<1>12. \A c \in Caches, j \in Ids : /\ MustFlush(c, j)' => MustFlush(c, j)
                                    /\ FlushPending(c, j) => FlushPending(c, j)'
  BY <1>1, <1>7, <1>9 DEF MustFlush, FlushPending, FlushToSend, LineOf
<1>13. FlushInv' /\ DramInv' /\ CacheInv'
  BY <1>1, <1>6, <1>10, <1>11, <1>12, Steady
<1>14. TypeOK'
  BY <1>1 DEF TypeOK
<1>15. QED
  BY <1>2, <1>13, <1>14

\* The load of the call is answered: the word has its last value, and once no
\* other load is left no line the call will drop is dirty.
LEMMA ServeLoadFresh ==
  ASSUME NetType, NetInv, TodoInv, TypeOK, FlushInv, DramInv, CacheInv, NEW b \in Caches,
         net[b] # <<>>, net' = [net EXCEPT ![b] = Tail(@)], writes' = writes, memory' = memory,
         NEW id \in Ids, ServeAccess(b, Head(net[b]), id), Head(net[b]).op = "load"
  PROVE  /\ NetType' /\ NetInv' /\ TodoInv' /\ FlushInv' /\ DramInv' /\ CacheInv' /\ TypeOK'
         /\ ReadsFresh'
<1> DEFINE h == Head(net[b])
<1>1. /\ h.op = "load" /\ Holds(b, id, LineOf(h.arg))
      /\ dram' = dram /\ cached' = cached /\ dirty' = dirty /\ data' = data
      /\ todo' = Tail(todo)
      /\ got' = <<data[b][id][h.arg % Block], memory[<<b, h.arg>>]>>
  BY DEF ServeAccess, cacheVars
<1>2. NetType' /\ NetInv'
  BY <1>1, ServeNet
<1>3. /\ Answering /\ Staged(todo) /\ todo # <<>> /\ Todo = {Answer} \cup Todo'
      /\ \A d \in Caches : Sent(d)' = IF d = b THEN {} ELSE Sent(d)
      /\ \A d \in Caches : d # b => ~LoadSent(d)
  BY <1>1, ServeNet
<1>4. h \in Requests /\ Sent(b) = {h} /\ h.arg \in Epas
  <2>1. h \in Requests /\ Sent(b) = {h}
    BY <1>1, HeadIsLeast DEF NetInv, AccessOps
  <2>2. QED
    BY <2>1, <1>1, RequestType
<1>5. \A j \in Ids : ~Doomed(b, j)
  BY <1>1, AllAlive DEF DropOps
<1> HIDE DEF h
<1>6. PICK k \in Requests : k = h
  BY <1>4
<1>7. k.op = "load" /\ Sent(b) = {k} /\ k.arg \in Epas /\ Holds(b, id, LineOf(k.arg))
      /\ got' = <<data[b][id][k.arg % Block], memory[<<b, k.arg>>]>>
  BY <1>1, <1>4, <1>6
<1>8. TodoInv'
  BY <1>1, <1>3, TodoNext
<1>9. ~Flushed /\ Answer \in Todo
  BY <1>3, AnsweringIs
<1>10. \A c, e : todo # <<Request("AINV", c, e)>> /\ todo' # <<Request("AINV", c, e)>>
  <2>1. SUFFICES ASSUME NEW c, NEW e
                 PROVE  todo # <<Request("AINV", c, e)>> /\ todo' # <<Request("AINV", c, e)>>
    OBVIOUS
  <2>2. ToSet(<<Request("AINV", c, e)>>) = {Request("AINV", c, e)}
    BY SetOfOne
  <2>3. Request("AINV", c, e) \notin Todo
    BY <1>3, StagedHead
  <2>4. QED
    BY <2>2, <2>3, <1>3 DEF Todo
<1>11. \A c \in Caches, j \in Ids : ~DropSent(b, j) /\ (DropSent(c, j)' <=> DropSent(c, j))
  <2>1. \A j \in Ids : ~DropSent(b, j)
    BY <1>5 DEF Doomed
  <2>2. \A j \in Ids : ~DropSent(b, j)'
    BY <1>3 DEF DropSent
  <2>3. \A c \in Caches, j \in Ids : c # b => (DropSent(c, j)' <=> DropSent(c, j))
    BY <1>1, <1>3 DEF DropSent, LineOf
  <2>4. QED
    BY <2>1, <2>2, <2>3
<1>12. \A c \in Caches, j \in Ids : Doomed(c, j) => Doomed(c, j)'
  BY <1>9, <1>10, <1>11 DEF Doomed
<1>13. \A c \in Caches, j \in Ids : FlushPending(c, j) => FlushPending(c, j)' /\ ~Flushed'
  <2>1. SUFFICES ASSUME NEW c \in Caches, NEW j \in Ids, FlushPending(c, j)
                 PROVE  FlushPending(c, j)' /\ ~Flushed'
    OBVIOUS
  <2>2. \A op, d, x : Request(op, d, x) \in Todo => Request(op, d, x) \in Todo'
    BY <1>3, KindsApart
  <2>3. \A d, e : Load(d, e) \in Todo => Load(d, e) \in Todo' /\ ~Flushed'
    <3>1. SUFFICES ASSUME NEW d, NEW e, Load(d, e) \in Todo PROVE Load(d, e) \in Todo' /\ ~Flushed'
      OBVIOUS
    <3>2. Load(d, e) \in Todo'
      BY <3>1, <1>3, KindsApart
    <3>3. QED
      BY <3>2, KindsApart DEF Flushed
  <2>4. CASE FlushSent(c, j)
    <3>1. c # b
      BY <2>4, <1>7 DEF FlushSent
    <3>2. FlushSent(c, j)'
      BY <2>4, <3>1, <1>1, <1>3 DEF FlushSent, LineOf
    <3>3. \E e \in Epas : Load(c, e) \in Todo
      BY <2>4, <3>1, <1>3 DEF FlushSent, FlushOps, NetInv, FlushesAwaited
    <3>4. QED
      BY <3>2, <3>3, <2>3 DEF FlushPending
  <2>5. CASE FlushToSend(c, j)
    <3>1. FlushToSend(c, j)'
      BY <2>5, <2>2, <1>1 DEF FlushToSend, LineOf
    <3>2. PICK x \in Todo : x.kind = "request" /\ x.op \in FlushOps
      BY <2>5, KindsApart DEF FlushToSend, FlushOps
    <3>3. \E e \in Epas : Load(x.cache, e) \in Todo
      BY <3>2, <1>3 DEF Staged, Todo
    <3>4. QED
      BY <3>1, <3>3, <2>3 DEF FlushPending
  <2>6. QED
    BY <2>1, <2>4, <2>5 DEF FlushPending
<1>14. \A c \in Caches, j \in Ids : MustFlush(c, j)' => MustFlush(c, j)
  BY <1>1, <1>3 DEF MustFlush, LineOf
<1>15. \A c \in Caches, j \in Ids : Doomed(c, j)' /\ Alive(c, j) => ~dirty[c][j]
  <2>1. SUFFICES ASSUME NEW c \in Caches, NEW j \in Ids, Doomed(c, j)', Alive(c, j), dirty[c][j]
                 PROVE  FALSE
    OBVIOUS
  <2>2. ~DropSent(c, j)'
    BY <2>1, <1>11 DEF Alive, Doomed
  <2>3. Flushed' /\ Request("TAGST", c, j) \in Todo'
    BY <2>1, <2>2, <1>10 DEF Doomed
  <2>4. MustFlush(c, j)
    BY <2>3, <1>3 DEF MustFlush
  <2>5. FlushPending(c, j)
    BY <2>1, <2>4 DEF FlushInv
  <2>6. QED
    BY <2>3, <2>5, <1>13
<1>16. \A c \in Caches, e \in Epas : Storeable(c, e)' <=> Storeable(c, e)
  BY <1>3, <1>7 DEF Storeable
<1>17. FlushInv' /\ DramInv' /\ CacheInv'
  BY <1>1, <1>12, <1>13, <1>14, <1>15, <1>16, Steady
<1>18. data[b][id][k.arg % Block] = memory[<<b, k.arg>>]
  <2>1. ~Storeable(b, k.arg)
    BY <1>7 DEF Storeable
  <2>2. cached[b][id] # -1
    BY <1>7, WordOf, SizesAssumption DEF Holds
  <2>3. Alive(b, id)
    BY <2>2, <1>5 DEF Alive
  <2>4. QED
    BY <2>1, <2>3, <1>7 DEF CacheInv
<1>19. memory[<<b, k.arg>>] \in Vals
  BY <1>7 DEF TypeOK, Words
<1>20. got' \in Vals \X Vals /\ ReadsFresh'
  BY <1>7, <1>18, <1>19 DEF ReadsFresh
<1>21. TypeOK'
  BY <1>1, <1>20 DEF TypeOK
<1>22. QED
  BY <1>2, <1>8, <1>17, <1>20, <1>21

\* A write to a word of a line, by a store of the host or of a kernel, when
\* no line of the cache is doomed: the line is dirty and holds the value.
LEMMA PutSteady ==
  ASSUME TypeOK, FlushInv, DramInv, CacheInv, NEW b \in Caches, NEW id \in Ids, NEW e \in Epas,
         NEW v \in Vals, Holds(b, id, LineOf(e)), Put(b, id, e, v),
         dram' = dram, cached' = cached, got' = got, writes' \in Vals, memory' \in [Words -> Vals],
         \A c \in Caches, f \in Epas : ~(c = b /\ f = e) => memory'[<<c, f>>] = memory[<<c, f>>],
         memory'[<<b, e>>] = v,
         \A c \in Caches, f \in Epas : Storeable(c, f) => (c = b /\ f = e) \/ Storeable(c, f)',
         \A c \in Caches, j \in Ids : ~Doomed(b, j) /\ (Doomed(c, j)' <=> Doomed(c, j)),
         \A c \in Caches, j \in Ids : ~MustFlush(c, j)'
  PROVE  FlushInv' /\ DramInv' /\ CacheInv' /\ TypeOK'
<1>1. /\ data' = [data EXCEPT ![b][id][e % Block] = v]
      /\ dirty' = [dirty EXCEPT ![b][id] = TRUE]
  BY DEF Put
<1>2. LineOf(e) # -1 /\ e % Block \in 0 .. Block - 1
  BY WordOf, SizesAssumption
<1>3. \A c \in Caches, j \in Ids : Alive(c, j)' <=> Alive(c, j)
  BY DEF Alive
<1>4. Alive(b, id) /\ Alive(b, id)'
  BY <1>2, <1>3 DEF Alive, Holds
<1>5. \A c \in Caches, j \in Ids : dirty'[c][j] <=> dirty[c][j] \/ (c = b /\ j = id)
  BY <1>1 DEF TypeOK
<1>6. FlushInv'
  BY DEF FlushInv
<1>7. DramInv'
  <2>1. SUFFICES ASSUME NEW c \in Caches, NEW f \in Epas
                 PROVE  \/ dram[<<c, f>>] = memory'[<<c, f>>]
                        \/ Storeable(c, f)'
                        \/ \E j \in Ids : Holds(c, j, LineOf(f)) /\ Alive(c, j)' /\ dirty'[c][j]
    BY DEF DramInv, LineOf, Holds
  <2>2. CASE c = b /\ f = e
    BY <2>2, <1>4, <1>5
  <2>3. CASE ~(c = b /\ f = e)
    <3>1. \/ dram[<<c, f>>] = memory[<<c, f>>]
          \/ Storeable(c, f)'
          \/ \E j \in Ids : Holds(c, j, LineOf(f)) /\ Alive(c, j) /\ dirty[c][j]
      BY <2>3 DEF DramInv
    <3>2. memory'[<<c, f>>] = memory[<<c, f>>]
      BY <2>3
    <3>3. QED
      BY <3>1, <3>2, <1>3, <1>5
  <2>4. QED
    BY <2>2, <2>3
<1>8. CacheInv'
  <2>1. SUFFICES ASSUME NEW c \in Caches, NEW j \in Ids, NEW f \in Epas,
                        Alive(c, j)', Holds(c, j, LineOf(f))
                 PROVE  data'[c][j][f % Block] = memory'[<<c, f>>] \/ Storeable(c, f)'
    BY DEF CacheInv, LineOf, Holds
  <2>2. CASE c = b /\ f = e
    <3>1. j = id
      BY <2>1, <2>2, OneHolder DEF Holds
    <3>2. data'[b][id][e % Block] = v
      <4> DEFINE o == e % Block
      <4>1. /\ o \in 0 .. Block - 1 /\ data' = [data EXCEPT ![b][id][o] = v]
            /\ data \in [Caches -> [Ids -> [0 .. Block - 1 -> Vals]]]
        BY <1>1, <1>2 DEF TypeOK
      <4> HIDE DEF o
      <4>2. data'[b] = [data[b] EXCEPT ![id] = [data[b][id] EXCEPT ![o] = v]]
        BY <4>1
      <4>3. data[b] \in [Ids -> [0 .. Block - 1 -> Vals]] /\ data[b][id] \in [0 .. Block - 1 -> Vals]
        BY <4>1
      <4>4. data'[b][id] = [data[b][id] EXCEPT ![o] = v]
        BY <4>2, <4>3
      <4>5. data'[b][id][o] = v
        BY <4>1, <4>3, <4>4
      <4>6. QED
        BY <4>5 DEF o
    <3>3. QED
      BY <2>2, <3>1, <3>2
  <2>3. CASE ~(c = b /\ f = e)
    <3>1. data[c][j][f % Block] = memory[<<c, f>>] \/ Storeable(c, f)'
      BY <2>1, <2>3, <1>3 DEF CacheInv
    <3>2. f % Block \in 0 .. Block - 1
      BY WordOf
    <3>3. c = b /\ j = id => f % Block # e % Block
      <4>1. SUFFICES ASSUME c = b, j = id, f % Block = e % Block PROVE FALSE
        OBVIOUS
      <4>2. LineOf(f) = LineOf(e)
        BY <4>1, <2>1 DEF Holds
      <4>3. f = e
        BY <4>1, <4>2, OneWord
      <4>4. QED
        BY <4>1, <4>3, <2>3
    <3>4. data'[c][j][f % Block] = data[c][j][f % Block]
      BY <3>2, <3>3, <1>1 DEF TypeOK
    <3>5. memory'[<<c, f>>] = memory[<<c, f>>]
      BY <2>3
    <3>6. QED
      BY <3>1, <3>4, <3>5
  <2>4. QED
    BY <2>2, <2>3
<1>9. TypeOK'
  <2>1. data' \in [Caches -> [Ids -> [0 .. Block - 1 -> Vals]]]
    BY <1>1, <1>2 DEF TypeOK
  <2>2. dirty' \in [Caches -> [Ids -> BOOLEAN]]
    BY <1>1 DEF TypeOK
  <2>3. QED
    BY <2>1, <2>2 DEF TypeOK
<1>10. QED
  BY <1>6, <1>7, <1>8, <1>9

LEMMA ServeStoreSteady ==
  ASSUME NetType, NetInv, TodoInv, TypeOK, FlushInv, DramInv, CacheInv, NEW b \in Caches,
         net[b] # <<>>, net' = [net EXCEPT ![b] = Tail(@)], writes' = writes, memory' = memory,
         NEW id \in Ids, ServeAccess(b, Head(net[b]), id), Head(net[b]).op = "store"
  PROVE  NetType' /\ NetInv' /\ todo' = todo /\ FlushInv' /\ DramInv' /\ CacheInv' /\ TypeOK'
<1> DEFINE h == Head(net[b])
<1>1. /\ h.op = "store" /\ Holds(b, id, LineOf(h.arg)) /\ Put(b, id, h.arg, h.val)
      /\ dram' = dram /\ cached' = cached /\ todo' = todo /\ got' = got
  BY DEF ServeAccess
<1>2. NetType' /\ NetInv'
  BY <1>1, ServeNet
<1>3. h \in Requests /\ Sent(b) = {h} /\ h.arg \in Epas /\ h.val \in Vals
  <2>1. h \in Requests /\ Sent(b) = {h}
    BY <1>1, HeadIsLeast DEF NetInv, AccessOps
  <2>2. QED
    BY <2>1, <1>1, RequestType
<1>4. \A d \in Caches : d # b => Sent(d)' = Sent(d)
  BY Served DEF NetInv
<1>5. Undropped(b)
  BY <1>1, NoDrops DEF DropOps
<1> HIDE DEF h
<1>6. PICK k \in Requests : k = h
  BY <1>3
<1>7. /\ k.op = "store" /\ Sent(b) = {k} /\ k.arg \in Epas /\ k.val \in Vals
      /\ Holds(b, id, LineOf(k.arg)) /\ Put(b, id, k.arg, k.val)
  BY <1>1, <1>3, <1>6
<1>8. todo = <<Fence>> /\ k.val = memory[<<b, k.arg>>]
  BY <1>7 DEF NetInv, StoresFenced
<1>9. Todo = {Fence} /\ Todo' = {Fence}
  BY <1>1, <1>8, SetOfOne DEF Todo
<1>10. \A c, x : /\ Request("TAGST", c, x) \notin Todo /\ Request("TAGST", c, x) \notin Todo'
                 /\ todo # <<Request("AINV", c, x)>> /\ todo' # <<Request("AINV", c, x)>>
  <2>1. SUFFICES ASSUME NEW c, NEW x
                 PROVE  /\ Request("TAGST", c, x) \notin Todo /\ Request("TAGST", c, x) \notin Todo'
                        /\ todo # <<Request("AINV", c, x)>> /\ todo' # <<Request("AINV", c, x)>>
    OBVIOUS
  <2>2. Fence # Request("AINV", c, x) /\ Fence # Request("TAGST", c, x)
    BY KindsApart
  <2>3. QED
    BY <2>2, <1>1, <1>8, <1>9
<1>11. \A j \in Ids : ~Doomed(b, j)
  BY <1>5, UndroppedAlive
<1>12. Sent(b)' = {}
  <2>1. ToSet(Tail(net[b])) = {}
    BY <1>1, HeadIsLeast DEF NetInv, AccessOps, h
  <2>2. net'[b] = Tail(net[b])
    BY DEF NetType
  <2>3. QED
    BY <2>1, <2>2 DEF Sent
<1>13. \A c \in Caches, j \in Ids : Doomed(c, j)' <=> Doomed(c, j)
  <2>1. SUFFICES ASSUME NEW c \in Caches, NEW j \in Ids PROVE Doomed(c, j)' <=> Doomed(c, j)
    OBVIOUS
  <2>2. DropSent(c, j)' <=> DropSent(c, j)
    <3>1. CASE c = b
      BY <3>1, <1>7, <1>12 DEF DropSent
    <3>2. CASE c # b
      BY <3>2, <1>1, <1>4 DEF DropSent, LineOf
    <3>3. QED
      BY <3>1, <3>2
  <2>3. QED
    BY <2>2, <1>10 DEF Doomed
<1>14. \A c \in Caches, j \in Ids : ~MustFlush(c, j)'
  BY <1>9, <1>10, KindsApart DEF MustFlush
<1>15. \A c \in Caches, f \in Epas : Storeable(c, f) => (c = b /\ f = k.arg) \/ Storeable(c, f)'
  BY <1>4, <1>7 DEF Storeable
<1>16. memory' \in [Words -> Vals] /\ writes' \in Vals
  BY DEF TypeOK
<1>17. FlushInv' /\ DramInv' /\ CacheInv' /\ TypeOK'
  BY <1>1, <1>7, <1>8, <1>11, <1>13, <1>14, <1>15, <1>16, PutSteady
<1>18. QED
  BY <1>1, <1>2, <1>17

LEMMA KernelStoreSteady ==
  ASSUME NetType, NetInv, TodoInv, TypeOK, FlushInv, DramInv, CacheInv, NEW b \in Caches, NEW e \in Epas,
         KernelStore(b, e)
  PROVE  /\ NetType' /\ NetInv' /\ TodoInv' /\ FlushInv' /\ DramInv' /\ CacheInv' /\ TypeOK'
         /\ got' = got
<1>1. PICK id \in Ids : Holds(b, id, LineOf(e)) /\ Put(b, id, e, writes + 1)
  BY DEF KernelStore
<1>2. /\ todo = <<>> /\ Drained /\ writes < MaxWrites /\ writes' = writes + 1
      /\ memory' = [memory EXCEPT ![<<b, e>>] = writes + 1]
      /\ dram' = dram /\ cached' = cached /\ net' = net /\ todo' = todo /\ got' = got
  BY DEF KernelStore
<1>3. writes + 1 \in Vals /\ <<b, e>> \in Words
  BY <1>2, SizesAssumption DEF TypeOK, Vals, Words
<1>4. \A c \in Caches, j \in Ids : ~Doomed(c, j) /\ Sent(c) = {} /\ Todo = {}
  BY <1>2, IdleAlive
<1>5. \A c \in Caches : Sent(c) = {}
  BY <1>2, SetOfEmpty DEF Drained, Sent
<1>6. NetType' /\ NetInv' /\ \A c \in Caches : Sent(c)' = Sent(c)
  BY <1>2, <1>5, StillNet
<1>7. Todo = {} /\ Todo' = {}
  BY <1>2, SetOfEmpty DEF Todo
<1>8. \A c \in Caches, j \in Ids : ~Doomed(c, j)'
  <2>1. \A c \in Caches, j \in Ids : ~DropSent(c, j)'
    BY <1>5, <1>6 DEF DropSent
  <2>2. \A x : todo' # <<x>>
    BY <1>2
  <2>3. QED
    BY <2>1, <2>2, <1>7 DEF Doomed
<1>9. \A c \in Caches, j \in Ids : ~MustFlush(c, j)'
  BY <1>7 DEF MustFlush
<1>10. \A c \in Caches, f \in Epas : ~Storeable(c, f)
  BY <1>5 DEF Storeable
<1>11. /\ memory' \in [Words -> Vals] /\ writes' \in Vals /\ memory'[<<b, e>>] = writes + 1
       /\ \A c \in Caches, f \in Epas : ~(c = b /\ f = e) => memory'[<<c, f>>] = memory[<<c, f>>]
  BY <1>2, <1>3 DEF TypeOK, Words
<1>12. FlushInv' /\ DramInv' /\ CacheInv' /\ TypeOK'
  <2>1. \A c \in Caches, j \in Ids : ~Doomed(b, j) /\ (Doomed(c, j)' <=> Doomed(c, j))
    BY <1>4, <1>8
  <2>2. \A c \in Caches, f \in Epas : Storeable(c, f) => (c = b /\ f = e) \/ Storeable(c, f)'
    BY <1>10
  <2>3. QED
    BY <2>1, <2>2, <1>1, <1>2, <1>3, <1>9, <1>11, PutSteady
<1>13. TodoInv'
  <2>1. Staged(<<>>) /\ Budget(<<>>, writes')
    BY SetOfEmpty DEF Staged, Ordered, Budget
  <2>2. QED
    BY <2>1, <1>2 DEF TodoInv
<1>14. QED
  BY <1>2, <1>6, <1>12, <1>13

\* A miss: what is evicted is not doomed, and goes to the DRAM.
LEMMA MissSteady ==
  ASSUME NetType, NetInv, TodoInv, TypeOK, FlushInv, DramInv, CacheInv, NEW b \in Caches, Miss(b)
  PROVE  /\ NetType' /\ NetInv' /\ TodoInv' /\ FlushInv' /\ DramInv' /\ CacheInv' /\ TypeOK'
         /\ got' = got
<1>1. PICK l \in 0 .. Lines - 1, id \in Ids :
        /\ \/ net[b] # <<>> /\ Head(net[b]).op \in {"store", "load"}
           \/ todo = <<>> /\ Drained
        /\ Fill(b, l, id)
  BY DEF Miss
<1>2. /\ \A j \in Ids : cached[b][j] # l
      /\ dram' = WrittenBack(b, id)
      /\ cached' = [cached EXCEPT ![b][id] = l]
      /\ dirty' = [dirty EXCEPT ![b][id] = FALSE]
      /\ data' = [data EXCEPT ![b][id] = [o \in 0 .. Block - 1 |-> dram[<<b, l * Block + o>>]]]
      /\ net' = net /\ todo' = todo /\ writes' = writes /\ memory' = memory /\ got' = got
  BY <1>1 DEF Fill, Holds
<1>3. Undropped(b)
  <2>1. CASE net[b] # <<>> /\ Head(net[b]).op \in {"store", "load"}
    BY <2>1, NoDrops DEF DropOps
  <2>2. CASE todo = <<>> /\ Drained
    BY <1>1, <2>2, IdleAlive
  <2>3. QED
    BY <1>1, <2>1, <2>2
<1>4. NetType' /\ NetInv' /\ TodoInv'
  BY <1>2 DEF NetType, NetInv, QueuesOrdered, StoresFenced, LoadsAwaited, FlushesAwaited, OneLoad,
              LoadSent, Sent, Answering, Todo, TodoInv
<1>5. /\ Todo' = Todo /\ (Flushed' <=> Flushed) /\ (Undropped(b)' <=> Undropped(b))
      /\ \A c \in Caches : Sent(c)' = Sent(c)
  BY <1>2 DEF Todo, Flushed, Sent, Undropped
<1>6. /\ \A c \in Caches, j \in Ids : ~(c = b /\ j = id) =>
           cached'[c][j] = cached[c][j] /\ dirty'[c][j] = dirty[c][j] /\ data'[c][j] = data[c][j]
      /\ cached'[b][id] = l /\ dirty'[b][id] = FALSE
      /\ data'[b][id] = [o \in 0 .. Block - 1 |-> dram[<<b, l * Block + o>>]]
  BY <1>2 DEF TypeOK
<1>7. \A j \in Ids : ~Doomed(b, j) /\ ~Doomed(b, j)'
  <2>1. \A j \in Ids : ~Doomed(b, j)
    BY <1>3, UndroppedAlive
  <2>2. ASSUME NEW j \in Ids PROVE ~Doomed(b, j)'
    <3>1. ~DropSent(b, j)'
      BY <1>3, <1>5 DEF DropSent, DropOps, Undropped
    <3>2. QED
      BY <3>1, <1>2, <1>3, <1>5 DEF Undropped, Doomed
  <2>3. QED
    BY <2>1, <2>2
<1>8. \A c \in Caches, j \in Ids : ~(c = b /\ j = id) => (Alive(c, j)' <=> Alive(c, j))
  <2>1. SUFFICES ASSUME NEW c \in Caches, NEW j \in Ids, ~(c = b /\ j = id)
                 PROVE  Alive(c, j)' <=> Alive(c, j)
    OBVIOUS
  <2>2. cached'[c][j] = cached[c][j]
    BY <2>1, <1>6
  <2>3. DropSent(c, j)' <=> DropSent(c, j)
    BY <2>2, <1>5 DEF DropSent, LineOf
  <2>4. Doomed(c, j)' <=> Doomed(c, j)
    BY <2>2, <2>3, <1>2, <1>5 DEF Doomed, LineOf
  <2>5. QED
    BY <2>2, <2>4 DEF Alive
<1>9. \A c \in Caches, e \in Epas : Storeable(c, e)' <=> Storeable(c, e)
  BY <1>5 DEF Storeable
<1>10. FlushInv'
  <2>1. SUFFICES ASSUME NEW c \in Caches, NEW j \in Ids,
                        Alive(c, j)', dirty'[c][j], MustFlush(c, j)'
                 PROVE  FlushPending(c, j)'
    BY DEF FlushInv
  <2>2. ~(c = b /\ j = id)
    BY <2>1, <1>6
  <2>3. Alive(c, j) /\ dirty[c][j] /\ cached'[c][j] = cached[c][j]
    BY <2>1, <2>2, <1>6, <1>8
  <2>4. MustFlush(c, j)
    BY <2>1, <2>3, <1>5 DEF MustFlush, LineOf
  <2>5. FlushPending(c, j)
    BY <2>3, <2>4 DEF FlushInv
  <2>6. QED
    BY <2>3, <2>5, <1>5 DEF FlushPending, FlushSent, FlushToSend, LineOf
<1>11. DramInv'
  <2>1. SUFFICES ASSUME NEW c \in Caches, NEW e \in Epas
                 PROVE  \/ dram'[<<c, e>>] = memory[<<c, e>>]
                        \/ Storeable(c, e)
                        \/ \E j \in Ids : cached'[c][j] = LineOf(e) /\ Alive(c, j)' /\ dirty'[c][j]
    BY <1>2, <1>9 DEF DramInv, LineOf, Holds
  <2>2. CASE c = b /\ Holds(b, id, LineOf(e)) /\ dirty[b][id]
    <3>1. dram'[<<c, e>>] = data[b][id][e % Block]
      BY <2>2, <1>2, WroteBack
    <3>2. cached[b][id] # -1
      BY <2>2, WordOf, SizesAssumption DEF Holds
    <3>3. Alive(b, id)
      BY <3>2, <1>7 DEF Alive
    <3>4. QED
      BY <3>1, <3>3, <2>2 DEF CacheInv
  <2>3. CASE ~(c = b /\ Holds(b, id, LineOf(e)) /\ dirty[b][id])
    <3>1. dram'[<<c, e>>] = dram[<<c, e>>]
      BY <2>3, <1>2, WroteBack
    <3>2. \/ dram[<<c, e>>] = memory[<<c, e>>]
          \/ Storeable(c, e)
          \/ \E j \in Ids : Holds(c, j, LineOf(e)) /\ Alive(c, j) /\ dirty[c][j]
      BY DEF DramInv
    <3>3. ASSUME NEW j \in Ids, Holds(c, j, LineOf(e)), Alive(c, j), dirty[c][j]
          PROVE  cached'[c][j] = LineOf(e) /\ Alive(c, j)' /\ dirty'[c][j]
      <4>1. ~(c = b /\ j = id)
        BY <3>3, <2>3
      <4>2. QED
        BY <4>1, <3>3, <1>6, <1>8 DEF Holds
    <3>4. QED
      BY <3>1, <3>2, <3>3
  <2>4. QED
    BY <2>2, <2>3
<1>12. CacheInv'
  <2>1. SUFFICES ASSUME NEW c \in Caches, NEW j \in Ids, NEW e \in Epas,
                        Alive(c, j)', cached'[c][j] = LineOf(e)
                 PROVE  data'[c][j][e % Block] = memory[<<c, e>>] \/ Storeable(c, e)
    BY <1>2, <1>9 DEF CacheInv, LineOf, Holds
  <2>2. CASE c = b /\ j = id
    <3>1. LineOf(e) = l /\ e % Block \in 0 .. Block - 1 /\ l * Block + (e % Block) = e
      BY <2>1, <2>2, <1>6, WordOf
    <3>2. data'[c][j][e % Block] = dram[<<c, e>>]
      BY <2>2, <3>1, <1>6
    <3>3. \A i \in Ids : ~Holds(c, i, LineOf(e))
      BY <2>2, <3>1, <1>2 DEF Holds
    <3>4. QED
      BY <3>2, <3>3 DEF DramInv
  <2>3. CASE ~(c = b /\ j = id)
    <3>1. Alive(c, j) /\ Holds(c, j, LineOf(e)) /\ data'[c][j] = data[c][j]
      BY <2>1, <2>3, <1>6, <1>8 DEF Holds
    <3>2. QED
      BY <3>1 DEF CacheInv
  <2>4. QED
    BY <2>2, <2>3
<1>13. TypeOK'
  <2>1. dram' \in [Words -> Vals]
    BY <1>2, WroteBack
  <2>2. cached' \in [Caches -> [Ids -> -1 .. Lines - 1]]
    <3>1. l \in -1 .. Lines - 1
      OBVIOUS
    <3>2. QED
      BY <3>1, <1>2 DEF TypeOK
  <2>3. data' \in [Caches -> [Ids -> [0 .. Block - 1 -> Vals]]]
    <3> DEFINE line == [o \in 0 .. Block - 1 |-> dram[<<b, l * Block + o>>]]
    <3>1. \A o \in 0 .. Block - 1 : <<b, l * Block + o>> \in Words
      BY WordAt DEF Words
    <3>2. line \in [0 .. Block - 1 -> Vals] /\ data' = [data EXCEPT ![b][id] = line]
      BY <3>1, <1>2 DEF TypeOK
    <3> HIDE DEF line
    <3>3. QED
      BY <3>2 DEF TypeOK
  <2>4. dirty' \in [Caches -> [Ids -> BOOLEAN]]
    BY <1>2 DEF TypeOK
  <2>5. \A c \in Caches, i, j \in Ids : cached'[c][i] # -1 /\ cached'[c][i] = cached'[c][j] => i = j
    <3>1. SUFFICES ASSUME NEW c \in Caches, NEW i \in Ids, NEW j \in Ids,
                          cached'[c][i] # -1, cached'[c][i] = cached'[c][j]
                   PROVE  i = j
      OBVIOUS
    <3>2. CASE c = b /\ (i = id \/ j = id)
      BY <3>1, <3>2, <1>2, <1>6
    <3>3. CASE ~(c = b /\ (i = id \/ j = id))
      BY <3>1, <3>3, <1>6, MemoryTypes
    <3>4. QED
      BY <3>2, <3>3
  <2>6. QED
    BY <2>1, <2>2, <2>3, <2>4, <2>5, <1>2 DEF TypeOK
<1>14. QED
  BY <1>2, <1>4, <1>10, <1>11, <1>12, <1>13

------------------------------------------------------------------------------
(* The calls the host begins.                                               *)

LEMMA ConcatOf ==
  ASSUME NEW S, NEW s \in Seq(S), NEW t \in Seq(S)
  PROVE  /\ s \o t \in Seq(S) /\ Len(s \o t) = Len(s) + Len(t) /\ Len(s) \in Nat /\ Len(t) \in Nat
         /\ DOMAIN s = 1 .. Len(s) /\ DOMAIN t = 1 .. Len(t) /\ DOMAIN (s \o t) = 1 .. Len(s) + Len(t)
         /\ \A i \in 1 .. Len(s) : (s \o t)[i] = s[i]
         /\ \A i \in Len(s) + 1 .. Len(s) + Len(t) : (s \o t)[i] = t[i - Len(s)] /\ i - Len(s) \in 1 .. Len(t)
  OBVIOUS

\* What has an order keeps it when what follows comes later in it.
LEMMA OrderedConcat ==
  ASSUME NEW s \in Seq(Items), NEW t \in Seq(Items), Ordered(s), Ordered(t),
         \A x \in ToSet(s), y \in ToSet(t) : Rank(x) <= Rank(y)
  PROVE  Ordered(s \o t)
<1> DEFINE m == Len(s)
           n == Len(t)
           u == s \o t
<1>1. /\ m \in Nat /\ n \in Nat /\ DOMAIN s = 1 .. m /\ DOMAIN t = 1 .. n /\ DOMAIN u = 1 .. m + n
      /\ \A i \in 1 .. m : u[i] = s[i]
      /\ \A i \in m + 1 .. m + n : u[i] = t[i - m] /\ i - m \in 1 .. n
  BY ConcatOf
<1>2. /\ \A i \in DOMAIN s : s[i] \in ToSet(s)
      /\ \A i \in DOMAIN t : t[i] \in ToSet(t)
  BY DEF ToSet
<1> HIDE DEF m, n, u
<1>3. SUFFICES ASSUME NEW i \in 1 .. m + n, NEW j \in 1 .. m + n, i < j
               PROVE  Rank(u[i]) <= Rank(u[j])
  BY <1>1 DEF Ordered, u
<1>4. CASE j <= m
  <2>1. i \in DOMAIN s /\ j \in DOMAIN s /\ u[i] = s[i] /\ u[j] = s[j]
    BY <1>1, <1>3, <1>4
  <2>2. QED
    BY <2>1, <1>3 DEF Ordered
<1>5. CASE i <= m /\ j > m
  <2>1. i \in DOMAIN s /\ j - m \in DOMAIN t /\ u[i] = s[i] /\ u[j] = t[j - m]
    BY <1>1, <1>3, <1>5
  <2>2. QED
    BY <2>1, <1>2
<1>6. CASE i > m
  <2>1. /\ i - m \in DOMAIN t /\ j - m \in DOMAIN t /\ u[i] = t[i - m] /\ u[j] = t[j - m]
        /\ i - m < j - m
    BY <1>1, <1>3, <1>6
  <2>2. QED
    BY <2>1 DEF Ordered
<1>7. QED
  BY <1>1, <1>3, <1>4, <1>5, <1>6

\* A piece of a call whose items all come at the same stage.
LEMMA SameRank ==
  ASSUME NEW s \in Seq(Items), NEW k, \A x \in ToSet(s) : Rank(x) = k
  PROVE  Ordered(s)
<1>1. \A i \in DOMAIN s : s[i] \in Items /\ s[i] \in ToSet(s)
  BY SetIn
<1>2. \A i \in DOMAIN s : Rank(s[i]) = k /\ Rank(s[i]) \in 1 .. 4
  BY <1>1, ItemType
<1>3. QED
  BY <1>2 DEF Ordered

LEMMA LeastExists ==
  ASSUME NEW S \in SUBSET Nat, S # {}
  PROVE  \E i \in S : \A j \in S : i <= j
<1>1. PICK i \in S : \A j \in S : <<j, i>> \notin OpToRel(<, Nat)
  <2>1. PICK x : x \in S
    BY Zenon
  <2>2. S \subseteq Nat /\ IsWellFoundedOn(OpToRel(<, Nat), Nat)
    BY NatLessThanWellFounded, Zenon
  <2>3. IsWellFoundedOn(OpToRel(<, Nat), S)
    BY <2>2, IsWellFoundedOnSubset, Zenon
  <2>4. QED
    BY <2>1, <2>2, WFMin, Zenon
<1>2. \A j \in S : ~(j < i)
  BY <1>1 DEF OpToRel
<1>3. QED
  BY <1>2

\* The function that flattens the first k sequences of a list.
IsFlat(f, s, k) ==
  f = [i \in 1 .. k |-> IF i = 1 THEN s[i] ELSE f[i - 1] \o s[i]]

LEMMA FlatExists ==
  ASSUME NEW T, NEW n \in Nat, NEW s \in [1 .. n -> Seq(T)]
  PROVE  \E f \in [1 .. n -> Seq(T)] : IsFlat(f, s, n)
<1> DEFINE Fails == {k \in 0 .. n : \A f \in [1 .. k -> Seq(T)] : ~IsFlat(f, s, k)}
<1>1. ASSUME Fails # {} PROVE FALSE
  <2>1. PICK k \in Fails : \A j \in Fails : k <= j
    <3>1. Fails \in SUBSET Nat
      OBVIOUS
    <3> HIDE DEF Fails
    <3>2. QED
      BY <1>1, <3>1, LeastExists
  <2>2. k \in 0 .. n /\ \A f \in [1 .. k -> Seq(T)] : ~IsFlat(f, s, k)
    BY <2>1
  <2>3. CASE k = 0
    <3> DEFINE f == [i \in 1 .. k |-> IF i = 1 THEN s[i] ELSE <<>>]
    <3>1. 1 .. k = {}
      BY <2>3
    <3>2. f \in [1 .. k -> Seq(T)]
      BY <3>1
    <3>3. IsFlat(f, s, k)
      BY <3>1 DEF IsFlat
    <3>4. QED
      BY <2>2, <3>2, <3>3
  <2>4. CASE k # 0
    <3>1. k - 1 \in 0 .. n /\ k \in 1 .. n /\ k \in Nat /\ k - 1 \notin Fails
      BY <2>1, <2>2, <2>4
    <3>2. PICK g \in [1 .. k - 1 -> Seq(T)] : IsFlat(g, s, k - 1)
      BY <3>1
    <3> HIDE DEF Fails
    <3> DEFINE last == IF k = 1 THEN s[k] ELSE g[k - 1] \o s[k]
               f == [i \in 1 .. k |-> IF i = k THEN last ELSE g[i]]
    <3>3. last \in Seq(T)
      <4>1. CASE k = 1
        BY <3>1, <4>1
      <4>2. CASE k # 1
        <5>1. k - 1 \in 1 .. k - 1 /\ g[k - 1] \in Seq(T) /\ s[k] \in Seq(T)
          BY <3>1, <3>2, <4>2
        <5>2. QED
          BY <5>1, <4>2, ConcatOf
      <4>3. QED
        BY <4>1, <4>2
    <3>4. last = IF k = 1 THEN s[k] ELSE g[k - 1] \o s[k]
      OBVIOUS
    <3> HIDE DEF last
    <3>5. f \in [1 .. k -> Seq(T)]
      <4>1. SUFFICES ASSUME NEW i \in 1 .. k PROVE f[i] \in Seq(T)
        OBVIOUS
      <4>2. i # k => i \in 1 .. k - 1
        BY <3>1
      <4>3. QED
        BY <3>2, <3>3, <4>2
    <3>6. \A i \in 1 .. k : f[i] = IF i = 1 THEN s[i] ELSE f[i - 1] \o s[i]
      <4>1. SUFFICES ASSUME NEW i \in 1 .. k PROVE f[i] = IF i = 1 THEN s[i] ELSE f[i - 1] \o s[i]
        OBVIOUS
      <4>2. i # 1 => i - 1 \in 1 .. k /\ i - 1 # k
        BY <3>1
      <4>3. CASE i = k
        <5>1. f[i] = last
          BY <4>3
        <5>2. i # 1 => f[i - 1] = g[k - 1]
          BY <4>2, <4>3
        <5>3. QED
          BY <5>1, <5>2, <4>3, <3>4
      <4>4. CASE i # k
        <5>1. i \in 1 .. k - 1 /\ f[i] = g[i]
          BY <4>4, <3>1
        <5>2. g[i] = IF i = 1 THEN s[i] ELSE g[i - 1] \o s[i]
          BY <3>2, <5>1 DEF IsFlat
        <5>3. i # 1 => f[i - 1] = g[i - 1]
          BY <4>2
        <5>4. QED
          BY <5>1, <5>2, <5>3
      <4>5. QED
        BY <4>3, <4>4
    <3>7. f = [i \in 1 .. k |-> IF i = 1 THEN s[i] ELSE f[i - 1] \o s[i]]
      <4>1. f = [i \in 1 .. k |-> f[i]]
        OBVIOUS
      <4>2. [i \in 1 .. k |-> f[i]] = [i \in 1 .. k |-> IF i = 1 THEN s[i] ELSE f[i - 1] \o s[i]]
        <5> HIDE DEF f
        <5>1. QED
          BY <3>6
      <4>3. QED
        BY <4>1, <4>2
    <3>8. QED
      <4> HIDE DEF f
      <4>1. IsFlat(f, s, k)
        BY <3>7 DEF IsFlat
      <4>2. QED
        BY <2>2, <3>5, <4>1
  <2>5. QED
    BY <2>3, <2>4
<1>2. n \in 0 .. n /\ n \notin Fails
  BY <1>1
<1>3. QED
  BY <1>2

\* Sequences of items of a kind make, one after the other, a sequence of
\* items of that kind.
LEMMA FlattenOf ==
  ASSUME NEW T, NEW s \in Seq(Seq(T))
  PROVE  FlattenSeq(s) \in Seq(T)
<1>1. CASE Len(s) = 0
  BY <1>1, EmptySeq DEF FlattenSeq
<1>2. CASE Len(s) # 0
  <2> DEFINE n == Len(s)
             g == CHOOSE f : IsFlat(f, s, n)
  <2>1. n \in Nat /\ n \in 1 .. n /\ s \in [1 .. n -> Seq(T)]
    BY <1>2
  <2>2. FlattenSeq(s) = g[n]
    BY <1>2 DEF FlattenSeq, IsFlat
  <2> HIDE DEF n
  <2>3. \E f : IsFlat(f, s, n)
    BY <2>1, FlatExists
  <2>4. IsFlat(g, s, n)
    BY <2>3
  <2>5. PICK f \in [1 .. n -> Seq(T)] : IsFlat(f, s, n)
    BY <2>1, FlatExists
  <2> HIDE DEF g
  <2> DEFINE Differ == {k \in 1 .. n : g[k] # f[k]}
  <2>6. ASSUME Differ # {} PROVE FALSE
    <3>1. PICK k \in Differ : \A j \in Differ : k <= j
      <4>1. Differ \in SUBSET Nat
        BY <2>1
      <4> HIDE DEF Differ
      <4>2. QED
        BY <2>6, <4>1, LeastExists
    <3>2. k \in 1 .. n /\ g[k] # f[k]
      BY <3>1
    <3>3. k # 1 => k - 1 \in 1 .. n /\ g[k - 1] = f[k - 1]
      BY <3>1, <2>1
    <3>4. g[k] = IF k = 1 THEN s[k] ELSE g[k - 1] \o s[k]
      BY <2>4, <3>2 DEF IsFlat
    <3>5. f[k] = IF k = 1 THEN s[k] ELSE f[k - 1] \o s[k]
      BY <2>5, <3>2 DEF IsFlat
    <3>6. QED
      BY <3>2, <3>3, <3>4, <3>5
  <2>7. g[n] = f[n]
    BY <2>1, <2>6
  <2>8. QED
    BY <2>1, <2>2, <2>5, <2>7
<1>3. QED
  BY <1>1, <1>2

\* A finite set as a sequence: all of its elements and nothing else.
LEMMA SeqOfSet ==
  ASSUME NEW S, IsFiniteSet(S)
  PROVE  /\ SetToSeq(S) \in Seq(S) /\ Len(SetToSeq(S)) = Cardinality(S)
         /\ \A x \in S : \E i \in 1 .. Cardinality(S) : SetToSeq(S)[i] = x
<1> DEFINE n == Cardinality(S)
<1>1. n \in Nat /\ ExistsBijection(1 .. n, S)
  BY FS_CardinalityType
<1>2. \E f \in [1 .. n -> S] : IsInjective(f)
  BY <1>1 DEF ExistsBijection, Bijection, Injection, IsInjective
<1>3. SetToSeq(S) \in [1 .. n -> S] /\ IsInjective(SetToSeq(S))
  BY <1>2 DEF SetToSeq
<1>4. SetToSeq(S) \in Injection(1 .. n, S)
  BY <1>3 DEF Injection
<1>5. Cardinality(1 .. n) = n
  BY <1>1, FS_Interval
<1>6. SetToSeq(S) \in Surjection(1 .. n, S)
  BY <1>4, <1>5, FS_Injection
<1>7. QED
  BY <1>1, <1>3, <1>6 DEF Surjection

\* What the loops over a pod's ways, sets and banks issue: the operation, to
\* every way of every cache.
PodOps(op) == {Request(op, c, id) : c \in Caches, id \in Ids}

LEMMA BanksAre ==
  /\ Banks \in Seq(Caches) /\ Len(Banks) \in Nat /\ DOMAIN Banks = 1 .. Len(Banks)
  /\ \A i \in 1 .. Len(Banks) : Banks[i] \in Caches
  /\ \A c \in Caches : \E i \in 1 .. Len(Banks) : Banks[i] = c
<1>1. /\ Banks \in Seq(Caches) /\ Len(Banks) = Cardinality(Caches)
      /\ \A c \in Caches : \E i \in 1 .. Cardinality(Caches) : Banks[i] = c
  BY SeqOfSet, CachesAssumption DEF Banks
<1> HIDE DEF Banks
<1>2. QED
  BY <1>1

LEMMA Assoc ==
  ASSUME NEW a \in Nat, NEW b \in Nat, NEW c \in Nat
  PROVE  /\ (a * b) * c = a * (b * c) /\ a * b = b * a /\ a * b \in Nat /\ a * b * c \in Nat
         /\ (a + b) * c = a * c + b * c
  BY Z3

LEMMA PodIndex ==
  ASSUME NEW w \in 0 .. Ways - 1, NEW s \in 0 .. Sets - 1, NEW nb \in Nat \ {0}, NEW k \in 0 .. nb - 1
  PROVE  LET a == (w * Sets + s) * nb + k
         IN /\ a \in 0 .. Ways * Sets * nb - 1
            /\ a % nb = k /\ a \div (Sets * nb) = w /\ (a \div nb) % Sets = s
<1>1. Ways \in Nat /\ Sets \in Nat \ {0} /\ w \in Nat /\ s \in Nat /\ k \in Nat
  BY SizesAssumption
<1> DEFINE q == w * Sets + s
           t == s * nb + k
           d == Sets * nb
<1>2. q \in 0 .. Ways * Sets - 1 /\ Ways * Sets \in Nat
  BY <1>1, Below, Assoc
<1>3. t \in 0 .. d - 1 /\ d \in Nat
  BY <1>1, Below, Assoc
<1>4. q * nb + k = d * w + t
  <2>1. (w * Sets + s) * nb = (w * Sets) * nb + s * nb /\ (w * Sets) * nb = w * (Sets * nb)
    <3>1. w * Sets \in Nat
      BY <1>1, Assoc
    <3>2. QED
      BY <1>1, <3>1, Assoc
  <2>2. w * d = d * w /\ d * w \in Nat /\ s * nb \in Nat /\ (w * Sets) * nb \in Nat
    BY <1>1, <1>3, <2>1, Assoc
  <2>3. QED
    BY <2>1, <2>2, <1>1
<1>5. q % Sets = s
  <2>1. (Sets * w + s) % Sets = s
    BY <1>1, Parts
  <2>2. QED
    BY <2>1, <1>1, Assoc
<1>6. d # 0
  BY <1>3
<1>7. (q * nb + k) % nb = k /\ (q * nb + k) \div nb = q
  <2>1. q \in Nat
    BY <1>2
  <2> HIDE DEF q
  <2>2. (nb * q + k) % nb = k /\ (nb * q + k) \div nb = q
    BY <2>1, Parts
  <2>3. q * nb = nb * q
    BY <2>1
  <2>4. QED
    BY <2>2, <2>3
<1>8. (q * nb + k) \div d = w
  <2>1. (d * w + t) \div d = w
    <3> HIDE DEF d, t
    <3>1. QED
      BY ONLY <1>1, <1>3, <1>6, Parts
  <2>2. QED
    BY <2>1, <1>4
<1>9. q * nb + k \in 0 .. (Ways * Sets) * nb - 1
  <2> HIDE DEF q
  <2>1. QED
    BY <1>2, Below
<1>10. QED
  BY <1>5, <1>7, <1>8, <1>9

LEMMA PodParts ==
  ASSUME NEW nb \in Nat, NEW i \in 1 .. Ways * Sets * nb
  PROVE  /\ nb # 0 /\ ((i - 1) % nb) + 1 \in 1 .. nb
         /\ <<(i - 1) \div (Sets * nb), ((i - 1) \div nb) % Sets>> \in Ids
<1>1. Ways \in Nat /\ Sets \in Nat \ {0}
  BY SizesAssumption
<1>2. nb # 0
  BY <1>1
<1>3. i - 1 \in 0 .. (Ways * Sets) * nb - 1 /\ Ways * Sets \in Nat /\ Sets * nb \in Nat \ {0}
      /\ (Ways * Sets) * nb = Ways * (Sets * nb)
  BY <1>1, <1>2, Assoc
<1> DEFINE a == i - 1
           m == Ways * Sets
           d == Sets * nb
<1>4. a \in 0 .. m * nb - 1 /\ a \in 0 .. Ways * d - 1 /\ m \in Nat /\ d \in Nat \ {0}
  BY <1>3
<1> HIDE DEF a, m, d
<1>5. a \div nb \in 0 .. m - 1 /\ a % nb \in 0 .. nb - 1
  BY <1>2, <1>4, Quotient
<1>6. a \div d \in 0 .. Ways - 1
  BY <1>1, <1>4, Quotient
<1>7. (a \div nb) % Sets \in 0 .. Sets - 1
  BY <1>1, <1>5
<1>8. (a % nb) + 1 \in 1 .. nb
  BY <1>5
<1>9. QED
  BY <1>2, <1>6, <1>7, <1>8 DEF a, d, Ids

LEMMA PodCovered ==
  ASSUME NEW op
  PROVE  /\ ApplyToPod(op) \in Seq(PodOps(op))
         /\ \A c \in Caches, id \in Ids : Request(op, c, id) \in ToSet(ApplyToPod(op))
<1> DEFINE nb == Len(Banks)
           n  == Ways * Sets * nb
           x(i) == Request(op, Banks[((i - 1) % nb) + 1],
                           <<(i - 1) \div (Sets * nb), ((i - 1) \div nb) % Sets>>)
<1>1. ApplyToPod(op) = [i \in 1 .. n |-> x(i)]
  BY DEF ApplyToPod
<1>2. nb \in Nat /\ n \in Nat
  BY BanksAre, SizesAssumption, Assoc
<1>3. \A i \in 1 .. n : x(i) \in PodOps(op)
  <2>1. SUFFICES ASSUME NEW i \in 1 .. n PROVE x(i) \in PodOps(op)
    OBVIOUS
  <2>2. /\ ((i - 1) % nb) + 1 \in 1 .. nb
        /\ <<(i - 1) \div (Sets * nb), ((i - 1) \div nb) % Sets>> \in Ids
    BY <1>2, PodParts
  <2>3. Banks[((i - 1) % nb) + 1] \in Caches
    BY <2>2, BanksAre
  <2>4. QED
    BY <2>2, <2>3 DEF PodOps
<1>4. ASSUME NEW c \in Caches, NEW id \in Ids
      PROVE  Request(op, c, id) \in ToSet(ApplyToPod(op))
  <2>1. PICK w \in 0 .. Ways - 1, s \in 0 .. Sets - 1 : id = <<w, s>>
    BY DEF Ids
  <2>2. PICK j \in 1 .. nb : Banks[j] = c
    BY BanksAre
  <2> DEFINE a == (w * Sets + s) * nb + (j - 1)
  <2>3. /\ a \in 0 .. n - 1
        /\ a % nb = j - 1 /\ a \div (Sets * nb) = w /\ (a \div nb) % Sets = s
    <3>1. nb \in Nat \ {0} /\ j - 1 \in 0 .. nb - 1
      BY <1>2, <2>2
    <3>2. QED
      BY <3>1, PodIndex
  <2> HIDE DEF a, n, nb
  <2>4. a + 1 \in 1 .. n /\ (a + 1) - 1 = a /\ (j - 1) + 1 = j
    BY <1>2, <2>3
  <2>5. x(a + 1) = Request(op, c, id)
    BY <2>1, <2>2, <2>3, <2>4
  <2> HIDE DEF x
  <2>6. QED
    BY <1>1, <2>4, <2>5 DEF ToSet
<1>5. QED
  <2> HIDE DEF n, x
  <2>1. ApplyToPod(op) \in Seq(PodOps(op))
    BY <1>1, <1>2, <1>3
  <2>2. QED
    BY <2>1, <1>4

\* A call made of flushes, loads of words behind them, DMA and drops.
LEMMA StagedCall ==
  ASSUME NEW f \in Seq(Items), NEW l \in Seq(Items), NEW d \in Seq(Items), NEW t \in Seq(Items),
         \A x \in ToSet(f) : /\ x.kind = "request" /\ x.op \in FlushOps
                             /\ \E e \in Epas : Load(x.cache, e) \in ToSet(l),
         \A x \in ToSet(l) : x.kind = "load",
         \A x \in ToSet(d) : x.kind \in {"dma_read", "dma_write"},
         \A x \in ToSet(t) : x.kind = "request" /\ x.op = "TAGST",
         \A x \in ToSet(d) : x.kind = "dma_write" =>
            \A c \in Caches, id \in Ids : Request("TAGST", c, id) \in ToSet(t),
         \A x \in ToSet(d) : x.kind = "dma_read" => ToSet(t) = {}
  PROVE  /\ Staged(f \o l \o d \o t)
         /\ ToSet(f \o l \o d \o t) = ToSet(f) \cup ToSet(l) \cup ToSet(d) \cup ToSet(t)
<1> DEFINE u == f \o l
           v == u \o d
           s == v \o t
<1>1. u \in Seq(Items) /\ v \in Seq(Items) /\ s \in Seq(Items)
  OBVIOUS
<1>2. /\ ToSet(u) = ToSet(f) \cup ToSet(l) /\ ToSet(v) = ToSet(u) \cup ToSet(d)
      /\ ToSet(s) = ToSet(v) \cup ToSet(t)
  <2>1. ToSet(u) = ToSet(f) \cup ToSet(l)
    BY SetOfConcat
  <2> HIDE DEF u
  <2>2. ToSet(v) = ToSet(u) \cup ToSet(d)
    BY <1>1, SetOfConcat
  <2> HIDE DEF v
  <2>3. ToSet(s) = ToSet(v) \cup ToSet(t)
    BY <1>1, SetOfConcat
  <2>4. QED
    BY <2>1, <2>2, <2>3
<1>3. /\ ToSet(f) \subseteq Items /\ ToSet(l) \subseteq Items /\ ToSet(d) \subseteq Items
      /\ ToSet(t) \subseteq Items
  BY SetIn
<1>4. /\ \A x \in ToSet(f) : Rank(x) = 1
      /\ \A x \in ToSet(l) : Rank(x) = 2
      /\ \A x \in ToSet(d) : Rank(x) = 3
      /\ \A x \in ToSet(t) : Rank(x) = 4
  BY <1>3, ItemType DEF Rank
<1>5. Ordered(f) /\ Ordered(l) /\ Ordered(d) /\ Ordered(t)
  BY <1>4, SameRank
<1>6. Ordered(s)
  <2> HIDE DEF u, v, s
  <2>1. Ordered(u)
    BY <1>4, <1>5, OrderedConcat DEF u
  <2>2. Ordered(v)
    <3>1. \A x \in ToSet(u), y \in ToSet(d) : Rank(x) <= Rank(y)
      BY <1>2, <1>4
    <3>2. QED
      BY <3>1, <2>1, <1>1, <1>5, OrderedConcat DEF v
  <2>3. QED
    <3>1. \A x \in ToSet(v), y \in ToSet(t) : Rank(x) <= Rank(y)
      BY <1>2, <1>4
    <3>2. QED
      BY <3>1, <2>2, <1>1, <1>5, OrderedConcat DEF s
<1> HIDE DEF u, v, s
<1>7. \A x \in ToSet(s) : x # Answer
  BY <1>2, KindsApart
<1>8. \A i \in DOMAIN s : s[i] = Answer => i = 1
  BY <1>7 DEF ToSet
<1>9. \A x \in ToSet(s) : x.kind = "request" /\ x.op \in FlushOps =>
        \E e \in Epas : Load(x.cache, e) \in ToSet(s)
  BY <1>2 DEF FlushOps
<1>10. \A x \in ToSet(s) : x.kind = "dma_write" =>
         \A c \in Caches, id \in Ids : Request("TAGST", c, id) \in ToSet(s)
  BY <1>2
<1>11. \A x, y \in ToSet(s) : x.kind = "dma_read" => ~(y.kind = "request" /\ y.op = "TAGST")
  BY <1>2 DEF FlushOps
<1>12. Staged(s)
  BY <1>1, <1>6, <1>8, <1>9, <1>10, <1>11 DEF Staged
<1>13. QED
  BY <1>2, <1>12 DEF u, v, s

\* A call begins: no request of an earlier call is on its way but drops, and
\* the lines that the call counts on are clean or will be written back by it.
LEMMA BeginSteady ==
  ASSUME NetType, NetInv, FlushInv, DramInv, CacheInv, NEW call, Begin(call),
         \A c \in Caches, e \in Epas : call # <<Request("AINV", c, e)>>,
         \A c \in Caches, id \in Ids :
            Request("TAGST", c, id) \in ToSet(call) => \E x \in ToSet(call) : x.kind = "load",
         \A c \in Caches, id \in Ids : MustFlush(c, id)' => FlushToSend(c, id)'
  PROVE  NetType' /\ NetInv' /\ FlushInv' /\ DramInv' /\ CacheInv'
<1>1. /\ todo = <<>> /\ todo' = call /\ net' = net
      /\ dram' = dram /\ cached' = cached /\ dirty' = dirty /\ data' = data /\ memory' = memory
  BY DEF Begin, cacheVars
<1>2. Todo = {} /\ Todo' = ToSet(call)
  BY <1>1, SetOfEmpty DEF Todo
<1>3. ~Answering /\ todo # <<Fence>> /\ \A c, x : todo # <<Request("AINV", c, x)>>
  BY <1>1 DEF Answering
<1>4. \A c \in Caches : \A q \in Sent(c) : q.op \in DropOps
  BY <1>2, <1>3, NoAccess
<1>5. NetType' /\ NetInv' /\ \A c \in Caches : Sent(c)' = Sent(c)
  BY <1>1, <1>4, StillNet
<1>6. \A c \in Caches, e \in Epas : Storeable(c, e)' <=> Storeable(c, e)
  BY <1>5 DEF Storeable
<1>7. \A c \in Caches, id \in Ids : DropSent(c, id)' <=> DropSent(c, id)
  BY <1>1, <1>5 DEF DropSent, LineOf
<1>8. \A c \in Caches, id \in Ids : ~(Flushed' /\ Request("TAGST", c, id) \in Todo')
  BY <1>2 DEF Flushed
<1>9. \A c \in Caches, id \in Ids : Doomed(c, id)' <=> Doomed(c, id)
  BY <1>1, <1>2, <1>3, <1>7, <1>8 DEF Doomed
<1>10. \A c \in Caches, id \in Ids : MustFlush(c, id)' => FlushPending(c, id)'
  BY DEF FlushPending
<1>11. QED
  BY <1>1, <1>5, <1>6, <1>9, <1>10, Steady DEF Alive

\* A call of the two kinds that are not staged reads nothing and drops no line.
LEMMA BeginOther ==
  ASSUME NetType, NetInv, FlushInv, DramInv, CacheInv, NEW call, Begin(call),
         \A c \in Caches, e \in Epas : call # <<Request("AINV", c, e)>>,
         \A x \in ToSet(call) : x.kind # "dma_read" /\ (x.kind = "request" => x.op # "TAGST")
  PROVE  NetType' /\ NetInv' /\ FlushInv' /\ DramInv' /\ CacheInv'
<1>1. Todo' = ToSet(call)
  BY DEF Begin, Todo
<1>2. \A c \in Caches, id \in Ids : Request("TAGST", c, id) \notin ToSet(call)
  BY KindsApart
<1>3. \A w \in Words : DmaRead(w) \notin ToSet(call)
  BY KindsApart
<1>4. \A c \in Caches, id \in Ids : ~MustFlush(c, id)'
  BY <1>1, <1>2, <1>3 DEF MustFlush
<1>5. QED
  BY <1>2, <1>4, BeginSteady

\* The answer to a single load.
LEMMA BeginLoad ==
  ASSUME NetType, NetInv, TypeOK, FlushInv, DramInv, CacheInv, NEW c \in Caches, NEW e \in Epas,
         Begin(<<Load(c, e)>>)
  PROVE  NetType' /\ NetInv' /\ TodoInv' /\ FlushInv' /\ DramInv' /\ CacheInv'
<1> DEFINE x == Load(c, e)
<1>1. x.kind = "load" /\ x \in Items /\ x # Answer
  BY KindsApart, ItemsAre
<1> HIDE DEF x
<1>2. ToSet(<<x>>) = {x} /\ <<x>> \in Seq(Items) /\ DOMAIN <<x>> = 1 .. 1 /\ <<x>>[1] = x
  BY <1>1, SetOfOne
<1>3. Staged(<<x>>)
  BY <1>1, <1>2 DEF Staged, Ordered
<1>4. Budget(<<x>>, writes)
  BY <1>1, <1>2 DEF Budget, IsWrite
<1>5. todo' = <<x>> /\ writes' = writes
  BY DEF Begin, x
<1>6. TodoInv'
  BY <1>3, <1>4, <1>5 DEF TodoInv
<1>7. \A d \in Caches, f \in Epas : <<x>> # <<Request("AINV", d, f)>>
  <2>1. SUFFICES ASSUME NEW d \in Caches, NEW f \in Epas PROVE <<x>> # <<Request("AINV", d, f)>>
    OBVIOUS
  <2>2. x # Request("AINV", d, f)
    BY <1>1, KindsApart
  <2>3. QED
    BY <2>2
<1>8. Begin(<<x>>)
  BY DEF x
<1>9. QED
  BY <1>1, <1>2, <1>6, <1>7, <1>8, BeginOther

\* A write: a store and the fence behind it.
LEMMA BeginWrite ==
  ASSUME NetType, NetInv, TypeOK, FlushInv, DramInv, CacheInv, NEW c \in Caches, NEW e \in Epas,
         writes < MaxWrites, Begin(WriteMem(c, e))
  PROVE  NetType' /\ NetInv' /\ TodoInv' /\ FlushInv' /\ DramInv' /\ CacheInv'
<1> DEFINE x == Request("store", c, e)
<1>1. WriteMem(c, e) = <<x, Fence>> /\ Storing(WriteMem(c, e))
  BY DEF WriteMem, Storing
<1>2. x.kind = "request" /\ x.op = "store" /\ Fence.kind = "fence"
  BY KindsApart
<1>3. todo' = <<x, Fence>> /\ writes' = writes /\ writes \in Nat /\ MaxWrites \in Nat
  BY <1>1, SizesAssumption DEF Begin, TypeOK, Vals
<1> HIDE DEF x
<1>4. /\ ToSet(<<x, Fence>>) = {x, Fence} /\ DOMAIN <<x, Fence>> = 1 .. 2
      /\ <<x, Fence>>[1] = x /\ <<x, Fence>>[2] = Fence
  BY SetOfTwo
<1>5. Budget(<<x, Fence>>, writes)
  <2>1. SUFFICES ASSUME NEW i \in 1 .. 2, NEW j \in 1 .. 2,
                        IsWrite(<<x, Fence>>[i]), IsWrite(<<x, Fence>>[j])
                 PROVE  writes + (j - i) + 1 <= MaxWrites
    BY <1>4 DEF Budget
  <2>2. i = 1 /\ j = 1
    BY <2>1, <1>2, <1>4 DEF IsWrite
  <2>3. QED
    BY <2>2, <1>3
<1>6. TodoInv'
  BY <1>1, <1>3, <1>5 DEF TodoInv
<1>7. \A d \in Caches, f \in Epas : <<x, Fence>> # <<Request("AINV", d, f)>>
  OBVIOUS
<1>8. QED
  BY <1>1, <1>2, <1>4, <1>6, <1>7, BeginOther

\* A range of one line starts with its first word and is counted as one line.
LEMMA OneLineIs ==
  ASSUME OneLine, NEW r \in Ranges
  PROVE  \E l \in 0 .. Lines - 1 :
           /\ r[1] = First(l) /\ r[2] = Block /\ r[1] \in Epas
           /\ LineCount(r[1], r[2]) = 1
<1>1. r[1] % Block = 0 /\ r[2] = Block /\ r[1] \in Nat /\ r[1] + Block <= Lines * Block
  BY RangesAssumption DEF OneLine
<1>2. Block \in Nat \ {0} /\ Lines \in Nat /\ Lines * Block \in Nat
  BY SizesAssumption, Assoc
<1>3. r[1] \in 0 .. Lines * Block - 1
  BY <1>1, <1>2
<1>4. r[1] \div Block \in 0 .. Lines - 1 /\ r[1] = (r[1] \div Block) * Block + (r[1] % Block)
  BY <1>2, <1>3, Quotient
<1>5. r[1] = First(r[1] \div Block)
  <2>1. (r[1] \div Block) * Block \in Nat
    BY <1>2, <1>4, Assoc
  <2>2. QED
    BY <2>1, <1>1, <1>4 DEF First
<1>6. LineCount(r[1], r[2]) = 1
  <2>1. Block + 0 + Block - 1 = Block * 1 + (Block - 1) /\ Block - 1 \in 0 .. Block - 1
    BY <1>2
  <2>2. (Block * 1 + (Block - 1)) \div Block = 1
    BY <1>2, <2>1, Parts
  <2>3. QED
    BY <2>1, <2>2, <1>1 DEF LineCount
<1>7. QED
  BY <1>1, <1>3, <1>4, <1>5, <1>6 DEF Epas

\* A DMA write of a line, which then drops the line.
LEMMA BeginDmaWrite ==
  ASSUME OneLine, NetType, NetInv, TypeOK, FlushInv, DramInv, CacheInv,
         NEW c \in Caches, NEW r \in Ranges, writes < MaxWrites, Begin(DmaWriteSafe(c, r[1], r[2]))
  PROVE  NetType' /\ NetInv' /\ TodoInv' /\ FlushInv' /\ DramInv' /\ CacheInv'
<1>1. PICK l \in 0 .. Lines - 1 :
        r[1] = First(l) /\ r[2] = Block /\ r[1] \in Epas /\ LineCount(r[1], r[2]) = 1
  BY OneLineIs
<1> DEFINE x == DmaWrite(Span(c, First(l), Block))
           y == Request("AINV", c, First(l))
<1>2. InvalidateRange(c, r[1], r[2]) = <<y>>
  BY <1>1 DEF InvalidateRange, ApplyToRange
<1>3. DmaWriteSafe(c, r[1], r[2]) = <<x>> \o <<y>>
  BY <1>1, <1>2 DEF DmaWriteSafe
<1>4. Replacing(<<x, y>>)
  BY DEF Replacing
<1>5. x.kind = "dma_write" /\ y.kind = "request" /\ y.op = "AINV"
  BY KindsApart
<1> HIDE DEF x, y
<1>6. <<x>> \o <<y>> = <<x, y>>
  <2>1. <<x>> \in Seq({x, y}) /\ <<y>> \in Seq({x, y}) /\ <<x, y>> \in Seq({x, y})
    OBVIOUS
  <2> DEFINE s == <<x>> \o <<y>>
             t == <<x, y>>
  <2>2. s \in Seq({x, y}) /\ Len(s) = 2 /\ s[1] = x /\ s[2] = y
    BY <2>1
  <2>3. t \in Seq({x, y}) /\ Len(t) = 2 /\ t[1] = x /\ t[2] = y
    BY <2>1
  <2> HIDE DEF s, t
  <2>4. s = t
    BY <2>2, <2>3, SeqEqual
  <2>5. QED
    BY <2>4 DEF s, t
<1>7. todo' = <<x, y>> /\ writes' = writes /\ writes \in Nat /\ MaxWrites \in Nat
  <2>1. todo' = DmaWriteSafe(c, r[1], r[2])
    BY DEF Begin
  <2>2. todo' = <<x, y>>
    BY <2>1, <1>3, <1>6, Zenon
  <2>3. QED
    BY <2>2, SizesAssumption DEF Begin, TypeOK, Vals
<1>8. ToSet(<<x, y>>) = {x, y} /\ DOMAIN <<x, y>> = 1 .. 2 /\ <<x, y>>[1] = x /\ <<x, y>>[2] = y
  BY SetOfTwo
<1>9. Budget(<<x, y>>, writes)
  <2>1. SUFFICES ASSUME NEW i \in 1 .. 2, NEW j \in 1 .. 2,
                        IsWrite(<<x, y>>[i]), IsWrite(<<x, y>>[j])
                 PROVE  writes + (j - i) + 1 <= MaxWrites
    BY <1>8 DEF Budget
  <2>2. i = 1 /\ j = 1
    BY <2>1, <1>5, <1>8 DEF IsWrite
  <2>3. QED
    BY <2>2, <1>7
<1>10. TodoInv'
  BY <1>4, <1>7, <1>9 DEF TodoInv
<1>11. \A d \in Caches, f \in Epas : <<x, y>> # <<Request("AINV", d, f)>>
  OBVIOUS
<1>12. Begin(<<x, y>>)
  BY <1>3, <1>6
<1>13. QED
  BY <1>5, <1>8, <1>10, <1>11, <1>12, BeginOther

\* What a DMA read of a set of words issues.
Reads == {DmaRead(w) : w \in Words}

LEMMA WordsFinite ==
  ASSUME NEW W \in SUBSET Words
  PROVE  IsFiniteSet(W)
<1>1. Lines * Block \in Nat
  BY SizesAssumption, Assoc
<1>2. IsFiniteSet(Epas)
  BY <1>1, FS_Interval DEF Epas
<1>3. IsFiniteSet(Words)
  BY <1>2, CachesAssumption, FS_Product DEF Words
<1>4. QED
  BY <1>3, FS_Subset

LEMMA ReadSpanIs ==
  ASSUME NEW W \in SUBSET Words
  PROVE  /\ ReadSpan(W) \in Seq({DmaRead(w) : w \in W}) /\ ReadSpan(W) \in Seq(Reads)
         /\ ToSet(ReadSpan(W)) \subseteq {DmaRead(w) : w \in W}
<1>1. IsFiniteSet(W)
  BY WordsFinite
<1>2. SetToSeq(W) \in Seq(W) /\ Len(SetToSeq(W)) = Cardinality(W)
  BY <1>1, SeqOfSet
<1>3. Cardinality(W) \in Nat
  BY <1>1, FS_CardinalityType
<1> DEFINE s == SetToSeq(W)
           n == Cardinality(W)
<1>4. ReadSpan(W) = [i \in 1 .. n |-> DmaRead(s[i])]
  BY DEF ReadSpan
<1> HIDE DEF s, n
<1>5. \A i \in 1 .. n : s[i] \in W
  BY <1>2, <1>3 DEF s, n
<1>6. n \in Nat
  BY <1>3 DEF n
<1>7. ReadSpan(W) \in Seq({DmaRead(w) : w \in W}) /\ ReadSpan(W) \in Seq(Reads)
  BY <1>4, <1>5, <1>6 DEF Reads
<1>8. QED
  BY <1>7, SetIn

LEMMA FlushPodIs ==
         \E f \in Seq(Items), l \in Seq(Items) :
           /\ FlushPod = f \o l
           /\ ToSet(f) \subseteq PodOps("TAGFL")
           /\ \A c \in Caches, id \in Ids : Request("TAGFL", c, id) \in ToSet(f)
           /\ ToSet(l) = {Load(c, 0) : c \in Caches}
<1> DEFINE f == ApplyToPod("TAGFL")
           l == [i \in DOMAIN Banks |-> Load(Banks[i], 0)]
<1>1. f \in Seq(PodOps("TAGFL")) /\ \A c \in Caches, id \in Ids : Request("TAGFL", c, id) \in ToSet(f)
  BY PodCovered
<1>2. PodOps("TAGFL") \subseteq Items
  BY ItemsAre DEF PodOps
<1>3. f \in Seq(Items) /\ ToSet(f) \subseteq PodOps("TAGFL")
  <2> HIDE DEF f
  <2>1. QED
    BY <1>1, <1>2, SetIn
<1>4. 0 \in Epas
  <2>1. 0 \in 0 .. Lines - 1 /\ 0 \in 0 .. Block - 1 /\ 0 * Block + 0 = 0
    BY SizesAssumption
  <2>2. QED
    BY <2>1, WordAt
<1>5. \A c \in Caches : Load(c, 0) \in Items
  BY <1>4, ItemsAre
<1>6. l \in Seq(Items)
  BY <1>5, BanksAre
<1>7. ToSet(l) = {Load(c, 0) : c \in Caches}
  BY BanksAre DEF ToSet
<1>8. FlushPod = f \o l
  BY DEF FlushPod
<1> HIDE DEF f, l
<1>9. QED
  BY <1>1, <1>3, <1>6, <1>7, <1>8

LEMMA NilRight ==
  ASSUME NEW S, NEW s \in Seq(S)
  PROVE  s \o <<>> = s
  OBVIOUS

\* A call that flushes and then reads by DMA: it ends with the reads.
LEMMA ReadCallStaged ==
  ASSUME NEW f \in Seq(Items), NEW l \in Seq(Items), NEW d \in Seq(Reads),
         \A x \in ToSet(f) : /\ x.kind = "request" /\ x.op \in FlushOps
                             /\ \E e \in Epas : Load(x.cache, e) \in ToSet(l),
         \A x \in ToSet(l) : x.kind = "load"
  PROVE  /\ Staged(f \o l \o d)
         /\ ToSet(f \o l \o d) = ToSet(f) \cup ToSet(l) \cup ToSet(d)
         /\ \A n : Budget(f \o l \o d, n)
<1>1. Reads \subseteq Items
  BY OtherItems DEF Reads
<1>2. d \in Seq(Items) /\ \A x \in ToSet(d) : x.kind = "dma_read"
  <2>1. \A x \in Reads : x.kind = "dma_read"
    BY KindsApart DEF Reads
  <2>2. ToSet(d) \subseteq Reads
    BY SetIn
  <2>3. QED
    BY <1>1, <2>1, <2>2
<1> DEFINE s == f \o l \o d
           t == <<>>
<1>3. t \in Seq(Items) /\ ToSet(t) = {}
  BY SetOfEmpty
<1>4. s \in Seq(Items)
  BY <1>2
<1>5. s \o t = s
  <2> HIDE DEF s
  <2>1. QED
    BY <1>4, NilRight
<1> HIDE DEF t
<1>6. Staged(s \o t) /\ ToSet(s \o t) = ToSet(f) \cup ToSet(l) \cup ToSet(d) \cup ToSet(t)
  <2>1. \A x \in ToSet(d) : x.kind \in {"dma_read", "dma_write"} /\ x.kind # "dma_write"
    BY <1>2
  <2>2. \A x \in ToSet(t) : x.kind = "request" /\ x.op = "TAGST"
    BY <1>3
  <2>3. QED
    BY <1>2, <1>3, <2>1, <2>2, StagedCall
<1> HIDE DEF s
<1>7. Staged(s) /\ ToSet(s) = ToSet(f) \cup ToSet(l) \cup ToSet(d)
  BY <1>3, <1>5, <1>6
<1>8. \A x \in ToSet(s) : ~IsWrite(x)
  BY <1>2, <1>7 DEF IsWrite, FlushOps
<1>9. \A n : Budget(s, n)
  BY <1>8 DEF Budget, ToSet
<1>10. QED
  BY <1>7, <1>9 DEF s

\* A DMA read of a line: the line is flushed and a word of it read first.
LEMMA BeginDmaRead ==
  ASSUME OneLine, NetType, NetInv, TypeOK, FlushInv, DramInv, CacheInv,
         NEW c \in Caches, NEW r \in Ranges, Begin(DmaReadSafe(c, r[1], r[2]))
  PROVE  NetType' /\ NetInv' /\ TodoInv' /\ FlushInv' /\ DramInv' /\ CacheInv'
<1>1. PICK l \in 0 .. Lines - 1 :
        r[1] = First(l) /\ r[2] = Block /\ r[1] \in Epas /\ LineCount(r[1], r[2]) = 1
  BY OneLineIs
<1> DEFINE x == Request("AFL", c, r[1])
           y == Load(c, r[1])
           W == Span(c, r[1], r[2])
           d == ReadSpan(W)
<1>2. DmaReadSafe(c, r[1], r[2]) = <<x>> \o <<y>> \o d
  BY <1>1 DEF DmaReadSafe, FlushRange, ApplyToRange
<1>3. /\ x.kind = "request" /\ x.op = "AFL" /\ x.cache = c /\ x.arg = r[1] /\ x \in Items
      /\ y.kind = "load" /\ y \in Items
  BY <1>1, KindsApart, ItemsAre
<1>4. \A w \in W : w \in Words /\ w[1] = c /\ LineOf(w[2]) = l
  <2>1. SUFFICES ASSUME NEW w \in W PROVE w \in Words /\ w[1] = c /\ LineOf(w[2]) = l
    OBVIOUS
  <2>2. Block \in Nat \ {0} /\ l \in Nat /\ l * Block \in Nat
    BY SizesAssumption
  <2>3. w = <<w[1], w[2]>> /\ w[1] = c /\ w[2] \in l * Block .. l * Block + Block - 1
    BY <1>1 DEF Span, First
  <2>4. w[2] - l * Block \in 0 .. Block - 1 /\ l * Block + (w[2] - l * Block) = w[2]
    BY <2>2, <2>3
  <2>5. w[2] \in Epas /\ LineOf(w[2]) = l
    BY <2>4, WordAt
  <2>6. QED
    BY <2>3, <2>5 DEF Words
<1>5. LineOf(r[1]) = l
  BY <1>1, FirstOf
<1>6. d \in Seq(Reads) /\ ToSet(d) \subseteq {DmaRead(w) : w \in W}
  BY <1>4, ReadSpanIs
<1>7. Load(x.cache, r[1]) = y
  BY <1>3
<1> HIDE DEF x, y, W, d
<1>8. <<x>> \in Seq(Items) /\ <<y>> \in Seq(Items) /\ ToSet(<<x>>) = {x} /\ ToSet(<<y>>) = {y}
  <2>1. <<x>> \in Seq(Items) /\ <<y>> \in Seq(Items)
    BY <1>3
  <2>2. ToSet(<<x>>) = {x} /\ ToSet(<<y>>) = {y}
    BY SetOfOne
  <2>3. QED
    BY <2>1, <2>2
<1> DEFINE s == <<x>> \o <<y>> \o d
<1>9. Staged(s) /\ ToSet(s) = {x} \cup {y} \cup ToSet(d) /\ Budget(s, writes)
  <2>1. \A z \in ToSet(<<x>>) : /\ z.kind = "request" /\ z.op \in FlushOps
                                /\ \E e \in Epas : Load(z.cache, e) \in ToSet(<<y>>)
    BY <1>1, <1>3, <1>7, <1>8 DEF FlushOps
  <2>2. \A z \in ToSet(<<y>>) : z.kind = "load"
    BY <1>3, <1>8
  <2>3. QED
    BY <2>1, <2>2, <1>6, <1>8, ReadCallStaged
<1>10. Begin(s)
  BY <1>2
<1> HIDE DEF s
<1>11. todo' = s /\ writes' = writes /\ cached' = cached /\ Todo' = ToSet(s)
  BY <1>10 DEF Begin, cacheVars, Todo
<1>12. TodoInv'
  BY <1>9, <1>11 DEF TodoInv
<1>13. \A b \in Caches, e \in Epas : s # <<Request("AINV", b, e)>>
  <2>1. SUFFICES ASSUME NEW b \in Caches, NEW e \in Epas, s = <<Request("AINV", b, e)>> PROVE FALSE
    OBVIOUS
  <2>2. x = Request("AINV", b, e)
    BY <2>1, <1>9, SetOfOne
  <2>3. QED
    BY <2>2, <1>3, KindsApart
<1>14. \A b \in Caches, id \in Ids : Request("TAGST", b, id) \notin ToSet(s)
  BY <1>3, <1>6, <1>9, KindsApart
<1>15. \A b \in Caches, id \in Ids : MustFlush(b, id)' => FlushToSend(b, id)'
  <2>1. SUFFICES ASSUME NEW b \in Caches, NEW id \in Ids, MustFlush(b, id)' PROVE FlushToSend(b, id)'
    OBVIOUS
  <2>2. PICK w \in Words : DmaRead(w) \in ToSet(s) /\ w[1] = b /\ cached[b][id] = LineOf(w[2])
    BY <2>1, <1>11, <1>14 DEF MustFlush, LineOf
  <2>3. DmaRead(w) # x /\ DmaRead(w) # y
    BY <1>3, KindsApart
  <2>4. PICK v \in W : DmaRead(w) = DmaRead(v)
    BY <2>2, <2>3, <1>6, <1>9
  <2>5. w = v
    BY <2>4, KindsApart
  <2>6. b = c /\ LineOf(w[2]) = LineOf(r[1])
    BY <2>2, <2>5, <1>4, <1>5
  <2>7. Request("AFL", b, r[1]) \in ToSet(s)
    BY <2>6, <1>9 DEF x
  <2>8. QED
    BY <2>2, <2>6, <2>7, <1>1, <1>11 DEF FlushToSend, LineOf
<1>16. QED
  BY <1>10, <1>12, <1>13, <1>14, <1>15, BeginSteady

\* A call on the pod flushes every way first: what it counts on will be
\* written back.
LEMMA PodFlushes ==
  ASSUME NEW call, Begin(call),
         \A c \in Caches, id \in Ids : Request("TAGFL", c, id) \in ToSet(call)
  PROVE  \A c \in Caches, id \in Ids : MustFlush(c, id)' => FlushToSend(c, id)'
<1>1. Todo' = ToSet(call)
  BY DEF Begin, Todo
<1>2. QED
  BY <1>1 DEF FlushToSend

LEMMA FlushItems ==
  ASSUME NEW f, NEW l, ToSet(f) \subseteq PodOps("TAGFL"), ToSet(l) = {Load(c, 0) : c \in Caches}
  PROVE  /\ \A x \in ToSet(f) : /\ x.kind = "request" /\ x.op \in FlushOps
                                /\ \E e \in Epas : Load(x.cache, e) \in ToSet(l)
         /\ \A x \in ToSet(l) : x.kind = "load"
<1>1. 0 \in Epas
  <2>1. 0 \in 0 .. Lines - 1 /\ 0 \in 0 .. Block - 1 /\ 0 * Block + 0 = 0
    BY SizesAssumption
  <2>2. QED
    BY <2>1, WordAt
<1>2. \A x \in ToSet(l) : x.kind = "load"
  BY KindsApart
<1>3. ASSUME NEW x \in ToSet(f)
      PROVE  x.kind = "request" /\ x.op \in FlushOps /\ Load(x.cache, 0) \in ToSet(l)
  <2>1. PICK c \in Caches, id \in Ids : x = Request("TAGFL", c, id)
    BY <1>3 DEF PodOps
  <2>2. x.kind = "request" /\ x.op = "TAGFL" /\ x.cache = c
    BY <2>1, KindsApart
  <2>3. QED
    BY <2>2 DEF FlushOps
<1>4. QED
  BY <1>1, <1>2, <1>3

\* A read of the pod: a flush of everything, then the words of every job.
LEMMA BeginToHost ==
  ASSUME NetType, NetInv, TypeOK, FlushInv, DramInv, CacheInv, NEW jobs \in Jobs, Begin(DmaToHost(jobs))
  PROVE  NetType' /\ NetInv' /\ TodoInv' /\ FlushInv' /\ DramInv' /\ CacheInv'
<1>1. PICK f \in Seq(Items), l \in Seq(Items) :
        /\ FlushPod = f \o l
        /\ ToSet(f) \subseteq PodOps("TAGFL")
        /\ \A c \in Caches, id \in Ids : Request("TAGFL", c, id) \in ToSet(f)
        /\ ToSet(l) = {Load(c, 0) : c \in Caches}
  BY FlushPodIs
<1> DEFINE reads == [i \in DOMAIN jobs |-> ReadSpan(jobs[i])]
           d == FlattenSeq(reads)
<1>2. reads \in Seq(Seq(Reads))
  <2>1. jobs \in Seq(SUBSET Words)
    BY JobsAssumption
  <2>2. \A i \in DOMAIN jobs : ReadSpan(jobs[i]) \in Seq(Reads)
    <3>1. \A i \in DOMAIN jobs : jobs[i] \in SUBSET Words
      BY <2>1
    <3>2. QED
      BY <3>1, ReadSpanIs
  <2>3. QED
    BY <2>1, <2>2
<1>3. d \in Seq(Reads)
  <2> HIDE DEF reads
  <2>1. QED
    BY <1>2, FlattenOf
<1>4. DmaToHost(jobs) = f \o l \o d
  BY <1>1 DEF DmaToHost
<1> HIDE DEF reads, d
<1> DEFINE s == f \o l \o d
<1>5. Staged(s) /\ ToSet(s) = ToSet(f) \cup ToSet(l) \cup ToSet(d) /\ Budget(s, writes)
  <2>1. /\ \A x \in ToSet(f) : /\ x.kind = "request" /\ x.op \in FlushOps
                               /\ \E e \in Epas : Load(x.cache, e) \in ToSet(l)
        /\ \A x \in ToSet(l) : x.kind = "load"
    BY <1>1, FlushItems
  <2>2. QED
    BY <2>1, <1>3, ReadCallStaged
<1>6. Begin(s)
  BY <1>4
<1> HIDE DEF s
<1>7. TodoInv'
  BY <1>5, <1>6 DEF Begin, TodoInv
<1>8. \A c \in Caches, id \in Ids : Request("TAGFL", c, id) \in ToSet(s)
  BY <1>1, <1>5
<1>9. \A x \in ToSet(s) : \/ x \in PodOps("TAGFL") \/ x \in {Load(c, 0) : c \in Caches} \/ x \in Reads
  BY <1>1, <1>3, <1>5, SetIn
<1>10. \A c, x : Request("TAGST", c, x) \notin ToSet(s) /\ Request("AINV", c, x) \notin ToSet(s)
  BY <1>9, KindsApart DEF PodOps, Reads
<1>11. \A c \in Caches, e \in Epas : s # <<Request("AINV", c, e)>>
  BY <1>10, SetOfOne
<1>12. \A c \in Caches, id \in Ids : MustFlush(c, id)' => FlushToSend(c, id)'
  BY <1>6, <1>8, PodFlushes
<1>13. QED
  BY <1>6, <1>7, <1>10, <1>11, <1>12, BeginSteady

\* A write of the pod: a flush of everything, the jobs, and a drop of every
\* line.
LEMMA BeginToDevice ==
  ASSUME NetType, NetInv, TypeOK, FlushInv, DramInv, CacheInv, NEW jobs \in Jobs,
         writes + Len(jobs) <= MaxWrites, Begin(DmaToDevice(jobs))
  PROVE  NetType' /\ NetInv' /\ TodoInv' /\ FlushInv' /\ DramInv' /\ CacheInv'
<1>1. PICK f \in Seq(Items), l \in Seq(Items) :
        /\ FlushPod = f \o l
        /\ ToSet(f) \subseteq PodOps("TAGFL")
        /\ \A c \in Caches, id \in Ids : Request("TAGFL", c, id) \in ToSet(f)
        /\ ToSet(l) = {Load(c, 0) : c \in Caches}
  BY FlushPodIs
<1> DEFINE d == DmaWrites(jobs)
           t == InvalidatePod
<1>2. /\ d \in Seq(Items) /\ Len(d) = Len(jobs) /\ DOMAIN d = 1 .. Len(d) /\ Len(d) \in Nat
      /\ \A x \in ToSet(d) : x.kind = "dma_write"
  <2>1. jobs \in Seq(SUBSET Words)
    BY JobsAssumption
  <2>2. \A i \in DOMAIN jobs : DmaWrite(jobs[i]) \in Items /\ DmaWrite(jobs[i]).kind = "dma_write"
    BY <2>1, OtherItems, KindsApart
  <2>3. QED
    BY <2>1, <2>2 DEF DmaWrites, ToSet
<1>3. /\ t \in Seq(Items) /\ ToSet(t) \subseteq PodOps("TAGST")
      /\ \A c \in Caches, id \in Ids : Request("TAGST", c, id) \in ToSet(t)
  <2>1. t \in Seq(PodOps("TAGST")) /\ \A c \in Caches, id \in Ids : Request("TAGST", c, id) \in ToSet(t)
    BY PodCovered DEF InvalidatePod
  <2>2. PodOps("TAGST") \subseteq Items
    BY ItemsAre DEF PodOps
  <2> HIDE DEF t
  <2>3. QED
    BY <2>1, <2>2, SetIn
<1>4. DmaToDevice(jobs) = f \o l \o d \o t
  BY <1>1 DEF DmaToDevice
<1> HIDE DEF d, t
<1>5. \A x \in ToSet(t) : x.kind = "request" /\ x.op = "TAGST"
  BY <1>3, KindsApart DEF PodOps
<1>6. /\ \A x \in ToSet(f) : /\ x.kind = "request" /\ x.op \in FlushOps
                             /\ \E e \in Epas : Load(x.cache, e) \in ToSet(l)
      /\ \A x \in ToSet(l) : x.kind = "load"
  BY <1>1, FlushItems
<1> DEFINE s == f \o l \o d \o t
<1>7. Staged(s) /\ ToSet(s) = ToSet(f) \cup ToSet(l) \cup ToSet(d) \cup ToSet(t)
  <2>1. \A x \in ToSet(d) : x.kind \in {"dma_read", "dma_write"} /\ x.kind # "dma_read"
    BY <1>2
  <2>2. QED
    BY <2>1, <1>2, <1>3, <1>5, <1>6, StagedCall
<1>8. Budget(s, writes)
  <2> DEFINE u == f \o l
             v == u \o d
  <2>1. u \in Seq(Items) /\ v \in Seq(Items)
    BY <1>2
  <2>2. ToSet(u) = ToSet(f) \cup ToSet(l)
    BY SetOfConcat
  <2>3. s = v \o t
    OBVIOUS
  <2> HIDE DEF u
  <2>4. /\ Len(u) \in Nat /\ DOMAIN u = 1 .. Len(u) /\ DOMAIN v = 1 .. Len(u) + Len(d)
        /\ Len(v) = Len(u) + Len(d)
        /\ \A i \in 1 .. Len(u) : v[i] = u[i]
    <3>1. d \in Seq(Items)
      BY <1>2
    <3>2. QED
      BY ONLY <3>1, <2>1, ConcatOf
  <2> HIDE DEF v, s
  <2>5. /\ Len(t) \in Nat /\ DOMAIN t = 1 .. Len(t) /\ DOMAIN s = 1 .. Len(v) + Len(t)
        /\ \A i \in 1 .. Len(v) : s[i] = v[i]
        /\ \A i \in Len(v) + 1 .. Len(v) + Len(t) : s[i] = t[i - Len(v)] /\ i - Len(v) \in 1 .. Len(t)
    BY <1>3, <2>1, <2>3, ConcatOf
  <2>6. /\ \A i \in 1 .. Len(u) : u[i].kind # "dma_write" /\ ~(u[i].kind = "request" /\ u[i].op = "store")
        /\ \A i \in 1 .. Len(t) : t[i].kind = "request" /\ t[i].op = "TAGST"
    <3>1. /\ \A i \in 1 .. Len(u) : u[i] \in ToSet(u)
          /\ \A i \in 1 .. Len(t) : t[i] \in ToSet(t)
      BY <2>4, <2>5 DEF ToSet
    <3>2. QED
      BY <3>1, <2>2, <1>5, <1>6 DEF FlushOps
  <2>7. \A i \in DOMAIN s : IsWrite(s[i]) => i \in Len(u) + 1 .. Len(u) + Len(d)
    <3>1. SUFFICES ASSUME NEW i \in 1 .. Len(v) + Len(t), IsWrite(s[i]), i \notin Len(u) + 1 .. Len(u) + Len(d)
                   PROVE  FALSE
      BY <2>5
    <3>2. CASE i \in 1 .. Len(u)
      <4>1. s[i] = u[i]
        BY <3>2, <2>4, <2>5, <1>2
      <4>2. QED
        BY <4>1, <3>1, <3>2, <2>6 DEF IsWrite
    <3>3. CASE i > Len(v)
      <4>1. i - Len(v) \in 1 .. Len(t) /\ s[i] = t[i - Len(v)]
        BY <3>1, <3>3, <2>4, <2>5, <1>2
      <4>2. QED
        BY <4>1, <3>1, <2>6 DEF IsWrite
    <3>4. QED
      BY <3>1, <3>2, <3>3, <2>4, <2>5, <1>2
  <2>8. writes \in Nat /\ MaxWrites \in Nat
    BY SizesAssumption DEF TypeOK, Vals
  <2>9. QED
    BY <2>4, <2>7, <2>8, <1>2 DEF Budget
<1>9. Begin(s)
  BY <1>4
<1> HIDE DEF s
<1>10. TodoInv'
  BY <1>7, <1>8, <1>9 DEF Begin, TodoInv
<1>11. \A c \in Caches, id \in Ids : Request("TAGFL", c, id) \in ToSet(s)
  BY <1>1, <1>7
<1>12. \A c \in Caches : Load(c, 0) \in ToSet(s) /\ Load(c, 0).kind = "load"
  BY <1>1, <1>7, KindsApart
<1>13. \A c \in Caches, e \in Epas : s # <<Request("AINV", c, e)>>
  <2>1. SUFFICES ASSUME NEW c \in Caches, NEW e \in Epas, s = <<Request("AINV", c, e)>> PROVE FALSE
    OBVIOUS
  <2>2. Load(c, 0) = Request("AINV", c, e)
    BY <2>1, <1>12, SetOfOne
  <2>3. QED
    BY <2>2, KindsApart
<1>14. \A c \in Caches, id \in Ids : MustFlush(c, id)' => FlushToSend(c, id)'
  BY <1>9, <1>11, PodFlushes
<1>15. QED
  BY <1>9, <1>10, <1>12, <1>13, <1>14, BeginSteady

------------------------------------------------------------------------------
(* The invariant holds, and with it the properties.                         *)

LEMMA InitIInv == Init => IInv
<1>1. SUFFICES ASSUME Init PROVE IInv
  OBVIOUS
<1>2. Lines \in Nat \ {0} /\ Block \in Nat \ {0} /\ MaxWrites \in Nat /\ 0 \in Vals
  BY SizesAssumption DEF Vals
<1>3. /\ dram = [w \in Words |-> 0] /\ memory = [w \in Words |-> 0]
      /\ cached = [c \in Caches |-> [id \in Ids |-> -1]]
      /\ dirty = [c \in Caches |-> [id \in Ids |-> FALSE]]
      /\ data = [c \in Caches |-> [id \in Ids |-> [o \in 0 .. Block - 1 |-> 0]]]
      /\ net = [c \in Caches |-> <<>>] /\ todo = <<>> /\ writes = 0 /\ got = <<0, 0>>
  BY <1>1 DEF Init
<1>4. TypeOK
  BY <1>2, <1>3 DEF TypeOK
<1>5. \A c \in Caches : net[c] = <<>> /\ Sent(c) = {}
  BY <1>3, SetOfEmpty DEF Sent
<1>6. NetType
  <2>1. <<>> \in Seq(Requests)
    OBVIOUS
  <2>2. QED
    BY <2>1, <1>3 DEF NetType
<1>7. NetInv
  BY <1>5 DEF NetInv, QueuesOrdered, QueueOrdered, StoresFenced, LoadsAwaited, FlushesAwaited,
              OneLoad, LoadSent
<1>8. TodoInv
  <2>1. Staged(<<>>)
    BY SetOfEmpty DEF Staged, Ordered
  <2>2. QED
    BY <2>1, <1>3 DEF TodoInv, Budget
<1>9. DramInv
  BY <1>3 DEF DramInv, Words
<1>10. \A c \in Caches, id \in Ids : ~Alive(c, id)
  BY <1>3 DEF Alive
<1>11. FlushInv /\ CacheInv /\ ReadsFresh
  BY <1>3, <1>10 DEF FlushInv, CacheInv, ReadsFresh
<1>12. QED
  BY <1>4, <1>6, <1>7, <1>8, <1>9, <1>11 DEF IInv

\* A call begins.
LEMMA CallIInv ==
  ASSUME OneLine, IInv, WriteCall \/ ReadCall
  PROVE  IInv'
<1>1. NetType' /\ NetInv' /\ TodoInv' /\ FlushInv' /\ DramInv' /\ CacheInv'
  <2>1. CASE writes < MaxWrites /\ \E c \in Caches, e \in Epas : Begin(WriteMem(c, e))
    BY <2>1, BeginWrite DEF IInv
  <2>2. CASE writes < MaxWrites /\ \E c \in Caches, r \in Ranges : Begin(DmaWriteSafe(c, r[1], r[2]))
    BY <2>2, BeginDmaWrite DEF IInv
  <2>3. CASE \E jobs \in Jobs : writes + Len(jobs) <= MaxWrites /\ Begin(DmaToDevice(jobs))
    BY <2>3, BeginToDevice DEF IInv
  <2>4. CASE \E c \in Caches, e \in Epas : Begin(<<Load(c, e)>>)
    BY <2>4, BeginLoad DEF IInv
  <2>5. CASE \E c \in Caches, r \in Ranges : Begin(DmaReadSafe(c, r[1], r[2]))
    BY <2>5, BeginDmaRead DEF IInv
  <2>6. CASE \E jobs \in Jobs : Begin(DmaToHost(jobs))
    BY <2>6, BeginToHost DEF IInv
  <2>7. QED
    BY <2>1, <2>2, <2>3, <2>4, <2>5, <2>6 DEF WriteCall, ReadCall
<1>2. /\ dram' = dram /\ memory' = memory /\ writes' = writes /\ got' = got
      /\ cached' = cached /\ dirty' = dirty /\ data' = data
  BY DEF WriteCall, ReadCall, Begin, cacheVars
<1>3. TypeOK' /\ ReadsFresh'
  BY <1>2 DEF IInv, TypeOK, ReadsFresh
<1>4. QED
  BY <1>1, <1>3 DEF IInv

\* The host issues what is next in the call.
LEMMA HostIInv ==
  ASSUME IInv, Host
  PROVE  IInv'
<1> USE DEF IInv
<1>1. CASE IssueRequest
  <2>1. NetType' /\ NetInv' /\ writes' \in Vals /\ memory' \in [Words -> Vals]
        /\ (Head(todo).op # "store" => writes' = writes)
    BY <1>1, IssueNet
  <2>2. /\ todo # <<>> /\ Head(todo).kind = "request" /\ todo' = Tail(todo)
        /\ dram' = dram /\ cached' = cached /\ dirty' = dirty /\ data' = data /\ got' = got
        /\ (Head(todo).op = "store" => writes' = writes + 1)
    BY <1>1 DEF IssueRequest, cacheVars
  <2>3. FlushInv' /\ DramInv' /\ CacheInv'
    BY <1>1, IssueSteady, IssueStore
  <2>4. TodoInv'
    BY <2>1, <2>2, TodoNext DEF IsWrite
  <2>5. TypeOK' /\ ReadsFresh'
    BY <2>1, <2>2 DEF TypeOK, ReadsFresh
  <2>6. QED
    BY <2>1, <2>3, <2>4, <2>5
<1>2. CASE IssueLoad
  <2>1. /\ dram' = dram /\ cached' = cached /\ dirty' = dirty /\ data' = data /\ got' = got
        /\ writes' = writes /\ memory' = memory
    BY <1>2 DEF IssueLoad, cacheVars
  <2>2. TypeOK' /\ ReadsFresh'
    BY <2>1 DEF TypeOK, ReadsFresh
  <2>3. NetType' /\ NetInv' /\ TodoInv' /\ FlushInv' /\ DramInv' /\ CacheInv'
    BY <1>2, LoadNet, LoadSteady
  <2>4. QED
    BY <2>2, <2>3
<1>3. CASE FenceReturns
  <2>1. /\ dram' = dram /\ cached' = cached /\ dirty' = dirty /\ data' = data /\ got' = got
        /\ writes' = writes /\ memory' = memory /\ todo # <<>> /\ todo' = Tail(todo)
    BY <1>3 DEF FenceReturns, cacheVars
  <2>2. TypeOK' /\ ReadsFresh'
    BY <2>1 DEF TypeOK, ReadsFresh
  <2>3. NetType' /\ NetInv' /\ FlushInv' /\ DramInv' /\ CacheInv'
    BY <1>3, FenceSteady
  <2>4. TodoInv'
    BY <2>1, TodoNext
  <2>5. QED
    BY <2>2, <2>3, <2>4
<1>4. CASE TransferOut
  <2>1. /\ cached' = cached /\ dirty' = dirty /\ data' = data /\ got' = got
        /\ writes' = writes + 1 /\ todo # <<>> /\ todo' = Tail(todo)
        /\ Head(todo).kind = "dma_write"
    BY <1>4 DEF TransferOut, cacheVars
  <2>2. /\ NetType' /\ NetInv' /\ FlushInv' /\ DramInv' /\ CacheInv'
        /\ writes' \in Vals /\ dram' \in [Words -> Vals] /\ memory' \in [Words -> Vals]
    BY <1>4, TransferOutSteady
  <2>3. TodoInv'
    BY <2>1, TodoNext DEF IsWrite
  <2>4. TypeOK' /\ ReadsFresh'
    BY <2>1, <2>2 DEF TypeOK, ReadsFresh
  <2>5. QED
    BY <2>2, <2>3, <2>4
<1>5. CASE TransferIn
  <2>1. /\ dram' = dram /\ cached' = cached /\ dirty' = dirty /\ data' = data
        /\ writes' = writes /\ memory' = memory /\ todo # <<>> /\ todo' = Tail(todo)
    BY <1>5 DEF TransferIn, cacheVars
  <2>2. /\ NetType' /\ NetInv' /\ FlushInv' /\ DramInv' /\ CacheInv'
        /\ got' \in Vals \X Vals /\ ReadsFresh'
    BY <1>5, TransferInFresh
  <2>3. TodoInv'
    BY <2>1, TodoNext
  <2>4. TypeOK'
    BY <2>1, <2>2 DEF TypeOK
  <2>5. QED
    BY <2>2, <2>3, <2>4
<1>6. QED
  BY <1>1, <1>2, <1>3, <1>4, <1>5 DEF Host

\* A cache serves a request.
LEMMA ServeIInv ==
  ASSUME IInv, NEW c \in Caches, Serve(c)
  PROVE  IInv'
<1> USE DEF IInv
<1>1. /\ net[c] # <<>> /\ net' = [net EXCEPT ![c] = Tail(@)]
      /\ writes' = writes /\ memory' = memory
      /\ \/ \E id \in Ids : ServeAccess(c, Head(net[c]), id)
         \/ \E id \in Ids : ServeFlush(c, Head(net[c]), id)
         \/ \E id \in Ids : ServeDrop(c, Head(net[c]), id)
         \/ ServeNothing(c, Head(net[c]))
  BY DEF Serve
<1>2. ASSUME todo' = todo PROVE TodoInv'
  BY <1>1, <1>2 DEF TodoInv
<1>3. ASSUME got' = got PROVE ReadsFresh'
  BY <1>3 DEF ReadsFresh
<1>4. ASSUME NEW id \in Ids, ServeAccess(c, Head(net[c]), id) PROVE IInv'
  <2>1. CASE Head(net[c]).op = "load"
    BY <1>1, <1>4, <2>1, ServeLoadFresh
  <2>2. CASE Head(net[c]).op # "load"
    <3>1. Head(net[c]).op = "store" /\ got' = got
      BY <1>4, <2>2 DEF ServeAccess
    <3>2. NetType' /\ NetInv' /\ todo' = todo /\ FlushInv' /\ DramInv' /\ CacheInv' /\ TypeOK'
      BY <1>1, <1>4, <3>1, ServeStoreSteady
    <3>3. QED
      BY <1>2, <1>3, <3>1, <3>2
  <2>3. QED
    BY <2>1, <2>2
<1>5. ASSUME NEW id \in Ids, ServeFlush(c, Head(net[c]), id) PROVE IInv'
  <2>1. todo' = todo /\ got' = got
    BY <1>5 DEF ServeFlush
  <2>2. NetType' /\ NetInv' /\ FlushInv' /\ DramInv' /\ CacheInv' /\ TypeOK'
    BY <1>1, <1>5, ServeFlushSteady
  <2>3. QED
    BY <1>2, <1>3, <2>1, <2>2
<1>6. ASSUME NEW id \in Ids, ServeDrop(c, Head(net[c]), id) PROVE IInv'
  <2>1. todo' = todo /\ got' = got
    BY <1>6 DEF ServeDrop
  <2>2. NetType' /\ NetInv' /\ FlushInv' /\ DramInv' /\ CacheInv' /\ TypeOK'
    BY <1>1, <1>6, ServeDropSteady
  <2>3. QED
    BY <1>2, <1>3, <2>1, <2>2
<1>7. ASSUME ServeNothing(c, Head(net[c])) PROVE IInv'
  <2>1. todo' = todo /\ got' = got
    BY <1>7 DEF ServeNothing
  <2>2. NetType' /\ NetInv' /\ FlushInv' /\ DramInv' /\ CacheInv' /\ TypeOK'
    BY <1>1, <1>7, ServeNothingSteady
  <2>3. QED
    BY <1>2, <1>3, <2>1, <2>2
<1>8. QED
  BY ONLY <1>1, <1>4, <1>5, <1>6, <1>7

LEMMA CacheIInv ==
  ASSUME IInv, Cache
  PROVE  IInv'
<1>1. PICK c \in Caches : Serve(c) \/ Miss(c) \/ \E e \in Epas : KernelStore(c, e)
  BY DEF Cache
<1>2. CASE Serve(c)
  BY <1>2, ServeIInv
<1>3. CASE Miss(c)
  BY <1>3, MissSteady DEF IInv, ReadsFresh
<1>4. CASE \E e \in Epas : KernelStore(c, e)
  BY <1>4, KernelStoreSteady DEF IInv, ReadsFresh
<1>5. QED
  BY <1>1, <1>2, <1>3, <1>4

LEMMA StillIInv ==
  ASSUME IInv, UNCHANGED vars
  PROVE  IInv'
<1>1. /\ dram' = dram /\ cached' = cached /\ dirty' = dirty /\ data' = data /\ net' = net
      /\ todo' = todo /\ writes' = writes /\ memory' = memory /\ got' = got
  BY DEF vars, cacheVars
<1>2. TypeOK' /\ NetType' /\ TodoInv' /\ ReadsFresh'
  BY <1>1 DEF IInv, TypeOK, NetType, TodoInv, ReadsFresh
<1>3. \A c : Sent(c)' = Sent(c)
  BY <1>1 DEF Sent
<1>4. NetInv'
  BY <1>1, <1>3 DEF IInv, NetInv, QueuesOrdered, StoresFenced, LoadsAwaited, FlushesAwaited, OneLoad,
                    LoadSent, Answering, Todo
<1>5. FlushInv' /\ DramInv' /\ CacheInv'
  <2>1. /\ \A c, e : Storeable(c, e)' <=> Storeable(c, e)
        /\ \A c, id : DropSent(c, id)' <=> DropSent(c, id)
        /\ \A c, id : FlushSent(c, id)' <=> FlushSent(c, id)
    BY <1>1, <1>3 DEF Storeable, DropSent, FlushSent, LineOf
  <2>2. \A c, id : Doomed(c, id)' <=> Doomed(c, id)
    BY <1>1, <2>1 DEF Doomed, Flushed, Todo, LineOf
  <2>3. \A c, id : MustFlush(c, id)' <=> MustFlush(c, id)
    BY <1>1 DEF MustFlush, Todo, LineOf
  <2>4. \A c, id : FlushPending(c, id)' <=> FlushPending(c, id)
    BY <1>1, <2>1 DEF FlushPending, FlushToSend, Todo, LineOf
  <2>5. \A c, id : Doomed(c, id)' /\ Alive(c, id) => ~dirty[c][id]
    BY <2>2 DEF Alive
  <2>6. QED
    BY <1>1, <2>1, <2>2, <2>3, <2>4, <2>5, Steady DEF IInv
<1>6. QED
  BY <1>2, <1>4, <1>5 DEF IInv

LEMMA NextIInv ==
  ASSUME OneLine
  PROVE  IInv /\ [Next]_vars => IInv'
  BY CallIInv, HostIInv, CacheIInv, StillIInv DEF Next

\* However the caches serve what they were sent and evict lines meanwhile,
\* the requests in their queues are ordered, every flush is awaited by a load
\* and the last value written to a word is where the next reader will find it.
THEOREM InvariantHolds ==
  ASSUME OneLine
  PROVE  Spec => []IInv
<1>1. IInv /\ [Next]_vars => IInv'
  BY NextIInv
<1>2. QED
  BY <1>1, InitIInv, PTL DEF Spec

\* The words, lines and values stay in their ranges, and no line is in two
\* ways of a cache.
THEOREM TypeOKHolds ==
  ASSUME OneLine
  PROVE  Spec => []TypeOK
<1>1. IInv => TypeOK
  BY DEF IInv
<1>2. QED
  BY <1>1, InvariantHolds, PTL

\* A load of the host and a DMA read return the value last written, whether it
\* was written by a store of the host, by a kernel or by DMA.
THEOREM ReadsFreshHolds ==
  ASSUME OneLine
  PROVE  Spec => []ReadsFresh
<1>1. IInv => ReadsFresh
  BY DEF IInv
<1>2. QED
  BY <1>1, InvariantHolds, PTL

LEMMA IdleCoherent == IInv => Coherent
<1>1. SUFFICES ASSUME IInv, todo = <<>>, Drained, NEW w \in Words
               PROVE  Visible(w[1], w[2]) = memory[w]
  BY DEF Coherent
<1>2. PICK c \in Caches, e \in Epas : w = <<c, e>>
  BY DEF Words
<1>3. ~Storeable(c, e) /\ \A id \in Ids : ~Doomed(c, id)
  <2>1. \A id \in Ids : ~Doomed(c, id)
    BY <1>1, IdleAlive
  <2>2. Sent(c) = {}
    BY <1>1, SetOfEmpty DEF Drained, Sent
  <2>3. QED
    BY <2>1, <2>2 DEF Storeable
<1>4. CASE \E id \in Ids : Holds(c, id, LineOf(e))
  <2> DEFINE k == CHOOSE id \in Ids : Holds(c, id, LineOf(e))
  <2>1. k \in Ids /\ Holds(c, k, LineOf(e))
    BY <1>4
  <2>2. Visible(c, e) = data[c][k][e % Block]
    BY <1>4 DEF Visible
  <2> HIDE DEF k
  <2>3. cached[c][k] # -1
    BY <2>1, WordOf, SizesAssumption DEF Holds
  <2>4. data[c][k][e % Block] = memory[<<c, e>>]
    BY <1>1, <1>3, <2>1, <2>3 DEF IInv, CacheInv, Alive
  <2>5. QED
    BY <1>2, <2>2, <2>4
<1>5. CASE ~\E id \in Ids : Holds(c, id, LineOf(e))
  <2>1. dram[<<c, e>>] = memory[<<c, e>>]
    BY <1>1, <1>3, <1>5 DEF IInv, DramInv
  <2>2. QED
    BY <1>2, <1>5, <2>1 DEF Visible
<1>6. QED
  BY <1>4, <1>5

\* Between calls, with every request served, each word read through the caches
\* has the value last written to it: no DMA write left a stale line behind and
\* no line written back overtook one.
THEOREM CoherentHolds ==
  ASSUME OneLine
  PROVE  Spec => []Coherent
<1>1. IInv => Coherent
  BY IdleCoherent
<1>2. QED
  BY <1>1, InvariantHolds, PTL

===============================================================================
