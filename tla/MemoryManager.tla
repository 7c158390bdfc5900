---------------------------- MODULE MemoryManager ----------------------------
(***************************************************************************)
(* The allocator of a program (bsg_manycore_memory_manager.cpp).           *)
(*                                                                         *)
(* A manager keeps a list of free blocks, searched first fit, and the      *)
(* blocks it has handed out.  A freed block is put at the end of the free  *)
(* list; neighbours are merged only when the list has grown past a         *)
(* threshold.  A block is a pair of its address and its size; mAlignment   *)
(* and mCoalesceThreshold are the constants, the rest of a manager is a    *)
(* record.                                                                 *)
(***************************************************************************)
EXTENDS Integers, FiniteSets, SequencesExt

CONSTANTS
  Align,      \* mAlignment: the unit of allocation
  Threshold,  \* mCoalesceThreshold
  Null        \* mNull: no address

ASSUME ManagerAssumption == {Align, Threshold} \subseteq Nat \ {0} /\ Null \in Nat

\* The constructor.  The order of the busy list is never looked at.
Manager(start, size) ==
  [start    |-> start,           \* mStart
   size     |-> size,            \* mSize
   free     |-> <<<<start, size>>>>,  \* mFreeBufferList
   busy     |-> {},              \* mBusyBufferList
   freeSize |-> size]            \* mFreeSize

\* The size of a block for a request: whole units, and at least one.
Padded(n) == IF n = 0 THEN Align ELSE n + ((Align - (n % Align)) % Align)

\* The first free block large enough; 0 when there is none.
FirstFit(m, n) == SelectInSeq(m.free, LAMBDA b : b[2] >= n)

\* Mutant: the entry keeps its start.
ShrunkAtEnd(list, i, n) ==
  IF list[i][2] > n THEN ReplaceAt(list, i, <<list[i][1], list[i][2] - n>>)
                    ELSE RemoveAt(list, i)

\* A free list without the first n bytes of its i-th block.
Shrunk(list, i, n) ==
  IF list[i][2] > n THEN ReplaceAt(list, i, <<list[i][1] + n, list[i][2] - n>>)
                    ELSE RemoveAt(list, i)

\* The address alloc returns for n bytes.
AllocAt(m, n) ==
  LET i == FirstFit(m, Padded(n)) IN IF i = 0 THEN Null ELSE m.free[i][1]

\* The manager once alloc has returned.
Alloc(m, n) ==
  LET i == FirstFit(m, Padded(n))
  IN IF i = 0 THEN m
     ELSE [m EXCEPT !.free     = Shrunk(@, i, Padded(n)),
                    !.busy     = @ \cup {<<m.free[i][1], Padded(n)>>},
                    !.freeSize = @ - Padded(n)]

\* The list sorted by address: the block of each rank.  The sort is stable.
Rank(list, i) ==
  Cardinality({j \in DOMAIN list :
    list[j][1] < list[i][1] \/ (list[j][1] = list[i][1] /\ j <= i)})
Sorted(list) == [k \in DOMAIN list |-> list[CHOOSE i \in DOMAIN list : Rank(list, i) = k]]

\* A block joins the last one of a sorted list when it starts where that ends.
Joined(list, b) ==
  IF list # <<>> /\ Last(list)[1] + Last(list)[2] = b[1]
    THEN Append(Front(list), <<Last(list)[1], Last(list)[2] + b[2]>>)
    ELSE Append(list, b)

\* Mutant: neighbours in the list are merged without being sorted first.
CoalescedUnsorted(list) ==
  FoldLeft(LAMBDA l, b : IF l = <<>> THEN <<b>>
                         ELSE Append(Front(l), <<Last(l)[1], Last(l)[2] + b[2]>>), <<>>, list)

\* coalesce: sort, then merge neighbours.
Coalesced(list) == FoldLeft(Joined, <<>>, Sorted(list))

\* Mutant: the list is never merged.
AfterFreeNever(list) == list

AfterFree(list) == IF Len(list) > Threshold THEN Coalesced(list) ELSE list

\* Mutant: the block is counted twice.
FreedTwice(m, b) == m.freeSize + 2 * b[2]

\* mFreeSize once a block has been freed.
Freed(m, b) == m.freeSize + b[2]

\* The manager once free has returned: an address that is not the start of a
\* block handed out is ignored.
Free(m, buf) ==
  IF \E b \in m.busy : b[1] = buf
    THEN LET b == CHOOSE x \in m.busy : x[1] = buf
         IN [m EXCEPT !.free = AfterFree(Append(@, b)), !.busy = @ \ {b}, !.freeSize = Freed(m, b)]
    ELSE m
=============================================================================
