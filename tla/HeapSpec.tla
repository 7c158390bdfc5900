------------------------------ MODULE HeapSpec ------------------------------
(***************************************************************************)
(* What a program may rely on of the memory of a pod: what it is granted   *)
(* is inside the heap, aligned, and apart from everything else it has been *)
(* granted and has not given back.                                         *)
(***************************************************************************)
EXTENDS Integers

CONSTANTS Align

VARIABLES
  heap,   \* <<first address, size>> of the heap, <<0, 0>> when there is none
  blocks  \* <<first address, size>> of the blocks granted

Extent(b) == b[1] .. b[1] + b[2] - 1
Apart(a, b) == Extent(a) \cap Extent(b) = {}

Init == heap = <<0, 0>> /\ blocks = {}

Create  == heap'[1] \in Nat /\ heap'[2] \in Nat /\ blocks' = {}
Destroy == heap' = <<0, 0>> /\ blocks' = {}

Grant(b) ==
  /\ b[2] > 0 /\ b[1] % Align = 0
  /\ Extent(b) \subseteq Extent(heap)
  /\ \A a \in blocks : Apart(a, b)
  /\ blocks' = blocks \cup {b}
  /\ heap' = heap

Return(b) == b \in blocks /\ blocks' = blocks \ {b} /\ heap' = heap

\* The heap is created or destroyed, or one block is granted or taken back.
Next ==
  \/ Create
  \/ Destroy
  \/ \E b \in blocks' \ blocks : Grant(b)
  \/ \E b \in blocks \ blocks' : Return(b)

Spec == Init /\ [][Next]_<<heap, blocks>>
=============================================================================
