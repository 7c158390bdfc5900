---------------------------- MODULE MCDeviceHeap ----------------------------
(***************************************************************************)
(* DeviceHeap on heaps of a few blocks.                                    *)
(***************************************************************************)
EXTENDS DeviceHeap

\* Two bytes to the block: requests of nothing, one block, and more.
FewSizes == {0, 1, 3}
SomeEnds == {DramBase, DramBase + 1}
OneEnd   == {DramBase + 1}
=============================================================================
