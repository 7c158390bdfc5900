----------------------------- MODULE MCVCacheDma -----------------------------
(***************************************************************************)
(* VCacheDma on small caches.                                              *)
(***************************************************************************)
EXTENDS VCacheDma

\* Whole lines, one at a time.
WholeLines == {<<l * Block, Block>> : l \in 0 .. Lines - 1}

\* A word of every bank; the words of a bank, one after the other.
AcrossBanks == {<<Caches \X {e}>> : e \in Epas}
WordByWord == {<<{<<c, 0>>}, {<<c, Block>>}>> : c \in Caches}
Mixed == AcrossBanks \cup WordByWord

\* Two lines.
TwoLines == {<<0, 2 * Block>>}
=============================================================================
