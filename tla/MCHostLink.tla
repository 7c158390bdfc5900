----------------------------- MODULE MCHostLink -----------------------------
(***************************************************************************)
(* HostLink on small instances: two words per packet, two or three host    *)
(* credits.                                                                *)
(***************************************************************************)
EXTENDS HostLink

\* A stack that never held a fence's result: the locals start as zero.
CleanStack == {<<0, 0>>}

\* A stack on which the previous fence left its two locals.
UsedStack == {<<0, 0>>, <<HostCredits, MaxOut>>}
=============================================================================
